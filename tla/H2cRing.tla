------------------------------ MODULE H2cRing ------------------------------
(***************************************************************************)
(* One host-to-card descriptor ring: the driver's ProducerRing             *)
(* (ring/buffer/producer.rs), the card's mkRingbufH2c (Ringbuf.bsv) and    *)
(* the DMA reads between them.  Pointers carry a guard bit above the index *)
(* so that a full ring differs from an empty one.                          *)
(*                                                                         *)
(* The driver checks the space, writes the descriptors and publishes the   *)
(* new head in separate steps; the card requests a block of descriptors,   *)
(* reads them from host memory beat by beat and advances its tail as the   *)
(* beats arrive.  Every interleaving of the two is a behaviour.            *)
(***************************************************************************)
EXTENDS Integers, Sequences

CONSTANTS
    Desc,         \* descriptors
    BUF_SIZE,     \* slots of the ring (4096)
    READ_BLOCK,   \* RINGBUF_DESC_ENTRY_PER_READ_BLOCK (16)
    MAX_BATCH     \* descriptors of one push (a work request takes two)

ASSUME RingAssumption ==
    /\ READ_BLOCK \in Nat \ {0}
    /\ BUF_SIZE \in Nat \ {0}
    /\ \E k \in 1 .. BUF_SIZE : BUF_SIZE = k * READ_BLOCK
    /\ MAX_BATCH \in Nat \ {0}
    /\ MAX_BATCH <= BUF_SIZE

VARIABLES
    mem,          \* the DMA buffer, slot -> descriptor
    cachedHead,   \* ProducerRing.cached_head, without the bits HW_PTR_MASK drops
    pc,           \* where the driver is in a push
    batch,        \* descriptors being pushed
    wrote,        \* how many of them are already in mem
    headReg,      \* the card's head CSR
    tailReg,      \* the card's tail CSR
    tailShadow,   \* tailShadowReg: end of the block being read
    waiting,      \* isWaitingDmaRespReg
    readAddr,     \* next slot the DMA engine reads
    toRead,       \* beats of the current block it has still to read
    dmaResp,      \* beats read from memory, not yet taken by the card
    bufQ,         \* the card's descriptor queue
    queued        \* history: descriptors published and not yet taken by the card

vars == <<mem, cachedHead, pc, batch, wrote, headReg, tailReg, tailShadow,
          waiting, readAddr, toRead, dmaResp, bufQ, queued>>

swVars   == <<cachedHead, pc, batch, wrote>>
cardVars == <<tailReg, tailShadow, waiting, readAddr, toRead, dmaResp, bufQ>>

Ptr  == 0 .. 2 * BUF_SIZE - 1
Slot == 0 .. BUF_SIZE - 1

Idx(p)       == p % BUF_SIZE          \* p & BUF_SIZE_MASK

PtrAdd(p, n) == (p + n) % (2 * BUF_SIZE)

\* Descriptors between tail and head.
Dist(head, tail) == (head - tail) % (2 * BUF_SIZE)

\* Mutant: equal indices always mean an empty ring.
Available_NoGuard(head, tail) ==
    IF Idx(tail) = Idx(head)
    THEN BUF_SIZE
    ELSE BUF_SIZE - ((Idx(head) - tail + BUF_SIZE) % BUF_SIZE)

Available(head, tail) ==
    IF Idx(tail) = Idx(head)
    THEN IF head = tail THEN BUF_SIZE ELSE 0
    ELSE BUF_SIZE - ((Idx(head) - tail + BUF_SIZE) % BUF_SIZE)

Init ==
    /\ mem \in [Slot -> Desc]
    /\ cachedHead = 0 /\ headReg = 0 /\ tailReg = 0 /\ tailShadow = 0
    /\ pc = "idle" /\ batch = <<>> /\ wrote = 0
    /\ waiting = FALSE /\ readAddr = 0 /\ toRead = 0
    /\ dmaResp = <<>> /\ bufQ = <<>> /\ queued = <<>>

(***************************************************************************)
(* The driver                                                              *)
(***************************************************************************)
Batches == UNION {[1 .. n -> Desc] : n \in 1 .. MAX_BATCH}

\* batch_write, try_push_atomic: the space check reads the tail CSR.
CheckSpace(b) ==
    /\ pc = "idle"
    /\ Available(cachedHead, tailReg) >= Len(b)
    /\ pc' = "write" /\ batch' = b /\ wrote' = 0
    /\ UNCHANGED <<mem, cachedHead, headReg, queued, cardVars>>

\* Mutant: the slot after the right one is written.
WriteDesc_NextSlot ==
    /\ pc = "write"
    /\ mem' = [mem EXCEPT ![Idx(cachedHead + wrote + 1)] = batch[wrote + 1]]
    /\ wrote' = wrote + 1
    /\ pc' = IF wrote + 1 = Len(batch) THEN "commit" ELSE "write"
    /\ UNCHANGED <<cachedHead, batch, headReg, queued, cardVars>>

WriteDesc ==
    /\ pc = "write"
    /\ mem' = [mem EXCEPT ![Idx(cachedHead + wrote)] = batch[wrote + 1]]
    /\ wrote' = wrote + 1
    /\ pc' = IF wrote + 1 = Len(batch) THEN "commit" ELSE "write"
    /\ UNCHANGED <<cachedHead, batch, headReg, queued, cardVars>>

\* write_head publishes the whole batch with one CSR write.
WriteHead ==
    /\ pc = "commit"
    /\ headReg' = PtrAdd(cachedHead, Len(batch))
    /\ cachedHead' = PtrAdd(cachedHead, Len(batch))
    /\ queued' = queued \o batch
    /\ pc' = "idle" /\ batch' = <<>> /\ wrote' = 0
    /\ UNCHANGED <<mem, cardVars>>

\* The CSR write fails: the error is returned before cached_head moves, and
\* every caller unwraps it, so the pushing worker is gone.
WriteHeadErr ==
    /\ pc = "commit"
    /\ pc' = "dead"
    /\ UNCHANGED <<mem, cachedHead, batch, wrote, headReg, queued, cardVars>>

(***************************************************************************)
(* The card                                                                *)
(***************************************************************************)
ReadBlock(p) == p \div READ_BLOCK

\* Mutant: the zero-based count is taken as a count.
ReadCnt_OffByOne ==
    IF ReadBlock(headReg) = ReadBlock(tailShadow)
    THEN (headReg - tailShadow) % READ_BLOCK
    ELSE READ_BLOCK - (tailShadow % READ_BLOCK) + 1

ReadCnt ==
    IF ReadBlock(headReg) = ReadBlock(tailShadow)
    THEN (headReg - tailShadow) % READ_BLOCK
    ELSE READ_BLOCK - (tailShadow % READ_BLOCK)

NewTailShadow ==
    IF ReadBlock(headReg) = ReadBlock(tailShadow)
    THEN headReg
    ELSE ((ReadBlock(tailShadow) + 1) * READ_BLOCK) % (2 * BUF_SIZE)

\* Mutant: only whole blocks are read.
SendDmaReq_WholeBlocks ==
    /\ ~waiting
    /\ ReadBlock(headReg) # ReadBlock(tailShadow)
    /\ bufQ = <<>>
    /\ waiting' = TRUE
    /\ readAddr' = Idx(tailShadow)
    /\ toRead' = ReadCnt
    /\ tailShadow' = NewTailShadow
    /\ UNCHANGED <<mem, swVars, headReg, tailReg, dmaResp, bufQ, queued>>

SendDmaReq ==
    /\ ~waiting
    /\ headReg # tailShadow
    /\ bufQ = <<>>
    /\ waiting' = TRUE
    /\ readAddr' = Idx(tailShadow)
    /\ toRead' = ReadCnt
    /\ tailShadow' = NewTailShadow
    /\ UNCHANGED <<mem, swVars, headReg, tailReg, dmaResp, bufQ, queued>>

\* The DMA engine reads consecutive addresses of host memory.
DmaRead ==
    /\ toRead > 0
    /\ dmaResp' = Append(dmaResp, [desc |-> mem[readAddr], isLast |-> toRead = 1])
    /\ readAddr' = readAddr + 1
    /\ toRead' = toRead - 1
    /\ UNCHANGED <<mem, swVars, headReg, tailReg, tailShadow, waiting, bufQ, queued>>

RecvDmaResp ==
    /\ waiting
    /\ dmaResp # <<>>
    /\ Len(bufQ) < READ_BLOCK
    /\ bufQ' = Append(bufQ, Head(dmaResp).desc)
    /\ dmaResp' = Tail(dmaResp)
    /\ tailReg' = PtrAdd(tailReg, 1)
    /\ waiting' = ~Head(dmaResp).isLast
    /\ queued' = Tail(queued)
    /\ UNCHANGED <<mem, swVars, headReg, tailShadow, readAddr, toRead>>

\* mkConnection(toGet(bufQ), toPut(outputQ)): downstream logic takes descriptors.
Output ==
    /\ bufQ # <<>>
    /\ bufQ' = Tail(bufQ)
    /\ UNCHANGED <<mem, swVars, headReg, tailReg, tailShadow, waiting, readAddr,
                   toRead, dmaResp, queued>>

Next ==
    \/ \E b \in Batches : CheckSpace(b)
    \/ WriteDesc
    \/ WriteHead
    \/ WriteHeadErr
    \/ SendDmaReq
    \/ DmaRead
    \/ RecvDmaResp
    \/ Output

\* The card's rules fire whenever they can, and a push that has started ends.
Fairness ==
    /\ WF_vars(SendDmaReq) /\ WF_vars(DmaRead) /\ WF_vars(RecvDmaResp)
    /\ WF_vars(Output)
    /\ WF_vars(WriteDesc) /\ WF_vars(WriteHead \/ WriteHeadErr)

Spec == Init /\ [][Next]_vars /\ Fairness
-----------------------------------------------------------------------------
Beat == [desc : Desc, isLast : BOOLEAN]

\* Every variable has its type; the driver's step counter agrees with its batch.
TypeOK ==
    /\ mem \in [Slot -> Desc]
    /\ cachedHead \in Ptr /\ headReg \in Ptr /\ tailReg \in Ptr /\ tailShadow \in Ptr
    /\ pc \in {"idle", "write", "commit", "dead"}
    /\ batch \in Seq(Desc) /\ Len(batch) <= MAX_BATCH
    /\ wrote \in 0 .. MAX_BATCH
    /\ waiting \in BOOLEAN
    /\ readAddr \in 0 .. BUF_SIZE
    /\ toRead \in 0 .. READ_BLOCK
    /\ dmaResp \in Seq(Beat)
    /\ bufQ \in Seq(Desc)
    /\ queued \in Seq(Desc)

\* The beat of the current block, or the slot, that holds the i-th descriptor
\* between the card's tail and its head.
InTransit(i) ==
    IF i <= Len(dmaResp) THEN dmaResp[i].desc ELSE mem[Idx(tailReg + i - 1)]

\* What the card takes is what the driver published, in order and unaltered:
\* while a descriptor is published and not taken, neither a later push (which
\* saw the tail CSR at some earlier moment) nor the end of the ring changes the
\* slot or the beat that carries it.
FifoIntegrity ==
    /\ Len(queued) = Dist(headReg, tailReg)
    /\ \A i \in 1 .. Len(queued) : InTransit(i) = queued[i]

\* The card never holds more than the ring: with the guard bit the distance
\* between the pointers never passes BUF_SIZE, and a push in progress fits in
\* the space that is still free when its last descriptor is written.
NoOverrun ==
    Dist(cachedHead, tailReg) + Len(batch) <= BUF_SIZE

\* immAssert(newTail == tailShadowReg) of recvDmaResp: the last beat of a block
\* brings the tail to the end of that block.
ShadowTailAssert ==
    (waiting /\ dmaResp # <<>> /\ Head(dmaResp).isLast)
        => PtrAdd(tailReg, 1) = tailShadow

\* A block read never crosses the end of the buffer: the DMA engine reads
\* consecutive addresses and does not wrap.
DmaInBounds == toRead > 0 => readAddr + toRead <= BUF_SIZE

\* A push in progress: the driver's head is the published one, and the slots
\* after it hold the descriptors written so far.
PushInv ==
    /\ headReg = cachedHead
    /\ pc = "idle" => batch = <<>> /\ wrote = 0
    /\ pc = "write" => wrote < Len(batch)
    /\ pc \in {"commit", "dead"} => wrote = Len(batch)
    /\ \A j \in 1 .. wrote : mem[Idx(cachedHead + j - 1)] = batch[j]

\* A block being read: its beats still to read and still to be taken lie between
\* the tail and the shadow tail, at consecutive addresses inside the buffer.
BlockInv ==
    /\ toRead + Len(dmaResp) = Dist(tailShadow, tailReg)
    /\ Dist(tailShadow, tailReg) <= Dist(headReg, tailReg)
    /\ waiting <=> (tailShadow # tailReg)
    /\ toRead > 0 => /\ readAddr = Idx(tailReg + Len(dmaResp))
                     /\ readAddr + toRead <= BUF_SIZE
    /\ \A i \in 1 .. Len(dmaResp) :
           dmaResp[i].isLast <=> (i = Len(dmaResp) /\ toRead = 0)

\* The inductive invariant behind the safety properties.
IInv == TypeOK /\ PushInv /\ NoOverrun /\ BlockInv /\ FifoIntegrity

\* Every published descriptor is taken: while the ring is not empty the tail
\* moves on, whatever the driver does (the descriptors leave in order, by
\* FifoIntegrity).
TailAdvances == []<>(tailReg = headReg) \/ []<><<tailReg' # tailReg>>_vars
============================================================================
