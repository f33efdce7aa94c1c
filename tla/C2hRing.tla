------------------------------ MODULE C2hRing ------------------------------
(***************************************************************************)
(* One card-to-host descriptor ring: the card's mkRingbufC2h (Ringbuf.bsv), *)
(* the DMA writes, and the driver's ConsumerRing (ring/buffer/consumer.rs). *)
(*                                                                         *)
(* The driver never looks at the head CSR: a slot is taken when its valid  *)
(* flag is set, cleared, and handed back by writing the tail CSR.  A       *)
(* message is one descriptor or a pair whose first half says has_next; the *)
(* halves may reach memory in different DMA writes.                        *)
(***************************************************************************)
EXTENDS Integers, Sequences, FiniteSetsExt

CONSTANTS
    Val,          \* contents of a message
    BUF_SIZE,     \* slots of the ring (4096)
    WRITE_BLOCK,  \* RINGBUF_DESC_ENTRY_PER_WRITE_BLOCK (4)
    QDEPTH        \* depth of the card's bufQ (8)

ASSUME C2hAssumption ==
    /\ BUF_SIZE \in Nat \ {0, 1}
    /\ WRITE_BLOCK \in 1 .. BUF_SIZE
    /\ BUF_SIZE % WRITE_BLOCK = 0
    /\ QDEPTH \in Nat \ {0}

VARIABLES
    mem,          \* the DMA buffer: a descriptor or Zero in each slot
    inFrag,       \* rest of the message entering the card's ring
    bufQ,         \* descriptors waiting in the card (validCounter is its length)
    headReg,      \* head CSR
    headShadow,   \* headShadowReg: next slot the card fills
    tailReg,      \* tail CSR
    sending,      \* isSendingDescBodyReg
    writeCnt,     \* zeroBasedDescWriteCntReg
    dmaData,      \* beats of the current block given to the DMA engine
    posted,       \* beats on their way to host memory
    inFlight,     \* inFlightWriteReqHeaadUpdateQ
    resp,         \* write responses not yet handled
    pc, cachedTail, want, got,   \* the driver inside try_pop
    expected      \* history: descriptors accepted by the card, not yet popped

cardVars == <<inFrag, bufQ, headReg, headShadow, sending, writeCnt, dmaData,
              posted, inFlight, resp>>
swVars   == <<pc, cachedTail, want, got>>
vars     == <<mem, cardVars, tailReg, swVars, expected>>

Slot == 0 .. BUF_SIZE - 1
Ptr  == 0 .. 2 * BUF_SIZE - 1

Zero    == [val |-> "none", valid |-> FALSE, hasNext |-> FALSE]
Desc    == [val : Val, valid : {TRUE}, hasNext : BOOLEAN]
Message ==
    {<<[val |-> v, valid |-> TRUE, hasNext |-> FALSE]>> : v \in Val} \cup
    {<<[val |-> v, valid |-> TRUE, hasNext |-> TRUE],
       [val |-> v, valid |-> TRUE, hasNext |-> FALSE]>> : v \in Val}

Idx(p)      == p % BUF_SIZE
Succ(p)     == (p + 1) % (2 * BUF_SIZE)
Dist(h, t)  == (h - t) % (2 * BUF_SIZE)

Init ==
    /\ mem = [s \in Slot |-> Zero]
    /\ inFrag = <<>> /\ bufQ = <<>> /\ dmaData = <<>> /\ posted = <<>>
    /\ inFlight = <<>> /\ resp = 0
    /\ headReg = 0 /\ headShadow = 0 /\ tailReg = 0 /\ cachedTail = 0
    /\ sending = FALSE /\ writeCnt = 0
    /\ pc = "idle" /\ want = 0 /\ got = <<>>
    /\ expected = <<>>

(***************************************************************************)
(* The card                                                                *)
(***************************************************************************)
Accept(d) ==
    /\ Len(bufQ) < QDEPTH
    /\ bufQ' = Append(bufQ, d)
    /\ expected' = Append(expected, d)
    /\ UNCHANGED <<mem, headReg, headShadow, sending, writeCnt, dmaData, posted,
                   inFlight, resp, tailReg, swVars>>

ForwardFirst(m) == inFrag = <<>> /\ inFrag' = Tail(m) /\ Accept(Head(m))
ForwardRest     == inFrag # <<>> /\ inFrag' = Tail(inFrag) /\ Accept(Head(inFrag))

\* Mutants: one slot too many; the head the CSR shows instead of the shadow.
FreeSlotCnt_OffByOne == BUF_SIZE + 1 - Dist(headShadow, tailReg)
FreeSlotCnt_StaleHead == BUF_SIZE - Dist(headReg, tailReg)

FreeSlotCnt == BUF_SIZE - Dist(headShadow, tailReg)
DescWriteCnt ==
    Min({WRITE_BLOCK - (headShadow % WRITE_BLOCK), Len(bufQ), FreeSlotCnt})

\* handleBatchDelay only postpones this rule by a bounded number of cycles.
PrepareDmaWrite ==
    /\ ~sending
    /\ bufQ # <<>>
    /\ FreeSlotCnt > 0
    /\ sending' = TRUE
    /\ writeCnt' = DescWriteCnt - 1
    /\ UNCHANGED <<mem, inFrag, bufQ, headReg, headShadow, dmaData, posted,
                   inFlight, resp, tailReg, swVars, expected>>

DoDmaWrite ==
    /\ sending
    /\ bufQ # <<>>
    /\ writeCnt = 0 => inFlight = <<>>
    /\ bufQ' = Tail(bufQ)
    /\ headShadow' = Succ(headShadow)
    /\ dmaData' = Append(dmaData, [slot |-> Idx(headShadow), desc |-> Head(bufQ),
                                   isLast |-> writeCnt = 0])
    /\ sending' = (writeCnt # 0)
    /\ inFlight' = IF writeCnt = 0 THEN <<Succ(headShadow)>> ELSE inFlight
    /\ writeCnt' = (writeCnt - 1) % WRITE_BLOCK
    /\ UNCHANGED <<mem, inFrag, headReg, posted, resp, tailReg, swVars, expected>>

\* The DMA converter answers when it has forwarded the last beat, which is
\* before that beat is in host memory.
ForwardBeat ==
    /\ dmaData # <<>>
    /\ dmaData' = Tail(dmaData)
    /\ posted' = Append(posted, [slot |-> Head(dmaData).slot,
                                 desc |-> Head(dmaData).desc])
    /\ resp' = IF Head(dmaData).isLast THEN resp + 1 ELSE resp
    /\ UNCHANGED <<mem, inFrag, bufQ, headReg, headShadow, sending, writeCnt,
                   inFlight, tailReg, swVars, expected>>

\* A posted write reaches host memory; posted writes stay in order.
Land ==
    /\ posted # <<>>
    /\ posted' = Tail(posted)
    /\ mem' = [mem EXCEPT ![Head(posted).slot] = Head(posted).desc]
    /\ UNCHANGED <<inFrag, bufQ, headReg, headShadow, sending, writeCnt, dmaData,
                   inFlight, resp, tailReg, swVars, expected>>

HandleWriteResp ==
    /\ resp > 0
    /\ inFlight # <<>>
    /\ resp' = resp - 1
    /\ headReg' = Head(inFlight)
    /\ inFlight' = Tail(inFlight)
    /\ UNCHANGED <<mem, inFrag, bufQ, headShadow, sending, writeCnt, dmaData,
                   posted, tailReg, swVars, expected>>

(***************************************************************************)
(* The driver: try_pop                                                     *)
(***************************************************************************)
First  == mem[Idx(cachedTail)]
Second == mem[Idx(cachedTail + 1)]

\* Mutants: trusting the head CSR instead of the valid flag; not looking at the
\* second half of a pair.
TryPop_HeadCsr ==
    /\ pc = "idle"
    /\ Dist(headReg, cachedTail) \in 1 .. BUF_SIZE
    /\ want' = IF First.hasNext THEN 2 ELSE 1
    /\ pc' = "read" /\ got' = <<>>
    /\ UNCHANGED <<mem, cardVars, tailReg, cachedTail, expected>>

TryPop_FirstOnly ==
    /\ pc = "idle"
    /\ First.valid
    /\ want' = IF First.hasNext THEN 2 ELSE 1
    /\ pc' = "read" /\ got' = <<>>
    /\ UNCHANGED <<mem, cardVars, tailReg, cachedTail, expected>>

\* When a half is missing try_pop returns None and changes nothing.
TryPop ==
    /\ pc = "idle"
    /\ First.valid
    /\ First.hasNext => Second.valid
    /\ want' = IF First.hasNext THEN 2 ELSE 1
    /\ pc' = "read" /\ got' = <<>>
    /\ UNCHANGED <<mem, cardVars, tailReg, cachedTail, expected>>

\* The slot is read, zeroed and passed.
ReadAndAdvance ==
    /\ pc = "read"
    /\ got' = Append(got, First)
    /\ mem' = [mem EXCEPT ![Idx(cachedTail)] = Zero]
    /\ cachedTail' = Succ(cachedTail)
    /\ want' = want - 1
    /\ pc' = IF want = 1 THEN "csr" ELSE "read"
    /\ UNCHANGED <<cardVars, tailReg, expected>>

\* Mutant: the guard bit is stripped from the tail CSR.
WriteTailCsr_NoGuard ==
    /\ pc = "csr"
    /\ tailReg' = Idx(cachedTail)
    /\ expected' = SubSeq(expected, Len(got) + 1, Len(expected))
    /\ pc' = "idle" /\ got' = <<>>
    /\ UNCHANGED <<mem, cardVars, cachedTail, want>>

WriteTailCsr ==
    /\ pc = "csr"
    /\ tailReg' = cachedTail
    /\ expected' = SubSeq(expected, Len(got) + 1, Len(expected))
    /\ pc' = "idle" /\ got' = <<>>
    /\ UNCHANGED <<mem, cardVars, cachedTail, want>>

\* The CSR write fails: try_pop returns the error, and every caller unwraps it,
\* so the polling worker is gone with the message it had taken.
WriteTailErr ==
    /\ pc = "csr"
    /\ pc' = "dead"
    /\ UNCHANGED <<mem, cardVars, tailReg, cachedTail, want, got, expected>>

Next ==
    \/ \E m \in Message : ForwardFirst(m)
    \/ ForwardRest
    \/ PrepareDmaWrite
    \/ DoDmaWrite
    \/ ForwardBeat
    \/ Land
    \/ HandleWriteResp
    \/ TryPop
    \/ ReadAndAdvance
    \/ WriteTailCsr
    \/ WriteTailErr

\* Rules of the card and the DMA engine fire whenever they can; the second half
\* of a message follows the first; the driver's worker polls for ever.
Fairness ==
    /\ WF_vars(ForwardRest) /\ WF_vars(PrepareDmaWrite) /\ WF_vars(DoDmaWrite)
    /\ WF_vars(ForwardBeat) /\ WF_vars(Land) /\ WF_vars(HandleWriteResp)
    /\ WF_vars(TryPop) /\ WF_vars(ReadAndAdvance) /\ WF_vars(WriteTailCsr \/ WriteTailErr)

Spec == Init /\ [][Next]_vars /\ Fairness
-----------------------------------------------------------------------------
\* What try_pop returns is, in order, what the card accepted: no descriptor is
\* read before it is in memory, twice, or after a later one replaced it.
PopIntegrity == \A i \in 1 .. Len(got) : got[i] = expected[i]

\* try_pop returns whole messages: it never splits a pair whose halves arrive in
\* different DMA writes, and never joins two messages.
WholeMessages == pc = "csr" => got \in Message

\* A DMA write lands only on a slot the driver has zeroed: it overwrites no
\* unread descriptor, and the driver's zeroing never erases a later one.
LandsOnFreeSlot == posted # <<>> => mem[Head(posted).slot] = Zero

\* The card's free-slot count is right although the driver may pop a descriptor
\* before the head CSR says it is there: the tail never passes the next slot the
\* card fills, and never falls more than a ring behind it.
TailBehindShadow ==
    /\ Dist(headShadow, tailReg) <= BUF_SIZE
    /\ Dist(headShadow, cachedTail) <= Dist(headShadow, tailReg)

Beat  == [slot : Slot, desc : Desc]
Write == [slot : Slot, desc : Desc, isLast : BOOLEAN]
Half(d) == [val |-> d.val, valid |-> TRUE, hasNext |-> FALSE]

\* Every variable has its type.
TypeOK ==
    /\ mem \in [Slot -> Desc \cup {Zero}]
    /\ inFrag \in Seq(Desc) /\ bufQ \in Seq(Desc) /\ expected \in Seq(Desc)
    /\ dmaData \in Seq(Write) /\ posted \in Seq(Beat)
    /\ inFlight \in Seq(Ptr) /\ resp \in Nat
    /\ headReg \in Ptr /\ headShadow \in Ptr /\ tailReg \in Ptr /\ cachedTail \in Ptr
    /\ sending \in BOOLEAN /\ writeCnt \in 0 .. WRITE_BLOCK - 1
    /\ pc \in {"idle", "read", "csr", "dead"}
    /\ want \in 0 .. 2 /\ got \in Seq(Desc)

\* Descriptors with a slot that the driver has not read, and those of them that
\* are in memory.
Unread == Dist(headShadow, cachedTail)
Landed == Unread - Len(posted) - Len(dmaData)

\* The pointers: the driver is ahead of the tail CSR by what it has taken, and a
\* block being written has its descriptors and its slots.
PointerInv ==
    /\ Dist(cachedTail, tailReg) = Len(got)
    /\ Dist(headShadow, tailReg) = Len(got) + Unread
    /\ Len(expected) = Len(got) + Unread + Len(bufQ)
    /\ Landed >= 0
    /\ Len(got) + Unread <= BUF_SIZE
    /\ sending => /\ writeCnt < Len(bufQ)
                  /\ Len(got) + Unread + writeCnt < BUF_SIZE

\* Where the accepted descriptors are: taken by the driver, in memory, posted,
\* given to the DMA engine, or in bufQ; all other slots are zero.
PlaceInv ==
    /\ \A k \in 0 .. BUF_SIZE - 1 :
         mem[Idx(cachedTail + k)] = IF k < Landed THEN expected[Len(got) + k + 1] ELSE Zero
    /\ \A j \in 1 .. Len(posted) :
         /\ posted[j].slot = Idx(cachedTail + Landed + j - 1)
         /\ posted[j].desc = expected[Len(got) + Landed + j]
    /\ \A j \in 1 .. Len(dmaData) :
         /\ dmaData[j].slot = Idx(cachedTail + Landed + Len(posted) + j - 1)
         /\ dmaData[j].desc = expected[Len(got) + Landed + Len(posted) + j]
    /\ \A j \in 1 .. Len(bufQ) : bufQ[j] = expected[Len(got) + Unread + j]

\* The halves of a pair follow each other, the second perhaps still on its way.
PairInv ==
    /\ \A i \in 1 .. Len(expected) :
         expected[i].hasNext =>
           IF i < Len(expected) THEN expected[i + 1] = Half(expected[i])
           ELSE inFrag = <<Half(expected[i])>>
    /\ inFrag # <<>> => expected # <<>> /\ expected[Len(expected)].hasNext

\* The driver inside try_pop: all of the message it takes is in memory.
PopInv ==
    /\ pc = "idle" <=> (got = <<>> /\ want = 0)
    /\ pc = "read" => want > 0
    /\ pc \in {"csr", "dead"} => want = 0
    /\ pc # "idle" =>
         /\ Len(got) + want = IF expected[1].hasNext THEN 2 ELSE 1
         /\ want <= Landed

\* The inductive invariant behind the safety properties.
IInv == TypeOK /\ PointerInv /\ PlaceInv /\ PairInv /\ PopInv /\ PopIntegrity

\* Every descriptor the card accepts is eventually popped: unless its worker
\* dies on a CSR error, the driver's tail moves on for as long as one waits.
PopsContinue ==
    \/ []<>(expected = <<>> \/ pc = "dead")
    \/ []<><<cachedTail' # cachedTail>>_vars
============================================================================
