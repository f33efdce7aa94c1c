------------------------------ MODULE SendPath ------------------------------
(* From accepted requests to packets, for one queue pair:                     *)
(*                                                                            *)
(*   rdma worker (chunks) ---+                          +-> ring -> card      *)
(*                           +-> injector -> SendWorkers +                    *)
(*   retransmit worker ------+       (steal work)        +-> ring -> card     *)
(*                                                                            *)
(* Both workers iterate over the fragments of a request and push them one by  *)
(* one; a SendWorker serves each ring.  The ring is a bounded FIFO of         *)
(* descriptor pairs, which H2cRing shows it to be.                            *)
EXTENDS Fragmentation, Sequences, SequencesExt, FiniteSets

CONSTANTS LOADS,      \* sequences of requests [addr, len, lost]: lost ones are resent
          WORKERS,    \* SendWorkers, one for each ring of the card
          BATCH,      \* tasks that poll collects (16)
          RING        \* descriptor pairs a ring holds

\* what the constants satisfy
SendAssumption ==
  /\ FragmentAssumption /\ BATCH \in Nat \ {0} /\ RING \in Nat \ {0}
  /\ \A l \in LOADS : \A i \in DOMAIN l : l[i].addr \in Nat /\ l[i].len \in Nat

VARIABLES
  load,       \* the requests of this behaviour
  psn,        \* next PSN of the SendQueueContext
  base,       \* first PSNs of the requests taken so far
  resent,     \* requests the retransmit worker has been told to resend
  iter,       \* per producing worker: the request and the iterator it is in
  injector,   \* chunks nobody has taken yet
  local,      \* deque of each SendWorker
  held, mode, \* chunks poll has collected; polling or processing
  ring,       \* descriptors the card has not taken
  sent        \* packets on the wire

vars == <<load, psn, base, resent, iter, injector, local, held, mode, ring, sent>>
prodVars == <<load, psn, base, resent, iter>>
sendVars == <<injector, local, held>>

NoIter == [r |-> 0]

Init ==
  /\ load \in LOADS
  /\ psn = 0 /\ base = <<>> /\ resent = {}
  /\ iter = [p \in {"rdma", "retransmit"} |-> NoIter]
  /\ injector = <<>> /\ local = [w \in WORKERS |-> <<>>] /\ held = [w \in WORKERS |-> <<>>]
  /\ mode = [w \in WORKERS |-> "poll"]
  /\ ring = [w \in WORKERS |-> <<>>]
  /\ sent = {}

----------------------------------------------------------------------------
(* The workers that produce chunks *)

\* RdmaWriteWorker::write: reserve PSNs, then WrChunkFragmenter
StartWrite ==
  /\ iter["rdma"] = NoIter /\ Len(base) < Len(load)
  /\ LET r == Len(base) + 1
     IN /\ base' = Append(base, psn)
        /\ psn' = psn + NumPsn(load[r].addr, load[r].len)
        /\ iter' = [iter EXCEPT !["rdma"] =
             [r |-> r, it |-> Fragments(CHUNK_SIZE, load[r].addr, load[r].len, psn)]]
  /\ UNCHANGED <<load, resent, sendVars, mode, ring, sent>>

\* PacketRetransmitWorker: WrPacketFragmenter over a request it has
StartResend(r) ==
  /\ iter["retransmit"] = NoIter /\ r \in DOMAIN base \ resent /\ load[r].lost
  /\ resent' = resent \cup {r}
  /\ iter' = [iter EXCEPT !["retransmit"] =
       [r |-> r, it |-> Fragments(PMTU, load[r].addr, load[r].len, base[r])]]
  /\ UNCHANGED <<load, psn, base, sendVars, mode, ring, sent>>

\* one turn of "for chunk in fragmenter": SendHandle::send
PushChunk(p) ==
  /\ iter[p] # NoIter
  /\ LET it == iter[p].it
     IN /\ injector' = Append(injector, [c |-> Chunk(it), r |-> iter[p].r, retry |-> p = "retransmit"])
        /\ iter' = [iter EXCEPT ![p] = IF it.count = 1 THEN NoIter ELSE [@ EXCEPT !.it = Advanced(it)]]
  /\ UNCHANGED <<load, psn, base, resent, local, held, mode, ring, sent>>

----------------------------------------------------------------------------
(* SendWorker *)

Taken(w, c) == held' = [held EXCEPT ![w] = Append(@, c)]

TakeLocal(w) ==
  /\ local[w] # <<>>
  /\ Taken(w, Head(local[w])) /\ local' = [local EXCEPT ![w] = Tail(@)]
  /\ UNCHANGED injector

TakeBatch_Lose(w) ==
  /\ local[w] = <<>> /\ injector # <<>>
  /\ \E n \in 1 .. Len(injector) :
       injector' = SubSeq(injector, n + 1, Len(injector)) /\ UNCHANGED local
  /\ Taken(w, Head(injector))

\* steal_batch_and_pop: some more move to the local deque
TakeBatch(w) ==
  /\ local[w] = <<>> /\ injector # <<>>
  /\ \E n \in 1 .. Len(injector) :
       /\ injector' = SubSeq(injector, n + 1, Len(injector))
       /\ local' = [local EXCEPT ![w] = SubSeq(injector, 2, n)]
  /\ Taken(w, Head(injector))

Steal(w) ==
  /\ local[w] = <<>> /\ injector = <<>>
  /\ \E v \in WORKERS \ {w} :
       /\ local[v] # <<>>
       /\ Taken(w, Head(local[v])) /\ local' = [local EXCEPT ![v] = Tail(@)]
  /\ UNCHANGED injector

\* SendWorker::poll, one turn of its loop
Poll(w) ==
  /\ mode[w] = "poll" /\ Len(held[w]) < BATCH
  /\ TakeLocal(w) \/ TakeBatch(w) \/ Steal(w)
  /\ UNCHANGED <<prodVars, mode, ring, sent>>

EndPoll_WaitFull(w) ==
  /\ mode[w] = "poll" /\ Len(held[w]) = BATCH
  /\ mode' = [mode EXCEPT ![w] = "process"]
  /\ UNCHANGED <<prodVars, sendVars, ring, sent>>

\* the loop ends after BATCH turns, some of which may have found nothing
EndPoll(w) ==
  /\ mode[w] = "poll" /\ held[w] # <<>>
  /\ mode' = [mode EXCEPT ![w] = "process"]
  /\ UNCHANGED <<prodVars, sendVars, ring, sent>>

\* SendWorker::process, one chunk: into the ring, or back when it is full
Process(w) ==
  /\ mode[w] = "process" /\ held[w] # <<>>
  /\ IF Len(ring[w]) < RING
     THEN ring' = [ring EXCEPT ![w] = Append(@, Head(held[w]))] /\ UNCHANGED local
     ELSE local' = [local EXCEPT ![w] = Append(@, Head(held[w]))] /\ UNCHANGED ring
  /\ held' = [held EXCEPT ![w] = Tail(@)]
  /\ mode' = [mode EXCEPT ![w] = IF Len(held[w]) = 1 THEN "poll" ELSE @]
  /\ UNCHANGED <<prodVars, injector, sent>>

----------------------------------------------------------------------------
(* The card, for each ring: mkAddressChunker cuts a chunk at multiples of the *)
(* PMTU, genPacketHeaderStep1 numbers the packets from the chunk's PSN on.    *)

PacketsAfterFirst(d) == IF d.c.len = 0 THEN 0 ELSE ZeroBasedChunkCnt(d.c.addr, d.c.len)

\* the k-th packet of descriptor d: doFirstBeat (k = 0) and doOtherBeat; a
\* chunk without payload does not go through the chunker and makes one packet
Packet(d, k) ==
  LET cnt == PacketsAfterFirst(d)
      out == PMTU - (d.c.addr % PMTU)
  IN [r |-> d.r, retry |-> d.retry, psn |-> d.c.psn + k,
      addr |-> IF k = 0 THEN d.c.addr ELSE d.c.addr + out + (k - 1) * PMTU,
      len |-> IF cnt = 0 THEN d.c.len
              ELSE IF k = 0 THEN out
              ELSE IF k = cnt THEN d.c.len - out - (k - 1) * PMTU
              ELSE PMTU,
      first |-> d.c.first /\ k = 0, last |-> d.c.last /\ k = cnt]

\* the card takes a descriptor pair and sends its packets
Transmit(w) ==
  /\ ring[w] # <<>>
  /\ LET d == Head(ring[w])
     IN sent' = sent \cup {Packet(d, k) : k \in 0 .. PacketsAfterFirst(d)}
  /\ ring' = [ring EXCEPT ![w] = Tail(@)]
  /\ UNCHANGED <<prodVars, sendVars, mode>>

----------------------------------------------------------------------------
SendWorker(w) == Poll(w) \/ EndPoll(w) \/ Process(w)

Next ==
  \/ StartWrite
  \/ \E r \in DOMAIN base : StartResend(r)
  \/ \E p \in DOMAIN iter : PushChunk(p)
  \/ \E w \in WORKERS : SendWorker(w) \/ Transmit(w)

\* The threads loop over their queues; a rule of the card fires when it can.
Fairness ==
  /\ \A p \in {"rdma", "retransmit"} : WF_vars(PushChunk(p))
  /\ \A w \in WORKERS : WF_vars(SendWorker(w)) /\ WF_vars(Transmit(w))

Spec == Init /\ [][Next]_vars
FairSpec == Spec /\ Fairness

----------------------------------------------------------------------------
\* Everything handed to the injector is on the wire.
Quiet ==
  /\ \A p \in DOMAIN iter : iter[p] = NoIter
  /\ injector = <<>>
  /\ \A w \in WORKERS : local[w] = <<>> /\ held[w] = <<>> /\ ring[w] = <<>>

Bytes(p) == p.addr .. p.addr + p.len - 1
Request(r) == load[r].addr .. load[r].addr + load[r].len - 1
Sent(r, retry) == {p \in sent : p.r = r /\ p.retry = retry}
Passes(r) == {FALSE} \cup (IF r \in resent THEN {TRUE} ELSE {})

\* Once the queues are empty, every byte of a request has been sent by exactly
\* one packet of at most PMTU bytes, numbered from the first PSN on in the order
\* of addresses, and the ends are marked First and Last: whichever SendWorkers
\* took its chunks, and for the retransmission too.
WholeRequestSent ==
  Quiet => \A r \in DOMAIN base : \A retry \in Passes(r) :
    LET ps == Sent(r, retry)
    IN /\ UNION {Bytes(p) : p \in ps} = Request(r)
       /\ {p.psn : p \in ps} = base[r] .. base[r] + Cardinality(ps) - 1
       /\ \A p, q \in ps : p.psn < q.psn => p.addr + p.len <= q.addr
       /\ \A p \in ps : /\ p.len <= PMTU
                        /\ p.first = (p.psn = base[r])
                        /\ p.last = (p.psn = base[r] + Cardinality(ps) - 1)

\* A PSN means the same bytes each time: the chunk fragmenter with the address
\* chunker of the card, and the packet fragmenter of the retransmit worker,
\* number the packets alike.  Otherwise a resent packet fills the wrong hole.
RetryAgrees ==
  \A p, q \in sent : p.r = q.r /\ p.psn = q.psn => [p EXCEPT !.retry = q.retry] = q

\* A request whose start is aligned, or that fits into one packet
Plain(q) == (q.addr % PMTU) = 0 \/ (q.addr % PMTU) + q.len <= PMTU

\* Requests do not share PSNs: num_psn reserves as many as the packets that
\* leave the card ("the number of psn required for this WR", qp.rs:91).
PsnsApart == \A p, q \in sent : p.psn = q.psn => p.r = q.r

\* Requests that are aligned or fit into one packet do not share PSNs: for them
\* num_psn reserves as many as the chunk fragmenter and the card use.
PlainPsnsApart ==
  \A p, q \in sent : p.psn = q.psn /\ (\A i \in DOMAIN load : Plain(load[i])) => p.r = q.r

\* Every chunk that was handed over leaves the card in the end: a full ring puts
\* it back, and another worker may take it.
ChunksLeave == []<>Quiet
=============================================================================
