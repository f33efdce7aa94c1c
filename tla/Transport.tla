----------------------------- MODULE Transport -----------------------------
(* The sending driver of one queue pair: the workers that take a work request *)
(* from post_send to its completion, and the channels between them.           *)
(*                                                                            *)
(*   post_send -> rdma worker -> completion worker (Register)                 *)
(*                            -> timeout worker    (NewAckReq)                *)
(*                            -> retransmit worker (NewWr)                    *)
(*                            -> the wire                                     *)
(*   meta worker (ACKs, NAKs) -> timeout, completion, retransmit, rdma worker *)
(*                                                                            *)
(* Each worker is one thread with one unbounded FIFO channel.  The peer is    *)
(* reduced to the packets it has; AckReceiver and AckSender show what its     *)
(* reports may be taken to mean, so the tracker of the meta worker is its     *)
(* base, which moves only over packets that arrived.                          *)
EXTENDS MessageTracker, FiniteSets

CONSTANTS LOADS,        \* workloads: requests of n packets, signaled or not
          INIT_RETRY,   \* init_retry_count
          CAP,          \* bound on tasks queued by repeated events
          ACKS          \* acknowledgements on the wire; older ones are lost

TotalOf(ws) == FoldLeft(LAMBDA sum, w : sum + w.n, 0, ws)
TOTAL == Max({TotalOf(LOADS[l]) : l \in DOMAIN LOADS})

ASSUME TransportAssumption ==
  /\ INIT_RETRY \in Nat /\ CAP \in Nat /\ ACKS \in Nat
  /\ \A l \in DOMAIN LOADS : \A i \in DOMAIN LOADS[l] :
       LOADS[l][i].n \in Nat \ {0} /\ LOADS[l][i].sig \in BOOLEAN
  /\ TOTAL < PSN_SIZE      \* no PSN is used twice

VARIABLES
  load,     \* the workload of this behaviour
  posted,   \* work requests handed to post_send
  wq, wpc,  \* channel of the rdma worker, and how far it is with its head
  sq,       \* its SendQueueContext
  wrs,      \* accepted work requests, in order: [i, psn, msn]
  cq, trk,  \* channel and send MessageTracker of the completion worker
  done,     \* completions in the send CQ
  rq, isq,  \* channel and IbvSendQueue of the retransmit worker
  tq,       \* channel of the timeout worker
  timer,    \* its TransportTimer, outstanding_ack_req_cnt, and its thread
  sbase,    \* base of the meta worker's RemoteAckTracker
  wire,     \* packets on their way: [psn, retry]
  acks,     \* acknowledgements of the peer's driver on their way
  rcvd      \* PSNs the peer has

vars == <<load, posted, wq, wpc, sq, wrs, cq, trk, done, rq, isq, tq, timer, sbase, wire, acks, rcvd>>
rdmaVars == <<load, posted, wq, wpc, sq, wrs>>
complVars == <<cq, trk, done>>
retrVars == <<rq, isq>>
timeVars == <<tq, timer>>
netVars == <<wire, acks, rcvd>>

WRS == LOADS[load]

Init ==
  /\ load \in DOMAIN LOADS
  /\ posted = 0 /\ wq = <<>> /\ wpc = "idle" /\ wrs = <<>>
  /\ sq = [msn |-> 0, psn |-> 0, psn_acked |-> 0, msn_acked |-> 0]
  /\ cq = <<>> /\ trk = NewMessages /\ done = <<>>
  /\ rq = <<>> /\ isq = [inner |-> <<>>, base |-> 0]
  /\ tq = <<>> /\ timer = [running |-> FALSE, retries |-> INIT_RETRY, cnt |-> 0, dead |-> FALSE]
  /\ sbase = 0 /\ wire = {} /\ acks = {} /\ rcvd = {}

\* end_psn of an accepted work request, and its packets
End(w) == PsnAdd(w.psn, WRS[w.i].n)
Psns(w) == {PsnAdd(w.psn, k) : k \in 0 .. WRS[w.i].n - 1}
Packets(ps, retry) == {[psn |-> p, retry |-> retry] : p \in ps}

\* put packets on the wire; an older copy that has not arrived yet is lost
Sent(ps, retry) == {pk \in wire : pk.psn \notin ps} \cup Packets(ps, retry)

----------------------------------------------------------------------------
(* RdmaWriteWorker *)

Post ==
  /\ posted < Len(WRS)
  /\ posted' = posted + 1
  /\ wq' = Append(wq, [k |-> "write", i |-> posted + 1])
  /\ UNCHANGED <<load, wpc, sq, wrs, complVars, retrVars, timeVars, sbase, netVars>>

HasRoom_NoLength(n) ==
  /\ PsnSub(sq.psn, sq.psn_acked) <= MAX_PSN_WINDOW
  /\ (sq.msn - sq.msn_acked) % MSN_SIZE < MAX_SEND_WR

\* SendQueueContext::next_wr returns Some
HasRoom(n) ==
  /\ PsnAdd(PsnSub(sq.psn, sq.psn_acked), n) <= MAX_PSN_WINDOW
  /\ (sq.msn - sq.msn_acked) % MSN_SIZE < MAX_SEND_WR

Task(k) == wq # <<>> /\ Head(wq).k = k

StartWrite_NoAckReq ==
  /\ wpc = "idle" /\ Task("write")
  /\ LET i == Head(wq).i
         w == [i |-> i, psn |-> sq.psn, msn |-> sq.msn]
     IN /\ HasRoom(WRS[i].n)
        /\ sq' = [sq EXCEPT !.msn = (@ + 1) % MSN_SIZE, !.psn = PsnAdd(@, WRS[i].n)]
        /\ wrs' = Append(wrs, w)
        /\ cq' = IF WRS[i].sig
                 THEN Append(cq, [k |-> "register", i |-> i, msn |-> w.msn, end |-> End(w)])
                 ELSE cq
        /\ wpc' = "new_wr"
  /\ UNCHANGED <<load, posted, wq, trk, done, retrVars, timeVars, sbase, netVars>>

\* write: take MSN and PSNs and register the completion; the other three
\* workers and the wire hear of it one after the other.
StartWrite ==
  /\ wpc = "idle" /\ Task("write")
  /\ LET i == Head(wq).i
         w == [i |-> i, psn |-> sq.psn, msn |-> sq.msn]
     IN /\ HasRoom(WRS[i].n)
        /\ sq' = [sq EXCEPT !.msn = (@ + 1) % MSN_SIZE, !.psn = PsnAdd(@, WRS[i].n)]
        /\ wrs' = Append(wrs, w)
        /\ cq' = IF WRS[i].sig
                 THEN Append(cq, [k |-> "register", i |-> i, msn |-> w.msn, end |-> End(w)])
                 ELSE cq
        /\ wpc' = IF WRS[i].sig THEN "ack_req" ELSE "new_wr"
  /\ UNCHANGED <<load, posted, wq, trk, done, retrVars, timeVars, sbase, netVars>>

\* next_wr returns None: write fails, and process drops the result
RefuseWrite ==
  /\ wpc = "idle" /\ Task("write")
  /\ ~HasRoom(WRS[Head(wq).i].n)
  /\ wq' = Tail(wq)
  /\ UNCHANGED <<load, posted, wpc, sq, wrs, complVars, retrVars, timeVars, sbase, netVars>>

SendAckReq ==
  /\ wpc = "ack_req"
  /\ tq' = Append(tq, "new") /\ wpc' = "new_wr"
  /\ UNCHANGED <<load, posted, wq, sq, wrs, complVars, retrVars, timer, sbase, netVars>>

SendNewWr ==
  /\ wpc = "new_wr"
  /\ rq' = Append(rq, [k |-> "new", w |-> Last(wrs)]) /\ wpc' = "send"
  /\ UNCHANGED <<load, posted, wq, sq, wrs, complVars, isq, timeVars, sbase, netVars>>

SendChunks ==
  /\ wpc = "send"
  /\ wire' = Sent(Psns(Last(wrs)), FALSE)
  /\ wq' = Tail(wq) /\ wpc' = "idle"
  /\ UNCHANGED <<load, posted, sq, wrs, complVars, retrVars, timeVars, sbase, acks, rcvd>>

\* RdmaWriteTask::Ack and NewComplete
RdmaAck ==
  /\ wpc = "idle" /\ Task("ack")
  /\ sq' = [sq EXCEPT !.psn_acked = Head(wq).psn]
  /\ wq' = Tail(wq)
  /\ UNCHANGED <<load, posted, wpc, wrs, complVars, retrVars, timeVars, sbase, netVars>>

RdmaNewComplete ==
  /\ wpc = "idle" /\ Task("complete")
  /\ sq' = [sq EXCEPT !.msn_acked = Head(wq).msn]
  /\ wq' = Tail(wq)
  /\ UNCHANGED <<load, posted, wpc, wrs, complVars, retrVars, timeVars, sbase, netVars>>

----------------------------------------------------------------------------
(* CompletionWorker, send side: a completion for each message that leaves the *)
(* tracker, and a word to the timeout and the rdma worker.                    *)

Register ==
  /\ cq # <<>> /\ Head(cq).k = "register"
  /\ trk' = MtAppend(trk, [i |-> Head(cq).i, msn |-> Head(cq).msn, end |-> Head(cq).end])
  /\ cq' = Tail(cq)
  /\ UNCHANGED <<rdmaVars, done, retrVars, timeVars, sbase, netVars>>

AckSend ==
  /\ cq # <<>> /\ Head(cq).k = "ack"
  /\ LET r == MtAck(trk, Head(cq).psn)
     IN /\ trk' = r.t
        /\ done' = done \o [j \in DOMAIN r.popped |-> r.popped[j].i]
        /\ tq' = tq \o [j \in DOMAIN r.popped |-> "ack"]
        /\ wq' = wq \o [j \in DOMAIN r.popped |-> [k |-> "complete", msn |-> r.popped[j].msn]]
  /\ cq' = Tail(cq)
  /\ UNCHANGED <<load, posted, wpc, sq, wrs, retrVars, timer, sbase, netVars>>

----------------------------------------------------------------------------
(* PacketRetransmitWorker *)

\* partition_point(|x| x.psn < psn) of the queue, which is sorted
Below(inner, psn) == Cardinality({j \in DOMAIN inner : PsnLt(inner[j].psn, psn)})

PopUntil_All(q, psn) ==
  [inner |-> SubSeq(q.inner, Below(q.inner, psn) + 1, Len(q.inner)), base |-> psn]

\* pop_until keeps the last work request that starts before psn
PopUntil(q, psn) ==
  LET a == Below(q.inner, psn)
  IN [inner |-> SubSeq(q.inner, Max({a - 1, 0}) + 1, Len(q.inner)), base |-> psn]

\* range: the work requests that start in [lo, hi)
RangeOf(q, lo, hi) == SubSeq(q.inner, Below(q.inner, lo) + 1, Below(q.inner, hi))

AllPsns(ws) == UNION {Psns(ws[j]) : j \in DOMAIN ws}

RTask(k) == rq # <<>> /\ Head(rq).k = k

NewWr ==
  /\ RTask("new")
  /\ isq' = [isq EXCEPT !.inner = Append(@, Head(rq).w)]
  /\ rq' = Tail(rq)
  /\ UNCHANGED <<rdmaVars, complVars, timeVars, sbase, netVars>>

RetransmitRange ==
  /\ RTask("range")
  /\ LET t == Head(rq)
         ps == {p \in AllPsns(RangeOf(isq, t.lo, t.hi)) : ~PsnLt(p, t.lo) /\ PsnLt(p, t.hi)}
     IN wire' = Sent(ps, TRUE)
  /\ rq' = Tail(rq)
  /\ UNCHANGED <<rdmaVars, complVars, isq, timeVars, sbase, acks, rcvd>>

RetransmitAll ==
  /\ RTask("all")
  /\ wire' = Sent({p \in AllPsns(isq.inner) : ~PsnLt(p, isq.base)}, TRUE)
  /\ rq' = Tail(rq)
  /\ UNCHANGED <<rdmaVars, complVars, isq, timeVars, sbase, acks, rcvd>>

RetransmitAck ==
  /\ RTask("ack")
  /\ isq' = PopUntil(isq, Head(rq).psn)
  /\ rq' = Tail(rq)
  /\ UNCHANGED <<rdmaVars, complVars, timeVars, sbase, netVars>>

----------------------------------------------------------------------------
(* QpAckTimeoutWorker *)

TTask(k) == tq # <<>> /\ Head(tq) = k

\* TransportTimer::restart
Restarted(t) == [t EXCEPT !.running = TRUE, !.retries = INIT_RETRY]

NewAckReq_NoStart ==
  /\ TTask("new")
  /\ timer' = [timer EXCEPT !.cnt = @ + 1]
  /\ tq' = Tail(tq)
  /\ UNCHANGED <<rdmaVars, complVars, retrVars, sbase, netVars>>

NewAckReq ==
  /\ TTask("new")
  /\ timer' = Restarted([timer EXCEPT !.cnt = @ + 1])
  /\ tq' = Tail(tq)
  /\ UNCHANGED <<rdmaVars, complVars, retrVars, sbase, netVars>>

RecvMeta ==
  /\ TTask("meta")
  /\ timer' = Restarted(timer)
  /\ tq' = Tail(tq)
  /\ UNCHANGED <<rdmaVars, complVars, retrVars, sbase, netVars>>

TimerAck_AlwaysStop ==
  /\ TTask("ack")
  /\ timer' = [timer EXCEPT !.cnt = @ - 1, !.running = FALSE]
  /\ tq' = Tail(tq)
  /\ UNCHANGED <<rdmaVars, complVars, retrVars, sbase, netVars>>

TimerAck ==
  /\ TTask("ack")
  /\ timer' = [timer EXCEPT !.cnt = @ - 1, !.running = @ /\ timer.cnt # 1]
  /\ tq' = Tail(tq)
  /\ UNCHANGED <<rdmaVars, complVars, retrVars, sbase, netVars>>

\* maintainance when the interval has elapsed: retransmit everything, or stop
\* at todo!("handle retry failures"), which ends the thread.
Timeout ==
  /\ timer.running
  /\ IF timer.retries = 0
     THEN timer' = [timer EXCEPT !.dead = TRUE] /\ UNCHANGED rq
     ELSE /\ Len(rq) < CAP
          /\ timer' = [timer EXCEPT !.retries = @ - 1]
          /\ rq' = Append(rq, [k |-> "all"])
  /\ UNCHANGED <<rdmaVars, complVars, isq, tq, sbase, netVars>>

----------------------------------------------------------------------------
(* The wire and the peer.  Packets are lost, repeated and reordered.          *)

\* base_psn of the peer's LocalAckTracker when it has the packets ps
PeerBase(ps) == Min({p \in PSN : p \notin ps})

Signaled == {w \in Range(wrs) : WRS[w.i].sig}

\* What the peer may answer to packet pk: its driver acknowledges a message
\* with ack_req once all packets before its end are there, and answers its
\* retransmitted Last packet with where it is (handle_header_write); its
\* hardware may report the hole in front of a packet.
Answers(pk) ==
  LET base == PeerBase(rcvd \cup {pk.psn})
  IN {[k |-> "ack", base |-> End(w), hi |-> End(w)] :
        w \in {v \in Signaled : PeerBase(rcvd) < End(v) /\ End(v) <= base}}
     \cup {[k |-> "nak", base |-> base, hi |-> pk.psn] :
        w \in {v \in Signaled : pk.retry /\ End(v) = PsnAdd(pk.psn, 1)}}

\* The window of the peer's hardware slides, and it reports a hole, only for a
\* packet newer than all before.
HwNaks(pk) ==
  LET base == PeerBase(rcvd \cup {pk.psn})
  IN IF base < pk.psn /\ \A p \in rcvd : PsnLt(p, pk.psn) THEN {[k |-> "hw", base |-> base, hi |-> sq.psn]} ELSE {}

Deliver(pk) ==
  /\ pk \in wire
  /\ wire' = wire \ {pk}
  /\ rcvd' = rcvd \cup {pk.psn}
  /\ \E hw \in {{}, HwNaks(pk)} :
       LET new == Answers(pk) \cup hw
       IN acks' = IF Cardinality(acks \cup new) <= ACKS THEN acks \cup new ELSE new
  /\ UNCHANGED <<rdmaVars, complVars, retrVars, timeVars, sbase>>

Lose ==
  /\ \/ \E pk \in wire : wire' = wire \ {pk} /\ UNCHANGED acks
     \/ \E a \in acks : acks' = acks \ {a} /\ UNCHANGED wire
  /\ UNCHANGED <<rdmaVars, complVars, retrVars, timeVars, sbase, rcvd>>

----------------------------------------------------------------------------
(* MetaHandler, send table.  Every report restarts the timer first            *)
(* (update_ack_timer); sender_updates tells three workers.                    *)

MetaRoom == Len(tq) < CAP /\ Len(cq) < CAP /\ Len(rq) < CAP /\ Len(wq) <= CAP

SenderUpdates(advanced, psn, extra) ==
  /\ tq' = Append(tq, "meta")
  /\ cq' = IF advanced THEN Append(cq, [k |-> "ack", psn |-> psn]) ELSE cq
  /\ rq' = (IF advanced THEN Append(rq, [k |-> "ack", psn |-> psn]) ELSE rq) \o extra
  /\ wq' = IF advanced THEN Append(wq, [k |-> "ack", psn |-> psn]) ELSE wq
  /\ sbase' = IF advanced THEN psn ELSE sbase

\* handle_ack_remote_driver and handle_nak_remote_driver
HandleDriver(a) ==
  SenderUpdates(~PsnLt(a.base, sbase), a.base,
    IF a.k = "nak" THEN <<[k |-> "range", lo |-> a.base, hi |-> a.hi]>> ELSE <<>>)

\* handle_nak_remote_hw: the window of the report starts at or before the hole;
\* its bitmaps may or may not move the base.
HandleHw(a) ==
  \E lo \in {0, a.base}, b \in {sbase, a.base}, advanced \in BOOLEAN :
    /\ IF advanced THEN b >= sbase ELSE b = sbase
    /\ SenderUpdates(advanced, b, <<[k |-> "range", lo |-> lo, hi |-> a.hi]>>)

HandleAck(a) ==
  /\ MetaRoom /\ a \in acks
  /\ acks' = acks \ {a}
  /\ IF a.k = "hw" THEN HandleHw(a) ELSE HandleDriver(a)
  /\ UNCHANGED <<load, posted, wpc, sq, wrs, trk, done, isq, timer, wire, rcvd>>

----------------------------------------------------------------------------
RdmaWorker == StartWrite \/ RefuseWrite \/ SendAckReq \/ SendNewWr \/ SendChunks
              \/ RdmaAck \/ RdmaNewComplete
CompletionWorker == Register \/ AckSend
RetransmitWorker == NewWr \/ RetransmitRange \/ RetransmitAll \/ RetransmitAck
TimeoutWorker == NewAckReq \/ RecvMeta \/ TimerAck

\* Behaviours are followed until the timeout worker panics.
Next ==
 /\ ~timer.dead
 /\ \/ Post \/ RdmaWorker \/ CompletionWorker \/ RetransmitWorker \/ TimeoutWorker
    \/ Timeout \/ Lose
    \/ \E pk \in wire : Deliver(pk)
    \/ \E a \in acks : HandleAck(a)

\* Every worker thread goes on while its channel has tasks, a running timer
\* elapses, and what is sent again and again arrives in the end.
Fairness ==
  /\ WF_vars(RdmaWorker) /\ WF_vars(CompletionWorker)
  /\ WF_vars(RetransmitWorker) /\ WF_vars(TimeoutWorker) /\ WF_vars(Timeout)
  /\ \A p \in 0 .. TOTAL - 1 : SF_vars(\E pk \in wire : pk.psn = p /\ Deliver(pk))
  /\ \A b \in 0 .. TOTAL : SF_vars(\E a \in acks : a.base = b /\ HandleAck(a))

Spec == Init /\ [][Next]_vars
FairSpec == Spec /\ Fairness

----------------------------------------------------------------------------
Connection ==
  INSTANCE ReliableConnection WITH
    reqs <- [j \in DOMAIN wrs |-> [id |-> wrs[j].i, n |-> WRS[wrs[j].i].n, sig |-> WRS[wrs[j].i].sig]],
    got <- rcvd

\* The workers together are a reliable connection: completions come in posting
\* order, once for each signaled request (MessageTracker::append), and never
\* before the peer has every packet up to the end of the request
\* (QueuePairMessageTracker::ack_send).
DeliversReliably == Connection!Spec

\* outstanding_ack_req_cnt is unsigned: the Ack of a message is processed only
\* after its NewAckReq, although two workers send them (qp_timeout.rs:180).
CountNeverUnderflows == TTask("ack") => timer.cnt > 0

\* A signaled request that has not completed is watched: the timer runs, or
\* what starts it is on its way.  Without it a lost packet is never resent.
TimerArmed ==
  Len(done) < Cardinality(Signaled) =>
    \/ timer.running \/ "new" \in Range(tq) \/ wpc = "ack_req"
    \/ "ack" \in Range(tq)

\* A packet the peer has not acknowledged can be resent: its request is in the
\* send queue of the retransmit worker or on its way there.
RetransmitHolds ==
  \A w \in Range(wrs) :
    \/ End(w) <= sbase
    \/ w \in Range(isq.inner)
    \/ [k |-> "new", w |-> w] \in Range(rq)
    \/ w = Last(wrs) /\ wpc \in {"ack_req", "new_wr"}

\* No more than MAX_PSN_WINDOW packets are unacknowledged, which is what makes
\* PSN comparison meaningful; the rdma worker checks against psn_acked, which
\* lags behind the tracker.
OutstandingBounded == PsnSub(sq.psn, sbase) <= MAX_PSN_WINDOW

\* A RetransmitRange task resends every packet of the send queue in
\* [psn_low, psn_high) that is not acknowledged.
RangeResent ==
  [][\A t \in Range(rq) :
       (t = Head(rq) /\ t.k = "range" /\ rq' = Tail(rq)) =>
         \A p \in AllPsns(isq.inner) :
           (~PsnLt(p, isq.base) /\ ~PsnLt(p, t.lo) /\ PsnLt(p, t.hi))
              => p \in rcvd \/ \E pk \in wire' : pk.psn = p]_vars

\* Every accepted signaled request completes, unless the retry limit is hit:
\* again and again there is none that has not.
SignaledCompletes ==
  []<>(timer.dead \/ \A w \in Signaled : w.i \in Range(done))
=============================================================================
