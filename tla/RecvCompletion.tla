--------------------------- MODULE RecvCompletion ---------------------------
(* The receiving driver of one queue pair: the meta worker turns header       *)
(* descriptors and window reports into tasks for the completion worker, which *)
(* completes receives, pairs READ responses with READ requests (MergeQueue),  *)
(* and lets the ack responder acknowledge messages.                           *)
(*                                                                            *)
(* The peer sends MSGS in order; packets are lost, repeated and reordered on  *)
(* the way.  AckReceiver shows that LocalAckTracker holds only packets that   *)
(* arrived, so that here it is the set of those packets.  The packets of a    *)
(* queue pair come in on several channels, and their descriptors share the    *)
(* report ring with those of the ack generator (mkDescriptorMux): they are    *)
(* handled in any order.                                                      *)
EXTENDS MessageTracker, FiniteSets

CONSTANTS LOADS,   \* workloads: messages of the peer, and our READ requests in
                   \* order, signaled or not
          LATE,    \* a Last packet may arrive again
          CAP      \* bound on the tasks of repeated packets

Ops == {"write", "recv", "resp", "readreq"}  \* "recv": SEND and WRITE_WITH_IMM

\* The messages [n, op, ack] of a workload lie one behind the other: message m
\* ends before EndOf[l][m] and OfOp[l][op] are the messages with operation op.
EndOf == [l \in DOMAIN LOADS |-> [m \in DOMAIN LOADS[l].msgs |->
            FoldLeft(LAMBDA sum, x : sum + x.n, 0, SubSeq(LOADS[l].msgs, 1, m))]]
PsnsOf == [l \in DOMAIN LOADS |-> [m \in DOMAIN LOADS[l].msgs |->
            EndOf[l][m] - LOADS[l].msgs[m].n .. EndOf[l][m] - 1]]
OfOp == [l \in DOMAIN LOADS |-> [op \in Ops |->
            SelectSeq([m \in DOMAIN LOADS[l].msgs |-> m], LAMBDA m : LOADS[l].msgs[m].op = op)]]
NthOf == [l \in DOMAIN LOADS |-> [op \in Ops |-> [m \in DOMAIN LOADS[l].msgs |->
            Cardinality({i \in 1 .. m : LOADS[l].msgs[i].op = op})]]]

ASSUME RecvAssumption ==
  /\ \A l \in DOMAIN LOADS :
       /\ \A m \in DOMAIN LOADS[l].msgs :
            LET x == LOADS[l].msgs[m]
            IN x.n \in Nat \ {0} /\ x.op \in Ops /\ x.ack \in BOOLEAN /\ (x.op = "readreq" => x.n = 1)
       /\ EndOf[l][Len(LOADS[l].msgs)] < MAX_PSN_WINDOW
       /\ LOADS[l].reads \in Seq(BOOLEAN)
  /\ LATE \in BOOLEAN /\ CAP \in Nat

VARIABLES
  load,     \* the workload of this behaviour
  posted,   \* receives registered with the completion worker
  told,     \* of these, the ones the peer has heard of
  reads,    \* READ requests sent
  racked,   \* of these, acknowledged by the peer
  arrived,  \* PSNs in memory
  hdrs,     \* header descriptors in the report ring: [m, psn, retry]
  got,      \* PSNs in the LocalAckTracker
  cq,       \* channel of the completion worker
  strk, rtrk,  \* its send and recv MessageTracker
  prq,      \* post_recv_queue
  merge,    \* MergeQueue: send, and recv_read_resp as resp
  scq, rcq, \* completions in the send CQ and in the recv CQ
  acks,     \* messages acknowledged to the peer
  answers,  \* READ requests answered, at least once
  dead,     \* the completion worker has panicked
  overtaken \* a window report counted a Last packet before its header was handled

vars == <<load, posted, told, reads, racked, arrived, hdrs, got, cq, strk, rtrk, prq, merge,
          scq, rcq, acks, answers, dead, overtaken>>
userVars == <<load, posted, told, reads, racked>>
metaVars == <<arrived, hdrs, got, answers, overtaken>>
compVars == <<strk, rtrk, prq, merge, scq, rcq, acks, dead>>

MSGS == LOADS[load].msgs
READS == LOADS[load].reads
End == EndOf[load]
TOTAL == End[Len(MSGS)]
Psns == PsnsOf[load]
FirstPsn(m) == End[m] - MSGS[m].n
LastPsn(m) == End[m] - 1
Of(op) == OfOp[load][op]

Init ==
  /\ load \in DOMAIN LOADS /\ overtaken = FALSE
  /\ posted = 0 /\ told = 0 /\ reads = 0 /\ racked = 0
  /\ arrived = {} /\ hdrs = {} /\ got = {} /\ cq = <<>>
  /\ strk = NewMessages /\ rtrk = NewMessages /\ prq = <<>>
  /\ merge = [send |-> <<>>, resp |-> <<>>]
  /\ scq = <<>> /\ rcq = <<>> /\ acks = {} /\ answers = {} /\ dead = FALSE

----------------------------------------------------------------------------
(* Verbs: post_recv registers the receive, then tells the peer; a READ        *)
(* request is registered, if signaled, before it is sent (rdma_read).         *)

PostRecv ==
  /\ posted < Len(Of("recv"))
  /\ posted' = posted + 1
  /\ cq' = Append(cq, [k |-> "post", i |-> posted + 1])
  /\ UNCHANGED <<load, told, reads, racked, metaVars, compVars>>

PostRecvSend_First ==
  /\ told <= posted /\ told < Len(Of("recv"))
  /\ told' = told + 1
  /\ UNCHANGED <<load, posted, reads, racked, metaVars, cq, compVars>>

PostRecvSend ==
  /\ told < posted
  /\ told' = told + 1
  /\ UNCHANGED <<load, posted, reads, racked, metaVars, cq, compVars>>

RdmaRead ==
  /\ reads < Len(READS)
  /\ reads' = reads + 1
  /\ cq' = IF READS[reads + 1] THEN Append(cq, [k |-> "send", i |-> reads + 1]) ELSE cq
  /\ UNCHANGED <<load, posted, told, racked, metaVars, compVars>>

\* sender_updates: the peer has acknowledged READ requests up to b
ReadAcked ==
  \E b \in racked + 1 .. reads :
    /\ racked' = b
    /\ cq' = Append(cq, [k |-> "ackSend", i |-> b])
    /\ UNCHANGED <<load, posted, told, reads, metaVars, compVars>>

----------------------------------------------------------------------------
(* Packets and reports *)

\* The peer has sent message m: it had a receive for each SEND, and a request
\* for each READ response, up to m.
CanArrive(m) == NthOf[load]["recv"][m] <= told /\ NthOf[load]["resp"][m] <= reads

\* A First, Last or Only packet is always reported, a Middle packet when it is
\* a retransmission (genMetaReportQueueDesc).
Arrive(m, psn, retry) ==
  /\ CanArrive(m)
  /\ psn \in arrived => retry /\ (LATE \/ psn # LastPsn(m))
  /\ arrived' = arrived \cup {psn}
  /\ hdrs' = IF retry \/ psn \in {FirstPsn(m), LastPsn(m)}
             THEN hdrs \cup {[m |-> m, psn |-> psn, retry |-> retry]} ELSE hdrs
  /\ UNCHANGED <<userVars, got, answers, overtaken, cq, compVars>>

Base(ps) == Min(0 .. TOTAL \ ps)

\* the task for the completion worker when the tracker moves from got to ps
Advance(ps) == IF Base(ps) > Base(got) THEN <<[k |-> "ackRecv", i |-> Base(ps)]>> ELSE <<>>

\* AckResponse::Nak carries the base, and the peer takes all before it as received
AckTx(h) == IF h.retry /\ h.psn = LastPsn(h.m) /\ MSGS[h.m].ack
            THEN acks \cup {m \in DOMAIN MSGS : End[m] <= Base(got')} ELSE acks

HandleHeaderWrite_AckFirst(h) ==
  /\ Len(cq) <= CAP /\ h \in hdrs /\ hdrs' = hdrs \ {h}
  /\ MSGS[h.m].op # "readreq"
  /\ got' = got \cup {h.psn}
  /\ cq' = cq \o Advance(got')
              \o (IF h.psn = LastPsn(h.m) THEN <<[k |-> "recv", i |-> h.m]>> ELSE <<>>)
  /\ acks' = AckTx(h)
  /\ UNCHANGED <<userVars, arrived, answers, overtaken, strk, rtrk, prq, merge, scq, rcq, dead>>

\* handle_header_write: the Last packet registers the message, then the packet
\* is acknowledged; a repeated Last packet with ack_req is answered by a
\* NAK.
HandleHeaderWrite(h) ==
  /\ Len(cq) <= CAP /\ h \in hdrs /\ hdrs' = hdrs \ {h}
  /\ MSGS[h.m].op # "readreq"
  /\ got' = got \cup {h.psn}
  /\ cq' = cq \o (IF h.psn = LastPsn(h.m) THEN <<[k |-> "recv", i |-> h.m]>> ELSE <<>>)
              \o Advance(got')
  /\ acks' = AckTx(h)
  /\ UNCHANGED <<userVars, arrived, answers, overtaken, strk, rtrk, prq, merge, scq, rcq, dead>>

\* handle_header_read: only a request with ack_req is registered and counted
\* as received; every request is answered.
HandleHeaderRead(h) ==
  /\ Len(cq) <= CAP /\ h \in hdrs /\ hdrs' = hdrs \ {h}
  /\ MSGS[h.m].op = "readreq"
  /\ answers' = answers \cup {h.m}
  /\ IF MSGS[h.m].ack
     THEN /\ got' = got \cup {h.psn}
          /\ cq' = cq \o <<[k |-> "recv", i |-> h.m]>> \o Advance(got')
     ELSE UNCHANGED <<got, cq>>
  /\ UNCHANGED <<userVars, arrived, overtaken, compVars>>

\* handle_ack_local_hw and handle_nak_local_hw: the window shows some of the
\* packets that arrived, but no READ request, which has no payload.
HwReport ==
  \E ps \in SUBSET {p \in arrived \ got : \E m \in DOMAIN MSGS :
                      p \in Psns[m] /\ MSGS[m].op # "readreq"} :
    /\ ps # {}
    /\ got' = got \cup ps /\ cq' = cq \o Advance(got')
    /\ overtaken' = (overtaken \/ \E m \in DOMAIN MSGS : LastPsn(m) \in ps)
    /\ UNCHANGED <<userVars, arrived, hdrs, answers, compVars>>

----------------------------------------------------------------------------
(* CompletionWorker *)

CTask(k) == cq # <<>> /\ Head(cq).k = k /\ cq' = Tail(cq)

RegisterPostRecv ==
  /\ CTask("post")
  /\ prq' = Append(prq, Head(cq).i)
  /\ UNCHANGED <<userVars, metaVars, strk, rtrk, merge, scq, rcq, acks, dead>>

RegisterSend ==
  /\ CTask("send")
  /\ strk' = MtAppend(strk, [i |-> Head(cq).i, msn |-> Head(cq).i - 1, end |-> Head(cq).i])
  /\ UNCHANGED <<userVars, metaVars, rtrk, prq, merge, scq, rcq, acks, dead>>

RegisterRecv ==
  /\ CTask("recv")
  /\ LET m == Head(cq).i IN rtrk' = MtAppend(rtrk, [i |-> m, msn |-> m - 1, end |-> End[m]])
  /\ UNCHANGED <<userVars, metaVars, strk, prq, merge, scq, rcq, acks, dead>>

Idx(events) == [j \in DOMAIN events |-> events[j].i]
FirstN(s, k) == SubSeq(s, 1, k)
RestN(s, k) == SubSeq(s, k + 1, Len(s))

PopSend_NoResp(q) ==
  [done |-> q.send, q |-> [q EXCEPT !.send = <<>>]]

\* poll_send_completion until it returns None: a READ at the front leaves with
\* the first READ response.
PopSend(q) ==
  LET k == Min({Len(q.send), Len(q.resp)})
  IN [done |-> FirstN(q.send, k),
      q |-> [send |-> RestN(q.send, k), resp |-> RestN(q.resp, k)]]

AckSend ==
  /\ CTask("ackSend")
  /\ LET r == MtAck(strk, Head(cq).i)
         p == PopSend([merge EXCEPT !.send = @ \o Idx(r.popped)])
     IN strk' = r.t /\ merge' = p.q /\ scq' = scq \o p.done
  /\ UNCHANGED <<userVars, metaVars, rtrk, prq, rcq, acks, dead>>

\* ack_recv, then both polls; each SEND takes the first posted receive, and
\* the worker panics when there is none.
AckRecv ==
  /\ CTask("ackRecv")
  /\ LET r == MtAck(rtrk, Head(cq).i)
         ms == Idx(r.popped)
         resp == SelectSeq(ms, LAMBDA m : MSGS[m].op = "resp")
         recv == SelectSeq(ms, LAMBDA m : MSGS[m].op = "recv")
         p == PopSend([merge EXCEPT !.resp = @ \o resp])
         k == Min({Len(recv), Len(prq)})
     IN /\ rtrk' = r.t /\ merge' = p.q /\ scq' = scq \o p.done
        /\ rcq' = rcq \o [j \in 1 .. k |-> [m |-> recv[j], wr |-> prq[j]]]
        /\ prq' = RestN(prq, k)
        /\ dead' = (k < Len(recv))
        /\ acks' = acks \cup {m \in Range(ms) : MSGS[m].ack /\ MSGS[m].op # "resp"}
  /\ UNCHANGED <<userVars, metaVars, strk>>

----------------------------------------------------------------------------
CompletionWorker == RegisterPostRecv \/ RegisterSend \/ RegisterRecv \/ AckSend \/ AckRecv
MetaWorker == \E h \in hdrs : HandleHeaderWrite(h) \/ HandleHeaderRead(h)

\* Behaviours are followed until the completion worker panics.
Next ==
  /\ ~dead
  /\ \/ PostRecv \/ PostRecvSend \/ RdmaRead \/ ReadAcked
     \/ \E m \in DOMAIN MSGS : \E psn \in Psns[m], retry \in BOOLEAN : Arrive(m, psn, retry)
     \/ MetaWorker \/ HwReport \/ CompletionWorker

Spec == Init /\ [][Next]_vars

----------------------------------------------------------------------------
Delivered == {rcq[j].m : j \in DOMAIN rcq}

\* A receive completes, and a message is acknowledged to the peer, only when
\* every packet up to the end of the message is in memory.
DeliverySound == \A m \in Delivered \cup acks : 0 .. LastPsn(m) \subseteq arrived

\* The n-th SEND completes the n-th posted receive, once (the peer wrote the
\* data of the n-th SEND to the buffer of the n-th receive), as long as the
\* header of a message is handled before the window report counts its end.
InOrder == \A j \in DOMAIN rcq : j <= Len(Of("recv")) /\ rcq[j] = [m |-> Of("recv")[j], wr |-> j]
RecvPairing == ~overtaken => InOrder

\* No SEND completes two receives: the event of a message that was registered
\* before is ignored (completion.rs:313).
RecvOnce == \A i, j \in DOMAIN rcq : rcq[i].m = rcq[j].m => i = j

\* A READ completes only when all of its own response is in memory, and READs
\* complete in order, again unless a window report overtakes a header.
ReadSound ==
  ~overtaken =>
    /\ IsPrefix(scq, SelectSeq([r \in DOMAIN READS |-> r], LAMBDA r : READS[r]))
    /\ \A r \in Range(scq) : Psns[Of("resp")[r]] \subseteq arrived

\* The completion worker never finds a SEND without a posted receive: the
\* receive is registered before the peer can know of it (completion.rs:267).
RecvPosted == ~dead

\* Nothing is forgotten: once both workers have nothing left to do, every SEND
\* and every signaled READ whose packets have been reported, with all before
\* them, is complete, whichever of its reports came first.
AllCompleted ==
  (cq = <<>> /\ hdrs = {} /\ ~overtaken) =>
    /\ \A m \in Range(Of("recv")) : 0 .. LastPsn(m) \subseteq got => m \in Delivered
    /\ \A r \in 1 .. racked :
         (READS[r] /\ 0 .. LastPsn(Of("resp")[r]) \subseteq got) => r \in Range(scq)
=============================================================================
