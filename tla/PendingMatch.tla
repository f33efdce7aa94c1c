---------------------------- MODULE PendingMatch ----------------------------
(* Matching of posted operations with the receives the peer announced, for    *)
(* one queue pair.  post_send (one thread at a time, under the device mutex)  *)
(* and the RecvWorker thread both run try_match_pendings on two queues, each  *)
(* with a lock of its own that is taken for single operations only.           *)
EXTENDS Integers, Sequences, SequencesExt

CONSTANTS SENDS,     \* posted operations: [kind, len]
          RECVS,     \* lengths of the announced receives
          CAPACITY   \* PENDING_SEND_QUEUE_CAPACITY

Kinds == {"write", "imm", "send"}   \* "write" stands for WRITE and READ

\* what the constants satisfy
PendingAssumption ==
  /\ \A i \in DOMAIN SENDS : SENDS[i].kind \in Kinds /\ SENDS[i].len \in Nat
  /\ RECVS \in Seq(Nat) /\ CAPACITY \in Nat

Threads == {"user", "recv"}

VARIABLES
  posted,    \* calls of post_send so far
  arrived,   \* receives announced so far
  pending,   \* pending_send_queue, the indices of its operations
  recvs,     \* recv_wr_queue
  th,        \* per thread: pc, and the operation and receive it holds (0: none)
  out,       \* tasks sent to the rdma worker: [w, r]
  refused    \* operations post_send refused

vars == <<posted, arrived, pending, recvs, th, out, refused>>

Idle == [pc |-> "idle", w |-> 0, r |-> 0]

Init ==
  /\ posted = 0 /\ arrived = 0 /\ pending = <<>> /\ recvs = <<>>
  /\ th = [t \in Threads |-> Idle] /\ out = <<>> /\ refused = {}

Goto(t, pc) == th' = [th EXCEPT ![t].pc = pc]

----------------------------------------------------------------------------
\* post_send: try_push, then try_match_pendings
PostSend ==
  /\ th["user"].pc = "idle" /\ posted < Len(SENDS)
  /\ posted' = posted + 1
  /\ IF Len(pending) >= CAPACITY
     THEN refused' = refused \cup {posted + 1} /\ UNCHANGED <<pending, th>>
     ELSE pending' = Append(pending, posted + 1) /\ Goto("user", "peek") /\ UNCHANGED refused
  /\ UNCHANGED <<arrived, recvs, out>>

RecvWr_NoMatch ==
  /\ th["recv"].pc = "idle" /\ arrived < Len(RECVS)
  /\ arrived' = arrived + 1
  /\ recvs' = Append(recvs, arrived + 1)
  /\ UNCHANGED <<posted, pending, th, out, refused>>

\* RecvWorker::run: queue the receive, then try_match_pendings
RecvWr ==
  /\ th["recv"].pc = "idle" /\ arrived < Len(RECVS)
  /\ arrived' = arrived + 1
  /\ recvs' = Append(recvs, arrived + 1) /\ Goto("recv", "peek")
  /\ UNCHANGED <<posted, pending, out, refused>>

----------------------------------------------------------------------------
(* try_match_pendings, one step for each time a lock is held *)

NeedsRecv(w) == SENDS[w].kind # "write"

Peek(t) ==
  /\ th[t].pc = "peek"
  /\ Goto(t, IF pending = <<>> THEN "idle" ELSE IF NeedsRecv(Head(pending)) THEN "take" ELSE "pop")
  /\ UNCHANGED <<posted, arrived, pending, recvs, out, refused>>

TakeRecv(t) ==
  /\ th[t].pc = "take"
  /\ IF recvs = <<>> THEN Goto(t, "idle") /\ UNCHANGED recvs
     ELSE recvs' = Tail(recvs) /\ th' = [th EXCEPT ![t].pc = "popMatched", ![t].r = Head(recvs)]
  /\ UNCHANGED <<posted, arrived, pending, out, refused>>

\* pop_front().unwrap() on the matched path; the assertion, and the length check
PopMatched(t) ==
  /\ th[t].pc = "popMatched"
  /\ IF pending = <<>> THEN Goto(t, "panic") /\ UNCHANGED pending
     ELSE LET w == Head(pending)
          IN /\ pending' = Tail(pending)
             /\ th' = [th EXCEPT ![t].w = w,
                  ![t].pc = IF SENDS[w].kind = "write" THEN "panic"
                            ELSE IF SENDS[w].kind = "send" /\ SENDS[w].len # RECVS[th[t].r]
                                 THEN "unpop" ELSE "emit"]
  /\ UNCHANGED <<posted, arrived, recvs, out, refused>>

\* pop_front().unwrap() on the other path; unreachable! for a SEND
PopPlain(t) ==
  /\ th[t].pc = "pop"
  /\ IF pending = <<>> THEN Goto(t, "panic") /\ UNCHANGED pending
     ELSE /\ pending' = Tail(pending)
          /\ th' = [th EXCEPT ![t].w = Head(pending),
               ![t].pc = IF SENDS[Head(pending)].kind = "send" THEN "panic" ELSE "emit"]
  /\ UNCHANGED <<posted, arrived, recvs, out, refused>>

Emit_Again(t) ==
  /\ th[t].pc = "emit"
  /\ out' = Append(out, [w |-> th[t].w, r |-> th[t].r])
  /\ th' = [th EXCEPT ![t].pc = "peek", ![t].r = 0]
  /\ UNCHANGED <<posted, arrived, pending, recvs, refused>>

Emit(t) ==
  /\ th[t].pc = "emit"
  /\ out' = Append(out, [w |-> th[t].w, r |-> th[t].r])
  /\ th' = [th EXCEPT ![t] = [Idle EXCEPT !.pc = "peek"]]
  /\ UNCHANGED <<posted, arrived, pending, recvs, refused>>

\* a length mismatch: both go back to the front of their queues, post_send
\* returns the error and RecvWorker panics.
UnpopSend(t) ==
  /\ th[t].pc = "unpop"
  /\ pending' = <<th[t].w>> \o pending
  /\ th' = [th EXCEPT ![t].pc = "unpopRecv", ![t].w = 0]
  /\ UNCHANGED <<posted, arrived, recvs, out, refused>>

UnpopRecv(t) ==
  /\ th[t].pc = "unpopRecv"
  /\ recvs' = <<th[t].r>> \o recvs
  /\ th' = [th EXCEPT ![t] = [Idle EXCEPT !.pc = IF t = "recv" THEN "error" ELSE "idle"]]
  /\ UNCHANGED <<posted, arrived, pending, out, refused>>

Next ==
  \/ PostSend \/ RecvWr
  \/ \E t \in Threads : \/ Peek(t) \/ TakeRecv(t) \/ PopMatched(t) \/ PopPlain(t)
                        \/ Emit(t) \/ UnpopSend(t) \/ UnpopRecv(t)

Spec == Init /\ [][Next]_vars

----------------------------------------------------------------------------
Count(s, x) == Len(SelectSeq(s, LAMBDA y : y = x))
Held(f, x) == IF th["user"][f] = x THEN (IF th["recv"][f] = x THEN 2 ELSE 1)
              ELSE IF th["recv"][f] = x THEN 1 ELSE 0

\* Every accepted operation is sent at most once and is never lost: it waits, a
\* thread holds it, or it was sent; and no receive serves two operations.
EachOnce ==
  /\ \A w \in (1 .. posted) \ refused :
       Count(pending, w) + Held("w", w) + Len(SelectSeq(out, LAMBDA o : o.w = w)) = 1
  /\ \A r \in 1 .. arrived :
       Count(recvs, r) + Held("r", r) + Len(SelectSeq(out, LAMBDA o : o.r = r)) = 1

\* No match is missed: when both threads are done, the queue is empty, or its
\* head waits for a receive that has not been announced, or does not fit.
NoMissedMatch ==
  (\A t \in Threads : th[t].pc = "idle") =>
    \/ pending = <<>>
    \/ NeedsRecv(Head(pending)) /\ recvs = <<>>
    \/ recvs # <<>> /\ SENDS[Head(pending)].kind = "send"
                    /\ SENDS[Head(pending)].len # RECVS[Head(recvs)]

\* A SEND always finds a receive: no thread fails an assertion or unwraps the
\* front of an empty queue (ctx.rs:324, 330, 373, 386).
MatchNeverPanics ==
  \A t \in Threads : th[t].pc # "panic"

\* An operation that waits for a receive blocks those behind it: operations are
\* sent in the order they were posted.
HeadBlocks == \A i, j \in DOMAIN out : i < j => out[i].w < out[j].w
=============================================================================
