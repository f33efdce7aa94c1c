------------------------- MODULE ReliableConnection -------------------------
(* What a reliable connection promises its user: requests are accepted one    *)
(* after the other, their packets arrive in any order and any number of       *)
(* times, and the signaled ones complete in the order of acceptance, once     *)
(* each, never before every packet up to their end has arrived.               *)
EXTENDS Integers, Sequences, SequencesExt

VARIABLES reqs,   \* accepted requests: [id, n packets, sig]
          got,    \* packets the peer has, counted from the start
          done    \* ids of completed requests

vars == <<reqs, got, done>>

\* number of packets of the first j requests
EndOf(j) == FoldLeft(LAMBDA sum, r : sum + r.n, 0, SubSeq(reqs, 1, j))

\* positions of the signaled requests
SignaledAt == {j \in DOMAIN reqs : reqs[j].sig}

\* ids of the signaled requests among the first j
DoneUpTo(j) ==
  LET sig == SelectSeq(SubSeq(reqs, 1, j), LAMBDA r : r.sig)
  IN [k \in DOMAIN sig |-> sig[k].id]

Init == reqs = <<>> /\ got = {} /\ done = <<>>

Accept ==
  /\ Len(reqs') = Len(reqs) + 1 /\ IsPrefix(reqs, reqs')
  /\ UNCHANGED <<got, done>>

Arrive ==
  /\ \E p \in 0 .. EndOf(Len(reqs)) - 1 : got' = got \cup {p}
  /\ UNCHANGED <<reqs, done>>

\* one acknowledgement may complete several requests
Complete ==
  /\ \E j \in SignaledAt :
       /\ 0 .. EndOf(j) - 1 \subseteq got
       /\ done' = DoneUpTo(j) /\ Len(done') > Len(done)
  /\ UNCHANGED <<reqs, got>>

Next == Accept \/ Arrive \/ Complete

Spec == Init /\ [][Next]_vars
=============================================================================
