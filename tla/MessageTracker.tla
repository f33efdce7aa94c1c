--------------------------- MODULE MessageTracker ---------------------------
(* MessageTracker of workers/completion.rs as pure operators: the messages of *)
(* one direction that wait for their last packet to be acknowledged.  An      *)
(* element carries msn and end (end_psn); `base' is the acknowledged PSN.     *)
EXTENDS Psn, Sequences, SequencesExt

CONSTANT MAX_SEND_WR      \* constants.rs: 0x8000, half of the MSN space

ASSUME MsnAssumption == MAX_SEND_WR \in Nat \ {0}

MSN_SIZE == 2 * MAX_SEND_WR

\* PartialOrd for Msn
MsnLt(a, b) == (a - b) % MSN_SIZE > MAX_SEND_WR

NewMessages == [inner |-> <<>>, base |-> 0]

\* append: behind the last message with a smaller MSN; a message whose MSN is
\* already there is not added again.
MtAppend(t, e) ==
  LET k == Max({0} \cup {i \in DOMAIN t.inner : MsnLt(t.inner[i].msn, e.msn)})
  IN IF k < Len(t.inner) /\ t.inner[k + 1].msn = e.msn THEN t
     ELSE [t EXCEPT !.inner = InsertAt(@, k + 1, e)]

MtReady_Registered(t, e) == TRUE

MtReady_Next(t, e) == PsnLe(e.end, PsnAdd(t.base, 1))

\* a message is complete when the base has reached its end
MtReady(t, e) == PsnLe(e.end, t.base)

\* ack followed by pop until it returns None: the messages that leave
MtAck(t, psn) ==
  LET u == [t EXCEPT !.base = psn]
      k == Max({j \in 0 .. Len(u.inner) : \A i \in 1 .. j : MtReady(u, u.inner[i])})
  IN [t |-> [u EXCEPT !.inner = SubSeq(@, k + 1, Len(@))],
      popped |-> SubSeq(u.inner, 1, k)]
=============================================================================
