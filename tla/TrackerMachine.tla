--------------------------- MODULE TrackerMachine ---------------------------
(* One PsnTracker driven by every sequence of its four operations, next to    *)
(* the unbounded sequence numbers it stands for.  ubase and uacked count      *)
(* packets from the start of the connection without wrapping: they are what   *)
(* the doc comments of the operations promise, and what the 24-bit tracker    *)
(* has to agree with.                                                         *)
EXTENDS PsnTracker

CONSTANTS LIMIT,     \* packets of the connection
          BITMAP,    \* bits of one report
          REACH      \* how far ahead of the base an acknowledgement may be:
                     \* REACH + BITMAP < MAX_PSN_WINDOW

VARIABLES t, ubase, uacked
vars == <<t, ubase, uacked>>

Wire(n) == n % PSN_SIZE

\* the packets an acknowledgement may name now: near the base, and sent
Near == ubase - BITMAP .. ubase + REACH
Sent(ns) == {n \in ns : 0 <= n /\ n < LIMIT}

Init == t = NewTracker /\ ubase = 0 /\ uacked = {}

\* base_psn is compared with its unbounded counterpart, which moves with it
Moved(new) == ubase' = ubase + ((new.base - t.base) % PSN_SIZE)

AckOne ==
  \E n \in Sent(Near) :
    LET r == PtAckOne(t, Wire(n))
    IN /\ t' = r.t /\ Moved(r.t)
       /\ uacked' = uacked \cup {n}

AckBitmap ==
  \E n \in Near, bits \in SUBSET (0 .. BITMAP - 1) :
    LET r == PtAckBitmap(t, Wire(n), bits)
    IN /\ \A b \in bits : n + b < LIMIT
       /\ t' = r.t /\ Moved(r.t)
       /\ uacked' = uacked \cup Sent({n + b : b \in bits})

AckRange ==
  \E lo, hi \in Near :
    LET r == PtAckRange(t, Wire(lo), Wire(hi))
    IN /\ lo <= hi /\ hi <= LIMIT
       /\ t' = r.t /\ Moved(r.t)
       /\ uacked' = uacked \cup Sent(lo .. hi - 1)

\* everything before n: only a peer that has received it all says so
AckBefore ==
  \E n \in Near :
    LET r == PtAckBefore(t, Wire(n))
    IN /\ n <= LIMIT
       /\ t' = r.t /\ Moved(r.t)
       /\ uacked' = uacked \cup Sent(0 .. n - 1)

Next == AckOne \/ AckBitmap \/ AckRange \/ AckBefore

Spec == Init /\ [][Next]_vars

----------------------------------------------------------------------------
\* An acknowledged packet stays acknowledged: it is below base_psn or its bit
\* is set ("Acknowledges all PSNs before the given PSN", psn_tracker.rs:147).
NoLostAck == \A n \in uacked : n < ubase \/ (n - ubase) \in t.inner
=============================================================================
