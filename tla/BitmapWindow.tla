---------------------------- MODULE BitmapWindow ----------------------------
(* The receive window the hardware keeps per queue pair (mkBitmapWindowStorage *)
(* in PsnContinousChecker.bsv) as pure operators.  An entry holds leftBound,   *)
(* the number of the newest stride seen, and data, the set of bit positions    *)
(* that are one; position WINDOW - 1 is the last PSN of the newest stride.     *)
EXTENDS Psn, FiniteSets

CONSTANTS STRIDE,     \* PSNs per stride: ACK_WINDOW_STRIDE, 16
          STRIDES     \* strides per window: 128 / 16

ASSUME WindowAssumption ==
  /\ STRIDE \in Nat \ {0} /\ STRIDES \in Nat \ {0}
  /\ PSN_SIZE % (2 * STRIDE) = 0
  /\ 2 * STRIDE * STRIDES <= PSN_SIZE

WINDOW == STRIDE * STRIDES
BOUND_SIZE == PSN_SIZE \div STRIDE

\* what a BRAM entry can be
Entry == [left : 0 .. BOUND_SIZE - 1, data : SUBSET (0 .. WINDOW - 1)]

\* resetValue: every PSN before the first is taken as received.
ResetEntry == [left |-> BOUND_SIZE - 1, data |-> 0 .. WINDOW - 1]

\* stage one: the stride of a packet and its bit in the newest stride
OneHot(psn) == [left |-> psn \div STRIDE,
                data |-> {WINDOW - STRIDE + (psn % STRIDE)}]

\* PSN of bit 0 of an entry, as the driver computes it (remap_psn)
RemapPsn(left) == PsnSub(left * STRIDE, WINDOW - STRIDE)

ShiftRight_NoShift(data, n) == {b \in data : b >= n}

\* a right shift: the bits move towards the oldest PSN and fall out
ShiftRight(data, n) == {b - n : b \in {c \in data : c >= n}}

ShiftedOutHole_OffByOne(data, n) == ~ (0 .. n - 2 \subseteq data)

\* windowShiftedOutData is not all ones after n positions left the window
ShiftedOutHole(data, n) == ~ (0 .. n - 1 \subseteq data)

\* Stage two: merge a packet into the entry read from the BRAM.
\*   stale  the packet is STRIDES or more strides behind: nothing is written
\*          back, and the response carries the packet's own one-hot entry;
\*   lost   the window slid and a PSN it left behind was never received
\*          (isShiftWindow and windowShiftedOutData not all ones).
Merge(old, psn) ==
  LET new  == OneHot(psn)
      d    == (new.left - old.left) % BOUND_SIZE      \* boundaryDelta
      neg  == d >= BOUND_SIZE \div 2                  \* its most significant bit
      abs  == IF neg THEN BOUND_SIZE - d ELSE d
      out  == abs >= STRIDES                          \* isShiftOutOfBoundary
      slid == ~neg /\ d > 0                           \* isShiftWindow
      kept == IF out THEN {} ELSE IF slid THEN ShiftRight(old.data, d * STRIDE) ELSE old.data
      mine == IF slid THEN new.data ELSE ShiftRight(new.data, abs * STRIDE)
  IN IF neg /\ out
     THEN [stale |-> TRUE, entry |-> old, old |-> old, new |-> new, lost |-> FALSE]
     ELSE LET e == [left |-> IF slid THEN new.left ELSE old.left, data |-> kept \cup mine]
          IN [stale |-> FALSE, entry |-> e, old |-> old, new |-> e,
              lost |-> slid /\ (out \/ ShiftedOutHole(old.data, d * STRIDE))]

----------------------------------------------------------------------------
(* For the invariants: the windows of a connection whose PSNs have not        *)
(* wrapped, with the window of a fresh queue pair just before PSN 0.          *)

\* PSN of bit 0 of an entry, as a signed number
Start(left) == IF left = BOUND_SIZE - 1 THEN -WINDOW ELSE STRIDE * left - (WINDOW - STRIDE)

\* entries of a connection of n packets
EntryBelow(n) == {e \in Entry : e.left = BOUND_SIZE - 1 \/ STRIDE * e.left < n}

\* An entry shows packets of got only; all PSNs before 0 count as received.
Shows(e, got) == \A b \in e.data : Start(e.left) + b >= 0 => Start(e.left) + b \in got
=============================================================================
