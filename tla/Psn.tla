-------------------------------- MODULE Psn --------------------------------
(* Packet sequence numbers (rdma_utils/psn.rs): integers modulo PSN_SIZE     *)
(* (2^24 in the driver) compared inside a window of half that size.          *)
EXTENDS Integers

CONSTANT MAX_PSN_WINDOW      \* constants.rs: 1 << 23

ASSUME PsnAssumption == MAX_PSN_WINDOW \in Nat \ {0}

PSN_SIZE == 2 * MAX_PSN_WINDOW
PSN == 0 .. PSN_SIZE - 1

\* Add and Sub mask the result to the width of a PSN.
PsnAdd(p, n) == (p + n) % PSN_SIZE
PsnSub(p, n) == (p - n) % PSN_SIZE

\* Ord::cmp: a < b exactly when (a - b) masked exceeds MAX_PSN_WINDOW, so two
\* PSNs half the space apart are each greater than the other.
PsnLt(a, b) == PsnSub(a, b) > MAX_PSN_WINDOW
PsnLe(a, b) == a = b \/ PsnLt(a, b)
=============================================================================
