----------------------------- MODULE PsnTracker -----------------------------
(* The acknowledgement trackers of rdma_utils/psn_tracker.rs as pure          *)
(* operators.  A PsnTracker is a record: base is base_psn, inner the set of   *)
(* offsets from base whose bit is set in the bit vector `inner'.  Operations  *)
(* return [t |-> new tracker, ret |-> Some(psn) or NoPsn].                    *)
EXTENDS Psn, FiniteSets, FiniteSetsExt

NoPsn == -1
OrElse(a, b) == IF a # NoPsn THEN a ELSE b

NewTracker == [base |-> 0, inner |-> {}]

\* rstart: the signed distance of psn from the base.  The subtraction is done
\* in 32 bits, and only bit 23 of the result is looked at: a psn numerically
\* below the base is always behind it, whatever the modular distance.
RStart(t, psn) ==
  LET d == psn - t.base IN IF d >= MAX_PSN_WINDOW THEN d - PSN_SIZE ELSE d

\* BitVec::shift_left: the bits move towards the base.
ShiftLeft(inner, n) == {i - n : i \in {j \in inner : j >= n}}

\* try_advance: move the base to the first PSN whose bit is clear.
TryAdvance(t) ==
  LET pos == Min({i \in 0 .. Cardinality(t.inner) : i \notin t.inner})
  IN IF pos = 0 THEN [t |-> t, ret |-> NoPsn]
     ELSE [t |-> [base |-> PsnAdd(t.base, pos), inner |-> ShiftLeft(t.inner, pos)],
           ret |-> PsnAdd(t.base, pos)]

\* ack_bitmap: bit b of the report acknowledges now_psn + b; bits behind the
\* base are skipped.
PtAckBitmap(t, now_psn, bits) ==
  TryAdvance([t EXCEPT !.inner =
                @ \cup {i \in {RStart(t, now_psn) + b : b \in bits} : i >= 0}])

PtAckBefore_NoGuard(t, psn) ==
  [t |-> [base |-> psn, inner |-> ShiftLeft(t.inner, PsnSub(psn, t.base))], ret |-> psn]

\* ack_before: jump to psn unless it is behind.  It does not advance over bits
\* that are already set at the new base.
PtAckBefore(t, psn) ==
  LET r == RStart(t, psn)
  IN IF r < 0 THEN [t |-> t, ret |-> NoPsn]
     ELSE [t |-> [base |-> psn, inner |-> ShiftLeft(t.inner, r)], ret |-> psn]

\* ack_range: [psn_low, psn_high); the base moves only through ack_before.
PtAckRange(t, psn_low, psn_high) ==
  IF PsnLe(psn_low, t.base) THEN PtAckBefore(t, psn_high)
  ELSE IF RStart(t, psn_low) < 0 \/ RStart(t, psn_high) < 0
       THEN [t |-> t, ret |-> NoPsn]
       ELSE [t |-> [t EXCEPT !.inner = @ \cup
                      RStart(t, psn_low) .. RStart(t, psn_high) - 1],
             ret |-> NoPsn]

PtAckOne(t, psn) ==
  LET r == RStart(t, psn)
  IN IF r < 0 THEN [t |-> t, ret |-> NoPsn]
     ELSE TryAdvance([t EXCEPT !.inner = @ \cup {r}])

----------------------------------------------------------------------------
(* LocalAckTracker: what the receiving driver knows from its own hardware.    *)
(* psn_pre is the start of the last window the hardware reported.             *)

NewLocal == [t |-> NewTracker, psn_pre |-> 0]

Later(a, b) == IF PsnLt(a, b) THEN b ELSE a

LocalAckOne(l, psn) ==
  LET r == PtAckOne(l.t, psn)
  IN [l |-> [l EXCEPT !.t = r.t], ret |-> r.ret]

LocalAckBitmap(l, base_psn, bits) ==
  LET x == PtAckRange(l.t, l.psn_pre, base_psn)
      y == PtAckBitmap(x.t, base_psn, bits)
  IN [l |-> [t |-> y.t, psn_pre |-> Later(l.psn_pre, base_psn)],
      ret |-> OrElse(y.ret, x.ret)]

\* a plausible slip: the whole slide is taken as received
LocalNakBitmap_RangeToNow(l, psn_pre, pre, psn_now, now) ==
  LET x == PtAckRange(l.t, l.psn_pre, psn_now)
      y == PtAckBitmap(x.t, psn_pre, pre)
      z == PtAckBitmap(y.t, psn_now, now)
  IN [l |-> [t |-> z.t, psn_pre |-> Later(l.psn_pre, psn_now)],
      ret |-> OrElse(z.ret, OrElse(y.ret, x.ret))]

LocalNakBitmap(l, psn_pre, pre, psn_now, now) ==
  LET x == PtAckRange(l.t, l.psn_pre, psn_pre)
      y == PtAckBitmap(x.t, psn_pre, pre)
      z == PtAckBitmap(y.t, psn_now, now)
  IN [l |-> [t |-> z.t, psn_pre |-> Later(l.psn_pre, psn_now)],
      ret |-> OrElse(z.ret, OrElse(y.ret, x.ret))]

----------------------------------------------------------------------------
(* RemoteAckTracker: what the sending driver knows.  The packets between the  *)
(* windows of two hardware NAKs are acknowledged only when the NAKs are       *)
(* consecutive by their message sequence number.                              *)

NewRemote == [t |-> NewTracker, msn_pre |-> 0, psn_pre |-> 0]

RemoteAckBefore(r, psn) ==
  LET x == PtAckBefore(r.t, psn)
  IN [r |-> [r EXCEPT !.t = x.t], ret |-> x.ret]

RemoteNakBitmap(r, msn, psn_pre, pre, psn_now, now) ==
  LET x == IF msn = r.msn_pre + 1 THEN PtAckRange(r.t, r.psn_pre, psn_pre)
           ELSE [t |-> r.t, ret |-> NoPsn]
      y == PtAckBitmap(x.t, psn_pre, pre)
      z == PtAckBitmap(y.t, psn_now, now)
      later == PsnLt(r.psn_pre, psn_now)
  IN [r |-> [t |-> z.t,
             psn_pre |-> IF later THEN psn_now ELSE r.psn_pre,
             msn_pre |-> IF later THEN msn ELSE r.msn_pre],
      ret |-> OrElse(z.ret, OrElse(y.ret, x.ret))]

----------------------------------------------------------------------------
\* the PSNs a tracker counts as acknowledged
Acknowledged(t) == {p \in PSN : p < t.base \/ (p - t.base) \in t.inner}

(* For the invariants: a tracker of n packets that counts only packets of got *)
(* as acknowledged, all of them numbered from 0.                              *)
Tracker(n) == [base : 0 .. n, inner : SUBSET (0 .. n - 1)]

CountsOnly(t, got) ==
  /\ 0 .. t.base - 1 \subseteq got
  /\ \A i \in t.inner : t.base + i \in got
=============================================================================
