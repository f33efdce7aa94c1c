----------------------------- MODULE AckLemmas -----------------------------
(* What the operators of the acknowledgement path compute, for every size of  *)
(* the window and of the PSN space: the arithmetic of a merge into the window  *)
(* and the operations of the trackers.                                        *)
EXTENDS BitmapWindow, PsnTracker, FiniteSetTheorems, WellFoundedInduction, TLAPS

\* A leaf that names no prover goes to the SMT solver, then to Zenon.
USE SMTT(60), ZenonT(60)

\* Division with remainder.
LEMMA DivMod ==
    ASSUME NEW x \in Nat, NEW r \in Nat \ {0}
    PROVE  /\ x \div r \in Nat
           /\ x % r \in 0 .. r - 1
           /\ x = r * (x \div r) + (x % r)
OBVIOUS

\* Multiplication by a natural number is monotone.
LEMMA MulMono ==
    ASSUME NEW a \in Nat, NEW b \in Nat, NEW c \in Nat, a <= b
    PROVE  c * a <= c * b
OBVIOUS

\* Of two multiples, the smaller has the smaller factor.
LEMMA MulLess ==
    ASSUME NEW a \in Nat, NEW b \in Nat, NEW c \in Nat \ {0}, c * a < c * b
    PROVE  a < b
<1>1. CASE b <= a
  BY <1>1, MulMono
<1> QED BY <1>1

\* The strides divide the PSN space evenly.
LEMMA Sizes ==
    /\ STRIDE \in Nat \ {0} /\ STRIDES \in Nat \ {0} /\ PSN_SIZE \in Nat \ {0}
    /\ BOUND_SIZE \in Nat \ {0} /\ STRIDE * BOUND_SIZE = PSN_SIZE
    /\ WINDOW \in Nat /\ STRIDE <= WINDOW
<1>1. STRIDE \in Nat \ {0} /\ STRIDES \in Nat \ {0} /\ PSN_SIZE \in Nat \ {0}
  BY PsnAssumption, WindowAssumption DEF PSN_SIZE
<1>2. PICK k \in Nat : PSN_SIZE = (2 * STRIDE) * k
  <2>1. PSN_SIZE % (2 * STRIDE) = 0 /\ 2 * STRIDE \in Nat \ {0}
    BY <1>1, WindowAssumption
  <2> QED BY <2>1, <1>1, DivMod
<1>3. PSN_SIZE = STRIDE * (2 * k)
  BY <1>1, <1>2
<1>4. BOUND_SIZE = 2 * k
  <2>1. /\ PSN_SIZE \div STRIDE \in Nat /\ PSN_SIZE % STRIDE \in 0 .. STRIDE - 1
        /\ PSN_SIZE = STRIDE * (PSN_SIZE \div STRIDE) + (PSN_SIZE % STRIDE)
    BY <1>1, DivMod, Zenon
  <2> DEFINE q == PSN_SIZE \div STRIDE
             r == PSN_SIZE % STRIDE
             m == 2 * k
  <2>2. q \in Nat /\ r \in 0 .. STRIDE - 1 /\ STRIDE * m = STRIDE * q + r /\ m \in Nat
    BY <2>1, <1>2, <1>3
  <2> HIDE DEF q, r, m
  <2>3. ~(q < m)
    <3>1. SUFFICES ASSUME q + 1 <= m PROVE FALSE
      BY <2>2
    <3>2. STRIDE * (q + 1) <= STRIDE * m
      BY <3>1, <2>2, <1>1, MulMono
    <3>3. STRIDE * (q + 1) = STRIDE * q + STRIDE /\ STRIDE * q \in Nat
      BY <2>2, <1>1
    <3> QED BY <3>2, <3>3, <2>2, <1>1
  <2>4. ~(m < q)
    <3>1. SUFFICES ASSUME m + 1 <= q PROVE FALSE
      BY <2>2
    <3>2. STRIDE * (m + 1) <= STRIDE * q
      BY <3>1, <2>2, <1>1, MulMono
    <3>3. STRIDE * (m + 1) = STRIDE * m + STRIDE /\ STRIDE * m \in Nat /\ STRIDE * q \in Nat
      BY <2>2, <1>1
    <3> QED BY <3>2, <3>3, <2>2, <1>1
  <2> QED BY <2>2, <2>3, <2>4 DEF BOUND_SIZE, q, m
<1>5. BOUND_SIZE # 0
  BY <1>1, <1>3, <1>4
<1>6. WINDOW \in Nat /\ STRIDE <= WINDOW
  <2>1. STRIDE * 1 <= STRIDE * STRIDES
    BY <1>1, MulMono
  <2> QED BY <2>1, <1>1 DEF WINDOW
<1> QED BY <1>1, <1>2, <1>3, <1>4, <1>5, <1>6

\* A packet has a stride of the PSN space and a bit in the newest stride.
LEMMA OneHotType ==
    ASSUME NEW psn \in PSN
    PROVE  OneHot(psn) \in Entry
<1>1. /\ psn \in Nat /\ psn < PSN_SIZE
      /\ psn \div STRIDE \in Nat /\ psn % STRIDE \in 0 .. STRIDE - 1
      /\ psn = STRIDE * (psn \div STRIDE) + (psn % STRIDE)
  <2>1. psn \in Nat /\ psn < PSN_SIZE
    BY Sizes DEF PSN
  <2>2. STRIDE \in Nat \ {0}
    BY Sizes
  <2> QED BY <2>1, <2>2, DivMod, Zenon
<1> DEFINE q == psn \div STRIDE
           r == psn % STRIDE
<1> HIDE DEF q, r
<1>2. q \in Nat /\ r \in 0 .. STRIDE - 1 /\ STRIDE * q < STRIDE * BOUND_SIZE
  <2>1. q \in Nat /\ r \in 0 .. STRIDE - 1 /\ psn = STRIDE * q + r
    BY <1>1 DEF q, r
  <2>2. STRIDE * q \in Nat
    BY <2>1, Sizes
  <2> QED BY <2>1, <2>2, <1>1, Sizes
<1>3. q \in 0 .. BOUND_SIZE - 1
  <2>1. q < BOUND_SIZE
    BY <1>2, Sizes, MulLess
  <2> QED BY <2>1, <1>2, Sizes
<1>4. WINDOW - STRIDE + r \in 0 .. WINDOW - 1
  BY <1>2, Sizes
<1>5. OneHot(psn) = [left |-> q, data |-> {WINDOW - STRIDE + r}]
  BY DEF OneHot, q, r
<1> QED BY <1>3, <1>4, <1>5 DEF Entry

\* A shift keeps the bits inside the window.
LEMMA ShiftType ==
    ASSUME NEW data \in SUBSET (0 .. WINDOW - 1), NEW n \in Nat
    PROVE  ShiftRight(data, n) \in SUBSET (0 .. WINDOW - 1)
<1>1. ASSUME NEW b \in data, b >= n PROVE b - n \in 0 .. WINDOW - 1
  BY <1>1, Sizes
<1> QED BY <1>1 DEF ShiftRight

\* Merging a packet gives an entry of the window, and a report whether a PSN
\* was lost.
LEMMA MergeType ==
    ASSUME NEW old \in Entry, NEW psn \in PSN
    PROVE  /\ Merge(old, psn).entry \in Entry
           /\ Merge(old, psn).lost \in BOOLEAN
<1> DEFINE new  == OneHot(psn)
           d    == (new.left - old.left) % BOUND_SIZE
           neg  == d >= BOUND_SIZE \div 2
           abs  == IF neg THEN BOUND_SIZE - d ELSE d
           out  == abs >= STRIDES
           slid == ~neg /\ d > 0
           kept == IF out THEN {} ELSE IF slid THEN ShiftRight(old.data, d * STRIDE) ELSE old.data
           mine == IF slid THEN new.data ELSE ShiftRight(new.data, abs * STRIDE)
           e    == [left |-> IF slid THEN new.left ELSE old.left, data |-> kept \cup mine]
           lost == slid /\ (out \/ ShiftedOutHole(old.data, d * STRIDE))
<1>1. /\ new.left \in 0 .. BOUND_SIZE - 1 /\ new.data \in SUBSET (0 .. WINDOW - 1)
      /\ old.left \in 0 .. BOUND_SIZE - 1 /\ old.data \in SUBSET (0 .. WINDOW - 1)
  BY OneHotType DEF Entry
<1> HIDE DEF new
<1>2. d \in Nat /\ d < BOUND_SIZE
  BY <1>1, Sizes
<1> HIDE DEF d
<1>3. abs \in Nat
  BY <1>2, Sizes
<1> HIDE DEF neg
<1> HIDE DEF abs
<1>4. d * STRIDE \in Nat /\ abs * STRIDE \in Nat
  BY <1>2, <1>3, Sizes
<1>5. kept \in SUBSET (0 .. WINDOW - 1)
  BY <1>1, <1>4, ShiftType
<1>6. mine \in SUBSET (0 .. WINDOW - 1)
  BY <1>1, <1>4, ShiftType
<1> HIDE DEF kept, mine, out, slid
<1>7. e \in Entry
  BY <1>1, <1>5, <1>6 DEF Entry
<1>8. lost \in BOOLEAN
  BY DEF ShiftedOutHole, slid, out
<1> HIDE DEF e, lost
<1>9. Merge(old, psn) =
        IF neg /\ out
        THEN [stale |-> TRUE, entry |-> old, old |-> old, new |-> new, lost |-> FALSE]
        ELSE [stale |-> FALSE, entry |-> e, old |-> old, new |-> e, lost |-> lost]
  BY Zenon DEF Merge, new, d, neg, abs, out, slid, kept, mine, e, lost
<1>10. CASE neg /\ out
  BY <1>9, <1>10
<1>11. CASE ~(neg /\ out)
  <2>1. Merge(old, psn) = [stale |-> FALSE, entry |-> e, old |-> old, new |-> e, lost |-> lost]
    BY <1>9, <1>11, Zenon
  <2> DEFINE m == [stale |-> FALSE, entry |-> e, old |-> old, new |-> e, lost |-> lost]
  <2>2. m.entry = e
    OBVIOUS
  <2>3. m.lost = lost
    OBVIOUS
  <2> HIDE DEF m
  <2>4. Merge(old, psn) = m
    BY <2>1 DEF m
  <2> QED BY <2>2, <2>3, <2>4, <1>7, <1>8, Zenon
<1> QED BY <1>10, <1>11

\* The entry of a fresh queue pair.
LEMMA ResetType == ResetEntry \in Entry
BY Sizes DEF ResetEntry, Entry

-----------------------------------------------------------------------------
(* The window as a connection of n packets sees it, before any PSN wraps.     *)

\* Number of the newest stride of an entry; -1 for a fresh queue pair.
Slot(left) == IF left = BOUND_SIZE - 1 THEN -1 ELSE left

\* Half the strides cover half the PSN space.
LEMMA HalfBound ==
    /\ BOUND_SIZE \div 2 \in Nat /\ BOUND_SIZE = 2 * (BOUND_SIZE \div 2)
    /\ STRIDE * (BOUND_SIZE \div 2) = MAX_PSN_WINDOW
<1>1. PICK k \in Nat : PSN_SIZE = (2 * STRIDE) * k
  <2>1. PSN_SIZE % (2 * STRIDE) = 0 /\ 2 * STRIDE \in Nat \ {0} /\ PSN_SIZE \in Nat
    BY Sizes, WindowAssumption
  <2>2. /\ PSN_SIZE \div (2 * STRIDE) \in Nat
        /\ PSN_SIZE = (2 * STRIDE) * (PSN_SIZE \div (2 * STRIDE)) + (PSN_SIZE % (2 * STRIDE))
    BY <2>1, DivMod, Zenon
  <2> DEFINE k == PSN_SIZE \div (2 * STRIDE)
  <2>3. k \in Nat /\ PSN_SIZE = (2 * STRIDE) * k + 0
    BY <2>1, <2>2, Zenon
  <2> HIDE DEF k
  <2> QED BY <2>1, <2>3, Sizes
<1>2. STRIDE * BOUND_SIZE = STRIDE * (2 * k)
  BY <1>1, Sizes
<1>3. BOUND_SIZE = 2 * k
  <2>1. 2 * k \in Nat /\ BOUND_SIZE \in Nat /\ STRIDE \in Nat \ {0}
    BY Sizes
  <2> DEFINE m == 2 * k
  <2> HIDE DEF m
  <2>2. ASSUME NEW a \in Nat, NEW b \in Nat, a < b, STRIDE * a = STRIDE * b PROVE FALSE
    <3>1. STRIDE * (a + 1) <= STRIDE * b
      BY <2>1, <2>2, MulMono
    <3>2. STRIDE * (a + 1) = STRIDE * a + STRIDE /\ STRIDE * a \in Nat
      BY <2>1, <2>2
    <3> QED BY <3>1, <3>2, <2>1, <2>2
  <2>3. m \in Nat /\ STRIDE * BOUND_SIZE = STRIDE * m
    BY <1>2, <2>1 DEF m
  <2>4. ~(m < BOUND_SIZE) /\ ~(BOUND_SIZE < m)
    BY <2>1, <2>2, <2>3
  <2> QED BY <2>1, <2>3, <2>4 DEF m
<1>4. BOUND_SIZE \div 2 = k
  BY <1>3
<1>5. 2 * (STRIDE * k) = 2 * MAX_PSN_WINDOW /\ STRIDE * k \in Nat /\ MAX_PSN_WINDOW \in Nat
  BY <1>1, Sizes, PsnAssumption DEF PSN_SIZE
<1> QED BY <1>3, <1>4, <1>5

\* Strides of the connection lie in the first half of the PSN space.
LEMMA SlotBound ==
    ASSUME NEW n \in Nat, n + WINDOW < MAX_PSN_WINDOW,
           NEW l \in Nat, STRIDE * l < n
    PROVE  l + 1 < BOUND_SIZE \div 2
<1>1. STRIDE * (l + 1) = STRIDE * l + STRIDE /\ STRIDE * l \in Nat /\ l + 1 \in Nat
  BY Sizes
<1>2. STRIDE * (l + 1) < STRIDE * (BOUND_SIZE \div 2)
  BY <1>1, Sizes, HalfBound, PsnAssumption
<1> QED BY <1>1, <1>2, Sizes, HalfBound, MulLess

\* An entry of the connection: its stride, and where its window starts.
LEMMA SlotFacts ==
    ASSUME NEW n \in Nat, n + WINDOW < MAX_PSN_WINDOW, NEW e \in EntryBelow(n)
    PROVE  /\ e.left \in 0 .. BOUND_SIZE - 1 /\ e.data \in SUBSET (0 .. WINDOW - 1)
           /\ Slot(e.left) \in Int /\ Slot(e.left) >= -1
           /\ Slot(e.left) + 1 < BOUND_SIZE \div 2
           /\ e.left = IF Slot(e.left) = -1 THEN BOUND_SIZE - 1 ELSE Slot(e.left)
           /\ Start(e.left) = STRIDE * Slot(e.left) - (WINDOW - STRIDE)
           /\ Start(e.left) \in Int /\ -WINDOW <= Start(e.left) /\ Start(e.left) <= n
<1>1. /\ e.left \in 0 .. BOUND_SIZE - 1 /\ e.data \in SUBSET (0 .. WINDOW - 1)
      /\ e.left = BOUND_SIZE - 1 \/ STRIDE * e.left < n
  BY DEF EntryBelow, Entry
<1>2. BOUND_SIZE \div 2 > 0 /\ STRIDE \in Nat \ {0} /\ WINDOW \in Nat /\ STRIDE <= WINDOW
  BY Sizes, HalfBound, PsnAssumption
<1>3. CASE e.left = BOUND_SIZE - 1
  <2>1. Slot(e.left) = -1 /\ Start(e.left) = -WINDOW
    BY <1>3 DEF Slot, Start
  <2>2. STRIDE * (-1) = -STRIDE
    BY <1>2
  <2> HIDE DEF Slot, Start
  <2>3. BOUND_SIZE \div 2 \in Nat /\ BOUND_SIZE \in Nat
    BY Sizes, HalfBound
  <2>4. 0 < BOUND_SIZE \div 2
    BY <1>2, <2>3, HalfBound, Sizes, PsnAssumption
  <2> QED BY <1>1, <1>2, <1>3, <2>1, <2>2, <2>3, <2>4
<1>4. CASE e.left # BOUND_SIZE - 1
  <2>1. Slot(e.left) = e.left /\ Start(e.left) = STRIDE * e.left - (WINDOW - STRIDE)
    BY <1>4 DEF Slot, Start
  <2>2. e.left \in Nat /\ STRIDE * e.left \in Nat /\ STRIDE * e.left < n
    BY <1>1, <1>4, <1>2
  <2>3. e.left + 1 < BOUND_SIZE \div 2
    BY <2>2, SlotBound
  <2> QED BY <1>1, <1>2, <1>4, <2>1, <2>2, <2>3
<1> QED BY <1>3, <1>4
\* A packet of the connection: its stride and its place in the stride.
LEMMA PacketFacts ==
    ASSUME NEW n \in Nat, n + WINDOW < MAX_PSN_WINDOW, NEW psn \in 0 .. n - 1
    PROVE  /\ psn \in PSN
           /\ psn \div STRIDE \in Nat /\ psn % STRIDE \in 0 .. STRIDE - 1
           /\ psn = STRIDE * (psn \div STRIDE) + (psn % STRIDE)
           /\ STRIDE * (psn \div STRIDE) < n
           /\ (psn \div STRIDE) + 1 < BOUND_SIZE \div 2
           /\ OneHot(psn) = [left |-> psn \div STRIDE,
                             data |-> {WINDOW - STRIDE + (psn % STRIDE)}]
<1>1. psn \in PSN
  BY Sizes, PsnAssumption DEF PSN, PSN_SIZE
<1>2. /\ psn \div STRIDE \in Nat /\ psn % STRIDE \in 0 .. STRIDE - 1
      /\ psn = STRIDE * (psn \div STRIDE) + (psn % STRIDE)
  <2>1. psn \in Nat /\ STRIDE \in Nat \ {0}
    BY Sizes
  <2> QED BY <2>1, DivMod, Zenon
<1> DEFINE q == psn \div STRIDE
           r == psn % STRIDE
<1>3. q \in Nat /\ r \in 0 .. STRIDE - 1 /\ psn = STRIDE * q + r
  BY <1>2
<1> HIDE DEF q, r
<1>4. STRIDE * q < n
  <2>1. STRIDE * q \in Nat
    BY <1>3, Sizes
  <2> QED BY <2>1, <1>3, Sizes
<1>5. q + 1 < BOUND_SIZE \div 2
  BY <1>3, <1>4, SlotBound
<1> QED BY <1>1, <1>2, <1>4, <1>5 DEF q, r, OneHot

\* A merge in terms of strides: d is the number of strides the window slides,
\* negative when the packet is behind.
LEMMA MergeForm ==
    ASSUME NEW n \in Nat, n + WINDOW < MAX_PSN_WINDOW,
           NEW old \in EntryBelow(n), NEW psn \in 0 .. n - 1,
           NEW d \in Int, d = (psn \div STRIDE) - Slot(old.left)
    PROVE  LET hot  == WINDOW - STRIDE + (psn % STRIDE)
               kept == IF d >= STRIDES THEN {} ELSE ShiftRight(old.data, d * STRIDE)
               slid == [left |-> psn \div STRIDE, data |-> kept \cup {hot}]
               same == [left |-> old.left,
                        data |-> old.data \cup ShiftRight({hot}, (-d) * STRIDE)]
           IN /\ d > 0 => Merge(old, psn) =
                 [stale |-> FALSE, entry |-> slid, old |-> old, new |-> slid,
                  lost |-> d >= STRIDES \/ ShiftedOutHole(old.data, d * STRIDE)]
              /\ d <= 0 /\ -d < STRIDES => Merge(old, psn) =
                 [stale |-> FALSE, entry |-> same, old |-> old, new |-> same, lost |-> FALSE]
              /\ d <= 0 /\ -d >= STRIDES => Merge(old, psn) =
                 [stale |-> TRUE, entry |-> old, old |-> old, new |-> OneHot(psn), lost |-> FALSE]
<1> DEFINE hot  == WINDOW - STRIDE + (psn % STRIDE)
           q    == psn \div STRIDE
           dd   == (q - old.left) % BOUND_SIZE
<1>1. /\ q \in Nat /\ q + 1 < BOUND_SIZE \div 2 /\ OneHot(psn) = [left |-> q, data |-> {hot}]
  BY PacketFacts
<1>2. /\ Slot(old.left) \in Int /\ Slot(old.left) >= -1
      /\ Slot(old.left) + 1 < BOUND_SIZE \div 2
      /\ old.left = IF Slot(old.left) = -1 THEN BOUND_SIZE - 1 ELSE Slot(old.left)
  BY SlotFacts
<1>3. OneHot(psn).left = q /\ OneHot(psn).data = {hot}
  BY <1>1
<1>4. d = q - Slot(old.left)
  OBVIOUS
<1>5. STRIDES \in Nat \ {0} /\ BOUND_SIZE \in Nat \ {0} /\ BOUND_SIZE \div 2 \in Nat
      /\ BOUND_SIZE = 2 * (BOUND_SIZE \div 2)
  BY Sizes, HalfBound
<1> DEFINE H == BOUND_SIZE \div 2
           sl == Slot(old.left)
<1> HIDE DEF q, hot, H, sl
<1>6. dd = IF d >= 0 THEN d ELSE d + BOUND_SIZE
  <2>1. /\ q \in Nat /\ sl \in Int /\ sl >= -1 /\ q + 1 < H /\ sl + 1 < H /\ d = q - sl
        /\ H \in Nat /\ BOUND_SIZE = 2 * H
        /\ old.left = IF sl = -1 THEN BOUND_SIZE - 1 ELSE sl
    BY <1>1, <1>2, <1>4, <1>5 DEF H, sl
  <2>2. CASE sl = -1
    <3>1. q - old.left = (q + 1) - BOUND_SIZE /\ d = q + 1
      BY <2>1, <2>2
    <3>2. ((q + 1) - BOUND_SIZE) % BOUND_SIZE = q + 1
      BY <2>1
    <3> QED BY <3>1, <3>2, <2>1
  <2>3. CASE sl # -1 /\ d >= 0
    BY <2>1, <2>3
  <2>4. CASE sl # -1 /\ d < 0
    BY <2>1, <2>4
  <2> QED BY <2>1, <2>2, <2>3, <2>4
<1>7. /\ (dd >= BOUND_SIZE \div 2) <=> d < 0
      /\ (~(dd >= BOUND_SIZE \div 2) /\ dd > 0) <=> d > 0
      /\ d >= 0 => dd = d
      /\ d < 0 => BOUND_SIZE - dd = -d
  <2>1. /\ q \in Nat /\ sl \in Int /\ sl >= -1 /\ q + 1 < H /\ sl + 1 < H /\ d = q - sl
        /\ H \in Nat /\ BOUND_SIZE = 2 * H /\ BOUND_SIZE \div 2 = H
    BY <1>1, <1>2, <1>4, <1>5 DEF H, sl
  <2> HIDE DEF dd
  <2> QED BY <1>6, <2>1
<1> DEFINE new  == OneHot(psn)
           dm   == (new.left - old.left) % BOUND_SIZE
           neg  == dm >= BOUND_SIZE \div 2
           abs  == IF neg THEN BOUND_SIZE - dm ELSE dm
           out  == abs >= STRIDES
           slid == ~neg /\ dm > 0
           kept == IF out THEN {} ELSE IF slid THEN ShiftRight(old.data, dm * STRIDE) ELSE old.data
           mine == IF slid THEN new.data ELSE ShiftRight(new.data, abs * STRIDE)
           e    == [left |-> IF slid THEN new.left ELSE old.left, data |-> kept \cup mine]
           lost == slid /\ (out \/ ShiftedOutHole(old.data, dm * STRIDE))
<1>8. Merge(old, psn) =
        IF neg /\ out
        THEN [stale |-> TRUE, entry |-> old, old |-> old, new |-> new, lost |-> FALSE]
        ELSE [stale |-> FALSE, entry |-> e, old |-> old, new |-> e, lost |-> lost]
  BY Zenon DEF Merge
<1>9. dm = dd
  BY <1>3
<1> HIDE DEF dd, dm
<1>10. /\ neg <=> d < 0
       /\ slid <=> d > 0
       /\ d >= 0 => dm = d
       /\ abs = IF d < 0 THEN -d ELSE d
  BY <1>7, <1>9
<1> HIDE DEF neg, slid, abs
<1>11. out <=> (IF d < 0 THEN -d ELSE d) >= STRIDES
  BY <1>10
<1> HIDE DEF out
<1> DEFINE kept2 == IF d >= STRIDES THEN {} ELSE ShiftRight(old.data, d * STRIDE)
           slid2 == [left |-> q, data |-> kept2 \cup {hot}]
           same2 == [left |-> old.left,
                     data |-> old.data \cup ShiftRight({hot}, (-d) * STRIDE)]
           lost2 == d >= STRIDES \/ ShiftedOutHole(old.data, d * STRIDE)
<1>12. ASSUME d > 0
       PROVE  Merge(old, psn) = [stale |-> FALSE, entry |-> slid2, old |-> old, new |-> slid2,
                                 lost |-> lost2]
  <2>1. ~neg /\ slid /\ dm = d /\ (out <=> d >= STRIDES)
    BY <1>12, <1>10, <1>11
  <2>2. e = slid2
    <3>1. kept = kept2
      BY <2>1
    <3>2. mine = {hot}
      BY <2>1, <1>3
    <3> QED BY <3>1, <3>2, <2>1, <1>3, Zenon
  <2>3. lost = lost2
    BY <2>1, Zenon DEF ShiftedOutHole
  <2> HIDE DEF e, lost, slid2, lost2
  <2>4. Merge(old, psn) = [stale |-> FALSE, entry |-> e, old |-> old, new |-> e, lost |-> lost]
    BY <1>8, <2>1, Zenon
  <2> QED BY <2>2, <2>3, <2>4
<1>13. ASSUME d <= 0, -d < STRIDES
       PROVE  Merge(old, psn) =
                [stale |-> FALSE, entry |-> same2, old |-> old, new |-> same2, lost |-> FALSE]
  <2>1. ~out /\ ~slid /\ abs = -d
    <3>1. (IF d < 0 THEN -d ELSE d) = -d
      BY <1>13
    <3>2. ~(-d >= STRIDES) /\ ~(d > 0)
      BY <1>13, <1>5
    <3> QED BY <3>1, <3>2, <1>10, <1>11
  <2>2. e = same2
    <3>1. kept = old.data
      BY <2>1
    <3>2. mine = ShiftRight({hot}, (-d) * STRIDE)
      BY <2>1, <1>3
    <3> HIDE DEF kept, mine
    <3> QED BY <3>1, <3>2, <2>1
  <2>3. lost = FALSE
    BY <2>1
  <2> HIDE DEF e, lost, same2
  <2>4. Merge(old, psn) = [stale |-> FALSE, entry |-> e, old |-> old, new |-> e, lost |-> lost]
    BY <1>8, <2>1, Zenon
  <2> QED BY <2>2, <2>3, <2>4, Zenon
<1>14. ASSUME d <= 0, -d >= STRIDES
       PROVE  Merge(old, psn) =
                [stale |-> TRUE, entry |-> old, old |-> old, new |-> OneHot(psn), lost |-> FALSE]
  <2>1. neg /\ out
    BY <1>14, <1>10, <1>11, <1>5
  <2> QED BY <1>8, <2>1, Zenon
<1> QED BY <1>12, <1>13, <1>14, Zenon DEF q, hot
\* An entry of the connection from its parts.
LEMMA MakeEntry ==
    ASSUME NEW n \in Nat, n + WINDOW < MAX_PSN_WINDOW,
           NEW l \in Nat, STRIDE * l < n, NEW data \in SUBSET (0 .. WINDOW - 1)
    PROVE  /\ [left |-> l, data |-> data] \in EntryBelow(n)
           /\ Start(l) = STRIDE * l - (WINDOW - STRIDE)
<1>1. l + 1 < BOUND_SIZE \div 2
  BY SlotBound
<1>2. l \in 0 .. BOUND_SIZE - 1 /\ l # BOUND_SIZE - 1
  BY <1>1, Sizes, HalfBound
<1> DEFINE e == [left |-> l, data |-> data]
<1>3. e \in Entry
  BY <1>2 DEF Entry
<1>4. e.left = l
  OBVIOUS
<1> HIDE DEF e
<1>5. e \in EntryBelow(n)
  BY <1>3, <1>4 DEF EntryBelow
<1> QED BY <1>5, <1>2 DEF e, Start

\* Merging a packet: the window shows nothing but what arrived, and when it
\* slides over a packet that is missing, the merge says so.
LEMMA MergeSound ==
    ASSUME NEW n \in Nat, n + WINDOW < MAX_PSN_WINDOW,
           NEW got \in SUBSET (0 .. n - 1), NEW old \in EntryBelow(n), Shows(old, got),
           NEW psn \in 0 .. n - 1
    PROVE  LET m    == Merge(old, psn)
               got2 == got \cup {psn}
           IN /\ m.stale \in BOOLEAN /\ m.lost \in BOOLEAN /\ m.old = old
              /\ m.entry \in EntryBelow(n) /\ Shows(m.entry, got2)
              /\ m.new \in EntryBelow(n) /\ Shows(m.new, got2)
              /\ m.lost => m.new = m.entry
              /\ ~m.lost => \A p \in (0 .. n - 1) \ got2 :
                              p < Start(m.entry.left) => p < Start(old.left)
<1> DEFINE m    == Merge(old, psn)
           got2 == got \cup {psn}
           q    == psn \div STRIDE
           r    == psn % STRIDE
           hot  == WINDOW - STRIDE + r
           sl   == Slot(old.left)
           d    == q - sl
<1>1. /\ q \in Nat /\ r \in 0 .. STRIDE - 1 /\ psn = STRIDE * q + r
      /\ STRIDE * q < n /\ q + 1 < BOUND_SIZE \div 2
      /\ OneHot(psn) = [left |-> q, data |-> {hot}]
  BY PacketFacts
<1>2. /\ old.left \in 0 .. BOUND_SIZE - 1 /\ old.data \in SUBSET (0 .. WINDOW - 1)
      /\ sl \in Int /\ sl >= -1 /\ Start(old.left) = STRIDE * sl - (WINDOW - STRIDE)
      /\ Start(old.left) \in Int
  BY SlotFacts
<1>3. STRIDE \in Nat \ {0} /\ STRIDES \in Nat \ {0} /\ WINDOW \in Nat /\ STRIDE <= WINDOW
      /\ WINDOW = STRIDE * STRIDES
  BY Sizes DEF WINDOW
<1>4. d \in Int /\ STRIDE * q \in Nat /\ STRIDE * sl \in Int /\ d * STRIDE \in Int
      /\ d * STRIDE = STRIDE * q - STRIDE * sl
      /\ (-d) * STRIDE = STRIDE * sl - STRIDE * q
  BY <1>1, <1>2, <1>3
<1> DEFINE kept == IF d >= STRIDES THEN {} ELSE ShiftRight(old.data, d * STRIDE)
           slid == [left |-> q, data |-> kept \cup {hot}]
           same == [left |-> old.left,
                    data |-> old.data \cup ShiftRight({hot}, (-d) * STRIDE)]
           lost == d >= STRIDES \/ ShiftedOutHole(old.data, d * STRIDE)
<1>5. /\ d > 0 => m = [stale |-> FALSE, entry |-> slid, old |-> old, new |-> slid, lost |-> lost]
      /\ d <= 0 /\ -d < STRIDES =>
           m = [stale |-> FALSE, entry |-> same, old |-> old, new |-> same, lost |-> FALSE]
      /\ d <= 0 /\ -d >= STRIDES =>
           m = [stale |-> TRUE, entry |-> old, old |-> old, new |-> OneHot(psn), lost |-> FALSE]
  BY <1>4, MergeForm, Zenon
<1>6. hot \in 0 .. WINDOW - 1 /\ hot = WINDOW - STRIDE + r
  BY <1>1, <1>3
<1>7. Start(q) = STRIDE * q - (WINDOW - STRIDE)
  BY <1>1, MakeEntry, Zenon
<1>8. \A b \in old.data : Start(old.left) + b >= 0 => Start(old.left) + b \in got
  BY DEF Shows
<1>9. Shows(old, got2)
  BY <1>8 DEF Shows
<1> DEFINE so == Start(old.left)
           x  == d * STRIDE
           y  == STRIDE * q
           z  == STRIDE * sl
<1>10. /\ so \in Int /\ x \in Int /\ y \in Nat /\ z \in Int /\ y < n /\ x = y - z
       /\ so = z - (WINDOW - STRIDE) /\ Start(q) = y - (WINDOW - STRIDE) /\ psn = y + r
       /\ (-d) * STRIDE = z - y
  BY <1>1, <1>2, <1>4, <1>7
<1> HIDE DEF q, r, hot, sl, d, x, y, z, so, m
<1>11. CASE d > 0
  <2>1. x \in Nat
    <3>1. STRIDE * 1 <= STRIDE * d /\ STRIDE * d = x
      BY <1>11, <1>3, <1>4, MulMono DEF x
    <3> QED BY <3>1, <1>3, <1>10
  <2>2. ShiftRight(old.data, x) \in SUBSET (0 .. WINDOW - 1)
    BY <1>2, <2>1, ShiftType
  <2>3. kept \in SUBSET (0 .. WINDOW - 1)
    BY <2>2 DEF x
  <2>4. kept \cup {hot} \in SUBSET (0 .. WINDOW - 1)
    BY <2>3, <1>6
  <2>5. slid \in EntryBelow(n)
    BY <2>4, <1>1, MakeEntry DEF q
  <2>6. Shows(slid, got2)
    <3>1. slid.left = q /\ slid.data = kept \cup {hot}
      OBVIOUS
    <3>2. ASSUME NEW b \in kept, Start(q) + b >= 0 PROVE Start(q) + b \in got2
      <4>1. PICK c \in old.data : c >= x /\ b = c - x
        BY <3>2 DEF ShiftRight, x
      <4>2. Start(q) + b = so + c
        BY <4>1, <1>10, <1>2, <1>3
      <4>3. so + c \in got
        BY <4>2, <3>2, <1>8 DEF so
      <4> QED BY <4>2, <4>3
    <3>3. Start(q) + hot = psn
      BY <1>10, <1>6, <1>3, <1>1 DEF r
    <3> HIDE DEF slid, kept
    <3> QED BY <3>1, <3>2, <3>3 DEF Shows
  <2>7. ASSUME ~lost, NEW p \in (0 .. n - 1) \ got2, p < Start(q) PROVE p < so
    <3>1. 0 .. x - 1 \subseteq old.data
      BY <2>7 DEF ShiftedOutHole, x
    <3>2. CASE p >= so
      <4>1. p - so \in 0 .. x - 1
        BY <3>2, <2>7, <1>10, <1>3
      <4>2. so + (p - so) = p
        BY <1>10
      <4>3. p \in got
        BY <4>1, <4>2, <3>1, <1>8, <2>7 DEF so
      <4> QED BY <4>3, <2>7
    <3> QED BY <3>2, <1>10
  <2>8. lost \in BOOLEAN
    BY DEF ShiftedOutHole
  <2>9. slid.left = q
    OBVIOUS
  <2> HIDE DEF slid, lost, got2
  <2>10. m = [stale |-> FALSE, entry |-> slid, old |-> old, new |-> slid, lost |-> lost]
    BY <1>5, <1>11
  <2>11. /\ m.stale = FALSE /\ m.entry = slid /\ m.old = old /\ m.new = slid /\ m.lost = lost
    BY <2>10
  <2>12. ~m.lost => \A p \in (0 .. n - 1) \ got2 :
                      p < Start(m.entry.left) => p < Start(old.left)
    BY <2>7, <2>9, <2>11 DEF so
  <2> QED BY <2>5, <2>6, <2>8, <2>11, <2>12, Zenon DEF m, got2
<1>12. CASE d <= 0 /\ -d < STRIDES
  <2>1. z - y \in Nat
    <3>1. -d \in Nat
      BY <1>12, <1>4
    <3> QED BY <3>1, <1>3, <1>10
  <2>2. ShiftRight({hot}, z - y) \in SUBSET (0 .. WINDOW - 1)
    BY <1>6, <2>1, ShiftType
  <2>3. same = [left |-> old.left, data |-> old.data \cup ShiftRight({hot}, z - y)]
    BY <1>10, Zenon
  <2>4. old.data \cup ShiftRight({hot}, z - y) \in SUBSET (0 .. WINDOW - 1)
    BY <2>2, <1>2, Zenon
  <2> DEFINE u == old.data \cup ShiftRight({hot}, z - y)
             v == [left |-> old.left, data |-> u]
  <2>5. v \in EntryBelow(n)
    <3>1. old.left = BOUND_SIZE - 1 \/ STRIDE * old.left < n
      BY DEF EntryBelow
    <3> HIDE DEF u
    <3>2. u \in SUBSET (0 .. WINDOW - 1)
      BY <2>4, Zenon DEF u
    <3>3. v \in Entry /\ v.left = old.left
      BY <3>2, <1>2 DEF Entry
    <3> HIDE DEF v
    <3> QED BY <3>1, <3>3 DEF EntryBelow
  <2>6. v.left = old.left /\ v.data = u
    OBVIOUS
  <2>7. Shows(v, got2)
    <3>1. ASSUME NEW b \in u, so + b >= 0 PROVE so + b \in got2
      <4>1. CASE b \in old.data
        BY <4>1, <3>1, <1>8 DEF so
      <4>2. CASE b \in ShiftRight({hot}, z - y)
        <5>1. b = hot - (z - y)
          BY <4>2 DEF ShiftRight
        <5>2. so + b = psn
          BY <5>1, <1>10, <1>6, <1>3, <1>1 DEF r
        <5> QED BY <5>2
      <4> QED BY <4>1, <4>2
    <3> HIDE DEF v, u
    <3> QED BY <3>1, <2>6 DEF Shows, so
  <2> HIDE DEF same, v, u
  <2>8. m = [stale |-> FALSE, entry |-> same, old |-> old, new |-> same, lost |-> FALSE]
    BY <1>5, <1>12
  <2>9. same = v
    BY <2>3 DEF v, u
  <2>10. /\ m.stale = FALSE /\ m.entry = v /\ m.old = old /\ m.new = v /\ m.lost = FALSE
    BY <2>8, <2>9
  <2> QED BY <2>5, <2>6, <2>7, <2>10, Zenon DEF m
<1>13. CASE d <= 0 /\ -d >= STRIDES
  <2>1. m = [stale |-> TRUE, entry |-> old, old |-> old, new |-> OneHot(psn), lost |-> FALSE]
    BY <1>5, <1>13
  <2> DEFINE v == [left |-> q, data |-> {hot}]
  <2>2. v \in EntryBelow(n)
    BY <1>6, <1>1, MakeEntry DEF q
  <2>3. v.left = q /\ v.data = {hot}
    OBVIOUS
  <2>4. Shows(v, got2)
    <3>1. Start(q) + hot = psn
      BY <1>10, <1>6, <1>3, <1>1 DEF r
    <3> HIDE DEF v
    <3> QED BY <3>1, <2>3 DEF Shows
  <2>5. OneHot(psn) = v
    BY <1>1 DEF q, hot, r
  <2> HIDE DEF v
  <2>6. /\ m.stale = TRUE /\ m.entry = old /\ m.old = old /\ m.new = v /\ m.lost = FALSE
    BY <2>1, <2>5
  <2> QED BY <2>2, <2>4, <2>6, <1>9, Zenon DEF m
<1> QED BY <1>11, <1>12, <1>13, <1>4, <1>3
-----------------------------------------------------------------------------
(* PSNs of a connection of n packets, and of its windows, as signed numbers.   *)

\* A signed PSN as the driver holds it.
Wrap(x) == IF x < 0 THEN x + PSN_SIZE ELSE x

\* The driver's PSN of bit 0 of a window (remap_psn).
LEMMA RemapStart ==
    ASSUME NEW n \in Nat, n + WINDOW < MAX_PSN_WINDOW, NEW e \in EntryBelow(n)
    PROVE  RemapPsn(e.left) = Wrap(Start(e.left))
<1>1. /\ e.left \in 0 .. BOUND_SIZE - 1
      /\ Slot(e.left) \in Int /\ Slot(e.left) >= -1
      /\ e.left = IF Slot(e.left) = -1 THEN BOUND_SIZE - 1 ELSE Slot(e.left)
      /\ Start(e.left) = STRIDE * Slot(e.left) - (WINDOW - STRIDE)
      /\ Start(e.left) \in Int /\ -WINDOW <= Start(e.left) /\ Start(e.left) <= n
  BY SlotFacts
<1>2. /\ STRIDE \in Nat \ {0} /\ WINDOW \in Nat /\ STRIDE <= WINDOW
      /\ STRIDE * BOUND_SIZE = PSN_SIZE /\ BOUND_SIZE \in Nat
      /\ MAX_PSN_WINDOW \in Nat /\ PSN_SIZE = 2 * MAX_PSN_WINDOW
  BY Sizes, PsnAssumption DEF PSN_SIZE
<1> DEFINE st == Start(e.left)
           y  == e.left * STRIDE - (WINDOW - STRIDE)
<1>3. y = st \/ y = st + PSN_SIZE
  <2>1. CASE Slot(e.left) = -1
    <3>1. e.left * STRIDE = PSN_SIZE - STRIDE
      BY <2>1, <1>1, <1>2
    <3>2. st = -WINDOW
      BY <2>1, <1>1, <1>2
    <3> QED BY <3>1, <3>2, <1>2
  <2>2. CASE Slot(e.left) # -1
    <3>1. e.left * STRIDE = STRIDE * Slot(e.left)
      BY <2>2, <1>1, <1>2
    <3> QED BY <3>1, <1>1
  <2> QED BY <2>1, <2>2
<1>4. RemapPsn(e.left) = y % PSN_SIZE
  BY DEF RemapPsn, PsnSub
<1>5. st \in Int /\ -WINDOW <= st /\ st <= n
  BY <1>1
<1> HIDE DEF st, y
<1>6. y % PSN_SIZE = Wrap(st)
  BY <1>2, <1>3, <1>5 DEF Wrap
<1> QED BY <1>4, <1>6 DEF st

\* The signed distance from the base.
LEMMA RStartIs ==
    ASSUME NEW n \in Nat, n + WINDOW < MAX_PSN_WINDOW, NEW t, t.base \in 0 .. n,
           NEW x \in Int, -WINDOW <= x, x <= n
    PROVE  RStart(t, Wrap(x)) = x - t.base
<1> DEFINE b == t.base
<1>1. b \in 0 .. n
  OBVIOUS
<1>2. WINDOW \in Nat /\ MAX_PSN_WINDOW \in Nat /\ PSN_SIZE = 2 * MAX_PSN_WINDOW
  BY Sizes, PsnAssumption DEF PSN_SIZE
<1>3. RStart(t, Wrap(x)) = IF Wrap(x) - b >= MAX_PSN_WINDOW THEN Wrap(x) - b - PSN_SIZE
                           ELSE Wrap(x) - b
  BY DEF RStart
<1> HIDE DEF b
<1>4. (IF Wrap(x) - b >= MAX_PSN_WINDOW THEN Wrap(x) - b - PSN_SIZE ELSE Wrap(x) - b) = x - b
  <2>1. CASE x < 0
    BY <2>1, <1>1, <1>2 DEF Wrap
  <2>2. CASE x >= 0
    BY <2>2, <1>1, <1>2 DEF Wrap
  <2> QED BY <2>1, <2>2
<1> QED BY <1>3, <1>4 DEF b

\* Inside the connection the order of PSNs is that of the numbers.
LEMMA OrderIs ==
    ASSUME NEW n \in Nat, n + WINDOW < MAX_PSN_WINDOW, NEW a \in 0 .. n,
           NEW x \in Int, -WINDOW <= x, x <= n
    PROVE  /\ PsnLt(a, Wrap(x)) <=> a < x
           /\ PsnLe(a, Wrap(x)) <=> a <= x
<1>1. WINDOW \in Nat /\ MAX_PSN_WINDOW \in Nat \ {0} /\ PSN_SIZE = 2 * MAX_PSN_WINDOW
  BY Sizes, PsnAssumption DEF PSN_SIZE
<1> DEFINE y == (a - Wrap(x)) % PSN_SIZE
<1>2. y = IF a < x THEN a - x + PSN_SIZE ELSE a - x
  <2>1. CASE x < 0
    <3>1. a - Wrap(x) = (a - x) - PSN_SIZE
      BY <2>1, <1>1 DEF Wrap
    <3>2. ((a - x) - PSN_SIZE) % PSN_SIZE = a - x
      BY <2>1, <1>1
    <3> QED BY <3>1, <3>2, <2>1
  <2>2. CASE x >= 0
    BY <2>2, <1>1 DEF Wrap
  <2> QED BY <2>1, <2>2
<1>3. PsnLt(a, Wrap(x)) <=> y > MAX_PSN_WINDOW
  BY DEF PsnLt, PsnSub
<1> HIDE DEF y
<1>4. PsnLt(a, Wrap(x)) <=> a < x
  BY <1>1, <1>2, <1>3
<1>5. a = Wrap(x) <=> a = x
  BY <1>1 DEF Wrap
<1> QED BY <1>4, <1>5 DEF PsnLe

-----------------------------------------------------------------------------
(* The trackers: each operation counts only packets that arrived, and never   *)
(* takes the base back.                                                       *)

\* The least of a nonempty set of natural numbers.
LEMMA MinNat ==
    ASSUME NEW S \in SUBSET Nat, S # {}
    PROVE  Min(S) \in S /\ \A y \in S : Min(S) <= y
<1> DEFINE R == {ss \in Nat \X Nat : ss[1] < ss[2]}
<1>1. IsWellFoundedOn(R, Nat)
  BY NatLessThanWellFounded, Zenon DEF OpToRel
<1> HIDE DEF R
<1>2. PICK x \in S : \A y \in S : ~(<<y, x>> \in R)
  BY <1>1, WFMin, Zenon
<1>3. ASSUME NEW y \in S PROVE x <= y
  <2>1. x \in Nat /\ y \in Nat
    OBVIOUS
  <2>2. y < x => <<y, x>> \in R
    BY <2>1 DEF R
  <2> QED BY <2>1, <2>2, <1>2
<1> QED BY <1>3, Zenon DEF Min
\* A tracker of n packets that counts only packets of got.
Sound(t, n, got) == t \in Tracker(n) /\ CountsOnly(t, got)

\* A sound tracker, from its parts.
LEMMA MakeTracker ==
    ASSUME NEW n \in Nat, NEW got \in SUBSET (0 .. n - 1),
           NEW base \in Nat, NEW inner \in SUBSET Nat,
           0 .. base - 1 \subseteq got, \A i \in inner : base + i \in got
    PROVE  Sound([base |-> base, inner |-> inner], n, got)
<1>1. base \in 0 .. n
  <2>1. CASE base > n
    <3>1. n \in 0 .. base - 1
      BY <2>1
    <3> QED BY <3>1
  <2> QED BY <2>1
<1>2. inner \in SUBSET (0 .. n - 1)
  <2>1. ASSUME NEW i \in inner PROVE i \in 0 .. n - 1
    BY <1>1, <2>1
  <2> QED BY <2>1
<1> DEFINE t == [base |-> base, inner |-> inner]
<1>3. t \in Tracker(n) /\ t.base = base /\ t.inner = inner
  BY <1>1, <1>2 DEF Tracker
<1> HIDE DEF t
<1>4. Sound(t, n, got)
  BY <1>3, Zenon DEF Sound, CountsOnly
<1> QED BY <1>4 DEF t

\* The parts of a sound tracker.
LEMMA TrackerParts ==
    ASSUME NEW n \in Nat, NEW got \in SUBSET (0 .. n - 1), NEW t, Sound(t, n, got)
    PROVE  /\ t.base \in 0 .. n /\ t.inner \in SUBSET (0 .. n - 1)
           /\ 0 .. t.base - 1 \subseteq got /\ \A i \in t.inner : t.base + i \in got
           /\ t = [base |-> t.base, inner |-> t.inner]
BY DEF Sound, Tracker, CountsOnly

\* Moving the bits towards a base that lies k further.
LEMMA ShiftLeftSound ==
    ASSUME NEW n \in Nat, NEW got \in SUBSET (0 .. n - 1), NEW t, Sound(t, n, got),
           NEW k \in Nat, 0 .. t.base + k - 1 \subseteq got
    PROVE  Sound([base |-> t.base + k, inner |-> ShiftLeft(t.inner, k)], n, got)
<1>1. /\ t.base \in 0 .. n /\ t.inner \in SUBSET (0 .. n - 1)
      /\ \A i \in t.inner : t.base + i \in got
  BY TrackerParts
<1>2. ASSUME NEW i \in ShiftLeft(t.inner, k) PROVE i \in Nat /\ t.base + k + i \in got
  <2>1. PICK j \in t.inner : j >= k /\ i = j - k
    BY DEF ShiftLeft
  <2>2. t.base + k + i = t.base + j /\ i \in Nat
    BY <2>1, <1>1
  <2> QED BY <2>1, <2>2, <1>1
<1> DEFINE b == t.base + k
<1>3. b \in Nat /\ 0 .. b - 1 \subseteq got
  BY <1>1
<1> HIDE DEF b
<1>4. ShiftLeft(t.inner, k) \in SUBSET Nat /\ \A i \in ShiftLeft(t.inner, k) : b + i \in got
  BY <1>2 DEF b
<1>5. Sound([base |-> b, inner |-> ShiftLeft(t.inner, k)], n, got)
  BY <1>3, <1>4, MakeTracker
<1> QED BY <1>5 DEF b

\* try_advance moves the base over packets whose bits are set, no further.
LEMMA TryAdvanceSound ==
    ASSUME NEW n \in Nat, n + WINDOW < MAX_PSN_WINDOW, NEW got \in SUBSET (0 .. n - 1),
           NEW t, Sound(t, n, got)
    PROVE  Sound(TryAdvance(t).t, n, got) /\ t.base <= TryAdvance(t).t.base
<1>1. /\ t.base \in 0 .. n /\ t.inner \in SUBSET (0 .. n - 1)
      /\ 0 .. t.base - 1 \subseteq got /\ \A i \in t.inner : t.base + i \in got
  BY TrackerParts, Zenon
<1>2. IsFiniteSet(t.inner) /\ Cardinality(t.inner) \in Nat
  <2>1. IsFiniteSet(0 .. n - 1)
    BY FS_Interval
  <2>2. IsFiniteSet(t.inner)
    BY <2>1, <1>1, FS_Subset
  <2> QED BY <2>2, FS_CardinalityType
<1> DEFINE c == Cardinality(t.inner)
           S == {i \in 0 .. c : i \notin t.inner}
           pos == Min(S)
<1>3. S # {}
  <2>1. SUFFICES ASSUME 0 .. c \subseteq t.inner PROVE FALSE
    OBVIOUS
  <2>2. Cardinality(0 .. c) <= Cardinality(t.inner)
    BY <2>1, <1>2, FS_Subset
  <2>3. Cardinality(0 .. c) = c + 1
    BY <1>2, FS_Interval
  <2> QED BY <2>2, <2>3, <1>2
<1>4. pos \in S /\ \A y \in S : pos <= y
  <2>1. S \in SUBSET Nat
    BY <1>2
  <2> HIDE DEF S
  <2> QED BY <2>1, <1>3, MinNat
<1>5. pos \in Nat /\ pos <= c /\ \A i \in 0 .. pos - 1 : i \in t.inner
  <2>1. pos \in Nat /\ pos <= c
    BY <1>4, <1>2
  <2>2. ASSUME NEW i \in 0 .. pos - 1, i \notin t.inner PROVE FALSE
    <3>1. i \in S
      BY <2>1, <2>2, <1>2
    <3> HIDE DEF S
    <3> QED BY <3>1, <1>4, <2>1, <2>2
  <2> QED BY <2>1, <2>2
<1>6. TryAdvance(t) = IF pos = 0 THEN [t |-> t, ret |-> NoPsn]
                      ELSE [t |-> [base |-> PsnAdd(t.base, pos), inner |-> ShiftLeft(t.inner, pos)],
                            ret |-> PsnAdd(t.base, pos)]
  BY DEF TryAdvance
<1> HIDE DEF pos
<1>7. 0 .. t.base + pos - 1 \subseteq got
  <2>1. ASSUME NEW p \in 0 .. t.base + pos - 1 PROVE p \in got
    <3>1. CASE p < t.base
      BY <3>1, <1>1
    <3>2. CASE p >= t.base
      <4>1. p - t.base \in 0 .. pos - 1 /\ t.base + (p - t.base) = p
        BY <3>2, <1>1, <1>5
      <4>2. p - t.base \in t.inner
        BY <4>1, <1>5
      <4> QED BY <4>1, <4>2, <1>1
    <3> QED BY <3>1, <3>2, <1>1, <1>5
  <2> QED BY <2>1
<1>8. CASE pos = 0
  BY <1>1, <1>6, <1>8
<1>9. CASE pos # 0
  <2> DEFINE u == [base |-> t.base + pos, inner |-> ShiftLeft(t.inner, pos)]
  <2>1. Sound(u, n, got)
    BY <1>5, <1>7, ShiftLeftSound
  <2>2. u.base = t.base + pos
    OBVIOUS
  <2> HIDE DEF u
  <2>3. t.base + pos \in 0 .. n
    BY <2>1, <2>2 DEF Sound, Tracker
  <2>4. PsnAdd(t.base, pos) = t.base + pos
    <3>1. MAX_PSN_WINDOW \in Nat /\ WINDOW \in Nat
      BY Sizes, PsnAssumption
    <3> DEFINE x == t.base + pos
    <3>2. x \in 0 .. n
      BY <2>3
    <3> HIDE DEF x
    <3>3. x % PSN_SIZE = x
      BY <3>1, <3>2 DEF PSN_SIZE
    <3> QED BY <3>3 DEF PsnAdd, x
  <2>5. TryAdvance(t).t = u
    BY <1>6, <1>9, <2>4 DEF u
  <2> QED BY <2>1, <2>2, <2>5, <1>1, <1>5
<1> QED BY <1>8, <1>9
\* ack_before, for a PSN before which everything arrived.
LEMMA AckBeforeSound ==
    ASSUME NEW n \in Nat, n + WINDOW < MAX_PSN_WINDOW, NEW got \in SUBSET (0 .. n - 1),
           NEW t, Sound(t, n, got),
           NEW x \in Int, -WINDOW <= x, x <= n, 0 .. x - 1 \subseteq got
    PROVE  /\ Sound(PtAckBefore(t, Wrap(x)).t, n, got)
           /\ t.base <= PtAckBefore(t, Wrap(x)).t.base
<1>1. t.base \in 0 .. n
  BY TrackerParts, Zenon
<1>2. RStart(t, Wrap(x)) = x - t.base
  BY <1>1, RStartIs
<1>3. PtAckBefore(t, Wrap(x)) =
        IF x - t.base < 0 THEN [t |-> t, ret |-> NoPsn]
        ELSE [t |-> [base |-> Wrap(x), inner |-> ShiftLeft(t.inner, x - t.base)],
              ret |-> Wrap(x)]
  BY <1>2 DEF PtAckBefore
<1>4. CASE x - t.base < 0
  <2>1. PtAckBefore(t, Wrap(x)).t = t
    BY <1>3, <1>4
  <2> QED BY <2>1, <1>1
<1>5. CASE ~(x - t.base < 0)
  <2>1. Wrap(x) = x /\ x - t.base \in Nat /\ t.base + (x - t.base) = x /\ t.base <= x
    BY <1>1, <1>5 DEF Wrap
  <2>2. Sound([base |-> t.base + (x - t.base), inner |-> ShiftLeft(t.inner, x - t.base)], n, got)
    <3> DEFINE k == x - t.base
    <3>1. k \in Nat /\ t.base + k = x
      BY <2>1
    <3>2. t.base + k - 1 = x - 1
      BY <1>1
    <3> HIDE DEF k
    <3>3. Sound([base |-> t.base + k, inner |-> ShiftLeft(t.inner, k)], n, got)
      BY <3>1, <3>2, ShiftLeftSound
    <3> QED BY <3>3 DEF k
  <2> DEFINE u == [base |-> x, inner |-> ShiftLeft(t.inner, x - t.base)]
  <2>3. PtAckBefore(t, Wrap(x)).t = u /\ u.base = x
    BY <1>3, <1>5, <2>1
  <2>4. Sound(u, n, got)
    BY <2>1, <2>2
  <2> HIDE DEF u
  <2> QED BY <2>1, <2>3, <2>4
<1> QED BY <1>4, <1>5

\* Adding bits of packets that arrived.
LEMMA AddBits ==
    ASSUME NEW n \in Nat, NEW got \in SUBSET (0 .. n - 1), NEW t, Sound(t, n, got),
           NEW more \in SUBSET Nat, \A i \in more : t.base + i \in got
    PROVE  LET u == [t EXCEPT !.inner = @ \cup more]
           IN Sound(u, n, got) /\ u.base = t.base
<1>1. /\ t.base \in 0 .. n /\ t.inner \in SUBSET (0 .. n - 1)
      /\ 0 .. t.base - 1 \subseteq got /\ \A i \in t.inner : t.base + i \in got
      /\ t = [base |-> t.base, inner |-> t.inner]
  BY TrackerParts, Zenon
<1> DEFINE u == [t EXCEPT !.inner = @ \cup more]
           all == t.inner \cup more
<1>2. all \in SUBSET Nat /\ \A i \in all : t.base + i \in got
  BY <1>1
<1>3. all \in SUBSET (0 .. n - 1)
  <2>1. ASSUME NEW i \in all PROVE i \in 0 .. n - 1
    <3> HIDE DEF all
    <3> QED BY <1>1, <1>2, <2>1
  <2> QED BY <2>1
<1>4. t \in [base : 0 .. n, inner : SUBSET (0 .. n - 1)]
  BY DEF Sound, Tracker
<1>5. u.base = t.base /\ u.inner = all
  BY <1>4
<1>6. u \in [base : 0 .. n, inner : SUBSET (0 .. n - 1)]
  <2> HIDE DEF all
  <2>1. u = [t EXCEPT !.inner = all]
    BY DEF all
  <2> QED BY <2>1, <1>3, <1>4
<1> HIDE DEF u, all
<1>7. Sound(u, n, got)
  BY <1>1, <1>2, <1>5, <1>6 DEF Sound, Tracker, CountsOnly
<1> QED BY <1>5, <1>7 DEF u

\* ack_range, for a range all of which arrived.
LEMMA AckRangeSound ==
    ASSUME NEW n \in Nat, n + WINDOW < MAX_PSN_WINDOW, NEW got \in SUBSET (0 .. n - 1),
           NEW t, Sound(t, n, got), NEW low \in 0 .. n,
           NEW x \in Int, -WINDOW <= x, x <= n,
           \A p \in 0 .. n - 1 : low <= p /\ p < x => p \in got
    PROVE  /\ Sound(PtAckRange(t, low, Wrap(x)).t, n, got)
           /\ t.base <= PtAckRange(t, low, Wrap(x)).t.base
<1>1. /\ t.base \in 0 .. n /\ 0 .. t.base - 1 \subseteq got
  BY TrackerParts, Zenon
<1>2. WINDOW \in Nat
  BY Sizes
<1>3. Wrap(low) = low /\ Wrap(t.base) = t.base
  BY <1>1 DEF Wrap
<1>4. PsnLe(low, t.base) <=> low <= t.base
  BY <1>1, <1>2, <1>3, OrderIs
<1>5. RStart(t, low) = low - t.base /\ RStart(t, Wrap(x)) = x - t.base
  <2>1. RStart(t, Wrap(low)) = low - t.base
    BY <1>1, <1>2, RStartIs
  <2>2. RStart(t, Wrap(x)) = x - t.base
    BY <1>1, RStartIs
  <2> QED BY <2>1, <2>2, <1>3
<1> DEFINE more == low - t.base .. (x - t.base) - 1
<1>6. PtAckRange(t, low, Wrap(x)) =
        IF PsnLe(low, t.base) THEN PtAckBefore(t, Wrap(x))
        ELSE IF low - t.base < 0 \/ x - t.base < 0 THEN [t |-> t, ret |-> NoPsn]
             ELSE [t |-> [t EXCEPT !.inner = @ \cup more], ret |-> NoPsn]
  BY <1>5 DEF PtAckRange
<1>7. CASE low <= t.base
  <2>1. ASSUME NEW p \in 0 .. x - 1 PROVE p \in got
    BY <1>1, <1>7, <2>1
  <2>2. 0 .. x - 1 \subseteq got
    BY <2>1
  <2>3. PtAckRange(t, low, Wrap(x)) = PtAckBefore(t, Wrap(x))
    BY <1>4, <1>6, <1>7
  <2> QED BY <2>2, <2>3, AckBeforeSound
<1>8. CASE ~(low <= t.base) /\ x - t.base < 0
  <2>1. PtAckRange(t, low, Wrap(x)).t = t
    BY <1>4, <1>6, <1>8
  <2> QED BY <2>1, <1>1
<1>9. CASE ~(low <= t.base) /\ ~(x - t.base < 0)
  <2>1. ASSUME NEW i \in more PROVE i \in Nat /\ t.base + i \in got
    <3>1. i \in Nat /\ t.base + i \in 0 .. n - 1 /\ low <= t.base + i /\ t.base + i < x
      BY <1>1, <1>9
    <3> QED BY <3>1
  <2>2. more \in SUBSET Nat
    BY <2>1
  <2> DEFINE u == [t EXCEPT !.inner = @ \cup more]
  <2>3. ~(low - t.base < 0)
    BY <1>1, <1>9
  <2>4. PtAckRange(t, low, Wrap(x)).t = u
    BY <2>3, <1>4, <1>6, <1>9
  <2> HIDE DEF more
  <2>5. Sound(u, n, got) /\ u.base = t.base
    BY <2>1, <2>2, AddBits
  <2> HIDE DEF u
  <2> QED BY <2>4, <2>5, <1>1
<1> QED BY <1>7, <1>8, <1>9

\* ack_bitmap, for a window that shows only packets that arrived.
LEMMA AckBitmapSound ==
    ASSUME NEW n \in Nat, n + WINDOW < MAX_PSN_WINDOW, NEW got \in SUBSET (0 .. n - 1),
           NEW t, Sound(t, n, got), NEW e \in EntryBelow(n), Shows(e, got)
    PROVE  /\ Sound(PtAckBitmap(t, RemapPsn(e.left), e.data).t, n, got)
           /\ t.base <= PtAckBitmap(t, RemapPsn(e.left), e.data).t.base
<1>1. t.base \in 0 .. n
  BY TrackerParts
<1>2. /\ e.data \in SUBSET (0 .. WINDOW - 1)
      /\ Start(e.left) \in Int /\ -WINDOW <= Start(e.left) /\ Start(e.left) <= n
  BY SlotFacts
<1>3. WINDOW \in Nat
  BY Sizes
<1>4. RStart(t, RemapPsn(e.left)) = Start(e.left) - t.base
  BY <1>1, <1>2, RemapStart, RStartIs
<1> DEFINE st == Start(e.left) - t.base
           more == {i \in {st + b : b \in e.data} : i >= 0}
           u == [t EXCEPT !.inner = @ \cup more]
<1>5. PtAckBitmap(t, RemapPsn(e.left), e.data) = TryAdvance(u)
  BY <1>4 DEF PtAckBitmap
<1>6. ASSUME NEW i \in more PROVE i \in Nat /\ t.base + i \in got
  <2>1. PICK b \in e.data : i = st + b /\ i >= 0
    OBVIOUS
  <2>2. b \in Nat
    BY <1>2, <1>3
  <2>3. i \in Nat /\ t.base + i = Start(e.left) + b /\ Start(e.left) + b >= 0
    BY <2>1, <2>2, <1>1, <1>2
  <2>4. Start(e.left) + b \in got
    BY <2>1, <2>3 DEF Shows
  <2> QED BY <2>3, <2>4
<1>7. more \in SUBSET Nat
  BY <1>6
<1> HIDE DEF more
<1>8. Sound(u, n, got) /\ u.base = t.base
  BY <1>6, <1>7, AddBits
<1> HIDE DEF u
<1> QED BY <1>5, <1>8, TryAdvanceSound

\* ack_one, for a packet that arrived.
LEMMA AckOneSound ==
    ASSUME NEW n \in Nat, n + WINDOW < MAX_PSN_WINDOW, NEW got \in SUBSET (0 .. n - 1),
           NEW t, Sound(t, n, got), NEW psn \in got
    PROVE  Sound(PtAckOne(t, psn).t, n, got) /\ t.base <= PtAckOne(t, psn).t.base
<1>1. t.base \in 0 .. n
  BY TrackerParts
<1>2. WINDOW \in Nat /\ psn \in Int /\ -WINDOW <= psn /\ psn <= n /\ Wrap(psn) = psn
  BY Sizes DEF Wrap
<1>3. RStart(t, psn) = psn - t.base
  <2>1. RStart(t, Wrap(psn)) = psn - t.base
    BY <1>1, <1>2, RStartIs
  <2> QED BY <2>1, <1>2
<1> DEFINE more == {psn - t.base}
           u == [t EXCEPT !.inner = @ \cup more]
<1>4. PtAckOne(t, psn) = IF psn - t.base < 0 THEN [t |-> t, ret |-> NoPsn] ELSE TryAdvance(u)
  BY <1>3 DEF PtAckOne
<1>5. CASE psn - t.base < 0
  <2>1. PtAckOne(t, psn).t = t
    BY <1>4, <1>5
  <2> QED BY <2>1, <1>1
<1>6. CASE ~(psn - t.base < 0)
  <2>1. psn - t.base \in Nat /\ t.base + (psn - t.base) = psn
    BY <1>1, <1>2, <1>6
  <2>2. more \in SUBSET Nat /\ \A i \in more : t.base + i \in got
    BY <2>1
  <2> HIDE DEF more
  <2>3. Sound(u, n, got) /\ u.base = t.base
    BY <2>2, AddBits
  <2> HIDE DEF u
  <2> QED BY <1>4, <1>6, <2>3, TryAdvanceSound
<1> QED BY <1>5, <1>6
-----------------------------------------------------------------------------
(* The two acknowledgement trackers of the driver on a report of a window.    *)

\* Later picks the later of a PSN of the connection and the start of a window.
LEMMA LaterIs ==
    ASSUME NEW n \in Nat, n + WINDOW < MAX_PSN_WINDOW, NEW a \in 0 .. n,
           NEW e \in EntryBelow(n)
    PROVE  /\ PsnLt(a, RemapPsn(e.left)) <=> a < Start(e.left)
           /\ Later(a, RemapPsn(e.left)) \in 0 .. n
           /\ a <= Later(a, RemapPsn(e.left))
           /\ Start(e.left) <= Later(a, RemapPsn(e.left))
<1>1. Start(e.left) \in Int /\ -WINDOW <= Start(e.left) /\ Start(e.left) <= n
  BY SlotFacts
<1> DEFINE x == Start(e.left)
<1>2. x \in Int /\ -WINDOW <= x /\ x <= n
  BY <1>1
<1>3. RemapPsn(e.left) = Wrap(x)
  BY RemapStart
<1> HIDE DEF x
<1>4. PsnLt(a, Wrap(x)) <=> a < x
  BY <1>2, OrderIs
<1>5. Later(a, Wrap(x)) = IF a < x THEN x ELSE a
  BY <1>2, <1>4 DEF Later, Wrap
<1>6. PsnLt(a, RemapPsn(e.left)) <=> a < x
  BY <1>3, <1>4
<1> QED BY <1>2, <1>3, <1>5, <1>6 DEF x

\* Two windows and the range before the first, taken one after the other.
LEMMA RangeThenBitmap ==
    ASSUME NEW n \in Nat, n + WINDOW < MAX_PSN_WINDOW, NEW got \in SUBSET (0 .. n - 1),
           NEW t, Sound(t, n, got), NEW low \in 0 .. n,
           NEW e \in EntryBelow(n), Shows(e, got),
           \A p \in 0 .. n - 1 : low <= p /\ p < Start(e.left) => p \in got
    PROVE  LET y == PtAckBitmap(PtAckRange(t, low, RemapPsn(e.left)).t,
                                RemapPsn(e.left), e.data)
           IN Sound(y.t, n, got) /\ t.base <= y.t.base
<1>1. Start(e.left) \in Int /\ -WINDOW <= Start(e.left) /\ Start(e.left) <= n
  BY SlotFacts
<1> DEFINE x == PtAckRange(t, low, RemapPsn(e.left)).t
<1>2. Sound(x, n, got) /\ t.base <= x.base
  <2>1. RemapPsn(e.left) = Wrap(Start(e.left))
    BY RemapStart
  <2> DEFINE s == Start(e.left)
  <2>2. s \in Int /\ -WINDOW <= s /\ s <= n /\ \A p \in 0 .. n - 1 : low <= p /\ p < s => p \in got
    BY <1>1
  <2> HIDE DEF s
  <2>3. /\ Sound(PtAckRange(t, low, Wrap(s)).t, n, got)
        /\ t.base <= PtAckRange(t, low, Wrap(s)).t.base
    BY <2>2, AckRangeSound, ZenonT(60)
  <2> QED BY <2>1, <2>3 DEF s
<1> HIDE DEF x
<1> DEFINE y == PtAckBitmap(x, RemapPsn(e.left), e.data)
<1>3. Sound(y.t, n, got) /\ x.base <= y.t.base
  BY <1>2, AckBitmapSound
<1>4. t.base \in 0 .. n /\ x.base \in 0 .. n /\ y.t.base \in 0 .. n
  <2> HIDE DEF y
  <2> QED BY <1>2, <1>3 DEF Sound, Tracker
<1>5. t.base <= y.t.base
  <2> HIDE DEF y
  <2> QED BY <1>2, <1>3, <1>4
<1> QED BY <1>3, <1>5 DEF x

\* LocalAckTracker::ack_bitmap on a window the poller reported.
LEMMA LocalAckBitmapSound ==
    ASSUME NEW n \in Nat, n + WINDOW < MAX_PSN_WINDOW, NEW got \in SUBSET (0 .. n - 1),
           NEW l, Sound(l.t, n, got), l.psn_pre \in 0 .. n,
           NEW e \in EntryBelow(n), Shows(e, got),
           \A p \in 0 .. n - 1 : l.psn_pre <= p /\ p < Start(e.left) => p \in got
    PROVE  LET r == LocalAckBitmap(l, RemapPsn(e.left), e.data).l
           IN /\ Sound(r.t, n, got) /\ r \in [t : Tracker(n), psn_pre : 0 .. n]
              /\ l.psn_pre <= r.psn_pre /\ Start(e.left) <= r.psn_pre
<1> DEFINE y == PtAckBitmap(PtAckRange(l.t, l.psn_pre, RemapPsn(e.left)).t,
                            RemapPsn(e.left), e.data)
           z == Later(l.psn_pre, RemapPsn(e.left))
           r == [t |-> y.t, psn_pre |-> z]
<1>1. Sound(y.t, n, got)
  BY RangeThenBitmap
<1>2. z \in 0 .. n /\ l.psn_pre <= z /\ Start(e.left) <= z
  BY LaterIs
<1>3. LocalAckBitmap(l, RemapPsn(e.left), e.data).l = r
  BY DEF LocalAckBitmap
<1> HIDE DEF y, z
<1>4. r.t = y.t /\ r.psn_pre = z
  OBVIOUS
<1>5. r \in [t : Tracker(n), psn_pre : 0 .. n]
  BY <1>1, <1>2 DEF Sound
<1> HIDE DEF r
<1> QED BY <1>1, <1>2, <1>3, <1>4, <1>5

\* The windows before and after a slide, taken after the range before them.
LEMMA NakBitmapsSound ==
    ASSUME NEW n \in Nat, n + WINDOW < MAX_PSN_WINDOW, NEW got \in SUBSET (0 .. n - 1),
           NEW t, Sound(t, n, got),
           NEW old \in EntryBelow(n), Shows(old, got), NEW new \in EntryBelow(n), Shows(new, got)
    PROVE  LET y == PtAckBitmap(t, RemapPsn(old.left), old.data)
               z == PtAckBitmap(y.t, RemapPsn(new.left), new.data)
           IN Sound(z.t, n, got) /\ t.base <= z.t.base
<1> DEFINE y == PtAckBitmap(t, RemapPsn(old.left), old.data).t
           z == PtAckBitmap(y, RemapPsn(new.left), new.data).t
<1>1. Sound(y, n, got) /\ t.base <= y.base
  BY AckBitmapSound
<1> HIDE DEF y
<1>2. Sound(z, n, got) /\ y.base <= z.base
  BY <1>1, AckBitmapSound
<1> HIDE DEF z
<1>3. t.base \in 0 .. n /\ y.base \in 0 .. n /\ z.base \in 0 .. n
  BY <1>1, <1>2, TrackerParts, Zenon
<1>4. Sound(z, n, got) /\ t.base <= z.base
  BY <1>1, <1>2, <1>3
<1> QED BY <1>4 DEF y, z

\* LocalAckTracker::nak_bitmap on the two windows of a loss.
LEMMA LocalNakBitmapSound ==
    ASSUME NEW n \in Nat, n + WINDOW < MAX_PSN_WINDOW, NEW got \in SUBSET (0 .. n - 1),
           NEW l, Sound(l.t, n, got), l.psn_pre \in 0 .. n,
           NEW old \in EntryBelow(n), Shows(old, got), NEW new \in EntryBelow(n), Shows(new, got),
           \A p \in 0 .. n - 1 : l.psn_pre <= p /\ p < Start(old.left) => p \in got
    PROVE  LET r == LocalNakBitmap(l, RemapPsn(old.left), old.data,
                                   RemapPsn(new.left), new.data).l
           IN /\ Sound(r.t, n, got) /\ r \in [t : Tracker(n), psn_pre : 0 .. n]
              /\ l.psn_pre <= r.psn_pre /\ Start(new.left) <= r.psn_pre
<1> DEFINE x == PtAckRange(l.t, l.psn_pre, RemapPsn(old.left))
           y == PtAckBitmap(x.t, RemapPsn(old.left), old.data)
           z == PtAckBitmap(y.t, RemapPsn(new.left), new.data)
           w == Later(l.psn_pre, RemapPsn(new.left))
           r == [t |-> z.t, psn_pre |-> w]
<1>1. Sound(y.t, n, got)
  BY RangeThenBitmap
<1>2. Sound(z.t, n, got)
  <2> DEFINE u == y.t
  <2>1. Sound(u, n, got)
    BY <1>1
  <2> HIDE DEF u
  <2>2. Sound(PtAckBitmap(u, RemapPsn(new.left), new.data).t, n, got)
    BY <2>1, AckBitmapSound
  <2> QED BY <2>2 DEF u
<1>3. w \in 0 .. n /\ l.psn_pre <= w /\ Start(new.left) <= w
  BY LaterIs
<1>4. LocalNakBitmap(l, RemapPsn(old.left), old.data, RemapPsn(new.left), new.data).l = r
  BY DEF LocalNakBitmap
<1> HIDE DEF z, w
<1>5. r.t = z.t /\ r.psn_pre = w
  OBVIOUS
<1>6. r \in [t : Tracker(n), psn_pre : 0 .. n]
  BY <1>2, <1>3 DEF Sound
<1> HIDE DEF r
<1> QED BY <1>2, <1>3, <1>4, <1>5, <1>6

\* RemoteAckTracker::nak_bitmap, for the next NAK in order.
LEMMA RemoteNakBitmapSound ==
    ASSUME NEW n \in Nat, n + WINDOW < MAX_PSN_WINDOW, NEW got \in SUBSET (0 .. n - 1),
           NEW q, Sound(q.t, n, got), q.psn_pre \in 0 .. n, q.msn_pre \in Nat, NEW msn \in Nat,
           NEW old \in EntryBelow(n), Shows(old, got), NEW new \in EntryBelow(n), Shows(new, got),
           \A p \in 0 .. n - 1 : q.psn_pre <= p /\ p < Start(old.left) => p \in got
    PROVE  LET r == RemoteNakBitmap(q, msn, RemapPsn(old.left), old.data,
                                    RemapPsn(new.left), new.data).r
           IN /\ Sound(r.t, n, got) /\ r \in [t : Tracker(n), msn_pre : Nat, psn_pre : 0 .. n]
              /\ q.t.base <= r.t.base
              /\ q.psn_pre <= r.psn_pre /\ Start(new.left) <= r.psn_pre
<1> DEFINE x == IF msn = q.msn_pre + 1 THEN PtAckRange(q.t, q.psn_pre, RemapPsn(old.left))
                ELSE [t |-> q.t, ret |-> NoPsn]
           y == PtAckBitmap(x.t, RemapPsn(old.left), old.data)
           z == PtAckBitmap(y.t, RemapPsn(new.left), new.data)
           later == PsnLt(q.psn_pre, RemapPsn(new.left))
           r == [t |-> z.t,
                 psn_pre |-> IF later THEN RemapPsn(new.left) ELSE q.psn_pre,
                 msn_pre |-> IF later THEN msn ELSE q.msn_pre]
<1>1. Sound(x.t, n, got) /\ q.t.base <= x.t.base
  <2>1. CASE msn = q.msn_pre + 1
    <3>1. RemapPsn(old.left) = Wrap(Start(old.left))
      BY RemapStart
    <3>2. Start(old.left) \in Int /\ -WINDOW <= Start(old.left) /\ Start(old.left) <= n
      BY SlotFacts
    <3> DEFINE s == Start(old.left)
    <3>3. /\ s \in Int /\ -WINDOW <= s /\ s <= n
          /\ \A p \in 0 .. n - 1 : q.psn_pre <= p /\ p < s => p \in got
      BY <3>2
    <3> HIDE DEF s
    <3>4. /\ Sound(PtAckRange(q.t, q.psn_pre, Wrap(s)).t, n, got)
          /\ q.t.base <= PtAckRange(q.t, q.psn_pre, Wrap(s)).t.base
      BY <3>3, AckRangeSound
    <3> QED BY <2>1, <3>1, <3>4 DEF s
  <2>2. CASE msn # q.msn_pre + 1
    <3>1. x.t = q.t
      BY <2>2
    <3>2. q.t.base \in 0 .. n
      BY TrackerParts, ZenonT(60)
    <3> HIDE DEF x
    <3> QED BY <3>1, <3>2
  <2> QED BY <2>1, <2>2
<1> HIDE DEF x
<1>2. Sound(z.t, n, got) /\ x.t.base <= z.t.base
  <2> DEFINE u == x.t
  <2>1. Sound(u, n, got)
    BY <1>1
  <2> HIDE DEF u
  <2>2. LET v == PtAckBitmap(u, RemapPsn(old.left), old.data)
            w == PtAckBitmap(v.t, RemapPsn(new.left), new.data)
        IN Sound(w.t, n, got) /\ u.base <= w.t.base
    BY <2>1, NakBitmapsSound
  <2> QED BY <2>2 DEF u
<1>3. RemoteNakBitmap(q, msn, RemapPsn(old.left), old.data, RemapPsn(new.left), new.data).r = r
  BY DEF RemoteNakBitmap, x
<1> HIDE DEF z
<1>4. q.t.base \in 0 .. n /\ x.t.base \in 0 .. n /\ z.t.base \in 0 .. n
  BY <1>1, <1>2, TrackerParts, Zenon
<1>5. q.t.base <= z.t.base
  BY <1>1, <1>2, <1>4
<1> DEFINE w == IF later THEN RemapPsn(new.left) ELSE q.psn_pre
           k == IF later THEN msn ELSE q.msn_pre
<1>6. w \in 0 .. n /\ q.psn_pre <= w /\ Start(new.left) <= w
  <2>1. w = Later(q.psn_pre, RemapPsn(new.left))
    BY DEF Later
  <2> HIDE DEF w
  <2> QED BY <2>1, LaterIs
<1>7. k \in Nat
  OBVIOUS
<1> HIDE DEF w, k
<1>8. r = [t |-> z.t, psn_pre |-> w, msn_pre |-> k]
  BY DEF w, k
<1> HIDE DEF r
<1>9. r.t = z.t /\ r.psn_pre = w /\ r.msn_pre = k
  BY <1>8
<1>10. r \in [t : Tracker(n), msn_pre : Nat, psn_pre : 0 .. n]
  BY <1>8, <1>2, <1>6, <1>7 DEF Sound
<1> QED BY <1>2, <1>3, <1>5, <1>6, <1>9, <1>10
=============================================================================
