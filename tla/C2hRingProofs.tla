--------------------------- MODULE C2hRingProofs ---------------------------
(***************************************************************************)
(* The safety properties of C2hRing for every ring, block and queue size   *)
(* that C2hAssumption admits.  First the arithmetic of pointers with a     *)
(* guard bit, then one lemma per action that it preserves IInv, then the   *)
(* theorems.                                                               *)
(***************************************************************************)
EXTENDS C2hRing, TLAPS

\* A leaf that names no prover goes to the SMT solver, then to Zenon.
USE SMTT(60), ZenonT(60)

\* The distance of two pointers without modulus (operator - of RingbufPointer).
LEMMA DistIs ==
    ASSUME NEW h \in Ptr, NEW t \in Ptr
    PROVE  Dist(h, t) = IF h >= t THEN h - t ELSE h - t + 2 * BUF_SIZE
BY C2hAssumption DEF Dist, Ptr

\* The next pointer without modulus (operator + of RingbufPointer).
LEMMA SuccIs ==
    ASSUME NEW p \in Ptr
    PROVE  /\ Succ(p) \in Ptr
           /\ Succ(p) = IF p + 1 < 2 * BUF_SIZE THEN p + 1 ELSE 0
BY C2hAssumption DEF Succ, Ptr

\* The slot of a pointer plus an offset without modulus (BUF_SIZE_MASK).
LEMMA IdxIs ==
    ASSUME NEW x \in 0 .. 4 * BUF_SIZE - 1
    PROVE  /\ Idx(x) \in Slot
           /\ Idx(x) = IF x < BUF_SIZE THEN x
                       ELSE IF x < 2 * BUF_SIZE THEN x - BUF_SIZE
                       ELSE IF x < 3 * BUF_SIZE THEN x - 2 * BUF_SIZE
                       ELSE x - 3 * BUF_SIZE
BY C2hAssumption DEF Idx, Slot

\* The distance is a natural number, zero only between equal pointers.
LEMMA DistNat ==
    ASSUME NEW h \in Ptr, NEW t \in Ptr
    PROVE  /\ Dist(h, t) \in Nat /\ Dist(h, t) < 2 * BUF_SIZE
           /\ Dist(h, t) = 0 <=> h = t
BY DistIs, C2hAssumption DEF Ptr

\* Filling a slot moves the shadow head one further from a tail.
LEMMA DistSuccHead ==
    ASSUME NEW h \in Ptr, NEW t \in Ptr, Dist(h, t) < BUF_SIZE
    PROVE  Dist(Succ(h), t) = Dist(h, t) + 1
<1> DEFINE g == Succ(h)
<1>1. g \in Ptr /\ g = IF h + 1 < 2 * BUF_SIZE THEN h + 1 ELSE 0
  BY SuccIs
<1>2. Dist(h, t) = IF h >= t THEN h - t ELSE h - t + 2 * BUF_SIZE
  BY DistIs
<1>3. Dist(g, t) = IF g >= t THEN g - t ELSE g - t + 2 * BUF_SIZE
  BY <1>1, DistIs
<1> HIDE DEF g
<1>4. QED BY <1>1, <1>2, <1>3, C2hAssumption DEF Ptr, g

\* Reading a slot brings the tail one closer to the shadow head.
LEMMA DistSuccTail ==
    ASSUME NEW h \in Ptr, NEW t \in Ptr, Dist(h, t) >= 1
    PROVE  Dist(h, Succ(t)) = Dist(h, t) - 1
<1> DEFINE g == Succ(t)
<1>1. g \in Ptr /\ g = IF t + 1 < 2 * BUF_SIZE THEN t + 1 ELSE 0
  BY SuccIs
<1>2. Dist(h, t) = IF h >= t THEN h - t ELSE h - t + 2 * BUF_SIZE
  BY DistIs
<1>3. Dist(h, g) = IF h >= g THEN h - g ELSE h - g + 2 * BUF_SIZE
  BY <1>1, DistIs
<1> HIDE DEF g
<1>4. QED BY <1>1, <1>2, <1>3, C2hAssumption DEF Ptr, g

\* Offsets from the next tail are offsets from the tail, shifted by one.
LEMMA IdxShift ==
    ASSUME NEW t \in Ptr, NEW k \in 0 .. 2 * BUF_SIZE - 2
    PROVE  Idx(Succ(t) + k) = Idx(t + k + 1)
<1> DEFINE g == Succ(t)
<1>1. g \in Ptr /\ g = IF t + 1 < 2 * BUF_SIZE THEN t + 1 ELSE 0
  BY SuccIs
<1> HIDE DEF g
<1>2. t + k + 1 \in 0 .. 4 * BUF_SIZE - 1 /\ g + k \in 0 .. 4 * BUF_SIZE - 1
  BY <1>1, C2hAssumption DEF Ptr
<1>3. QED BY <1>1, <1>2, IdxIs, C2hAssumption DEF Ptr, g

\* The last slot in front of the next tail is the one behind the tail.
LEMMA IdxRound ==
    ASSUME NEW t \in Ptr
    PROVE  Idx(t + BUF_SIZE) = Idx(t)
<1>1. t + BUF_SIZE \in 0 .. 4 * BUF_SIZE - 1 /\ t \in 0 .. 4 * BUF_SIZE - 1
  BY C2hAssumption DEF Ptr
<1>2. QED BY <1>1, IdxIs, C2hAssumption DEF Ptr

\* The slot of the shadow head, counted from a tail.
LEMMA IdxHead ==
    ASSUME NEW h \in Ptr, NEW t \in Ptr
    PROVE  Idx(t + Dist(h, t)) = Idx(h)
<1>1. Dist(h, t) = IF h >= t THEN h - t ELSE h - t + 2 * BUF_SIZE
  BY DistIs
<1>2. h \in 0 .. 4 * BUF_SIZE - 1 /\ t + Dist(h, t) \in 0 .. 4 * BUF_SIZE - 1
  BY <1>1, C2hAssumption DEF Ptr
<1>3. QED BY <1>1, <1>2, IdxIs, C2hAssumption DEF Ptr

\* The slots of one turn of the ring are different.
LEMMA IdxApart ==
    ASSUME NEW t \in Ptr, NEW i \in 0 .. BUF_SIZE - 1, NEW j \in 0 .. BUF_SIZE - 1, i # j
    PROVE  Idx(t + i) # Idx(t + j)
<1>1. t + i \in 0 .. 4 * BUF_SIZE - 1 /\ t + j \in 0 .. 4 * BUF_SIZE - 1
  BY C2hAssumption DEF Ptr
<1>2. QED BY <1>1, IdxIs, C2hAssumption DEF Ptr

\* Offsets within a turn of the ring give slots.
LEMMA IdxSlot ==
    ASSUME NEW t \in Ptr, NEW k \in 0 .. 2 * BUF_SIZE
    PROVE  Idx(t + k) \in Slot
<1>1. t + k \in 0 .. 4 * BUF_SIZE - 1
  BY C2hAssumption DEF Ptr
<1>2. QED BY <1>1, IdxIs

-----------------------------------------------------------------------------
\* The numbers the invariant speaks of are natural, and every descriptor that
\* has a slot or waits in bufQ is one of the accepted ones.
Sizes ==
    /\ Len(got) \in Nat /\ Len(posted) \in Nat /\ Len(dmaData) \in Nat
    /\ Len(bufQ) \in Nat /\ Len(expected) \in Nat
    /\ Unread \in Nat /\ Landed \in Nat
    /\ Unread = Landed + Len(posted) + Len(dmaData)
    /\ Len(expected) = Len(got) + Unread + Len(bufQ)
    /\ Len(got) + Unread <= BUF_SIZE

\* The invariant bounds what is under way between bufQ and the driver.
LEMMA Counts == IInv => Sizes
<1> SUFFICES ASSUME IInv PROVE Sizes
  OBVIOUS
<1>1. /\ headShadow \in Ptr /\ cachedTail \in Ptr /\ tailReg \in Ptr
      /\ got \in Seq(Desc) /\ posted \in Seq(Beat) /\ dmaData \in Seq(Write)
      /\ bufQ \in Seq(Desc) /\ expected \in Seq(Desc)
  BY DEF IInv, TypeOK
<1>2. /\ Len(got) \in Nat /\ Len(posted) \in Nat /\ Len(dmaData) \in Nat
      /\ Len(bufQ) \in Nat /\ Len(expected) \in Nat
  BY <1>1
<1>3. Unread \in Nat
  BY <1>1, DistNat DEF Unread
<1> QED BY <1>1, <1>2, <1>3 DEF IInv, PointerInv, Landed, Sizes

\* The empty ring satisfies the invariant.
LEMMA InitIInv == Init => IInv
<1> SUFFICES ASSUME Init PROVE IInv
  OBVIOUS
<1> USE C2hAssumption DEF Init
<1>1. 0 \in Ptr
  BY DEF Ptr
<1>2. Unread = 0 /\ Landed = 0 /\ Dist(0, 0) = 0
  BY <1>1, DistNat DEF Unread, Landed
<1>3. TypeOK
  <2>1. /\ <<>> \in Seq(Desc) /\ <<>> \in Seq(Beat) /\ <<>> \in Seq(Write) /\ <<>> \in Seq(Ptr)
        /\ 0 \in 0 .. WRITE_BLOCK - 1 /\ 0 \in 0 .. 2 /\ 0 \in Nat
    OBVIOUS
  <2> QED BY <2>1, <1>1, Zenon DEF TypeOK
<1>4. PointerInv
  BY <1>2 DEF PointerInv
<1>5. PlaceInv
  <2>1. ASSUME NEW k \in 0 .. BUF_SIZE - 1 PROVE mem[Idx(cachedTail + k)] = Zero /\ ~(k < Landed)
    BY <1>1, <1>2, IdxSlot
  <2> QED BY <2>1, <1>2 DEF PlaceInv
<1>6. PairInv /\ PopInv /\ PopIntegrity
  BY DEF PairInv, PopInv, PopIntegrity
<1> QED BY <1>3, <1>4, <1>5, <1>6 DEF IInv

\* Inside try_pop the message that is taken has been accepted by the card.
LEMMA PopHead ==
    ASSUME IInv, pc # "idle"
    PROVE  1 \in 1 .. Len(expected) /\ Len(got) + want \in 1 .. Len(expected)
<1>1. Sizes
  BY Counts
<1>2. want \in Nat /\ want <= Landed
  BY DEF IInv, TypeOK, PopInv
<1>3. Len(got) + want >= 1
  BY DEF IInv, PopInv
<1> QED BY <1>1, <1>2, <1>3 DEF Sizes

\* Appending to bufQ and to the accepted descriptors disturbs no place.
LEMMA AcceptPlaces ==
    ASSUME IInv, NEW d \in Desc, Accept(d)
    PROVE  /\ bufQ' \in Seq(Desc) /\ expected' \in Seq(Desc)
           /\ Len(expected') = Len(expected) + 1
           /\ expected'[Len(expected) + 1] = d
           /\ \A i \in 1 .. Len(expected) : expected'[i] = expected[i]
           /\ PointerInv' /\ PlaceInv' /\ PopInv' /\ PopIntegrity'
<1>0. /\ bufQ' = Append(bufQ, d) /\ expected' = Append(expected, d)
      /\ UNCHANGED <<mem, headShadow, sending, writeCnt, dmaData, posted, tailReg, cachedTail, pc, want, got>>
  BY DEF Accept, swVars
<1> USE DEF Sizes
<1>c. Sizes
  BY Counts
<1>1. /\ bufQ \in Seq(Desc) /\ expected \in Seq(Desc)
  BY DEF IInv, TypeOK
<1>2. /\ bufQ' \in Seq(Desc) /\ Len(bufQ') = Len(bufQ) + 1
      /\ bufQ'[Len(bufQ) + 1] = d
      /\ \A i \in 1 .. Len(bufQ) : bufQ'[i] = bufQ[i]
  BY <1>0, <1>1
<1>3. /\ expected' \in Seq(Desc) /\ Len(expected') = Len(expected) + 1
      /\ expected'[Len(expected) + 1] = d
      /\ \A i \in 1 .. Len(expected) : expected'[i] = expected[i]
  BY <1>0, <1>1
<1>4. Unread' = Unread /\ Landed' = Landed
  BY <1>0 DEF Unread, Landed
<1>5. PointerInv'
  <2>1. /\ Len(expected') = Len(got) + Unread + Len(bufQ')
        /\ writeCnt < Len(bufQ) => writeCnt < Len(bufQ')
    BY <1>2, <1>3, <1>c DEF IInv, TypeOK
  <2> QED BY <2>1, <1>0, <1>4 DEF IInv, PointerInv
<1>6. ASSUME NEW k \in 0 .. BUF_SIZE - 1
      PROVE  mem[Idx(cachedTail + k)] = IF k < Landed THEN expected'[Len(got) + k + 1] ELSE Zero
  <2>1. k < Landed => Len(got) + k + 1 \in 1 .. Len(expected)
    BY <1>c
  <2> QED BY <2>1, <1>3 DEF IInv, PlaceInv
<1>7. ASSUME NEW j \in 1 .. Len(posted)
      PROVE  posted[j].desc = expected'[Len(got) + Landed + j]
  <2>1. Len(got) + Landed + j \in 1 .. Len(expected)
    BY <1>c
  <2> QED BY <2>1, <1>3 DEF IInv, PlaceInv
<1>8. ASSUME NEW j \in 1 .. Len(dmaData)
      PROVE  dmaData[j].desc = expected'[Len(got) + Landed + Len(posted) + j]
  <2>1. Len(got) + Landed + Len(posted) + j \in 1 .. Len(expected)
    BY <1>c
  <2> QED BY <2>1, <1>3 DEF IInv, PlaceInv
<1>9. ASSUME NEW j \in 1 .. Len(bufQ')
      PROVE  bufQ'[j] = expected'[Len(got) + Unread + j]
  <2>1. CASE j \in 1 .. Len(bufQ)
    <3>1. Len(got) + Unread + j \in 1 .. Len(expected)
      BY <2>1, <1>c
    <3> QED BY <2>1, <3>1, <1>2, <1>3 DEF IInv, PlaceInv
  <2>2. CASE j = Len(bufQ) + 1
    <3>1. Len(got) + Unread + j = Len(expected) + 1
      BY <2>2, <1>c
    <3> QED BY <2>2, <3>1, <1>2, <1>3
  <2> QED BY <2>1, <2>2, <1>2, <1>c
<1>10. PlaceInv'
  BY <1>0, <1>4, <1>6, <1>7, <1>8, <1>9, Zenon DEF IInv, PlaceInv
<1>11. PopIntegrity'
  BY <1>0, <1>3, <1>c DEF IInv, PopIntegrity
<1>12. PopInv'
  <2>1. pc # "idle" => expected'[1] = expected[1]
    BY <1>3, PopHead
  <2> QED BY <2>1, <1>0, <1>4 DEF IInv, PopInv
<1> QED BY <1>2, <1>3, <1>5, <1>10, <1>11, <1>12

\* The first descriptor of a message enters the ring.
LEMMA ForwardFirstIInv ==
    ASSUME IInv, NEW m \in Message, ForwardFirst(m)
    PROVE  IInv'
<1>1. /\ Head(m) \in Desc /\ Tail(m) \in Seq(Desc)
      /\ Head(m).hasNext => Tail(m) = <<Half(Head(m))>>
      /\ ~Head(m).hasNext => Tail(m) = <<>>
  <2>1. CASE \E v \in Val : m = <<[val |-> v, valid |-> TRUE, hasNext |-> FALSE]>>
    <3>1. PICK v \in Val : m = <<[val |-> v, valid |-> TRUE, hasNext |-> FALSE]>>
      BY <2>1, Zenon
    <3> DEFINE a == [val |-> v, valid |-> TRUE, hasNext |-> FALSE]
    <3>2. a \in Desc /\ ~a.hasNext
      BY DEF Desc
    <3> HIDE DEF a
    <3>3. Head(<<a>>) = a /\ Tail(<<a>>) = <<>>
      OBVIOUS
    <3> QED BY <3>1, <3>2, <3>3 DEF a
  <2>2. CASE \E v \in Val : m = <<[val |-> v, valid |-> TRUE, hasNext |-> TRUE],
                                 [val |-> v, valid |-> TRUE, hasNext |-> FALSE]>>
    <3>1. PICK v \in Val : m = <<[val |-> v, valid |-> TRUE, hasNext |-> TRUE],
                                 [val |-> v, valid |-> TRUE, hasNext |-> FALSE]>>
      BY <2>2, Zenon
    <3> DEFINE a == [val |-> v, valid |-> TRUE, hasNext |-> TRUE]
               b == [val |-> v, valid |-> TRUE, hasNext |-> FALSE]
    <3>2. a \in Desc /\ b \in Desc /\ a.hasNext /\ b = Half(a)
      BY DEF Desc, Half
    <3> HIDE DEF a, b
    <3>3. Head(<<a, b>>) = a /\ Tail(<<a, b>>) = <<b>>
      OBVIOUS
    <3>4. m = <<a, b>>
      BY <3>1 DEF a, b
    <3> QED BY <3>2, <3>3, <3>4
  <2> QED BY <2>1, <2>2 DEF Message
<1> DEFINE d == Head(m)
<1> HIDE DEF d
<1>2. d \in Desc /\ Accept(d) /\ inFrag = <<>> /\ inFrag' = Tail(m)
  BY <1>1 DEF ForwardFirst, d
<1>3. /\ bufQ' \in Seq(Desc) /\ expected' \in Seq(Desc)
      /\ Len(expected') = Len(expected) + 1
      /\ expected'[Len(expected) + 1] = d
      /\ \A i \in 1 .. Len(expected) : expected'[i] = expected[i]
      /\ PointerInv' /\ PlaceInv' /\ PopInv' /\ PopIntegrity'
  BY <1>2, AcceptPlaces
<1>4. TypeOK'
  BY <1>1, <1>2, <1>3 DEF IInv, TypeOK, Accept, swVars
<1>5. PairInv'
  <2>1. Len(expected) \in Nat
    BY Counts DEF Sizes
  <2>2. ASSUME NEW i \in 1 .. Len(expected'), expected'[i].hasNext
        PROVE  IF i < Len(expected') THEN expected'[i + 1] = Half(expected'[i])
               ELSE inFrag' = <<Half(expected'[i])>>
    <3>1. CASE i = Len(expected) + 1
      BY <2>1, <2>2, <3>1, <1>1, <1>2, <1>3 DEF d
    <3>2. CASE i = Len(expected)
      BY <2>1, <2>2, <3>2, <1>2, <1>3 DEF IInv, PairInv
    <3>3. CASE i \in 1 .. Len(expected) - 1
      <4>1. i + 1 \in 1 .. Len(expected)
        BY <3>3, <2>1
      <4> QED BY <2>1, <2>2, <3>3, <4>1, <1>3 DEF IInv, PairInv
    <3> QED BY <2>1, <3>1, <3>2, <3>3, <1>3
  <2>3. inFrag' # <<>> => expected' # <<>> /\ expected'[Len(expected')].hasNext
    BY <2>1, <1>1, <1>2, <1>3 DEF d
  <2> QED BY <2>2, <2>3 DEF PairInv
<1> QED BY <1>3, <1>4, <1>5 DEF IInv

\* The second half of a pair follows the first.
LEMMA ForwardRestIInv ==
    ASSUME IInv, ForwardRest
    PROVE  IInv'
<1> DEFINE n == Len(expected)
<1>0. n \in Nat /\ expected \in Seq(Desc) /\ inFrag \in Seq(Desc)
  BY DEF IInv, TypeOK
<1>1. n >= 1 /\ expected[n].hasNext
  BY <1>0 DEF IInv, PairInv, ForwardRest
<1> DEFINE d == Half(expected[n])
<1>2. inFrag = <<d>>
  BY <1>0, <1>1 DEF IInv, PairInv
<1>3. expected[n] \in Desc
  BY <1>0, <1>1
<1>4. d \in Desc /\ ~d.hasNext
  BY <1>3, Zenon DEF Half, Desc
<1> HIDE DEF d
<1>5. Head(inFrag) = d /\ Tail(inFrag) = <<>>
  BY <1>2
<1>6. Accept(d) /\ inFrag' = <<>>
  BY <1>5 DEF ForwardRest
<1>7. /\ bufQ' \in Seq(Desc) /\ expected' \in Seq(Desc)
      /\ Len(expected') = n + 1
      /\ expected'[n + 1] = d
      /\ \A i \in 1 .. n : expected'[i] = expected[i]
      /\ PointerInv' /\ PlaceInv' /\ PopInv' /\ PopIntegrity'
  BY <1>4, <1>6, AcceptPlaces
<1>8. TypeOK'
  BY <1>6, <1>7 DEF IInv, TypeOK, Accept, swVars
<1>9. PairInv'
  <2>1. ASSUME NEW i \in 1 .. n + 1, expected'[i].hasNext
        PROVE  i < n + 1 /\ expected'[i + 1] = Half(expected'[i])
    <3>1. CASE i = n + 1
      BY <2>1, <3>1, <1>4, <1>7
    <3>2. CASE i = n
      BY <2>1, <3>2, <1>0, <1>1, <1>7 DEF d
    <3>3. CASE i \in 1 .. n - 1
      <4>1. i + 1 \in 1 .. n
        BY <3>3, <1>0
      <4> QED BY <2>1, <3>3, <4>1, <1>0, <1>7 DEF IInv, PairInv
    <3> QED BY <1>0, <3>1, <3>2, <3>3
  <2> QED BY <2>1, <1>6, <1>7 DEF PairInv
<1> QED BY <1>7, <1>8, <1>9 DEF IInv

\* The minimum of three numbers is one of them, and none is less.
LEMMA MinThree ==
    ASSUME NEW a \in Int, NEW b \in Int, NEW c \in Int
    PROVE  /\ Min({a, b, c}) \in {a, b, c}
           /\ Min({a, b, c}) <= a /\ Min({a, b, c}) <= b /\ Min({a, b, c}) <= c
<1>1. \E x \in {a, b, c} : \A y \in {a, b, c} : x <= y
  <2>1. CASE a <= b /\ a <= c
    BY <2>1
  <2>2. CASE b <= a /\ b <= c
    BY <2>2
  <2>3. CASE c <= a /\ c <= b
    BY <2>3
  <2> QED BY <2>1, <2>2, <2>3
<1> QED BY <1>1, Zenon DEF Min

\* A block is begun only with descriptors and slots for all of it.
LEMMA PrepareDmaWriteIInv ==
    ASSUME IInv, PrepareDmaWrite
    PROVE  IInv'
<1>0. /\ writeCnt' = DescWriteCnt - 1 /\ sending' = TRUE /\ bufQ # <<>> /\ FreeSlotCnt > 0
      /\ UNCHANGED <<mem, inFrag, bufQ, headReg, headShadow, dmaData, posted,
                     inFlight, resp, tailReg, pc, cachedTail, want, got, expected>>
  BY DEF PrepareDmaWrite, swVars
<1>1. Sizes
  BY Counts
<1>2. FreeSlotCnt = BUF_SIZE - (Len(got) + Unread) /\ FreeSlotCnt \in Int
  BY <1>1, C2hAssumption DEF IInv, PointerInv, FreeSlotCnt, Sizes
<1>3. Len(bufQ) \in Nat \ {0}
  BY <1>0 DEF IInv, TypeOK
<1> DEFINE r == WRITE_BLOCK - (headShadow % WRITE_BLOCK)
<1>4. r \in 1 .. WRITE_BLOCK
  BY C2hAssumption DEF IInv, TypeOK, Ptr
<1> HIDE DEF r
<1>5. DescWriteCnt \in {r, Len(bufQ), FreeSlotCnt} /\ DescWriteCnt <= r
      /\ DescWriteCnt <= Len(bufQ) /\ DescWriteCnt <= FreeSlotCnt
  <2>1. DescWriteCnt = Min({r, Len(bufQ), FreeSlotCnt})
    BY DEF DescWriteCnt, r
  <2>2. r \in Int /\ Len(bufQ) \in Int /\ FreeSlotCnt \in Int
    BY <1>2, <1>3, <1>4
  <2> HIDE DEF r
  <2> QED BY <2>1, <2>2, MinThree, Zenon
<1>6. DescWriteCnt \in 1 .. WRITE_BLOCK
  BY <1>0, <1>2, <1>3, <1>4, <1>5, C2hAssumption
<1>7. TypeOK'
  <2>1. writeCnt' \in 0 .. WRITE_BLOCK - 1
    BY <1>0, <1>6, C2hAssumption
  <2> QED BY <2>1, <1>0 DEF IInv, TypeOK
<1>8. Unread' = Unread /\ Landed' = Landed
  BY <1>0 DEF Unread, Landed
<1>9. PointerInv'
  <2>1. writeCnt' < Len(bufQ) /\ Len(got) + Unread + writeCnt' < BUF_SIZE
    BY <1>0, <1>1, <1>2, <1>3, <1>5, <1>6, C2hAssumption DEF Sizes
  <2> QED BY <2>1, <1>0, <1>8 DEF IInv, PointerInv
<1>10. PlaceInv' /\ PairInv' /\ PopInv' /\ PopIntegrity'
  BY <1>0, <1>8 DEF IInv, PlaceInv, PairInv, PopInv, PopIntegrity
<1> QED BY <1>7, <1>9, <1>10 DEF IInv

\* The oldest descriptor of bufQ gets the slot of the shadow head.
LEMMA DoDmaWriteIInv ==
    ASSUME IInv, DoDmaWrite
    PROVE  IInv'
<1> DEFINE w == [slot |-> Idx(headShadow), desc |-> Head(bufQ), isLast |-> writeCnt = 0]
<1>0. /\ sending /\ bufQ # <<>> /\ bufQ' = Tail(bufQ) /\ headShadow' = Succ(headShadow)
      /\ dmaData' = Append(dmaData, w)
      /\ sending' = (writeCnt # 0) /\ writeCnt' = (writeCnt - 1) % WRITE_BLOCK
      /\ UNCHANGED <<mem, inFrag, headReg, posted, resp, tailReg, pc, cachedTail, want, got, expected>>
  BY DEF DoDmaWrite, swVars
<1>1. Sizes
  BY Counts
<1> USE DEF Sizes
<1>2. /\ headShadow \in Ptr /\ cachedTail \in Ptr /\ tailReg \in Ptr /\ bufQ \in Seq(Desc)
      /\ dmaData \in Seq(Write) /\ writeCnt \in 0 .. WRITE_BLOCK - 1 /\ inFlight \in Seq(Ptr)
  BY DEF IInv, TypeOK
<1>3. writeCnt < Len(bufQ) /\ Len(got) + Unread + writeCnt < BUF_SIZE
  BY <1>0 DEF IInv, PointerInv
<1>4. /\ Succ(headShadow) \in Ptr
      /\ Unread' = Unread + 1
      /\ Dist(headShadow', tailReg) = Dist(headShadow, tailReg) + 1
  <2>1. Dist(headShadow, cachedTail) < BUF_SIZE /\ Dist(headShadow, tailReg) < BUF_SIZE
    BY <1>1, <1>2, <1>3, C2hAssumption DEF IInv, PointerInv, Unread
  <2> QED BY <2>1, <1>0, <1>2, SuccIs, DistSuccHead DEF Unread
<1>5. Idx(headShadow) \in Slot /\ Idx(headShadow) = Idx(cachedTail + Unread)
  <2>1. headShadow + 0 = headShadow /\ 0 \in 0 .. 2 * BUF_SIZE
    BY <1>2, C2hAssumption DEF Ptr
  <2> QED BY <2>1, <1>2, IdxSlot, IdxHead DEF Unread
<1>6. /\ Head(bufQ) \in Desc /\ Head(bufQ) = bufQ[1] /\ bufQ' \in Seq(Desc)
      /\ Len(bufQ') = Len(bufQ) - 1 /\ Len(bufQ) >= 1
      /\ \A j \in 1 .. Len(bufQ) - 1 : bufQ'[j] = bufQ[j + 1]
  BY <1>0, <1>2
<1>7. /\ w \in Write /\ w.slot = Idx(cachedTail + Unread)
      /\ w.desc = expected[Len(got) + Unread + 1]
  <2>1. bufQ[1] = expected[Len(got) + Unread + 1]
    BY <1>1, <1>6 DEF IInv, PlaceInv
  <2> QED BY <2>1, <1>5, <1>6 DEF Write
<1> HIDE DEF w
<1>8. /\ dmaData' \in Seq(Write) /\ Len(dmaData') = Len(dmaData) + 1
      /\ dmaData'[Len(dmaData) + 1] = w
      /\ \A j \in 1 .. Len(dmaData) : dmaData'[j] = dmaData[j]
  BY <1>0, <1>2, <1>7
<1>9. Landed' = Landed
  <2>1. Landed' = Unread' - Len(posted) - Len(dmaData')
    BY <1>0 DEF Landed
  <2>2. Landed = Unread - Len(posted) - Len(dmaData)
    BY DEF Landed
  <2> QED BY <2>1, <2>2, <1>1, <1>4, <1>8
<1>10. TypeOK'
  <2>1. writeCnt' \in 0 .. WRITE_BLOCK - 1
    BY <1>0, <1>2, C2hAssumption
  <2>2. inFlight' \in Seq(Ptr)
    BY <1>2, <1>4 DEF DoDmaWrite
  <2>3. sending' \in BOOLEAN
    BY <1>0
  <2> QED BY <2>1, <2>2, <2>3, <1>0, <1>4, <1>6, <1>8 DEF IInv, TypeOK
<1>11. PointerInv'
  <2>1. ASSUME sending'
        PROVE  writeCnt' < Len(bufQ') /\ Len(got) + Unread' + writeCnt' < BUF_SIZE
    <3>1. \A x \in 0 .. WRITE_BLOCK - 1 : x % WRITE_BLOCK = x
      BY C2hAssumption
    <3>2. writeCnt - 1 \in 0 .. WRITE_BLOCK - 1
      <4>1. sending' = (writeCnt # 0)
        BY <1>0
      <4>2. writeCnt # 0
        BY <4>1, <2>1, Zenon
      <4> QED BY <4>2, <1>2, C2hAssumption
    <3>3. writeCnt' = writeCnt - 1
      BY <3>1, <3>2, <1>0
    <3> QED BY <3>2, <3>3, <1>1, <1>2, <1>3, <1>4, <1>6, C2hAssumption
  <2>2. sending' => writeCnt' < Len(bufQ') /\ Len(got) + Unread' + writeCnt' < BUF_SIZE
    BY <2>1
  <2>3. /\ Dist(headShadow', tailReg) = Len(got) + Unread'
        /\ Len(expected) = Len(got) + Unread' + Len(bufQ')
        /\ Len(got) + Unread' <= BUF_SIZE
    BY <1>1, <1>2, <1>3, <1>4, <1>6, C2hAssumption DEF IInv, PointerInv
  <2> QED BY <2>2, <2>3, <1>0, <1>9 DEF IInv, PointerInv
<1>12. PlaceInv'
  <2>1. ASSUME NEW j \in 1 .. Len(bufQ') PROVE bufQ'[j] = expected[Len(got) + Unread' + j]
    <3>1. j + 1 \in 1 .. Len(bufQ) /\ bufQ'[j] = bufQ[j + 1]
      BY <1>1, <1>6
    <3>2. Len(got) + Unread' + j = Len(got) + Unread + (j + 1)
      BY <1>1, <1>4, <1>6
    <3> QED BY <3>1, <3>2 DEF IInv, PlaceInv
  <2>2. ASSUME NEW j \in 1 .. Len(dmaData')
        PROVE  /\ dmaData'[j].slot = Idx(cachedTail + Landed + Len(posted) + j - 1)
               /\ dmaData'[j].desc = expected[Len(got) + Landed + Len(posted) + j]
    <3>1. CASE j \in 1 .. Len(dmaData)
      BY <3>1, <1>8 DEF IInv, PlaceInv
    <3>2. CASE j = Len(dmaData) + 1
      <4>1. /\ cachedTail + Landed + Len(posted) + j - 1 = cachedTail + Unread
            /\ Len(got) + Landed + Len(posted) + j = Len(got) + Unread + 1
        BY <3>2, <1>1, <1>2 DEF Ptr
      <4> QED BY <3>2, <4>1, <1>7, <1>8
    <3> QED BY <3>1, <3>2, <1>1, <1>8
  <2> QED BY <2>1, <2>2, <1>0, <1>9, Zenon DEF IInv, PlaceInv
<1>13. PairInv' /\ PopInv' /\ PopIntegrity'
  BY <1>0, <1>9 DEF IInv, PairInv, PopInv, PopIntegrity
<1> QED BY <1>10, <1>11, <1>12, <1>13 DEF IInv

\* A beat leaves the DMA engine for host memory.
LEMMA ForwardBeatIInv ==
    ASSUME IInv, ForwardBeat
    PROVE  IInv'
<1> DEFINE b == [slot |-> Head(dmaData).slot, desc |-> Head(dmaData).desc]
<1>0. /\ dmaData # <<>> /\ dmaData' = Tail(dmaData) /\ posted' = Append(posted, b)
      /\ UNCHANGED <<mem, inFrag, bufQ, headReg, headShadow, sending, writeCnt, inFlight,
                     tailReg, pc, cachedTail, want, got, expected>>
  BY DEF ForwardBeat, swVars
<1>1. Sizes
  BY Counts
<1> USE DEF Sizes
<1>2. dmaData \in Seq(Write) /\ posted \in Seq(Beat) /\ cachedTail \in Ptr /\ resp \in Nat
  BY DEF IInv, TypeOK
<1>3. /\ Head(dmaData) \in Write /\ Head(dmaData) = dmaData[1] /\ dmaData' \in Seq(Write)
      /\ Len(dmaData') = Len(dmaData) - 1 /\ Len(dmaData) >= 1
      /\ \A j \in 1 .. Len(dmaData) - 1 : dmaData'[j] = dmaData[j + 1]
  BY <1>0, <1>2
<1>4. /\ b \in Beat /\ b.slot = Idx(cachedTail + Landed + Len(posted) + 1 - 1)
      /\ b.desc = expected[Len(got) + Landed + Len(posted) + 1]
  <2>1. 1 \in 1 .. Len(dmaData)
    BY <1>1, <1>3
  <2> QED BY <2>1, <1>3 DEF IInv, PlaceInv, Write, Beat
<1> HIDE DEF b
<1>5. /\ posted' \in Seq(Beat) /\ Len(posted') = Len(posted) + 1
      /\ posted'[Len(posted) + 1] = b
      /\ \A j \in 1 .. Len(posted) : posted'[j] = posted[j]
  BY <1>0, <1>2, <1>4
<1>6. Unread' = Unread /\ Landed' = Landed
  <2>1. Unread' = Unread
    BY <1>0 DEF Unread
  <2>2. Landed' = Unread - Len(posted') - Len(dmaData')
    BY <2>1 DEF Landed
  <2>3. Landed = Unread - Len(posted) - Len(dmaData)
    BY DEF Landed
  <2> QED BY <2>1, <2>2, <2>3, <1>1, <1>3, <1>5
<1>7. TypeOK'
  <2>1. resp' \in Nat
    BY <1>2 DEF ForwardBeat
  <2> QED BY <2>1, <1>0, <1>3, <1>5 DEF IInv, TypeOK
<1>8. PointerInv' /\ PairInv' /\ PopInv' /\ PopIntegrity'
  BY <1>0, <1>6 DEF IInv, PointerInv, PairInv, PopInv, PopIntegrity
<1>9. PlaceInv'
  <2>1. ASSUME NEW j \in 1 .. Len(posted')
        PROVE  /\ posted'[j].slot = Idx(cachedTail + Landed + j - 1)
               /\ posted'[j].desc = expected[Len(got) + Landed + j]
    <3>1. CASE j \in 1 .. Len(posted)
      BY <3>1, <1>5 DEF IInv, PlaceInv
    <3>2. CASE j = Len(posted) + 1
      <4>1. /\ cachedTail + Landed + Len(posted) + 1 - 1 = cachedTail + Landed + j - 1
            /\ Len(got) + Landed + Len(posted) + 1 = Len(got) + Landed + j
        BY <3>2, <1>1, <1>2 DEF Ptr
      <4> QED BY <3>2, <4>1, <1>4, <1>5
    <3> QED BY <3>1, <3>2, <1>1, <1>5
  <2>2. ASSUME NEW j \in 1 .. Len(dmaData')
        PROVE  /\ dmaData'[j].slot = Idx(cachedTail + Landed + Len(posted') + j - 1)
               /\ dmaData'[j].desc = expected[Len(got) + Landed + Len(posted') + j]
    <3>1. j + 1 \in 1 .. Len(dmaData) /\ dmaData'[j] = dmaData[j + 1]
      BY <1>1, <1>3
    <3>2. /\ cachedTail + Landed + Len(posted') + j - 1 = cachedTail + Landed + Len(posted) + (j + 1) - 1
          /\ Len(got) + Landed + Len(posted') + j = Len(got) + Landed + Len(posted) + (j + 1)
      <4>1. cachedTail \in Nat /\ j \in Nat /\ Len(posted') = Len(posted) + 1
        BY <1>1, <1>2, <1>3, <1>5, C2hAssumption DEF Ptr
      <4> QED BY <4>1, <1>1
    <3> QED BY <3>1, <3>2, ZenonT(60) DEF IInv, PlaceInv
  <2> QED BY <2>1, <2>2, <1>0, <1>6, Zenon DEF IInv, PlaceInv
<1> QED BY <1>7, <1>8, <1>9 DEF IInv

\* A posted write lands on the first zeroed slot behind those in memory.
LEMMA LandIInv ==
    ASSUME IInv, Land
    PROVE  IInv'
<1>0. /\ posted # <<>> /\ posted' = Tail(posted)
      /\ mem' = [mem EXCEPT ![Head(posted).slot] = Head(posted).desc]
      /\ UNCHANGED <<inFrag, bufQ, headReg, headShadow, sending, writeCnt, dmaData,
                     inFlight, resp, tailReg, pc, cachedTail, want, got, expected>>
  BY DEF Land, swVars
<1>1. Sizes
  BY Counts
<1> USE DEF Sizes
<1>2. posted \in Seq(Beat) /\ cachedTail \in Ptr /\ mem \in [Slot -> Desc \cup {Zero}]
  BY DEF IInv, TypeOK
<1>3. /\ Head(posted) \in Beat /\ Head(posted) = posted[1] /\ posted' \in Seq(Beat)
      /\ Len(posted') = Len(posted) - 1 /\ Len(posted) >= 1
      /\ \A j \in 1 .. Len(posted) - 1 : posted'[j] = posted[j + 1]
  BY <1>0, <1>2
<1>4. /\ Head(posted).slot = Idx(cachedTail + Landed)
      /\ Head(posted).desc = expected[Len(got) + Landed + 1]
  <2>1. 1 \in 1 .. Len(posted) /\ cachedTail + Landed + 1 - 1 = cachedTail + Landed
    BY <1>1, <1>2, <1>3 DEF Ptr
  <2> QED BY <2>1, <1>3 DEF IInv, PlaceInv
<1>5. Head(posted).slot \in Slot /\ Head(posted).desc \in Desc
  BY <1>3 DEF Beat
<1>6. Landed \in 0 .. BUF_SIZE - 1
  BY <1>1, <1>3, C2hAssumption
<1>7. Unread' = Unread /\ Landed' = Landed + 1
  <2>1. Unread' = Unread
    BY <1>0 DEF Unread
  <2>2. Landed' = Unread - Len(posted') - Len(dmaData)
    BY <2>1, <1>0 DEF Landed
  <2>3. Landed = Unread - Len(posted) - Len(dmaData)
    BY DEF Landed
  <2> QED BY <2>1, <2>2, <2>3, <1>1, <1>3
<1>8. TypeOK'
  <2>1. mem' \in [Slot -> Desc \cup {Zero}]
    BY <1>0, <1>2, <1>5
  <2> QED BY <2>1, <1>0, <1>3 DEF IInv, TypeOK
<1>9. PointerInv' /\ PairInv' /\ PopInv' /\ PopIntegrity'
  <2>1. Landed' >= 0 /\ (want <= Landed => want <= Landed')
    BY <1>1, <1>7 DEF IInv, TypeOK
  <2> QED BY <2>1, <1>0, <1>7 DEF IInv, PointerInv, PairInv, PopInv, PopIntegrity
<1>10. PlaceInv'
  <2>1. ASSUME NEW k \in 0 .. BUF_SIZE - 1
        PROVE  mem'[Idx(cachedTail + k)] = IF k < Landed + 1 THEN expected[Len(got) + k + 1] ELSE Zero
    <3>1. Idx(cachedTail + k) \in Slot
      BY <1>2, IdxSlot, C2hAssumption
    <3>2. CASE k = Landed
      BY <3>1, <3>2, <1>0, <1>1, <1>2, <1>4
    <3>3. CASE k # Landed
      <4>1. Idx(cachedTail + k) # Idx(cachedTail + Landed)
        BY <3>3, <1>2, <1>6, IdxApart
      <4>2. mem'[Idx(cachedTail + k)] = mem[Idx(cachedTail + k)]
        BY <4>1, <3>1, <1>0, <1>2, <1>4
      <4>3. k < Landed + 1 <=> k < Landed
        BY <3>3, <1>1
      <4> QED BY <4>2, <4>3 DEF IInv, PlaceInv
    <3> QED BY <3>2, <3>3
  <2>2. ASSUME NEW j \in 1 .. Len(posted')
        PROVE  /\ posted'[j].slot = Idx(cachedTail + Landed' + j - 1)
               /\ posted'[j].desc = expected[Len(got) + Landed' + j]
    <3>1. j + 1 \in 1 .. Len(posted) /\ posted'[j] = posted[j + 1]
      BY <1>1, <1>3
    <3>2. /\ cachedTail + Landed' + j - 1 = cachedTail + Landed + (j + 1) - 1
          /\ Len(got) + Landed' + j = Len(got) + Landed + (j + 1)
      BY <1>1, <1>2, <1>3, <1>7 DEF Ptr
    <3> QED BY <3>1, <3>2 DEF IInv, PlaceInv
  <2>3. Landed' + Len(posted') = Landed + Len(posted)
    BY <1>1, <1>3, <1>7
  <2>4. /\ cachedTail + Landed' + Len(posted') = cachedTail + Landed + Len(posted)
        /\ Len(got) + Landed' + Len(posted') = Len(got) + Landed + Len(posted)
    BY <1>1, <1>2, <1>3, <1>7 DEF Ptr
  <2> QED BY <2>1, <2>2, <2>4, <1>0, <1>7 DEF IInv, PlaceInv
<1> QED BY <1>8, <1>9, <1>10 DEF IInv

\* The head CSR plays no part in the transfer.
LEMMA HandleWriteRespIInv ==
    ASSUME IInv, HandleWriteResp
    PROVE  IInv'
<1>0. /\ resp > 0 /\ inFlight # <<>> /\ resp' = resp - 1
      /\ headReg' = Head(inFlight) /\ inFlight' = Tail(inFlight)
      /\ UNCHANGED <<mem, inFrag, bufQ, headShadow, sending, writeCnt, dmaData,
                     posted, tailReg, pc, cachedTail, want, got, expected>>
  BY DEF HandleWriteResp, swVars
<1>1. TypeOK'
  <2>1. resp \in Nat /\ inFlight \in Seq(Ptr)
    BY DEF IInv, TypeOK
  <2>2. resp' \in Nat /\ headReg' \in Ptr /\ inFlight' \in Seq(Ptr)
    BY <2>1, <1>0
  <2> QED BY <2>2, <1>0 DEF IInv, TypeOK
<1>2. Unread' = Unread /\ Landed' = Landed
  BY <1>0 DEF Unread, Landed
<1>3. PointerInv' /\ PlaceInv' /\ PairInv' /\ PopInv' /\ PopIntegrity'
  BY <1>0, <1>2 DEF IInv, PointerInv, PlaceInv, PairInv, PopInv, PopIntegrity
<1> QED BY <1>1, <1>3 DEF IInv

\* A valid flag marks a descriptor in memory, never a zeroed slot.
LEMMA ValidLanded ==
    ASSUME IInv, NEW k \in 0 .. 1, mem[Idx(cachedTail + k)].valid
    PROVE  /\ k < Landed
           /\ mem[Idx(cachedTail + k)] = expected[Len(got) + k + 1]
<1>1. k \in 0 .. BUF_SIZE - 1
  BY C2hAssumption
<1>2. ~Zero.valid
  BY DEF Zero
<1> QED BY <1>1, <1>2 DEF IInv, PlaceInv

\* try_pop starts only when the whole message is in memory.
LEMMA TryPopIInv ==
    ASSUME IInv, TryPop
    PROVE  IInv'
<1>0. /\ pc = "idle" /\ First.valid /\ (First.hasNext => Second.valid)
      /\ want' = (IF First.hasNext THEN 2 ELSE 1) /\ pc' = "read" /\ got' = <<>>
      /\ UNCHANGED <<mem, inFrag, bufQ, headReg, headShadow, sending, writeCnt, dmaData,
                     posted, inFlight, resp, tailReg, cachedTail, expected>>
  BY DEF TryPop, cardVars
<1>1. got = <<>> /\ Len(got) = 0 /\ got' = got
  BY <1>0 DEF IInv, PopInv
<1>2. Sizes /\ cachedTail \in Ptr
  BY Counts DEF IInv, TypeOK
<1>3. 0 < Landed /\ First = expected[1]
  <2>1. cachedTail + 0 = cachedTail
    BY <1>2 DEF Ptr
  <2> QED BY <2>1, <1>0, <1>1, ValidLanded DEF First
<1>4. First.hasNext => 1 < Landed
  BY <1>0, ValidLanded DEF Second
<1>5. Unread' = Unread /\ Landed' = Landed
  BY <1>0 DEF Unread, Landed
<1>6. TypeOK'
  BY <1>0, <1>1 DEF IInv, TypeOK
<1>7. PointerInv' /\ PlaceInv' /\ PairInv' /\ PopIntegrity'
  BY <1>0, <1>1, <1>5 DEF IInv, PointerInv, PlaceInv, PairInv, PopIntegrity
<1>8. PopInv'
  <2>1. want' <= Landed
    BY <1>0, <1>2, <1>3, <1>4 DEF Sizes
  <2> QED BY <2>1, <1>0, <1>1, <1>3, <1>5 DEF PopInv
<1> QED BY <1>6, <1>7, <1>8 DEF IInv

\* Reading a slot takes the next accepted descriptor and zeroes its slot, which
\* becomes the last of the next turn.
LEMMA ReadAndAdvanceIInv ==
    ASSUME IInv, ReadAndAdvance
    PROVE  IInv'
<1>0. /\ pc = "read" /\ got' = Append(got, First)
      /\ mem' = [mem EXCEPT ![Idx(cachedTail)] = Zero]
      /\ cachedTail' = Succ(cachedTail) /\ want' = want - 1
      /\ pc' = (IF want = 1 THEN "csr" ELSE "read")
      /\ UNCHANGED <<inFrag, bufQ, headReg, headShadow, sending, writeCnt, dmaData,
                     posted, inFlight, resp, tailReg, expected>>
  BY DEF ReadAndAdvance, cardVars
<1>1. Sizes
  BY Counts
<1> USE DEF Sizes
<1>2. /\ headShadow \in Ptr /\ cachedTail \in Ptr /\ tailReg \in Ptr /\ got \in Seq(Desc)
      /\ mem \in [Slot -> Desc \cup {Zero}] /\ want \in 1 .. 2 /\ expected \in Seq(Desc)
  BY <1>0 DEF IInv, TypeOK, PopInv
<1>3. want <= Landed /\ Landed >= 1
  BY <1>0, <1>1, <1>2 DEF IInv, PopInv
<1>4. cachedTail + 0 = cachedTail /\ Idx(cachedTail) \in Slot
  <2>1. cachedTail + 0 = cachedTail /\ 0 \in 0 .. 2 * BUF_SIZE
    BY <1>2, C2hAssumption DEF Ptr
  <2> QED BY <2>1, <1>2, IdxSlot
<1>5. First = expected[Len(got) + 1] /\ First \in Desc
  <2>1. 0 \in 0 .. BUF_SIZE - 1 /\ 0 < Landed /\ Len(got) + 0 + 1 = Len(got) + 1
    BY <1>1, <1>3, C2hAssumption
  <2>2. First = expected[Len(got) + 1]
    BY <2>1, <1>4 DEF First, IInv, PlaceInv
  <2>3. Len(got) + 1 \in 1 .. Len(expected)
    BY <1>1, <1>3
  <2> QED BY <2>2, <2>3, <1>2
<1>6. /\ got' \in Seq(Desc) /\ Len(got') = Len(got) + 1
      /\ got'[Len(got) + 1] = expected[Len(got) + 1]
      /\ \A i \in 1 .. Len(got) : got'[i] = got[i]
  BY <1>0, <1>2, <1>5
<1>7. /\ Succ(cachedTail) \in Ptr /\ Unread' = Unread - 1
      /\ Dist(cachedTail', tailReg) = Dist(cachedTail, tailReg) + 1
  <2>1. Dist(headShadow, cachedTail) >= 1 /\ Dist(cachedTail, tailReg) < BUF_SIZE
    <3>1. Unread >= 1 /\ Len(got) < BUF_SIZE
      BY <1>1, <1>3, C2hAssumption
    <3> QED BY <3>1 DEF Unread, IInv, PointerInv
  <2> QED BY <2>1, <1>0, <1>2, SuccIs, DistSuccHead, DistSuccTail DEF Unread
<1>8. Landed' = Landed - 1
  <2>1. Landed' = Unread' - Len(posted) - Len(dmaData)
    BY <1>0 DEF Landed
  <2>2. Landed = Unread - Len(posted) - Len(dmaData)
    BY DEF Landed
  <2> QED BY <2>1, <2>2, <1>1, <1>7
<1>9. TypeOK'
  <2>1. mem' \in [Slot -> Desc \cup {Zero}]
    BY <1>0, <1>2, <1>4
  <2>2. want' \in 0 .. 2 /\ pc' \in {"idle", "read", "csr", "dead"}
    BY <1>0, <1>2
  <2> QED BY <2>1, <2>2, <1>0, <1>6, <1>7 DEF IInv, TypeOK
<1>10. PointerInv'
  <2>1. Len(got') + Unread' = Len(got) + Unread /\ Landed' >= 0
    BY <1>1, <1>3, <1>6, <1>7, <1>8
  <2> QED BY <2>1, <1>0, <1>6, <1>7 DEF IInv, PointerInv
<1>11. PlaceInv'
  <2>1. ASSUME NEW k \in 0 .. BUF_SIZE - 1
        PROVE  mem'[Idx(cachedTail' + k)] = IF k < Landed' THEN expected[Len(got') + k + 1] ELSE Zero
    <3>1. Idx(cachedTail' + k) = Idx(cachedTail + (k + 1))
      <4>1. k \in 0 .. 2 * BUF_SIZE - 2 /\ cachedTail + k + 1 = cachedTail + (k + 1)
        BY <1>2, C2hAssumption DEF Ptr
      <4> QED BY <4>1, <1>0, <1>2, IdxShift
    <3>2. CASE k = BUF_SIZE - 1
      <4>1. Idx(cachedTail + (k + 1)) = Idx(cachedTail)
        <5>1. k + 1 = BUF_SIZE
          BY <3>2, C2hAssumption
        <5> QED BY <5>1, <1>2, IdxRound
      <4>2. ~(k < Landed')
        BY <3>2, <1>1, <1>8, C2hAssumption
      <4> QED BY <3>1, <4>1, <4>2, <1>0, <1>2, <1>4
    <3>3. CASE k # BUF_SIZE - 1
      <4>1. k + 1 \in 0 .. BUF_SIZE - 1 /\ k + 1 # 0 /\ 0 \in 0 .. BUF_SIZE - 1
        BY <3>3, C2hAssumption
      <4>2. Idx(cachedTail + (k + 1)) # Idx(cachedTail)
        <5> DEFINE x == k + 1
        <5> HIDE DEF x
        <5>1. Idx(cachedTail + x) # Idx(cachedTail + 0)
          BY <4>1, <1>2, IdxApart DEF x
        <5> QED BY <5>1, <1>4 DEF x
      <4>3. Idx(cachedTail + (k + 1)) \in Slot
        BY <4>1, <1>2, IdxSlot, C2hAssumption
      <4>4. mem'[Idx(cachedTail + (k + 1))] = mem[Idx(cachedTail + (k + 1))]
        BY <4>2, <4>3, <1>0, <1>2
      <4>5. mem[Idx(cachedTail + (k + 1))] = IF k + 1 < Landed THEN expected[Len(got) + (k + 1) + 1] ELSE Zero
        BY <4>1 DEF IInv, PlaceInv
      <4>6. (k + 1 < Landed <=> k < Landed') /\ Len(got) + (k + 1) + 1 = Len(got') + k + 1
        BY <1>1, <1>6, <1>8
      <4> QED BY <3>1, <4>4, <4>5, <4>6
    <3> QED BY <3>2, <3>3
  <2>2. ASSUME NEW a \in 1 .. Unread - Landed
        PROVE  /\ Idx(cachedTail' + Landed' + a - 1) = Idx(cachedTail + Landed + a - 1)
               /\ Len(got') + Landed' + a = Len(got) + Landed + a
    <3> DEFINE x == Landed' + a - 1
    <3>1. x \in 0 .. 2 * BUF_SIZE - 2
      BY <1>1, <1>3, <1>8, C2hAssumption
    <3>2. /\ cachedTail + x + 1 = cachedTail + Landed + a - 1
          /\ Succ(cachedTail) + x = Succ(cachedTail) + Landed' + a - 1
          /\ Len(got') + Landed' + a = Len(got) + Landed + a
      <4>1. /\ cachedTail \in Int /\ Succ(cachedTail) \in Int /\ a \in Int /\ Landed \in Int
            /\ Len(got) \in Int
        BY <1>1, <1>2, <1>7 DEF Ptr
      <4> QED BY <4>1, <1>6, <1>8
    <3> HIDE DEF x
    <3>3. Idx(Succ(cachedTail) + x) = Idx(cachedTail + x + 1)
      BY <3>1, <1>2, IdxShift
    <3> QED BY <3>2, <3>3, <1>0
  <2>3. ASSUME NEW j \in 1 .. Len(posted)
        PROVE  /\ posted[j].slot = Idx(cachedTail' + Landed' + j - 1)
               /\ posted[j].desc = expected[Len(got') + Landed' + j]
    <3>1. j \in 1 .. Unread - Landed
      BY <1>1
    <3> QED BY <3>1, <2>2 DEF IInv, PlaceInv
  <2>4. ASSUME NEW j \in 1 .. Len(dmaData)
        PROVE  /\ dmaData[j].slot = Idx(cachedTail' + Landed' + Len(posted) + j - 1)
               /\ dmaData[j].desc = expected[Len(got') + Landed' + Len(posted) + j]
    <3> DEFINE a == Len(posted) + j
    <3>1. a \in 1 .. Unread - Landed
      BY <1>1
    <3>2. /\ cachedTail' + Landed' + a - 1 = cachedTail' + Landed' + Len(posted) + j - 1
          /\ cachedTail + Landed + a - 1 = cachedTail + Landed + Len(posted) + j - 1
          /\ Len(got') + Landed' + a = Len(got') + Landed' + Len(posted) + j
          /\ Len(got) + Landed + a = Len(got) + Landed + Len(posted) + j
      <4>1. /\ cachedTail \in Int /\ cachedTail' \in Int /\ Landed \in Int /\ Landed' \in Int
            /\ Len(got) \in Int /\ Len(got') \in Int /\ Len(posted) \in Int /\ j \in Int
        BY <1>0, <1>1, <1>2, <1>6, <1>7, <1>8 DEF Ptr
      <4> QED BY <4>1
    <3> HIDE DEF a
    <3> QED BY <3>1, <3>2, <2>2 DEF IInv, PlaceInv
  <2>5. ASSUME NEW j \in 1 .. Len(bufQ)
        PROVE  bufQ[j] = expected[Len(got') + Unread' + j]
    <3>1. Len(got') + Unread' + j = Len(got) + Unread + j
      BY <1>1, <1>6, <1>7
    <3> QED BY <3>1 DEF IInv, PlaceInv
  <2> QED BY <2>1, <2>3, <2>4, <2>5, <1>0, ZenonT(60) DEF PlaceInv
<1>12. PairInv'
  BY <1>0 DEF IInv, PairInv
<1>13. PopInv'
  <2>1. got' # <<>>
    BY <1>1, <1>6
  <2>2. /\ Len(got') + want' = Len(got) + want /\ want' <= Landed'
        /\ (want = 1 => want' = 0) /\ (want # 1 => want' > 0)
    BY <1>0, <1>1, <1>2, <1>3, <1>6, <1>8
  <2> QED BY <2>1, <2>2, <1>0 DEF IInv, PopInv
<1>14. PopIntegrity'
  <2>1. ASSUME NEW i \in 1 .. Len(got') PROVE got'[i] = expected[i]
    <3>1. CASE i = Len(got) + 1
      BY <3>1, <1>6
    <3>2. CASE i \in 1 .. Len(got)
      BY <3>2, <1>6 DEF IInv, PopIntegrity
    <3> QED BY <3>1, <3>2, <1>1, <1>6
  <2> QED BY <2>1, <1>0 DEF PopIntegrity
<1> QED BY <1>9, <1>10, <1>11, <1>12, <1>13, <1>14 DEF IInv

\* Writing the tail CSR hands the slots of a whole message back to the card.
LEMMA WriteTailCsrIInv ==
    ASSUME IInv, WriteTailCsr
    PROVE  IInv'
<1> DEFINE g == Len(got)
           n == Len(expected)
<1>0. /\ pc = "csr" /\ tailReg' = cachedTail /\ expected' = SubSeq(expected, g + 1, n)
      /\ pc' = "idle" /\ got' = <<>>
      /\ UNCHANGED <<mem, inFrag, bufQ, headReg, headShadow, sending, writeCnt, dmaData,
                     posted, inFlight, resp, cachedTail, want>>
  BY DEF WriteTailCsr, cardVars
<1>1. Sizes
  BY Counts
<1> USE DEF Sizes
<1>2. headShadow \in Ptr /\ cachedTail \in Ptr /\ expected \in Seq(Desc)
  BY DEF IInv, TypeOK
<1>3. want = 0 /\ g = (IF expected[1].hasNext THEN 2 ELSE 1) /\ 1 <= n /\ g <= n
  <2>1. want = 0 /\ g + want = IF expected[1].hasNext THEN 2 ELSE 1
    BY <1>0 DEF IInv, PopInv
  <2>2. 1 <= n /\ g + want <= n
    BY <1>0, <1>1, PopHead
  <2> QED BY <2>1, <2>2, <1>1
<1>4. /\ expected' \in Seq(Desc) /\ Len(expected') = n - g
      /\ \A i \in 1 .. n - g : expected'[i] = expected[g + i]
  <2>1. g + 1 \in 1 .. n + 1
    BY <1>1, <1>3
  <2> HIDE DEF g, n
  <2>2. Len(expected) = n
    BY DEF n
  <2>3. g \in Nat /\ n \in Nat
    BY <1>1 DEF g, n
  <2> QED BY <2>1, <2>2, <2>3, <1>0, <1>2
<1>5. Unread' = Unread /\ Landed' = Landed
  BY <1>0 DEF Unread, Landed
<1>6. Len(got') = 0
  BY <1>0
<1>7. TypeOK'
  BY <1>0, <1>2, <1>4 DEF IInv, TypeOK
<1>8. PointerInv'
  <2>1. Dist(cachedTail, cachedTail) = 0 /\ Dist(headShadow, cachedTail) = 0 + Unread
    BY <1>1, <1>2, DistNat DEF Unread
  <2>2. Len(expected') = 0 + Unread + Len(bufQ) /\ 0 + Unread <= BUF_SIZE
    BY <1>1, <1>4, C2hAssumption
  <2>3. sending => /\ writeCnt < Len(bufQ)
                   /\ 0 + Unread + writeCnt < BUF_SIZE
    BY <1>1, C2hAssumption DEF IInv, PointerInv, TypeOK
  <2> QED BY <2>1, <2>2, <2>3, <1>0, <1>1, <1>5, <1>6 DEF PointerInv
<1>9. PlaceInv'
  <2>1. ASSUME NEW x \in 1 .. n - g PROVE expected'[0 + x] = expected[g + x]
    BY <1>4, <1>1
  <2>2. ASSUME NEW k \in 0 .. BUF_SIZE - 1
        PROVE  mem[Idx(cachedTail + k)] = IF k < Landed THEN expected'[0 + k + 1] ELSE Zero
    <3>1. k < Landed => k + 1 \in 1 .. n - g
      BY <1>1
    <3>2. 0 + k + 1 = 0 + (k + 1) /\ g + k + 1 = g + (k + 1)
      BY <1>1
    <3> QED BY <3>1, <3>2, <2>1 DEF IInv, PlaceInv
  <2>3. ASSUME NEW j \in 1 .. Len(posted) PROVE posted[j].desc = expected'[0 + Landed + j]
    <3>1. Landed + j \in 1 .. n - g
      BY <1>1
    <3>2. 0 + Landed + j = 0 + (Landed + j) /\ g + Landed + j = g + (Landed + j)
      BY <1>1
    <3> QED BY <3>1, <3>2, <2>1 DEF IInv, PlaceInv
  <2>4. ASSUME NEW j \in 1 .. Len(dmaData) PROVE dmaData[j].desc = expected'[0 + Landed + Len(posted) + j]
    <3>1. Landed + Len(posted) + j \in 1 .. n - g
      BY <1>1
    <3>2. /\ 0 + Landed + Len(posted) + j = 0 + (Landed + Len(posted) + j)
          /\ g + Landed + Len(posted) + j = g + (Landed + Len(posted) + j)
      BY <1>1
    <3> QED BY <3>1, <3>2, <2>1 DEF IInv, PlaceInv
  <2>5. ASSUME NEW j \in 1 .. Len(bufQ) PROVE bufQ[j] = expected'[0 + Unread + j]
    <3>1. Unread + j \in 1 .. n - g
      BY <1>1
    <3>2. 0 + Unread + j = 0 + (Unread + j) /\ g + Unread + j = g + (Unread + j)
      BY <1>1
    <3> QED BY <3>1, <3>2, <2>1 DEF IInv, PlaceInv
  <2>a. posted' = posted /\ dmaData' = dmaData /\ bufQ' = bufQ /\ mem' = mem /\ cachedTail' = cachedTail
    BY <1>0
  <2>6. \A k \in 0 .. BUF_SIZE - 1 :
          mem'[Idx(cachedTail' + k)] = IF k < Landed' THEN expected'[Len(got') + k + 1] ELSE Zero
    BY <2>2, <2>a, <1>5, <1>6, Zenon
  <2>7. \A j \in 1 .. Len(posted') :
          /\ posted'[j].slot = Idx(cachedTail' + Landed' + j - 1)
          /\ posted'[j].desc = expected'[Len(got') + Landed' + j]
    <3>1. \A j \in 1 .. Len(posted) : posted[j].slot = Idx(cachedTail + Landed + j - 1)
      BY DEF IInv, PlaceInv
    <3> QED BY <2>3, <3>1, <2>a, <1>5, <1>6, Zenon
  <2>8. \A j \in 1 .. Len(dmaData') :
          /\ dmaData'[j].slot = Idx(cachedTail' + Landed' + Len(posted') + j - 1)
          /\ dmaData'[j].desc = expected'[Len(got') + Landed' + Len(posted') + j]
    <3>1. \A j \in 1 .. Len(dmaData) : dmaData[j].slot = Idx(cachedTail + Landed + Len(posted) + j - 1)
      BY DEF IInv, PlaceInv
    <3> QED BY <2>4, <3>1, <2>a, <1>5, <1>6, Zenon
  <2>9. \A j \in 1 .. Len(bufQ') : bufQ'[j] = expected'[Len(got') + Unread' + j]
    BY <2>5, <2>a, <1>5, <1>6, Zenon
  <2> QED BY <2>6, <2>7, <2>8, <2>9 DEF PlaceInv
<1>10. PairInv'
  <2>1. ASSUME NEW i \in 1 .. n - g, expected'[i].hasNext
        PROVE  IF i < n - g THEN expected'[i + 1] = Half(expected'[i])
               ELSE inFrag = <<Half(expected'[i])>>
    <3>1. g + i \in 1 .. n /\ expected'[i] = expected[g + i] /\ (i < n - g <=> g + i < n)
      BY <1>1, <1>3, <1>4
    <3>2. i < n - g => expected'[i + 1] = expected[(g + i) + 1]
      <4>1. i < n - g => i + 1 \in 1 .. n - g /\ g + (i + 1) = (g + i) + 1
        BY <1>1, <1>3
      <4> QED BY <4>1, <1>4
    <3> DEFINE x == g + i
    <3> HIDE DEF x
    <3>3. expected[x].hasNext => IF x < n THEN expected[x + 1] = Half(expected[x])
                                 ELSE inFrag = <<Half(expected[x])>>
      BY <3>1 DEF IInv, PairInv, x
    <3> QED BY <2>1, <3>1, <3>2, <3>3 DEF x
  <2>2. inFrag # <<>> => expected' # <<>> /\ expected'[Len(expected')].hasNext
    <3>1. SUFFICES ASSUME inFrag # <<>> PROVE g # n
      <4>1. inFrag # <<>> => expected[n].hasNext
        BY DEF IInv, PairInv
      <4>2. g # n => n - g \in 1 .. n - g /\ g + (n - g) = n
        BY <1>1, <1>3
      <4>3. g # n => expected'[n - g] = expected[n] /\ expected' # <<>>
        BY <4>2, <1>4
      <4> QED BY <4>1, <4>3, <1>4
    <3>2. expected[n].hasNext
      BY <3>1 DEF IInv, PairInv
    <3>3. CASE g = 1
      BY <3>2, <3>3, <1>3
    <3>4. CASE g = 2
      <4>1. SUFFICES ASSUME n = 2 PROVE FALSE
        BY <3>4
      <4>2. expected[1].hasNext
        BY <3>4, <1>3
      <4>3. 1 \in 1 .. n /\ 1 < n /\ 1 + 1 = 2
        BY <4>1
      <4>4. expected[2] = Half(expected[1])
        BY <4>2, <4>3 DEF IInv, PairInv
      <4> QED BY <3>2, <4>1, <4>4 DEF Half
    <3> QED BY <3>3, <3>4, <1>3
  <2> QED BY <2>1, <2>2, <1>0, <1>4, Zenon DEF PairInv
<1>11. PopInv' /\ PopIntegrity'
  BY <1>0, <1>3, <1>6 DEF PopInv, PopIntegrity
<1> QED BY <1>7, <1>8, <1>9, <1>10, <1>11 DEF IInv

\* A failed CSR write leaves the driver where it is.
LEMMA WriteTailErrIInv ==
    ASSUME IInv, WriteTailErr
    PROVE  IInv'
<1>0. /\ pc = "csr" /\ pc' = "dead"
      /\ UNCHANGED <<mem, inFrag, bufQ, headReg, headShadow, sending, writeCnt, dmaData,
                     posted, inFlight, resp, tailReg, cachedTail, want, got, expected>>
  BY DEF WriteTailErr, cardVars
<1>1. Unread' = Unread /\ Landed' = Landed
  BY <1>0 DEF Unread, Landed
<1>2. TypeOK'
  BY <1>0 DEF IInv, TypeOK
<1>3. PointerInv' /\ PlaceInv' /\ PairInv' /\ PopInv' /\ PopIntegrity'
  BY <1>0, <1>1 DEF IInv, PointerInv, PlaceInv, PairInv, PopInv, PopIntegrity
<1> QED BY <1>2, <1>3 DEF IInv

-----------------------------------------------------------------------------
\* The invariant is inductive: one case for each step of the card, the DMA
\* engine and the driver.
THEOREM IInvInductive == Spec => []IInv
<1>1. Init => IInv
  BY InitIInv
<1>2. IInv /\ [Next]_vars => IInv'
  <2> SUFFICES ASSUME IInv, [Next]_vars PROVE IInv'
    OBVIOUS
  <2>1. CASE UNCHANGED vars
    <3>1. UNCHANGED <<mem, inFrag, bufQ, headReg, headShadow, sending, writeCnt, dmaData, posted,
                      inFlight, resp, tailReg, pc, cachedTail, want, got, expected>>
      BY <2>1 DEF vars, cardVars, swVars
    <3>2. Unread' = Unread /\ Landed' = Landed
      BY <3>1 DEF Unread, Landed
    <3>3. TypeOK' /\ PointerInv' /\ PairInv'
      BY <3>1, <3>2 DEF IInv, TypeOK, PointerInv, PairInv
    <3>4. PlaceInv' /\ PopInv' /\ PopIntegrity'
      BY <3>1, <3>2 DEF IInv, PlaceInv, PopInv, PopIntegrity
    <3> QED BY <3>3, <3>4 DEF IInv
  <2>2. CASE \E m \in Message : ForwardFirst(m)
    BY <2>2, ForwardFirstIInv
  <2>3. CASE ForwardRest
    BY <2>3, ForwardRestIInv
  <2>4. CASE PrepareDmaWrite
    BY <2>4, PrepareDmaWriteIInv
  <2>5. CASE DoDmaWrite
    BY <2>5, DoDmaWriteIInv
  <2>6. CASE ForwardBeat
    BY <2>6, ForwardBeatIInv
  <2>7. CASE Land
    BY <2>7, LandIInv
  <2>8. CASE HandleWriteResp
    BY <2>8, HandleWriteRespIInv
  <2>9. CASE TryPop
    BY <2>9, TryPopIInv
  <2>10. CASE ReadAndAdvance
    BY <2>10, ReadAndAdvanceIInv
  <2>11. CASE WriteTailCsr
    BY <2>11, WriteTailCsrIInv
  <2>12. CASE WriteTailErr
    BY <2>12, WriteTailErrIInv
  <2> QED BY <2>1, <2>2, <2>3, <2>4, <2>5, <2>6, <2>7, <2>8, <2>9, <2>10, <2>11, <2>12 DEF Next
<1> QED BY <1>1, <1>2, PTL DEF Spec

\* The driver pops what the card accepted, in order, once and unaltered.
THEOREM PopIntegrityHolds == Spec => []PopIntegrity
<1>1. IInv => PopIntegrity
  BY DEF IInv
<1> QED BY <1>1, IInvInductive, PTL

\* try_pop returns one whole message, although the halves of a pair may reach
\* memory in different DMA writes.
THEOREM WholeMessagesHolds == Spec => []WholeMessages
<1>1. IInv => WholeMessages
  <2> SUFFICES ASSUME IInv, pc = "csr" PROVE got \in Message
    BY DEF WholeMessages
  <2> DEFINE a == expected[1]
  <2>1. /\ got \in Seq(Desc) /\ expected \in Seq(Desc) /\ want = 0
        /\ Len(got) + want = IF a.hasNext THEN 2 ELSE 1
        /\ 1 \in 1 .. Len(expected) /\ Len(got) + want \in 1 .. Len(expected)
    BY PopHead DEF IInv, TypeOK, PopInv
  <2>2. a \in Desc /\ Len(got) = IF a.hasNext THEN 2 ELSE 1
    BY <2>1
  <2>3. a.val \in Val /\ a = [val |-> a.val, valid |-> TRUE, hasNext |-> a.hasNext]
    BY <2>2, Zenon DEF Desc
  <2>4. CASE ~a.hasNext
    <3>1. Len(got) = 1 /\ got[1] = a
      BY <2>2, <2>4 DEF IInv, PopIntegrity
    <3>2. got = <<a>>
      BY <3>1, <2>1
    <3>3. a = [val |-> a.val, valid |-> TRUE, hasNext |-> FALSE]
      BY <2>2, <2>4, Zenon DEF Desc
    <3> HIDE DEF a
    <3> QED BY <3>2, <3>3, <2>3 DEF Message
  <2>5. CASE a.hasNext
    <3>1. Len(got) = 2 /\ got[1] = a /\ got[2] = expected[2]
      BY <2>2, <2>5 DEF IInv, PopIntegrity
    <3>2. expected[1 + 1] = Half(a)
      <4>1. 1 < Len(expected)
        BY <2>1, <2>2, <2>5
      <4> QED BY <4>1, <2>1, <2>5 DEF IInv, PairInv
    <3>3. got = <<a, Half(a)>>
      BY <3>1, <3>2, <2>1
    <3>4. a = [val |-> a.val, valid |-> TRUE, hasNext |-> TRUE]
      BY <2>2, <2>5, Zenon DEF Desc
    <3> HIDE DEF a
    <3> QED BY <3>3, <3>4, <2>3, Zenon DEF Message, Half
  <2> QED BY <2>4, <2>5
<1> QED BY <1>1, IInvInductive, PTL

\* A DMA write lands only on a slot the driver has zeroed.
THEOREM LandsOnFreeSlotHolds == Spec => []LandsOnFreeSlot
<1>1. IInv => LandsOnFreeSlot
  <2> SUFFICES ASSUME IInv, posted # <<>> PROVE mem[Head(posted).slot] = Zero
    BY DEF LandsOnFreeSlot
  <2>1. Sizes /\ posted \in Seq(Beat) /\ cachedTail \in Ptr
    BY Counts DEF IInv, TypeOK
  <2>2. Head(posted) = posted[1] /\ 1 \in 1 .. Len(posted)
    BY <2>1
  <2>3. Landed \in 0 .. BUF_SIZE - 1 /\ cachedTail + Landed + 1 - 1 = cachedTail + Landed
    BY <2>1, <2>2, C2hAssumption DEF Sizes, Ptr
  <2>4. Head(posted).slot = Idx(cachedTail + Landed)
    BY <2>2, <2>3 DEF IInv, PlaceInv
  <2>5. ~(Landed < Landed)
    BY <2>3
  <2> QED BY <2>3, <2>4, <2>5 DEF IInv, PlaceInv
<1> QED BY <1>1, IInvInductive, PTL

\* The tails never pass the shadow head and are never more than a ring behind.
THEOREM TailBehindShadowHolds == Spec => []TailBehindShadow
<1>1. IInv => TailBehindShadow
  <2> SUFFICES ASSUME IInv PROVE TailBehindShadow
    OBVIOUS
  <2>1. Sizes
    BY Counts
  <2>2. Dist(headShadow, tailReg) = Len(got) + Unread /\ Unread = Dist(headShadow, cachedTail)
    BY DEF IInv, PointerInv, Unread
  <2> QED BY <2>1, <2>2, C2hAssumption DEF Sizes, TailBehindShadow
<1> QED BY <1>1, IInvInductive, PTL
=============================================================================
