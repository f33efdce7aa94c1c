--------------------------- MODULE H2cRingProofs ---------------------------
(***************************************************************************)
(* The safety properties of H2cRing for every ring, block and batch size   *)
(* that RingAssumption admits.  First the arithmetic of pointers with a    *)
(* guard bit, then one lemma per action that it preserves IInv, then the   *)
(* theorems.                                                               *)
(***************************************************************************)
EXTENDS H2cRing, SequenceTheorems, TLAPS

\* A leaf that names no prover goes to the SMT solver, then to Zenon.
USE SMTT(60), ZenonT(60)

\* The distance of two pointers without modulus (operator - of RingbufPointer).
LEMMA DistIs ==
    ASSUME NEW h \in Ptr, NEW t \in Ptr
    PROVE  Dist(h, t) = IF h >= t THEN h - t ELSE h - t + 2 * BUF_SIZE
BY RingAssumption DEF Dist, Ptr

\* Advancing a pointer by at most a ring without modulus (operator + of RingbufPointer).
LEMMA PtrAddIs ==
    ASSUME NEW p \in Ptr, NEW n \in 0 .. BUF_SIZE
    PROVE  PtrAdd(p, n) = IF p + n < 2 * BUF_SIZE THEN p + n ELSE p + n - 2 * BUF_SIZE
BY RingAssumption DEF PtrAdd, Ptr

\* The slot of a pointer plus an offset without modulus (BUF_SIZE_MASK).
LEMMA IdxIs ==
    ASSUME NEW x \in 0 .. 4 * BUF_SIZE - 1
    PROVE  Idx(x) = IF x < BUF_SIZE THEN x
                    ELSE IF x < 2 * BUF_SIZE THEN x - BUF_SIZE
                    ELSE IF x < 3 * BUF_SIZE THEN x - 2 * BUF_SIZE
                    ELSE x - 3 * BUF_SIZE
BY RingAssumption DEF Idx

\* The modulus of the small integers that available computes with.
LEMMA ModIs ==
    ASSUME NEW x \in Int, -2 * BUF_SIZE <= x, x < 2 * BUF_SIZE
    PROVE  x % BUF_SIZE = IF x < -BUF_SIZE THEN x + 2 * BUF_SIZE
                          ELSE IF x < 0 THEN x + BUF_SIZE
                          ELSE IF x < BUF_SIZE THEN x
                          ELSE x - BUF_SIZE
BY RingAssumption

\* available returns the number of free slots: the guard bit tells a full ring
\* from an empty one.
LEMMA AvailIs ==
    ASSUME NEW h \in Ptr, NEW t \in Ptr, Dist(h, t) <= BUF_SIZE
    PROVE  Available(h, t) = BUF_SIZE - Dist(h, t)
<1>1. h \in 0 .. 4 * BUF_SIZE - 1 /\ t \in 0 .. 4 * BUF_SIZE - 1
  BY RingAssumption DEF Ptr
<1>2. /\ Idx(h) = IF h < BUF_SIZE THEN h ELSE h - BUF_SIZE
      /\ Idx(t) = IF t < BUF_SIZE THEN t ELSE t - BUF_SIZE
  BY <1>1, IdxIs, RingAssumption DEF Ptr
<1> DEFINE x == Idx(h) - t + BUF_SIZE
<1>3. x \in Int /\ -2 * BUF_SIZE <= x /\ x < 2 * BUF_SIZE
  BY <1>2, RingAssumption DEF Ptr
<1> HIDE DEF x
<1>4. x % BUF_SIZE = IF x < -BUF_SIZE THEN x + 2 * BUF_SIZE
                          ELSE IF x < 0 THEN x + BUF_SIZE
                          ELSE IF x < BUF_SIZE THEN x
                          ELSE x - BUF_SIZE
  BY <1>3, ModIs
<1>5. Dist(h, t) = IF h >= t THEN h - t ELSE h - t + 2 * BUF_SIZE
  BY DistIs
<1>6. Available(h, t) = IF Idx(t) = Idx(h)
    THEN IF h = t THEN BUF_SIZE ELSE 0
    ELSE BUF_SIZE - (x % BUF_SIZE)
  BY DEF Available, x
<1> QED BY <1>2, <1>3, <1>4, <1>5, <1>6, RingAssumption DEF Ptr, x

\* Publishing n descriptors that fit moves the head n further from the tail.
LEMMA DistAdd ==
    ASSUME NEW h \in Ptr, NEW t \in Ptr, NEW n \in 0 .. BUF_SIZE,
           Dist(h, t) + n <= BUF_SIZE
    PROVE  /\ PtrAdd(h, n) \in Ptr
           /\ Dist(PtrAdd(h, n), t) = Dist(h, t) + n
<1>1. PtrAdd(h, n) = IF h + n < 2 * BUF_SIZE THEN h + n ELSE h + n - 2 * BUF_SIZE
  BY PtrAddIs
<1>2. PtrAdd(h, n) \in Ptr
  BY <1>1, RingAssumption DEF Ptr
<1>3. Dist(h, t) = IF h >= t THEN h - t ELSE h - t + 2 * BUF_SIZE
  BY DistIs
<1> DEFINE g == PtrAdd(h, n)
<1>4. Dist(g, t) = IF g >= t THEN g - t ELSE g - t + 2 * BUF_SIZE
  BY <1>2, DistIs
<1> QED BY <1>1, <1>2, <1>3, <1>4, RingAssumption DEF Ptr

\* Taking a descriptor brings the tail one closer to the head.
LEMMA DistSucc ==
    ASSUME NEW h \in Ptr, NEW t \in Ptr, Dist(h, t) >= 1
    PROVE  /\ PtrAdd(t, 1) \in Ptr
           /\ Dist(h, PtrAdd(t, 1)) = Dist(h, t) - 1
<1>1. PtrAdd(t, 1) = IF t + 1 < 2 * BUF_SIZE THEN t + 1 ELSE t + 1 - 2 * BUF_SIZE
  BY PtrAddIs, RingAssumption
<1>2. PtrAdd(t, 1) \in Ptr
  BY <1>1, RingAssumption DEF Ptr
<1>3. Dist(h, t) = IF h >= t THEN h - t ELSE h - t + 2 * BUF_SIZE
  BY DistIs
<1> DEFINE g == PtrAdd(t, 1)
<1>4. Dist(h, g) = IF h >= g THEN h - g ELSE h - g + 2 * BUF_SIZE
  BY <1>2, DistIs
<1> QED BY <1>1, <1>2, <1>3, <1>4, RingAssumption DEF Ptr

\* Offsets from the next tail are offsets from the tail, shifted by one.
LEMMA IdxShift ==
    ASSUME NEW t \in Ptr, NEW i \in 0 .. BUF_SIZE
    PROVE  Idx(PtrAdd(t, 1) + i) = Idx(t + 1 + i)
<1>1. PtrAdd(t, 1) = IF t + 1 < 2 * BUF_SIZE THEN t + 1 ELSE t + 1 - 2 * BUF_SIZE
  BY PtrAddIs, RingAssumption
<1>2. t + 1 + i \in 0 .. 4 * BUF_SIZE - 1 /\ PtrAdd(t, 1) + i \in 0 .. 4 * BUF_SIZE - 1
  BY <1>1, RingAssumption DEF Ptr
<1> QED BY <1>1, <1>2, IdxIs, RingAssumption DEF Ptr

\* The slots behind the head follow the published ones.
LEMMA IdxHead ==
    ASSUME NEW h \in Ptr, NEW t \in Ptr, NEW j \in 0 .. BUF_SIZE,
           Dist(h, t) <= BUF_SIZE, Dist(h, t) + j < 2 * BUF_SIZE
    PROVE  Idx(t + Dist(h, t) + j) = Idx(h + j)
<1>1. Dist(h, t) = IF h >= t THEN h - t ELSE h - t + 2 * BUF_SIZE
  BY DistIs
<1>2. h + j \in 0 .. 4 * BUF_SIZE - 1 /\ t + Dist(h, t) + j \in 0 .. 4 * BUF_SIZE - 1
  BY <1>1, RingAssumption DEF Ptr
<1> QED BY <1>1, <1>2, IdxIs, RingAssumption DEF Ptr

\* A slot that a push writes is none of the published ones.
LEMMA IdxApart ==
    ASSUME NEW h \in Ptr, NEW t \in Ptr, NEW w \in Nat, NEW i \in 0 .. BUF_SIZE,
           i < Dist(h, t), Dist(h, t) + w < BUF_SIZE
    PROVE  Idx(h + w) # Idx(t + i)
<1>1. Dist(h, t) = IF h >= t THEN h - t ELSE h - t + 2 * BUF_SIZE
  BY DistIs
<1>2. h + w \in 0 .. 4 * BUF_SIZE - 1 /\ t + i \in 0 .. 4 * BUF_SIZE - 1
  BY <1>1, RingAssumption DEF Ptr
<1> QED BY <1>1, <1>2, IdxIs, RingAssumption DEF Ptr

\* Division with remainder, used for block numbers and offsets.
LEMMA DivMod ==
    ASSUME NEW x \in Nat, NEW r \in Nat \ {0}
    PROVE  /\ x \div r \in Nat
           /\ x % r \in 0 .. r - 1
           /\ x = r * (x \div r) + (x % r)
OBVIOUS

\* Multiplication by a natural number is monotone.
LEMMA MulMono ==
    ASSUME NEW a \in Nat, NEW b \in Nat, NEW c \in Nat, a <= b
    PROVE  c * a <= c * b
OBVIOUS

\* Of two multiples, the smaller has the smaller factor.
LEMMA MulLess ==
    ASSUME NEW a \in Nat, NEW b \in Nat, NEW c \in Nat \ {0}, c * a < c * b
    PROVE  a + 1 <= b
<1>1. CASE b <= a
  BY <1>1, MulMono
<1> QED BY <1>1

\* What sendDmaReq reads: at least one descriptor, none beyond the head, never
\* past the end of the buffer, and as many as the shadow tail advances.
LEMMA BlockFacts ==
    ASSUME headReg \in Ptr, tailShadow \in Ptr, headReg # tailShadow,
           Dist(headReg, tailShadow) <= BUF_SIZE
    PROVE  /\ ReadCnt \in 1 .. READ_BLOCK
           /\ ReadCnt <= Dist(headReg, tailShadow)
           /\ NewTailShadow \in Ptr
           /\ Dist(NewTailShadow, tailShadow) = ReadCnt
           /\ Idx(tailShadow) + ReadCnt <= BUF_SIZE
<1> DEFINE R == READ_BLOCK
           h == headReg
           t == tailShadow
           q == t \div R
           r == t % R
           s == h \div R
           z == h % R
           n == NewTailShadow
<1>1. PICK k \in Nat \ {0} : BUF_SIZE = R * k
  BY RingAssumption
<1>2. h \in Nat /\ t \in Nat /\ R \in Nat \ {0} /\ BUF_SIZE \in Nat \ {0}
  BY RingAssumption DEF Ptr
<1>3. /\ q \in Nat /\ r \in 0 .. R - 1 /\ t = R * q + r
      /\ s \in Nat /\ z \in 0 .. R - 1 /\ h = R * s + z
  BY <1>2, DivMod, Zenon
<1>4. Dist(h, t) = IF h >= t THEN h - t ELSE h - t + 2 * BUF_SIZE
  BY DistIs
<1>5. h < 2 * BUF_SIZE /\ t < 2 * BUF_SIZE
  BY RingAssumption DEF Ptr
<1>6. R * 1 <= R * k
  BY <1>1, <1>2, MulMono
<1>7. R * (q + 1) <= 2 * BUF_SIZE
  <2>1. R * q < R * (2 * k)
    BY <1>1, <1>2, <1>3, <1>5
  <2>2. q + 1 <= 2 * k
    BY <2>1, <1>2, <1>3, MulLess
  <2>3. R * (q + 1) <= R * (2 * k)
    BY <2>2, <1>2, <1>3, MulMono
  <2> QED BY <2>3, <1>1, <1>2
<1>8. t < BUF_SIZE => R * (q + 1) <= BUF_SIZE
  <2>1. SUFFICES ASSUME t < BUF_SIZE PROVE R * (q + 1) <= BUF_SIZE
    OBVIOUS
  <2>2. R * q < R * k
    BY <2>1, <1>1, <1>2, <1>3
  <2>3. q + 1 <= k
    BY <2>2, <1>1, <1>2, <1>3, MulLess
  <2> QED BY <2>3, <1>1, <1>2, <1>3, MulMono
<1>9. Idx(t) = IF t < BUF_SIZE THEN t ELSE t - BUF_SIZE
  BY <1>2, <1>5, IdxIs
<1>10. R * (q + 1) = R * q + R /\ R * q \in Nat
  BY <1>2, <1>3
<1>11. CASE s = q
  <2>1. h > t /\ h - t < R
    BY <1>11, <1>1, <1>2, <1>3, <1>4, <1>5, <1>6
  <2>2. (h - t) % R = h - t
    BY <2>1, <1>2
  <2>3. ReadCnt = h - t /\ n = h
    BY <2>2, <1>11 DEF ReadCnt, NewTailShadow, ReadBlock
  <2>4. h <= R * (q + 1)
    BY <1>11, <1>2, <1>3, <1>10
  <2> QED BY <2>1, <2>3, <2>4, <1>2, <1>4, <1>7, <1>8, <1>9
<1>12. CASE s # q
  <2>1. ReadCnt = R - r /\ n = (R * (q + 1)) % (2 * BUF_SIZE)
    BY <1>12, <1>2, <1>3 DEF ReadCnt, NewTailShadow, ReadBlock
  <2>2. R - r \in 1 .. R
    BY <1>2, <1>3
  <2>3. h > t => R * (q + 1) <= h
    <3>1. SUFFICES ASSUME h > t PROVE R * (q + 1) <= h
      OBVIOUS
    <3>2. CASE s < q
      <4>1. R * (s + 1) <= R * q
        BY <3>2, <1>2, <1>3, MulMono
      <4> QED BY <4>1, <3>1, <1>2, <1>3
    <3>3. CASE q < s
      <4>1. R * (q + 1) <= R * s
        BY <3>3, <1>2, <1>3, MulMono
      <4> QED BY <4>1, <1>2, <1>3
    <3> QED BY <3>2, <3>3, <1>3, <1>12
  <2>4. R - r <= Dist(h, t)
    BY <2>2, <2>3, <1>2, <1>3, <1>4, <1>5, <1>7, <1>10
  <2>5. Idx(t) + (R - r) <= BUF_SIZE
    BY <1>2, <1>3, <1>7, <1>8, <1>9, <1>10
  <2>6. n = IF R * (q + 1) < 2 * BUF_SIZE THEN R * (q + 1) ELSE 0
    <3> DEFINE y == R * (q + 1)
    <3>1. y \in Nat /\ y <= 2 * BUF_SIZE
      BY <1>2, <1>3, <1>7
    <3> HIDE DEF y
    <3>2. y % (2 * BUF_SIZE) = IF y < 2 * BUF_SIZE THEN y ELSE 0
      BY <3>1, <1>2
    <3> QED BY <3>2, <2>1 DEF y
  <2>7. n \in Ptr
    BY <2>6, <1>2, <1>10 DEF Ptr
  <2>8. Dist(n, t) = IF n >= t THEN n - t ELSE n - t + 2 * BUF_SIZE
    BY <2>7, DistIs
  <2>9. Dist(n, t) = R - r
    <3>1. R <= BUF_SIZE
      BY <1>1, <1>2, <1>6
    <3>2. CASE R * (q + 1) < 2 * BUF_SIZE
      BY <3>2, <2>6, <2>8, <1>2, <1>3, <1>10
    <3>3. CASE R * (q + 1) = 2 * BUF_SIZE
      <4>1. n = 0 /\ t > 0 /\ 2 * BUF_SIZE - t = R - r
        BY <3>1, <3>3, <2>6, <1>2, <1>3, <1>10
      <4> QED BY <4>1, <2>8, <1>2
    <3> QED BY <3>2, <3>3, <1>2, <1>7, <1>10
  <2> QED BY <2>1, <2>2, <2>4, <2>5, <2>7, <2>9
<1> QED BY <1>11, <1>12

\* The distance is a natural number, zero only between equal pointers.
LEMMA DistNat ==
    ASSUME NEW h \in Ptr, NEW t \in Ptr
    PROVE  /\ Dist(h, t) \in Nat
           /\ Dist(h, t) = 0 <=> h = t
BY DistIs, RingAssumption DEF Ptr

\* The index of a pointer plus an offset is a slot.
LEMMA IdxSlot ==
    ASSUME NEW x \in 0 .. 4 * BUF_SIZE - 1
    PROVE  Idx(x) \in Slot
BY IdxIs, RingAssumption DEF Slot

-----------------------------------------------------------------------------
\* The empty ring of ProducerRing::new satisfies the invariant.
LEMMA InitIInv == Init => IInv
<1> SUFFICES ASSUME Init PROVE IInv
  OBVIOUS
<1> USE RingAssumption DEF Init
<1>1. 0 \in Ptr
  BY DEF Ptr
<1>2. Dist(0, 0) = 0
  BY <1>1, DistNat
<1>3. TypeOK
  <2>1. <<>> \in Seq(Desc) /\ <<>> \in Seq(Beat) /\ Len(<<>>) = 0
    OBVIOUS
  <2>2. 0 \in 0 .. MAX_BATCH /\ 0 \in 0 .. BUF_SIZE /\ 0 \in 0 .. READ_BLOCK /\ 0 <= MAX_BATCH
    OBVIOUS
  <2> QED BY <2>1, <2>2, <1>1, Zenon DEF TypeOK
<1>4. PushInv
  BY DEF PushInv
<1>5. NoOverrun
  BY <1>2 DEF NoOverrun
<1>6. BlockInv
  BY <1>2 DEF BlockInv
<1>7. FifoIntegrity
  BY <1>2 DEF FifoIntegrity
<1> QED BY <1>3, <1>4, <1>5, <1>6, <1>7 DEF IInv

\* A push that passes the space check fits into the ring.
LEMMA CheckSpaceIInv ==
    ASSUME IInv, NEW b \in Batches, CheckSpace(b)
    PROVE  IInv'
<1> USE DEF CheckSpace, cardVars
<1>1. b \in Seq(Desc) /\ Len(b) \in 1 .. MAX_BATCH
  BY RingAssumption DEF Batches
<1>2. TypeOK'
  BY <1>1, RingAssumption DEF IInv, TypeOK
<1>3. PushInv'
  BY <1>1 DEF IInv, PushInv
<1>4. NoOverrun'
  <2>1. Dist(cachedHead, tailReg) <= BUF_SIZE /\ cachedHead \in Ptr /\ tailReg \in Ptr
    BY DistNat, RingAssumption DEF IInv, TypeOK, NoOverrun, PushInv
  <2>2. Available(cachedHead, tailReg) = BUF_SIZE - Dist(cachedHead, tailReg)
    BY <2>1, AvailIs
  <2> QED BY <2>1, <2>2, <1>1, DistNat, RingAssumption DEF NoOverrun
<1>5. BlockInv'
  BY DEF IInv, BlockInv
<1>6. FifoIntegrity'
  BY DEF IInv, FifoIntegrity, InTransit
<1> QED BY <1>2, <1>3, <1>4, <1>5, <1>6 DEF IInv

\* Writing a descriptor to the buffer disturbs no published one.
LEMMA WriteDescIInv ==
    ASSUME IInv, WriteDesc
    PROVE  IInv'
<1> USE DEF WriteDesc, cardVars
<1> DEFINE u == Dist(cachedHead, tailReg)
           x == Idx(cachedHead + wrote)
<1>1. /\ cachedHead \in Ptr /\ tailReg \in Ptr /\ wrote \in Nat
      /\ wrote + 1 <= Len(batch) /\ Len(batch) \in Nat /\ u \in Nat
      /\ u + Len(batch) <= BUF_SIZE
  BY DistNat DEF IInv, TypeOK, PushInv, NoOverrun
<1>2. cachedHead + wrote \in 0 .. 4 * BUF_SIZE - 1
  BY <1>1, RingAssumption DEF Ptr
<1>3. x \in Slot
  BY <1>2, IdxSlot
<1>4. batch[wrote + 1] \in Desc
  BY <1>1 DEF IInv, TypeOK
<1>5. TypeOK'
  BY <1>1, <1>3, <1>4, RingAssumption DEF IInv, TypeOK
<1>6. PushInv'
  <2>1. ASSUME NEW j \in 1 .. wrote'
        PROVE  mem'[Idx(cachedHead + j - 1)] = batch[j]
    <3>1. CASE j = wrote + 1
      BY <3>1, <1>1, <1>3 DEF IInv, TypeOK, Ptr
    <3>2. CASE j <= wrote
      <4>1. Idx(cachedHead + wrote) # Idx(cachedHead + (j - 1))
        <5>1. cachedHead + (j - 1) \in 0 .. 4 * BUF_SIZE - 1
          BY <3>2, <1>1, RingAssumption DEF Ptr
        <5>2. wrote < BUF_SIZE /\ j - 1 < wrote /\ j - 1 >= 0
          BY <3>2, <1>1, <2>1, RingAssumption
        <5> QED BY <5>1, <5>2, <1>1, <1>2, IdxIs, RingAssumption DEF Ptr
      <4>2. cachedHead + j - 1 = cachedHead + (j - 1)
        BY <1>1, <2>1 DEF Ptr
      <4>3. mem[Idx(cachedHead + j - 1)] = batch[j]
        BY <3>2, <1>1 DEF IInv, PushInv
      <4>4. Idx(cachedHead + j - 1) \in Slot
        BY <3>2, <1>1, <4>2, IdxSlot, RingAssumption DEF Ptr
      <4> QED BY <4>1, <4>2, <4>3, <4>4 DEF IInv, TypeOK
    <3> QED BY <3>1, <3>2, <1>1
  <2> QED BY <2>1, <1>1 DEF IInv, PushInv
<1>7. NoOverrun'
  BY DEF IInv, NoOverrun
<1>8. BlockInv'
  BY DEF IInv, BlockInv
<1>9. FifoIntegrity'
  <2>1. Len(queued) = u
    BY DEF IInv, FifoIntegrity, PushInv
  <2>2. ASSUME NEW i \in 1 .. Len(queued), ~(i <= Len(dmaResp))
        PROVE  mem'[Idx(tailReg + i - 1)] = mem[Idx(tailReg + i - 1)]
    <3>1. Idx(cachedHead + wrote) # Idx(tailReg + (i - 1))
      BY <2>1, <2>2, <1>1, IdxApart, RingAssumption
    <3>2. tailReg + i - 1 = tailReg + (i - 1) /\ tailReg + i - 1 \in 0 .. 4 * BUF_SIZE - 1
      BY <2>1, <2>2, <1>1, RingAssumption DEF Ptr
    <3>3. Idx(tailReg + i - 1) \in Slot
      BY <3>2, IdxSlot
    <3> QED BY <3>1, <3>2, <3>3 DEF IInv, TypeOK
  <2> QED BY <2>2 DEF IInv, FifoIntegrity, InTransit
<1> QED BY <1>5, <1>6, <1>7, <1>8, <1>9 DEF IInv

\* write_head publishes the slots behind the head, which hold the batch.
LEMMA WriteHeadIInv ==
    ASSUME IInv, WriteHead
    PROVE  IInv'
<1> USE DEF WriteHead, cardVars
<1> DEFINE u == Dist(cachedHead, tailReg)
           n == Len(batch)
           g == PtrAdd(cachedHead, n)
<1>1. /\ cachedHead \in Ptr /\ tailReg \in Ptr /\ tailShadow \in Ptr
      /\ batch \in Seq(Desc) /\ n \in Nat /\ wrote = n /\ u \in Nat
      /\ u + n <= BUF_SIZE /\ headReg = cachedHead
  BY DistNat DEF IInv, TypeOK, PushInv, NoOverrun
<1>2. g \in Ptr /\ Dist(g, tailReg) = u + n
  BY <1>1, DistAdd, RingAssumption
<1>3. queued \in Seq(Desc) /\ Len(queued) = u
  BY <1>1 DEF IInv, TypeOK, FifoIntegrity
<1>4. /\ queued' \in Seq(Desc) /\ Len(queued') = u + n
      /\ \A i \in 1 .. u : queued'[i] = queued[i]
      /\ \A i \in u + 1 .. u + n : queued'[i] = batch[i - u]
  <2>1. queued' = queued \o batch
    OBVIOUS
  <2>2. queued \o batch \in Seq(Desc) /\ Len(queued \o batch) = u + n
    BY <1>1, <1>3, ConcatProperties, Zenon
  <2>3. ASSUME NEW i \in 1 .. u PROVE (queued \o batch)[i] = queued[i]
    BY <1>1, <1>3
  <2>4. ASSUME NEW i \in u + 1 .. u + n PROVE (queued \o batch)[i] = batch[i - u]
    BY <1>1, <1>3
  <2> HIDE DEF u, n
  <2> QED BY <2>1, <2>2, <2>3, <2>4, Zenon
<1>5. TypeOK'
  BY <1>2, <1>4, RingAssumption DEF IInv, TypeOK
<1>6. PushInv'
  BY DEF PushInv
<1>7. NoOverrun'
  BY <1>1, <1>2 DEF NoOverrun
<1>8. BlockInv'
  <2>1. Dist(tailShadow, tailReg) \in Nat
    BY <1>1, DistNat
  <2> QED BY <2>1, <1>1, <1>2 DEF IInv, BlockInv
<1>9. FifoIntegrity'
  <2>1. Len(dmaResp) <= u /\ Len(dmaResp) \in Nat
    BY <1>1 DEF IInv, TypeOK, BlockInv
  <2>2. ASSUME NEW i \in 1 .. u PROVE InTransit(i)' = queued'[i]
    BY <2>2, <1>1, <1>3, <1>4 DEF IInv, FifoIntegrity, InTransit
  <2>3. ASSUME NEW i \in u + 1 .. u + n PROVE InTransit(i)' = queued'[i]
    <3> DEFINE j == i - u
    <3>1. j \in 1 .. wrote /\ ~(i <= Len(dmaResp))
      BY <2>1, <2>3, <1>1
    <3>2. mem[Idx(cachedHead + j - 1)] = batch[j]
      BY <3>1 DEF IInv, PushInv
    <3>3. Idx(tailReg + u + (j - 1)) = Idx(cachedHead + (j - 1))
      <4>1. j \in 1 .. n /\ u \in Nat /\ n \in Nat /\ u + n <= BUF_SIZE /\ BUF_SIZE \in Nat
        BY <3>1, <1>1, RingAssumption
      <4> HIDE DEF j, u, n
      <4>2. j - 1 \in 0 .. BUF_SIZE /\ u <= BUF_SIZE /\ u + (j - 1) < 2 * BUF_SIZE
        BY <4>1
      <4> USE DEF u
      <4> QED BY <4>2, <1>1, IdxHead
    <3>4. /\ tailReg + u + (j - 1) = tailReg + i - 1
          /\ cachedHead + (j - 1) = cachedHead + j - 1
      <4>1. tailReg \in Int /\ cachedHead \in Int /\ u \in Int /\ i \in Int
        BY <1>1, <2>3, RingAssumption DEF Ptr
      <4> HIDE DEF u
      <4> QED BY <4>1
    <3> QED BY <3>1, <3>2, <3>3, <3>4, <1>4, <2>3 DEF InTransit
  <2> QED BY <2>2, <2>3, <1>1, <1>2, <1>4 DEF FifoIntegrity
<1> QED BY <1>5, <1>6, <1>7, <1>8, <1>9 DEF IInv

\* A failing CSR write leaves the ring as it was.
LEMMA WriteHeadErrIInv ==
    ASSUME IInv, WriteHeadErr
    PROVE  IInv'
<1> USE DEF WriteHeadErr, cardVars
<1>1. TypeOK' /\ PushInv'
  BY DEF IInv, TypeOK, PushInv
<1>2. NoOverrun' /\ BlockInv' /\ FifoIntegrity'
  BY DEF IInv, NoOverrun, BlockInv, FifoIntegrity, InTransit
<1> QED BY <1>1, <1>2 DEF IInv

\* sendDmaReq requests published descriptors only, inside the buffer.
LEMMA SendDmaReqIInv ==
    ASSUME IInv, SendDmaReq
    PROVE  IInv'
<1> USE DEF SendDmaReq, swVars
<1>1. /\ tailShadow = tailReg /\ headReg \in Ptr /\ tailReg \in Ptr /\ headReg = cachedHead
      /\ Dist(tailReg, tailReg) = 0 /\ Len(batch) \in Nat /\ Len(dmaResp) \in Nat
      /\ toRead \in Nat /\ dmaResp \in Seq(Beat)
  BY DistNat DEF IInv, TypeOK, BlockInv, PushInv
<1>2. Len(dmaResp) = 0 /\ dmaResp = <<>>
  BY <1>1 DEF IInv, BlockInv
<1>3. Dist(headReg, tailShadow) <= BUF_SIZE
  BY <1>1, DistNat, RingAssumption DEF IInv, NoOverrun
<1>4. /\ ReadCnt \in 1 .. READ_BLOCK
      /\ ReadCnt <= Dist(headReg, tailShadow)
      /\ NewTailShadow \in Ptr
      /\ Dist(NewTailShadow, tailShadow) = ReadCnt
      /\ Idx(tailShadow) + ReadCnt <= BUF_SIZE
  BY <1>1, <1>3, BlockFacts
<1>5. Idx(tailShadow) \in Slot
  BY <1>1, IdxSlot, RingAssumption DEF Ptr
<1>6. TypeOK'
  BY <1>4, <1>5, RingAssumption DEF IInv, TypeOK, Slot
<1>7. PushInv' /\ NoOverrun'
  BY DEF IInv, PushInv, NoOverrun
<1>8. BlockInv'
  <2>1. NewTailShadow # tailReg
    BY <1>1, <1>4
  <2>2. tailReg + 0 = tailReg
    BY <1>1 DEF Ptr
  <2> QED BY <2>1, <2>2, <1>1, <1>2, <1>4, RingAssumption DEF BlockInv
<1>9. FifoIntegrity'
  BY DEF IInv, FifoIntegrity, InTransit
<1> QED BY <1>6, <1>7, <1>8, <1>9 DEF IInv

\* The facts of the invariant about the block being read, in one place.
LEMMA BlockTypes ==
    ASSUME IInv
    PROVE  /\ tailReg \in Ptr /\ headReg \in Ptr /\ tailShadow \in Ptr /\ headReg = cachedHead
           /\ dmaResp \in Seq(Beat) /\ Len(dmaResp) \in Nat /\ toRead \in 0 .. READ_BLOCK
           /\ toRead + Len(dmaResp) = Dist(tailShadow, tailReg)
           /\ Dist(tailShadow, tailReg) <= Dist(headReg, tailReg)
           /\ Dist(headReg, tailReg) \in Nat /\ Dist(headReg, tailReg) <= BUF_SIZE
           /\ queued \in Seq(Desc) /\ Len(queued) = Dist(headReg, tailReg)
<1>1. /\ tailReg \in Ptr /\ headReg \in Ptr /\ tailShadow \in Ptr
      /\ dmaResp \in Seq(Beat) /\ Len(dmaResp) \in Nat /\ toRead \in 0 .. READ_BLOCK
      /\ queued \in Seq(Desc) /\ Len(batch) \in Nat
  BY DEF IInv, TypeOK
<1>2. Dist(headReg, tailReg) \in Nat /\ headReg = cachedHead
  BY <1>1, DistNat DEF IInv, PushInv
<1>3. Dist(headReg, tailReg) <= BUF_SIZE
  BY <1>1, <1>2, RingAssumption DEF IInv, NoOverrun
<1> QED BY <1>1, <1>2, <1>3 DEF IInv, BlockInv, FifoIntegrity

\* The DMA engine reads the descriptor that is next in order.
LEMMA DmaReadIInv ==
    ASSUME IInv, DmaRead
    PROVE  IInv'
<1> USE DEF DmaRead, swVars
<1> DEFINE d == Len(dmaResp)
           beat == [desc |-> mem[readAddr], isLast |-> toRead = 1]
<1>1. /\ tailReg \in Ptr /\ headReg \in Ptr /\ tailShadow \in Ptr /\ dmaResp \in Seq(Beat) /\ d \in Nat
      /\ toRead \in Nat \ {0} /\ toRead - 1 \in 0 .. READ_BLOCK
      /\ readAddr = Idx(tailReg + d) /\ readAddr + toRead <= BUF_SIZE
      /\ toRead + d = Dist(tailShadow, tailReg)
      /\ Dist(tailShadow, tailReg) <= Dist(headReg, tailReg)
      /\ Dist(headReg, tailReg) \in Nat /\ Dist(headReg, tailReg) <= BUF_SIZE
  BY BlockTypes, RingAssumption DEF IInv, BlockInv
<1>2. readAddr \in Slot
  BY <1>1, RingAssumption DEF IInv, TypeOK, Slot
<1>3. beat \in Beat
  BY <1>2 DEF IInv, TypeOK, Beat
<1> HIDE DEF beat
<1>4. /\ dmaResp' = Append(dmaResp, beat) /\ dmaResp' \in Seq(Beat) /\ Len(dmaResp') = d + 1
      /\ \A i \in 1 .. d : dmaResp'[i] = dmaResp[i]
      /\ dmaResp'[d + 1] = beat
  BY <1>1, <1>3 DEF beat
<1>5. TypeOK'
  <2>1. readAddr' \in 0 .. BUF_SIZE /\ toRead' \in 0 .. READ_BLOCK
    BY <1>1, <1>2, RingAssumption DEF Slot
  <2> QED BY <2>1, <1>4 DEF IInv, TypeOK
<1>6. PushInv' /\ NoOverrun'
  BY DEF IInv, PushInv, NoOverrun
<1>7. BlockInv'
  <2>1. toRead' + Len(dmaResp') = Dist(tailShadow, tailReg)
    BY <1>1, <1>4
  <2>2. toRead' > 0 => readAddr' = Idx(tailReg + Len(dmaResp')) /\ readAddr' + toRead' <= BUF_SIZE
    <3>1. SUFFICES ASSUME toRead > 1 PROVE readAddr + 1 = Idx(tailReg + (d + 1))
      BY <1>1, <1>2, <1>4, RingAssumption DEF Slot
    <3>2. tailReg + d \in 0 .. 4 * BUF_SIZE - 1 /\ tailReg + (d + 1) \in 0 .. 4 * BUF_SIZE - 1
      BY <1>1, RingAssumption DEF Ptr
    <3>3. /\ tailReg \in 0 .. 2 * BUF_SIZE - 1 /\ d \in Nat /\ d < BUF_SIZE
          /\ Idx(tailReg + d) + 1 < BUF_SIZE /\ BUF_SIZE \in Nat \ {0}
      <4>1. readAddr \in Nat /\ readAddr + 1 < BUF_SIZE
        BY <3>1, <1>1, <1>2, RingAssumption DEF Slot
      <4> QED BY <4>1, <3>1, <1>1, RingAssumption DEF Ptr
    <3> HIDE DEF d
    <3>4. Idx(tailReg + (d + 1)) = Idx(tailReg + d) + 1
      BY <3>2, <3>3, IdxIs
    <3> QED BY <3>4, <1>1
  <2>3. ASSUME NEW i \in 1 .. Len(dmaResp')
        PROVE  dmaResp'[i].isLast <=> (i = Len(dmaResp') /\ toRead' = 0)
    <3>1. CASE i = d + 1
      <4>1. beat.isLast <=> toRead = 1
        BY Zenon DEF beat
      <4>2. toRead = 1 <=> (i = Len(dmaResp') /\ toRead' = 0)
        BY <3>1, <1>1, <1>4
      <4>3. dmaResp'[i] = beat
        BY <3>1, <1>4
      <4> QED BY <4>1, <4>2, <4>3, Zenon
    <3>2. CASE i \in 1 .. d
      BY <3>2, <1>1, <1>4 DEF IInv, BlockInv
    <3> QED BY <3>1, <3>2, <1>1, <1>4
  <2> QED BY <2>1, <2>2, <2>3, <1>1 DEF IInv, BlockInv
<1>8. FifoIntegrity'
  <2>1. ASSUME NEW i \in 1 .. Len(queued) PROVE InTransit(i)' = InTransit(i)
    <3>1. CASE i = d + 1
      <4>1. tailReg + i - 1 = tailReg + d
        BY <3>1, <1>1 DEF Ptr
      <4>2. InTransit(i) = mem[readAddr]
        BY <3>1, <4>1, <1>1 DEF InTransit
      <4> QED BY <3>1, <4>2, <1>1, <1>4 DEF InTransit, beat
    <3>2. CASE i # d + 1
      BY <3>2, <1>1, <1>4 DEF InTransit
    <3> QED BY <3>1, <3>2
  <2> QED BY <2>1 DEF IInv, FifoIntegrity
<1> QED BY <1>5, <1>6, <1>7, <1>8 DEF IInv

\* recvDmaResp takes the oldest published descriptor and moves the tail past it.
LEMMA RecvDmaRespIInv ==
    ASSUME IInv, RecvDmaResp
    PROVE  IInv'
<1> USE DEF RecvDmaResp, swVars
<1> DEFINE d == Len(dmaResp)
           u == Dist(headReg, tailReg)
           t == PtrAdd(tailReg, 1)
<1>1. /\ tailReg \in Ptr /\ headReg \in Ptr /\ tailShadow \in Ptr /\ headReg = cachedHead
      /\ dmaResp \in Seq(Beat) /\ d \in Nat \ {0} /\ toRead \in Nat
      /\ toRead + d = Dist(tailShadow, tailReg)
      /\ Dist(tailShadow, tailReg) <= u /\ u \in Nat /\ u <= BUF_SIZE
      /\ queued \in Seq(Desc) /\ Len(queued) = u
  BY BlockTypes, RingAssumption
<1>2. t \in Ptr /\ Dist(headReg, t) = u - 1 /\ Dist(tailShadow, t) = toRead + d - 1
  BY <1>1, DistSucc
<1>3. /\ Head(dmaResp) = dmaResp[1] /\ Head(dmaResp) \in Beat
      /\ dmaResp' \in Seq(Beat) /\ Len(dmaResp') = d - 1
      /\ \A i \in 1 .. d - 1 : dmaResp'[i] = dmaResp[i + 1]
  BY <1>1
<1>4. /\ queued' \in Seq(Desc) /\ Len(queued') = u - 1
      /\ \A i \in 1 .. u - 1 : queued'[i] = queued[i + 1]
  BY <1>1
<1>5. TypeOK'
  <2>1. bufQ' \in Seq(Desc) /\ waiting' \in BOOLEAN
    BY <1>3 DEF IInv, TypeOK, Beat
  <2> QED BY <2>1, <1>2, <1>3, <1>4 DEF IInv, TypeOK
<1>6. PushInv'
  BY DEF IInv, PushInv
<1>7. NoOverrun'
  BY <1>1, <1>2, RingAssumption DEF IInv, NoOverrun, TypeOK
<1>8. BlockInv'
  <2>1. Head(dmaResp).isLast <=> (d = 1 /\ toRead = 0)
    <3>1. 1 \in 1 .. d
      BY <1>1
    <3>2. dmaResp[1].isLast <=> (1 = d /\ toRead = 0)
      BY <3>1, Zenon DEF IInv, BlockInv
    <3> QED BY <3>2, <1>3, Zenon
  <2>2. waiting' <=> (tailShadow # t)
    <3>1. (d = 1 /\ toRead = 0) <=> (tailShadow = t)
      <4>1. Dist(tailShadow, t) = 0 <=> tailShadow = t
        BY <1>1, <1>2, DistNat, ZenonT(60)
      <4>2. (d = 1 /\ toRead = 0) <=> toRead + d - 1 = 0
        <5>1. \A a \in Nat, b \in Nat \ {0} : (b = 1 /\ a = 0) <=> a + b - 1 = 0
          OBVIOUS
        <5>2. d \in Nat \ {0} /\ toRead \in Nat
          BY <1>1
        <5> QED BY <5>1, <5>2, Zenon
      <4> QED BY <4>1, <4>2, <1>2
    <3>2. waiting' = ~Head(dmaResp).isLast
      OBVIOUS
    <3> QED BY <3>1, <3>2, <2>1, Zenon
  <2>3. toRead > 0 => readAddr = Idx(t + Len(dmaResp'))
    <3>1. Idx(t + (d - 1)) = Idx(tailReg + 1 + (d - 1))
      BY <1>1, IdxShift, RingAssumption
    <3>2. tailReg + 1 + (d - 1) = tailReg + d
      BY <1>1 DEF Ptr
    <3> QED BY <3>1, <3>2, <1>3, Zenon DEF IInv, BlockInv
  <2>4. ASSUME NEW i \in 1 .. Len(dmaResp')
        PROVE  dmaResp'[i].isLast <=> (i = Len(dmaResp') /\ toRead = 0)
    <3>1. i + 1 \in 1 .. d /\ dmaResp'[i] = dmaResp[i + 1]
      BY <1>1, <1>3
    <3>2. dmaResp[i + 1].isLast <=> (i + 1 = d /\ toRead = 0)
      BY <3>1 DEF IInv, BlockInv
    <3>3. (i + 1 = d) <=> (i = Len(dmaResp'))
      BY <1>1, <1>3
    <3> QED BY <3>1, <3>2, <3>3, Zenon
  <2>5. Dist(tailShadow, t) <= Dist(headReg, t) /\ toRead + Len(dmaResp') = Dist(tailShadow, t)
    BY <1>1, <1>2, <1>3
  <2>6. toRead > 0 => readAddr + toRead <= BUF_SIZE
    BY DEF IInv, BlockInv
  <2> QED BY <2>2, <2>3, <2>4, <2>5, <2>6 DEF BlockInv
<1>9. FifoIntegrity'
  <2>1. ASSUME NEW i \in 1 .. u - 1 PROVE InTransit(i)' = InTransit(i + 1)
    <3>1. CASE i <= d - 1
      BY <3>1, <1>1, <1>3 DEF InTransit
    <3>2. CASE ~(i <= d - 1)
      <4>1. Idx(t + (i - 1)) = Idx(tailReg + 1 + (i - 1))
        BY <1>1, <2>1, IdxShift, RingAssumption
      <4>2. tailReg + 1 + (i - 1) = tailReg + (i + 1) - 1 /\ t + (i - 1) = t + i - 1
        BY <1>1, <1>2, <2>1 DEF Ptr
      <4> HIDE DEF t
      <4> QED BY <3>2, <4>1, <4>2, <1>1, <1>3, <2>1 DEF InTransit, t
    <3> QED BY <3>1, <3>2
  <2>2. ASSUME NEW i \in 1 .. u - 1 PROVE InTransit(i)' = queued'[i]
    <3>1. i + 1 \in 1 .. Len(queued)
      BY <1>1, <2>2
    <3> QED BY <3>1, <2>1, <1>4 DEF IInv, FifoIntegrity
  <2> QED BY <2>2, <1>2, <1>4, Zenon DEF FifoIntegrity
<1> QED BY <1>5, <1>6, <1>7, <1>8, <1>9 DEF IInv

\* Output only moves descriptors the card already has.
LEMMA OutputIInv ==
    ASSUME IInv, Output
    PROVE  IInv'
<1> USE DEF Output, swVars
<1>1. TypeOK'
  BY DEF IInv, TypeOK
<1>2. PushInv' /\ NoOverrun' /\ BlockInv' /\ FifoIntegrity'
  BY DEF IInv, PushInv, NoOverrun, BlockInv, FifoIntegrity, InTransit
<1> QED BY <1>1, <1>2 DEF IInv

\* The invariant is inductive: one case for each step of the driver, the DMA
\* engine and the card.
THEOREM IInvInductive == Spec => []IInv
<1>1. Init => IInv
  BY InitIInv
<1>2. IInv /\ [Next]_vars => IInv'
  <2> SUFFICES ASSUME IInv, [Next]_vars PROVE IInv'
    OBVIOUS
  <2>1. CASE UNCHANGED vars
    BY <2>1 DEF vars, IInv, TypeOK, PushInv, NoOverrun, BlockInv, FifoIntegrity, InTransit
  <2>2. CASE \E b \in Batches : CheckSpace(b)
    BY <2>2, CheckSpaceIInv
  <2>3. CASE WriteDesc
    BY <2>3, WriteDescIInv
  <2>4. CASE WriteHead
    BY <2>4, WriteHeadIInv
  <2>5. CASE WriteHeadErr
    BY <2>5, WriteHeadErrIInv
  <2>6. CASE SendDmaReq
    BY <2>6, SendDmaReqIInv
  <2>7. CASE DmaRead
    BY <2>7, DmaReadIInv
  <2>8. CASE RecvDmaResp
    BY <2>8, RecvDmaRespIInv
  <2>9. CASE Output
    BY <2>9, OutputIInv
  <2> QED BY <2>1, <2>2, <2>3, <2>4, <2>5, <2>6, <2>7, <2>8, <2>9 DEF Next
<1> QED BY <1>1, <1>2, PTL DEF Spec

\* The types hold for every ring size, block size and batch.
THEOREM TypeCorrect == Spec => []TypeOK
<1>1. IInv => TypeOK
  BY DEF IInv
<1> QED BY <1>1, IInvInductive, PTL

\* Published descriptors reach the card unaltered and in order, whatever the
\* interleaving of try_push_atomic with the card's block reads.
THEOREM FifoIntegrityHolds == Spec => []FifoIntegrity
<1>1. IInv => FifoIntegrity
  BY DEF IInv
<1> QED BY <1>1, IInvInductive, PTL

\* The driver never writes into a slot the card has not passed.
THEOREM NoOverrunHolds == Spec => []NoOverrun
<1>1. IInv => NoOverrun
  BY DEF IInv
<1> QED BY <1>1, IInvInductive, PTL

\* The assertion of recvDmaResp never fires.
THEOREM ShadowTailHolds == Spec => []ShadowTailAssert
<1>1. IInv => ShadowTailAssert
  <2> SUFFICES ASSUME IInv, dmaResp # <<>>, Head(dmaResp).isLast
               PROVE  PtrAdd(tailReg, 1) = tailShadow
    BY DEF ShadowTailAssert
  <2>1. /\ tailReg \in Ptr /\ tailShadow \in Ptr /\ dmaResp \in Seq(Beat)
        /\ Len(dmaResp) \in Nat \ {0} /\ toRead \in Nat
        /\ toRead + Len(dmaResp) = Dist(tailShadow, tailReg)
    BY BlockTypes, RingAssumption
  <2>2. 1 \in 1 .. Len(dmaResp) /\ Head(dmaResp) = dmaResp[1]
    BY <2>1
  <2>3. dmaResp[1].isLast <=> (1 = Len(dmaResp) /\ toRead = 0)
    BY <2>2, Zenon DEF IInv, BlockInv
  <2>4. 1 = Len(dmaResp) /\ toRead = 0
    BY <2>2, <2>3, Zenon
  <2>5. Dist(tailShadow, tailReg) = 1
    <3>1. toRead + Len(dmaResp) = 0 + 1
      BY <2>4, Zenon
    <3> QED BY <3>1, <2>1
  <2>6. PtrAdd(tailReg, 1) \in Ptr /\ Dist(tailShadow, PtrAdd(tailReg, 1)) = 0
    BY <2>1, <2>5, DistSucc
  <2> QED BY <2>1, <2>6, DistNat
<1> QED BY <1>1, IInvInductive, PTL

\* A block read stays inside the buffer.
THEOREM DmaInBoundsHolds == Spec => []DmaInBounds
<1>1. IInv => DmaInBounds
  BY DEF IInv, BlockInv, DmaInBounds
<1> QED BY <1>1, IInvInductive, PTL
============================================================================
