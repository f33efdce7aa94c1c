------------------------ MODULE BitmapStorageProofs ------------------------
(* The window storage for every size of the window and of the PSN space, any  *)
(* set of queue pairs, any packets and any depth of the queues: the invariant  *)
(* of the pipeline and the refinement of WindowStore.                         *)
EXTENDS BitmapStorage, AckLemmas

\* A leaf that names no prover goes to the SMT solver, then to Zenon.
USE SMTT(60), ZenonT(60)

-----------------------------------------------------------------------------
\* The empty pipeline satisfies the invariant.
LEMMA InitIInv == Init => IInv
<1> SUFFICES ASSUME Init PROVE IInv
  OBVIOUS
<1>1. TypeOK
  <2>1. /\ <<>> \in Seq([row : Row, psn : PSNS]) /\ <<>> \in Seq(Row)
        /\ <<>> \in Seq([row : Row, lost : BOOLEAN])
    OBVIOUS
  <2>2. store \in [Row -> Entry]
    BY ResetType DEF Init
  <2> QED BY <2>1, <2>2, Zenon DEF Init, TypeOK, Stage12, Stage23
<1>2. ~s12.full /\ ~s23.full
  BY DEF Init, Empty
<1> QED BY <1>1, <1>2 DEF IInv, OneInFlight, ReadIsFresh

\* What stage two hands to stage three.
LEMMA StageTwoThreeTypes ==
    ASSUME TypeOK
    PROVE  /\ s23.full \in BOOLEAN
           /\ s23.full => s23.row \in Row /\ s23.entry \in Entry
<1>1. s23 \in Stage23
  BY DEF TypeOK
<1>2. CASE s23 = Empty
  BY <1>2 DEF Empty
<1>3. CASE s23 \in [full : {TRUE}, row : Row, entry : Entry]
  BY <1>3, Zenon
<1> QED BY <1>1, <1>2, <1>3, Zenon DEF Stage23

\* What the queues between the stages hold, when they hold something.
LEMMA StageTypes ==
    ASSUME TypeOK
    PROVE  /\ s12.full \in BOOLEAN /\ s23.full \in BOOLEAN
           /\ s12.full => /\ s12.row \in Row /\ s12.reset \in BOOLEAN /\ s12.psn \in PSN
                          /\ s12.read \in Entry
           /\ s23.full => s23.row \in Row /\ s23.entry \in Entry
<1>1. s12 \in Stage12 /\ s23 \in Stage23
  BY DEF TypeOK
<1>2. CASE s12 = Empty
  BY <1>2, StageTwoThreeTypes DEF Empty
<1>3. CASE s12 \in [full : {TRUE}, row : Row, reset : BOOLEAN, psn : PSN, read : Entry]
  BY <1>3, StageTwoThreeTypes, Zenon
<1> QED BY <1>1, <1>2, <1>3, Zenon DEF Stage12

\* Nothing is between read and write-back when stage one starts an update.
LEMMA StageOneEmpty ==
    ASSUME IInv, StageOneReady
    PROVE  s12.full = FALSE /\ s23.full = FALSE
BY StageTypes DEF IInv, OneInFlight, StageOneReady

\* Requests, resets and responses outside the pipeline leave it alone.
LEMMA UsersIInv ==
    ASSUME IInv, Request \/ ResetRequest \/ TakeResponse
    PROVE  IInv'
<1>1. UNCHANGED <<busy, s12, s23, store>>
  BY Zenon DEF Request, ResetRequest, TakeResponse
<1>2. /\ reqs' \in Seq([row : Row, psn : PSNS]) /\ resets' \in Seq(Row)
      /\ resps' \in Seq([row : Row, lost : BOOLEAN])
  <2>1. CASE Request
    <3>1. PICK r \in Row, psn \in PSNS : reqs' = Append(reqs, [row |-> r, psn |-> psn])
      BY <2>1 DEF Request
    <3>2. [row |-> r, psn |-> psn] \in [row : Row, psn : PSNS]
      OBVIOUS
    <3> QED BY <2>1, <3>1, <3>2 DEF Request, IInv, TypeOK
  <2>2. CASE ResetRequest
    BY <2>2 DEF ResetRequest, IInv, TypeOK
  <2>3. CASE TakeResponse
    BY <2>3 DEF TakeResponse, IInv, TypeOK
  <2> QED BY <2>1, <2>2, <2>3
<1> QED BY <1>1, <1>2 DEF IInv, TypeOK, OneInFlight, ReadIsFresh

\* A reset enters the empty pipeline.
LEMMA StageOneResetIInv ==
    ASSUME IInv, StageOneReset
    PROVE  IInv'
<1> DEFINE x == [full |-> TRUE, row |-> Head(resets), reset |-> TRUE, psn |-> 0, read |-> ResetEntry]
<1>0. /\ StageOneReady /\ resets # <<>> /\ busy' = TRUE /\ s12' = x /\ resets' = Tail(resets)
      /\ UNCHANGED <<reqs, s23, resps, store>>
  BY DEF StageOneReset
<1>1. Head(resets) \in Row /\ resets' \in Seq(Row)
  BY <1>0 DEF IInv, TypeOK
<1>2. x \in Stage12
  BY <1>1, ResetType, Sizes DEF Stage12, PSN
<1>3. x.full /\ x.reset
  OBVIOUS
<1> HIDE DEF x
<1>4. TypeOK'
  BY <1>0, <1>1, <1>2 DEF IInv, TypeOK
<1>5. s23.full = FALSE
  BY <1>0, StageOneEmpty, Zenon
<1> QED BY <1>0, <1>3, <1>4, <1>5, Zenon DEF IInv, OneInFlight, ReadIsFresh

\* A packet enters the empty pipeline with the current entry of its queue pair.
LEMMA StageOneRequestIInv ==
    ASSUME IInv, StageOneRequest
    PROVE  IInv'
<1> DEFINE h == Head(reqs)
           x == [full |-> TRUE, row |-> h.row, reset |-> FALSE, psn |-> h.psn, read |-> store[h.row]]
<1>0. /\ StageOneReady /\ reqs # <<>> /\ busy' = TRUE /\ s12' = x /\ reqs' = Tail(reqs)
      /\ UNCHANGED <<resets, s23, resps, store>>
  BY DEF StageOneRequest
<1>1. h \in [row : Row, psn : PSNS] /\ reqs' \in Seq([row : Row, psn : PSNS])
  <2> DEFINE S == [row : Row, psn : PSNS]
  <2>1. reqs \in Seq(S)
    BY DEF IInv, TypeOK
  <2> HIDE DEF S
  <2>2. h \in S /\ reqs' \in Seq(S)
    BY <1>0, <2>1
  <2> QED BY <2>2 DEF S
<1>2. h.row \in Row /\ h.psn \in PSNS /\ h.psn \in PSN /\ store[h.row] \in Entry
  BY <1>1, StorageAssumption DEF IInv, TypeOK
<1> HIDE DEF h
<1>3. x \in Stage12
  BY <1>2 DEF Stage12
<1>4. x.full /\ x.reset = FALSE /\ x.psn \in PSNS /\ x.read = store[x.row]
  BY <1>2
<1> HIDE DEF x
<1>5. TypeOK'
  BY <1>0, <1>1, <1>3 DEF IInv, TypeOK
<1>6. s23.full = FALSE
  BY <1>0, StageOneEmpty, Zenon
<1> QED BY <1>0, <1>4, <1>5, <1>6, Zenon DEF IInv, OneInFlight, ReadIsFresh

\* Stage two hands over one merge of the entry that is still in the BRAM; a
\* stale packet leaves the pipeline.
LEMMA StageTwoIInv ==
    ASSUME IInv, StageTwo
    PROVE  IInv'
<1> DEFINE m == Merge(s12.read, s12.psn)
<1>0. s12.full /\ s12' = Empty /\ UNCHANGED <<reqs, resets, busy, store>>
  BY DEF StageTwo
<1>1. s12.row \in Row /\ s12.reset \in BOOLEAN /\ s12.psn \in PSN /\ s12.read \in Entry /\ busy
  BY <1>0, StageTypes DEF IInv, OneInFlight
<1>2. Empty \in Stage12 /\ Empty \in Stage23 /\ Empty.full = FALSE
  BY DEF Stage12, Stage23, Empty
<1>3. ~s12'.full
  BY <1>0, <1>2
<1>4. CASE s12.reset
  <2> DEFINE y == [full |-> TRUE, row |-> s12.row, entry |-> ResetEntry]
  <2>1. s23' = y /\ resps' = resps
    BY <1>4 DEF StageTwo
  <2>2. y \in Stage23 /\ y.full /\ y.entry = ResetEntry
    BY <1>1, ResetType DEF Stage23
  <2> HIDE DEF y
  <2>3. TypeOK'
    BY <1>0, <1>2, <2>1, <2>2 DEF IInv, TypeOK
  <2> QED BY <1>0, <1>1, <1>3, <2>1, <2>2, <2>3, Zenon DEF IInv, OneInFlight, ReadIsFresh
<1>5. CASE ~s12.reset
  <2> DEFINE y == [full |-> TRUE, row |-> s12.row, entry |-> m.entry]
             z == [row |-> s12.row, lost |-> m.lost]
  <2>1. resps' = Append(resps, z) /\ s23' = IF m.stale THEN Empty ELSE y
    BY <1>5 DEF StageTwo
  <2>2. m.entry \in Entry /\ m.lost \in BOOLEAN
    BY <1>1, MergeType
  <2>3. s12.psn \in PSNS /\ m.entry = Merge(store[s12.row], s12.psn).entry
    BY <1>0, <1>5 DEF IInv, OneInFlight, ReadIsFresh
  <2> HIDE DEF m
  <2>4. y \in Stage23 /\ y.full /\ y.entry = Merge(store[y.row], s12.psn).entry
    BY <1>1, <2>2, <2>3 DEF Stage23
  <2>5. z \in [row : Row, lost : BOOLEAN]
    BY <1>1, <2>2
  <2> HIDE DEF y, z
  <2>6. TypeOK'
    <3>1. resps' \in Seq([row : Row, lost : BOOLEAN])
      BY <2>1, <2>5 DEF IInv, TypeOK
    <3>2. s23' \in Stage23
      BY <1>2, <2>1, <2>4, Zenon
    <3> QED BY <1>0, <1>2, <3>1, <3>2 DEF IInv, TypeOK
  <2>7. OneInFlight'
    BY <1>0, <1>1, <1>3, Zenon DEF OneInFlight
  <2>8. ReadIsFresh'
    <3>1. s23'.full => s23' = y
      BY <1>2, <2>1, Zenon
    <3> QED BY <1>0, <1>3, <2>3, <2>4, <3>1, Zenon DEF ReadIsFresh
  <2> QED BY <2>6, <2>7, <2>8 DEF IInv
<1> QED BY <1>1, <1>4, <1>5, Zenon

\* The write-back ends the update: nothing in the pipeline has read an older entry.
LEMMA StageThreeIInv ==
    ASSUME IInv, StageThree
    PROVE  IInv'
<1>0. /\ s23.full /\ store' = [store EXCEPT ![s23.row] = s23.entry] /\ s23' = Empty
      /\ busy' = FALSE /\ UNCHANGED <<reqs, resets, s12, resps>>
  BY DEF StageThree
<1>1. s23.row \in Row /\ s23.entry \in Entry /\ ~s12.full
  BY <1>0, StageTypes DEF IInv, OneInFlight
<1>2. Empty \in Stage23 /\ Empty.full = FALSE
  BY DEF Stage23, Empty
<1>3. TypeOK'
  <2>1. store' \in [Row -> Entry]
    BY <1>0, <1>1 DEF IInv, TypeOK
  <2> QED BY <2>1, <1>0, <1>2, Zenon DEF IInv, TypeOK
<1>4. ~s12'.full /\ ~s23'.full
  BY <1>0, <1>1, <1>2, Zenon
<1> QED BY <1>3, <1>4, Zenon DEF IInv, OneInFlight, ReadIsFresh

-----------------------------------------------------------------------------
\* The invariant is inductive: one case for each rule.
THEOREM IInvInductive == Spec => []IInv
<1>1. Init => IInv
  BY InitIInv
<1>2. IInv /\ [Next]_vars => IInv'
  <2> SUFFICES ASSUME IInv, [Next]_vars PROVE IInv'
    OBVIOUS
  <2>1. CASE UNCHANGED vars
    BY <2>1 DEF vars, IInv, TypeOK, OneInFlight, ReadIsFresh
  <2>2. CASE Request \/ ResetRequest \/ TakeResponse
    BY <2>2, UsersIInv
  <2>3. CASE StageOneReset
    BY <2>3, StageOneResetIInv
  <2>4. CASE StageOneRequest
    BY <2>4, StageOneRequestIInv
  <2>5. CASE StageTwo
    BY <2>5, StageTwoIInv
  <2>6. CASE StageThree
    BY <2>6, StageThreeIInv
  <2> QED BY <2>1, <2>2, <2>3, <2>4, <2>5, <2>6 DEF Next
<1> QED BY <1>1, <1>2, PTL DEF Spec

\* The types hold for every window: in particular a merge sets no bit outside it.
THEOREM TypeCorrect == Spec => []TypeOK
<1>1. IInv => TypeOK
  BY DEF IInv
<1> QED BY <1>1, IInvInductive, PTL

\* What stage one read is current when stage two merges into it: the busy
\* register keeps a second update out of the pipeline.
THEOREM ReadIsFreshHolds == Spec => []ReadIsFresh
<1>1. IInv => ReadIsFresh
  BY DEF IInv
<1> QED BY <1>1, IInvInductive, PTL

\* The abstract store resets and merges entries as the pipeline does.
LEMMA SameWindow ==
    /\ Atomic!ResetEntry = ResetEntry
    /\ \A old, psn : Atomic!Merge(old, psn) = Merge(old, psn)
<1> USE DEF Atomic!WINDOW, Atomic!BOUND_SIZE, Atomic!PSN_SIZE, WINDOW, BOUND_SIZE, PSN_SIZE
<1>1. Atomic!ResetEntry = ResetEntry
  BY Zenon DEF Atomic!ResetEntry, ResetEntry
<1>2. ASSUME NEW old, NEW psn PROVE Atomic!Merge(old, psn) = Merge(old, psn)
  BY Zenon DEF Atomic!Merge, Merge, Atomic!OneHot, OneHot, Atomic!ShiftRight, ShiftRight,
               Atomic!ShiftedOutHole, ShiftedOutHole
<1> QED BY <1>1, <1>2

\* The pipeline implements the atomic store: only the write-back changes the
\* BRAM, and it is one merge or one reset of the entry that is there.
THEOREM AtomicUpdatesHolds == Spec => AtomicUpdates
<1>1. Init => Atomic!StoreInit
  BY SameWindow DEF Init, Atomic!StoreInit
<1>2. IInv /\ [Next]_vars => [Atomic!StoreNext]_store
  <2> SUFFICES ASSUME IInv, [Next]_vars PROVE Atomic!StoreNext \/ store' = store
    OBVIOUS
  <2>1. CASE StageThree
    <3>1. s23.full /\ store' = [store EXCEPT ![s23.row] = s23.entry]
      BY <2>1 DEF StageThree
    <3>2. s23.row \in Row
      BY <3>1, StageTypes DEF IInv
    <3>3. \/ s23.entry = ResetEntry
          \/ \E psn \in PSNS : s23.entry = Merge(store[s23.row], psn).entry
      BY <3>1 DEF IInv, ReadIsFresh
    <3> QED BY <3>1, <3>2, <3>3, SameWindow, Zenon DEF Atomic!StoreNext, Atomic!Reset, Atomic!Update
  <2>2. CASE ~StageThree
    BY <2>2, Zenon DEF Next, Request, ResetRequest, TakeResponse, StageOneReset, StageOneRequest, StageTwo, vars
  <2> QED BY <2>1, <2>2
<1> QED BY <1>1, <1>2, IInvInductive, PTL DEF Spec, AtomicUpdates, Atomic!StoreSpec
============================================================================
