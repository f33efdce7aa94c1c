------------------------- MODULE AckReceiverProofs -------------------------
(* The receiving end of a connection for every number of packets, every size  *)
(* of the window and any depth of the queues: the driver never counts a packet *)
(* that did not arrive, provided that the poller does not sample between the   *)
(* two storage updates of a packet.                                           *)
EXTENDS AckReceiver, AckLemmas

\* A leaf that names no prover goes to the SMT solver, then to Zenon.
USE SMTT(60), ZenonT(60)

\* What the constants satisfy.
LEMMA Consts == N \in Nat /\ N + WINDOW < MAX_PSN_WINDOW /\ REPORTED \subseteq 0 .. N - 1
BY ReceiverAssumption

\* A window goes on showing only packets that arrived when more arrive.
LEMMA ShowsGrows ==
    ASSUME NEW e, NEW got, NEW got2, got \subseteq got2, Shows(e, got)
    PROVE  Shows(e, got2)
BY DEF Shows

\* NoEntry is no window.
LEMMA NoEntryIsNone == NoEntry \notin EntryBelow(N)
<1>1. NoEntry.left = -1
  BY DEF NoEntry
<1> QED BY <1>1, Sizes DEF EntryBelow, Entry

\* The window of a fresh queue pair.
LEMMA ResetBelow == ResetEntry \in EntryBelow(N) /\ Shows(ResetEntry, {})
<1>1. ResetEntry.left = BOUND_SIZE - 1 /\ ResetEntry.data = 0 .. WINDOW - 1
  BY DEF ResetEntry
<1>2. WINDOW \in Nat
  BY Sizes
<1> QED BY <1>1, <1>2, ResetType DEF EntryBelow, Shows, Start

\* The initial state satisfies the invariant.
LEMMA InitIInv == Init => IInv
<1> SUFFICES ASSUME Init PROVE IInv
  OBVIOUS
<1>1. /\ rcvd = {} /\ win = ResetEntry /\ stalled = FALSE /\ resps = <<>>
      /\ meta = [hasReported |-> TRUE, fresh |-> FALSE]
      /\ polled = NoEntry /\ metaq = <<>> /\ hdrs = {} /\ local = NewLocal
  BY DEF Init
<1>2. N \in Nat /\ WINDOW \in Nat
  BY Consts, Sizes
<1>3. /\ local.t = [base |-> 0, inner |-> {}] /\ local.t.base = 0 /\ local.t.inner = {}
      /\ local.psn_pre = 0
  BY <1>1 DEF NewLocal, NewTracker
<1>4. local \in [t : Tracker(N), psn_pre : 0 .. N]
  BY <1>1, <1>2 DEF NewLocal, NewTracker, Tracker
<1>5. resps \in Seq(Resp) /\ metaq \in Seq(NakDesc \cup PollDesc)
  BY <1>1
<1>6. TypeOK
  <2>1. win \in EntryBelow(N)
    BY <1>1, ResetBelow
  <2>2. meta \in [hasReported : BOOLEAN, fresh : BOOLEAN]
    BY <1>1
  <2> QED BY <1>1, <1>4, <1>5, <2>1, <2>2, Zenon DEF TypeOK
<1>7. WindowsShow
  BY <1>1, ResetBelow DEF WindowsShow
<1>8. HolesReported
  <2>1. Start(win.left) = -WINDOW
    BY <1>1 DEF ResetEntry, Start
  <2>2. ASSUME NEW p \in (0 .. N - 1) \ rcvd PROVE ~(p < Start(win.left))
    BY <2>1, <1>2
  <2> QED BY <1>1, <2>2 DEF HolesReported
<1>9. CountsOnly(local.t, rcvd)
  BY <1>3 DEF CountsOnly
<1> QED BY <1>6, <1>7, <1>8, <1>9 DEF IInv

-----------------------------------------------------------------------------
\* More packets arrive and nothing else changes on the way to the driver.
LEMMA ArrivalKeeps ==
    ASSUME IInv, rcvd' \in SUBSET (0 .. N - 1), rcvd \subseteq rcvd',
           UNCHANGED <<polled, metaq, local>>
    PROVE  /\ polled # NoEntry => Shows(polled, rcvd')
           /\ \A i \in DOMAIN resps : Shows(resps[i].old, rcvd') /\ Shows(resps[i].new, rcvd')
           /\ \A i \in DOMAIN metaq : /\ metaq[i].nak => Shows(metaq[i].old, rcvd')
                                      /\ Shows(metaq[i].new, rcvd')
           /\ Shows(win, rcvd')
           /\ CountsOnly(local.t, rcvd')
           /\ \A p, k : Passed(p, k)' <=> Passed(p, k)
<1>1. WindowsShow /\ CountsOnly(local.t, rcvd)
  BY DEF IInv
<1>2. CountsOnly(local.t, rcvd')
  BY <1>1, Zenon DEF CountsOnly
<1>3. \A p, k : Passed(p, k)' <=> Passed(p, k)
  BY DEF Passed
<1> QED BY <1>1, <1>2, <1>3, ShowsGrows, Zenon DEF WindowsShow

\* A packet arrives: a slide over a missing packet is put into the response.
LEMMA RxPacketStep == IInv /\ RxPacket => IInv'
<1> SUFFICES ASSUME IInv, RxPacket PROVE IInv'
  OBVIOUS
<1>1. TypeOK /\ WindowsShow /\ HolesReported /\ CountsOnly(local.t, rcvd)
  BY DEF IInv
<1>2. N \in Nat /\ N + WINDOW < MAX_PSN_WINDOW
  BY Consts
<1>3. PICK psn \in 0 .. N - 1, retry \in BOOLEAN :
        /\ rcvd' = rcvd \cup {psn}
        /\ hdrs' = IF retry \/ psn \in REPORTED THEN hdrs \cup {psn} ELSE hdrs
        /\ IF stalled THEN UNCHANGED <<win, stalled, resps>>
           ELSE /\ win' = Merge(win, psn).entry /\ stalled' = Merge(win, psn).stale
                /\ resps' = Append(resps, [lost |-> Merge(win, psn).lost,
                                           old |-> Merge(win, psn).old,
                                           new |-> Merge(win, psn).new])
        /\ UNCHANGED <<meta, polled, metaq, local>>
  BY Zenon DEF RxPacket
<1>4. /\ rcvd' \in SUBSET (0 .. N - 1) /\ rcvd \subseteq rcvd' /\ hdrs' \in SUBSET rcvd'
  BY <1>1, <1>3 DEF TypeOK
<1>5. meta' = meta /\ polled' = polled /\ metaq' = metaq /\ local' = local
  BY <1>3
<1>6. /\ polled # NoEntry => Shows(polled, rcvd')
      /\ \A i \in DOMAIN resps : Shows(resps[i].old, rcvd') /\ Shows(resps[i].new, rcvd')
      /\ \A i \in DOMAIN metaq : /\ metaq[i].nak => Shows(metaq[i].old, rcvd')
                                 /\ Shows(metaq[i].new, rcvd')
      /\ Shows(win, rcvd')
      /\ CountsOnly(local.t, rcvd')
      /\ \A p, k : Passed(p, k)' <=> Passed(p, k)
  BY <1>4, <1>5, ArrivalKeeps
<1>7. CASE stalled
  <2>1. win' = win /\ stalled' = stalled /\ resps' = resps
    BY <1>3, <1>7
  <2>2. TypeOK'
    BY <1>1, <1>4, <1>5, <2>1 DEF TypeOK
  <2>3. WindowsShow'
    BY <1>5, <1>6, <2>1 DEF WindowsShow
  <2>4. \A p, k : PassedResp(p, k)' <=> PassedResp(p, k)
    BY <1>5, <1>6, <2>1 DEF PassedResp
  <2>5. HolesReported'
    BY <1>1, <1>4, <1>5, <1>6, <2>1, <2>4 DEF HolesReported
  <2> QED BY <1>5, <1>6, <2>2, <2>3, <2>5 DEF IInv
<1>8. CASE ~stalled
  <2> DEFINE m == Merge(win, psn)
             r == [lost |-> m.lost, old |-> m.old, new |-> m.new]
  <2>1. win' = m.entry /\ stalled' = m.stale /\ resps' = Append(resps, r)
    BY <1>3, <1>8
  <2>2. win \in EntryBelow(N) /\ Shows(win, rcvd) /\ rcvd \in SUBSET (0 .. N - 1)
        /\ resps \in Seq(Resp)
    BY <1>1 DEF TypeOK, WindowsShow
  <2>3. /\ m.stale \in BOOLEAN /\ m.lost \in BOOLEAN /\ m.old = win
        /\ m.entry \in EntryBelow(N) /\ Shows(m.entry, rcvd')
        /\ m.new \in EntryBelow(N) /\ Shows(m.new, rcvd')
        /\ m.lost => m.new = m.entry
        /\ ~m.lost => \A p \in (0 .. N - 1) \ rcvd' :
                        p < Start(m.entry.left) => p < Start(win.left)
    BY <1>2, <1>3, <2>2, MergeSound, ZenonT(60)
  <2> HIDE DEF m
  <2>4. r \in Resp /\ r.lost = m.lost /\ r.old = win /\ r.new = m.new
    BY <2>2, <2>3 DEF Resp
  <2> HIDE DEF r
  <2> PICK L \in Nat : L = Len(resps)
    BY <2>2
  <2>5. /\ resps' \in Seq(Resp) /\ Len(resps') = L + 1 /\ L \in Nat
        /\ DOMAIN resps' = 1 .. L + 1 /\ DOMAIN resps = 1 .. L
        /\ \A i \in 1 .. L : resps'[i] = resps[i]
        /\ resps'[L + 1] = r
    BY <2>1, <2>2, <2>4
  <2>6. TypeOK'
    BY <1>1, <1>4, <1>5, <2>1, <2>3, <2>5 DEF TypeOK
  <2>7. WindowsShow'
    <3>1. ASSUME NEW i \in 1 .. L + 1
          PROVE  Shows(resps'[i].old, rcvd') /\ Shows(resps'[i].new, rcvd')
      <4>1. CASE i \in 1 .. L
        BY <4>1, <1>6, <2>5
      <4>2. CASE i = L + 1
        BY <4>2, <1>6, <2>3, <2>4, <2>5
      <4> QED BY <4>1, <4>2, <2>5
    <3> QED BY <1>5, <1>6, <2>1, <2>3, <2>5, <3>1 DEF WindowsShow
  <2>8. HolesReported'
    <3>1. SUFFICES ASSUME NEW p \in (0 .. N - 1) \ rcvd'
                   PROVE  /\ \A i \in DOMAIN metaq' : p < From(metaq'[i]) => Passed(p, i - 1)'
                          /\ \A i \in DOMAIN resps' :
                               p < Start(resps'[i].old.left) => PassedResp(p, i - 1)'
                          /\ polled' # NoEntry /\ p < Start(polled'.left) => Passed(p, Len(metaq))'
                          /\ p < Start(win'.left) => PassedResp(p, Len(resps))'
      BY DEF HolesReported
    <3>2. /\ \A i \in DOMAIN metaq : p < From(metaq[i]) => Passed(p, i - 1)
          /\ \A i \in DOMAIN resps : p < Start(resps[i].old.left) => PassedResp(p, i - 1)
          /\ polled # NoEntry /\ p < Start(polled.left) => Passed(p, Len(metaq))
          /\ p < Start(win.left) => PassedResp(p, L)
      BY <1>1, <1>4 DEF HolesReported
    <3>3. ASSUME NEW k \in 0 .. L PROVE PassedResp(p, k) => PassedResp(p, k)'
      BY <1>5, <1>6, <2>5 DEF PassedResp
    <3>4. PassedResp(p, L) => PassedResp(p, L + 1)'
      <4>1. PassedResp(p, L) => PassedResp(p, L)'
        BY <3>3, <2>5
      <4>2. PassedResp(p, L)' => PassedResp(p, L + 1)'
        BY <2>5 DEF PassedResp
      <4> QED BY <4>1, <4>2
    <3>5. ASSUME NEW i \in 1 .. L + 1, p < Start(resps'[i].old.left)
          PROVE  PassedResp(p, i - 1)'
      <4>1. CASE i \in 1 .. L
        <5>1. PassedResp(p, i - 1) /\ i - 1 \in 0 .. L
          BY <4>1, <3>2, <3>5, <2>5
        <5> QED BY <5>1, <3>3
      <4>2. CASE i = L + 1
        <5>1. PassedResp(p, L) /\ i - 1 = L /\ L \in 0 .. L
          BY <4>2, <3>2, <3>5, <2>4, <2>5
        <5> QED BY <5>1, <3>3
      <4> QED BY <4>1, <4>2, <2>5
    <3>6. p < Start(win'.left) => PassedResp(p, L + 1)'
      <4>1. CASE m.lost
        <5>1. L + 1 \in 1 .. L + 1 /\ resps'[L + 1].lost
          <6>1. L + 1 \in 1 .. L + 1
            OBVIOUS
          <6>2. resps'[L + 1].lost
            BY <4>1, <2>4, <2>5, Zenon
          <6> QED BY <6>1, <6>2
        <5>2. resps'[L + 1].new = win'
          BY <4>1, <2>1, <2>3, <2>4, <2>5
        <5> QED BY <5>1, <5>2 DEF PassedResp
      <4>2. CASE ~m.lost
        BY <4>2, <2>1, <2>3, <3>2, <3>4
      <4> QED BY <4>1, <4>2
    <3> QED BY <1>5, <1>6, <2>5, <3>2, <3>5, <3>6
  <2> QED BY <1>5, <1>6, <2>6, <2>7, <2>8 DEF IInv
<1> QED BY <1>7, <1>8
-----------------------------------------------------------------------------
\* The ack meta takes a response: a loss goes into the report ring.
LEMMA UpdateAckMetaStep == IInv /\ UpdateAckMeta => IInv'
<1> SUFFICES ASSUME IInv, UpdateAckMeta PROVE IInv'
  OBVIOUS
<1>1. TypeOK /\ WindowsShow /\ HolesReported /\ CountsOnly(local.t, rcvd)
  BY DEF IInv
<1>2. /\ resps # <<>> /\ resps' = Tail(resps)
      /\ meta' = [hasReported |-> Head(resps).lost, fresh |-> TRUE]
      /\ IF Head(resps).lost
         THEN metaq' = Append(metaq, [nak |-> TRUE, old |-> Head(resps).old, new |-> Head(resps).new])
         ELSE metaq' = metaq
      /\ rcvd' = rcvd /\ win' = win /\ stalled' = stalled /\ polled' = polled
      /\ hdrs' = hdrs /\ local' = local
  BY DEF UpdateAckMeta
<1>3. resps \in Seq(Resp) /\ metaq \in Seq(NakDesc \cup PollDesc)
  BY <1>1 DEF TypeOK
<1> PICK L \in Nat : L = Len(resps) /\ L > 0
  BY <1>2, <1>3
<1> PICK M \in Nat : M = Len(metaq)
  BY <1>3
<1>4. /\ resps' \in Seq(Resp) /\ Len(resps') = L - 1
      /\ DOMAIN resps = 1 .. L /\ DOMAIN resps' = 1 .. L - 1
      /\ \A i \in 1 .. L - 1 : resps'[i] = resps[i + 1]
      /\ Head(resps) = resps[1] /\ resps[1] \in Resp
  BY <1>2, <1>3
<1>5. /\ resps[1].lost \in BOOLEAN /\ resps[1].old \in EntryBelow(N)
      /\ resps[1].new \in EntryBelow(N)
  BY <1>4 DEF Resp
<1>6. meta' \in [hasReported : BOOLEAN, fresh : BOOLEAN]
  BY <1>2, <1>4, <1>5
<1>7. \A i \in DOMAIN resps' : Shows(resps'[i].old, rcvd) /\ Shows(resps'[i].new, rcvd)
  BY <1>1, <1>4 DEF WindowsShow
<1>8. DOMAIN metaq = 1 .. M
  BY <1>3
<1>9. CASE resps[1].lost
  <2> DEFINE d == [nak |-> TRUE, old |-> resps[1].old, new |-> resps[1].new]
  <2>1. metaq' = Append(metaq, d)
    BY <1>2, <1>4, <1>9, Zenon
  <2>2. d \in NakDesc /\ d.nak /\ d.old = resps[1].old /\ d.new = resps[1].new
    BY <1>5 DEF NakDesc
  <2> HIDE DEF d
  <2>3. d \in NakDesc \cup PollDesc
    BY <2>2
  <2> DEFINE D == NakDesc \cup PollDesc
  <2> HIDE DEF D
  <2>4. /\ metaq' \in Seq(D) /\ Len(metaq') = M + 1
        /\ DOMAIN metaq' = 1 .. M + 1
        /\ \A i \in 1 .. M : metaq'[i] = metaq[i]
        /\ metaq'[M + 1] = d
    <3>1. metaq \in Seq(D) /\ d \in D
      BY <1>3, <2>3 DEF D
    <3> QED BY <2>1, <3>1
  <2>5. TypeOK'
    BY <1>1, <1>2, <1>4, <1>6, <2>4 DEF TypeOK, D
  <2>6. WindowsShow'
    <3>1. ASSUME NEW i \in 1 .. M + 1
          PROVE  (metaq'[i].nak => Shows(metaq'[i].old, rcvd)) /\ Shows(metaq'[i].new, rcvd)
      <4>1. CASE i \in 1 .. M
        BY <4>1, <1>1, <1>8, <2>4 DEF WindowsShow
      <4>2. CASE i = M + 1
        <5>1. 1 \in DOMAIN resps
          BY <1>4
        <5>2. Shows(resps[1].old, rcvd) /\ Shows(resps[1].new, rcvd)
          BY <1>1, <5>1, Zenon DEF WindowsShow
        <5> QED BY <4>2, <5>2, <2>2, <2>4, Zenon
      <4> QED BY <4>1, <4>2
    <3> QED BY <1>1, <1>2, <1>7, <2>4, <3>1 DEF WindowsShow
  <2>7. HolesReported'
    <3>1. SUFFICES ASSUME NEW p \in (0 .. N - 1) \ rcvd
                   PROVE  /\ \A i \in DOMAIN metaq' : p < From(metaq'[i]) => Passed(p, i - 1)'
                          /\ \A i \in DOMAIN resps' :
                               p < Start(resps'[i].old.left) => PassedResp(p, i - 1)'
                          /\ polled' # NoEntry /\ p < Start(polled'.left) => Passed(p, Len(metaq))'
                          /\ p < Start(win'.left) => PassedResp(p, Len(resps))'
      BY <1>2 DEF HolesReported
    <3>2. /\ \A i \in 1 .. M : p < From(metaq[i]) => Passed(p, i - 1)
          /\ \A i \in 1 .. L : p < Start(resps[i].old.left) => PassedResp(p, i - 1)
          /\ polled # NoEntry /\ p < Start(polled.left) => Passed(p, M)
          /\ p < Start(win.left) => PassedResp(p, L)
      BY <1>1, <1>4, <1>8, Zenon DEF HolesReported
    <3>3. ASSUME NEW k \in 0 .. M PROVE Passed(p, k) => Passed(p, k)'
      BY <1>2, <2>4 DEF Passed
    <3>4. Passed(p, M) => Passed(p, M + 1)'
      <4>1. Passed(p, M) => Passed(p, M)'
        BY <3>3
      <4>2. Passed(p, M)' => Passed(p, M + 1)'
        BY DEF Passed
      <4> QED BY <4>1, <4>2
    <3>5. p < Start(resps[1].new.left) => Passed(p, M + 1)'
      <4>1. M + 1 \in 1 .. M + 1 /\ metaq'[M + 1].nak /\ metaq'[M + 1].new = resps[1].new
        BY <2>2, <2>4
      <4> QED BY <4>1 DEF Passed
    <3>6. ASSUME NEW k \in 1 .. L, PassedResp(p, k) PROVE PassedResp(p, k - 1)'
      <4>1. Passed(p, M) \/ \E i \in 1 .. k : resps[i].lost /\ p < Start(resps[i].new.left)
        BY <3>6 DEF PassedResp
      <4>2. CASE Passed(p, M + 1)'
        BY <4>2, <2>4 DEF PassedResp
      <4>3. ASSUME NEW i \in 1 .. k, i # 1, resps[i].lost /\ p < Start(resps[i].new.left)
            PROVE  PassedResp(p, k - 1)'
        <5>1. i - 1 \in 1 .. k - 1 /\ resps'[i - 1] = resps[i]
          BY <4>3, <1>4
        <5> QED BY <5>1, <4>3 DEF PassedResp
      <4> QED BY <3>4, <3>5, <4>1, <4>2, <4>3
    <3>7. ASSUME NEW i \in 1 .. M + 1, p < From(metaq'[i]) PROVE Passed(p, i - 1)'
      <4>1. CASE i \in 1 .. M
        <5>1. Passed(p, i - 1) /\ i - 1 \in 0 .. M
          BY <4>1, <3>2, <3>7, <2>4
        <5> QED BY <5>1, <3>3
      <4>2. CASE i = M + 1
        <5>1. From(metaq'[i]) = Start(resps[1].old.left)
          BY <4>2, <2>2, <2>4 DEF From
        <5>2. PassedResp(p, 0)
          BY <5>1, <3>2, <3>7
        <5>3. Passed(p, M)
          BY <5>2 DEF PassedResp
        <5> QED BY <5>3, <3>3, <4>2
      <4> QED BY <4>1, <4>2
    <3>8. ASSUME NEW i \in 1 .. L - 1, p < Start(resps'[i].old.left)
          PROVE  PassedResp(p, i - 1)'
      <4>1. i + 1 \in 1 .. L /\ resps'[i] = resps[i + 1] /\ (i + 1) - 1 = i /\ i \in 1 .. L
        BY <1>4, <3>8
      <4>2. PassedResp(p, i)
        BY <4>1, <3>2, <3>8
      <4> QED BY <4>1, <4>2, <3>6
    <3>9. p < Start(win'.left) => PassedResp(p, Len(resps))'
      <4>1. p < Start(win.left) => PassedResp(p, L - 1)'
        BY <3>2, <3>6
      <4> QED BY <4>1, <1>2, <1>4
    <3> QED BY <1>2, <1>4, <2>4, <3>2, <3>4, <3>7, <3>8, <3>9
  <2> QED BY <1>1, <1>2, <2>5, <2>6, <2>7 DEF IInv
<1>10. CASE ~resps[1].lost
  <2>1. metaq' = metaq
    BY <1>2, <1>4, <1>10
  <2>2. TypeOK'
    BY <1>1, <1>2, <1>4, <1>6, <2>1 DEF TypeOK
  <2>3. WindowsShow'
    BY <1>1, <1>2, <1>7, <2>1 DEF WindowsShow
  <2>4. HolesReported'
    <3>1. \A p, k : Passed(p, k)' <=> Passed(p, k)
      BY <1>2, <2>1 DEF Passed
    <3>2. ASSUME NEW p, NEW k \in 1 .. L, PassedResp(p, k) PROVE PassedResp(p, k - 1)'
      <4>1. Passed(p, M) \/ \E i \in 1 .. k : resps[i].lost /\ p < Start(resps[i].new.left)
        BY <3>2 DEF PassedResp
      <4>2. CASE Passed(p, M)
        BY <4>2, <3>1, <2>1 DEF PassedResp
      <4>3. ASSUME NEW i \in 1 .. k, resps[i].lost /\ p < Start(resps[i].new.left)
            PROVE  PassedResp(p, k - 1)'
        <5>1. i # 1
          BY <4>3, <1>10
        <5>2. i - 1 \in 1 .. k - 1 /\ resps'[i - 1] = resps[i]
          BY <5>1, <4>3, <1>4
        <5> QED BY <5>2, <4>3 DEF PassedResp
      <4> QED BY <4>1, <4>2, <4>3
    <3>3. SUFFICES ASSUME NEW p \in (0 .. N - 1) \ rcvd
                   PROVE  /\ \A i \in DOMAIN resps' :
                               p < Start(resps'[i].old.left) => PassedResp(p, i - 1)'
                          /\ p < Start(win'.left) => PassedResp(p, Len(resps))'
      BY <1>1, <1>2, <2>1, <3>1 DEF HolesReported
    <3>4. /\ \A i \in 1 .. L : p < Start(resps[i].old.left) => PassedResp(p, i - 1)
          /\ p < Start(win.left) => PassedResp(p, L)
      BY <1>1, <1>4, Zenon DEF HolesReported
    <3>5. ASSUME NEW i \in 1 .. L - 1, p < Start(resps'[i].old.left)
          PROVE  PassedResp(p, i - 1)'
      <4>1. i + 1 \in 1 .. L /\ resps'[i] = resps[i + 1] /\ (i + 1) - 1 = i /\ i \in 1 .. L
        BY <1>4, <3>5
      <4>2. PassedResp(p, i)
        BY <4>1, <3>4, <3>5
      <4> QED BY <4>1, <4>2, <3>2
    <3>6. p < Start(win'.left) => PassedResp(p, Len(resps))'
      <4>1. p < Start(win.left) => PassedResp(p, L - 1)'
        BY <3>2, <3>4
      <4> QED BY <4>1, <1>2, <1>4
    <3> QED BY <1>4, <3>5, <3>6
  <2> QED BY <1>1, <1>2, <2>2, <2>3, <2>4 DEF IInv
<1> QED BY <1>9, <1>10
-----------------------------------------------------------------------------
\* The poller samples the window when no response is under way.
LEMMA PollWindowStep ==
    ASSUME ~POLL_IN_GAP
    PROVE  IInv /\ PollWindow => IInv'
<1> SUFFICES ASSUME IInv, PollWindow PROVE IInv'
  OBVIOUS
<1>1. TypeOK /\ WindowsShow /\ HolesReported /\ CountsOnly(local.t, rcvd)
  BY DEF IInv
<1>2. /\ polled = NoEntry /\ resps = <<>> /\ meta' = [meta EXCEPT !.fresh = FALSE]
      /\ polled' = IF meta.hasReported THEN NoEntry ELSE win
      /\ rcvd' = rcvd /\ win' = win /\ stalled' = stalled /\ resps' = resps
      /\ metaq' = metaq /\ hdrs' = hdrs /\ local' = local
  BY DEF PollWindow
<1>3. /\ meta' \in [hasReported : BOOLEAN, fresh : BOOLEAN]
      /\ polled' \in EntryBelow(N) \cup {NoEntry}
  BY <1>1, <1>2, Zenon DEF TypeOK
<1>4. TypeOK'
  BY <1>1, <1>2, <1>3 DEF TypeOK
<1>5. polled' # NoEntry => polled' = win
  BY <1>2
<1>6. WindowsShow'
  BY <1>1, <1>2, <1>5 DEF WindowsShow
<1>7. /\ \A p, k : Passed(p, k)' <=> Passed(p, k)
      /\ \A p, k : PassedResp(p, k)' <=> PassedResp(p, k)
  <2>1. \A p, k : Passed(p, k)' <=> Passed(p, k)
    BY <1>2 DEF Passed
  <2> QED BY <2>1, <1>2 DEF PassedResp
<1>8. ASSUME NEW p \in (0 .. N - 1) \ rcvd, p < Start(win.left) PROVE Passed(p, Len(metaq))
  <2>1. Len(resps) = 0
    BY <1>2
  <2>2. PassedResp(p, 0)
    BY <1>1, <1>8, <2>1 DEF HolesReported
  <2> QED BY <2>2 DEF PassedResp
<1>9. HolesReported'
  BY <1>1, <1>2, <1>5, <1>7, <1>8 DEF HolesReported
<1> QED BY <1>1, <1>2, <1>4, <1>6, <1>9 DEF IInv

\* The report of the poller goes into the report ring.
LEMMA ForwardPollStep == IInv /\ ForwardPoll => IInv'
<1> SUFFICES ASSUME IInv, ForwardPoll PROVE IInv'
  OBVIOUS
<1>1. TypeOK /\ WindowsShow /\ HolesReported /\ CountsOnly(local.t, rcvd)
  BY DEF IInv
<1> DEFINE d == [nak |-> FALSE, old |-> NoEntry, new |-> polled]
<1>2. /\ polled # NoEntry /\ metaq' = Append(metaq, d) /\ polled' = NoEntry
      /\ rcvd' = rcvd /\ win' = win /\ stalled' = stalled /\ resps' = resps
      /\ meta' = meta /\ hdrs' = hdrs /\ local' = local
  BY DEF ForwardPoll
<1>3. metaq \in Seq(NakDesc \cup PollDesc) /\ polled \in EntryBelow(N)
  BY <1>1, <1>2 DEF TypeOK
<1>4. d \in NakDesc \cup PollDesc /\ d.nak = FALSE /\ d.new = polled
  BY <1>3 DEF PollDesc
<1> HIDE DEF d
<1> PICK M \in Nat : M = Len(metaq)
  BY <1>3
<1> DEFINE D == NakDesc \cup PollDesc
<1> HIDE DEF D
<1>5. /\ metaq' \in Seq(D) /\ Len(metaq') = M + 1
      /\ DOMAIN metaq' = 1 .. M + 1 /\ DOMAIN metaq = 1 .. M
      /\ \A i \in 1 .. M : metaq'[i] = metaq[i]
      /\ metaq'[M + 1] = d
  <2>1. metaq \in Seq(D) /\ d \in D
    BY <1>3, <1>4 DEF D
  <2> QED BY <1>2, <2>1
<1>6. TypeOK'
  BY <1>1, <1>2, <1>5 DEF TypeOK, D
<1>7. WindowsShow'
  <2>1. ASSUME NEW i \in 1 .. M + 1
        PROVE  (metaq'[i].nak => Shows(metaq'[i].old, rcvd)) /\ Shows(metaq'[i].new, rcvd)
    <3>1. CASE i \in 1 .. M
      BY <3>1, <1>1, <1>5 DEF WindowsShow
    <3>2. CASE i = M + 1
      BY <3>2, <1>1, <1>2, <1>4, <1>5 DEF WindowsShow
    <3> QED BY <3>1, <3>2
  <2> QED BY <1>1, <1>2, <1>5, <2>1 DEF WindowsShow
<1>8. HolesReported'
  <2>1. SUFFICES ASSUME NEW p \in (0 .. N - 1) \ rcvd
                 PROVE  /\ \A i \in DOMAIN metaq' : p < From(metaq'[i]) => Passed(p, i - 1)'
                        /\ \A i \in DOMAIN resps :
                             p < Start(resps[i].old.left) => PassedResp(p, i - 1)'
                        /\ p < Start(win.left) => PassedResp(p, Len(resps))'
    BY <1>2 DEF HolesReported
  <2>2. /\ \A i \in 1 .. M : p < From(metaq[i]) => Passed(p, i - 1)
        /\ \A i \in DOMAIN resps : p < Start(resps[i].old.left) => PassedResp(p, i - 1)
        /\ p < Start(polled.left) => Passed(p, M)
        /\ p < Start(win.left) => PassedResp(p, Len(resps))
    BY <1>1, <1>2, <1>5 DEF HolesReported
  <2>3. ASSUME NEW k \in 0 .. M PROVE Passed(p, k) => Passed(p, k)'
    BY <1>2, <1>5 DEF Passed
  <2>4. Passed(p, M) => Passed(p, M + 1)'
    <3>1. Passed(p, M) => Passed(p, M)'
      BY <2>3
    <3>2. Passed(p, M)' => Passed(p, M + 1)'
      BY DEF Passed
    <3> QED BY <3>1, <3>2
  <2>5. ASSUME NEW k PROVE PassedResp(p, k) => PassedResp(p, k)'
    BY <1>2, <1>5, <2>4 DEF PassedResp
  <2>6. ASSUME NEW i \in 1 .. M + 1, p < From(metaq'[i]) PROVE Passed(p, i - 1)'
    <3>1. CASE i \in 1 .. M
      <4>1. Passed(p, i - 1) /\ i - 1 \in 0 .. M
        BY <3>1, <2>2, <2>6, <1>5
      <4> QED BY <4>1, <2>3
    <3>2. CASE i = M + 1
      <4>1. From(metaq'[i]) = Start(polled.left)
        BY <3>2, <1>4, <1>5 DEF From
      <4>2. Passed(p, M)
        BY <4>1, <2>2, <2>6
      <4> QED BY <4>2, <2>3, <3>2
    <3> QED BY <3>1, <3>2
  <2>7. p < Start(win.left) => PassedResp(p, Len(resps))'
    <3> PICK L : L = Len(resps)
      OBVIOUS
    <3>1. p < Start(win.left) => PassedResp(p, L)'
      BY <2>2, <2>5
    <3> QED BY <3>1, <1>2
  <2> QED BY <1>5, <2>2, <2>5, <2>6, <2>7
<1> QED BY <1>1, <1>2, <1>6, <1>7, <1>8 DEF IInv
-----------------------------------------------------------------------------
\* The driver takes a report: the range it infers holds no missing packet.
LEMMA HandleLocalHwStep == IInv /\ HandleLocalHw => IInv'
<1> SUFFICES ASSUME IInv, HandleLocalHw PROVE IInv'
  OBVIOUS
<1>1. TypeOK /\ WindowsShow /\ HolesReported /\ CountsOnly(local.t, rcvd)
  BY DEF IInv
<1>2. /\ metaq # <<>> /\ metaq' = Tail(metaq)
      /\ local' = IF Head(metaq).nak
                  THEN LocalNakBitmap(local, RemapPsn(Head(metaq).old.left), Head(metaq).old.data,
                                      RemapPsn(Head(metaq).new.left), Head(metaq).new.data).l
                  ELSE LocalAckBitmap(local, RemapPsn(Head(metaq).new.left), Head(metaq).new.data).l
      /\ rcvd' = rcvd /\ win' = win /\ stalled' = stalled /\ resps' = resps
      /\ meta' = meta /\ polled' = polled /\ hdrs' = hdrs
  BY DEF HandleLocalHw
<1>3. N \in Nat /\ N + WINDOW < MAX_PSN_WINDOW /\ rcvd \in SUBSET (0 .. N - 1)
      /\ metaq \in Seq(NakDesc \cup PollDesc)
      /\ local \in [t : Tracker(N), psn_pre : 0 .. N]
  BY <1>1, Consts DEF TypeOK
<1>4. Sound(local.t, N, rcvd) /\ local.psn_pre \in 0 .. N
  BY <1>1, <1>3 DEF Sound
<1> PICK M \in Nat : M = Len(metaq) /\ M > 0
  BY <1>2, <1>3
<1> DEFINE D == NakDesc \cup PollDesc
           d == metaq[1]
<1> HIDE DEF D
<1>5. /\ metaq' \in Seq(D) /\ Len(metaq') = M - 1
      /\ DOMAIN metaq = 1 .. M /\ DOMAIN metaq' = 1 .. M - 1
      /\ \A i \in 1 .. M - 1 : metaq'[i] = metaq[i + 1]
      /\ Head(metaq) = d /\ d \in D /\ 1 \in 1 .. M
  <2>1. metaq \in Seq(D)
    BY <1>3 DEF D
  <2> QED BY <1>2, <2>1
<1>6. (d.nak => Shows(d.old, rcvd)) /\ Shows(d.new, rcvd)
  BY <1>1, <1>5 DEF WindowsShow
<1>7. ASSUME NEW p \in 0 .. N - 1, local.psn_pre <= p, p < From(d) PROVE p \in rcvd
  <2>1. SUFFICES ASSUME p \notin rcvd PROVE FALSE
    OBVIOUS
  <2>2. Passed(p, 0)
    BY <1>1, <1>5, <1>7, <2>1 DEF HolesReported
  <2>3. p < local.psn_pre
    BY <2>2 DEF Passed
  <2> QED BY <2>3, <1>4, <1>7
<1>8. /\ Sound(local'.t, N, rcvd) /\ local' \in [t : Tracker(N), psn_pre : 0 .. N]
      /\ local.psn_pre <= local'.psn_pre
      /\ Start(d.new.left) <= local'.psn_pre
      /\ Start(d.new.left) \in Int
  <2>1. CASE d \in NakDesc
    <3>1. d.nak = TRUE /\ d.old \in EntryBelow(N) /\ d.new \in EntryBelow(N)
      BY <2>1, ZenonT(60) DEF NakDesc
    <3> DEFINE r == LocalNakBitmap(local, RemapPsn(d.old.left), d.old.data,
                                   RemapPsn(d.new.left), d.new.data).l
    <3>2. From(d) = Start(d.old.left)
      BY <3>1 DEF From
    <3>3. local' = r
      BY <1>2, <1>5, <3>1, Zenon
    <3>4. /\ Sound(r.t, N, rcvd) /\ r \in [t : Tracker(N), psn_pre : 0 .. N]
          /\ local.psn_pre <= r.psn_pre /\ Start(d.new.left) <= r.psn_pre
      <4> HIDE DEF d
      <4>1. \A p \in 0 .. N - 1 : local.psn_pre <= p /\ p < Start(d.old.left) => p \in rcvd
        BY <1>7, <3>2
      <4>2. Shows(d.old, rcvd) /\ Shows(d.new, rcvd)
        BY <1>6, <3>1
      <4> QED BY <1>3, <1>4, <3>1, <4>1, <4>2, LocalNakBitmapSound, ZenonT(60)
    <3>5. Start(d.new.left) \in Int
      BY <1>3, <3>1, SlotFacts
    <3> QED BY <3>3, <3>4, <3>5, Zenon
  <2>2. CASE d \in PollDesc
    <3>1. d.nak = FALSE /\ d.new \in EntryBelow(N)
      BY <2>2, Zenon DEF PollDesc
    <3> DEFINE r == LocalAckBitmap(local, RemapPsn(d.new.left), d.new.data).l
    <3>2. From(d) = Start(d.new.left)
      BY <3>1 DEF From
    <3>3. local' = r
      BY <1>2, <1>5, <3>1
    <3>4. /\ Sound(r.t, N, rcvd) /\ r \in [t : Tracker(N), psn_pre : 0 .. N]
          /\ local.psn_pre <= r.psn_pre /\ Start(d.new.left) <= r.psn_pre
      <4> HIDE DEF d
      <4>1. \A p \in 0 .. N - 1 : local.psn_pre <= p /\ p < Start(d.new.left) => p \in rcvd
        BY <1>7, <3>2
      <4> QED BY <1>3, <1>4, <1>6, <3>1, <4>1, LocalAckBitmapSound
    <3>5. Start(d.new.left) \in Int
      BY <1>3, <3>1, SlotFacts
    <3> QED BY <3>3, <3>4, <3>5, Zenon
  <2> QED BY <1>5, <2>1, <2>2 DEF D
<1>9. TypeOK'
  BY <1>1, <1>2, <1>5, <1>8, ZenonT(60) DEF TypeOK, D
<1>10. WindowsShow'
  <2>1. ASSUME NEW i \in 1 .. M - 1
        PROVE  (metaq'[i].nak => Shows(metaq'[i].old, rcvd)) /\ Shows(metaq'[i].new, rcvd)
    BY <1>1, <1>5 DEF WindowsShow
  <2> QED BY <1>1, <1>2, <1>5, <2>1 DEF WindowsShow
<1>11. HolesReported'
  <2>1. SUFFICES ASSUME NEW p \in (0 .. N - 1) \ rcvd
                 PROVE  /\ \A i \in DOMAIN metaq' : p < From(metaq'[i]) => Passed(p, i - 1)'
                        /\ \A i \in DOMAIN resps :
                             p < Start(resps[i].old.left) => PassedResp(p, i - 1)'
                        /\ polled # NoEntry /\ p < Start(polled.left) => Passed(p, Len(metaq))'
                        /\ p < Start(win.left) => PassedResp(p, Len(resps))'
    BY <1>2 DEF HolesReported
  <2>2. /\ \A i \in 1 .. M : p < From(metaq[i]) => Passed(p, i - 1)
        /\ \A i \in DOMAIN resps : p < Start(resps[i].old.left) => PassedResp(p, i - 1)
        /\ polled # NoEntry /\ p < Start(polled.left) => Passed(p, M)
        /\ p < Start(win.left) => PassedResp(p, Len(resps))
    BY <1>1, <1>5, Zenon DEF HolesReported
  <2>3. ASSUME NEW k \in 1 .. M, Passed(p, k) PROVE Passed(p, k - 1)'
    <3>1. local.psn_pre \in Int /\ local'.psn_pre \in Int /\ p \in Int
      BY <1>3, <1>8
    <3>2. \/ p < local.psn_pre
          \/ \E i \in 1 .. k : metaq[i].nak /\ p < Start(metaq[i].new.left)
      BY <2>3 DEF Passed
    <3>3. CASE p < local'.psn_pre
      BY <3>3 DEF Passed
    <3>4. ASSUME NEW i \in 1 .. k, i # 1, metaq[i].nak, p < Start(metaq[i].new.left)
          PROVE  Passed(p, k - 1)'
      <4>1. i - 1 \in 1 .. k - 1 /\ metaq'[i - 1] = metaq[i]
        BY <3>4, <1>5
      <4> QED BY <4>1, <3>4 DEF Passed
    <3>5. CASE p < local.psn_pre
      BY <3>1, <3>3, <3>5, <1>8
    <3>6. CASE p < Start(d.new.left)
      BY <3>1, <3>3, <3>6, <1>8
    <3> QED BY <3>2, <3>4, <3>5, <3>6
  <2>4. ASSUME NEW k PROVE PassedResp(p, k) => PassedResp(p, k)'
    <3>1. Passed(p, M) => Passed(p, M - 1)'
      BY <2>3
    <3> QED BY <3>1, <1>2, <1>5 DEF PassedResp
  <2>5. ASSUME NEW i \in 1 .. M - 1, p < From(metaq'[i]) PROVE Passed(p, i - 1)'
    <3>1. i + 1 \in 1 .. M /\ metaq'[i] = metaq[i + 1] /\ (i + 1) - 1 = i /\ i \in 1 .. M
      BY <1>5, <2>5
    <3>2. Passed(p, i)
      BY <3>1, <2>2, <2>5
    <3> QED BY <3>1, <3>2, <2>3
  <2>6. p < Start(win.left) => PassedResp(p, Len(resps))'
    <3> PICK L : L = Len(resps)
      OBVIOUS
    <3>1. p < Start(win.left) => PassedResp(p, L)'
      BY <2>2, <2>4
    <3> QED BY <3>1, <1>2
  <2>7. polled # NoEntry /\ p < Start(polled.left) => Passed(p, Len(metaq))'
    <3>1. Passed(p, M) => Passed(p, M - 1)'
      BY <2>3
    <3> QED BY <3>1, <2>2, <1>5
  <2> QED BY <1>5, <2>2, <2>4, <2>5, <2>6, <2>7
<1>12. CountsOnly(local.t, rcvd)'
  BY <1>2, <1>8, Zenon DEF Sound
<1> QED BY <1>9, <1>10, <1>11, <1>12 DEF IInv

\* The driver takes a header: its packet has arrived.
LEMMA HandleHeaderStep == IInv /\ HandleHeader => IInv'
<1> SUFFICES ASSUME IInv, HandleHeader PROVE IInv'
  OBVIOUS
<1>1. TypeOK /\ WindowsShow /\ HolesReported /\ CountsOnly(local.t, rcvd)
  BY DEF IInv
<1>2. PICK psn \in hdrs :
        /\ local' = LocalAckOne(local, psn).l /\ hdrs' = hdrs \ {psn}
        /\ rcvd' = rcvd /\ win' = win /\ stalled' = stalled /\ resps' = resps
        /\ meta' = meta /\ polled' = polled /\ metaq' = metaq
  BY DEF HandleHeader
<1>3. N \in Nat /\ N + WINDOW < MAX_PSN_WINDOW /\ rcvd \in SUBSET (0 .. N - 1) /\ psn \in rcvd
      /\ local \in [t : Tracker(N), psn_pre : 0 .. N]
  BY <1>1, <1>2, Consts DEF TypeOK
<1>4. Sound(local.t, N, rcvd)
  BY <1>1, <1>3 DEF Sound
<1> DEFINE u == PtAckOne(local.t, psn).t
<1>5. Sound(u, N, rcvd)
  BY <1>3, <1>4, AckOneSound
<1>6. local' = [local EXCEPT !.t = u]
  BY <1>2 DEF LocalAckOne
<1> HIDE DEF u
<1>7. /\ local' \in [t : Tracker(N), psn_pre : 0 .. N]
      /\ local'.t = u /\ local'.psn_pre = local.psn_pre
  BY <1>3, <1>5, <1>6 DEF Sound
<1>8. TypeOK'
  BY <1>1, <1>2, <1>7 DEF TypeOK
<1>9. WindowsShow'
  BY <1>1, <1>2 DEF WindowsShow
<1>10. /\ \A p, k : Passed(p, k)' <=> Passed(p, k)
       /\ \A p, k : PassedResp(p, k)' <=> PassedResp(p, k)
  <2>1. \A p, k : Passed(p, k)' <=> Passed(p, k)
    BY <1>2, <1>7 DEF Passed
  <2> QED BY <2>1, <1>2 DEF PassedResp
<1>11. HolesReported'
  BY <1>1, <1>2, <1>10 DEF HolesReported
<1>12. CountsOnly(local.t, rcvd)'
  BY <1>2, <1>5, <1>7 DEF Sound
<1> QED BY <1>8, <1>9, <1>11, <1>12 DEF IInv

\* A stuttering step keeps the invariant.
LEMMA Stutter == IInv /\ UNCHANGED vars => IInv'
<1> SUFFICES ASSUME IInv, UNCHANGED vars PROVE IInv'
  OBVIOUS
<1>1. /\ rcvd' = rcvd /\ win' = win /\ stalled' = stalled /\ resps' = resps /\ meta' = meta
      /\ polled' = polled /\ metaq' = metaq /\ hdrs' = hdrs /\ local' = local
  BY DEF vars
<1> QED BY <1>1, ZenonT(60) DEF IInv, TypeOK, WindowsShow, HolesReported, Passed, PassedResp

-----------------------------------------------------------------------------
\* The invariant is inductive.
THEOREM IInvInductive ==
    ASSUME ~POLL_IN_GAP
    PROVE  Spec => []IInv
<1>1. IInv /\ [Next]_vars => IInv'
  BY RxPacketStep, UpdateAckMetaStep, PollWindowStep, ForwardPollStep, HandleLocalHwStep,
     HandleHeaderStep, Stutter DEF Next
<1> QED BY <1>1, InitIInv, PTL DEF Spec

\* The receiving driver never takes a packet for received that did not arrive:
\* neither the windows LocalAckTracker is given nor the packets it infers
\* between them (psn_tracker.rs) go beyond what the hardware wrote to memory.
THEOREM LocalAckSoundHolds ==
    ASSUME ~POLL_IN_GAP
    PROVE  Spec => []LocalAckSound
<1>1. IInv => LocalAckSound
  <2> SUFFICES ASSUME IInv, NEW p \in Acknowledged(local.t) PROVE p \in rcvd
    BY DEF LocalAckSound
  <2>1. /\ local.t.base \in Nat
        /\ 0 .. local.t.base - 1 \subseteq rcvd
        /\ \A i \in local.t.inner : local.t.base + i \in rcvd
    BY Consts DEF IInv, TypeOK, Tracker, CountsOnly
  <2>2. p \in Nat /\ (p < local.t.base \/ (p - local.t.base) \in local.t.inner)
    BY Sizes DEF Acknowledged, PSN
  <2>3. CASE p < local.t.base
    BY <2>1, <2>2, <2>3
  <2>4. CASE (p - local.t.base) \in local.t.inner
    <3>1. local.t.base + (p - local.t.base) = p
      BY <2>1, <2>2
    <3> QED BY <3>1, <2>1, <2>4
  <2> QED BY <2>2, <2>3, <2>4
<1> QED BY <1>1, IInvInductive, PTL

\* The window alone: what it shows has arrived.
WindowInv ==
  rcvd \in SUBSET (0 .. N - 1) /\ win \in EntryBelow(N) /\ Shows(win, rcvd)

\* The window in the BRAM never shows a packet that did not arrive, through
\* slides, late packets and duplicates (getBramQueryRespAndMergeThem).
\* Nothing is assumed of the poller.
THEOREM WindowSoundHolds == Spec => []WindowSound
<1>1. WindowInv => WindowSound
  <2> SUFFICES ASSUME WindowInv, NEW b \in win.data,
                      PsnAdd(RemapPsn(win.left), b) < MAX_PSN_WINDOW
               PROVE  PsnAdd(RemapPsn(win.left), b) \in rcvd
    BY DEF WindowSound
  <2>1. win \in EntryBelow(N) /\ Shows(win, rcvd) /\ N \in Nat /\ N + WINDOW < MAX_PSN_WINDOW
    BY Consts DEF WindowInv
  <2> DEFINE x == Start(win.left)
  <2>2. x \in Int /\ -WINDOW <= x /\ x <= N /\ win.data \in SUBSET (0 .. WINDOW - 1)
    BY <2>1, SlotFacts
  <2>3. RemapPsn(win.left) = Wrap(x)
    BY <2>1, RemapStart
  <2>4. x + b >= 0 => x + b \in rcvd
    BY <2>1 DEF Shows
  <2> HIDE DEF x
  <2>5. /\ b \in Nat /\ b < WINDOW /\ WINDOW \in Nat /\ MAX_PSN_WINDOW \in Nat
        /\ PSN_SIZE = 2 * MAX_PSN_WINDOW
    BY <2>2, Sizes, PsnAssumption DEF PSN_SIZE
  <2>6. (Wrap(x) + b) % PSN_SIZE = IF x + b >= 0 THEN x + b ELSE x + b + PSN_SIZE
    <3>1. CASE x >= 0
      BY <3>1, <2>1, <2>2, <2>5 DEF Wrap
    <3>2. CASE x < 0 /\ x + b >= 0
      <4>1. Wrap(x) + b = (x + b) + PSN_SIZE /\ x + b < PSN_SIZE
        BY <3>2, <2>1, <2>2, <2>5 DEF Wrap
      <4>2. ((x + b) + PSN_SIZE) % PSN_SIZE = x + b
        BY <3>2, <4>1, <2>2, <2>5
      <4> QED BY <4>1, <4>2, <3>2
    <3>3. CASE x < 0 /\ x + b < 0
      BY <3>3, <2>1, <2>2, <2>5 DEF Wrap
    <3> QED BY <3>1, <3>2, <3>3, <2>2, <2>5
  <2>7. PsnAdd(RemapPsn(win.left), b) = (Wrap(x) + b) % PSN_SIZE
    BY <2>3 DEF PsnAdd
  <2> QED BY <2>1, <2>2, <2>4, <2>5, <2>6, <2>7
<1>2. Init => WindowInv
  BY ResetBelow DEF Init, WindowInv
<1>3. WindowInv /\ [Next]_vars => WindowInv'
  <2> SUFFICES ASSUME WindowInv, [Next]_vars PROVE WindowInv'
    OBVIOUS
  <2>1. CASE RxPacket
    <3>1. PICK psn \in 0 .. N - 1 :
            /\ rcvd' = rcvd \cup {psn}
            /\ win' = win \/ win' = Merge(win, psn).entry
      BY <2>1 DEF RxPacket
    <3>2. N \in Nat /\ N + WINDOW < MAX_PSN_WINDOW /\ rcvd \in SUBSET (0 .. N - 1)
          /\ win \in EntryBelow(N) /\ Shows(win, rcvd)
      BY Consts DEF WindowInv
    <3> DEFINE e == Merge(win, psn).entry
    <3>3. e \in EntryBelow(N) /\ Shows(e, rcvd')
      BY <3>1, <3>2, MergeSound, Zenon
    <3>4. Shows(win, rcvd') /\ rcvd' \in SUBSET (0 .. N - 1)
      BY <3>1, <3>2, ShowsGrows
    <3> HIDE DEF e
    <3>5. win' = win \/ win' = e
      BY <3>1 DEF e
    <3> QED BY <3>2, <3>3, <3>4, <3>5 DEF WindowInv
  <2>2. CASE rcvd' = rcvd /\ win' = win
    BY <2>2 DEF WindowInv
  <2>3. RxPacket \/ (rcvd' = rcvd /\ win' = win)
    BY DEF Next, vars, UpdateAckMeta, PollWindow, ForwardPoll, HandleLocalHw, HandleHeader
  <2> QED BY <2>1, <2>2, <2>3
<1> QED BY <1>1, <1>2, <1>3, PTL DEF Spec
=============================================================================
