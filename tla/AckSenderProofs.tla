-------------------------- MODULE AckSenderProofs --------------------------
(* The sending end of a connection for every number of packets, every size of *)
(* the window and any messages: what RemoteAckTracker counts as acknowledged   *)
(* the receiver has, and its base never moves back, provided that hardware     *)
(* NAKs arrive once each and in order.                                        *)
EXTENDS AckSender, AckLemmas

\* A leaf that names no prover goes to the SMT solver, then to Zenon.
USE SMTT(60), ZenonT(60)

\* What the theorems assume: hardware NAKs in order.
InOrder == ~NAK_LOSS

\* What the constants satisfy.
LEMMA Consts == SENT \in Nat /\ SENT + WINDOW < MAX_PSN_WINDOW /\ ENDS \subseteq 1 .. SENT
BY SenderAssumption

\* A window goes on showing only packets that arrived when more arrive.
LEMMA ShowsGrows ==
    ASSUME NEW e, NEW got, NEW got2, got \subseteq got2, Shows(e, got)
    PROVE  Shows(e, got2)
BY DEF Shows

\* The initial state satisfies the invariant.
LEMMA InitSenderInv == SenderInit => SenderInv
<1> SUFFICES ASSUME SenderInit PROVE SenderInv
  OBVIOUS
<1>1. /\ arrived = {} /\ peerWin = ResetEntry /\ peerStalled = FALSE /\ ackMsn = 0
      /\ naks = {} /\ ack = NoPsn /\ nakseen = 0 /\ remote = NewRemote
  BY DEF SenderInit
<1>2. SENT \in Nat /\ WINDOW \in Nat
  BY Sizes, SenderAssumption
<1>3. peerWin.left = BOUND_SIZE - 1 /\ Start(peerWin.left) = -WINDOW /\ peerWin.data = 0 .. WINDOW - 1
  BY <1>1 DEF ResetEntry, Start
<1>4. peerWin \in EntryBelow(SENT) /\ Shows(peerWin, arrived)
  BY <1>1, <1>2, <1>3, ResetType DEF EntryBelow, Shows
<1>5. /\ remote.t.base = 0 /\ remote.t.inner = {} /\ remote.psn_pre = 0
      /\ remote \in [t : Tracker(SENT), msn_pre : Nat, psn_pre : 0 .. SENT]
  BY <1>1, <1>2 DEF NewRemote, NewTracker, Tracker
<1>6. SenderTypeOK
  BY <1>1, <1>4, <1>5, Zenon DEF SenderTypeOK
<1>7. WireShows
  BY <1>1, <1>4 DEF WireShows
<1>8. HolesNaked
  <2>1. ASSUME NEW p \in (0 .. SENT - 1) \ arrived PROVE ~(p < Start(peerWin.left))
    BY <1>2, <1>3
  <2> QED BY <1>1, <2>1 DEF HolesNaked
<1>9. CountsOnly(remote.t, arrived)
  BY <1>5 DEF CountsOnly
<1> QED BY <1>6, <1>7, <1>8, <1>9 DEF SenderInv

-----------------------------------------------------------------------------
\* A packet arrives: a slide over a missing packet sends a NAK.
LEMMA PeerRxPacketStep == InOrder /\ SenderInv /\ PeerRxPacket => SenderInv'
<1> SUFFICES ASSUME InOrder, SenderInv, PeerRxPacket PROVE SenderInv'
  OBVIOUS
<1>1. SenderTypeOK /\ WireShows /\ HolesNaked /\ CountsOnly(remote.t, arrived)
  BY DEF SenderInv
<1>2. SENT \in Nat /\ SENT + WINDOW < MAX_PSN_WINDOW
  BY Consts
<1>3. PICK psn \in 0 .. SENT - 1 :
        /\ arrived' = arrived \cup {psn}
        /\ IF peerStalled THEN UNCHANGED <<peerWin, peerStalled, ackMsn, naks>>
           ELSE /\ peerWin' = Merge(peerWin, psn).entry /\ peerStalled' = Merge(peerWin, psn).stale
                /\ ackMsn' = ackMsn + (IF Merge(peerWin, psn).lost THEN 1 ELSE 0)
                /\ naks' = IF Merge(peerWin, psn).lost THEN naks \cup {NakPacket(Merge(peerWin, psn))}
                           ELSE naks
        /\ UNCHANGED <<ack, nakseen, remote>>
  BY DEF PeerRxPacket
<1>4. /\ arrived' \in SUBSET (0 .. SENT - 1) /\ arrived \subseteq arrived'
      /\ ack' = ack /\ nakseen' = nakseen /\ remote' = remote
  BY <1>1, <1>3 DEF SenderTypeOK
<1>5. /\ Shows(peerWin, arrived')
      /\ \A n \in naks : n.msn < ackMsn /\ Shows(n.old, arrived') /\ Shows(n.new, arrived')
      /\ ack # NoPsn => 0 .. ack - 1 \subseteq arrived'
      /\ CountsOnly(remote.t, arrived')
      /\ nakseen <= ackMsn
      /\ \A n1, n2 \in naks : n1.msn = n2.msn => n1 = n2
  <2>1. CountsOnly(remote.t, arrived')
    BY <1>1, <1>4, Zenon DEF CountsOnly
  <2> QED BY <1>1, <1>4, <2>1, ShowsGrows, Zenon DEF WireShows
<1>6. CASE peerWin' = peerWin /\ peerStalled' \in BOOLEAN /\ ackMsn' = ackMsn /\ naks' = naks
  <2>1. SenderTypeOK'
    BY <1>1, <1>4, <1>6 DEF SenderTypeOK
  <2>2. WireShows'
    BY <1>4, <1>5, <1>6 DEF WireShows
  <2>3. \A p, k : NakPassed(p, k)' <=> NakPassed(p, k)
    BY <1>4, <1>6 DEF NakPassed
  <2>4. HolesNaked'
    BY <1>1, <1>4, <1>6, <2>3 DEF HolesNaked
  <2> QED BY <1>4, <1>5, <2>1, <2>2, <2>4 DEF SenderInv
<1>7. CASE peerStalled
  BY <1>1, <1>3, <1>6, <1>7 DEF SenderTypeOK
<1>8. CASE ~peerStalled
  <2> DEFINE m == Merge(peerWin, psn)
             k == NakPacket(m)
  <2>1. /\ peerWin' = m.entry /\ peerStalled' = m.stale
        /\ ackMsn' = ackMsn + (IF m.lost THEN 1 ELSE 0)
        /\ naks' = IF m.lost THEN naks \cup {k} ELSE naks
    BY <1>3, <1>8
  <2>2. peerWin \in EntryBelow(SENT) /\ Shows(peerWin, arrived) /\ arrived \in SUBSET (0 .. SENT - 1)
        /\ ackMsn \in Nat /\ naks \in SUBSET Nak
    BY <1>1 DEF SenderTypeOK, WireShows
  <2>3. /\ m.stale \in BOOLEAN /\ m.lost \in BOOLEAN /\ m.old = peerWin
        /\ m.entry \in EntryBelow(SENT) /\ Shows(m.entry, arrived')
        /\ m.new \in EntryBelow(SENT) /\ Shows(m.new, arrived')
        /\ m.lost => m.new = m.entry
        /\ ~m.lost => \A p \in (0 .. SENT - 1) \ arrived' :
                        p < Start(m.entry.left) => p < Start(peerWin.left)
    BY <1>2, <1>3, <2>2, MergeSound, ZenonT(60)
  <2> HIDE DEF m
  <2>4. k \in Nak /\ k.msn = ackMsn /\ k.old = peerWin /\ k.new = m.new
    BY <2>2, <2>3 DEF NakPacket, Nak
  <2> HIDE DEF k
  <2>5. CASE m.lost
    <3>1. ackMsn' = ackMsn + 1 /\ naks' = naks \cup {k} /\ k.new = peerWin'
      BY <2>1, <2>3, <2>4, <2>5
    <3>2. SenderTypeOK'
      BY <1>1, <1>4, <2>1, <2>2, <2>3, <2>4, <3>1 DEF SenderTypeOK
    <3>3. WireShows'
      <4>1. ASSUME NEW n \in naks'
            PROVE  n.msn < ackMsn' /\ Shows(n.old, arrived') /\ Shows(n.new, arrived')
        <5>1. CASE n \in naks
          <6>1. n.msn \in Nat /\ n.msn < ackMsn
            BY <5>1, <1>5, <2>2 DEF Nak
          <6> QED BY <5>1, <6>1, <1>5, <2>2, <3>1
        <5>2. CASE n = k
          BY <5>2, <1>5, <2>2, <2>3, <2>4, <3>1
        <5> QED BY <5>1, <5>2, <3>1
      <4>2. nakseen' <= ackMsn'
        BY <1>1, <1>4, <1>5, <3>1 DEF SenderTypeOK
      <4>3. ASSUME NEW n1 \in naks', NEW n2 \in naks', n1.msn = n2.msn PROVE n1 = n2
        <5>1. ASSUME NEW n \in naks PROVE n.msn # k.msn
          <6>1. n.msn \in Nat /\ n.msn < ackMsn
            BY <1>5, <2>2 DEF Nak
          <6> QED BY <6>1, <2>2, <2>4
        <5> QED BY <4>3, <5>1, <1>5, <3>1
      <4> QED BY <1>4, <1>5, <2>1, <2>3, <4>1, <4>2, <4>3 DEF WireShows
    <3>4. HolesNaked'
      <4>1. SUFFICES ASSUME NEW p \in (0 .. SENT - 1) \ arrived'
                     PROVE  /\ \A n \in naks' : n.msn >= nakseen' /\ p < Start(n.old.left)
                                                 => NakPassed(p, n.msn)'
                            /\ p < Start(peerWin'.left) => NakPassed(p, ackMsn)'
        BY DEF HolesNaked
      <4>2. /\ \A n \in naks : n.msn >= nakseen /\ p < Start(n.old.left) => NakPassed(p, n.msn)
            /\ p < Start(peerWin.left) => NakPassed(p, ackMsn)
        BY <1>1, <1>4 DEF HolesNaked
      <4>3. \A j : NakPassed(p, j) => NakPassed(p, j)'
        BY <1>4, <3>1 DEF NakPassed
      <4>4. ASSUME NEW n \in naks', n.msn >= nakseen, p < Start(n.old.left)
            PROVE  NakPassed(p, n.msn)'
        <5>1. CASE n \in naks
          BY <5>1, <4>2, <4>3, <4>4
        <5>2. CASE n = k
          <6>1. NakPassed(p, n.msn)
            BY <5>2, <4>2, <4>4, <2>4
          <6> QED BY <6>1, <4>3
        <5> QED BY <5>1, <5>2, <3>1, <4>4
      <4>5. ASSUME p < Start(peerWin'.left) PROVE NakPassed(p, ackMsn)'
        <5>1. CASE ackMsn >= nakseen
          <6>1. /\ k \in naks' /\ k.msn >= nakseen' /\ k.msn < ackMsn'
                /\ p < Start(k.new.left)
            BY <5>1, <4>5, <1>4, <2>2, <2>4, <3>1
          <6> QED BY <6>1 DEF NakPassed
        <5>2. ackMsn >= nakseen
          BY <1>1 DEF SenderTypeOK, WireShows
        <5> QED BY <5>1, <5>2
      <4> QED BY <1>4, <4>4, <4>5
    <3> QED BY <1>4, <1>5, <3>2, <3>3, <3>4 DEF SenderInv
  <2>6. CASE ~m.lost
    <3>1. ackMsn' = ackMsn /\ naks' = naks
      BY <2>1, <2>2, <2>6
    <3>2. SenderTypeOK'
      BY <1>1, <1>4, <2>1, <2>3, <3>1 DEF SenderTypeOK
    <3>3. WireShows'
      BY <1>4, <1>5, <2>1, <2>3, <3>1 DEF WireShows
    <3>4. \A p, j : NakPassed(p, j)' <=> NakPassed(p, j)
      BY <1>4, <3>1 DEF NakPassed
    <3>5. HolesNaked'
      BY <1>1, <1>4, <2>1, <2>3, <2>6, <3>1, <3>4 DEF HolesNaked
    <3> QED BY <1>4, <1>5, <3>2, <3>3, <3>5 DEF SenderInv
  <2> QED BY <2>5, <2>6
<1> QED BY <1>7, <1>8

-----------------------------------------------------------------------------
\* The receiving driver acknowledges a message all of which arrived.
LEMMA DriverAckStep == InOrder /\ SenderInv /\ DriverAck => SenderInv'
<1> SUFFICES ASSUME InOrder, SenderInv, DriverAck PROVE SenderInv'
  OBVIOUS
<1>1. PICK e \in ENDS :
        /\ 0 .. e - 1 \subseteq arrived /\ ack' = e
        /\ arrived' = arrived /\ peerWin' = peerWin /\ peerStalled' = peerStalled /\ ackMsn' = ackMsn
        /\ naks' = naks /\ nakseen' = nakseen /\ remote' = remote
  BY DEF DriverAck
<1>2. SenderTypeOK'
  BY <1>1 DEF SenderInv, SenderTypeOK
<1>3. WireShows'
  BY <1>1 DEF SenderInv, WireShows
<1>4. HolesNaked'
  BY <1>1 DEF SenderInv, HolesNaked, NakPassed
<1> QED BY <1>1, <1>2, <1>3, <1>4 DEF SenderInv

\* The tracker of the sending driver takes an acknowledgement of the driver.
LEMMA HandleDriverAckStep == InOrder /\ SenderInv /\ HandleDriverAck => SenderInv'
<1> SUFFICES ASSUME InOrder, SenderInv, HandleDriverAck
             PROVE  SenderInv'
  OBVIOUS
<1>1. SenderTypeOK /\ WireShows /\ HolesNaked /\ CountsOnly(remote.t, arrived)
  BY DEF SenderInv
<1>2. /\ ack # NoPsn /\ remote' = RemoteAckBefore(remote, ack).r
      /\ arrived' = arrived /\ peerWin' = peerWin /\ peerStalled' = peerStalled /\ ackMsn' = ackMsn
      /\ naks' = naks /\ ack' = ack /\ nakseen' = nakseen
  BY DEF HandleDriverAck
<1>3. /\ SENT \in Nat /\ SENT + WINDOW < MAX_PSN_WINDOW /\ arrived \in SUBSET (0 .. SENT - 1)
      /\ remote \in [t : Tracker(SENT), msn_pre : Nat, psn_pre : 0 .. SENT]
      /\ ack \in 1 .. SENT /\ 0 .. ack - 1 \subseteq arrived
  BY <1>1, <1>2, Consts DEF SenderTypeOK, WireShows
<1>4. Sound(remote.t, SENT, arrived)
  BY <1>1, <1>3 DEF Sound
<1>5. ack \in Int /\ -WINDOW <= ack /\ ack <= SENT /\ Wrap(ack) = ack
  BY <1>3, Sizes DEF Wrap
<1> DEFINE u == PtAckBefore(remote.t, ack).t
<1>6. Sound(u, SENT, arrived) /\ remote.t.base <= u.base
  <2>1. /\ Sound(PtAckBefore(remote.t, Wrap(ack)).t, SENT, arrived)
        /\ remote.t.base <= PtAckBefore(remote.t, Wrap(ack)).t.base
    BY <1>3, <1>4, <1>5, AckBeforeSound
  <2> QED BY <2>1, <1>5
<1>7. remote' = [remote EXCEPT !.t = u]
  BY <1>2 DEF RemoteAckBefore
<1> HIDE DEF u
<1>8. /\ remote' \in [t : Tracker(SENT), msn_pre : Nat, psn_pre : 0 .. SENT]
      /\ remote'.t = u /\ remote'.psn_pre = remote.psn_pre
  BY <1>3, <1>6, <1>7 DEF Sound
<1>9. SenderTypeOK'
  BY <1>1, <1>2, <1>8 DEF SenderTypeOK
<1>10. WireShows'
  BY <1>1, <1>2 DEF WireShows
<1>11. HolesNaked'
  <2>1. \A p, k : NakPassed(p, k)' <=> NakPassed(p, k)
    BY <1>2, <1>8 DEF NakPassed
  <2> QED BY <1>1, <1>2, <2>1 DEF HolesNaked
<1>12. CountsOnly(remote.t, arrived)'
  BY <1>2, <1>6, <1>8 DEF Sound
<1> QED BY <1>6, <1>8, <1>9, <1>10, <1>11, <1>12 DEF SenderInv

\* The tracker takes the next NAK of the hardware: the range it infers holds
\* no missing packet.
LEMMA HandleHwNakStep == InOrder /\ SenderInv /\ HandleHwNak => SenderInv'
<1> SUFFICES ASSUME InOrder, SenderInv, HandleHwNak
             PROVE  SenderInv'
  OBVIOUS
<1>1. SenderTypeOK /\ WireShows /\ HolesNaked /\ CountsOnly(remote.t, arrived)
  BY DEF SenderInv
<1>2. PICK n \in naks :
        /\ n.msn = nakseen /\ nakseen' = nakseen + 1
        /\ remote' = RemoteNakBitmap(remote, n.msn, RemapPsn(n.old.left), n.old.data,
                                     RemapPsn(n.new.left), n.new.data).r
        /\ arrived' = arrived /\ peerWin' = peerWin /\ peerStalled' = peerStalled /\ ackMsn' = ackMsn
        /\ naks' = naks /\ ack' = ack
  BY DEF HandleHwNak, InOrder
<1>3. /\ SENT \in Nat /\ SENT + WINDOW < MAX_PSN_WINDOW /\ arrived \in SUBSET (0 .. SENT - 1)
      /\ remote \in [t : Tracker(SENT), msn_pre : Nat, psn_pre : 0 .. SENT]
      /\ naks \in SUBSET Nak /\ nakseen \in Nat /\ ackMsn \in Nat
  BY <1>1, Consts DEF SenderTypeOK
<1>4. /\ n.msn \in Nat /\ n.old \in EntryBelow(SENT) /\ n.new \in EntryBelow(SENT)
      /\ n.msn < ackMsn /\ Shows(n.old, arrived) /\ Shows(n.new, arrived)
  BY <1>1, <1>2, <1>3 DEF Nak, WireShows
<1>5. Sound(remote.t, SENT, arrived) /\ remote.psn_pre \in 0 .. SENT /\ remote.msn_pre \in Nat
  BY <1>1, <1>3 DEF Sound
<1>6. ASSUME NEW p \in 0 .. SENT - 1, remote.psn_pre <= p, p < Start(n.old.left) PROVE p \in arrived
  <2>1. SUFFICES ASSUME p \notin arrived PROVE FALSE
    OBVIOUS
  <2>2. NakPassed(p, n.msn)
    BY <1>1, <1>2, <1>3, <1>6, <2>1 DEF HolesNaked
  <2>3. ASSUME NEW n2 \in naks, n2.msn >= nakseen, n2.msn < n.msn PROVE FALSE
    <3>1. n2.msn \in Nat
      BY <1>3, <2>3 DEF Nak
    <3> QED BY <3>1, <2>3, <1>2, <1>3
  <2>4. p < remote.psn_pre
    BY <2>2, <2>3 DEF NakPassed
  <2> QED BY <2>4, <1>5, <1>6
<1>7. /\ Sound(remote'.t, SENT, arrived)
      /\ remote' \in [t : Tracker(SENT), msn_pre : Nat, psn_pre : 0 .. SENT]
      /\ remote.t.base <= remote'.t.base
      /\ remote.psn_pre <= remote'.psn_pre /\ Start(n.new.left) <= remote'.psn_pre
  <2> DEFINE r == RemoteNakBitmap(remote, n.msn, RemapPsn(n.old.left), n.old.data,
                                  RemapPsn(n.new.left), n.new.data).r
  <2>1. \A p \in 0 .. SENT - 1 : remote.psn_pre <= p /\ p < Start(n.old.left) => p \in arrived
    BY <1>6
  <2>2. /\ Sound(r.t, SENT, arrived) /\ r \in [t : Tracker(SENT), msn_pre : Nat, psn_pre : 0 .. SENT]
        /\ remote.t.base <= r.t.base
        /\ remote.psn_pre <= r.psn_pre /\ Start(n.new.left) <= r.psn_pre
    BY <1>3, <1>4, <1>5, <2>1, RemoteNakBitmapSound, Zenon
  <2>3. remote' = r
    BY <1>2
  <2> QED BY <2>2, <2>3, Zenon
<1>8. SenderTypeOK'
  <2>1. nakseen' \in Nat
    BY <1>2, <1>3
  <2>2. UNCHANGED <<arrived, peerWin, peerStalled, ackMsn, naks, ack>>
    BY <1>2
  <2> QED BY <1>1, <1>7, <2>1, <2>2, Zenon DEF SenderTypeOK
<1>9. WireShows'
  <2>1. nakseen' <= ackMsn'
    BY <1>2, <1>3, <1>4
  <2> QED BY <1>1, <1>2, <2>1 DEF WireShows
<1>10. HolesNaked'
  <2>1. SUFFICES ASSUME NEW p \in (0 .. SENT - 1) \ arrived
                 PROVE  /\ \A k \in naks : k.msn >= nakseen' /\ p < Start(k.old.left)
                                            => NakPassed(p, k.msn)'
                        /\ p < Start(peerWin.left) => NakPassed(p, ackMsn)'
    BY <1>2 DEF HolesNaked
  <2>2. /\ \A k \in naks : k.msn >= nakseen /\ p < Start(k.old.left) => NakPassed(p, k.msn)
        /\ p < Start(peerWin.left) => NakPassed(p, ackMsn)
    BY <1>1 DEF HolesNaked
  <2>3. ASSUME NEW j, NakPassed(p, j) PROVE NakPassed(p, j)'
    <3>1. remote.psn_pre \in Int /\ remote'.psn_pre \in Int /\ p \in Int
      BY <1>3, <1>7
    <3>2. \/ p < remote.psn_pre
          \/ \E k \in naks : k.msn >= nakseen /\ k.msn < j /\ p < Start(k.new.left)
      BY <2>3 DEF NakPassed
    <3>3. CASE p < remote'.psn_pre
      BY <3>3 DEF NakPassed
    <3>4. CASE p < remote.psn_pre
      BY <3>1, <3>3, <3>4, <1>7
    <3>5. ASSUME NEW k \in naks, k.msn >= nakseen, k.msn < j, p < Start(k.new.left)
          PROVE  NakPassed(p, j)'
      <4>1. k.msn \in Nat
        BY <1>3, <3>5 DEF Nak
      <4>2. CASE k.msn = nakseen
        <5>1. k = n
          BY <4>2, <1>1, <1>2, <3>5 DEF WireShows
        <5>2. Start(n.new.left) \in Int
          BY <1>3, <1>4, SlotFacts
        <5> QED BY <5>1, <5>2, <3>1, <3>3, <3>5, <1>7
      <4>3. CASE k.msn # nakseen
        <5>1. k.msn >= nakseen'
          BY <4>1, <4>3, <3>5, <1>2, <1>3
        <5> QED BY <5>1, <3>5, <1>2 DEF NakPassed
      <4> QED BY <4>2, <4>3
    <3> QED BY <3>2, <3>4, <3>5
  <2>4. ASSUME NEW k \in naks, k.msn >= nakseen', p < Start(k.old.left) PROVE NakPassed(p, k.msn)'
    <3>1. k.msn \in Nat
      BY <1>3, <2>4 DEF Nak
    <3>2. k.msn >= nakseen
      BY <3>1, <2>4, <1>2, <1>3
    <3> QED BY <3>2, <2>2, <2>3, <2>4
  <2>5. p < Start(peerWin.left) => NakPassed(p, ackMsn)'
    <3> PICK j : j = ackMsn
      OBVIOUS
    <3>1. p < Start(peerWin.left) => NakPassed(p, j)'
      BY <2>2, <2>3
    <3> QED BY <3>1, <1>2
  <2> QED BY <2>4, <2>5
<1>11. CountsOnly(remote.t, arrived)'
  BY <1>2, <1>7 DEF Sound
<1> QED BY <1>7, <1>8, <1>9, <1>10, <1>11 DEF SenderInv
-----------------------------------------------------------------------------
\* A step keeps the invariant.
LEMMA StepKeeps == InOrder /\ SenderInv /\ [SenderNext]_senderVars => SenderInv'
<1> SUFFICES ASSUME InOrder, SenderInv, [SenderNext]_senderVars
             PROVE  SenderInv'
  OBVIOUS
<1>1. CASE UNCHANGED senderVars
  <2>1. /\ arrived' = arrived /\ peerWin' = peerWin /\ peerStalled' = peerStalled /\ ackMsn' = ackMsn
        /\ naks' = naks /\ ack' = ack /\ nakseen' = nakseen /\ remote' = remote
    BY <1>1 DEF senderVars
  <2> QED BY <2>1 DEF SenderInv, SenderTypeOK, WireShows, HolesNaked, NakPassed
<1> QED BY <1>1, PeerRxPacketStep, DriverAckStep, HandleDriverAckStep, HandleHwNakStep DEF SenderNext

\* The invariant is inductive.
THEOREM SenderInvInductive ==
    ASSUME InOrder
    PROVE  SenderSpec => []SenderInv
<1>1. SenderInv /\ [SenderNext]_senderVars => SenderInv'
  BY StepKeeps
<1>2. SenderInit => SenderInv
  BY InitSenderInv
<1> QED BY <1>1, <1>2, PTL DEF SenderSpec

\* The sending driver never counts a packet as acknowledged that the receiver
\* does not have, whatever the order in which acknowledgements of the driver and
\* NAKs of the hardware reach RemoteAckTracker: a work request does not complete,
\* and does not leave the retransmission queue, with its data lost.
THEOREM RemoteAckSoundHolds ==
    ASSUME InOrder
    PROVE  SenderSpec => []RemoteAckSound
<1>1. SenderInv => RemoteAckSound
  <2> SUFFICES ASSUME SenderInv, NEW p \in Acknowledged(remote.t) PROVE p \in arrived
    BY DEF RemoteAckSound
  <2>1. /\ remote.t.base \in Nat
        /\ 0 .. remote.t.base - 1 \subseteq arrived
        /\ \A i \in remote.t.inner : remote.t.base + i \in arrived
    BY Consts DEF SenderInv, SenderTypeOK, Tracker, CountsOnly
  <2>2. p \in Nat /\ (p < remote.t.base \/ (p - remote.t.base) \in remote.t.inner)
    BY Sizes DEF Acknowledged, PSN
  <2>3. CASE p < remote.t.base
    BY <2>1, <2>2, <2>3
  <2>4. CASE (p - remote.t.base) \in remote.t.inner
    <3>1. remote.t.base + (p - remote.t.base) = p
      BY <2>1, <2>2
    <3> QED BY <3>1, <2>1, <2>4
  <2> QED BY <2>2, <2>3, <2>4
<1> QED BY <1>1, SenderInvInductive, PTL

-----------------------------------------------------------------------------
(* That the base moves forward only does not need the NAKs in order.          *)

\* What the base needs: windows of the connection, in the window and in NAKs.
BaseInv ==
  /\ SenderTypeOK /\ Shows(peerWin, arrived)
  /\ \A n \in naks : Shows(n.old, arrived) /\ Shows(n.new, arrived)
  /\ CountsOnly(remote.t, 0 .. SENT - 1)

\* A packet arrives, in whatever state the sender is.
LEMMA BasePeerRxPacket ==
    ASSUME BaseInv, PeerRxPacket
    PROVE  BaseInv' /\ remote' = remote
<1>1. SENT \in Nat /\ SENT + WINDOW < MAX_PSN_WINDOW /\ SenderTypeOK /\ Shows(peerWin, arrived)
      /\ \A n \in naks : Shows(n.old, arrived) /\ Shows(n.new, arrived)
      /\ CountsOnly(remote.t, 0 .. SENT - 1)
  BY SenderAssumption DEF BaseInv
<1>2. PICK psn \in 0 .. SENT - 1 :
        /\ arrived' = arrived \cup {psn}
        /\ IF peerStalled THEN UNCHANGED <<peerWin, peerStalled, ackMsn, naks>>
           ELSE /\ peerWin' = Merge(peerWin, psn).entry /\ peerStalled' = Merge(peerWin, psn).stale
                /\ ackMsn' = ackMsn + (IF Merge(peerWin, psn).lost THEN 1 ELSE 0)
                /\ naks' = IF Merge(peerWin, psn).lost THEN naks \cup {NakPacket(Merge(peerWin, psn))}
                           ELSE naks
        /\ UNCHANGED <<ack, nakseen, remote>>
  BY DEF PeerRxPacket
<1>3. /\ arrived' \in SUBSET (0 .. SENT - 1) /\ arrived \subseteq arrived'
      /\ ack' = ack /\ nakseen' = nakseen /\ remote' = remote
  BY <1>1, <1>2 DEF SenderTypeOK
<1>4. Shows(peerWin, arrived') /\ \A n \in naks : Shows(n.old, arrived') /\ Shows(n.new, arrived')
  BY <1>1, <1>3, ShowsGrows, Zenon
<1>5. CASE peerStalled
  BY <1>1, <1>2, <1>3, <1>4, <1>5, Zenon DEF BaseInv, SenderTypeOK
<1>6. CASE ~peerStalled
  <2> DEFINE m == Merge(peerWin, psn)
             k == NakPacket(m)
  <2>1. /\ peerWin' = m.entry /\ peerStalled' = m.stale
        /\ ackMsn' = ackMsn + (IF m.lost THEN 1 ELSE 0)
        /\ naks' = IF m.lost THEN naks \cup {k} ELSE naks
    BY <1>2, <1>6
  <2>2. peerWin \in EntryBelow(SENT) /\ arrived \in SUBSET (0 .. SENT - 1) /\ ackMsn \in Nat
        /\ naks \in SUBSET Nak
    BY <1>1 DEF SenderTypeOK
  <2>3. /\ m.stale \in BOOLEAN /\ m.lost \in BOOLEAN /\ m.old = peerWin
        /\ m.entry \in EntryBelow(SENT) /\ Shows(m.entry, arrived')
        /\ m.new \in EntryBelow(SENT) /\ Shows(m.new, arrived')
    BY <1>1, <1>2, <2>2, MergeSound, ZenonT(60)
  <2> HIDE DEF m
  <2>4. k \in Nak /\ k.old = peerWin /\ k.new = m.new
    BY <2>2, <2>3 DEF NakPacket, Nak
  <2> HIDE DEF k
  <2>5. ackMsn' \in Nat /\ naks' \in SUBSET Nak
    BY <2>1, <2>2, <2>4
  <2>6. SenderTypeOK'
    BY <1>1, <1>3, <2>1, <2>3, <2>5 DEF SenderTypeOK
  <2>7. \A n \in naks' : Shows(n.old, arrived') /\ Shows(n.new, arrived')
    BY <1>4, <2>1, <2>3, <2>4
  <2> QED BY <1>1, <1>3, <2>1, <2>3, <2>6, <2>7 DEF BaseInv
<1> QED BY <1>5, <1>6

\* The tracker takes an acknowledgement or a NAK: the base stays or advances.
LEMMA BaseTracker ==
    ASSUME BaseInv, HandleDriverAck \/ HandleHwNak
    PROVE  BaseInv' /\ remote.t.base <= remote'.t.base
<1> DEFINE all == 0 .. SENT - 1
<1>1. SENT \in Nat /\ SENT + WINDOW < MAX_PSN_WINDOW /\ SenderTypeOK /\ Shows(peerWin, arrived)
      /\ \A n \in naks : Shows(n.old, arrived) /\ Shows(n.new, arrived)
  BY SenderAssumption DEF BaseInv
<1>2. /\ all \in SUBSET (0 .. SENT - 1) /\ arrived \subseteq all
      /\ remote \in [t : Tracker(SENT), msn_pre : Nat, psn_pre : 0 .. SENT]
  BY <1>1 DEF SenderTypeOK
<1>3. Sound(remote.t, SENT, all) /\ remote.psn_pre \in 0 .. SENT /\ remote.msn_pre \in Nat
  BY <1>2 DEF Sound, BaseInv
<1>4. CASE HandleDriverAck
  <2>1. /\ ack # NoPsn /\ remote' = RemoteAckBefore(remote, ack).r
        /\ arrived' = arrived /\ peerWin' = peerWin /\ peerStalled' = peerStalled /\ ackMsn' = ackMsn
        /\ naks' = naks /\ ack' = ack /\ nakseen' = nakseen
    BY <1>4 DEF HandleDriverAck
  <2>2. ack \in 1 .. SENT
    BY <1>1, <2>1, SenderAssumption, Zenon DEF SenderTypeOK
  <2>3. ack \in Int /\ -WINDOW <= ack /\ ack <= SENT /\ Wrap(ack) = ack /\ 0 .. ack - 1 \subseteq all
    BY <1>1, <2>2, Sizes DEF Wrap
  <2> DEFINE u == PtAckBefore(remote.t, ack).t
  <2> HIDE DEF all
  <2>4. Sound(u, SENT, all) /\ remote.t.base <= u.base
    <3>1. /\ Sound(PtAckBefore(remote.t, Wrap(ack)).t, SENT, all)
          /\ remote.t.base <= PtAckBefore(remote.t, Wrap(ack)).t.base
      BY <1>1, <1>2, <1>3, <2>3, AckBeforeSound
    <3> QED BY <3>1, <2>3
  <2>5. remote' = [remote EXCEPT !.t = u]
    BY <2>1 DEF RemoteAckBefore
  <2> HIDE DEF u
  <2>6. /\ remote' \in [t : Tracker(SENT), msn_pre : Nat, psn_pre : 0 .. SENT]
        /\ remote'.t = u
    BY <1>2, <2>4, <2>5 DEF Sound
  <2>7. CountsOnly(remote'.t, all)
    BY <2>4, <2>6 DEF Sound
  <2> QED BY <1>1, <2>1, <2>4, <2>6, <2>7 DEF BaseInv, SenderTypeOK, all
<1>5. CASE HandleHwNak
  <2>1. PICK n \in naks :
          /\ nakseen' = (IF NAK_LOSS THEN nakseen ELSE nakseen + 1)
          /\ remote' = RemoteNakBitmap(remote, n.msn, RemapPsn(n.old.left), n.old.data,
                                       RemapPsn(n.new.left), n.new.data).r
          /\ arrived' = arrived /\ peerWin' = peerWin /\ peerStalled' = peerStalled /\ ackMsn' = ackMsn
          /\ naks' = naks /\ ack' = ack
    BY <1>5 DEF HandleHwNak
  <2>2. nakseen' \in Nat
    BY <1>1, <2>1 DEF SenderTypeOK
  <2>3. /\ n.msn \in Nat /\ n.old \in EntryBelow(SENT) /\ n.new \in EntryBelow(SENT)
        /\ Shows(n.old, all) /\ Shows(n.new, all)
    <3> HIDE DEF all
    <3>1. Shows(n.old, all) /\ Shows(n.new, all)
      BY <1>1, <1>2, <2>1, ShowsGrows, Zenon
    <3> QED BY <1>1, <2>1, <3>1 DEF SenderTypeOK, Nak
  <2>4. \A p \in 0 .. SENT - 1 : remote.psn_pre <= p /\ p < Start(n.old.left) => p \in all
    OBVIOUS
  <2> DEFINE r == RemoteNakBitmap(remote, n.msn, RemapPsn(n.old.left), n.old.data,
                                  RemapPsn(n.new.left), n.new.data).r
  <2> HIDE DEF all
  <2>5. /\ Sound(r.t, SENT, all) /\ r \in [t : Tracker(SENT), msn_pre : Nat, psn_pre : 0 .. SENT]
        /\ remote.t.base <= r.t.base
    BY <1>1, <1>2, <1>3, <2>3, <2>4, RemoteNakBitmapSound, ZenonT(60)
  <2>6. remote' = r
    BY <2>1
  <2> HIDE DEF r
  <2>7. CountsOnly(remote'.t, all)
    BY <2>5, <2>6 DEF Sound
  <2> QED BY <1>1, <2>1, <2>2, <2>5, <2>6, <2>7 DEF BaseInv, SenderTypeOK, all
<1> QED BY <1>4, <1>5

\* Every step keeps the invariant of the base and does not take the base back.
LEMMA BaseStep ==
    BaseInv /\ [SenderNext]_senderVars => BaseInv' /\ remote.t.base <= remote'.t.base
<1> SUFFICES ASSUME BaseInv, [SenderNext]_senderVars
             PROVE  BaseInv' /\ remote.t.base <= remote'.t.base
  OBVIOUS
<1>1. remote.t.base \in Int
  BY SenderAssumption DEF BaseInv, SenderTypeOK, Tracker
<1>2. CASE PeerRxPacket
  BY <1>1, <1>2, BasePeerRxPacket
<1>3. CASE DriverAck
  BY <1>1, <1>3 DEF DriverAck, BaseInv, SenderTypeOK
<1>4. CASE UNCHANGED senderVars
  BY <1>1, <1>4 DEF senderVars, BaseInv, SenderTypeOK
<1> QED BY <1>2, <1>3, <1>4, BaseTracker DEF SenderNext

\* The base of RemoteAckTracker moves forward only: a late, repeated or lost
\* acknowledgement or NAK takes nothing back.
THEOREM BaseMonotoneHolds == SenderSpec => BaseMonotone
<1>1. BaseInv /\ BaseInv' /\ [SenderNext]_senderVars => [PsnLe(remote.t.base, remote'.t.base)]_senderVars
  <2> SUFFICES ASSUME BaseInv, BaseInv', [SenderNext]_senderVars
               PROVE  PsnLe(remote.t.base, remote'.t.base)
    OBVIOUS
  <2> DEFINE a == remote.t.base
             x == remote'.t.base
  <2>1. SENT \in Nat /\ SENT + WINDOW < MAX_PSN_WINDOW /\ WINDOW \in Nat
    BY Sizes, SenderAssumption
  <2>2. a \in 0 .. SENT
    BY DEF BaseInv, SenderTypeOK, Tracker
  <2>3. x \in 0 .. SENT
    BY DEF BaseInv, SenderTypeOK, Tracker
  <2>4. a <= x
    BY BaseStep
  <2> HIDE DEF a, x
  <2>5. Wrap(x) = x
    BY <2>1, <2>3 DEF Wrap
  <2>6. PsnLe(a, Wrap(x))
    BY <2>1, <2>2, <2>3, <2>4, OrderIs
  <2> QED BY <2>5, <2>6 DEF a, x
<1>2. SenderInit => BaseInv
  <2> SUFFICES ASSUME SenderInit PROVE BaseInv
    OBVIOUS
  <2>1. SenderInv
    BY InitSenderInv
  <2>2. CountsOnly(remote.t, 0 .. SENT - 1)
    BY <2>1, Zenon DEF SenderInv, SenderTypeOK, CountsOnly
  <2> QED BY <2>1, <2>2 DEF SenderInv, WireShows, BaseInv
<1>3. BaseInv /\ [SenderNext]_senderVars => BaseInv'
  BY BaseStep
<1> QED BY <1>1, <1>2, <1>3, PTL DEF SenderSpec, BaseMonotone
=============================================================================
