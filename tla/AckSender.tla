----------------------------- MODULE AckSender -----------------------------
(* The sending end of the same direction: the receiver's hardware answers a   *)
(* loss with a NAK packet, the receiver's driver acknowledges whole messages, *)
(* and RemoteAckTracker of the sending driver puts the two together.          *)
(*                                                                            *)
(* The receiver is reduced to its window: AckReceiver shows that the driver   *)
(* acknowledges a message only when all packets before its end have arrived   *)
(* (LocalAckSound), which is the guard of DriverAck here.                     *)
EXTENDS BitmapWindow, PsnTracker

CONSTANTS SENT,       \* packets of the connection, PSN 0 .. SENT - 1
          ENDS,       \* end PSNs of the messages
          NAK_LOSS    \* hardware NAKs may be lost, repeated and reordered

ASSUME SenderAssumption ==
  /\ SENT \in Nat /\ SENT + WINDOW < MAX_PSN_WINDOW
  /\ ENDS \subseteq 1 .. SENT /\ NAK_LOSS \in BOOLEAN

VARIABLES
  arrived,     \* PSNs that reached the receiver's memory
  peerWin,     \* the receiver's window entry
  peerStalled, \* the window storage has met a stale packet
  ackMsn,      \* NAKs the receiver's hardware has sent
  naks,        \* NAK packets on the wire
  ack,         \* driver ACK on the wire; a newer one replaces it
  nakseen,     \* NAKs taken in order, when they cannot be lost
  remote       \* RemoteAckTracker

senderVars == <<arrived, peerWin, peerStalled, ackMsn, naks, ack, nakseen, remote>>

SenderInit ==
  /\ arrived = {} /\ peerWin = ResetEntry /\ peerStalled = FALSE /\ ackMsn = 0
  /\ naks = {} /\ ack = NoPsn /\ nakseen = 0 /\ remote = NewRemote

\* genAutoAckEthPacket: the NAK is numbered with the old value of ackMsn and
\* carries the window before and after the slide.
NakPacket(m) == [msn |-> ackMsn, old |-> m.old, new |-> m.new]

\* A packet arrives and the window is updated; a loss sends a NAK packet.
PeerRxPacket ==
  \E psn \in 0 .. SENT - 1 :
    /\ arrived' = arrived \cup {psn}
    /\ IF peerStalled THEN UNCHANGED <<peerWin, peerStalled, ackMsn, naks>>
       ELSE LET m == Merge(peerWin, psn)
            IN /\ peerWin' = m.entry /\ peerStalled' = m.stale
               /\ ackMsn' = ackMsn + (IF m.lost THEN 1 ELSE 0)
               /\ naks' = IF m.lost THEN naks \cup {NakPacket(m)} ELSE naks
    /\ UNCHANGED <<ack, nakseen, remote>>

\* The receiving driver acknowledges a message, or answers a retransmitted
\* Last packet with its base: both carry a PSN before which all arrived.
DriverAck ==
  \E e \in ENDS :
    /\ 0 .. e - 1 \subseteq arrived
    /\ ack' = e
    /\ UNCHANGED <<arrived, peerWin, peerStalled, ackMsn, naks, nakseen, remote>>

\* handle_ack_remote_driver, and the tracker part of handle_nak_remote_driver
HandleDriverAck ==
  /\ ack # NoPsn
  /\ remote' = RemoteAckBefore(remote, ack).r
  /\ UNCHANGED <<arrived, peerWin, peerStalled, ackMsn, naks, ack, nakseen>>

\* the tracker part of handle_nak_remote_hw
HandleHwNak ==
  \E n \in naks :
    /\ NAK_LOSS \/ n.msn = nakseen
    /\ nakseen' = IF NAK_LOSS THEN nakseen ELSE nakseen + 1
    /\ remote' = RemoteNakBitmap(remote, n.msn, RemapPsn(n.old.left), n.old.data,
                                 RemapPsn(n.new.left), n.new.data).r
    /\ UNCHANGED <<arrived, peerWin, peerStalled, ackMsn, naks, ack>>

SenderNext == PeerRxPacket \/ DriverAck \/ HandleDriverAck \/ HandleHwNak

SenderSpec == SenderInit /\ [][SenderNext]_senderVars

----------------------------------------------------------------------------
\* The sending driver never counts a packet as acknowledged that the receiver
\* does not have, whatever ACKs and NAKs reached it: otherwise a work request
\* completes, and leaves the retransmission queue, with its data lost
\* (RemoteAckTracker::nak_bitmap, psn_tracker.rs:58).
RemoteAckSound == Acknowledged(remote.t) \subseteq arrived

\* The sender's base moves forward only: a late or repeated acknowledgement
\* takes nothing back (ack_before returns early on a PSN behind the base).
BaseMonotone == [][PsnLe(remote.t.base, remote'.t.base)]_senderVars

----------------------------------------------------------------------------
(* The inductive invariant, when the NAK packets arrive in order *)

Nak == [msn : Nat, old : EntryBelow(SENT), new : EntryBelow(SENT)]

\* The values of the variables: all windows are windows of the connection.
SenderTypeOK ==
  /\ arrived \in SUBSET (0 .. SENT - 1) /\ peerWin \in EntryBelow(SENT) /\ peerStalled \in BOOLEAN
  /\ ackMsn \in Nat /\ nakseen \in Nat /\ naks \in SUBSET Nak
  /\ ack \in ENDS \cup {NoPsn}
  /\ remote \in [t : Tracker(SENT), msn_pre : Nat, psn_pre : 0 .. SENT]

\* Windows and acknowledgements on the wire tell only of packets that arrived,
\* and no two NAKs have the same number.
WireShows ==
  /\ Shows(peerWin, arrived) /\ nakseen <= ackMsn
  /\ \A n \in naks : n.msn < ackMsn /\ Shows(n.old, arrived) /\ Shows(n.new, arrived)
  /\ \A n1, n2 \in naks : n1.msn = n2.msn => n1 = n2
  /\ ack # NoPsn => 0 .. ack - 1 \subseteq arrived

\* A packet behind the window of the last NAK taken, or behind the window of a
\* NAK on the wire that comes before number k.
NakPassed(p, k) ==
  \/ p < remote.psn_pre
  \/ \E n \in naks : n.msn >= nakseen /\ n.msn < k /\ p < Start(n.new.left)

\* No window slides over a missing packet without a NAK.
HolesNaked ==
  \A p \in (0 .. SENT - 1) \ arrived :
    /\ \A n \in naks : n.msn >= nakseen /\ p < Start(n.old.left) => NakPassed(p, n.msn)
    /\ p < Start(peerWin.left) => NakPassed(p, ackMsn)

SenderInv == /\ SenderTypeOK /\ WireShows /\ HolesNaked
        /\ CountsOnly(remote.t, arrived)
=============================================================================
