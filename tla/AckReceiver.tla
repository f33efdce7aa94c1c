---------------------------- MODULE AckReceiver ----------------------------
(* The receiving end of one direction of one queue pair, from the packets on  *)
(* the wire to the acknowledgement tracker of the receiving driver:           *)
(*                                                                            *)
(*   wire -> bitmap window -> ack meta -> local NAK / poll descriptors --+    *)
(*       \      (RTL)          (RTL)                     LocalAckTracker <+    *)
(*        +-> header descriptors ---------------------------------------+    *)
(*                                                                            *)
(* Packets are lost, duplicated and reordered: a packet may arrive at any     *)
(* time, any number of times, or never, first or retransmitted.               *)
EXTENDS BitmapWindow, PsnTracker, Sequences

CONSTANTS N,            \* packets of the connection, PSN 0 .. N - 1
          REPORTED,     \* First, Last and Only packets: always reported
          QLEN,         \* bound on the queues
          POLL_IN_GAP   \* the poller may sample between the two BRAM updates

ASSUME ReceiverAssumption ==
  /\ N \in Nat /\ N + WINDOW < MAX_PSN_WINDOW /\ QLEN \in Nat \ {0}
  /\ REPORTED \subseteq 0 .. N - 1 /\ POLL_IN_GAP \in BOOLEAN

VARIABLES
  rcvd,      \* PSNs that reached the receiver's memory
  win,       \* bitmap window entry in the BRAM
  stalled,   \* bitmapUpdateBusyReg stays set: no further update is started
  resps,     \* bitmap responses on their way to the ack-meta storage
  meta,      \* ack-meta entry: hasReported, and whether the time of the last
             \* packet differs from the last reported time
  polled,    \* pollingTimeoutDescQueue: at most one entry
  metaq,     \* NakLocalHw and AckLocalHw descriptors, in the report ring
  hdrs,      \* PSNs of header descriptors not yet handled
  local      \* LocalAckTracker of the receiving driver

vars == <<rcvd, win, stalled, resps, meta, polled, metaq, hdrs, local>>

NoEntry == [left |-> -1, data |-> {}]

Init ==
  /\ rcvd = {} /\ win = ResetEntry /\ stalled = FALSE /\ resps = <<>>
  /\ meta = [hasReported |-> TRUE, fresh |-> FALSE]
  /\ polled = NoEntry /\ metaq = <<>> /\ hdrs = {} /\ local = NewLocal

----------------------------------------------------------------------------
(* Hardware *)

\* handleConResp, forwardInputReqToPsnBitMapStorage and the three stages of
\* the bitmap storage: the payload is written, the window is updated, and a
\* header descriptor is produced (genMetaReportQueueDesc: a Middle packet is
\* reported only when it is a retransmission).  After a stale packet
\* bitmapUpdateBusyReg stays set: headers go on, the window does not.
RxPacket ==
  \E psn \in 0 .. N - 1, retry \in BOOLEAN :
    /\ rcvd' = rcvd \cup {psn}
    /\ hdrs' = IF retry \/ psn \in REPORTED THEN hdrs \cup {psn} ELSE hdrs
    /\ Cardinality(hdrs') <= QLEN
    /\ IF stalled THEN UNCHANGED <<win, stalled, resps>>
       ELSE LET m == Merge(win, psn)
            IN /\ Len(resps) < QLEN
               /\ win' = m.entry /\ stalled' = m.stale
               /\ resps' = Append(resps, [lost |-> m.lost, old |-> m.old, new |-> m.new])
    /\ UNCHANGED <<meta, polled, metaq, local>>

\* handleMergedBitmap, the ack-meta storage with atomicUpdateFunction,
\* genAutoAckEthPacket and genAutoAckReportDescriptor: a loss is reported to
\* the local driver with the window before and after the slide.
UpdateAckMeta ==
  /\ resps # <<>>
  /\ LET r == Head(resps)
     IN /\ resps' = Tail(resps)
        /\ meta' = [hasReported |-> r.lost, fresh |-> TRUE]
        /\ IF r.lost
           THEN /\ Len(metaq) < QLEN
                /\ metaq' = Append(metaq, [nak |-> TRUE, old |-> r.old, new |-> r.new])
           ELSE UNCHANGED metaq
  /\ UNCHANGED <<rcvd, win, stalled, polled, hdrs, local>>

\* sendPollingReq, getPollingResp and handlePollingResult: read the window and
\* the ack meta, and report the window when a packet has not been reported.
PollWindow ==
  /\ polled = NoEntry
  /\ POLL_IN_GAP \/ resps = <<>>
  /\ meta.fresh
  /\ meta' = [meta EXCEPT !.fresh = FALSE]
  /\ polled' = IF meta.hasReported THEN NoEntry ELSE win
  /\ UNCHANGED <<rcvd, win, stalled, resps, metaq, hdrs, local>>

\* forwardMetaReportDescToOutput, for the polling queue: a NAK descriptor that
\* is ready overtakes a poll descriptor that waits.
ForwardPoll ==
  /\ polled # NoEntry /\ Len(metaq) < QLEN
  /\ metaq' = Append(metaq, [nak |-> FALSE, old |-> NoEntry, new |-> polled])
  /\ polled' = NoEntry
  /\ UNCHANGED <<rcvd, win, stalled, resps, meta, hdrs, local>>

----------------------------------------------------------------------------
(* Driver: MetaHandler on the receive table *)

\* handle_ack_local_hw and handle_nak_local_hw
HandleLocalHw ==
  /\ metaq # <<>>
  /\ LET d == Head(metaq)
     IN local' = IF d.nak
                 THEN LocalNakBitmap(local, RemapPsn(d.old.left), d.old.data,
                                     RemapPsn(d.new.left), d.new.data).l
                 ELSE LocalAckBitmap(local, RemapPsn(d.new.left), d.new.data).l
  /\ metaq' = Tail(metaq)
  /\ UNCHANGED <<rcvd, win, stalled, resps, meta, polled, hdrs>>

\* handle_header_write acknowledges the packet; headers and window reports
\* come through different pipelines, in any order.
HandleHeader ==
  \E psn \in hdrs :
    /\ local' = LocalAckOne(local, psn).l
    /\ hdrs' = hdrs \ {psn}
    /\ UNCHANGED <<rcvd, win, stalled, resps, meta, polled, metaq>>

Next == \/ RxPacket \/ UpdateAckMeta \/ PollWindow \/ ForwardPoll
        \/ HandleLocalHw \/ HandleHeader

Spec == Init /\ [][Next]_vars

----------------------------------------------------------------------------
\* The receiving driver never takes a packet for received that did not arrive,
\* so that a message is delivered, and acknowledged to the peer, only when all
\* of it is there.  LocalAckTracker infers the packets between two reported
\* windows (psn_tracker.rs:17,32) from reports of two pipelines.
LocalAckSound == Acknowledged(local.t) \subseteq rcvd

\* The window never shows a packet that did not arrive, through slides, late
\* packets and duplicates (getBramQueryRespAndMergeThem).
WindowSound ==
  \A b \in win.data :
    LET p == PsnAdd(RemapPsn(win.left), b) IN p < MAX_PSN_WINDOW => p \in rcvd

----------------------------------------------------------------------------
(* The inductive invariant *)

Resp == [lost : BOOLEAN, old : EntryBelow(N), new : EntryBelow(N)]
NakDesc == [nak : {TRUE}, old : EntryBelow(N), new : EntryBelow(N)]
PollDesc == [nak : {FALSE}, old : {NoEntry}, new : EntryBelow(N)]

\* The values of the variables: all windows are windows of the connection.
TypeOK ==
  /\ rcvd \in SUBSET (0 .. N - 1) /\ hdrs \in SUBSET rcvd
  /\ win \in EntryBelow(N) /\ stalled \in BOOLEAN
  /\ resps \in Seq(Resp) /\ meta \in [hasReported : BOOLEAN, fresh : BOOLEAN]
  /\ polled \in EntryBelow(N) \cup {NoEntry}
  /\ metaq \in Seq(NakDesc \cup PollDesc)
  /\ local \in [t : Tracker(N), psn_pre : 0 .. N]

\* Every window on its way to the driver shows only packets that arrived.
WindowsShow ==
  /\ Shows(win, rcvd)
  /\ polled # NoEntry => Shows(polled, rcvd)
  /\ \A i \in DOMAIN resps : Shows(resps[i].old, rcvd) /\ Shows(resps[i].new, rcvd)
  /\ \A i \in DOMAIN metaq : /\ metaq[i].nak => Shows(metaq[i].old, rcvd)
                            /\ Shows(metaq[i].new, rcvd)

\* A packet behind the last window the driver has seen, or behind the window
\* after the slide in one of the first k descriptors: no report can count it.
Passed(p, k) ==
  \/ p < local.psn_pre
  \/ \E i \in 1 .. k : metaq[i].nak /\ p < Start(metaq[i].new.left)

\* The same, for the first k responses that follow all descriptors.
PassedResp(p, k) ==
  \/ Passed(p, Len(metaq))
  \/ \E i \in 1 .. k : resps[i].lost /\ p < Start(resps[i].new.left)

\* The first window of a report, from which the driver infers packets.
From(d) == Start(IF d.nak THEN d.old.left ELSE d.new.left)

\* No window slides over a missing packet unnoticed: a missing packet behind a
\* window has been passed by an earlier report of a loss.
HolesReported ==
  \A p \in (0 .. N - 1) \ rcvd :
    /\ \A i \in DOMAIN metaq : p < From(metaq[i]) => Passed(p, i - 1)
    /\ \A i \in DOMAIN resps : p < Start(resps[i].old.left) => PassedResp(p, i - 1)
    /\ polled # NoEntry /\ p < Start(polled.left) => Passed(p, Len(metaq))
    /\ p < Start(win.left) => PassedResp(p, Len(resps))

IInv == /\ TypeOK /\ WindowsShow /\ HolesReported
        /\ CountsOnly(local.t, rcvd)
=============================================================================
