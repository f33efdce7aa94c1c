------------------------------ MODULE QpConnect ------------------------------
(* The life of queue pairs and the announcement of their receives.  A host    *)
(* announces each posted receive to the host of the peer queue pair, over one *)
(* TCP stream for each pair of hosts; what is posted before update_qp has     *)
(* named the peer is kept and sent then.  Tables are indexed by the index     *)
(* part of the QPN.  One lock of the device context covers each call; the     *)
(* RecvWorker of a stream is a thread of its own.                             *)
EXTENDS Naturals, Sequences, SequencesExt, FiniteSetsExt

CONSTANTS PEERS,    \* connections the applications make: pairs of hosts
          INDEX,    \* indices of queue pairs on a host
          KEYS,     \* random parts of a QPN
          POSTS     \* receives each host posts to a queue pair, at most

CONNS == DOMAIN PEERS
HOSTS == UNION {PEERS[c] : c \in CONNS}
Other(h, c) == CHOOSE g \in PEERS[c] : g # h

\* what the constants satisfy
ConnectAssumption ==
  /\ \A c \in DOMAIN PEERS : Cardinality(PEERS[c]) = 2
  /\ INDEX \subseteq Nat \ {0} /\ POSTS \in [HOSTS -> Nat]

VARIABLES
  used,      \* QpManager::bitmap
  attr,      \* qp_attr_table: [qpn, dqpn, dip]
  tx,        \* post_recv_tx_table: the host at the other end of the stream
  linked,    \* ip_tx_table: hosts there is a stream to
  early,     \* pending_post_recv_queue
  recvs,     \* recv_wr_queue_table
  chan,      \* the streams: [wr, qpn]
  qp, gone,  \* QPN a host has for a connection; the ones it has destroyed
  posted,    \* history: receives posted by a host to a connection
  dropped,   \* history: receives whose announcement was thrown away
  given      \* history: how often an index was given out, counted up to 2

qpVars == <<used, attr, tx, linked, early, recvs, chan, qp, gone, posted, dropped, given>>

NoQpn == <<>>
NoHost == "none"

Init ==
  /\ used = [h \in HOSTS |-> {}]
  /\ attr = [h \in HOSTS |-> [i \in INDEX |-> [qpn |-> NoQpn, dqpn |-> NoQpn, dip |-> NoHost]]]
  /\ tx = [h \in HOSTS |-> [i \in INDEX |-> NoHost]] /\ linked = [h \in HOSTS |-> {}]
  /\ early = [h \in HOSTS |-> [i \in INDEX |-> <<>>]] /\ recvs = early
  /\ chan = [h \in HOSTS |-> [g \in HOSTS |-> <<>>]]
  /\ qp = [h \in HOSTS |-> [c \in CONNS |-> NoQpn]] /\ gone = [h \in HOSTS |-> {}]
  /\ posted = [h \in HOSTS |-> [c \in CONNS |-> <<>>]] /\ dropped = {}
  /\ given = [h \in HOSTS |-> [i \in INDEX |-> 0]]

Alive(h, c) == h \in PEERS[c] /\ qp[h][c] # NoQpn /\ c \notin gone[h]

\* qpn_to_index
Slot(h, c) == qp[h][c][1]

\* create_qp: the first free index with a random key; of the tables only the
\* attributes are touched, and of these not the peer
CreateQp(h, c) ==
  /\ h \in PEERS[c] /\ qp[h][c] = NoQpn /\ INDEX \ used[h] # {}
  /\ LET i == Min(INDEX \ used[h])
     IN \E k \in KEYS :
          /\ used' = [used EXCEPT ![h] = @ \cup {i}]
          /\ qp' = [qp EXCEPT ![h][c] = <<i, k>>]
          /\ attr' = [attr EXCEPT ![h][i].qpn = <<i, k>>]
          /\ given' = [given EXCEPT ![h][i] = Min({@ + 1, 2})]
  /\ UNCHANGED <<tx, linked, early, recvs, chan, gone, posted, dropped>>

Announcement(wr, qpn) == [wr |-> wr, qpn |-> qpn]

Connect_NoFlush(h, i, g, qpn) ==
  /\ linked' = [linked EXCEPT ![h] = @ \cup {g}] /\ tx' = [tx EXCEPT ![h][i] = g]
  /\ UNCHANGED <<chan, early>>

\* get_or_connect succeeds: the receives kept so far are sent
Connect(h, i, g, qpn) ==
  /\ linked' = [linked EXCEPT ![h] = @ \cup {g}] /\ tx' = [tx EXCEPT ![h][i] = g]
  /\ chan' = [chan EXCEPT ![h][g] = @ \o [j \in DOMAIN early[h][i] |-> Announcement(early[h][i][j], qpn)]]
  /\ early' = [early EXCEPT ![h][i] = <<>>]

\* update_qp, with the peer (to RTR, RTS) or without (to INIT)
UpdateQp(h, c) ==
  /\ Alive(h, c)
  /\ LET i == Slot(h, c)
         g == Other(h, c)
     IN /\ \/ /\ qp[g][c] # NoQpn
              /\ attr' = [attr EXCEPT ![h][i].dqpn = qp[g][c], ![h][i].dip = g]
           \/ UNCHANGED attr
        /\ LET to == attr'[h][i].dip
           IN \/ /\ to # NoHost /\ tx[h][i] = NoHost /\ Connect(h, i, to, qp[h][c])
              \/ /\ to = NoHost \/ tx[h][i] # NoHost \/ to \notin linked[h]
                 /\ UNCHANGED <<tx, linked, early, chan>>
  /\ UNCHANGED <<used, recvs, qp, gone, posted, dropped, given>>

\* post_recv; that the completion worker is told first is in RecvCompletion
PostRecv(h, c) ==
  /\ Alive(h, c) /\ Len(posted[h][c]) < POSTS[h]
  /\ LET i == Slot(h, c)
         wr == <<h, c, Len(posted[h][c]) + 1>>
     IN /\ posted' = [posted EXCEPT ![h][c] = Append(@, wr)]
        /\ IF tx[h][i] # NoHost
           THEN /\ chan' = [chan EXCEPT ![h][tx[h][i]] = Append(@, Announcement(wr, qp[h][c]))]
                /\ UNCHANGED early
           ELSE early' = [early EXCEPT ![h][i] = Append(@, wr)] /\ UNCHANGED chan
  /\ UNCHANGED <<used, attr, tx, linked, recvs, qp, gone, dropped, given>>

\* QpTableShared::query: the queue pairs of g whose peer is qpn of h
Matching(g, h, qpn) == {i \in INDEX : attr[g][i].dqpn = qpn /\ attr[g][i].dip = h}

\* RecvWorker::run on host g, up to the queue that PendingMatch starts from
RecvWr(h, g) ==
  /\ chan[h][g] # <<>>
  /\ chan' = [chan EXCEPT ![h][g] = Tail(@)]
  /\ LET m == Head(chan[h][g])
         found == Matching(g, h, m.qpn)
     IN IF found = {} THEN dropped' = dropped \cup {m.wr} /\ UNCHANGED recvs
        ELSE recvs' = [recvs EXCEPT ![g][Min(found)] = Append(@, m.wr)] /\ UNCHANGED dropped
  /\ UNCHANGED <<used, attr, tx, linked, early, qp, gone, posted, given>>

\* destroy_qp: the index becomes free, the tables stay; pending sends are left out here
DestroyQp(h, c) ==
  /\ Alive(h, c)
  /\ used' = [used EXCEPT ![h] = @ \ {Slot(h, c)}] /\ gone' = [gone EXCEPT ![h] = @ \cup {c}]
  /\ UNCHANGED <<attr, tx, linked, early, recvs, chan, qp, posted, dropped, given>>

Next ==
  \/ \E h \in HOSTS, c \in CONNS :
       CreateQp(h, c) \/ UpdateQp(h, c) \/ PostRecv(h, c) \/ DestroyQp(h, c)
  \/ \E h, g \in HOSTS : RecvWr(h, g)

Spec == Init /\ [][Next]_qpVars

----------------------------------------------------------------------------
\* The index of the queue pair has not been given out a second time.
Fresh(h, c) == qp[h][c] # NoQpn => given[h][Slot(h, c)] = 1

Under_Way(h, g, c) ==
  LET ms == SelectSeq(chan[h][g], LAMBDA m : m.wr[2] = c)
  IN [j \in DOMAIN ms |-> ms[j].wr]

\* Receives are conserved: the ones a host has posted to a queue pair are, in the
\* order of posting, those in the queue of the peer queue pair (and nothing else
\* is in it), those on the stream, and those kept until update_qp; or their
\* announcement came before the peer's update_qp and was dropped.
ReceivesConserved ==
  \A c \in CONNS : \A h \in PEERS[c] :
    LET g == Other(h, c)
    IN Fresh(h, c) /\ Fresh(g, c) =>
         SelectSeq(posted[h][c], LAMBDA wr : wr \notin dropped) =
           (IF qp[g][c] = NoQpn THEN <<>> ELSE recvs[g][Slot(g, c)]) \o Under_Way(h, g, c)
             \o (IF qp[h][c] = NoQpn THEN <<>> ELSE early[h][Slot(h, c)])

\* No announcement is dropped (ctx.rs:570 asks whether a receive may be posted
\* as soon as the queue pair is ready).
NoneDropped == dropped = {}

\* A receive is kept in the INIT state and sent to the peer after that
\* (ctx.rs:707, 714): a queue pair has no stream, or one to its peer's host.
StreamIsOwn ==
  \A h \in HOSTS, c \in CONNS :
    Alive(h, c) => tx[h][Slot(h, c)] \in {NoHost, Other(h, c)}
=============================================================================
