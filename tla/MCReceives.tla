----------------------------- MODULE MCReceives -----------------------------
(* The way of a receive for TLC: one part of it runs, its announcement        *)
(* (QpConnect), its match with a posted operation at the sender               *)
(* (PendingMatch) or its completion (RecvCompletion), the others stay as they *)
(* start.                                                                     *)
EXTENDS RecvCompletion

CONSTANTS SENDS, RECVS, CAPACITY, PEERS, INDEX, KEYS, POSTS

VARIABLES part,
  sent, announced, pending, recvs, th, out, refused,
  used, attr, tx, linked, early, queues, chan, qp, gone, receives, dropped, given

matchVars == <<sent, announced, pending, recvs, th, out, refused>>
qpVars == <<used, attr, tx, linked, early, queues, chan, qp, gone, receives, dropped, given>>

Match == INSTANCE PendingMatch WITH posted <- sent, arrived <- announced

Qp == INSTANCE QpConnect WITH recvs <- queues, posted <- receives

ASSUME PartConstants == Match!PendingAssumption /\ Qp!ConnectAssumption

Msg(n, op, ack) == [n |-> n, op |-> op, ack |-> ack]

\* Two SENDs around a READ request of the peer.
Sends == [msgs |-> << Msg(1, "recv", FALSE), Msg(1, "readreq", TRUE), Msg(2, "recv", TRUE) >>,
          reads |-> << >>]
\* A SEND between the responses of two READs.
Reads == [msgs |-> << Msg(1, "resp", FALSE), Msg(1, "recv", TRUE), Msg(2, "resp", FALSE) >>,
          reads |-> <<TRUE, TRUE>>]
\* A WRITE with a middle packet, in front of a SEND.
Writes == [msgs |-> << Msg(3, "write", TRUE), Msg(1, "recv", FALSE) >>, reads |-> << >>]
MCLoads == <<Sends, Reads, Writes>>

\* Two SENDs of one packet.
MCTwoSends == << [msgs |-> << Msg(1, "recv", TRUE), Msg(1, "recv", TRUE) >>, reads |-> << >>] >>
\* ... and two READs, the first not signaled.
MCEdges == MCTwoSends \o
  << [msgs |-> << Msg(1, "resp", FALSE), Msg(1, "resp", FALSE) >>, reads |-> <<FALSE, TRUE>>] >>

\* two connections between two hosts
MCPeers == << {"a", "b"}, {"a", "b"} >>
MCPosts == [h \in {"a", "b"} |-> IF h = "a" THEN 2 ELSE 0]

\* The last SEND does not fit the last receive.
MCSends == << [kind |-> "send", len |-> 1], [kind |-> "write", len |-> 1],
              [kind |-> "imm", len |-> 1], [kind |-> "send", len |-> 1], [kind |-> "send", len |-> 1] >>
MCRecvs == <<1, 1, 1, 2>>

\* smaller instances of the first two parts
MCThree == << {"a", "b"}, {"a", "c"} >>
MCPostsThree == [h \in {"a", "b", "c"} |-> 1]
MCThreeSends == << [kind |-> "write", len |-> 1], [kind |-> "send", len |-> 1],
                   [kind |-> "send", len |-> 1] >>
MCTwoRecvs == <<1, 1>>

MCInit ==
  /\ part \in {"announce", "match", "complete"}
  /\ Init /\ (part # "complete" => load = 1)
  /\ Match!Init /\ Qp!Init

MCNext ==
  \/ part = "announce" /\ Qp!Next /\ UNCHANGED <<part, vars, matchVars>>
  \/ part = "match" /\ Match!Next /\ UNCHANGED <<part, vars, qpVars>>
  \/ part = "complete" /\ Next /\ UNCHANGED <<part, matchVars, qpVars>>

MCSpec == MCInit /\ [][MCNext]_<<part, vars, matchVars, qpVars>>

AnnounceSpec == part = "announce" /\ MCSpec
MatchSpec == part = "match" /\ MCSpec
CompleteSpec == part = "complete" /\ MCSpec

----------------------------------------------------------------------------
\* The receives a host has posted to a queue pair are, in the order of posting,
\* those in the queue of the peer queue pair (and nothing else is in it), those on
\* the stream, and those kept until update_qp; or their announcement came before
\* the peer's update_qp and was dropped.
ReceivesConserved == Qp!ReceivesConserved

\* Every operation post_send accepted is sent at most once and is never lost: it
\* waits, a thread of try_match_pendings holds it, or it was sent; and no receive
\* serves two operations.
EachOnce == Match!EachOnce

\* No match is missed by try_match_pendings: when both threads are done, the
\* queue is empty, or its head waits for a receive that has not been announced,
\* or does not fit.
NoMissedMatch == Match!NoMissedMatch

\* A SEND always finds a receive: no thread fails an assertion or unwraps the
\* front of an empty queue (ctx.rs:324, 330, 373, 386).
MatchNeverPanics == Match!MatchNeverPanics

\* An operation that waits for a receive blocks those behind it: operations are
\* sent in the order they were posted.
HeadBlocks == Match!HeadBlocks

\* No announcement is dropped (ctx.rs:570 asks whether a receive may be posted
\* as soon as the queue pair is ready).
NoneDropped == Qp!NoneDropped

\* A receive is kept in the INIT state and sent to the peer after that
\* (ctx.rs:707, 714): a queue pair has no stream, or one to its peer's host.
StreamIsOwn == Qp!StreamIsOwn
=============================================================================
