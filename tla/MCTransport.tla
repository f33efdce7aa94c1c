---------------------------- MODULE MCTransport ----------------------------
(* Transport for TLC: a few work requests of one or two packets.              *)
EXTENDS TransportDuplex

Signaled2 == [n |-> 2, sig |-> TRUE]
Signaled1 == [n |-> 1, sig |-> TRUE]
Unsignaled1 == [n |-> 1, sig |-> FALSE]

\* Both requests fit into the window of three packets, or the second has to wait.
MCLoads == << <<Signaled2, Signaled1>>, <<Signaled2, Signaled2>> >>
\* An unsignaled request in front of a signaled one, one of several packets, two
\* signaled ones.
MCLive == << <<Unsignaled1, Signaled1>>, <<Signaled2>>, <<Signaled1, Signaled1>> >>
\* One request behind the other, on a queue pair that also receives.
MCDuplex == << <<Signaled2, Signaled1>> >>
=============================================================================
