-------------------------- MODULE TransportDuplex --------------------------
(* Transport on a queue pair that also receives: reports about the receive    *)
(* direction reach the same four workers.                                     *)
EXTENDS Transport

CONSTANT RPSN      \* PSNs the receive direction gets to

\* handle_ack_local_hw, handle_nak_local_hw and receiver_updates: the timer is
\* restarted, and the retransmit worker is told the PSN of the receive
\* direction.  AckRecv of the completion worker is not part of this direction:
\* with no read outstanding it completes no send.
ReceiverUpdates ==
  /\ MetaRoom
  /\ \E psn \in RPSN :
       /\ tq' = Append(tq, "meta")
       /\ rq' = Append(rq, [k |-> "ack", psn |-> psn])
  /\ UNCHANGED <<rdmaVars, complVars, isq, timer, sbase, netVars>>

DuplexNext == Next \/ (~timer.dead /\ ReceiverUpdates)

DuplexSpec == Init /\ [][DuplexNext]_vars
=============================================================================
