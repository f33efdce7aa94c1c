------------------------------- MODULE MCAcks -------------------------------
(* Acknowledgements for TLC: either the receiving driver of AckReceiver or    *)
(* the sending one of AckSender runs, the other stays as it starts.  Windows  *)
(* of two strides of two packets.                                             *)
EXTENDS AckReceiver, AckSender

VARIABLE side

MCReported == {0, 3, 5}

MCInit == Init /\ SenderInit /\ side \in {"receiver", "sender"}

MCNext ==
  \/ side = "receiver" /\ Next /\ UNCHANGED <<side, senderVars>>
  \/ side = "sender" /\ SenderNext /\ UNCHANGED <<side, vars>>

MCSpec == MCInit /\ [][MCNext]_<<side, vars, senderVars>>
=============================================================================
