------------------------------- MODULE MCSend -------------------------------
(* The way of a request to the card for TLC: either the workers of SendPath   *)
(* run, over rings that are queues, or one such ring as H2cRing has it, four  *)
(* slots read in blocks of two; the other part stays as it starts.            *)
EXTENDS H2cRing

CONSTANTS d1, d2, w1, w2, LOADS, WORKERS, PMTU, CHUNK_SIZE, BATCH, RING

VARIABLES part, load, psn, base, resent, iter, injector, local, held, mode, ring, sent

Path == INSTANCE SendPath

ASSUME PathConstants == Path!SendAssumption

MCDesc == {d1, d2}

Req(a, n, lost) == [addr |-> a, len |-> n, lost |-> lost]

\* requests of either alignment and up to four chunks; short ones that are
\* resent, in front of another; one of three packets that is resent
MCLoads ==
  {<<Req(0, 1, FALSE)>>} \cup
  {<<Req(a, n, FALSE), Req(0, 1, FALSE)>> : a \in 0 .. 1, n \in {4, 5, 8, 11, 13}}
  \cup {<<Req(a, n, TRUE), Req(0, 1, FALSE)>> : a \in 0 .. 1, n \in {0, 2, 3}}
  \cup {<<Req(a, 5, TRUE)>> : a \in 0 .. 1}

\* An unaligned request of three packets, and one behind it.
MCUnaligned == {<<Req(1, 5, FALSE), Req(0, 1, FALSE)>>}

pathVars == <<load, psn, base, resent, iter, injector, local, held, mode, ring, sent>>

\* The ring starts zeroed: which descriptor stands for the zero is immaterial.
MCInit ==
  /\ Init /\ mem = [s \in Slot |-> d1]
  /\ Path!Init
  /\ part \in {"path", "ring"}
  /\ part = "ring" => load = <<Req(0, 1, FALSE)>>

MCNext ==
  \/ part = "path" /\ Path!Next /\ UNCHANGED <<part, vars>>
  \/ part = "ring" /\ Next /\ UNCHANGED <<part, pathVars>>

MCSpec == MCInit /\ [][MCNext]_<<part, vars, pathVars>> /\ Fairness /\ Path!Fairness

----------------------------------------------------------------------------
\* Once the queues are empty, every byte of a request has been sent by exactly
\* one packet of at most PMTU bytes, numbered from the first PSN on in the order
\* of addresses, and the ends are marked First and Last: whichever SendWorkers
\* took its chunks, and for the retransmission too.
WholeRequestSent == Path!WholeRequestSent

\* A PSN means the same bytes each time: the chunk fragmenter with the address
\* chunker of the card, and the packet fragmenter of the retransmit worker,
\* number the packets alike.  Otherwise a resent packet fills the wrong hole.
RetryAgrees == Path!RetryAgrees

\* Requests do not share PSNs (num_psn reserves enough of them), if they start
\* at a multiple of the PMTU or fit into one packet.
PlainPsnsApart == Path!PlainPsnsApart

\* Requests do not share PSNs: num_psn reserves as many as the packets that
\* leave the card ("the number of psn required for this WR", qp.rs:91).
PsnsApart == Path!PsnsApart

\* Every chunk that was handed over leaves the card in the end: a full ring puts
\* it back (SendWorker::process), and another worker may take it.
ChunksLeave == Path!ChunksLeave
=============================================================================
