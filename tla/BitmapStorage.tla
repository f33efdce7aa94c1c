--------------------------- MODULE BitmapStorage ---------------------------
(* mkBitmapWindowStorage of PsnContinousChecker.bsv: the read-merge-write      *)
(* pipeline in front of the window BRAM.  Rules fire independently; the        *)
(* register bitmapUpdateBusyReg keeps a second update from reading the BRAM    *)
(* before the first one is written back.                                       *)
EXTENDS BitmapWindow, Sequences

CONSTANTS Row,      \* rows of the BRAM: queue pair indices
          PSNS,     \* PSNs of the arriving packets
          QLEN      \* depth of the request, reset and response queues

ASSUME StorageAssumption == PSNS \subseteq PSN /\ QLEN \in Nat \ {0}

VARIABLES
  reqs,      \* reqPipeInQueue
  resets,    \* resetReqPipeInQ
  busy,      \* bitmapUpdateBusyReg
  s12,       \* stageOneToTwoPipelineQueue, with the BRAM value read for it
  s23,       \* stageTwoToThreePipelineQueue
  resps,     \* respPipeOutQueue
  store      \* the BRAM

vars == <<reqs, resets, busy, s12, s23, resps, store>>

Empty == [full |-> FALSE]

Init ==
  /\ reqs = <<>> /\ resets = <<>> /\ resps = <<>>
  /\ busy = FALSE /\ s12 = Empty /\ s23 = Empty
  /\ store = [r \in Row |-> ResetEntry]

----------------------------------------------------------------------------
(* The users of the storage: packets, queue pair resets, response consumer *)

Request ==
  \E r \in Row, psn \in PSNS :
    /\ Len(reqs) < QLEN
    /\ reqs' = Append(reqs, [row |-> r, psn |-> psn])
    /\ UNCHANGED <<resets, busy, s12, s23, resps, store>>

ResetRequest ==
  \E r \in Row :
    /\ Len(resets) < QLEN
    /\ resets' = Append(resets, r)
    /\ UNCHANGED <<reqs, busy, s12, s23, resps, store>>

TakeResponse ==
  /\ resps # <<>>
  /\ resps' = Tail(resps)
  /\ UNCHANGED <<reqs, resets, busy, s12, s23, store>>

----------------------------------------------------------------------------
(* The pipeline *)

\* a plausible slip: two updates in the pipeline at once
StageOneReady_NoBusy == ~s12.full

\* guard of sendBramQueryReqAndGenOneHotBitmap
StageOneReady == ~busy /\ ~s12.full

StageOneReset ==
  /\ StageOneReady /\ resets # <<>>
  /\ busy' = TRUE
  /\ s12' = [full |-> TRUE, row |-> Head(resets), reset |-> TRUE, psn |-> 0,
             read |-> ResetEntry]
  /\ resets' = Tail(resets)
  /\ UNCHANGED <<reqs, s23, resps, store>>

StageOneRequest ==
  /\ StageOneReady /\ resets = <<>> /\ reqs # <<>>
  /\ busy' = TRUE
  /\ s12' = [full |-> TRUE, row |-> Head(reqs).row, reset |-> FALSE,
             psn |-> Head(reqs).psn, read |-> store[Head(reqs).row]]
  /\ reqs' = Tail(reqs)
  /\ UNCHANGED <<resets, s23, resps, store>>

\* getBramQueryRespAndMergeThem.  A stale packet is answered and dropped:
\* nothing is handed to stage three.
StageTwo ==
  /\ s12.full /\ ~s23.full
  /\ s12' = Empty
  /\ IF s12.reset
     THEN /\ s23' = [full |-> TRUE, row |-> s12.row, entry |-> ResetEntry]
          /\ UNCHANGED resps
     ELSE LET m == Merge(s12.read, s12.psn)
          IN /\ Len(resps) < QLEN
             /\ resps' = Append(resps, [row |-> s12.row, lost |-> m.lost])
             /\ s23' = IF m.stale THEN Empty
                       ELSE [full |-> TRUE, row |-> s12.row, entry |-> m.entry]
  /\ UNCHANGED <<reqs, resets, busy, store>>

StageThree_BusyKept ==
  /\ busy /\ s23.full
  /\ store' = [store EXCEPT ![s23.row] = s23.entry]
  /\ s23' = Empty
  /\ UNCHANGED <<reqs, resets, busy, s12, resps>>

\* doBramWriteBack: the only place that clears the busy register
StageThree ==
  /\ busy /\ s23.full
  /\ store' = [store EXCEPT ![s23.row] = s23.entry]
  /\ s23' = Empty /\ busy' = FALSE
  /\ UNCHANGED <<reqs, resets, s12, resps>>

Next == \/ Request \/ ResetRequest \/ TakeResponse
        \/ StageOneReset \/ StageOneRequest \/ StageTwo \/ StageThree

\* A rule of the hardware fires in every cycle its guard holds, and the
\* consumer of the responses (handleMergedBitmap) drains its queue.
Fairness == /\ WF_vars(TakeResponse)
            /\ WF_vars(StageOneReset) /\ WF_vars(StageOneRequest)
            /\ WF_vars(StageTwo) /\ WF_vars(StageThree)

Spec == Init /\ [][Next]_vars /\ Fairness

----------------------------------------------------------------------------
Atomic == INSTANCE WindowStore

\* Atomic updates: the pipeline, with its read in one stage and its write two
\* stages later, behaves as if every packet were merged in one step.
AtomicUpdates == Atomic!StoreSpec

\* The update in flight works on the current entry: what stage one read is
\* still in the BRAM when stage two merges into it, and what stage two hands
\* over is one merge away from it (bitmapUpdateBusyReg).
ReadIsFresh ==
  /\ (s12.full /\ ~s12.reset) => s12.read = store[s12.row]
  /\ s23.full => \/ s23.entry = ResetEntry
                    \/ \E psn \in PSNS : s23.entry = Merge(store[s23.row], psn).entry

\* A row of the BRAM, and what the queues between the stages hold.
Stage12 == {Empty} \cup [full : {TRUE}, row : Row, reset : BOOLEAN, psn : PSN, read : Entry]
Stage23 == {Empty} \cup [full : {TRUE}, row : Row, entry : Entry]

\* Every variable has its type; no bit lies outside the window.
TypeOK ==
  /\ reqs \in Seq([row : Row, psn : PSNS]) /\ resets \in Seq(Row)
  /\ busy \in BOOLEAN /\ s12 \in Stage12 /\ s23 \in Stage23
  /\ resps \in Seq([row : Row, lost : BOOLEAN]) /\ store \in [Row -> Entry]

\* At most one update is between its read and its write, and the busy register
\* is set meanwhile.
OneInFlight ==
  /\ (s12.full \/ s23.full) => busy
  /\ ~(s12.full /\ s23.full)
  /\ (s12.full /\ ~s12.reset) => s12.psn \in PSNS

\* The inductive invariant behind ReadIsFresh and AtomicUpdates.
IInv == TypeOK /\ OneInFlight /\ ReadIsFresh

\* The busy register is released after every update: "bitmapUpdateBusyReg
\* makes sure the pipeline runs to completion", so that packets of every queue
\* pair keep being merged.
PipelineDrains == busy ~> ~busy

\* A queue pair reset reaches the BRAM although packets keep arriving.
ResetTakesEffect ==
  \A r \in Row : (resets # <<>> /\ resets[1] = r) ~> (store[r] = ResetEntry)
=============================================================================
