---------------------------- MODULE WindowStore ----------------------------
(* What the receive-window storage promises: each queue pair has an entry,    *)
(* and a packet is merged into it, or the entry reset, in one atomic step.    *)
EXTENDS BitmapWindow

CONSTANTS Row,      \* rows of the storage: queue pair indices
          PSNS      \* PSNs of the packets

VARIABLE store

StoreInit == store = [r \in Row |-> ResetEntry]

Update(r, psn) == store' = [store EXCEPT ![r] = Merge(store[r], psn).entry]

Reset(r) == store' = [store EXCEPT ![r] = ResetEntry]

StoreNext == \E r \in Row : Reset(r) \/ \E psn \in PSNS : Update(r, psn)

StoreSpec == StoreInit /\ [][StoreNext]_store
=============================================================================
