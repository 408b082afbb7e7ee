--------------------------- MODULE MCHistorySync ---------------------------
(***************************************************************************)
(* HistorySync in two scenarios: all chunks and nothing goes wrong, or the *)
(* latest chunks with failures, reconnects and a sync-retry.               *)
(***************************************************************************)
EXTENDS HistorySync, TLC

CONSTANT MaxFaults    \* failures and reconnects

VARIABLES
    calm,             \* the first scenario
    faults, retried

mcVars == <<vars, calm, faults, retried>>

MCInit == Init /\ calm \in BOOLEAN /\ faults = 0 /\ retried = FALSE

Sent == IF calm THEN Chunk ELSE Latest

MCNext ==
    /\ UNCHANGED calm
    /\ \/ /\ Steps \/ \E c \in Sent : ChunkArrives(c)
          /\ UNCHANGED <<faults, retried>>
       \/ ~calm /\ faults < MaxFaults /\ Faults /\ faults' = faults + 1 /\ UNCHANGED retried
       \/ ~calm /\ ~retried /\ RetryReset /\ retried' = TRUE /\ UNCHANGED faults

MCSpec == MCInit /\ [][MCNext]_mcVars

\* Without failures, and however chunks and timers interleave, the sync does
\* not come to rest as pending or syncing (see NeverHangs).
NeverHangsCalmly == calm => NeverHangs

\* The types, and: the sync never rests unfinished (updateSyncProgress, resetSyncTimeout).
SyncInv == TypeOK /\ NeverHangsCalmly
=============================================================================
