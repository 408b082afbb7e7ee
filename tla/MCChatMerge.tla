----------------------------- MODULE MCChatMerge -----------------------------
(* ChatMerge with a bounded number of events from outside, and none beside a *)
(* message of a history batch.  The messages of a kind are interchangeable,  *)
(* and so are the savers: they are numbers, and the smaller ones begin first.*)
EXTENDS ChatMerge

CONSTANTS MaxEvents, MaxBatch
VARIABLE events

InOrder ==
    /\ \A m, n \in Msg :
          m < n => /\ n \notin batch => m \notin batch
                   /\ (m \in batch) = (n \in batch) /\ at[n] # "new" => at[m] # "new"
    /\ \A k, l \in Saver : k < l /\ saver[l] # "idle" => saver[k] # "idle"

MCInit == /\ Init /\ InOrder /\ Cardinality(batch) <= MaxBatch
          /\ events = IF batch = {} THEN 0 ELSE MaxEvents

MCNext ==
    /\ \/ /\ \/ \E m \in Msg : JobSteps(m)
             \/ \E k \in Saver : SaveSteps(k)
             \/ \E j \in Jid : SyncSteps(j)
          /\ UNCHANGED events
       \/ events < MaxEvents /\ Outside /\ events' = events + 1
    /\ InOrder'

MCSpec == MCInit /\ [][MCNext]_<<vars, events>> /\ Fairness
=============================================================================
