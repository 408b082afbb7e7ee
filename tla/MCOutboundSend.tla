---------------------------- MODULE MCOutboundSend ----------------------------
(* OutboundSend with a bounded number of faults and refusals.  The replicas  *)
(* are interchangeable, and so are the generations: the first generation     *)
(* that is off is the next one, and First starts when no replica has a       *)
(* worker and nothing in the state tells them apart.                         *)
EXTENDS OutboundSend

CONSTANTS MaxFaults, First
VARIABLE faults

MCInit == Init /\ faults = 0

Normal ==
    \/ \E w \in Worker : WorkerSteps(w)
    \/ \E m \in Msg : Ask(m) \/ Publish(m) \/ QueueSteps(m)
    \/ \E r \in Replica : Starts(r)
    \/ CountDies

NobodyWorks ==
    /\ \A w \in Worker : at[w] = "off" /\ stale[w] = 0
    /\ \A m \in Msg : holder[m] = NoOwner

InOrder ==
    \A r \in Replica, g \in Generation :
        at[<<r, g>>] = "off" /\ at'[<<r, g>>] # "off"
            => /\ \A h \in Generation : h < g => at[<<r, h>>] # "off"
               /\ NobodyWorks => r = First

MCNext ==
    /\ \/ Normal /\ UNCHANGED faults
       \/ faults < MaxFaults /\ (Faults \/ \E m \in Msg : Refuse(m)) /\ faults' = faults + 1
    /\ InOrder

MCSpec == MCInit /\ [][MCNext]_<<vars, faults>> /\ Fairness
=============================================================================
