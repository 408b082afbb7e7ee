-------------------------- MODULE MCWebhookDelivery --------------------------
(* WebhookDelivery with a bounded number of faults and calls of the admin:   *)
(* one for several jobs, three for a single job (the others are over).       *)
EXTENDS WebhookDelivery

CONSTANT MaxEvents
VARIABLE left

MCInit ==
    \/ Init /\ left = 1
    \/ /\ left = MaxEvents
       /\ \E j \in Job : at = [i \in Job |-> IF i = j THEN "unsent" ELSE "done"]
       /\ hook = [h \in Hook |-> [state |-> "on", fails |-> 0]]
       /\ todo = [j \in Job |-> {}] /\ now = [j \in Job |-> NoHook]
       /\ tries = [j \in Job |-> 0] /\ got = [j \in Job |-> [h \in Hook |-> 0]]
       /\ count = 0 /\ again = {} /\ drift = FALSE

MCNext ==
    \/ ((\E j \in Job : Steps(j)) \/ Expire) /\ UNCHANGED left
    \/ left > 0 /\ (Faults \/ Admin) /\ left' = left - 1

MCSpec == MCInit /\ [][MCNext]_<<vars, left>> /\ Fairness
=============================================================================
