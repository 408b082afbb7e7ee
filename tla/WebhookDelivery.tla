--------------------------- MODULE WebhookDelivery ---------------------------
(***************************************************************************)
(* The webhooks of one organization: deliveries are jobs of a queue, their *)
(* number is counted in Redis (queue_count:*, which sets the priority of   *)
(* the next job), and workers POST each event to every active hook         *)
(* (events/workers/webhook.worker.ts, events/event-bus.ts,                 *)
(* modules/webhooks/webhook.service.ts).  The handlers of 'completed' and  *)
(* 'failed' are the same in every worker, so `count` stands for the        *)
(* counters of the other queues as well.                                   *)
(*                                                                         *)
(* An action is what runs between two awaits.  The worker process may die  *)
(* at any moment; BullMQ then gives its jobs to a worker again.            *)
(***************************************************************************)
EXTENDS Integers, FiniteSets

CONSTANTS
    Hook, Job,
    MaxFailures,    \* MAX_FAILURE_COUNT, 10
    Attempts,       \* attempts of a job, 5
    Workers,        \* concurrency, 10
    NoHook

ASSUME DeliveryTypes ==
    /\ IsFiniteSet(Hook) /\ IsFiniteSet(Job) /\ NoHook \notin Hook
    /\ MaxFailures \in Nat \ {0} /\ Attempts \in Nat \ {0} /\ Workers \in Nat \ {0}

VARIABLES
    hook,         \* isActive ("on", "off") or "gone", and failure_count
    at,           \* where a job is
    todo, now,    \* the hooks it still has to serve; the one it serves
    tries,        \* failed attempts
    count,        \* queue_count:{org}:webhook-delivery; 0 is no key
    got,          \* POSTs of a job that reached a hook
    again, drift  \* history: jobs run more than once; the count went wrong

vars == <<hook, at, todo, now, tries, count, got, again, drift>>

Waits  == {"waiting", "delayed"}
Active == {"picking", "posting", "ok", "bad", "logging"}
Ended  == {"completed", "failed"}
Place  == {"unsent", "counted", "emptied", "done"} \cup Waits \cup Active \cup Ended

TypeOK ==
    /\ hook \in [Hook -> [state : {"on", "off", "gone"}, fails : Nat]]
    /\ at \in [Job -> Place] /\ todo \in [Job -> SUBSET Hook]
    /\ now \in [Job -> Hook \cup {NoHook}] /\ tries \in [Job -> 0..Attempts]
    /\ count \in Int
    /\ got \in [Job -> [Hook -> Nat]]
    /\ again \in SUBSET Job /\ drift \in BOOLEAN

Init ==
    /\ hook = [h \in Hook |-> [state |-> "on", fails |-> 0]]
    /\ at = [j \in Job |-> "unsent"] /\ todo = [j \in Job |-> {}]
    /\ now = [j \in Job |-> NoHook] /\ tries = [j \in Job |-> 0]
    /\ count = 0 /\ got = [j \in Job |-> [h \in Hook |-> 0]]
    /\ again = {} /\ drift = FALSE

Goto(j, place) == at' = [at EXCEPT ![j] = place]
work == <<todo, now, tries, got, again>>

-----------------------------------------------------------------------------
\* publishWebhookDelivery: increment with a new TTL of an hour, then add.
Increment(j) ==
    /\ at[j] = "unsent"
    /\ Goto(j, "counted") /\ count' = count + 1
    /\ UNCHANGED <<hook, work, drift>>

\* incrementActiveJobs swallows an error of Redis.
IncrementFails(j) ==
    /\ at[j] = "unsent"
    /\ Goto(j, "counted") /\ drift' = TRUE
    /\ UNCHANGED <<hook, work, count>>

Add(j) ==
    /\ at[j] = "counted"
    /\ Goto(j, "waiting")
    /\ UNCHANGED <<hook, work, count, drift>>

\* The publisher's own job fails, is retried and counts the delivery again.
AddFails(j) ==
    /\ at[j] = "counted"
    /\ Goto(j, "unsent") /\ drift' = TRUE
    /\ UNCHANGED <<hook, work, count>>

-----------------------------------------------------------------------------
\* Mutant of Deliverable: hooks that failed too often are served on.
DeliverableAlways == {h \in Hook : hook[h].state = "on"}

\* The job handler.  The hooks are selected once; a delivery that is posting
\* when its hook is disabled or has failed too often goes on.
Deliverable == {h \in Hook : hook[h].state = "on" /\ hook[h].fails < MaxFailures}

Start(j) ==
    /\ at[j] \in Waits
    /\ Cardinality({i \in Job : at[i] \in Active}) < Workers
    /\ Goto(j, "picking") /\ todo' = [todo EXCEPT ![j] = Deliverable]
    /\ UNCHANGED <<hook, now, tries, got, again, count, drift>>

\* Mutant of Pick: the hook is kept among those to be served.
PickAgain(j, h) ==
    /\ at[j] = "picking" /\ h \in todo[j]
    /\ Goto(j, "posting") /\ now' = [now EXCEPT ![j] = h]
    /\ UNCHANGED <<hook, todo, tries, got, again, count, drift>>

Pick(j, h) ==
    /\ at[j] = "picking" /\ h \in todo[j]
    /\ Goto(j, "posting") /\ now' = [now EXCEPT ![j] = h]
    /\ todo' = [todo EXCEPT ![j] = @ \ {h}]
    /\ UNCHANGED <<hook, tries, got, again, count, drift>>

\* 2xx; another answer; no connection; or a timeout after the hook took it.
Post(j, reaches, result) ==
    /\ at[j] = "posting"
    /\ result = "ok" => reaches
    /\ Goto(j, result)
    /\ got' = IF reaches THEN [got EXCEPT ![j][now[j]] = @ + 1] ELSE got
    /\ UNCHANGED <<hook, todo, now, tries, again, count, drift>>

\* An update of a deleted hook changes no row.
CountFailures(h, n) ==
    hook' = IF hook[h].state = "gone" THEN hook ELSE [hook EXCEPT ![h].fails = n]

Succeeded(j) ==
    /\ at[j] = "ok"
    /\ CountFailures(now[j], 0) /\ Goto(j, "logging")
    /\ UNCHANGED <<work, count, drift>>

Failed(j) ==
    /\ at[j] = "bad"
    /\ CountFailures(now[j], hook[now[j]].fails + 1) /\ Goto(j, "logging")
    /\ UNCHANGED <<work, count, drift>>

\* The row of the log refers to the hook; for a deleted one the insert throws.
Log(j) ==
    /\ at[j] = "logging" /\ hook[now[j]].state # "gone"
    /\ Goto(j, "picking") /\ now' = [now EXCEPT ![j] = NoHook]
    /\ UNCHANGED <<hook, todo, tries, got, again, count, drift>>

Complete(j) ==
    /\ at[j] = "picking" /\ todo[j] = {}
    /\ Goto(j, "completed")
    /\ UNCHANGED <<hook, work, count, drift>>

\* Mutant of Throws: every failed attempt is taken for the end of the job.
ThrowsUncounted(j) ==
    /\ Goto(j, IF tries[j] + 1 < Attempts THEN "delayed" ELSE "failed")
    /\ tries' = [tries EXCEPT ![j] = @ + 1]
    /\ todo' = [todo EXCEPT ![j] = {}] /\ now' = [now EXCEPT ![j] = NoHook]
    /\ again' = again \cup {j} /\ count' = count - 1
    /\ UNCHANGED <<hook, got, drift>>

\* A failed attempt starts over, with every hook; 'failed' of the last counts.
Throws(j) ==
    /\ Goto(j, IF tries[j] + 1 < Attempts THEN "delayed" ELSE "failed")
    /\ tries' = [tries EXCEPT ![j] = @ + 1]
    /\ todo' = [todo EXCEPT ![j] = {}] /\ now' = [now EXCEPT ![j] = NoHook]
    /\ again' = again \cup {j}
    /\ UNCHANGED <<hook, got, count, drift>>

LogFails(j) == at[j] = "logging" /\ hook[now[j]].state = "gone" /\ Throws(j)

\* A success that cannot be recorded is taken for a failure (the catch).
ResetFails(j) ==
    /\ at[j] = "ok"
    /\ Goto(j, "bad")
    /\ UNCHANGED <<hook, work, count, drift>>

DatabaseFails(j) == at[j] \in {"picking", "bad", "logging"} /\ Throws(j)

\* 'completed', or 'failed' after the last attempt: decrementActiveJobs, which
\* deletes the key in a second command if nothing was left to count.
Decrement(j) ==
    /\ at[j] \in Ended
    /\ count' = count - 1
    /\ Goto(j, IF count - 1 <= 0 THEN "emptied" ELSE "done")
    /\ UNCHANGED <<hook, work, drift>>

\* Jobs that were counted in between are forgotten.
DeleteCount(j) ==
    /\ at[j] = "emptied"
    /\ Goto(j, "done")
    /\ count' = 0 /\ drift' = (drift \/ count # 0)
    /\ UNCHANGED <<hook, work>>

\* Nobody handles an error of Redis here.
DecrementFails(j) ==
    /\ at[j] \in Ended
    /\ Goto(j, "done") /\ drift' = TRUE
    /\ UNCHANGED <<hook, work, count>>

\* Mutant of Expire: a key that is made anew after it expired gets no TTL.
ExpireOnce ==
    /\ count > 0 /\ ~drift
    /\ count' = 0 /\ drift' = TRUE
    /\ UNCHANGED <<hook, at, work>>

\* The key expires an hour after the last increment.  (A decrement of a key
\* that is gone makes one without TTL; it is negative, and deleted next.)
Expire ==
    /\ count > 0
    /\ count' = 0 /\ drift' = TRUE
    /\ UNCHANGED <<hook, at, work>>

-----------------------------------------------------------------------------
\* The worker process dies: its jobs stall and wait again.
Crash ==
    /\ at' = [j \in Job |-> IF at[j] \in Active THEN "waiting"
                            ELSE IF at[j] \in Ended \cup {"emptied"} THEN "done" ELSE at[j]]
    /\ again' = again \cup {j \in Job : at[j] \in Active}
    /\ drift' = (drift \/ \E j \in Job : at[j] \in Ended \cup {"emptied"})
    /\ todo' = [j \in Job |-> {}] /\ now' = [j \in Job |-> NoHook]
    /\ UNCHANGED <<hook, tries, count, got>>

\* PATCH and DELETE /api/webhooks/:id.  Enabling starts the count anew.
Update(h, state) ==
    /\ hook[h].state # "gone"
    /\ hook' = [hook EXCEPT ![h] = [state |-> state,
                                    fails |-> IF state = "on" THEN 0 ELSE @.fails]]
    /\ UNCHANGED <<at, work, count, drift>>

Delete(h) ==
    /\ hook[h].state # "gone"
    /\ hook' = [hook EXCEPT ![h] = [state |-> "gone", fails |-> 0]]
    /\ UNCHANGED <<at, work, count, drift>>

Steps(j) ==
    \/ Increment(j) \/ Add(j) \/ Start(j)
    \/ (\E h \in Hook : Pick(j, h))
    \/ (\E reaches \in BOOLEAN, result \in {"ok", "bad"} : Post(j, reaches, result))
    \/ Succeeded(j) \/ Failed(j) \/ Log(j) \/ LogFails(j) \/ Complete(j)
    \/ Decrement(j) \/ DeleteCount(j)

Faults ==
    \/ \E j \in Job : \/ IncrementFails(j) \/ AddFails(j) \/ ResetFails(j)
                      \/ DatabaseFails(j) \/ DecrementFails(j)
    \/ Crash

Admin == \E h \in Hook : Delete(h) \/ \E state \in {"on", "off"} : Update(h, state)

Next == (\E j \in Job : Steps(j)) \/ Expire \/ Faults \/ Admin

-----------------------------------------------------------------------------
\* Jobs that were counted and have not been taken off again.
Live == {j \in Job : at[j] \notin {"unsent", "emptied", "done"}}

\* The counter is the number of live jobs, through attempts that fail and are
\* retried: unless a publisher or Redis failed, a process died, the key expired
\* or was deleted just when another job had been counted (event-bus.ts 481-507).
CountIsLive == drift \/ count = Cardinality(Live)

\* The types, and: the counter of active jobs is right (event-bus.ts 481-507).
DeliveryInv == TypeOK /\ CountIsLive

\* A hook is disabled after MaxFailures failures in a row, and exceeds them by no
\* more than the deliveries to it that were under way in the other workers.
FailuresBounded == \A h \in Hook : hook[h].fails <= MaxFailures + Workers - 1

\* A hook gets an event twice only if the job ran again: a process died, the
\* database failed, or another hook was deleted during its delivery, in
\* which case all hooks get the event again (webhook.worker.ts 134).
DuplicateHasCause == \A j \in Job, h \in Hook : got[j][h] > 1 => j \in again

Fairness ==
    /\ \A j \in Job : WF_vars(Steps(j))
    /\ WF_vars(Expire)

Spec == Init /\ [][Next]_vars /\ Fairness

\* Every job ends, and whatever went wrong with the counter, an hour after the
\* last increment it shows no job that is not there ("so the key eventually
\* expires", 485).  It may stay below zero: a decrement of an expired key makes
\* one without TTL, and the process may die before it deletes it.
CountHeals == <>[](count <= 0 /\ \A j \in Job : at[j] = "done")
=============================================================================
