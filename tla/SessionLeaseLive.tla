-------------------------- MODULE SessionLeaseLive --------------------------
(***************************************************************************)
(* What SessionLease must eventually do: once faults stop, exactly one     *)
(* replica serves the session, whatever happened before.                   *)
(*                                                                         *)
(* Fairness.  Clocks run (Tick, which timers that are due hold back, so it *)
(* takes strong fairness); due timers fire and Redis answers or errors;    *)
(* an initialization goes on, its awaits resolving; a new process is       *)
(* started for one that died; and session-runner.ts calls initializeSocket *)
(* every 10s for a session whose lock nobody holds (Reconcile).            *)
(***************************************************************************)
EXTENDS SessionLease

\* runReconciliation finds no owner in Redis and initializes the session.
Reconcile(r) == owner = NoOwner /\ Begin(r)

InitFairness(r) ==
    /\ WF_vars(Reconcile(r))
    /\ WF_vars(SetNX(r)) /\ WF_vars(SetXX(r))
    /\ WF_vars(Recheck(r)) /\ WF_vars(CreateSocket(r))

TimerFairness(r) ==
    /\ WF_vars(BeatFire(r)) /\ WF_vars(BeatReply(r))
    /\ WF_vars(Watchdog(r)) /\ WF_vars(Release(r))

FairSpec ==
    /\ Spec
    /\ SF_vars(Tick)
    /\ \A r \in Replica : InitFairness(r) /\ TimerFairness(r) /\ WF_vars(Restart(r))

-----------------------------------------------------------------------------

\* What must stop for the session to settle: failures of Redis, of a process
\* or of the database, commands, a setup later than SetupMax, and calls of
\* initializeSocket that replace a socket which still owns the lock.
BeatFails(r) == BeatFire(r) /\ flight'[r] = "error"
LateSetup(r) == CreateSocket(r) /\ wait[r] > Lag
Reopen(r)    == owner = r /\ Begin(r)

Disturbance ==
    \E r \in Replica : \/ Faults(r) \/ Commands(r)
                       \/ BeatFails(r) \/ LateSetup(r) \/ Reopen(r)

OneServes ==
    \E r \in Replica : /\ serving[r] /\ owner = r
                       /\ \A s \in Replica \ {r} : ~serving[s]

\* Once disturbances stop, the lock is taken over from whoever crashed, lost
\* it or let it expire, a split brain heals, and one replica serves for good
\* (runReconciliation, initializeSocket and startLockRenewal together).
Settles == []<><<Disturbance>>_vars \/ <>[]OneServes
=============================================================================
