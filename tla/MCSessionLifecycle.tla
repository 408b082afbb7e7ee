------------------------- MODULE MCSessionLifecycle -------------------------
(***************************************************************************)
(* SessionLifecycle with a bounded number of faults, so that its liveness  *)
(* properties speak of what happens after the last of them.                *)
(*                                                                         *)
(* Fairness.  Promises resolve, timers fire, queues hand over their jobs,  *)
(* leases expire, the reconciliation loop runs every 10s and Docker        *)
(* restarts the process (restart: unless-stopped).                         *)
(***************************************************************************)
EXTENDS SessionLifecycle

CONSTANTS
    MaxFaults,      \* closes, failures, crashes and restart requests
    DeleteFaults    \* as many of them when the DELETE route is called

VARIABLES
    faults,         \* those that are left
    deletes         \* whether the DELETE route is called

mcVars == <<vars, faults, deletes>>

Fault == Closes \/ SaveCreds \/ Faults \/ RequestRestart

\* A connection without a session behind it is neither paired nor asked to
\* restart; it drops sooner or later (its QR codes run out).
GhostCloses ==
    /\ status = "deleted"
    /\ \E reason \in {"logout", "read", "read428"} : Close(reason)

MCInit == /\ Init /\ deletes \in BOOLEAN
          /\ faults = IF deletes THEN DeleteFaults ELSE MaxFaults

MCNext ==
    \/ /\ Progress \/ Whatsapp \/ (deletes /\ RequestDelete) \/ GhostCloses
       /\ UNCHANGED <<faults, deletes>>
    \/ faults > 0 /\ Fault /\ faults' = faults - 1 /\ UNCHANGED deletes

MCSpec == MCInit /\ [][MCNext]_mcVars

HandlerFairness ==
    /\ WF_vars(OpenReport) /\ WF_vars(LoggedOut) /\ WF_vars(CountClose)
    /\ WF_vars(ScheduleReconnect) /\ WF_vars(Reconnect)
    /\ WF_vars(GiveUp) /\ WF_vars(GiveUpTerminate)
    /\ WF_vars(MarkAuthFailure) /\ WF_vars(AuthFailureTerminate)
    /\ WF_vars(LateDisconnected) /\ WF_vars(HeartbeatLost) /\ WF_vars(LockExpires)
    /\ WF_vars(GhostCloses)

JobFairness ==
    /\ WF_vars(TakeRestart) /\ WF_vars(Restart)
    /\ WF_vars(TakeDestroy) /\ WF_vars(DestroySocket) /\ WF_vars(DestroyRest)
    /\ WF_vars(DeleteWaited) /\ WF_vars(DeleteLock) /\ WF_vars(DeleteRow)

RunnerFairness ==
    /\ \A c \in Caller : WF_vars(PassFence(c)) /\ WF_vars(Setup(c))
    /\ WF_vars(StartJob) /\ WF_vars(Boot)
    /\ WF_vars(ReconcileSelect) /\ WF_vars(ReconcileCheck) /\ WF_vars(ReconcileStart)

FairSpec == MCSpec /\ HandlerFairness /\ JobFairness /\ RunnerFairness
=============================================================================
