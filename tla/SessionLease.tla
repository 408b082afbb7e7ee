---------------------------- MODULE SessionLease ----------------------------
(***************************************************************************)
(* Which session-runner replica may hold the WhatsApp socket of ONE        *)
(* session: the Redis lock `session:{id}:owner` and the code of            *)
(* SessionManager that takes it, waits out the fencing delay, renews it by *)
(* heartbeat, watches over the renewal and gives it up                     *)
(* (src/src/modules/sessions/session.manager.ts).                          *)
(*                                                                         *)
(* Time passes in ticks.  The maps of the class that this module keeps per *)
(* replica are activeSessions (`socket`), lockRenewals together with       *)
(* watchdogIntervals and dynamicWorkers, which the code starts and stops   *)
(* together (`serving`), lastSuccessfulRenewal (`since`, its age),         *)
(* lockRenewalFailures (`fail`) and initializingSessions (`init`).         *)
(* Session status, retry counters and reconnect timers are the business of *)
(* SessionLifecycle; here their effect is that initializeSocket,           *)
(* forceTerminateSocket or a socket close may come at any time.            *)
(***************************************************************************)
EXTENDS Integers

CONSTANTS
    Replica,      \* replicaId's; each stands for one runner process at a time
    NoOwner,      \* the lock key does not exist
    Ttl,          \* 'EX', 10: life of the lock after a SET or an EXPIRE
    Fence,        \* the 1.5s fencing delay
    HbPeriod,     \* heartbeat interval, 3s
    WdLimit,      \* watchdog: maxElapsed, 8s
    WdPeriod,     \* watchdog: polling interval, 2s
    Latency,      \* bound on a Redis round trip, answer or error
    SetupMax      \* a setup (fence check to makeWASocket) is timely up to this

HbFailureLimit == 3

ASSUME TimingTypes ==
    /\ NoOwner \notin Replica
    /\ Ttl \in Nat /\ Fence \in Nat /\ HbPeriod \in Nat /\ WdLimit \in Nat
    /\ WdPeriod \in Nat /\ Latency \in Nat /\ SetupMax \in Nat

ASSUME Timing ==
    /\ Latency < Fence
    /\ Fence <= HbPeriod
    /\ WdPeriod > 0 /\ HbPeriod > 0

(***************************************************************************)
(* How long a replica may go on without renewing: three failed heartbeats  *)
(* and the last answer, or the watchdog.  The lease outlives that by less  *)
(* than a timely setup (the code's 10s TTL against 3 * 3s).                *)
(***************************************************************************)
ASSUME Budget ==
    \/ HbFailureLimit * HbPeriod + Latency + SetupMax < Ttl
    \/ /\ WdLimit + WdPeriod + SetupMax < Ttl
       /\ Fence + SetupMax < Ttl

VARIABLES
    owner, ttl,               \* Redis: value of the lock key, time to live
    init, wait, fresh,        \* initializeSocket: phase, ticks since its SET
    socket, serving, sound,   \* activeSessions; renewal, watchdog, workers
    since, beat, fail,        \* age of last renewal, of last beat; failures
    flight, fage,             \* answer of a heartbeat under way, its age
    jobs,                     \* jobs and handlers of a socket may be running
    releasing                 \* a releaseLock script is on its way to Redis

lockVars   == <<owner, ttl>>
initVars   == <<init, wait, fresh>>
serveVars  == <<socket, serving, sound, since, beat, fail>>
flightVars == <<flight, fage, jobs>>
vars == <<lockVars, initVars, serveVars, flightVars, releasing>>

Phase  == {"down", "idle", "setNX", "setXX", "fencing", "setup"}
Answer == {"none", "renewed", "lost", "error"}

WaitCap == Fence + SetupMax + 1

TypeOK ==
    /\ owner \in Replica \cup {NoOwner}
    /\ ttl \in 0..Ttl
    /\ init \in [Replica -> Phase]
    /\ wait \in [Replica -> 0..WaitCap]
    /\ fresh \in [Replica -> BOOLEAN]
    /\ socket \in [Replica -> BOOLEAN]
    /\ serving \in [Replica -> BOOLEAN]
    /\ sound \in [Replica -> BOOLEAN]
    /\ since \in [Replica -> Nat]
    /\ beat \in [Replica -> 0..HbPeriod]
    /\ fail \in [Replica -> 0..(HbFailureLimit - 1)]
    /\ flight \in [Replica -> Answer]
    /\ fage \in [Replica -> 0..Latency]
    /\ jobs \in [Replica -> BOOLEAN]
    /\ releasing \in [Replica -> BOOLEAN]

Init ==
    /\ owner = NoOwner /\ ttl = 0
    /\ init = [r \in Replica |-> "idle"]
    /\ wait = [r \in Replica |-> 0]
    /\ fresh = [r \in Replica |-> FALSE]
    /\ socket = [r \in Replica |-> FALSE]
    /\ serving = [r \in Replica |-> FALSE]
    /\ sound = [r \in Replica |-> FALSE]
    /\ since = [r \in Replica |-> 0]
    /\ beat = [r \in Replica |-> 0]
    /\ fail = [r \in Replica |-> 0]
    /\ flight = [r \in Replica |-> "none"]
    /\ fage = [r \in Replica |-> 0]
    /\ jobs = [r \in Replica |-> FALSE]
    /\ releasing = [r \in Replica |-> FALSE]

-----------------------------------------------------------------------------
(* initializeSocket                                                        *)

Phased(r, p) == /\ init' = [init EXCEPT ![r] = p]
                /\ wait' = [wait EXCEPT ![r] = 0]

\* The initialization ends without a socket: an early return or the catch.
Abandon(r) == /\ Phased(r, "idle")
              /\ fresh' = [fresh EXCEPT ![r] = FALSE]

\* GET of the lock.  The initializingSessions guard is `idle`; with another
\* owner the call returns at once.
Begin(r) ==
    /\ init[r] = "idle"
    /\ ~releasing[r]
    /\ \/ owner = r       /\ Phased(r, "setXX")
       \/ owner = NoOwner /\ Phased(r, "setNX")
    /\ UNCHANGED <<lockVars, fresh, serveVars, flightVars, releasing>>

\* SET ... EX NX, when the GET found no owner.
SetNX(r) ==
    /\ init[r] = "setNX"
    /\ \/ /\ owner = NoOwner
          /\ owner' = r /\ ttl' = Ttl
          /\ Phased(r, "fencing")
          /\ fresh' = [fresh EXCEPT ![r] = TRUE]
       \/ /\ owner # NoOwner
          /\ Abandon(r)
          /\ UNCHANGED lockVars
    /\ UNCHANGED <<serveVars, flightVars, releasing>>

\* SET ... EX XX, when the GET found this replica: it overwrites whatever
\* owner the key has by now.  A theft marks both leases.
SetXX(r) ==
    /\ init[r] = "setXX"
    /\ \/ /\ owner # NoOwner
          /\ owner' = r /\ ttl' = Ttl
          /\ Phased(r, "fencing")
          /\ fresh' = [fresh EXCEPT ![owner] = FALSE, ![r] = owner = r]
          /\ sound' = [sound EXCEPT ![owner] = sound[owner] /\ owner = r]
       \/ /\ owner = NoOwner
          /\ Abandon(r)
          /\ UNCHANGED <<lockVars, sound>>
    /\ UNCHANGED <<socket, serving, since, beat, fail, flightVars, releasing>>

\* The SET takes effect and its answer is lost: ioredis repeats a NX (which
\* then fails) or reports an error, and the replica does not know it owns.
SetLost(r) ==
    /\ \/ init[r] = "setNX" /\ owner = NoOwner
       \/ init[r] = "setXX" /\ owner = r
    /\ owner' = r /\ ttl' = Ttl
    /\ Abandon(r)
    /\ UNCHANGED <<serveVars, flightVars, releasing>>

Serve(r, on) ==
    /\ socket' = [socket EXCEPT ![r] = on]
    /\ serving' = [serving EXCEPT ![r] = on]
    /\ since' = [since EXCEPT ![r] = 0]
    /\ beat' = [beat EXCEPT ![r] = 0]
    /\ fail' = [fail EXCEPT ![r] = 0]

\* Mutant of Recheck: the fencing delay is skipped.
RecheckUnfenced(r) ==
    /\ init[r] = "fencing" /\ owner = r /\ ~socket[r] /\ ~releasing[r]
    /\ init' = [init EXCEPT ![r] = "setup"]
    /\ UNCHANGED <<wait, fresh, lockVars, serveVars, flightVars, releasing>>

\* After the fencing delay: GET, and if the lock is still held, the existing
\* socket, if any, goes through removeActiveSession.  Without one, renewal
\* and watchdog of an earlier socket stay on.
Recheck(r) ==
    /\ init[r] = "fencing"
    /\ wait[r] >= Fence
    /\ ~releasing[r]
    /\ \/ /\ owner # r
          /\ Abandon(r)
          /\ UNCHANGED serveVars
       \/ /\ owner = r
          /\ init' = [init EXCEPT ![r] = "setup"]
          /\ \/ /\ socket[r]
                /\ Serve(r, FALSE)
                /\ sound' = [sound EXCEPT ![r] = FALSE]
             \/ ~socket[r] /\ UNCHANGED serveVars
          /\ UNCHANGED <<wait, fresh>>
    /\ UNCHANGED <<lockVars, flightVars, releasing>>

\* makeWASocket, activeSessions.set, startLockRenewal, startDynamicWorkers.
\* startLockRenewal takes now for the time of a successful renewal.
CreateSocket(r) ==
    /\ init[r] = "setup"
    /\ Serve(r, TRUE)
    /\ sound' = [sound EXCEPT ![r] = fresh[r] /\ wait[r] <= Fence + SetupMax]
    /\ jobs' = [jobs EXCEPT ![r] = TRUE]
    /\ Abandon(r)
    /\ UNCHANGED <<lockVars, flight, fage, releasing>>

\* Any await of the initialization throws: the lock is neither renewed nor
\* released, and what was serving goes on serving.
InitError(r) ==
    /\ init[r] \in {"setNX", "setXX", "fencing", "setup"}
    /\ Abandon(r)
    /\ UNCHANGED <<lockVars, serveVars, flightVars, releasing>>

-----------------------------------------------------------------------------
(* Heartbeat, watchdog, forceTerminateSocket, releaseLock                  *)

ForceTerminate(r) ==
    /\ Serve(r, FALSE)
    /\ sound' = [sound EXCEPT ![r] = FALSE]
    /\ releasing' = [releasing EXCEPT ![r] = TRUE]

\* Mutant of BeatFire: EXPIRE of the lock, whoever owns it.
BeatFireBlind(r) ==
    /\ serving[r] /\ beat[r] = HbPeriod
    /\ flight[r] = "none" /\ ~releasing[r]
    /\ beat' = [beat EXCEPT ![r] = 0]
    /\ fage' = [fage EXCEPT ![r] = 0]
    /\ ttl' = IF owner = NoOwner THEN 0 ELSE Ttl
    /\ flight' = [flight EXCEPT ![r] = IF owner = NoOwner THEN "lost" ELSE "renewed"]
    /\ UNCHANGED <<owner, initVars, socket, serving, sound, since, fail, jobs,
                   releasing>>

\* The heartbeat's script runs in Redis, or does not reach it.
BeatFire(r) ==
    /\ serving[r] /\ beat[r] = HbPeriod
    /\ flight[r] = "none"
    /\ ~releasing[r]
    /\ beat' = [beat EXCEPT ![r] = 0]
    /\ fage' = [fage EXCEPT ![r] = 0]
    /\ \/ /\ owner = r
          /\ ttl' = Ttl
          /\ \E a \in {"renewed", "error"} : flight' = [flight EXCEPT ![r] = a]
       \/ /\ owner # r
          /\ flight' = [flight EXCEPT ![r] = "lost"]
          /\ UNCHANGED ttl
       \/ /\ flight' = [flight EXCEPT ![r] = "error"]
          /\ UNCHANGED ttl
    /\ UNCHANGED <<owner, initVars, socket, serving, sound, since, fail, jobs,
                   releasing>>

Renewed(r) ==
    /\ flight[r] = "renewed"
    /\ since' = [since EXCEPT ![r] = 0]
    /\ fail' = [fail EXCEPT ![r] = 0]
    /\ UNCHANGED <<socket, serving, sound, beat, releasing>>

\* A failure counted after clearLockRenewal is overwritten by the next start.
BeatError(r) ==
    /\ flight[r] = "error"
    /\ IF ~serving[r] THEN UNCHANGED <<serveVars, releasing>>
       ELSE IF fail[r] + 1 >= HbFailureLimit THEN ForceTerminate(r)
       ELSE /\ fail' = [fail EXCEPT ![r] = @ + 1]
            /\ UNCHANGED <<socket, serving, sound, since, beat, releasing>>

\* The answer reaches the callback, which may belong to an interval that was
\* cleared, or replaced, in the meantime.
BeatReply(r) ==
    /\ \/ Renewed(r)
       \/ flight[r] = "lost" /\ ForceTerminate(r)
       \/ BeatError(r)
    /\ flight' = [flight EXCEPT ![r] = "none"]
    /\ UNCHANGED <<lockVars, initVars, fage, jobs>>

Watchdog(r) ==
    /\ serving[r] /\ since[r] > WdLimit
    /\ ForceTerminate(r)
    /\ UNCHANGED <<lockVars, initVars, flightVars>>

\* The other callers of forceTerminateSocket: restart command, shutdown,
\* max retries, credential failures, an outbound job that lost the lock; and
\* the second half of destroySession.  They run in jobs of the workers and in
\* handlers of a socket, which nothing waits for when these are closed.
Terminate(r) ==
    /\ jobs[r]
    /\ ForceTerminate(r)
    /\ UNCHANGED <<lockVars, initVars, flightVars>>

\* Mutant of Release: a plain DEL, whoever owns the lock.
ReleaseBlind(r) ==
    /\ releasing[r]
    /\ releasing' = [releasing EXCEPT ![r] = FALSE]
    /\ owner' = NoOwner /\ ttl' = 0
    /\ fresh' = [fresh EXCEPT ![r] = FALSE]
    /\ sound' = [sound EXCEPT ![r] = FALSE]
    /\ UNCHANGED <<init, wait, socket, serving, since, beat, fail, flightVars>>

\* Compare-and-delete.
Release(r) ==
    /\ releasing[r]
    /\ releasing' = [releasing EXCEPT ![r] = FALSE]
    /\ \/ /\ owner = r
          /\ owner' = NoOwner /\ ttl' = 0
          /\ fresh' = [fresh EXCEPT ![r] = FALSE]
          /\ sound' = [sound EXCEPT ![r] = FALSE]
       \/ owner # r /\ UNCHANGED <<lockVars, fresh, sound>>
    /\ UNCHANGED <<init, wait, socket, serving, since, beat, fail, flightVars>>

ReleaseFails(r) ==
    /\ releasing[r]
    /\ releasing' = [releasing EXCEPT ![r] = FALSE]
    /\ UNCHANGED <<lockVars, initVars, serveVars, flightVars>>

\* A reconnect timer, or the first half of destroySession, ends the socket
\* and leaves renewal, watchdog and workers on.
CloseSocket(r) ==
    /\ socket[r]
    /\ socket' = [socket EXCEPT ![r] = FALSE]
    /\ UNCHANGED <<lockVars, initVars, serving, sound, since, beat, fail,
                   flightVars, releasing>>

\* removeActiveSession after a logout: the lock is left to expire.
LoggedOut(r) ==
    /\ socket[r]
    /\ Serve(r, FALSE)
    /\ sound' = [sound EXCEPT ![r] = FALSE]
    /\ UNCHANGED <<lockVars, initVars, flightVars, releasing>>

-----------------------------------------------------------------------------
(* Process crashes, time                                                   *)

Crash(r) ==
    /\ init[r] # "down"
    /\ Phased(r, "down")
    /\ fresh' = [fresh EXCEPT ![r] = FALSE]
    /\ Serve(r, FALSE)
    /\ sound' = [sound EXCEPT ![r] = FALSE]
    /\ flight' = [flight EXCEPT ![r] = "none"]
    /\ jobs' = [jobs EXCEPT ![r] = FALSE]
    /\ releasing' = [releasing EXCEPT ![r] = FALSE]
    /\ UNCHANGED <<lockVars, fage>>

\* A new process draws a new replicaId: one the lock does not hold.
Restart(r) ==
    /\ init[r] = "down" /\ owner # r
    /\ Phased(r, "idle")
    /\ UNCHANGED <<lockVars, fresh, serveVars, flightVars, releasing>>

\* Timers fire on time and Redis answers within Latency, so time waits for
\* them; nothing bounds an initialization but its GET-SET round trip.
MayTick(r) ==
    /\ serving[r] => beat[r] < HbPeriod /\ since[r] < WdLimit + WdPeriod
    /\ flight[r] # "none" => fage[r] < Latency
    /\ init[r] \in {"setNX", "setXX"} => wait[r] < Latency

Tick ==
    /\ \A r \in Replica : MayTick(r)
    /\ \/ ttl > 1  /\ ttl' = ttl - 1 /\ UNCHANGED owner
       \/ ttl <= 1 /\ ttl' = 0 /\ owner' = NoOwner
    /\ wait' = [r \in Replica |->
                  IF init[r] \in {"down", "idle"} \/ wait[r] = WaitCap
                  THEN wait[r] ELSE wait[r] + 1]
    /\ since' = [r \in Replica |-> IF serving[r] THEN since[r] + 1 ELSE 0]
    /\ beat' = [r \in Replica |-> IF serving[r] THEN beat[r] + 1 ELSE 0]
    /\ fage' = [r \in Replica |-> IF flight[r] # "none" THEN fage[r] + 1 ELSE 0]
    /\ UNCHANGED <<init, fresh, socket, serving, sound, fail, flight, jobs,
                   releasing>>

InitSteps(r) == Begin(r) \/ SetNX(r) \/ SetXX(r) \/ Recheck(r) \/ CreateSocket(r)
Timers(r)    == BeatFire(r) \/ BeatReply(r) \/ Watchdog(r) \/ Release(r)
Faults(r)    == SetLost(r) \/ InitError(r) \/ ReleaseFails(r) \/ Crash(r)
Commands(r)  == Terminate(r) \/ CloseSocket(r) \/ LoggedOut(r)

Next ==
    \/ \E r \in Replica : \/ InitSteps(r) \/ Timers(r)
                          \/ Faults(r) \/ Commands(r) \/ Restart(r)
    \/ Tick

Spec == Init /\ [][Next]_vars

-----------------------------------------------------------------------------
(* Properties                                                              *)

\* A split brain has a cause: two replicas never both run a socket's
\* renewal and workers unless one of them was force-terminated while it was
\* initializing, took longer than SetupMax to set up, or was party to a
\* theft by SET XX.  This is what TTL, heartbeat, watchdog and fencing delay
\* together (initializeSocket, startLockRenewal) achieve.
SplitBrainHasCause ==
    \A r, s \in Replica :
        r # s /\ serving[r] /\ serving[s] => ~(sound[r] /\ sound[s])

\* No socket outlives its heartbeat and watchdog: every path that clears the
\* renewal (clearLockRenewal) also ends and forgets the socket.
SocketIsWatched == \A r \in Replica : socket[r] => serving[r]

\* The comment at session.manager.ts:2123 on throttleOutboundSend: only the
\* single lock-owning replica's outbound worker touches the send counters.
SingleSender ==
    \A r, s \in Replica : serving[r] /\ serving[s] => r = s

\* SET XX is no compare-and-set and can take the lock of another replica, but
\* never from one that has passed its fencing delay and is setting up: the
\* GET it relies on is younger than that delay.
TheftOnlyInFence ==
    [][\A r, s \in Replica :
         owner = s /\ owner' = r /\ r # s => init[s] # "setup"]_vars

-----------------------------------------------------------------------------
(* The inductive invariant behind SplitBrainHasCause                       *)

Lag == Fence + SetupMax

\* r is initializing under a lease of its own that is still young.
Timely(r) == fresh[r] /\ wait[r] <= Lag

HistoryInv ==
    \A r \in Replica :
        /\ sound[r] \/ socket[r] => serving[r]
        /\ fresh[r] => init[r] \in {"fencing", "setup"}

\* The time without a renewal is bounded by failures and by the watchdog.
RenewalInv ==
    \A r \in Replica : serving[r] =>
        /\ since[r] <= WdLimit + WdPeriod
        /\ \/ since[r] <= fail[r] * HbPeriod + beat[r]
           \/ /\ flight[r] # "none"
              /\ since[r] <= (fail[r] + 1) * HbPeriod + fage[r]
              /\ fage[r] <= beat[r]

\* What the age of the last renewal says about the lock.
LeaseInv ==
    /\ owner = NoOwner <=> ttl = 0
    /\ \A r \in Replica : sound[r] =>
          IF owner = r THEN Ttl <= ttl + since[r] + Lag
                       ELSE Ttl <= since[r] + Lag
    /\ \A r \in Replica : (sound[r] \/ fresh[r]) /\ flight[r] = "renewed"
                           => owner = r /\ Ttl <= ttl + fage[r]
    /\ \A r \in Replica : Timely(r) => owner = r /\ Ttl <= ttl + wait[r]

\* A replica that waits out the fence, or has done so, against one serving.
FenceInv ==
    \A r, s \in Replica : r # s /\ sound[r] =>
        /\ ~sound[s]
        /\ Timely(s) => /\ init[s] = "fencing"
                        /\ Ttl + wait[s] <= since[r] + Lag

\* A GET that found r the owner is younger than any fence passed since.
TheftInv ==
    /\ \A r \in Replica : init[r] = "setup" => wait[r] >= Fence
    /\ \A r \in Replica : init[r] = "setXX" => wait[r] <= Latency
    /\ \A r, s \in Replica :
          init[r] = "setXX" /\ owner = s /\ s # r /\ init[s] \in {"fencing", "setup"}
             => wait[s] <= wait[r]

IInv == TypeOK /\ HistoryInv /\ RenewalInv /\ LeaseInv /\ FenceInv /\ TheftInv
=============================================================================
