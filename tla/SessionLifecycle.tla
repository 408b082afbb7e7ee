-------------------------- MODULE SessionLifecycle --------------------------
(***************************************************************************)
(* The life of ONE WhatsApp session in a single session-runner process:    *)
(* its row in Postgres, the socket and timers of SessionManager, the       *)
(* handlers of the socket's events, the session's control queue, the       *)
(* reconciliation loop of session-runner.ts and the DELETE and restart     *)
(* routes (src/src/modules/sessions/session.manager.ts,                    *)
(* session.routes.ts, src/src/session-runner.ts).                          *)
(*                                                                         *)
(* An action is what runs between two awaits, or several such stretches    *)
(* when nothing of this module can tell them apart.  A handler whose       *)
(* promise is rejected ends the process (no unhandledRejection hook), so   *)
(* a database error there is Crash.  SessionLease has the lock in detail;  *)
(* here GET and SET of one initialization are one step, and another owner  *)
(* is a former incarnation of this process ("stale").                      *)
(***************************************************************************)
EXTENDS Integers

CONSTANTS
    MaxRetries,       \* MAX_RETRIES: reconnects in a row before giving up
    Max428,           \* NEVER_PAIRED_428_MAX_ATTEMPTS
    MaxCredFails,     \* SAVE_CREDS_MAX_FAILURES
    RestartAttempts   \* attempts of a restart job

ASSUME Limits ==
    /\ MaxRetries \in Nat /\ Max428 \in Nat \ {0} /\ MaxCredFails \in Nat \ {0}
    /\ RestartAttempts \in Nat \ {0}

\* Who may call initializeSocket: a reconnect timer, the reconciliation loop
\* or the restoration at startup, a restart job, an orchestration job.
Caller == {"timer", "reconcile", "job", "start"}

VARIABLES
    status, paired,            \* row: status, lastConnectedAt or phoneNumber
    connFailed, authErr,       \* row: metadata.connectionFailed, .authStateError
    lock,                      \* session:{id}:owner
    queue, tries,              \* control queue; attempts of its restart job
    start,                     \* an orchestration job waits
    del,                       \* the DELETE route
    up,                        \* the runner process lives
    sock, serving,             \* activeSessions; renewal, watchdog, workers
    init,                      \* initializeSocket, by caller
    pending,                   \* pendingReconnects
    retries, n428, credFails,  \* the counters of failures in a row
    opening, closing, saving,  \* handlers under way: open, close, creds
    disconnecting,             \* forceTerminateSocket's write of the status
    job,                       \* the control job under way
    reconcile                  \* the reconciliation loop, at this session

row      == <<status, paired, connFailed, authErr>>
commands == <<queue, tries, start, del>>
counters == <<retries, n428, credFails>>
handlers == <<opening, closing, saving, disconnecting>>
vars == <<row, lock, commands, up, sock, serving, init, pending, counters,
          handlers, job, reconcile>>

Status == {"initializing", "qr_pending", "connecting", "connected",
           "disconnected", "connection_failed", "banned", "deleted"}

FlagType ==
    /\ paired \in BOOLEAN /\ connFailed \in BOOLEAN /\ authErr \in BOOLEAN
    /\ start \in BOOLEAN /\ up \in BOOLEAN /\ serving \in BOOLEAN
    /\ pending \in BOOLEAN /\ opening \in BOOLEAN /\ disconnecting \in BOOLEAN

CountType ==
    /\ retries \in 0..(MaxRetries + 1) /\ n428 \in 0..Max428
    /\ credFails \in 0..(MaxCredFails - 1)
    /\ tries \in 0..RestartAttempts

PlaceType ==
    /\ status \in Status
    /\ lock \in {"free", "mine", "stale"}
    /\ queue \subseteq {"restart", "destroy"}
    /\ del \in {"no", "waiting", "cleanup", "rows", "done"}
    /\ sock \in {"none", "new", "open", "closed"}
    /\ init \in [Caller -> {"idle", "fencing", "setup"}]
    /\ closing \in {"idle", "logout", "read", "read428", "read515",
                    "report", "report515", "giveUp", "kill"}
    /\ saving \in {"idle", "mark", "kill"}
    /\ job \in {"none", "restart", "initializing", "logout", "destroy"}
    /\ reconcile \in {"idle", "selected", "stagger", "restore"}

TypeOK == FlagType /\ CountType /\ PlaceType

\* createSession has inserted the row and published the start job.
Init ==
    /\ status = "initializing"
    /\ paired = FALSE /\ connFailed = FALSE /\ authErr = FALSE
    /\ lock = "free"
    /\ queue = {} /\ tries = 0 /\ start = TRUE /\ del = "no"
    /\ up = TRUE /\ sock = "none" /\ serving = FALSE
    /\ init = [c \in Caller |-> "idle"]
    /\ pending = FALSE /\ retries = 0 /\ n428 = 0 /\ credFails = 0
    /\ opening = FALSE /\ closing = "idle" /\ saving = "idle"
    /\ disconnecting = FALSE /\ job = "none" /\ reconcile = "idle"

-----------------------------------------------------------------------------
(* Shared parts                                                            *)

\* An UPDATE changes nothing once the row is gone.
Listed == status # "deleted"

SetStatus(s) == status' = IF Listed THEN s ELSE status

ForgetSocket(s) == sock' = "none" /\ serving' = s

\* forceTerminateSocket.  The release of the lock and the new status are not
\* awaited; the release may fail, and then the lock expires.
ForceTerminate(released) ==
    /\ pending' = FALSE
    /\ credFails' = 0
    /\ ForgetSocket(FALSE)
    /\ disconnecting' = TRUE
    /\ lock' \in {released, lock}

Released == IF lock = "mine" THEN "free" ELSE lock

InProgress == \E c \in Caller : init[c] # "idle"

\* Mutant of Initialize: no guard against a second initialization.
InitializeUnguarded(c) ==
    IF lock = "stale" THEN UNCHANGED <<init, lock>>
    ELSE init' = [init EXCEPT ![c] = "fencing"] /\ lock' = "mine"

\* initializeSocket up to the fencing delay.  A failing Redis call is an
\* InitFails right after.
Initialize(c) ==
    IF InProgress \/ lock = "stale" THEN UNCHANGED <<init, lock>>
    ELSE init' = [init EXCEPT ![c] = "fencing"] /\ lock' = "mine"

-----------------------------------------------------------------------------
(* initializeSocket after the fencing delay                                *)

\* The lock is checked again; pendingReconnects and the existing socket go.
PassFence(c) ==
    /\ init[c] = "fencing"
    /\ \/ /\ lock # "mine"
          /\ init' = [init EXCEPT ![c] = "idle"]
          /\ job' = IF c = "job" THEN "none" ELSE job
          /\ tries' = IF c = "job" THEN 0 ELSE tries
          /\ UNCHANGED <<pending, sock, serving>>
       \/ /\ lock = "mine"
          /\ init' = [init EXCEPT ![c] = "setup"]
          /\ pending' = FALSE
          /\ ForgetSocket(serving /\ sock = "none")
          /\ UNCHANGED <<job, tries>>
    /\ UNCHANGED <<row, lock, queue, start, del, up, counters,
                   handlers, reconcile>>

\* makeWASocket, registerEventHandlers, startLockRenewal, startDynamicWorkers.
Setup(c) ==
    /\ init[c] = "setup"
    /\ sock' = "new" /\ serving' = TRUE
    /\ init' = [init EXCEPT ![c] = "idle"]
    /\ job' = IF c = "job" THEN "none" ELSE job
    /\ tries' = IF c = "job" THEN 0 ELSE tries
    /\ UNCHANGED <<row, lock, queue, start, del, up, pending, counters,
                   handlers, reconcile>>

\* An await throws.  updateSessionStatus swallows its own failure.  Timer and
\* loop log the error; the queues retry a job, up to its attempts.
InitFails(c) ==
    /\ init[c] # "idle"
    /\ init' = [init EXCEPT ![c] = "idle"]
    /\ SetStatus("disconnected") \/ UNCHANGED status
    /\ \/ /\ c = "job" /\ job' = "none"
          /\ IF tries < RestartAttempts
             THEN queue' = queue \cup {"restart"} /\ UNCHANGED tries
             ELSE tries' = 0 /\ UNCHANGED queue
          /\ UNCHANGED start
       \/ c = "start" /\ start' \in BOOLEAN /\ UNCHANGED <<job, queue, tries>>
       \/ c \in {"timer", "reconcile"} /\ UNCHANGED <<start, job, queue, tries>>
    /\ UNCHANGED <<paired, connFailed, authErr, lock, del, up, sock,
                   serving, pending, counters, handlers, reconcile>>

-----------------------------------------------------------------------------
(* connection.update                                                       *)

\* `qr`: the socket waits to be paired.
QrShown ==
    /\ sock = "new" /\ ~paired
    /\ SetStatus("qr_pending")
    /\ UNCHANGED <<paired, connFailed, authErr, lock, commands, up, sock, serving,
                   init, pending, counters, handlers, job, reconcile>>

\* `open`.  Nobody scans the QR code of a session that is not listed any more.
Open ==
    /\ sock = "new" /\ Listed
    /\ sock' = "open"
    /\ retries' = 0 /\ n428' = 0
    /\ pending' = FALSE
    /\ opening' = TRUE
    /\ UNCHANGED <<row, lock, commands, up, serving, init, credFails, closing,
                   saving, disconnecting, job, reconcile>>

OpenReport ==
    /\ opening
    /\ opening' = FALSE
    /\ SetStatus("connected")
    /\ paired' = Listed
    /\ UNCHANGED <<connFailed, authErr, lock, commands, up, sock, serving, init,
                   pending, counters, closing, saving, disconnecting, job, reconcile>>

\* `close`: 401 is both loggedOut and banned; 515 asks for a restart.
\* Bound: a second close waits for the handler of the first.
Close(reason) ==
    /\ sock \in {"new", "open"}
    /\ closing = "idle"
    /\ sock' = "closed"
    /\ closing' = reason
    /\ IF reason = "logout"
       THEN retries' = 0 /\ n428' = 0 /\ pending' = FALSE
       ELSE UNCHANGED <<retries, n428, pending>>
    /\ UNCHANGED <<row, lock, commands, up, serving, init, credFails, opening,
                   saving, disconnecting, job, reconcile>>

\* The terminal status, then removeActiveSession of whatever socket there is.
LoggedOut ==
    /\ closing = "logout"
    /\ closing' = "idle"
    /\ SetStatus("banned")
    /\ ForgetSocket(serving /\ sock = "none")
    /\ UNCHANGED <<paired, connFailed, authErr, lock, commands, up, init, pending,
                   counters, opening, saving, disconnecting, job, reconcile>>

\* isNeverPairedSession has answered: count, and choose.  Giving up starts by
\* clearing the pending reconnect.
NeverPaired == ~paired

CountClose ==
    /\ \/ /\ closing = "read515"
          /\ closing' = "report515"
          /\ UNCHANGED <<retries, n428>>
       \/ /\ closing = "read428" /\ NeverPaired
          /\ n428' = n428 + 1
          /\ closing' = IF n428 + 1 >= Max428 THEN "giveUp" ELSE "report"
          /\ UNCHANGED retries
       \/ /\ \/ closing = "read"
             \/ closing = "read428" /\ ~NeverPaired
          /\ retries' = retries + 1
          /\ closing' = IF retries + 1 > MaxRetries THEN "giveUp" ELSE "report"
          /\ UNCHANGED n428
    /\ pending' = (pending /\ closing' # "giveUp")
    /\ UNCHANGED <<row, lock, commands, up, sock, serving, init, credFails,
                   opening, saving, disconnecting, job, reconcile>>

\* Mutant of ScheduleReconnect: a failed update of the row ends the handler.
ScheduleReconnectUnlessError ==
    /\ closing \in {"report", "report515"}
    /\ closing' = "idle"
    /\ \/ /\ SetStatus(IF closing = "report515" THEN "connecting" ELSE "disconnected")
          /\ pending' = TRUE
       \/ UNCHANGED <<status, pending>>
    /\ UNCHANGED <<paired, connFailed, authErr, lock, commands, up, sock, serving,
                   init, counters, opening, saving, disconnecting, job, reconcile>>

\* Mutant of ScheduleReconnect: each reconnect counts from zero again.
ScheduleReconnectUncounted ==
    /\ closing \in {"report", "report515"}
    /\ closing' = "idle"
    /\ SetStatus(IF closing = "report515" THEN "connecting" ELSE "disconnected")
    /\ pending' = TRUE
    /\ retries' = 0 /\ n428' = 0
    /\ UNCHANGED <<paired, connFailed, authErr, lock, commands, up, sock, serving,
                   init, credFails, opening, saving, disconnecting, job, reconcile>>

\* updateSessionStatus, then the reconnect timer unless one is pending.
ScheduleReconnect ==
    /\ closing \in {"report", "report515"}
    /\ closing' = "idle"
    /\ \/ SetStatus(IF closing = "report515" THEN "connecting" ELSE "disconnected")
       \/ UNCHANGED status
    /\ pending' = TRUE
    /\ UNCHANGED <<paired, connFailed, authErr, lock, commands, up, sock, serving,
                   init, counters, opening, saving, disconnecting, job, reconcile>>

\* The timer ends the old socket, but not renewal and workers.
Reconnect ==
    /\ pending
    /\ pending' = FALSE
    /\ sock' = "none"
    /\ Initialize("timer")
    /\ UNCHANGED <<row, commands, up, serving, counters, handlers, job, reconcile>>

\* terminateSessionDueToMaxRetries: the row; after the broadcast, the socket.
GiveUp ==
    /\ closing = "giveUp"
    /\ closing' = "kill"
    /\ SetStatus("connection_failed")
    /\ connFailed' = Listed
    /\ UNCHANGED <<paired, authErr, lock, commands, up, sock, serving, init,
                   pending, counters, opening, saving, disconnecting, job, reconcile>>

GiveUpTerminate ==
    /\ closing = "kill"
    /\ closing' = "idle"
    /\ retries' = 0 /\ n428' = 0
    /\ ForceTerminate(Released)
    /\ UNCHANGED <<row, commands, up, init, opening, saving, job, reconcile>>

-----------------------------------------------------------------------------
(* creds.update                                                            *)

SaveCreds ==
    /\ sock \in {"new", "open"} /\ saving = "idle"
    /\ \/ credFails' = 0 /\ UNCHANGED saving
       \/ credFails + 1 < MaxCredFails /\ credFails' = credFails + 1 /\ UNCHANGED saving
       \/ credFails + 1 >= MaxCredFails /\ credFails' = 0 /\ saving' = "mark"
    /\ UNCHANGED <<row, lock, commands, up, sock, serving, init, pending, retries,
                   n428, opening, closing, disconnecting, job, reconcile>>

\* terminateSessionDueToAuthFailure: the row; after the broadcast, the socket.
MarkAuthFailure ==
    /\ saving = "mark"
    /\ saving' = "kill"
    /\ \/ SetStatus("disconnected") /\ authErr' \in {Listed, authErr}
       \/ UNCHANGED <<status, authErr>>
    /\ UNCHANGED <<paired, connFailed, lock, commands, up, sock, serving, init,
                   pending, counters, opening, closing, disconnecting, job, reconcile>>

AuthFailureTerminate ==
    /\ saving = "kill"
    /\ saving' = "idle"
    /\ ForceTerminate(Released)
    /\ UNCHANGED <<row, commands, up, init, retries, n428, opening, closing, job,
                   reconcile>>

-----------------------------------------------------------------------------
(* forceTerminateSocket's late write; the lease                            *)

LateDisconnected ==
    /\ disconnecting
    /\ disconnecting' = FALSE
    /\ SetStatus("disconnected") \/ UNCHANGED status
    /\ UNCHANGED <<paired, connFailed, authErr, lock, commands, up, sock, serving,
                   init, pending, counters, opening, closing, saving, job, reconcile>>

\* The heartbeat finds that the lock is not its own.
HeartbeatLost ==
    /\ serving /\ lock # "mine"
    /\ ForceTerminate(lock)
    /\ UNCHANGED <<row, commands, up, init, retries, n428, opening, closing, saving,
                   job, reconcile>>

\* Heartbeats fail, or the watchdog runs out.
HeartbeatFails ==
    /\ serving /\ lock = "mine"
    /\ ForceTerminate(Released)
    /\ UNCHANGED <<row, commands, up, init, retries, n428, opening, closing, saving,
                   job, reconcile>>

\* Nobody renews.  A lock outlives the fencing delay, but not a slow setup.
Expire ==
    /\ lock' = "free"
    /\ UNCHANGED <<row, commands, up, sock, serving, init, pending, counters,
                   handlers, job, reconcile>>

LockExpires ==
    /\ lock = "stale" \/ (lock = "mine" /\ ~serving /\ ~InProgress)
    /\ Expire

SlowSetup ==
    /\ lock = "mine" /\ ~serving /\ \E c \in Caller : init[c] = "setup"
    /\ Expire

-----------------------------------------------------------------------------
(* Control jobs, taken by the control worker of a serving session.  Bounds: *)
(* equal waiting jobs are one, and one job is under way at a time.          *)

\* prepareSessionForManualRestart.
TakeRestart ==
    /\ serving /\ job = "none" /\ "restart" \in queue
    /\ queue' = queue \ {"restart"}
    /\ tries' = IF tries < RestartAttempts THEN tries + 1 ELSE tries
    /\ job' = "restart"
    /\ retries' = 0 /\ n428' = 0
    /\ SetStatus("initializing")
    /\ connFailed' = FALSE
    /\ UNCHANGED <<paired, authErr, lock, start, del, up, sock, serving,
                   init, pending, credFails, handlers, reconcile>>

\* forceTerminateSocket and initializeSocket, whose GET follows the release on
\* the same connection to Redis.
Restart ==
    /\ job = "restart"
    /\ \/ /\ InProgress \/ lock = "stale"
          /\ ForceTerminate(Released)
          /\ job' = "none" /\ tries' = 0
          /\ UNCHANGED init
       \/ /\ ~InProgress /\ lock # "stale"
          /\ ForceTerminate("mine") /\ lock' = "mine"
          /\ job' = "initializing"
          /\ init' = [init EXCEPT !["job"] = "fencing"]
          /\ UNCHANGED tries
    /\ UNCHANGED <<row, queue, start, del, up, retries, n428, opening,
                   closing, saving, reconcile>>

\* destroySession as far as socket.logout, which may take ten seconds.
TakeDestroy ==
    /\ serving /\ job = "none" /\ "destroy" \in queue
    /\ queue' = queue \ {"destroy"}
    /\ job' = "logout"
    /\ pending' = FALSE
    /\ retries' = 0 /\ n428' = 0
    /\ UNCHANGED <<row, lock, tries, start, del, up, sock, serving, init,
                   credFails, handlers, reconcile>>

DestroySocket ==
    /\ job = "logout"
    /\ job' = "destroy"
    /\ sock' = "none"
    /\ UNCHANGED <<row, lock, commands, up, serving, init, pending, counters,
                   handlers, reconcile>>

\* Status, renewal, workers and lock.
DestroyRest ==
    /\ job = "destroy"
    /\ job' = "none"
    /\ SetStatus("disconnected") \/ UNCHANGED status
    /\ serving' = FALSE
    /\ lock' \in {Released, lock}
    /\ UNCHANGED <<paired, connFailed, authErr, commands, up, sock, init, pending,
                   counters, handlers, reconcile>>

-----------------------------------------------------------------------------
(* API: POST /:id/restart and DELETE /:id                                  *)

RequestRestart ==
    /\ Listed
    /\ queue' = queue \cup {"restart"}
    /\ UNCHANGED <<row, lock, tries, start, del, up, sock, serving, init, pending,
                   counters, handlers, job, reconcile>>

\* With an owner, a destroy job is published and waited for.
RequestDelete ==
    /\ del = "no"
    /\ IF lock = "free" THEN del' = "cleanup" /\ UNCHANGED queue
       ELSE del' = "waiting" /\ queue' = queue \cup {"destroy"}
    /\ UNCHANGED <<row, lock, tries, start, up, sock, serving, init,
                   pending, counters, handlers, job, reconcile>>

\* The job finishes or the wait of 15 seconds is over.
DeleteWaited ==
    /\ del = "waiting"
    /\ del' = "cleanup"
    /\ UNCHANGED <<row, lock, queue, tries, start, up, sock, serving, init,
                   pending, counters, handlers, job, reconcile>>

\* redis.del of the lock, whoever holds it; its failure is ignored.
DeleteLock ==
    /\ del = "cleanup"
    /\ del' = "rows"
    /\ lock' \in {"free", lock}
    /\ UNCHANGED <<row, queue, tries, start, up, sock, serving, init,
                   pending, counters, handlers, job, reconcile>>

DeleteRow ==
    /\ del = "rows"
    /\ del' = "done"
    /\ status' = "deleted"
    /\ paired' = FALSE /\ connFailed' = FALSE /\ authErr' = FALSE
    /\ UNCHANGED <<lock, queue, tries, start, up, sock, serving, init,
                   pending, counters, handlers, job, reconcile>>

-----------------------------------------------------------------------------
(* session-runner.ts: orchestration jobs, restoration, reconciliation      *)

StartJob ==
    /\ start /\ up
    /\ start' = FALSE
    /\ Initialize("start")
    /\ UNCHANGED <<row, queue, tries, del, up, sock, serving, pending,
                   counters, handlers, job, reconcile>>

Reconcilable ==
    /\ status \in {"connected", "disconnected", "connecting", "qr_pending",
                   "initializing"}
    /\ ~connFailed /\ ~authErr

\* The SELECT of every session that is to run.  Bound: one pass at a time.
ReconcileSelect ==
    /\ up /\ reconcile = "idle"
    /\ Reconcilable
    /\ reconcile' = "selected"
    /\ UNCHANGED <<row, lock, commands, up, sock, serving, init, pending, counters,
                   handlers, job>>

\* This session's turn comes, after the staggers of those before it.
ReconcileCheck ==
    /\ reconcile = "selected"
    /\ reconcile' = IF lock = "free" THEN "stagger" ELSE "idle"
    /\ UNCHANGED <<row, lock, commands, up, sock, serving, init, pending, counters,
                   handlers, job>>

ReconcileStart ==
    /\ reconcile \in {"stagger", "restore"}
    /\ reconcile' = "idle"
    /\ Initialize("reconcile")
    /\ UNCHANGED <<row, commands, up, sock, serving, pending, counters, handlers, job>>

\* The process dies, or shuts down and releases the lock of an active session.
\* The queue gives a job that was under way to another worker.
Crash ==
    /\ up
    /\ up' = FALSE
    /\ \/ lock' = IF lock = "mine" THEN "stale" ELSE lock
       \/ sock # "none" /\ lock' = Released
    /\ sock' = "none" /\ serving' = FALSE
    /\ init' = [c \in Caller |-> "idle"]
    /\ pending' = FALSE /\ retries' = 0 /\ n428' = 0 /\ credFails' = 0
    /\ opening' = FALSE /\ closing' = "idle" /\ saving' = "idle"
    /\ disconnecting' = FALSE
    /\ queue' = queue \cup (CASE job \in {"restart", "initializing"} -> {"restart"}
                              [] job \in {"logout", "destroy"} -> {"destroy"}
                              [] OTHER -> {})
    /\ job' = "none" /\ reconcile' = "idle"
    /\ UNCHANGED <<row, tries, start, del>>

\* restoreAllSessions asks for the status only.
Boot ==
    /\ ~up
    /\ up' = TRUE
    /\ reconcile' = IF status \in {"connected", "disconnected"} THEN "restore"
                                                                ELSE "idle"
    /\ UNCHANGED <<row, lock, commands, sock, serving, init, pending, counters,
                   handlers, job>>

-----------------------------------------------------------------------------

InitSteps == \E c \in Caller : PassFence(c) \/ Setup(c)
Handlers  == OpenReport \/ LoggedOut \/ CountClose \/ ScheduleReconnect
             \/ Reconnect \/ GiveUp \/ GiveUpTerminate \/ MarkAuthFailure
             \/ AuthFailureTerminate \/ LateDisconnected \/ HeartbeatLost
             \/ LockExpires
Jobs      == TakeRestart \/ Restart \/ TakeDestroy \/ DestroySocket \/ DestroyRest
Runner    == StartJob \/ ReconcileSelect \/ ReconcileCheck \/ ReconcileStart \/ Boot
Route     == DeleteWaited \/ DeleteLock \/ DeleteRow
Progress  == InitSteps \/ Handlers \/ Jobs \/ Runner \/ Route

Whatsapp  == QrShown \/ Open
Closes    == \E reason \in {"logout", "read", "read428", "read515"} : Close(reason)
Faults    == (\E c \in Caller : InitFails(c)) \/ HeartbeatFails
             \/ SlowSetup \/ Crash

Next == Progress \/ Whatsapp \/ Closes \/ SaveCreds \/ Faults
        \/ RequestRestart \/ RequestDelete

Spec == Init /\ [][Next]_vars

-----------------------------------------------------------------------------
(* Properties                                                              *)

Connected == sock \in {"new", "open"}

\* Renewal and workers go on, so the lock is never free, but there is no
\* socket, and nothing under way that would make one.
Orphaned == serving /\ sock = "none" /\ ~pending /\ ~InProgress

\* activeSessions.set never overwrites a socket that nobody has ended, which
\* would go on as a second connection of the account: what the
\* initializingSessions guard and the check after the fencing delay are for.
NoSocketLeak == [][(\E c \in Caller : Setup(c)) => sock = "none"]_vars

\* The inductive invariant behind NoSocketLeak: one initialization at a time,
\* no socket after its fencing check, and a counter at its limit only while
\* the handler that saw it is giving up.
OneInitialization ==
    \A c, d \in Caller : init[c] # "idle" /\ init[d] # "idle" => c = d

SetupHasNoSocket == \A c \in Caller : init[c] = "setup" => sock = "none"

LimitsGiveUp ==
    retries > MaxRetries \/ n428 >= Max428 => closing \in {"giveUp", "kill"}

LifeInv == TypeOK /\ OneInitialization /\ SetupHasNoSocket /\ LimitsGiveUp

\* A session that is to run comes back, whatever handlers, timers, jobs and
\* loops were under way when it lost its socket, or else it is Orphaned.
DownOnlyIfOrphaned == []<>(Reconcilable => Connected \/ Orphaned)

\* session.types.ts:38, "disconnected (retryable)", and the head of
\* session.manager.ts, "Reconnecting with exponential backoff on
\* disconnection": no session stays disconnected unless it was given up.
DisconnectedIsRetried ==
    []<>(status = "disconnected" /\ ~connFailed /\ ~authErr => Connected)

\* The terminal message at session.manager.ts:1551: "Use Restart on the
\* Sessions tab and try again."  A restart asked of a session that was given
\* up on reaches a control worker.
RestartIsHeard ==
    connFailed /\ "restart" \in queue ~> "restart" \notin queue \/ ~Listed

\* Nothing of a deleted session stays: the sockets that timers, handlers, jobs
\* and reconciliation passes still make for it end, and with them the lock,
\* unless the last of these failed and left it Orphaned.
DeletedGoes ==
    <>[](~Listed => sock = "none" /\ (lock = "free" \/ Orphaned))
=============================================================================
