----------------------------- MODULE HistorySync -----------------------------
(***************************************************************************)
(* Initial history sync of ONE session.  WhatsApp sends the history in     *)
(* chunks; the session-runner publishes each to a queue, two jobs at a     *)
(* time process them in the worker process, and runner, worker and API all *)
(* report progress through updateSyncProgress to a hash in Redis and to    *)
(* the row's metadata (messages/message.sync.ts, sessions/                 *)
(* session.manager.ts, sessions/session.routes.ts).  A timer against       *)
(* inactivity runs in the runner, and another one in the worker, which has *)
(* a SessionManager of its own.                                            *)
(*                                                                         *)
(* An action is what runs between two awaits, or a write of a hash with    *)
(* the read of it that follows.  Two minutes of inactivity may pass at any *)
(* moment.  A chunk stands for its messages, all chunks of one size.       *)
(***************************************************************************)
EXTENDS Integers, FiniteSets

CONSTANTS
    Chunk,        \* the messaging-history.set events, but for ON_DEMAND ones
    Latest,       \* those with isLatest whose syncType ends the sync
    Attempts      \* attempts of a job, 3

Concurrency == 2

ASSUME ChunkTypes ==
    /\ IsFiniteSet(Chunk) /\ Latest \subseteq Chunk
    /\ Chunk \cap {"runner", "worker", "open", "retry"} = {}
    /\ Attempts \in Nat \ {0}

VARIABLES
    row,               \* metadata: historySyncCompleted, syncStatus, counts
    progress,          \* sync:progress, a status and counts, or NoProgress
    totals, processed, \* sync:chunks:total, :processed: the chunks in each
    phase, tries,      \* where a chunk is; attempts of its job
    sum,               \* the total a job has read
    kept,              \* chunks whose failed job the queue keeps, by jobId
    update,            \* updateSyncProgress, by caller
    timer, seen,       \* inactivity timers; what a callback read of the row
    initial,           \* isInitialSyncConnection of the current socket
    opening,           \* handler of connection 'open'
    retrying, restart  \* the sync-retry route; its restart of the session

keys   == <<progress, totals, processed>>
jobs   == <<phase, tries, sum, kept>>
timers == <<timer, seen>>
socket == <<initial, opening, restart>>
vars == <<row, keys, jobs, update, timers, socket, retrying>>

Process == {"runner", "worker"}
Caller  == Chunk \cup Process \cup {"open", "retry"}
Size    == 0..Cardinality(Chunk)
SyncStatus == {"pending", "syncing", "completed", "failed"}

NoProgress == [status |-> "none", p |-> 0, t |-> 0]
Nothing    == [p |-> -1, t |-> -1]
Progress   == [status : SyncStatus, p : Size, t : Size]
Idle       == [status |-> "pending", p |-> 0, t |-> 0, step |-> "idle"]
Update     == [status : SyncStatus, p : Size, t : Size,
               step : {"idle", "redis", "row", "clean"}]

TypeOK ==
    /\ row \in [done : BOOLEAN, status : SyncStatus, p : Size, t : Size]
    /\ progress \in Progress \cup {NoProgress}
    /\ totals \subseteq Chunk /\ processed \subseteq Chunk
    /\ phase \in [Chunk -> {"unsent", "event", "waiting", "counting", "started",
                            "recounting", "ended", "completing", "done",
                            "failed", "dropped"}]
    /\ tries \in [Chunk -> 0..Attempts]
    /\ sum \in [Chunk -> Size] /\ kept \subseteq Chunk
    /\ update \in [Caller -> Update]
    /\ timer \in [Process -> BOOLEAN]
    /\ seen \in [Process -> [p : Size, t : Size] \cup {Nothing}]
    /\ initial \in BOOLEAN
    /\ opening \in {"no", "read", "timer"}
    /\ retrying \in {"no", "publish", "report"}
    /\ restart \in BOOLEAN

\* A session that has just been paired.
Init ==
    /\ row = [done |-> FALSE, status |-> "pending", p |-> 0, t |-> 0]
    /\ progress = NoProgress /\ totals = {} /\ processed = {}
    /\ phase = [c \in Chunk |-> "unsent"]
    /\ tries = [c \in Chunk |-> 0] /\ sum = [c \in Chunk |-> 0] /\ kept = {}
    /\ update = [a \in Caller |-> Idle]
    /\ timer = [x \in Process |-> FALSE]
    /\ seen = [x \in Process |-> Nothing]
    /\ initial = TRUE /\ opening = "read"
    /\ retrying = "no" /\ restart = FALSE

-----------------------------------------------------------------------------
(* updateSyncProgress                                                      *)

Greatest(m, n) == IF m >= n THEN m ELSE n

Reporting(a) == update[a] # Idle

\* The call, as far as its first await.
Report(a, status, p, t) ==
    update' = [update EXCEPT ![a] =
                 [status |-> status, p |-> p, t |-> t, step |-> "redis"]]

Reported(a, step) ==
    update' = [update EXCEPT ![a] = IF step = "idle" THEN Idle ELSE [@ EXCEPT !.step = step]]

WriteProgress(a) ==
    /\ update[a].step = "redis"
    /\ progress' = [status |-> update[a].status, p |-> update[a].p, t |-> update[a].t]
    /\ Reported(a, "row")
    /\ UNCHANGED <<row, totals, processed, jobs, timers, socket, retrying>>

AfterRow(a) == IF update[a].status \in {"completed", "failed"} THEN "clean" ELSE "idle"

\* Mutant of Merge: the counts are overwritten.
MergeOverwriting(status, p, t) ==
    row' = [done |-> row.done \/ status = "completed", status |-> status, p |-> p, t |-> t]

\* The counts are merged with GREATEST, and only `completed` sets the mark.
Merge(status, p, t) ==
    row' = [done   |-> row.done \/ status = "completed",
            status |-> status,
            p |-> Greatest(row.p, p), t |-> Greatest(row.t, t)]

WriteRow(a) ==
    /\ update[a].step = "row"
    /\ Merge(update[a].status, update[a].p, update[a].t)
    /\ Reported(a, AfterRow(a))
    /\ UNCHANGED <<keys, jobs, timers, socket, retrying>>

\* An error of the database is caught.
WriteRowFails(a) ==
    /\ update[a].step = "row"
    /\ Reported(a, AfterRow(a))
    /\ UNCHANGED <<row, keys, jobs, timers, socket, retrying>>

\* The end of a sync deletes all its keys.
CleanKeys(a) ==
    /\ update[a].step = "clean"
    /\ progress' = NoProgress /\ totals' = {} /\ processed' = {}
    /\ Reported(a, "idle")
    /\ UNCHANGED <<row, jobs, timers, socket, retrying>>

-----------------------------------------------------------------------------
(* The runner: connection 'open', messaging-history.set                    *)

\* A new socket; WhatsApp may send again what it has sent before.
Connect ==
    /\ opening = "no"
    /\ initial' = ~row.done
    /\ opening' = "read"
    /\ \E again \in SUBSET {c \in Chunk : phase[c] \in {"done", "failed", "dropped"}} :
          /\ phase' = [c \in Chunk |-> IF c \in again THEN "unsent" ELSE phase[c]]
          /\ tries' = [c \in Chunk |-> IF c \in again THEN 0 ELSE tries[c]]
    /\ UNCHANGED <<row, keys, sum, kept, update, seen, retrying>>

Reconnect == Connect /\ UNCHANGED <<restart, timer>>

\* The control job; forceTerminateSocket clears the timer.
Restart ==
    /\ restart /\ Connect
    /\ restart' = FALSE
    /\ timer' = [timer EXCEPT !["runner"] = FALSE]

\* `pending`, unless a sync is under way.
OpenReads ==
    /\ opening = "read" /\ ~Reporting("open")
    /\ opening' = IF row.done THEN "no" ELSE "timer"
    /\ IF ~row.done /\ progress = NoProgress THEN Report("open", "pending", 0, 0)
                                             ELSE UNCHANGED update
    /\ UNCHANGED <<row, keys, jobs, timers, initial, restart, retrying>>

OpenSetsTimer ==
    /\ opening = "timer" /\ ~Reporting("open")
    /\ opening' = "no"
    /\ timer' = [timer EXCEPT !["runner"] = TRUE]
    /\ UNCHANGED <<row, keys, jobs, update, seen, initial, restart, retrying>>

\* The event is ignored after completion, but for the socket of that sync;
\* else it reports what Redis has.  Bound: fewer than 100 events in 10 minutes.
ChunkArrives(c) ==
    /\ phase[c] = "unsent"
    /\ IF row.done /\ ~initial
       THEN phase' = [phase EXCEPT ![c] = "dropped"] /\ UNCHANGED update
       ELSE /\ phase' = [phase EXCEPT ![c] = "event"]
            /\ Report(c, "syncing", progress.p, progress.t)
    /\ UNCHANGED <<row, keys, tries, sum, kept, timers, socket, retrying>>

\* The queue ignores a job whose jobId it has, be it a failed one.
Queued(c) == IF c \in kept THEN "failed" ELSE "waiting"

Publish(c) ==
    /\ phase[c] = "event" /\ ~Reporting(c)
    /\ phase' = [phase EXCEPT ![c] = Queued(c)]
    /\ timer' = [timer EXCEPT !["runner"] = TRUE]
    /\ UNCHANGED <<row, keys, tries, sum, kept, update, seen, socket, retrying>>

\* Redis fails: a report is given up, and the timer left alone; or the chunk
\* cannot be queued and is lost with a line in the log; or both.
EventFails(c) ==
    /\ phase[c] = "event"
    /\ Reported(c, "idle")
    /\ \E p \in {"dropped"} \cup {q \in {Queued(c)} : Reporting(c)} :
          phase' = [phase EXCEPT ![c] = p]
    /\ timer' = [timer EXCEPT !["runner"] = @ \/ ~Reporting(c)]
    /\ UNCHANGED <<row, keys, tries, sum, kept, seen, socket, retrying>>

-----------------------------------------------------------------------------
(* The worker: processHistorySync                                          *)

Working == {c \in Chunk :
              phase[c] \in {"counting", "started", "recounting", "ended", "completing"}}

Forget(c) == sum' = [sum EXCEPT ![c] = 0]

\* The chunk joins the totals, and they are read; then the processed counts.
JobStarts(c) ==
    /\ phase[c] = "waiting" /\ Cardinality(Working) < Concurrency
    /\ phase' = [phase EXCEPT ![c] = "counting"]
    /\ tries' = [tries EXCEPT ![c] = @ + 1]
    /\ totals' = totals \cup {c}
    /\ sum' = [sum EXCEPT ![c] = Cardinality(totals')]
    /\ UNCHANGED <<row, progress, processed, kept, update, timers, socket, retrying>>

JobCounts(c) ==
    /\ phase[c] = "counting"
    /\ phase' = [phase EXCEPT ![c] = "started"]
    /\ Report(c, "syncing", Cardinality(processed), sum[c])
    /\ Forget(c)
    /\ UNCHANGED <<row, keys, tries, kept, timers, socket, retrying>>

\* Chats, contacts and messages are stored; the chunk counts as processed.
JobInserts(c) ==
    /\ phase[c] = "started" /\ ~Reporting(c)
    /\ phase' = [phase EXCEPT ![c] = "recounting"]
    /\ processed' = processed \cup {c}
    /\ sum' = [sum EXCEPT ![c] = Cardinality(totals)]
    /\ UNCHANGED <<row, progress, totals, tries, kept, update, timers, socket, retrying>>

JobReports(c) ==
    /\ phase[c] = "recounting"
    /\ IF c \in Latest
       THEN /\ phase' = [phase EXCEPT ![c] = "completing"]
            /\ Report(c, "completed", sum[c], sum[c])
       ELSE /\ phase' = [phase EXCEPT ![c] = "ended"]
            /\ Report(c, "syncing", Cardinality(processed), sum[c])
    /\ UNCHANGED <<row, keys, tries, sum, kept, timers, socket, retrying>>

\* Mutant of JobEnds: a job leaves the timers alone.
JobEndsUntimed(c) ==
    /\ phase[c] = "ended" /\ ~Reporting(c)
    /\ phase' = [phase EXCEPT ![c] = "done"]
    /\ Forget(c)
    /\ UNCHANGED <<row, keys, tries, kept, update, timers, socket, retrying>>

\* resetSyncTimeout in this process.
JobEnds(c) ==
    /\ phase[c] = "ended" /\ ~Reporting(c)
    /\ phase' = [phase EXCEPT ![c] = "done"]
    /\ timer' = [timer EXCEPT !["worker"] = TRUE]
    /\ Forget(c)
    /\ UNCHANGED <<row, keys, tries, kept, update, seen, socket, retrying>>

\* clearSyncTimeout in this process, and the row once more; its failure is
\* caught.
JobCompletes(c, saved) ==
    /\ phase[c] = "completing" /\ ~Reporting(c)
    /\ phase' = [phase EXCEPT ![c] = "done"]
    /\ timer' = [timer EXCEPT !["worker"] = FALSE]
    /\ IF saved THEN Merge("completed", sum[c], sum[c]) ELSE UNCHANGED row
    /\ Forget(c)
    /\ UNCHANGED <<keys, tries, kept, update, seen, socket, retrying>>

\* Redis fails, or the worker dies and the job is found stalled.  Bound:
\* fewer than 100 failed jobs, which the queue keeps.
JobFails(c) ==
    /\ c \in Working
    /\ Reported(c, "idle")
    /\ IF tries[c] < Attempts
       THEN phase' = [phase EXCEPT ![c] = "waiting"] /\ UNCHANGED kept
       ELSE phase' = [phase EXCEPT ![c] = "failed"] /\ kept' = kept \cup {c}
    /\ Forget(c)
    /\ UNCHANGED <<row, keys, tries, timers, socket, retrying>>

-----------------------------------------------------------------------------
(* resetSyncTimeout's callback                                             *)

TimerReads(x) ==
    /\ timer[x] /\ seen[x] = Nothing /\ ~Reporting(x)
    /\ timer' = [timer EXCEPT ![x] = FALSE]
    /\ IF row.done THEN UNCHANGED seen
       ELSE seen' = [seen EXCEPT ![x] =
                       [p |-> row.p, t |-> Greatest(row.t, Cardinality(totals))]]
    /\ UNCHANGED <<row, keys, jobs, update, socket, retrying>>

TimerDecides(x) ==
    /\ seen[x] # Nothing
    /\ IF Greatest(seen[x].p, Cardinality(processed)) >= seen[x].t
       THEN Report(x, "completed", seen[x].t, seen[x].t)
       ELSE Report(x, "failed", 0, 0)
    /\ seen' = [seen EXCEPT ![x] = Nothing]
    /\ UNCHANGED <<row, keys, jobs, timer, socket, retrying>>

-----------------------------------------------------------------------------
(* POST /:id/sync-retry                                                    *)

\* The progress hash goes, the hashes of the chunks stay; the metadata are
\* written whole.  Bound: one request at a time.
RetryReset ==
    /\ retrying = "no"
    /\ retrying' = "publish"
    /\ progress' = NoProgress
    /\ row' = [done |-> FALSE, status |-> "pending", p |-> 0, t |-> 0]
    /\ UNCHANGED <<totals, processed, jobs, update, timers, socket>>

RetryRestarts ==
    /\ retrying = "publish" /\ ~Reporting("retry")
    /\ retrying' = "report"
    /\ restart' = TRUE
    /\ Report("retry", "pending", 0, 0)
    /\ UNCHANGED <<row, keys, jobs, timers, initial, opening>>

RetryEnds ==
    /\ retrying = "report" /\ ~Reporting("retry")
    /\ retrying' = "no"
    /\ UNCHANGED <<row, keys, jobs, update, timers, socket>>

-----------------------------------------------------------------------------

\* What one async function does until it returns; its steps exclude each other.
Reports(a)  == WriteProgress(a) \/ WriteRow(a) \/ CleanKeys(a)
ChunkStep(c) ==
    \/ Publish(c) \/ JobStarts(c) \/ JobCounts(c) \/ JobInserts(c)
    \/ JobReports(c) \/ JobEnds(c) \/ JobCompletes(c, TRUE)
TimerStep(x) == TimerReads(x) \/ TimerDecides(x)
OpenStep == OpenReads \/ OpenSetsTimer \/ Restart
RetryStep == RetryRestarts \/ RetryEnds

Steps ==
    \/ \E a \in Caller : Reports(a)
    \/ \E c \in Chunk : ChunkStep(c)
    \/ \E x \in Process : TimerStep(x)
    \/ OpenStep \/ RetryStep

Arrivals == \E c \in Chunk : ChunkArrives(c)
Faults   == \/ \E a \in Caller : WriteRowFails(a)
            \/ \E c \in Chunk : EventFails(c) \/ JobFails(c) \/ JobCompletes(c, FALSE)
            \/ Reconnect

Next == Steps \/ Arrivals \/ Faults \/ RetryReset

Spec == Init /\ [][Next]_vars

-----------------------------------------------------------------------------
(* Properties                                                              *)

\* Nothing is under way any more, and no timer will fire.
Quiet ==
    /\ \A a \in Caller : ~Reporting(a)
    /\ \A c \in Chunk : phase[c] \in {"unsent", "done", "failed", "dropped"}
    /\ \A x \in Process : ~timer[x] /\ seen[x] = Nothing
    /\ retrying = "no" /\ opening = "no" /\ ~restart

\* Without failures, and however chunks and timers interleave, the sync does
\* not come to rest as pending or syncing: some process still has a timer.
\* (No step repeats itself then, so that the sync concludes.)
NeverHangs == Quiet => row.done \/ row.status = "failed"

\* The comment at message.sync.ts:75, "to prevent race conditions from
\* concurrent workers": a completed sync is shown as completed in the end.
CompletedShows == Quiet /\ row.done => row.status = "completed"

\* The comments at message.sync.ts:75 and :398: concurrent workers lose no
\* update of the progress.  Only a sync-retry takes anything back.
ProgressIsMonotone ==
    [][(retrying = "no" /\ retrying' = "publish")
       \/ (row.p <= row'.p /\ row.t <= row'.t /\ (row.done => row'.done))]_vars
=============================================================================
