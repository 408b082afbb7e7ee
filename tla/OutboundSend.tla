---------------------------- MODULE OutboundSend ----------------------------
(***************************************************************************)
(* The messages that are sent in ONE session: POST /api/messages puts each *)
(* into the queue of the session (events/event-bus.ts), the outbound       *)
(* worker of the replica that owns the session throttles, checks the lock, *)
(* sends and saves (modules/sessions/session.manager.ts).                  *)
(*                                                                         *)
(* The worker is made anew with every initializeSocket, and closing the    *)
(* old one lets it finish its job: so a replica may have two at work, and  *)
(* during a change of owner two replicas have.  <<r, g>> is the worker of  *)
(* generation g of replica r.  An action is what runs between two awaits.  *)
(***************************************************************************)
EXTENDS Integers, FiniteSets, Sequences

CONSTANTS
    Messages,       \* they are 1..Messages, in the order they are asked for
    Replica, Generation,
    Limit,          \* RATE_LIMIT_WA_MESSAGES
    Attempts,       \* attempts of a job, 5
    Stalls,         \* BullMQ's maxStalledCount, 1
    NoMsg, NoOwner

Msg == 1..Messages
Worker == Replica \X Generation

ASSUME SendTypes ==
    /\ Messages \in Nat /\ NoMsg \notin Msg /\ NoOwner \notin Replica \cup Worker
    /\ IsFiniteSet(Worker) /\ Limit \in Nat \ {0}
    /\ Attempts \in Nat \ {0} /\ Stalls \in Nat

VARIABLES
    owner, socket,       \* session:{id}:owner; activeSessions of each replica
    at, job,             \* where a worker is; the message in its hands
    closing,             \* workers that take no further job
    place, queue,        \* where a message is; the waiting ones
    holder,              \* the worker that has the lock of an active job
    tries, stalls,       \* of a job: failed attempts, times it was stalled
    count, ttl,          \* wa:send:count:{id}, 0 for no key; whether it expires
    sends,               \* history: messages in the order they left
    unsure, upset,       \* ... that may be sent again, that may lose their turn
    stale,               \* sends of a worker since its replica lost the lock
    raced                \* a worker read the counter while another raised it

lockVars  == <<owner, socket>>
jobVars   == <<place, queue, holder, tries, stalls>>
countVars == <<count, ttl>>
history   == <<sends, unsure, upset, stale, raced>>
vars == <<lockVars, at, job, closing, jobVars, countVars, history>>

Throttling == {"get", "incr", "expire", "full", "sleep", "clear", "fence"}
Step  == {"off", "idle", "sending", "saving", "ending"} \cup Throttling
Place == {"new", "asked", "refused", "dropped",
          "waiting", "active", "delayed", "completed", "failed"}

TypeOK ==
    /\ owner \in Replica \cup {NoOwner} /\ socket \in [Replica -> BOOLEAN]
    /\ at \in [Worker -> Step] /\ job \in [Worker -> Msg \cup {NoMsg}]
    /\ closing \in SUBSET Worker
    /\ place \in [Msg -> Place] /\ queue \in Seq(Msg)
    /\ holder \in [Msg -> Worker \cup {NoOwner}]
    /\ tries \in [Msg -> 0..Attempts] /\ stalls \in [Msg -> 0..Stalls]
    /\ count \in Nat /\ ttl \in BOOLEAN
    /\ sends \in Seq(Msg)
    /\ unsure \in SUBSET Msg /\ upset \in SUBSET Msg
    /\ stale \in [Worker -> Nat] /\ raced \in BOOLEAN

Init ==
    /\ owner = NoOwner /\ socket = [r \in Replica |-> FALSE]
    /\ at = [w \in Worker |-> "off"] /\ job = [w \in Worker |-> NoMsg]
    /\ closing = {} /\ place = [m \in Msg |-> "new"] /\ queue = <<>>
    /\ holder = [m \in Msg |-> NoOwner]
    /\ tries = [m \in Msg |-> 0] /\ stalls = [m \in Msg |-> 0]
    /\ count = 0 /\ ttl = FALSE
    /\ sends = <<>> /\ unsure = {} /\ upset = {}
    /\ stale = [w \in Worker |-> 0] /\ raced = FALSE

Goto(w, step) == at' = [at EXCEPT ![w] = step]
Put(m, p) == place' = [place EXCEPT ![m] = p]
Mine(r) == {r} \X Generation
Running(r) == {w \in Mine(r) : at[w] # "off"}

\* Others may send the next messages before the one that r has in hand.
Upset(r) == upset' = upset \cup ({job[w] : w \in Mine(r)} \ {NoMsg})

-----------------------------------------------------------------------------
\* POST /api/messages: the requests come in the order of the messages, and each
\* reads the session, its status, the access of the user, creates the chat if it
\* must, and reads the quoted and the forwarded message.
Ask(m) ==
    /\ place[m] = "new" /\ \A k \in 1..(m - 1) : place[k] # "new"
    /\ Put(m, "asked")
    /\ UNCHANGED <<lockVars, at, job, closing, queue, holder, tries, stalls, countVars, history>>

\* One of them refuses it (400, 403, 404), or fails (500), or the process ends.
Refuse(m) ==
    /\ place[m] = "asked"
    /\ Put(m, "refused")
    /\ UNCHANGED <<lockVars, at, job, closing, queue, holder, tries, stalls, countVars, history>>

\* The requests before it that are still under way come after it.
overtakesRequests(m) == upset' = upset \cup {k \in 1..(m - 1) : place[k] = "asked"}

\* Mutant of Publish: the queue is a stack.
PublishFirst(m) ==
    /\ place[m] = "asked"
    /\ Put(m, "waiting") /\ queue' = <<m>> \o queue
    /\ overtakesRequests(m)
    /\ UNCHANGED <<lockVars, at, job, closing, holder, tries, stalls, countVars,
                   sends, unsure, stale, raced>>

\* publishMessageOutbound; the route answers 202 then.
Publish(m) ==
    /\ place[m] = "asked"
    /\ Put(m, "waiting") /\ queue' = Append(queue, m)
    /\ overtakesRequests(m)
    /\ UNCHANGED <<lockVars, at, job, closing, holder, tries, stalls, countVars,
                   sends, unsure, stale, raced>>

\* The id is the session and the millisecond: with the id of a job that exists,
\* the queue adds none, and the route answers 202 as well.
PublishSameMs(m) ==
    /\ place[m] = "asked"
    /\ \E other \in Msg : place[other] \in {"waiting", "active", "delayed", "failed"}
    /\ Put(m, "dropped")
    /\ UNCHANGED <<lockVars, at, job, closing, queue, holder, tries, stalls, countVars, history>>

-----------------------------------------------------------------------------
\* initializeSocket with the lock: startDynamicWorkers closes the old worker.
Initialize(r, g) ==
    /\ at[<<r, g>>] = "off" /\ owner \in {r, NoOwner}
    /\ owner' = r /\ socket' = [socket EXCEPT ![r] = TRUE]
    /\ at' = [at EXCEPT ![<<r, g>>] = "idle"]
    /\ closing' = closing \cup Running(r)
    /\ Upset(r)
    /\ stale' = [w \in Worker |-> IF w \in Mine(r) THEN 0 ELSE stale[w]]
    /\ UNCHANGED <<job, jobVars, countVars, sends, unsure, raced>>

\* A closed worker ends when it has no job.
Close(w) ==
    /\ w \in closing /\ at[w] = "idle"
    /\ Goto(w, "off") /\ closing' = closing \ {w}
    /\ UNCHANGED <<lockVars, job, jobVars, countVars, history>>

\* forceTerminateSocket: the heartbeat, the watchdog or the fence check found the
\* lock lost.  releaseLock deletes only a lock of this replica.
Terminate(r) ==
    /\ socket' = [socket EXCEPT ![r] = FALSE]
    /\ closing' = closing \cup Running(r)
    /\ Upset(r)
    /\ owner' = IF owner = r THEN NoOwner ELSE owner

-----------------------------------------------------------------------------
Pick(w) ==
    /\ at[w] = "idle" /\ w \notin closing /\ queue # <<>>
    /\ LET m == Head(queue)
       IN  /\ job' = [job EXCEPT ![w] = m] /\ Put(m, "active")
           /\ holder' = [holder EXCEPT ![m] = w]
           /\ upset' = IF owner = w[1] THEN upset ELSE upset \cup {m}
    /\ queue' = Tail(queue) /\ Goto(w, "get")
    /\ UNCHANGED <<lockVars, closing, tries, stalls, countVars, sends, unsure, stale, raced>>

keepsAllButCount == UNCHANGED <<lockVars, job, closing, jobVars, history>>

\* Mutant of CountGet: the cap is overrun by one.
CountGetOneMore(w) ==
    /\ at[w] = "get"
    /\ Goto(w, IF count <= Limit THEN "incr" ELSE "full")
    /\ raced' = (raced \/ \E v \in Worker : at[v] = "incr")
    /\ UNCHANGED <<lockVars, job, closing, jobVars, countVars, sends, unsure, upset, stale>>

\* throttleOutboundSend.
CountGet(w) ==
    /\ at[w] = "get"
    /\ Goto(w, IF count < Limit THEN "incr" ELSE "full")
    /\ raced' = (raced \/ \E v \in Worker : at[v] = "incr")
    /\ UNCHANGED <<lockVars, job, closing, jobVars, countVars, sends, unsure, upset, stale>>

CountIncr(w) ==
    /\ at[w] = "incr"
    /\ count' = count + 1 /\ ttl' = (ttl /\ count > 0)
    /\ Goto(w, IF count' = 1 THEN "expire" ELSE "fence")
    /\ keepsAllButCount

CountExpire(w) ==
    /\ at[w] = "expire"
    /\ ttl' = (count > 0) /\ UNCHANGED count
    /\ Goto(w, "fence")
    /\ keepsAllButCount

CountFull(w) ==
    /\ at[w] = "full"
    /\ Goto(w, IF count > 0 /\ ttl THEN "sleep" ELSE "clear")
    /\ keepsAllButCount /\ UNCHANGED countVars

CountSleep(w) ==
    /\ at[w] = "sleep"
    /\ Goto(w, "get")
    /\ keepsAllButCount /\ UNCHANGED countVars

\* Mutant of CountClear: a key without TTL is waited for.
CountClearNone(w) ==
    /\ at[w] = "clear"
    /\ UNCHANGED countVars
    /\ Goto(w, "get")
    /\ keepsAllButCount

CountClear(w) ==
    /\ at[w] = "clear"
    /\ count' = 0 /\ ttl' = FALSE
    /\ Goto(w, "get")
    /\ keepsAllButCount

CountDies ==
    /\ count > 0 /\ ttl
    /\ count' = 0 /\ ttl' = FALSE
    /\ at' = at /\ keepsAllButCount

-----------------------------------------------------------------------------
\* The job throws.  A worker that lost the job's lock cannot change the job.
Fail(w) ==
    LET m == job[w]
    IN  /\ IF holder[m] = w
           THEN /\ tries' = [tries EXCEPT ![m] = @ + 1]
                /\ Put(m, IF tries[m] + 1 < Attempts THEN "delayed" ELSE "failed")
                /\ holder' = [holder EXCEPT ![m] = NoOwner]
           ELSE UNCHANGED <<tries, place, holder>>
        /\ Goto(w, "idle") /\ job' = [job EXCEPT ![w] = NoMsg]
        /\ UNCHANGED <<queue, stalls, countVars, stale, raced>>

upsetsJob(w) == upset' = upset \cup {job[w]}

\* Mutant of Fence: the message is sent whoever owns the session.
FenceNot(w) ==
    /\ at[w] = "fence" /\ socket[w[1]]
    /\ Goto(w, "sending")
    /\ keepsAllButCount /\ UNCHANGED countVars

Fence(w) ==
    /\ at[w] = "fence" /\ owner = w[1] /\ socket[w[1]]
    /\ Goto(w, "sending")
    /\ keepsAllButCount /\ UNCHANGED countVars

\* "Lock ownership lost"
FenceStops(w) ==
    /\ at[w] = "fence" /\ owner # w[1]
    /\ Terminate(w[1]) /\ Fail(w)
    /\ UNCHANGED <<sends, unsure>>

\* "Socket not active locally"
FenceNoSocket(w) ==
    /\ at[w] = "fence" /\ owner = w[1] /\ ~socket[w[1]]
    /\ Fail(w) /\ upsetsJob(w)
    /\ UNCHANGED <<lockVars, closing, sends, unsure>>

sendsJob(w) ==
    /\ sends' = Append(sends, job[w])
    /\ stale' = IF owner = w[1] THEN stale ELSE [stale EXCEPT ![w] = @ + 1]

Send(w) ==
    /\ at[w] = "sending"
    /\ sendsJob(w) /\ Goto(w, "saving")
    /\ UNCHANGED <<lockVars, job, closing, jobVars, countVars, unsure, upset, raced>>

\* The socket was ended after the check.
SendClosed(w) ==
    /\ at[w] = "sending" /\ ~socket[w[1]]
    /\ Fail(w) /\ upsetsJob(w)
    /\ UNCHANGED <<lockVars, closing, sends, unsure>>

\* Mutant of Save: an error is thrown, and the queue tries again.
SaveOrThrow(w) ==
    /\ at[w] = "saving"
    /\ Fail(w) /\ upsetsJob(w)
    /\ UNCHANGED <<lockVars, closing, sends, unsure>>

\* Row, broadcast and markChatAsRead, or an error: "Any failure below must NOT
\* rethrow."
Save(w) ==
    /\ at[w] = "saving"
    /\ Goto(w, "ending")
    /\ UNCHANGED <<lockVars, job, closing, jobVars, countVars, history>>

Complete(w) ==
    /\ at[w] = "ending"
    /\ IF holder[job[w]] = w
       THEN Put(job[w], "completed") /\ holder' = [holder EXCEPT ![job[w]] = NoOwner]
       ELSE UNCHANGED <<place, holder>>
    /\ Goto(w, "idle") /\ job' = [job EXCEPT ![w] = NoMsg]
    /\ UNCHANGED <<lockVars, closing, queue, tries, stalls, countVars, history>>

-----------------------------------------------------------------------------
\* BullMQ: the backoff of a failed job is over; it goes to the end of the queue.
Promote(m) ==
    /\ place[m] = "delayed"
    /\ Put(m, "waiting") /\ queue' = Append(queue, m)
    /\ UNCHANGED <<lockVars, at, job, closing, holder, tries, stalls, countVars, history>>

\* BullMQ: a worker finds a job whose lock has expired, and puts it first.  It
\* fails for good when that happens too often.
Stalled(m) ==
    /\ place[m] = "active" /\ \E w \in Worker : at[w] # "off"
    /\ holder' = [holder EXCEPT ![m] = NoOwner]
    /\ IF stalls[m] < Stalls
       THEN Put(m, "waiting") /\ queue' = <<m>> \o queue
            /\ stalls' = [stalls EXCEPT ![m] = @ + 1]
       ELSE Put(m, "failed") /\ UNCHANGED <<queue, stalls>>
    /\ unsure' = unsure \cup {m} /\ upset' = upset \cup {m}
    /\ UNCHANGED <<lockVars, at, job, closing, tries, countVars, sends, stale, raced>>

Abandoned(m) == holder[m] \in Worker /\ job[holder[m]] # m

-----------------------------------------------------------------------------
\* Redis does not answer, media cannot be read, the content is missing, ...
ThrottleFails(w) ==
    /\ at[w] \in Throttling
    /\ Fail(w) /\ upsetsJob(w)
    /\ UNCHANGED <<lockVars, closing, sends, unsure>>

SendFails(w) ==
    /\ at[w] = "sending"
    /\ Fail(w) /\ upsetsJob(w)
    /\ UNCHANGED <<lockVars, closing, sends, unsure>>

\* sendMessage throws although the message has left.
SendUnsure(w) ==
    /\ at[w] = "sending"
    /\ sends' = Append(sends, job[w]) /\ unsure' = unsure \cup {job[w]}
    /\ Fail(w) /\ upsetsJob(w)
    /\ UNCHANGED <<lockVars, closing>>

\* The lock expires: the heartbeats did not get through.
LockExpires ==
    /\ owner # NoOwner
    /\ owner' = NoOwner /\ Upset(owner)
    /\ UNCHANGED <<socket, at, job, closing, jobVars, countVars, sends, unsure, stale, raced>>

\* The connection closes; the lock and the worker are kept for the reconnect.
SocketCloses(r) ==
    /\ socket[r] /\ socket' = [socket EXCEPT ![r] = FALSE]
    /\ UNCHANGED <<owner, at, job, closing, jobVars, countVars, history>>

LockLost(r) ==
    /\ socket[r] /\ Terminate(r)
    /\ UNCHANGED <<at, job, jobVars, countVars, sends, unsure, stale, raced>>

\* The process dies; its lock expires, and its jobs stall.
Crash(r) ==
    /\ at' = [w \in Worker |-> IF w \in Mine(r) THEN "off" ELSE at[w]]
    /\ job' = [w \in Worker |-> IF w \in Mine(r) THEN NoMsg ELSE job[w]]
    /\ closing' = closing \ Mine(r) /\ socket' = [socket EXCEPT ![r] = FALSE]
    /\ owner' = IF owner = r THEN NoOwner ELSE owner
    /\ Upset(r)
    /\ UNCHANGED <<jobVars, countVars, sends, unsure, stale, raced>>

WorkerSteps(w) ==
    \/ Close(w) \/ Pick(w) \/ CountGet(w) \/ CountIncr(w) \/ CountExpire(w)
    \/ CountFull(w) \/ CountSleep(w) \/ CountClear(w)
    \/ Fence(w) \/ FenceStops(w) \/ FenceNoSocket(w)
    \/ Send(w) \/ SendClosed(w) \/ Save(w) \/ Complete(w)

Starts(r) ==
    /\ owner = NoOwner \/ ~socket[r]
    /\ \E g \in Generation : Initialize(r, g)

Route(m) == Publish(m) \/ Refuse(m)

QueueSteps(m) == Promote(m) \/ (Abandoned(m) /\ Stalled(m))

Faults ==
    \/ \E w \in Worker : \/ ThrottleFails(w) \/ SendFails(w) \/ SendUnsure(w)
    \/ \E r \in Replica : \/ LockLost(r) \/ SocketCloses(r) \/ Crash(r)
                          \/ (owner = r /\ \E g \in Generation : Initialize(r, g))
    \/ LockExpires
    \/ \E m \in Msg : Stalled(m) \/ PublishSameMs(m)

Next ==
    \/ \E w \in Worker : WorkerSteps(w)
    \/ \E m \in Msg : Ask(m) \/ Route(m) \/ QueueSteps(m)
    \/ \E r \in Replica : Starts(r)
    \/ CountDies
    \/ Faults

-----------------------------------------------------------------------------
Times(m) == Cardinality({i \in DOMAIN sends : sends[i] = m})

\* A message leaves twice only if its job stalled, or sendMessage reported an
\* error for a message that had left; never because saving or broadcasting it
\* failed ("a BullMQ retry would ... deliver a duplicate message", 2290).
DuplicateSendHasCause == \A m \in Msg : Times(m) > 1 => m \in unsure

\* The counter of a minute exceeds the cap only by the workers that read it
\* while another raised it: those of an old owner or an earlier initialization,
\* although "only the single lock-owning replica's serial outbound worker
\* touches these keys" (2124).
CapKept == count <= Limit + IF raced THEN Cardinality(Worker) - 1 ELSE 0

\* The types, and: the cap of a minute is kept (throttleOutboundSend).
SendInv == TypeOK /\ CapKept

\* Once its replica has lost the lock, a worker sends at most the one message
\* whose fence check it had passed (2227).
StaleSendsBounded == \A w \in Worker : stale[w] <= 1

\* The messages leave in the order in which they were asked for, except one
\* whose request was overtaken before it was queued, whose attempt failed, which
\* stalled, or whose worker was replaced under way.
OvertakenHasCause ==
    \A m \in Msg, n \in DOMAIN sends :
        m < sends[n] /\ m \notin upset /\ place[m] \notin {"refused", "dropped"}
            => \E l \in 1..n : sends[l] = m

Fairness ==
    /\ \A w \in Worker : WF_vars(WorkerSteps(w))
    /\ \A m \in Msg : WF_vars(Route(m)) /\ WF_vars(QueueSteps(m))
    /\ \A r \in Replica : WF_vars(Starts(r))
    /\ WF_vars(CountDies)

Spec == Init /\ [][Next]_vars /\ Fairness

\* Every message that was queued is sent, or given up after all its attempts,
\* whatever a crash left of the counter (an anomaly, 2138).
EveryMessageEnds ==
    <>[](\A m \in Msg : place[m] \in {"new", "refused", "dropped", "completed", "failed"})
=============================================================================
