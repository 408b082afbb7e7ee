------------------------ MODULE OutboundSend_proofs ------------------------
(***************************************************************************)
(* Proofs about the outbound queue of a session, for any number of         *)
(* messages, any replicas and generations of workers and all limits: no    *)
(* message leaves twice without a cause, the cap of a minute is kept, and  *)
(* a worker without the lock sends no more than it had in hand, and the    *)
(* messages leave in the order in which they were asked for.               *)
(***************************************************************************)
EXTENDS OutboundSend, FiniteSetTheorems, SequenceTheorems, TLAPS

InHand == Throttling \cup {"sending", "saving", "ending"}

LockTypes == owner \in Replica \cup {NoOwner} /\ socket \in [Replica -> BOOLEAN]

\* A worker has a job in hand exactly between "idle" and "off".
WorkTypes ==
    /\ at \in [Worker -> Step] /\ job \in [Worker -> Msg \cup {NoMsg}]
    /\ closing \in SUBSET Worker
    /\ \A w \in Worker : at[w] \in InHand <=> job[w] \in Msg

\* A job that a worker holds is active; attempts are left until it has failed.
PlaceTypes ==
    /\ place \in [Msg -> Place] /\ holder \in [Msg -> Worker \cup {NoOwner}]
    /\ tries \in [Msg -> 0..Attempts] /\ stalls \in [Msg -> 0..Stalls]
    /\ \A m \in Msg : holder[m] # NoOwner => place[m] = "active"
    /\ \A m \in Msg : place[m] # "failed" => tries[m] < Attempts

\* The queue holds the waiting messages, each once.
QueueTypes ==
    /\ queue \in Seq(Msg)
    /\ \A i \in 1..Len(queue) : place[queue[i]] = "waiting"
    /\ \A i, j \in 1..Len(queue) : queue[i] = queue[j] => i = j

HistoryTypes ==
    /\ sends \in Seq(Msg) /\ unsure \in SUBSET Msg /\ upset \in SUBSET Msg
    /\ stale \in [Worker -> Nat] /\ raced \in BOOLEAN

CountTypes == count \in Nat /\ ttl \in BOOLEAN

Types == LockTypes /\ WorkTypes /\ PlaceTypes /\ QueueTypes /\ CountTypes /\ HistoryTypes

\* A message of which nothing is unsure is with the worker that holds its job,
\* which has not sent it before it saves it; it leaves once, and is not tried
\* again after that.
OnceOf(m) ==
    /\ \A w \in Worker : job[w] = m =>
          /\ holder[m] = w
          /\ at[w] \notin {"saving", "ending"} => \A i \in 1..Len(sends) : sends[i] # m
    /\ \A i \in 1..Len(sends) : sends[i] = m => place[m] \in {"active", "completed"}
    /\ \A i, j \in 1..Len(sends) : sends[i] = m /\ sends[j] = m => i = j

OnceInv == \A m \in Msg \ unsure : OnceOf(m)

\* A worker that sent without the lock has no send before it until its replica
\* owns the session again.
StaleInv ==
    \A w \in Worker : stale[w] # 0 => stale[w] = 1 /\ owner # w[1] /\ at[w] # "sending"

\* Workers that have read the counter and will raise it.
Raising == {w \in Worker : at[w] = "incr"}

CapInv ==
    /\ raced => count + Cardinality(Raising) <= Limit + Cardinality(Worker) - 1
    /\ ~raced => /\ count <= Limit
                 /\ Raising # {} => count < Limit
                 /\ \A v, w \in Raising : v = w

-----------------------------------------------------------------------------
LEMMA WorkersOf ==
    /\ \A w \in Worker : w[1] \in Replica
    /\ \A r \in Replica : Mine(r) = {w \in Worker : w[1] = r}
BY DEF Mine, Worker

LEMMA RunningWork == \A r \in Replica : Running(r) \subseteq Worker
BY WorkersOf DEF Running

LEMMA UpsetsMessages ==
    ASSUME WorkTypes, upset \in SUBSET Msg, NEW r \in Replica, Upset(r)
    PROVE  upset' \in SUBSET Msg
BY WorkersOf DEF WorkTypes, Upset

\* A message that is put into the queue, at either end.
LEMMA QueueGrows ==
    ASSUME PlaceTypes, QueueTypes, NEW m \in Msg, place[m] # "waiting", Put(m, "waiting"),
           queue' = Append(queue, m) \/ queue' = <<m>> \o queue
    PROVE  QueueTypes'
<1>1. \A i \in 1..Len(queue) : queue[i] \in Msg /\ queue[i] # m /\ place'[queue[i]] = "waiting"
  BY ElementOfSeq DEF PlaceTypes, QueueTypes, Put
<1>2. place'[m] = "waiting"
  BY DEF PlaceTypes, Put
<1>3. CASE queue' = Append(queue, m)
  <2>1. /\ queue' \in Seq(Msg) /\ Len(queue') = Len(queue) + 1
        /\ \A i \in 1..Len(queue) : queue'[i] = queue[i]
        /\ queue'[Len(queue) + 1] = m
    BY <1>3, AppendProperties DEF QueueTypes
  <2>2. Len(queue) \in Nat
    BY LenProperties DEF QueueTypes
  <2>3. \A i \in 1..Len(queue') : i \in 1..Len(queue) \/ i = Len(queue) + 1
    BY <2>1, <2>2
  <2>4. QED
    BY <1>1, <1>2, <2>1, <2>3 DEF QueueTypes
<1>4. CASE queue' = <<m>> \o queue
  <2>1. /\ queue' \in Seq(Msg) /\ Len(queue') = 1 + Len(queue)
        /\ \A i \in 1..(1 + Len(queue)) : queue'[i] = IF i <= 1 THEN m ELSE queue[i - 1]
    <3>1. <<m>> \in Seq(Msg) /\ Len(<<m>>) = 1 /\ <<m>>[1] = m
      OBVIOUS
    <3>2. \A i \in 1..(1 + Len(queue)) : i <= 1 => i = 1
      BY LenProperties DEF QueueTypes
    <3>3. QED
      BY <1>4, <3>1, <3>2, ConcatProperties DEF QueueTypes
  <2>2. Len(queue) \in Nat
    BY LenProperties DEF QueueTypes
  <2>3. \A i \in 1..Len(queue') : \/ i = 1 /\ queue'[i] = m
                                  \/ i - 1 \in 1..Len(queue) /\ queue'[i] = queue[i - 1]
    BY <2>1, <2>2
  <2>4. \A i \in 1..Len(queue') : place'[queue'[i]] = "waiting"
    BY <1>1, <1>2, <2>3
  <2>5. ASSUME NEW i \in 1..Len(queue'), NEW j \in 1..Len(queue'), queue'[i] = queue'[j]
        PROVE  i = j
    <3>1. CASE i = 1 \/ j = 1
      <4>1. \A k \in 1..Len(queue') : k # 1 => queue'[k] # m
        BY <1>1, <2>3
      <4>2. queue'[1] = m
        BY <2>1, <2>2
      <4>3. QED
        BY <2>5, <3>1, <4>1, <4>2
    <3>2. CASE i # 1 /\ j # 1
      <4>1. /\ i - 1 \in 1..Len(queue) /\ j - 1 \in 1..Len(queue)
            /\ queue[i - 1] = queue[j - 1]
        BY <2>3, <2>5, <3>2
      <4>2. i - 1 = j - 1
        BY <4>1 DEF QueueTypes
      <4>3. QED
        BY <2>1, <2>2, <4>2
    <3>3. QED
      BY <3>1, <3>2
  <2>6. QED
    BY <2>1, <2>4, <2>5 DEF QueueTypes
<1>5. QED
  BY <1>3, <1>4

\* A message that does not wait goes elsewhere, and the queue is left alone.
LEMMA QueueKept ==
    ASSUME PlaceTypes, QueueTypes, queue' = queue, NEW m \in Msg, NEW p,
           UNCHANGED place \/ (place[m] # "waiting" /\ Put(m, p))
    PROVE  QueueTypes'
<1>1. \A i \in 1..Len(queue) : queue[i] \in Msg
  BY ElementOfSeq DEF QueueTypes
<1>2. QED
  BY <1>1 DEF PlaceTypes, QueueTypes, Put

\* What the end of a failed attempt does to its job and to the queue.
LEMMA FailKeeps ==
    ASSUME Types, NEW w \in Worker, at[w] \in InHand, Fail(w)
    PROVE  PlaceTypes' /\ QueueTypes'
<1>1. job[w] \in Msg /\ queue' = queue
  BY DEF Types, WorkTypes, Fail
<1>2. CASE holder[job[w]] = w
  <2>1. place[job[w]] = "active" /\ tries[job[w]] < Attempts
    BY <1>1, <1>2, SendTypes DEF Types, PlaceTypes
  <2>2. PlaceTypes'
    BY <1>1, <1>2, <2>1, SendTypes DEF Types, PlaceTypes, Place, Fail, Put
  <2>3. QueueTypes'
    BY <1>1, <1>2, <2>1, QueueKept DEF Types, Fail
  <2>4. QED
    BY <2>2, <2>3
<1>3. CASE holder[job[w]] # w
  BY <1>1, <1>3, QueueKept DEF Types, PlaceTypes, Fail
<1>4. QED
  BY <1>2, <1>3

LEMMA StalledKeeps ==
    ASSUME Types, NEW m \in Msg, Stalled(m)
    PROVE  PlaceTypes' /\ QueueTypes'
<1>1. place[m] # "waiting" /\ place[m] \in {"active"}
  BY DEF Stalled
<1>2. CASE stalls[m] < Stalls
  <2>1. PlaceTypes'
    <3>1. /\ place' = [place EXCEPT ![m] = "waiting"] /\ holder' = [holder EXCEPT ![m] = NoOwner]
          /\ stalls' = [stalls EXCEPT ![m] = @ + 1] /\ tries' = tries
      BY <1>2 DEF Stalled, Put
    <3>2. stalls[m] + 1 \in 0..Stalls
      BY <1>2, SendTypes DEF Types, PlaceTypes
    <3>3. stalls' \in [Msg -> 0..Stalls]
      BY <3>1, <3>2 DEF Types, PlaceTypes
    <3>4. QED
      BY <1>1, <3>1, <3>3 DEF Types, PlaceTypes, Place
  <2>2. QueueTypes'
    BY <1>1, <1>2, QueueGrows DEF Types, Stalled
  <2>3. QED
    BY <2>1, <2>2
<1>3. CASE ~(stalls[m] < Stalls)
  <2>1. PlaceTypes'
    BY <1>3, SendTypes DEF Types, PlaceTypes, Place, Stalled, Put
  <2>2. QueueTypes'
    BY <1>1, <1>3, QueueKept DEF Types, Stalled
  <2>3. QED
    BY <2>1, <2>2
<1>4. QED
  BY <1>2, <1>3

\* The first one is taken.
LEMMA QueueTail ==
    ASSUME PlaceTypes, QueueTypes, queue # <<>>, queue' = Tail(queue), Put(Head(queue), "active")
    PROVE  QueueTypes' /\ Head(queue) \in Msg /\ place[Head(queue)] = "waiting"
<1>1. /\ Head(queue) \in Msg /\ queue' \in Seq(Msg) /\ Len(queue') = Len(queue) - 1
      /\ \A i \in 1..Len(queue') : queue'[i] = queue[i + 1]
  BY HeadTailProperties DEF QueueTypes
<1>2. Len(queue) \in Nat \ {0} /\ Head(queue) = queue[1]
  BY EmptySeq DEF QueueTypes
<1>3. \A i \in 1..Len(queue') : i + 1 \in 1..Len(queue) /\ queue[i + 1] # queue[1]
  BY <1>1, <1>2 DEF QueueTypes
<1>4. \A i \in 1..Len(queue) : queue[i] \in Msg
  BY ElementOfSeq DEF QueueTypes
<1>5. \A i \in 1..Len(queue') : place'[queue'[i]] = "waiting"
  BY <1>1, <1>2, <1>3, <1>4 DEF PlaceTypes, QueueTypes, Put
<1>6. ASSUME NEW i \in 1..Len(queue'), NEW j \in 1..Len(queue'), queue'[i] = queue'[j]
      PROVE  i = j
  BY <1>1, <1>3, <1>6 DEF QueueTypes
<1>7. place[Head(queue)] = "waiting"
  BY <1>2 DEF QueueTypes
<1>8. QED
  BY <1>1, <1>5, <1>6, <1>7 DEF QueueTypes

LEMMA InitTypes == Init => Types
<1> SUFFICES ASSUME Init PROVE Types
  OBVIOUS
<1> USE SendTypes DEF Init
<1>1. LockTypes
  BY DEF LockTypes
<1>2. WorkTypes
  BY DEF WorkTypes, Step, Throttling, InHand
<1>3. PlaceTypes
  BY DEF PlaceTypes, Place
<1>4. QueueTypes
  BY DEF QueueTypes
<1>5. CountTypes
  BY Zenon, SMT DEF CountTypes
<1>6. HistoryTypes
  <2>1. raced \in BOOLEAN
    BY Zenon
  <2>2. QED
    BY <2>1 DEF HistoryTypes
<1>7. QED
  BY <1>1, <1>2, <1>3, <1>4, <1>5, <1>6 DEF Types

LEMMA NextLocks == Types /\ [Next]_vars => LockTypes'
<1> SUFFICES ASSUME Types, [Next]_vars PROVE LockTypes'
  OBVIOUS
<1> USE SendTypes DEF Types, LockTypes
<1>1. ASSUME NEW w \in Worker, FenceStops(w) PROVE LockTypes'
  BY <1>1 DEF FenceStops, Fail, Terminate
<1>2. ASSUME NEW r \in Replica, NEW g \in Generation, Initialize(r, g) PROVE LockTypes'
  BY <1>2 DEF Initialize
<1>3. ASSUME NEW r \in Replica, LockLost(r) PROVE LockTypes'
  BY <1>3 DEF LockLost, Terminate
<1>4. ASSUME NEW r \in Replica, SocketCloses(r) PROVE LockTypes'
  BY <1>4 DEF SocketCloses
<1>5. ASSUME NEW r \in Replica, Crash(r) PROVE LockTypes'
  BY <1>5 DEF Crash
<1>6. CASE LockExpires
  BY <1>6 DEF LockExpires
<1>7. ASSUME UNCHANGED <<owner, socket>> PROVE LockTypes'
  BY <1>7
<1>8. ASSUME NEW w \in Worker, Close(w) \/ Pick(w) \/ CountGet(w) \/ CountIncr(w) \/
       CountExpire(w) \/ CountFull(w) \/ CountSleep(w) \/ CountClear(w) \/ Fence(w) \/
       FenceNoSocket(w) \/ Send(w) \/ SendClosed(w) \/ Save(w) \/ Complete(w) \/
       ThrottleFails(w) \/ SendFails(w) \/ SendUnsure(w) PROVE LockTypes'
  BY <1>8, <1>7 DEF Close, Pick, CountGet, CountIncr, keepsAllButCount, CountExpire, CountFull,
  CountSleep, CountClear, Fence, FenceNoSocket, Fail, upsetsJob, Send, sendsJob, SendClosed,
  Save, Complete, ThrottleFails, SendFails, SendUnsure, lockVars, jobVars, countVars, history
<1>9. ASSUME NEW m \in Msg, Ask(m) \/ Refuse(m) \/ Publish(m) \/ PublishSameMs(m) \/
       Promote(m) \/ Stalled(m) PROVE LockTypes'
  BY <1>9, <1>7 DEF Ask, Refuse, Publish, overtakesRequests, PublishSameMs, Promote, Stalled,
  lockVars, jobVars, countVars, history
<1>10. CASE CountDies
  BY <1>10, <1>7 DEF CountDies, keepsAllButCount, lockVars, jobVars, countVars, history
<1>11. CASE UNCHANGED vars
  BY <1>11, <1>7 DEF vars, lockVars, jobVars, countVars, history
<1>12. QED
  BY <1>1, <1>2, <1>3, <1>4, <1>5, <1>6, <1>7, <1>8, <1>9, <1>10, <1>11
  DEF Next, WorkerSteps, Starts, Route, QueueSteps, Faults

LEMMA NextWorks == Types /\ [Next]_vars => WorkTypes'
<1> SUFFICES ASSUME Types, [Next]_vars PROVE WorkTypes'
  OBVIOUS
<1> USE SendTypes, RunningWork, WorkersOf DEF Types, WorkTypes, Step, Throttling, InHand,
    Goto
<1>1. ASSUME NEW w \in Worker, Close(w) PROVE WorkTypes'
  BY <1>1 DEF Close
<1>2. ASSUME NEW w \in Worker, Pick(w) PROVE WorkTypes'
  BY <1>2, QueueTail DEF Pick, PlaceTypes, QueueTypes
<1>3. ASSUME NEW w \in Worker, CountGet(w) PROVE WorkTypes'
  BY <1>3 DEF CountGet
<1>4. ASSUME NEW w \in Worker, CountIncr(w) PROVE WorkTypes'
  BY <1>4 DEF CountIncr, keepsAllButCount
<1>5. ASSUME NEW w \in Worker, CountExpire(w) PROVE WorkTypes'
  BY <1>5 DEF CountExpire, keepsAllButCount
<1>6. ASSUME NEW w \in Worker, CountFull(w) PROVE WorkTypes'
  BY <1>6 DEF CountFull, keepsAllButCount
<1>7. ASSUME NEW w \in Worker, CountSleep(w) PROVE WorkTypes'
  BY <1>7 DEF CountSleep, keepsAllButCount
<1>8. ASSUME NEW w \in Worker, CountClear(w) PROVE WorkTypes'
  BY <1>8 DEF CountClear, keepsAllButCount
<1>9. ASSUME NEW w \in Worker, Fence(w) PROVE WorkTypes'
  BY <1>9 DEF Fence, keepsAllButCount
<1>10. ASSUME NEW w \in Worker, FenceStops(w) PROVE WorkTypes'
  BY <1>10 DEF FenceStops, Fail, Terminate
<1>11. ASSUME NEW w \in Worker, FenceNoSocket(w) PROVE WorkTypes'
  BY <1>11 DEF FenceNoSocket, Fail, upsetsJob
<1>12. ASSUME NEW w \in Worker, Send(w) PROVE WorkTypes'
  BY <1>12 DEF Send, sendsJob
<1>13. ASSUME NEW w \in Worker, SendClosed(w) PROVE WorkTypes'
  BY <1>13 DEF SendClosed, Fail, upsetsJob
<1>14. ASSUME NEW w \in Worker, Save(w) PROVE WorkTypes'
  BY <1>14 DEF Save
<1>15. ASSUME NEW w \in Worker, Complete(w) PROVE WorkTypes'
  BY <1>15 DEF Complete
<1>16. ASSUME NEW w \in Worker, ThrottleFails(w) PROVE WorkTypes'
  BY <1>16 DEF ThrottleFails, Fail, upsetsJob
<1>17. ASSUME NEW w \in Worker, SendFails(w) PROVE WorkTypes'
  BY <1>17 DEF SendFails, Fail, upsetsJob
<1>18. ASSUME NEW w \in Worker, SendUnsure(w) PROVE WorkTypes'
  BY <1>18 DEF SendUnsure, Fail, upsetsJob
<1>19. ASSUME NEW r \in Replica, NEW g \in Generation, Initialize(r, g) PROVE WorkTypes'
  BY <1>19 DEF Initialize
<1>20. ASSUME NEW r \in Replica, LockLost(r) PROVE WorkTypes'
  BY <1>20 DEF LockLost, Terminate
<1>21. ASSUME NEW r \in Replica, Crash(r) PROVE WorkTypes'
  BY <1>21 DEF Crash
<1>22. ASSUME UNCHANGED <<at, job, closing>> PROVE WorkTypes'
  BY <1>22
<1>23. ASSUME NEW m \in Msg, Ask(m) \/ Refuse(m) \/ Publish(m) \/ PublishSameMs(m) \/
       Promote(m) \/ Stalled(m) PROVE WorkTypes'
  BY <1>23, <1>22 DEF Ask, Refuse, Publish, overtakesRequests, PublishSameMs, Promote, Stalled,
  lockVars, jobVars, countVars, history
<1>24. ASSUME NEW r \in Replica, SocketCloses(r) PROVE WorkTypes'
  BY <1>24, <1>22 DEF SocketCloses, lockVars, jobVars, countVars, history
<1>25. CASE CountDies \/ LockExpires
  BY <1>25, <1>22 DEF CountDies, keepsAllButCount, LockExpires, lockVars, jobVars, countVars,
  history
<1>26. CASE UNCHANGED vars
  BY <1>26, <1>22 DEF vars, lockVars, jobVars, countVars, history
<1>27. QED
  BY <1>1, <1>2, <1>3, <1>4, <1>5, <1>6, <1>7, <1>8, <1>9, <1>10, <1>11, <1>12, <1>13, <1>14,
  <1>15, <1>16, <1>17, <1>18, <1>19, <1>20, <1>21, <1>22, <1>23, <1>24, <1>25, <1>26
  DEF Next, WorkerSteps, Starts, Route, QueueSteps, Faults

LEMMA NextPlaces == Types /\ [Next]_vars => PlaceTypes'
<1> SUFFICES ASSUME Types, [Next]_vars PROVE PlaceTypes'
  OBVIOUS
<1> USE SendTypes DEF Types, WorkTypes, PlaceTypes, Place, Throttling, InHand, Put
<1>1. ASSUME NEW w \in Worker, Pick(w) PROVE PlaceTypes'
  BY <1>1, QueueTail DEF Pick
<1>2. ASSUME NEW w \in Worker, FenceStops(w) PROVE PlaceTypes'
  BY <1>2, FailKeeps DEF FenceStops, Throttling, InHand
<1>3. ASSUME NEW w \in Worker, FenceNoSocket(w) PROVE PlaceTypes'
  BY <1>3, FailKeeps DEF FenceNoSocket, Throttling, InHand
<1>4. ASSUME NEW w \in Worker, SendClosed(w) PROVE PlaceTypes'
  BY <1>4, FailKeeps DEF SendClosed, Throttling, InHand
<1>5. ASSUME NEW w \in Worker, Complete(w) PROVE PlaceTypes'
  BY <1>5 DEF Complete
<1>6. ASSUME NEW w \in Worker, ThrottleFails(w) PROVE PlaceTypes'
  BY <1>6, FailKeeps DEF ThrottleFails, Throttling, InHand
<1>7. ASSUME NEW w \in Worker, SendFails(w) PROVE PlaceTypes'
  BY <1>7, FailKeeps DEF SendFails, Throttling, InHand
<1>8. ASSUME NEW w \in Worker, SendUnsure(w) PROVE PlaceTypes'
  BY <1>8, FailKeeps DEF SendUnsure, Throttling, InHand
<1>9. ASSUME NEW m \in Msg, Ask(m) PROVE PlaceTypes'
  BY <1>9 DEF Ask
<1>10. ASSUME NEW m \in Msg, Refuse(m) PROVE PlaceTypes'
  BY <1>10 DEF Refuse
<1>11. ASSUME NEW m \in Msg, Publish(m) PROVE PlaceTypes'
  BY <1>11 DEF Publish, overtakesRequests
<1>12. ASSUME NEW m \in Msg, PublishSameMs(m) PROVE PlaceTypes'
  BY <1>12 DEF PublishSameMs
<1>13. ASSUME NEW m \in Msg, Promote(m) PROVE PlaceTypes'
  BY <1>13 DEF Promote
<1>14. ASSUME NEW m \in Msg, Stalled(m) PROVE PlaceTypes'
  BY <1>14, StalledKeeps
<1>15. ASSUME UNCHANGED <<place, holder, tries, stalls>> PROVE PlaceTypes'
  BY <1>15
<1>16. ASSUME NEW w \in Worker, Close(w) \/ CountGet(w) \/ CountIncr(w) \/ CountExpire(w)
       \/ CountFull(w) \/ CountSleep(w) \/ CountClear(w) \/ Fence(w) \/ Send(w) \/ Save(w) PROVE
       PlaceTypes'
  BY <1>16, <1>15 DEF Close, CountGet, CountIncr, keepsAllButCount, CountExpire, CountFull,
  CountSleep, CountClear, Fence, Send, sendsJob, Save, lockVars, jobVars, countVars, history
<1>17. ASSUME NEW r \in Replica, LockLost(r) \/ SocketCloses(r) \/ Crash(r) PROVE
       PlaceTypes'
  BY <1>17, <1>15 DEF LockLost, Terminate, SocketCloses, Crash, lockVars, jobVars, countVars,
  history
<1>18. ASSUME NEW r \in Replica, NEW g \in Generation, Initialize(r, g) PROVE PlaceTypes'
  BY <1>18, <1>15 DEF Initialize, lockVars, jobVars, countVars, history
<1>19. CASE CountDies \/ LockExpires
  BY <1>19, <1>15 DEF CountDies, keepsAllButCount, LockExpires, lockVars, jobVars, countVars,
  history
<1>20. CASE UNCHANGED vars
  BY <1>20, <1>15 DEF vars, lockVars, jobVars, countVars, history
<1>21. QED
  BY <1>1, <1>2, <1>3, <1>4, <1>5, <1>6, <1>7, <1>8, <1>9, <1>10, <1>11, <1>12, <1>13, <1>14,
  <1>15, <1>16, <1>17, <1>18, <1>19, <1>20
  DEF Next, WorkerSteps, Starts, Route, QueueSteps, Faults

LEMMA NextQueues == Types /\ [Next]_vars => QueueTypes'
<1> SUFFICES ASSUME Types, [Next]_vars PROVE QueueTypes'
  OBVIOUS
<1> USE SendTypes DEF Types
<1>1. ASSUME NEW w \in Worker, Pick(w) PROVE QueueTypes'
  BY <1>1, QueueTail DEF Pick
<1>2. ASSUME NEW w \in Worker, FenceStops(w) PROVE QueueTypes'
  BY <1>2, FailKeeps DEF FenceStops, Throttling, InHand
<1>3. ASSUME NEW w \in Worker, FenceNoSocket(w) PROVE QueueTypes'
  BY <1>3, FailKeeps DEF FenceNoSocket, Throttling, InHand
<1>4. ASSUME NEW w \in Worker, SendClosed(w) PROVE QueueTypes'
  BY <1>4, FailKeeps DEF SendClosed, Throttling, InHand
<1>5. ASSUME NEW w \in Worker, Complete(w) PROVE QueueTypes'
  BY <1>5, QueueKept DEF Complete, WorkTypes, PlaceTypes, InHand
<1>6. ASSUME NEW w \in Worker, ThrottleFails(w) PROVE QueueTypes'
  BY <1>6, FailKeeps DEF ThrottleFails, Throttling, InHand
<1>7. ASSUME NEW w \in Worker, SendFails(w) PROVE QueueTypes'
  BY <1>7, FailKeeps DEF SendFails, Throttling, InHand
<1>8. ASSUME NEW w \in Worker, SendUnsure(w) PROVE QueueTypes'
  BY <1>8, FailKeeps DEF SendUnsure, Throttling, InHand
<1>9. ASSUME NEW m \in Msg, Ask(m) PROVE QueueTypes'
  BY <1>9, QueueKept DEF Ask
<1>10. ASSUME NEW m \in Msg, Refuse(m) PROVE QueueTypes'
  BY <1>10, QueueKept DEF Refuse
<1>11. ASSUME NEW m \in Msg, Publish(m) PROVE QueueTypes'
  BY <1>11, QueueGrows DEF Publish, overtakesRequests
<1>12. ASSUME NEW m \in Msg, PublishSameMs(m) PROVE QueueTypes'
  BY <1>12, QueueKept DEF PublishSameMs
<1>13. ASSUME NEW m \in Msg, Promote(m) PROVE QueueTypes'
  BY <1>13, QueueGrows DEF Promote
<1>14. ASSUME NEW m \in Msg, Stalled(m) PROVE QueueTypes'
  BY <1>14, StalledKeeps
<1>15. ASSUME UNCHANGED <<place, queue>> PROVE QueueTypes'
  BY <1>15 DEF QueueTypes
<1>16. ASSUME NEW w \in Worker, Close(w) \/ CountGet(w) \/ CountIncr(w) \/ CountExpire(w)
       \/ CountFull(w) \/ CountSleep(w) \/ CountClear(w) \/ Fence(w) \/ Send(w) \/ Save(w) PROVE
       QueueTypes'
  BY <1>16, <1>15 DEF Close, CountGet, CountIncr, keepsAllButCount, CountExpire, CountFull,
  CountSleep, CountClear, Fence, Send, sendsJob, Save, lockVars, jobVars, countVars, history
<1>17. ASSUME NEW r \in Replica, LockLost(r) \/ SocketCloses(r) \/ Crash(r) PROVE
       QueueTypes'
  BY <1>17, <1>15 DEF LockLost, Terminate, SocketCloses, Crash, lockVars, jobVars, countVars,
  history
<1>18. ASSUME NEW r \in Replica, NEW g \in Generation, Initialize(r, g) PROVE QueueTypes'
  BY <1>18, <1>15 DEF Initialize, lockVars, jobVars, countVars, history
<1>19. CASE CountDies \/ LockExpires
  BY <1>19, <1>15 DEF CountDies, keepsAllButCount, LockExpires, lockVars, jobVars, countVars,
  history
<1>20. CASE UNCHANGED vars
  BY <1>20, <1>15 DEF vars, lockVars, jobVars, countVars, history
<1>21. QED
  BY <1>1, <1>2, <1>3, <1>4, <1>5, <1>6, <1>7, <1>8, <1>9, <1>10, <1>11, <1>12, <1>13, <1>14,
  <1>15, <1>16, <1>17, <1>18, <1>19, <1>20
  DEF Next, WorkerSteps, Starts, Route, QueueSteps, Faults

LEMMA NextCounts == Types /\ [Next]_vars => CountTypes'
<1> SUFFICES ASSUME Types, [Next]_vars PROVE CountTypes'
  OBVIOUS
<1> USE SendTypes DEF Types, CountTypes
<1>1. ASSUME NEW w \in Worker, CountIncr(w) PROVE CountTypes'
  BY <1>1 DEF CountIncr, keepsAllButCount
<1>2. ASSUME NEW w \in Worker, CountExpire(w) PROVE CountTypes'
  BY <1>2 DEF CountExpire, keepsAllButCount
<1>3. ASSUME NEW w \in Worker, CountClear(w) PROVE CountTypes'
  BY <1>3 DEF CountClear, keepsAllButCount
<1>4. CASE CountDies
  BY <1>4 DEF CountDies, keepsAllButCount
<1>5. ASSUME UNCHANGED <<count, ttl>> PROVE CountTypes'
  BY <1>5
<1>6. ASSUME NEW w \in Worker, Close(w) \/ Pick(w) \/ CountGet(w) \/ CountFull(w) \/
       CountSleep(w) \/ Fence(w) \/ FenceStops(w) \/ FenceNoSocket(w) \/ Send(w) \/
       SendClosed(w) \/ Save(w) \/ Complete(w) \/ ThrottleFails(w) \/ SendFails(w) \/
       SendUnsure(w) PROVE CountTypes'
  BY <1>6, <1>5 DEF Close, Pick, CountGet, CountFull, keepsAllButCount, CountSleep, Fence,
  FenceStops, Fail, Terminate, FenceNoSocket, upsetsJob, Send, sendsJob, SendClosed, Save,
  Complete, ThrottleFails, SendFails, SendUnsure, lockVars, jobVars, countVars, history
<1>7. ASSUME NEW m \in Msg, Ask(m) \/ Refuse(m) \/ Publish(m) \/ PublishSameMs(m) \/
       Promote(m) \/ Stalled(m) PROVE CountTypes'
  BY <1>7, <1>5 DEF Ask, Refuse, Publish, overtakesRequests, PublishSameMs, Promote, Stalled,
  lockVars, jobVars, countVars, history
<1>8. ASSUME NEW r \in Replica, LockLost(r) \/ SocketCloses(r) \/ Crash(r) PROVE
       CountTypes'
  BY <1>8, <1>5 DEF LockLost, Terminate, SocketCloses, Crash, lockVars, jobVars, countVars,
  history
<1>9. ASSUME NEW r \in Replica, NEW g \in Generation, Initialize(r, g) PROVE CountTypes'
  BY <1>9, <1>5 DEF Initialize, lockVars, jobVars, countVars, history
<1>10. CASE LockExpires
  BY <1>10, <1>5 DEF LockExpires, lockVars, jobVars, countVars, history
<1>11. CASE UNCHANGED vars
  BY <1>11, <1>5 DEF vars, lockVars, jobVars, countVars, history
<1>12. QED
  BY <1>1, <1>2, <1>3, <1>4, <1>5, <1>6, <1>7, <1>8, <1>9, <1>10, <1>11
  DEF Next, WorkerSteps, Starts, Route, QueueSteps, Faults

LEMMA NextHistory == Types /\ [Next]_vars => HistoryTypes'
<1> SUFFICES ASSUME Types, [Next]_vars PROVE HistoryTypes'
  OBVIOUS
<1> USE SendTypes, WorkersOf DEF Types, WorkTypes, HistoryTypes, Throttling, InHand
<1>1. ASSUME NEW w \in Worker, Pick(w) PROVE HistoryTypes'
  BY <1>1, QueueTail DEF Pick
<1>2. ASSUME NEW w \in Worker, CountGet(w) PROVE HistoryTypes'
  BY <1>2 DEF CountGet
<1>3. ASSUME NEW w \in Worker, FenceStops(w) PROVE HistoryTypes'
  BY <1>3, UpsetsMessages DEF FenceStops, Fail, Terminate
<1>4. ASSUME NEW w \in Worker, FenceNoSocket(w) PROVE HistoryTypes'
  BY <1>4 DEF FenceNoSocket, Fail, upsetsJob
<1>5. ASSUME NEW w \in Worker, Send(w) PROVE HistoryTypes'
  BY <1>5 DEF Send, sendsJob
<1>6. ASSUME NEW w \in Worker, SendClosed(w) PROVE HistoryTypes'
  BY <1>6 DEF SendClosed, Fail, upsetsJob
<1>7. ASSUME NEW w \in Worker, ThrottleFails(w) PROVE HistoryTypes'
  BY <1>7 DEF ThrottleFails, Fail, upsetsJob
<1>8. ASSUME NEW w \in Worker, SendFails(w) PROVE HistoryTypes'
  BY <1>8 DEF SendFails, Fail, upsetsJob
<1>9. ASSUME NEW w \in Worker, SendUnsure(w) PROVE HistoryTypes'
  BY <1>9 DEF SendUnsure, Fail, upsetsJob
<1>10. ASSUME NEW m \in Msg, Publish(m) PROVE HistoryTypes'
  BY <1>10 DEF Publish, overtakesRequests, Msg
<1>11. ASSUME NEW m \in Msg, Stalled(m) PROVE HistoryTypes'
  BY <1>11 DEF Stalled
<1>12. ASSUME NEW r \in Replica, NEW g \in Generation, Initialize(r, g) PROVE HistoryTypes'
  BY <1>12, UpsetsMessages DEF Initialize
<1>13. ASSUME NEW r \in Replica, LockLost(r) PROVE HistoryTypes'
  BY <1>13, UpsetsMessages DEF LockLost, Terminate
<1>14. ASSUME NEW r \in Replica, Crash(r) PROVE HistoryTypes'
  BY <1>14, UpsetsMessages DEF Crash
<1>15. CASE LockExpires
  BY <1>15, UpsetsMessages DEF LockExpires, LockTypes
<1>16. ASSUME UNCHANGED <<sends, unsure, upset, stale, raced>> PROVE HistoryTypes'
  BY <1>16
<1>17. ASSUME NEW w \in Worker, Close(w) \/ CountIncr(w) \/ CountExpire(w) \/
       CountFull(w) \/ CountSleep(w) \/ CountClear(w) \/ Fence(w) \/ Save(w) \/ Complete(w)
       PROVE HistoryTypes'
  BY <1>17, <1>16 DEF Close, CountIncr, keepsAllButCount, CountExpire, CountFull, CountSleep,
  CountClear, Fence, Save, Complete, lockVars, jobVars, countVars, history
<1>18. ASSUME NEW m \in Msg, Ask(m) \/ Refuse(m) \/ PublishSameMs(m) \/ Promote(m) PROVE
       HistoryTypes'
  BY <1>18, <1>16 DEF Ask, Refuse, PublishSameMs, Promote, lockVars, jobVars, countVars, history
<1>19. ASSUME NEW r \in Replica, SocketCloses(r) PROVE HistoryTypes'
  BY <1>19, <1>16 DEF SocketCloses, lockVars, jobVars, countVars, history
<1>20. CASE CountDies
  BY <1>20, <1>16 DEF CountDies, keepsAllButCount, lockVars, jobVars, countVars, history
<1>21. CASE UNCHANGED vars
  BY <1>21, <1>16 DEF vars, lockVars, jobVars, countVars, history
<1>22. QED
  BY <1>1, <1>2, <1>3, <1>4, <1>5, <1>6, <1>7, <1>8, <1>9, <1>10, <1>11, <1>12, <1>13, <1>14,
  <1>15, <1>16, <1>17, <1>18, <1>19, <1>20, <1>21
  DEF Next, WorkerSteps, Starts, Route, QueueSteps, Faults

LEMMA NextTypes == Types /\ [Next]_vars => Types'
BY NextLocks, NextWorks, NextPlaces, NextQueues, NextCounts, NextHistory DEF Types

-----------------------------------------------------------------------------
LEMMA InitStale == Init => StaleInv
BY DEF Init, StaleInv

LEMMA NextStale == Types /\ StaleInv /\ [Next]_vars => StaleInv'
<1> SUFFICES ASSUME Types, StaleInv, [Next]_vars PROVE StaleInv'
  OBVIOUS
<1> USE SendTypes, WorkersOf DEF Types, LockTypes, WorkTypes, HistoryTypes, Step,
    Throttling, StaleInv, Goto, lockVars, jobVars, countVars, history
<1>1. ASSUME NEW w \in Worker, Close(w) PROVE StaleInv'
  BY <1>1 DEF Close
<1>2. ASSUME NEW w \in Worker, Pick(w) PROVE StaleInv'
  BY <1>2 DEF Pick
<1>3. ASSUME NEW w \in Worker, CountGet(w) PROVE StaleInv'
  BY <1>3 DEF CountGet
<1>4. ASSUME NEW w \in Worker, CountIncr(w) PROVE StaleInv'
  BY <1>4 DEF CountIncr, keepsAllButCount
<1>5. ASSUME NEW w \in Worker, CountExpire(w) PROVE StaleInv'
  BY <1>5 DEF CountExpire, keepsAllButCount
<1>6. ASSUME NEW w \in Worker, CountFull(w) PROVE StaleInv'
  BY <1>6 DEF CountFull, keepsAllButCount
<1>7. ASSUME NEW w \in Worker, CountSleep(w) PROVE StaleInv'
  BY <1>7 DEF CountSleep, keepsAllButCount
<1>8. ASSUME NEW w \in Worker, CountClear(w) PROVE StaleInv'
  BY <1>8 DEF CountClear, keepsAllButCount
<1>9. ASSUME NEW w \in Worker, Fence(w) PROVE StaleInv'
  BY <1>9 DEF Fence, keepsAllButCount
<1>10. ASSUME NEW w \in Worker, FenceStops(w) PROVE StaleInv'
  BY <1>10 DEF FenceStops, Fail, Terminate
<1>11. ASSUME NEW w \in Worker, FenceNoSocket(w) PROVE StaleInv'
  BY <1>11 DEF FenceNoSocket, Fail, upsetsJob
<1>12. ASSUME NEW w \in Worker, Send(w) PROVE StaleInv'
  BY <1>12 DEF Send, sendsJob
<1>13. ASSUME NEW w \in Worker, SendClosed(w) PROVE StaleInv'
  BY <1>13 DEF SendClosed, Fail, upsetsJob
<1>14. ASSUME NEW w \in Worker, Save(w) PROVE StaleInv'
  BY <1>14 DEF Save
<1>15. ASSUME NEW w \in Worker, Complete(w) PROVE StaleInv'
  BY <1>15 DEF Complete
<1>16. ASSUME NEW w \in Worker, ThrottleFails(w) PROVE StaleInv'
  BY <1>16 DEF ThrottleFails, Fail, upsetsJob
<1>17. ASSUME NEW w \in Worker, SendFails(w) PROVE StaleInv'
  BY <1>17 DEF SendFails, Fail, upsetsJob
<1>18. ASSUME NEW w \in Worker, SendUnsure(w) PROVE StaleInv'
  BY <1>18 DEF SendUnsure, Fail, upsetsJob
<1>19. ASSUME NEW r \in Replica, NEW g \in Generation, Initialize(r, g) PROVE StaleInv'
  BY <1>19 DEF Initialize
<1>20. ASSUME NEW r \in Replica, LockLost(r) PROVE StaleInv'
  BY <1>20 DEF LockLost, Terminate
<1>21. ASSUME NEW r \in Replica, Crash(r) PROVE StaleInv'
  BY <1>21 DEF Crash
<1>22. CASE LockExpires
  BY <1>22 DEF LockExpires
<1>23. ASSUME UNCHANGED <<owner, at, stale>> PROVE StaleInv'
  BY <1>23
<1>24. ASSUME NEW m \in Msg, Ask(m) \/ Refuse(m) \/ Publish(m) \/ PublishSameMs(m) \/
       Promote(m) \/ Stalled(m) PROVE StaleInv'
  BY <1>24, <1>23 DEF Ask, Refuse, Publish, overtakesRequests, PublishSameMs, Promote, Stalled,
  lockVars, jobVars, countVars, history
<1>25. ASSUME NEW r \in Replica, SocketCloses(r) PROVE StaleInv'
  BY <1>25, <1>23 DEF SocketCloses, lockVars, jobVars, countVars, history
<1>26. CASE CountDies
  BY <1>26, <1>23 DEF CountDies, keepsAllButCount, lockVars, jobVars, countVars, history
<1>27. CASE UNCHANGED vars
  BY <1>27, <1>23 DEF vars, lockVars, jobVars, countVars, history
<1>28. QED
  BY <1>1, <1>2, <1>3, <1>4, <1>5, <1>6, <1>7, <1>8, <1>9, <1>10, <1>11, <1>12, <1>13, <1>14,
  <1>15, <1>16, <1>17, <1>18, <1>19, <1>20, <1>21, <1>22, <1>23, <1>24, <1>25, <1>26, <1>27
  DEF Next, WorkerSteps, Starts, Route, QueueSteps, Faults

LEMMA InitOnce == Init => OnceInv
BY SendTypes DEF Init, OnceInv, OnceOf

LEMMA SendsGrow ==
    ASSUME HistoryTypes, NEW m \in Msg, sends' = Append(sends, m)
    PROVE  /\ Len(sends) \in Nat /\ Len(sends') = Len(sends) + 1
           /\ \A i \in 1..Len(sends') : \/ i \in 1..Len(sends) /\ sends'[i] = sends[i]
                                        \/ i = Len(sends) + 1 /\ sends'[i] = m
<1>1. Len(sends) \in Nat
  BY LenProperties DEF HistoryTypes
<1>2. QED
  BY <1>1, AppendProperties DEF HistoryTypes

\* A message of which only other workers' jobs, or nothing, changes.
LEMMA OnceKept ==
    ASSUME NEW m \in Msg, OnceOf(m), UNCHANGED <<place[m], holder[m]>>,
           \A w \in Worker : job'[w] = m => job[w] = m /\ UNCHANGED at[w],
           \/ UNCHANGED sends
           \/ \E k \in Msg : HistoryTypes /\ k # m /\ sends' = Append(sends, k)
    PROVE  OnceOf(m)'
<1>1. CASE UNCHANGED sends
  BY <1>1 DEF OnceOf
<1>2. CASE \E k \in Msg : HistoryTypes /\ k # m /\ sends' = Append(sends, k)
  <2>1. PICK k \in Msg : HistoryTypes /\ k # m /\ sends' = Append(sends, k)
    BY <1>2
  <2>2. \A i \in 1..Len(sends') : sends'[i] = m => i \in 1..Len(sends) /\ sends[i] = m
    BY <2>1, SendsGrow
  <2>3. QED
    BY <2>2 DEF OnceOf
<1>3. QED
  BY <1>1, <1>2

\* Workers move on; none takes back that it has sent.
LEMMA OnceStep ==
    ASSUME OnceInv, UNCHANGED <<job, place, holder, sends, unsure>>,
           \A w \in Worker : job[w] \in Msg /\ at[w] \in {"saving", "ending"}
                                => at'[w] \in {"saving", "ending"}
    PROVE  OnceInv'
BY DEF OnceInv, OnceOf

\* A worker starts.
LEMMA OnceStart ==
    ASSUME Types, OnceInv, UNCHANGED <<job, place, holder, sends, unsure>>,
           NEW v \in Worker, at[v] = "off", at' = [at EXCEPT ![v] = "idle"]
    PROVE  OnceInv'
BY OnceStep DEF Types, WorkTypes

\* A failed attempt has not sent its message, unless that is unsure now.
LEMMA FailOnce ==
    ASSUME Types, OnceInv, NEW w \in Worker, at[w] \in Throttling \cup {"sending"}, Fail(w),
           \/ UNCHANGED <<sends, unsure>>
           \/ sends' = Append(sends, job[w]) /\ unsure' = unsure \cup {job[w]}
    PROVE  OnceInv'
<1> SUFFICES ASSUME NEW m \in Msg \ unsure' PROVE OnceOf(m)'
  BY DEF OnceInv
<1>1. job[w] \in Msg /\ m \notin unsure /\ OnceOf(m)
  BY DEF Types, WorkTypes, InHand, OnceInv
<1>2. CASE m = job[w]
  <2>1. /\ UNCHANGED sends /\ holder[m] = w
        /\ \A i \in 1..Len(sends) : sends[i] # m
    BY <1>1, <1>2 DEF OnceOf, Throttling
  <2>2. \A v \in Worker : job'[v] # m
    BY <1>1, <1>2, <2>1, SendTypes DEF Types, WorkTypes, OnceOf, Fail
  <2>3. QED
    BY <2>1, <2>2 DEF OnceOf
<1>3. CASE m # job[w]
  <2>1. UNCHANGED <<place[m], holder[m]>>
    BY <1>1, <1>3 DEF Types, PlaceTypes, Fail, Put
  <2>2. \A v \in Worker : job'[v] = m => job[v] = m /\ UNCHANGED at[v]
    BY <1>1, <1>3, SendTypes DEF Types, WorkTypes, Fail, Goto
  <2>3. \/ UNCHANGED sends
        \/ \E k \in Msg : HistoryTypes /\ k # m /\ sends' = Append(sends, k)
    BY <1>1, <1>3 DEF Types
  <2>4. QED
    BY <1>1, <2>1, <2>2, <2>3, OnceKept
<1>4. QED
  BY <1>2, <1>3

LEMMA SendOnce ==
    ASSUME Types, OnceInv, NEW w \in Worker, Send(w)
    PROVE  OnceInv'
<1> SUFFICES ASSUME NEW m \in Msg \ unsure' PROVE OnceOf(m)'
  BY DEF OnceInv
<1>1. /\ job[w] \in Msg /\ m \notin unsure /\ OnceOf(m) /\ sends' = Append(sends, job[w])
      /\ UNCHANGED <<place, holder, job>> /\ at' = [at EXCEPT ![w] = "saving"]
  BY DEF Types, WorkTypes, InHand, OnceInv, Send, sendsJob, Goto, jobVars
<1>2. CASE m = job[w]
  <2>1. /\ holder[m] = w /\ place[m] = "active"
        /\ \A i \in 1..Len(sends) : sends[i] # m
    BY <1>1, <1>2, SendTypes DEF OnceOf, Send, Types, PlaceTypes
  <2>2. \A v \in Worker : job'[v] = m => v = w /\ at'[v] = "saving"
    BY <1>1, <1>2, <2>1 DEF OnceOf, Types, WorkTypes
  <2>3. \A i, j \in 1..Len(sends') : sends'[i] = m /\ sends'[j] = m => i = j
    BY <1>1, <2>1, SendsGrow DEF Types
  <2>4. QED
    BY <1>1, <2>1, <2>2, <2>3 DEF OnceOf
<1>3. CASE m # job[w]
  <2>1. \A v \in Worker : job'[v] = m => job[v] = m /\ UNCHANGED at[v]
    BY <1>1, <1>3 DEF Types, WorkTypes
  <2>2. QED
    BY <1>1, <1>3, <2>1, OnceKept DEF Types
<1>4. QED
  BY <1>2, <1>3

LEMMA NextOnce == Types /\ OnceInv /\ [Next]_vars => OnceInv'
<1> SUFFICES ASSUME Types, OnceInv, [Next]_vars PROVE OnceInv'
  OBVIOUS
<1> USE SendTypes DEF Types, WorkTypes, PlaceTypes, OnceInv, OnceOf, Throttling, InHand,
    Goto, Put, lockVars, jobVars, countVars, history
<1>1. ASSUME NEW w \in Worker, Close(w) PROVE OnceInv'
  BY <1>1 DEF Close
<1>2. ASSUME NEW w \in Worker, Pick(w) PROVE OnceInv'
  BY <1>2, QueueTail DEF Pick
<1>3. ASSUME NEW w \in Worker, CountGet(w) PROVE OnceInv'
  BY <1>3, OnceStep DEF CountGet
<1>4. ASSUME NEW w \in Worker, CountIncr(w) PROVE OnceInv'
  BY <1>4, OnceStep DEF CountIncr, keepsAllButCount
<1>5. ASSUME NEW w \in Worker, CountExpire(w) PROVE OnceInv'
  BY <1>5, OnceStep DEF CountExpire, keepsAllButCount
<1>6. ASSUME NEW w \in Worker, CountFull(w) PROVE OnceInv'
  BY <1>6, OnceStep DEF CountFull, keepsAllButCount
<1>7. ASSUME NEW w \in Worker, CountSleep(w) PROVE OnceInv'
  BY <1>7, OnceStep DEF CountSleep, keepsAllButCount
<1>8. ASSUME NEW w \in Worker, CountClear(w) PROVE OnceInv'
  BY <1>8, OnceStep DEF CountClear, keepsAllButCount
<1>9. ASSUME NEW w \in Worker, Fence(w) PROVE OnceInv'
  BY <1>9, OnceStep DEF Fence, keepsAllButCount
<1>10. ASSUME NEW w \in Worker, FenceStops(w) PROVE OnceInv'
  BY <1>10, FailOnce DEF FenceStops, Terminate
<1>11. ASSUME NEW w \in Worker, FenceNoSocket(w) PROVE OnceInv'
  BY <1>11, FailOnce DEF FenceNoSocket, upsetsJob
<1>12. ASSUME NEW w \in Worker, Send(w) PROVE OnceInv'
  BY <1>12, SendOnce
<1>13. ASSUME NEW w \in Worker, SendClosed(w) PROVE OnceInv'
  BY <1>13, FailOnce DEF SendClosed, upsetsJob
<1>14. ASSUME NEW w \in Worker, Save(w) PROVE OnceInv'
  BY <1>14, OnceStep, SMTT(30) DEF Save
<1>15. ASSUME NEW w \in Worker, Complete(w) PROVE OnceInv'
  BY <1>15 DEF Complete
<1>16. ASSUME NEW w \in Worker, ThrottleFails(w) PROVE OnceInv'
  BY <1>16, FailOnce DEF ThrottleFails, upsetsJob
<1>17. ASSUME NEW w \in Worker, SendFails(w) PROVE OnceInv'
  BY <1>17, FailOnce DEF SendFails, upsetsJob
<1>18. ASSUME NEW w \in Worker, SendUnsure(w) PROVE OnceInv'
  BY <1>18, FailOnce DEF SendUnsure, upsetsJob
<1>19. ASSUME NEW m \in Msg, Ask(m) PROVE OnceInv'
  BY <1>19, SMTT(30) DEF Ask
<1>20. ASSUME NEW m \in Msg, Refuse(m) PROVE OnceInv'
  BY <1>20 DEF Refuse
<1>21. ASSUME NEW m \in Msg, Publish(m) PROVE OnceInv'
  BY <1>21 DEF Publish, overtakesRequests
<1>22. ASSUME NEW m \in Msg, PublishSameMs(m) PROVE OnceInv'
  BY <1>22 DEF PublishSameMs
<1>23. ASSUME NEW m \in Msg, Promote(m) PROVE OnceInv'
  BY <1>23 DEF Promote
<1>24. ASSUME NEW m \in Msg, Stalled(m) PROVE OnceInv'
  BY <1>24 DEF Stalled
<1>25. ASSUME NEW r \in Replica, NEW g \in Generation, Initialize(r, g) PROVE OnceInv'
  <2>1. UNCHANGED <<job, place, holder, sends, unsure>>
    BY <1>25 DEF Initialize
  <2>2. /\ <<r, g>> \in Worker /\ at[<<r, g>>] = "off" /\ at' = [at EXCEPT ![<<r, g>>] = "idle"]
    BY <1>25 DEF Initialize, Worker
  <2>3. QED
    BY <2>1, <2>2, OnceStart
<1>26. ASSUME NEW r \in Replica, Crash(r) PROVE OnceInv'
  BY <1>26 DEF Crash, HistoryTypes, Mine
<1>27. ASSUME UNCHANGED <<at, job, place, holder, sends, unsure>> PROVE OnceInv'
  BY <1>27
<1>28. ASSUME NEW r \in Replica, LockLost(r) \/ SocketCloses(r) PROVE OnceInv'
  BY <1>28, <1>27 DEF LockLost, Terminate, SocketCloses, lockVars, jobVars, countVars, history
<1>29. CASE CountDies \/ LockExpires
  BY <1>29, <1>27 DEF CountDies, keepsAllButCount, LockExpires, lockVars, jobVars, countVars,
  history
<1>30. CASE UNCHANGED vars
  BY <1>30, <1>27 DEF vars, lockVars, jobVars, countVars, history
<1>31. QED
  BY <1>1, <1>2, <1>3, <1>4, <1>5, <1>6, <1>7, <1>8, <1>9, <1>10, <1>11, <1>12, <1>13, <1>14,
  <1>15, <1>16, <1>17, <1>18, <1>19, <1>20, <1>21, <1>22, <1>23, <1>24, <1>25, <1>26, <1>27,
  <1>28, <1>29, <1>30
  DEF Next, WorkerSteps, Starts, Route, QueueSteps, Faults

-----------------------------------------------------------------------------
LEMMA RaisingFinite == IsFiniteSet(Raising) /\ Cardinality(Raising) \in Nat
                       /\ IsFiniteSet(Worker) /\ Cardinality(Worker) \in Nat
BY SendTypes, FS_Subset, FS_CardinalityType DEF Raising

LEMMA InitCap == Init => CapInv
<1> SUFFICES ASSUME Init PROVE CapInv
  OBVIOUS
<1>1. Raising = {} /\ count = 0 /\ ~raced
  BY DEF Init, Raising
<1>2. QED
  BY <1>1, SendTypes DEF CapInv

\* Nobody begins to raise the counter, and it is kept or cleared.
LEMMA CapShrinks ==
    ASSUME Types, CapInv, UNCHANGED raced, count' \in {0, count}, Raising' \subseteq Raising
    PROVE  CapInv'
<1>1. Cardinality(Raising') <= Cardinality(Raising) /\ Cardinality(Raising') \in Nat
  BY RaisingFinite, FS_Subset, FS_CardinalityType
<1>2. count \in Nat
  BY DEF Types, CountTypes
<1>3. Cardinality(Raising) <= Cardinality(Worker)
  BY RaisingFinite, FS_Subset DEF Raising
<1>4. QED
  BY <1>1, <1>2, <1>3, RaisingFinite, SendTypes DEF CapInv

LEMMA GetCap ==
    ASSUME Types, CapInv, NEW w \in Worker, CountGet(w)
    PROVE  CapInv'
<1>1. /\ w \notin Raising /\ UNCHANGED count /\ count \in Nat
      /\ raced' = (raced \/ Raising # {})
  BY DEF CountGet, Types, CountTypes, countVars, Raising
<1>2. CASE count < Limit
  <2>1. Raising' = Raising \cup {w}
    BY <1>1, <1>2 DEF CountGet, Goto, Raising, Types, WorkTypes
  <2>2. Cardinality(Raising') <= Cardinality(Worker) /\ Cardinality(Raising') \in Nat
    BY RaisingFinite, FS_Subset, FS_CardinalityType DEF Raising
  <2>3. raced' => count' + Cardinality(Raising') <= Limit + Cardinality(Worker) - 1
    BY <1>1, <1>2, <2>2, RaisingFinite, SendTypes
  <2>4. ~raced' => \A u, v \in Raising' : u = v
    BY <1>1, <2>1
  <2>5. QED
    BY <1>1, <1>2, <2>3, <2>4, SendTypes DEF CapInv
<1>3. CASE ~(count < Limit)
  <2>1. Raising' = Raising
    BY <1>1, <1>3 DEF CountGet, Goto, Raising, Types, WorkTypes
  <2>2. raced' = raced
    BY <1>1, <1>3 DEF CapInv, Types, HistoryTypes
  <2>3. QED
    BY <1>1, <2>1, <2>2, CapShrinks
<1>4. QED
  BY <1>2, <1>3

LEMMA IncrCap ==
    ASSUME Types, CapInv, NEW w \in Worker, CountIncr(w)
    PROVE  CapInv'
<1>1. /\ w \in Raising /\ count' = count + 1 /\ count \in Nat /\ UNCHANGED raced
  BY DEF CountIncr, Types, CountTypes, keepsAllButCount, history, Raising
<1>2. Raising' = Raising \ {w}
  BY <1>1 DEF CountIncr, Goto, Raising, Types, WorkTypes
<1>3. Cardinality(Raising') = Cardinality(Raising) - 1
  BY <1>1, <1>2, RaisingFinite, FS_RemoveElement
<1>4. raced' => count' + Cardinality(Raising') <= Limit + Cardinality(Worker) - 1
  BY <1>1, <1>3, RaisingFinite, SendTypes DEF CapInv
<1>5. ~raced' => count' <= Limit /\ Raising' = {}
  BY <1>1, <1>2, SendTypes DEF CapInv
<1>6. QED
  BY <1>4, <1>5 DEF CapInv

LEMMA NextCap == Types /\ CapInv /\ [Next]_vars => CapInv'
<1> SUFFICES ASSUME Types, CapInv, [Next]_vars PROVE CapInv'
  OBVIOUS
<1> USE SendTypes DEF Types, WorkTypes, CountTypes, Raising, Throttling, InHand, Goto,
    lockVars, jobVars, countVars, history
<1>1. ASSUME NEW w \in Worker, Close(w) PROVE CapInv'
  BY <1>1, CapShrinks DEF Close
<1>2. ASSUME NEW w \in Worker, Pick(w) PROVE CapInv'
  BY <1>2, CapShrinks DEF Pick
<1>3. ASSUME NEW w \in Worker, CountGet(w) PROVE CapInv'
  BY <1>3, GetCap
<1>4. ASSUME NEW w \in Worker, CountIncr(w) PROVE CapInv'
  BY <1>4, IncrCap
<1>5. ASSUME NEW w \in Worker, CountExpire(w) PROVE CapInv'
  BY <1>5, CapShrinks DEF CountExpire, keepsAllButCount
<1>6. ASSUME NEW w \in Worker, CountFull(w) PROVE CapInv'
  BY <1>6, CapShrinks DEF CountFull, keepsAllButCount
<1>7. ASSUME NEW w \in Worker, CountSleep(w) PROVE CapInv'
  BY <1>7, CapShrinks DEF CountSleep, keepsAllButCount
<1>8. ASSUME NEW w \in Worker, CountClear(w) PROVE CapInv'
  BY <1>8, CapShrinks DEF CountClear, keepsAllButCount
<1>9. ASSUME NEW w \in Worker, Fence(w) PROVE CapInv'
  BY <1>9, CapShrinks DEF Fence, keepsAllButCount
<1>10. ASSUME NEW w \in Worker, FenceStops(w) PROVE CapInv'
  BY <1>10, CapShrinks DEF FenceStops, Fail, Terminate
<1>11. ASSUME NEW w \in Worker, FenceNoSocket(w) PROVE CapInv'
  BY <1>11, CapShrinks DEF FenceNoSocket, Fail, upsetsJob
<1>12. ASSUME NEW w \in Worker, Send(w) PROVE CapInv'
  BY <1>12, CapShrinks DEF Send, sendsJob
<1>13. ASSUME NEW w \in Worker, SendClosed(w) PROVE CapInv'
  BY <1>13, CapShrinks DEF SendClosed, Fail, upsetsJob
<1>14. ASSUME NEW w \in Worker, Save(w) PROVE CapInv'
  BY <1>14, CapShrinks DEF Save
<1>15. ASSUME NEW w \in Worker, Complete(w) PROVE CapInv'
  BY <1>15, CapShrinks DEF Complete
<1>16. ASSUME NEW w \in Worker, ThrottleFails(w) PROVE CapInv'
  BY <1>16, CapShrinks DEF ThrottleFails, Fail, upsetsJob
<1>17. ASSUME NEW w \in Worker, SendFails(w) PROVE CapInv'
  BY <1>17, CapShrinks DEF SendFails, Fail, upsetsJob
<1>18. ASSUME NEW w \in Worker, SendUnsure(w) PROVE CapInv'
  BY <1>18, CapShrinks DEF SendUnsure, Fail, upsetsJob
<1>19. ASSUME NEW r \in Replica, NEW g \in Generation, Initialize(r, g) PROVE CapInv'
  BY <1>19, CapShrinks DEF Initialize
<1>20. ASSUME NEW r \in Replica, Crash(r) PROVE CapInv'
  BY <1>20, CapShrinks DEF Crash
<1>21. CASE CountDies
  BY <1>21, CapShrinks DEF CountDies, keepsAllButCount
<1>22. ASSUME UNCHANGED <<at, count, raced>> PROVE CapInv'
  BY <1>22, CapShrinks
<1>23. ASSUME NEW m \in Msg, Ask(m) \/ Refuse(m) \/ Publish(m) \/ PublishSameMs(m) \/
       Promote(m) \/ Stalled(m) PROVE CapInv'
  BY <1>23, <1>22 DEF Ask, Refuse, Publish, overtakesRequests, PublishSameMs, Promote, Stalled,
  lockVars, jobVars, countVars, history
<1>24. ASSUME NEW r \in Replica, LockLost(r) \/ SocketCloses(r) PROVE CapInv'
  BY <1>24, <1>22 DEF LockLost, Terminate, SocketCloses, lockVars, jobVars, countVars, history
<1>25. CASE LockExpires
  BY <1>25, <1>22 DEF LockExpires, lockVars, jobVars, countVars, history
<1>26. CASE UNCHANGED vars
  BY <1>26, <1>22 DEF vars, lockVars, jobVars, countVars, history
<1>27. QED
  BY <1>1, <1>2, <1>3, <1>4, <1>5, <1>6, <1>7, <1>8, <1>9, <1>10, <1>11, <1>12, <1>13, <1>14,
  <1>15, <1>16, <1>17, <1>18, <1>19, <1>20, <1>21, <1>22, <1>23, <1>24, <1>25, <1>26
  DEF Next, WorkerSteps, Starts, Route, QueueSteps, Faults

-----------------------------------------------------------------------------
SendIInv == Types /\ OnceInv /\ StaleInv /\ CapInv

LEMMA Inductive == Spec => []SendIInv
<1>1. Init => SendIInv
  BY InitTypes, InitOnce, InitStale, InitCap DEF SendIInv
<1>2. SendIInv /\ [Next]_vars => SendIInv'
  BY NextTypes, NextOnce, NextStale, NextCap DEF SendIInv
<1>3. QED
  BY <1>1, <1>2, PTL DEF Spec

\* The ranges of the variables, and the cap of a minute is kept but for the
\* workers that read the counter while another raised it (throttleOutboundSend,
\* session.manager.ts 2120-2160).
THEOREM SendInvHolds == Spec => []SendInv
<1>1. Types => TypeOK
  BY DEF Types, LockTypes, WorkTypes, PlaceTypes, QueueTypes, CountTypes, HistoryTypes, TypeOK
<1>2. Types /\ CapInv => CapKept
  <2> SUFFICES ASSUME Types, CapInv PROVE CapKept
    OBVIOUS
  <2>1. CASE raced
    BY <2>1, RaisingFinite, SendTypes DEF CapInv, CapKept, Types, CountTypes
  <2>2. CASE ~raced
    BY <2>2, SendTypes DEF CapInv, CapKept, Types, CountTypes
  <2>3. QED
    BY <2>1, <2>2
<1>3. SendIInv => SendInv
  BY <1>1, <1>2 DEF SendIInv, SendInv
<1>4. QED
  BY <1>3, Inductive, PTL

\* A message leaves twice only if its job stalled or its send ended in an error
\* although it had left (the outbound worker, session.manager.ts 2227-2300).
THEOREM DuplicatesHaveCause == Spec => []DuplicateSendHasCause
<1>1. SendIInv => DuplicateSendHasCause
  <2> SUFFICES ASSUME SendIInv, NEW m \in Msg, m \notin unsure PROVE ~(Times(m) > 1)
    BY DEF DuplicateSendHasCause
  <2>1. OnceOf(m) /\ sends \in Seq(Msg)
    BY DEF SendIInv, OnceInv, Types, HistoryTypes
  <2> DEFINE Sent == {i \in DOMAIN sends : sends[i] = m}
  <2>2. \A i, j \in Sent : i = j
    BY <2>1 DEF OnceOf
  <2>3. CASE Sent = {}
    BY <2>3, FS_EmptySet DEF Times
  <2>4. CASE Sent # {}
    <3>1. PICK i \in Sent : TRUE
      BY <2>4
    <3>2. Sent = {i}
      BY <2>2, <3>1
    <3>3. Cardinality(Sent) = 1
      BY <3>2, FS_Singleton
    <3>4. QED
      BY <3>3 DEF Times
  <2>5. QED
    BY <2>3, <2>4
<1>2. QED
  BY <1>1, Inductive, PTL

\* A worker whose replica has lost the lock sends at most the one message whose
\* fence check it had passed (session.manager.ts 2227).
THEOREM StaleSendsAreBounded == Spec => []StaleSendsBounded
<1>1. SendIInv => StaleSendsBounded
  BY DEF SendIInv, Types, HistoryTypes, StaleInv, StaleSendsBounded
<1>2. QED
  BY <1>1, Inductive, PTL

-----------------------------------------------------------------------------
(* Order: messages leave in the order in which they were asked for, unless *)
(* one of the causes upsets the turn of a message.                         *)


Unqueued == {"new", "asked", "refused", "dropped"}
Sent(m) == \E i \in 1..Len(sends) : sends[i] = m

\* Requests come in the order of the messages.
AskInv == \A m, k \in Msg : place[m] = "new" /\ m < k => place[k] = "new"

\* Jobs in hand and messages sent came from the queue; a worker that saves has
\* sent its message.
SentInv ==
    /\ \A w \in Worker : job[w] \in Msg => place[job[w]] \notin Unqueued
    /\ \A m \in Msg : Sent(m) => place[m] \notin Unqueued
    /\ \A w \in Worker : at[w] \in {"saving", "ending"} => Sent(job[w])

\* Every waiting message is in the queue.
WaitInv == \A m \in Msg : place[m] = "waiting" => \E i \in 1..Len(queue) : queue[i] = m

\* A replica has one worker at most that takes further jobs.
AloneInv ==
    \A v, w \in Worker : v[1] = w[1] /\ v \notin closing /\ w \notin closing
                            /\ at[v] # "off" /\ at[w] # "off" => v = w

\* A message that m may not be overtaken by is not yet queued, or waits behind m.
Behind(k, m) ==
    /\ place[k] \in Unqueued \cup {"waiting"} /\ \A v \in Worker : job[v] # k
    /\ \A i, j \in 1..Len(queue) : queue[i] = m /\ queue[j] = k => i < j

\* m is with the worker of the owner, and the later ones that stray workers took
\* do not pass the fence check.
Leads(m) ==
    /\ \E w \in Worker : job[w] = m /\ owner = w[1] /\ w \notin closing
    /\ \A v \in Worker : job[v] \in Msg /\ job[v] > m => at[v] \in Throttling /\ owner # v[1]

\* Where a message is whose turn nothing has upset.
TurnOf(m) ==
    /\ place[m] \in {"new", "asked"} => \A k \in Msg : k > m => place[k] \in Unqueued
    /\ place[m] = "waiting" => \A k \in Msg : k > m => Behind(k, m)
    /\ place[m] = "active" => Sent(m) \/ Leads(m)
    /\ place[m] = "completed" => Sent(m)
    /\ place[m] \notin {"delayed", "failed"}

TurnInv == \A m \in Msg \ upset : TurnOf(m)

-----------------------------------------------------------------------------
\* What was sent stays sent, and only the job in hand is added.
LEMMA SentGrows ==
    ASSUME HistoryTypes, NEW k \in Msg, sends' = Append(sends, k)
    PROVE  \A m \in Msg : Sent(m)' <=> Sent(m) \/ m = k
<1>1. /\ Len(sends) \in Nat /\ Len(sends') = Len(sends) + 1
      /\ \A i \in 1..Len(sends') : \/ i \in 1..Len(sends) /\ sends'[i] = sends[i]
                                   \/ i = Len(sends) + 1 /\ sends'[i] = k
  BY SendsGrow
<1>2. /\ \A i \in 1..Len(sends) : i \in 1..Len(sends') /\ i # Len(sends) + 1
      /\ Len(sends) + 1 \in 1..Len(sends') /\ Len(sends) + 1 \notin 1..Len(sends)
  BY <1>1
<1>3. QED
  BY <1>1, <1>2 DEF Sent

LEMMA SentKept == ASSUME UNCHANGED sends PROVE \A m : Sent(m)' <=> Sent(m)
BY DEF Sent

LEMMA InitOrder == Init => AskInv /\ SentInv /\ WaitInv /\ AloneInv /\ TurnInv
<1> SUFFICES ASSUME Init PROVE AskInv /\ SentInv /\ WaitInv /\ AloneInv /\ TurnInv
  OBVIOUS
<1> USE SendTypes DEF Init
<1>1. AskInv /\ WaitInv
  BY DEF AskInv, WaitInv
<1>2. SentInv
  BY DEF SentInv, Sent
<1>3. AloneInv
  BY DEF AloneInv
<1>4. TurnInv
  BY DEF TurnInv, TurnOf, Unqueued
<1>5. QED
  BY <1>1, <1>2, <1>3, <1>4

\* A failed attempt delays or ends the job that its worker holds.
LEMMA FailMoves ==
    ASSUME Types, NEW w \in Worker, job[w] \in Msg, Fail(w)
    PROVE  \A m \in Msg : \/ place'[m] = place[m]
                          \/ /\ m = job[w] /\ place[m] = "active"
                             /\ place'[m] \in {"delayed", "failed"}
<1>1. CASE holder[job[w]] = w
  BY <1>1, SendTypes DEF Types, PlaceTypes, Fail, Put
<1>2. CASE holder[job[w]] # w
  BY <1>2 DEF Fail
<1>3. QED
  BY <1>1, <1>2

LEMMA CompleteMoves ==
    ASSUME Types, NEW w \in Worker, Complete(w)
    PROVE  /\ job[w] \in Msg
           /\ \A m \in Msg : \/ place'[m] = place[m]
                             \/ m = job[w] /\ place[m] = "active" /\ place'[m] = "completed"
<1>1. job[w] \in Msg
  BY DEF Types, WorkTypes, InHand, Complete
<1>2. CASE holder[job[w]] = w
  BY <1>1, <1>2, SendTypes DEF Types, PlaceTypes, Complete, Put
<1>3. CASE holder[job[w]] # w
  BY <1>1, <1>3 DEF Complete
<1>4. QED
  BY <1>1, <1>2, <1>3

LEMMA AskKept ==
    ASSUME AskInv, \A m \in Msg : place'[m] = place[m] \/ (place[m] # "new" /\ place'[m] # "new")
    PROVE  AskInv'
BY DEF AskInv

LEMMA NextAsk == Types /\ AskInv /\ [Next]_vars => AskInv'
<1> SUFFICES ASSUME Types, AskInv, [Next]_vars PROVE AskInv'
  OBVIOUS
<1> USE SendTypes
<1>1. ASSUME NEW w \in Worker, Pick(w) PROVE AskInv'
  BY <1>1, QueueTail, AskKept DEF Pick, Types, PlaceTypes, Put, QueueTypes
<1>2. ASSUME NEW w \in Worker, FenceStops(w) PROVE AskInv'
  <2>1. job[w] \in Msg /\ Fail(w)
    BY <1>2 DEF FenceStops, Types, WorkTypes, Throttling, InHand
  <2>2. QED
    BY <2>1, FailMoves, AskKept
<1>3. ASSUME NEW w \in Worker, FenceNoSocket(w) PROVE AskInv'
  <2>1. job[w] \in Msg /\ Fail(w)
    BY <1>3 DEF FenceNoSocket, Types, WorkTypes, Throttling, InHand
  <2>2. QED
    BY <2>1, FailMoves, AskKept
<1>4. ASSUME NEW w \in Worker, SendClosed(w) PROVE AskInv'
  <2>1. job[w] \in Msg /\ Fail(w)
    BY <1>4 DEF SendClosed, Types, WorkTypes, Throttling, InHand
  <2>2. QED
    BY <2>1, FailMoves, AskKept
<1>5. ASSUME NEW w \in Worker, Complete(w) PROVE AskInv'
  BY <1>5, CompleteMoves, AskKept DEF Complete
<1>6. ASSUME NEW w \in Worker, ThrottleFails(w) PROVE AskInv'
  <2>1. job[w] \in Msg /\ Fail(w)
    BY <1>6 DEF ThrottleFails, Types, WorkTypes, Throttling, InHand
  <2>2. QED
    BY <2>1, FailMoves, AskKept
<1>7. ASSUME NEW w \in Worker, SendFails(w) PROVE AskInv'
  <2>1. job[w] \in Msg /\ Fail(w)
    BY <1>7 DEF SendFails, Types, WorkTypes, Throttling, InHand
  <2>2. QED
    BY <2>1, FailMoves, AskKept
<1>8. ASSUME NEW w \in Worker, SendUnsure(w) PROVE AskInv'
  <2>1. job[w] \in Msg /\ Fail(w)
    BY <1>8 DEF SendUnsure, Types, WorkTypes, Throttling, InHand
  <2>2. QED
    BY <2>1, FailMoves, AskKept
<1>9. ASSUME NEW m \in Msg, Ask(m) PROVE AskInv'
  BY <1>9 DEF Ask, Types, PlaceTypes, AskInv, Put, Msg
<1>10. ASSUME NEW m \in Msg, Refuse(m) PROVE AskInv'
  BY <1>10, AskKept DEF Refuse, Types, PlaceTypes, Put
<1>11. ASSUME NEW m \in Msg, Publish(m) PROVE AskInv'
  BY <1>11, AskKept DEF Publish, overtakesRequests, Types, PlaceTypes, Put
<1>12. ASSUME NEW m \in Msg, PublishSameMs(m) PROVE AskInv'
  BY <1>12, AskKept DEF PublishSameMs, Types, PlaceTypes, Put
<1>13. ASSUME NEW m \in Msg, Promote(m) PROVE AskInv'
  BY <1>13, AskKept DEF Promote, Types, PlaceTypes, Put
<1>14. ASSUME NEW m \in Msg, Stalled(m) PROVE AskInv'
  BY <1>14, AskKept DEF Stalled, Types, PlaceTypes, Put
<1>15. ASSUME UNCHANGED <<place>> PROVE AskInv'
  BY <1>15 DEF AskInv
<1>16. ASSUME NEW w \in Worker, Close(w) \/ CountGet(w) \/ CountIncr(w) \/ CountExpire(w)
       \/ CountFull(w) \/ CountSleep(w) \/ CountClear(w) \/ Fence(w) \/ Send(w) \/ Save(w) PROVE
       AskInv'
  BY <1>16, <1>15 DEF Close, CountGet, CountIncr, keepsAllButCount, CountExpire, CountFull,
  CountSleep, CountClear, Fence, Send, sendsJob, Save, lockVars, jobVars, countVars, history
<1>17. ASSUME NEW r \in Replica, LockLost(r) \/ SocketCloses(r) \/ Crash(r) PROVE AskInv'
  BY <1>17, <1>15 DEF LockLost, Terminate, SocketCloses, Crash, lockVars, jobVars, countVars,
  history
<1>18. ASSUME NEW r \in Replica, NEW g \in Generation, Initialize(r, g) PROVE AskInv'
  BY <1>18, <1>15 DEF Initialize, lockVars, jobVars, countVars, history
<1>19. CASE CountDies \/ LockExpires
  BY <1>19, <1>15 DEF CountDies, keepsAllButCount, LockExpires, lockVars, jobVars, countVars,
  history
<1>20. CASE UNCHANGED vars
  BY <1>20, <1>15 DEF vars, lockVars, jobVars, countVars, history
<1>21. QED
  BY <1>1, <1>2, <1>3, <1>4, <1>5, <1>6, <1>7, <1>8, <1>9, <1>10, <1>11, <1>12, <1>13, <1>14,
  <1>15, <1>16, <1>17, <1>18, <1>19, <1>20
  DEF Next, WorkerSteps, Starts, Route, QueueSteps, Faults

LEMMA NextAlone == Types /\ AloneInv /\ [Next]_vars => AloneInv'
<1> SUFFICES ASSUME Types, AloneInv, [Next]_vars PROVE AloneInv'
  OBVIOUS
<1> USE SendTypes, WorkersOf DEF Types, WorkTypes, AloneInv, Throttling, InHand, Goto,
    Running
<1>1. ASSUME NEW w \in Worker, Close(w) PROVE AloneInv'
  BY <1>1 DEF Close
<1>2. ASSUME NEW w \in Worker, Pick(w) PROVE AloneInv'
  BY <1>2 DEF Pick
<1>3. ASSUME NEW w \in Worker, CountGet(w) PROVE AloneInv'
  BY <1>3 DEF CountGet
<1>4. ASSUME NEW w \in Worker, CountIncr(w) PROVE AloneInv'
  BY <1>4 DEF CountIncr, keepsAllButCount
<1>5. ASSUME NEW w \in Worker, CountExpire(w) PROVE AloneInv'
  BY <1>5 DEF CountExpire, keepsAllButCount
<1>6. ASSUME NEW w \in Worker, CountFull(w) PROVE AloneInv'
  BY <1>6 DEF CountFull, keepsAllButCount
<1>7. ASSUME NEW w \in Worker, CountSleep(w) PROVE AloneInv'
  BY <1>7 DEF CountSleep, keepsAllButCount
<1>8. ASSUME NEW w \in Worker, CountClear(w) PROVE AloneInv'
  BY <1>8 DEF CountClear, keepsAllButCount
<1>9. ASSUME NEW w \in Worker, Fence(w) PROVE AloneInv'
  BY <1>9 DEF Fence, keepsAllButCount
<1>10. ASSUME NEW w \in Worker, FenceStops(w) PROVE AloneInv'
  BY <1>10 DEF FenceStops, Fail, Terminate
<1>11. ASSUME NEW w \in Worker, FenceNoSocket(w) PROVE AloneInv'
  BY <1>11 DEF FenceNoSocket, Fail, upsetsJob
<1>12. ASSUME NEW w \in Worker, Send(w) PROVE AloneInv'
  BY <1>12 DEF Send, sendsJob
<1>13. ASSUME NEW w \in Worker, SendClosed(w) PROVE AloneInv'
  BY <1>13 DEF SendClosed, Fail, upsetsJob
<1>14. ASSUME NEW w \in Worker, Save(w) PROVE AloneInv'
  BY <1>14 DEF Save
<1>15. ASSUME NEW w \in Worker, Complete(w) PROVE AloneInv'
  BY <1>15 DEF Complete
<1>16. ASSUME NEW w \in Worker, ThrottleFails(w) PROVE AloneInv'
  BY <1>16 DEF ThrottleFails, Fail, upsetsJob
<1>17. ASSUME NEW w \in Worker, SendFails(w) PROVE AloneInv'
  BY <1>17 DEF SendFails, Fail, upsetsJob
<1>18. ASSUME NEW w \in Worker, SendUnsure(w) PROVE AloneInv'
  BY <1>18 DEF SendUnsure, Fail, upsetsJob
<1>19. ASSUME NEW r \in Replica, NEW g \in Generation, Initialize(r, g) PROVE AloneInv'
  BY <1>19 DEF Initialize
<1>20. ASSUME NEW r \in Replica, LockLost(r) PROVE AloneInv'
  BY <1>20 DEF LockLost, Terminate
<1>21. ASSUME NEW r \in Replica, Crash(r) PROVE AloneInv'
  BY <1>21 DEF Crash
<1>22. ASSUME UNCHANGED <<at, closing>> PROVE AloneInv'
  BY <1>22
<1>23. ASSUME NEW m \in Msg, Ask(m) \/ Refuse(m) \/ Publish(m) \/ PublishSameMs(m) \/
       Promote(m) \/ Stalled(m) PROVE AloneInv'
  BY <1>23, <1>22 DEF Ask, Refuse, Publish, overtakesRequests, PublishSameMs, Promote, Stalled,
  lockVars, jobVars, countVars, history
<1>24. ASSUME NEW r \in Replica, SocketCloses(r) PROVE AloneInv'
  BY <1>24, <1>22 DEF SocketCloses, lockVars, jobVars, countVars, history
<1>25. CASE CountDies \/ LockExpires
  BY <1>25, <1>22 DEF CountDies, keepsAllButCount, LockExpires, lockVars, jobVars, countVars,
  history
<1>26. CASE UNCHANGED vars
  BY <1>26, <1>22 DEF vars, lockVars, jobVars, countVars, history
<1>27. QED
  BY <1>1, <1>2, <1>3, <1>4, <1>5, <1>6, <1>7, <1>8, <1>9, <1>10, <1>11, <1>12, <1>13, <1>14,
  <1>15, <1>16, <1>17, <1>18, <1>19, <1>20, <1>21, <1>22, <1>23, <1>24, <1>25, <1>26
  DEF Next, WorkerSteps, Starts, Route, QueueSteps, Faults

LEMMA NextSent == Types /\ SentInv /\ [Next]_vars => SentInv'
<1> SUFFICES ASSUME Types, SentInv, [Next]_vars PROVE SentInv'
  OBVIOUS
<1> USE SendTypes DEF Types, WorkTypes, PlaceTypes, SentInv, Unqueued, Place, Throttling,
    InHand, Goto, Put, lockVars, jobVars, countVars, history
<1>1. ASSUME NEW w \in Worker, Close(w) PROVE SentInv'
  BY <1>1, SentKept DEF Close
<1>2. ASSUME NEW w \in Worker, Pick(w) PROVE SentInv'
  BY <1>2, QueueTail, SentKept DEF Pick
<1>3. ASSUME NEW w \in Worker, CountGet(w) PROVE SentInv'
  BY <1>3, SentKept DEF CountGet
<1>4. ASSUME NEW w \in Worker, CountIncr(w) PROVE SentInv'
  BY <1>4, SentKept DEF CountIncr, keepsAllButCount
<1>5. ASSUME NEW w \in Worker, CountExpire(w) PROVE SentInv'
  BY <1>5, SentKept DEF CountExpire, keepsAllButCount
<1>6. ASSUME NEW w \in Worker, CountFull(w) PROVE SentInv'
  BY <1>6, SentKept DEF CountFull, keepsAllButCount
<1>7. ASSUME NEW w \in Worker, CountSleep(w) PROVE SentInv'
  BY <1>7, SentKept DEF CountSleep, keepsAllButCount
<1>8. ASSUME NEW w \in Worker, CountClear(w) PROVE SentInv'
  BY <1>8, SentKept DEF CountClear, keepsAllButCount
<1>9. ASSUME NEW w \in Worker, Fence(w) PROVE SentInv'
  BY <1>9, SentKept DEF Fence, keepsAllButCount
<1>10. ASSUME NEW w \in Worker, FenceStops(w) PROVE SentInv'
  BY <1>10, SentKept DEF FenceStops, Fail, Terminate
<1>11. ASSUME NEW w \in Worker, FenceNoSocket(w) PROVE SentInv'
  BY <1>11, SentKept DEF FenceNoSocket, Fail, upsetsJob
<1>12. ASSUME NEW w \in Worker, Send(w) PROVE SentInv'
  BY <1>12, SentGrows DEF Send, sendsJob
<1>13. ASSUME NEW w \in Worker, SendClosed(w) PROVE SentInv'
  BY <1>13, SentKept DEF SendClosed, Fail, upsetsJob
<1>14. ASSUME NEW w \in Worker, Save(w) PROVE SentInv'
  BY <1>14, SentKept DEF Save
<1>15. ASSUME NEW w \in Worker, Complete(w) PROVE SentInv'
  BY <1>15, SentKept DEF Complete
<1>16. ASSUME NEW w \in Worker, ThrottleFails(w) PROVE SentInv'
  BY <1>16, SentKept DEF ThrottleFails, Fail, upsetsJob
<1>17. ASSUME NEW w \in Worker, SendFails(w) PROVE SentInv'
  BY <1>17, SentKept DEF SendFails, Fail, upsetsJob
<1>18. ASSUME NEW w \in Worker, SendUnsure(w) PROVE SentInv'
  <2>1. job[w] \in Msg /\ Fail(w) /\ sends' = Append(sends, job[w])
    BY <1>18 DEF SendUnsure
  <2>2. \A m \in Msg : Sent(m)' <=> Sent(m) \/ m = job[w]
    BY <2>1, SentGrows
  <2>3. \A m \in Msg : place[m] \notin Unqueued => place'[m] \notin Unqueued
    BY <2>1, FailMoves
  <2>4. \A v \in Worker : v # w => at'[v] = at[v] /\ job'[v] = job[v]
    BY <2>1 DEF Fail
  <2>5. at'[w] = "idle" /\ job'[w] = NoMsg
    BY <2>1 DEF Fail
  <2>6. QED
    BY <2>1, <2>2, <2>3, <2>4, <2>5
<1>19. ASSUME NEW m \in Msg, Ask(m) PROVE SentInv'
  BY <1>19, SentKept DEF Ask
<1>20. ASSUME NEW m \in Msg, Refuse(m) PROVE SentInv'
  BY <1>20, SentKept DEF Refuse
<1>21. ASSUME NEW m \in Msg, Publish(m) PROVE SentInv'
  BY <1>21, SentKept DEF Publish, overtakesRequests
<1>22. ASSUME NEW m \in Msg, PublishSameMs(m) PROVE SentInv'
  BY <1>22, SentKept DEF PublishSameMs
<1>23. ASSUME NEW m \in Msg, Promote(m) PROVE SentInv'
  BY <1>23, SentKept DEF Promote
<1>24. ASSUME NEW m \in Msg, Stalled(m) PROVE SentInv'
  BY <1>24, SentKept DEF Stalled
<1>25. ASSUME NEW r \in Replica, NEW g \in Generation, Initialize(r, g) PROVE SentInv'
  BY <1>25, SentKept DEF Initialize
<1>26. ASSUME NEW r \in Replica, Crash(r) PROVE SentInv'
  BY <1>26, SentKept DEF Crash
<1>27. ASSUME UNCHANGED <<at, job, place, sends>> PROVE SentInv'
  BY <1>27, SentKept
<1>28. ASSUME NEW r \in Replica, LockLost(r) \/ SocketCloses(r) PROVE SentInv'
  BY <1>28, <1>27 DEF LockLost, Terminate, SocketCloses, lockVars, jobVars, countVars, history
<1>29. CASE CountDies \/ LockExpires
  BY <1>29, <1>27 DEF CountDies, keepsAllButCount, LockExpires, lockVars, jobVars, countVars,
  history
<1>30. CASE UNCHANGED vars
  BY <1>30, <1>27 DEF vars, lockVars, jobVars, countVars, history
<1>31. QED
  BY <1>1, <1>2, <1>3, <1>4, <1>5, <1>6, <1>7, <1>8, <1>9, <1>10, <1>11, <1>12, <1>13, <1>14,
  <1>15, <1>16, <1>17, <1>18, <1>19, <1>20, <1>21, <1>22, <1>23, <1>24, <1>25, <1>26, <1>27,
  <1>28, <1>29, <1>30
  DEF Next, WorkerSteps, Starts, Route, QueueSteps, Faults


LEMMA WaitAppend ==
    ASSUME Types, WaitInv, NEW m \in Msg, Put(m, "waiting"), queue' = Append(queue, m)
    PROVE  WaitInv'
<1>1. /\ Len(queue) \in Nat /\ Len(queue') = Len(queue) + 1
      /\ \A i \in 1..Len(queue) : queue'[i] = queue[i]
      /\ queue'[Len(queue) + 1] = m
  BY AppendProperties, LenProperties DEF Types, QueueTypes
<1>2. Len(queue) + 1 \in 1..Len(queue') /\ \A i \in 1..Len(queue) : i \in 1..Len(queue')
  BY <1>1
<1>3. QED
  BY <1>1, <1>2 DEF WaitInv, Types, PlaceTypes, Put

LEMMA Prefixed ==
    ASSUME QueueTypes, NEW m \in Msg, queue' = <<m>> \o queue
    PROVE  /\ queue' \in Seq(Msg) /\ Len(queue') = Len(queue) + 1 /\ Len(queue) \in Nat
           /\ queue'[1] = m /\ 1 \in 1..Len(queue')
           /\ \A i \in 1..Len(queue) : i + 1 \in 1..Len(queue') /\ queue'[i + 1] = queue[i]
           /\ \A i \in 1..Len(queue') : i # 1 => i - 1 \in 1..Len(queue) /\ queue'[i] = queue[i - 1]
<1>1. <<m>> \in Seq(Msg) /\ Len(<<m>>) = 1 /\ <<m>>[1] = m
  OBVIOUS
<1>2. /\ queue' \in Seq(Msg) /\ Len(queue') = 1 + Len(queue)
      /\ \A i \in 1..(1 + Len(queue)) : queue'[i] = IF i <= 1 THEN m ELSE queue[i - 1]
  BY <1>1, ConcatProperties DEF QueueTypes
<1>3. Len(queue) \in Nat
  BY LenProperties DEF QueueTypes
<1>4. QED
  BY <1>2, <1>3

LEMMA Shortened ==
    ASSUME QueueTypes, queue # <<>>, queue' = Tail(queue)
    PROVE  /\ Len(queue') = Len(queue) - 1 /\ Len(queue) \in Nat /\ 1 \in 1..Len(queue)
           /\ Head(queue) = queue[1] /\ queue[1] \in Msg
           /\ \A i \in 1..Len(queue') : i + 1 \in 1..Len(queue) /\ queue'[i] = queue[i + 1]
           /\ \A i \in 1..Len(queue) : i # 1 => i - 1 \in 1..Len(queue') /\ queue'[i - 1] = queue[i]
<1>1. /\ Head(queue) \in Msg /\ queue' \in Seq(Msg) /\ Len(queue') = Len(queue) - 1
      /\ \A i \in 1..Len(queue') : queue'[i] = queue[i + 1]
  BY HeadTailProperties DEF QueueTypes
<1>2. Len(queue) \in Nat \ {0} /\ Head(queue) = queue[1]
  BY EmptySeq DEF QueueTypes
<1>3. QED
  BY <1>1, <1>2

\* The queue is kept, and no message is put among the waiting ones.
LEMMA WaitKept ==
    ASSUME Types, WaitInv, UNCHANGED queue,
           \A m \in Msg : place'[m] = "waiting" => place[m] = "waiting"
    PROVE  WaitInv'
BY DEF WaitInv

LEMMA WaitStalled ==
    ASSUME Types, WaitInv, NEW m \in Msg, Stalled(m)
    PROVE  WaitInv'
<1>1. CASE stalls[m] < Stalls
  <2>1. queue' = <<m>> \o queue /\ Put(m, "waiting")
    BY <1>1 DEF Stalled
  <2>2. QED
    BY <2>1, Prefixed DEF WaitInv, Types, PlaceTypes, Put
<1>2. CASE ~(stalls[m] < Stalls)
  <2>1. UNCHANGED queue /\ Put(m, "failed")
    BY <1>2 DEF Stalled
  <2>2. QED
    BY <2>1, WaitKept DEF Types, PlaceTypes, Put
<1>3. QED
  BY <1>1, <1>2

LEMMA WaitPick ==
    ASSUME Types, WaitInv, NEW w \in Worker, Pick(w)
    PROVE  WaitInv'
<1>1. queue # <<>> /\ queue' = Tail(queue) /\ Put(Head(queue), "active")
  BY DEF Pick
<1>2. Head(queue) = queue[1]
  BY <1>1, Shortened DEF Types
<1>3. ASSUME NEW m \in Msg, place'[m] = "waiting" PROVE \E i \in 1..Len(queue') : queue'[i] = m
  <2>1. place[m] = "waiting" /\ m # queue[1]
    BY <1>1, <1>2, <1>3 DEF Types, PlaceTypes, Put
  <2>2. PICK i \in 1..Len(queue) : queue[i] = m
    BY <2>1 DEF WaitInv
  <2>3. i - 1 \in 1..Len(queue') /\ queue'[i - 1] = m
    BY <1>1, <2>1, <2>2, Shortened DEF Types
  <2>4. QED
    BY <2>3
<1>4. QED
  BY <1>3 DEF WaitInv

LEMMA NextWait == Types /\ WaitInv /\ [Next]_vars => WaitInv'
<1> SUFFICES ASSUME Types, WaitInv, [Next]_vars PROVE WaitInv'
  OBVIOUS
<1> USE SendTypes
<1>1. ASSUME NEW w \in Worker, Pick(w) PROVE WaitInv'
  BY <1>1, WaitPick
<1>2. ASSUME NEW w \in Worker, FenceStops(w) PROVE WaitInv'
  BY <1>2, WaitKept DEF FenceStops, Fail, Terminate, Types, WorkTypes, PlaceTypes, Put
<1>3. ASSUME NEW w \in Worker, FenceNoSocket(w) PROVE WaitInv'
  BY <1>3, WaitKept DEF FenceNoSocket, Fail, upsetsJob, Types, WorkTypes, PlaceTypes, Put
<1>4. ASSUME NEW w \in Worker, SendClosed(w) PROVE WaitInv'
  BY <1>4, WaitKept DEF SendClosed, Fail, upsetsJob, Types, WorkTypes, PlaceTypes, Put
<1>5. ASSUME NEW w \in Worker, Complete(w) PROVE WaitInv'
  BY <1>5, WaitKept DEF Complete, Types, WorkTypes, PlaceTypes, Put
<1>6. ASSUME NEW w \in Worker, ThrottleFails(w) PROVE WaitInv'
  BY <1>6, WaitKept DEF ThrottleFails, Fail, upsetsJob, Types, WorkTypes, PlaceTypes, Put
<1>7. ASSUME NEW w \in Worker, SendFails(w) PROVE WaitInv'
  BY <1>7, WaitKept DEF SendFails, Fail, upsetsJob, Types, WorkTypes, PlaceTypes, Put
<1>8. ASSUME NEW w \in Worker, SendUnsure(w) PROVE WaitInv'
  BY <1>8, WaitKept DEF SendUnsure, Fail, upsetsJob, Types, WorkTypes, PlaceTypes, Put
<1>9. ASSUME NEW m \in Msg, Ask(m) PROVE WaitInv'
  BY <1>9, WaitKept DEF Ask, Types, WorkTypes, PlaceTypes, Put
<1>10. ASSUME NEW m \in Msg, Refuse(m) PROVE WaitInv'
  BY <1>10, WaitKept DEF Refuse, Types, WorkTypes, PlaceTypes, Put
<1>11. ASSUME NEW m \in Msg, Publish(m) PROVE WaitInv'
  BY <1>11, WaitAppend DEF Publish, overtakesRequests
<1>12. ASSUME NEW m \in Msg, PublishSameMs(m) PROVE WaitInv'
  BY <1>12, WaitKept DEF PublishSameMs, Types, WorkTypes, PlaceTypes, Put
<1>13. ASSUME NEW m \in Msg, Promote(m) PROVE WaitInv'
  BY <1>13, WaitAppend DEF Promote
<1>14. ASSUME NEW m \in Msg, Stalled(m) PROVE WaitInv'
  BY <1>14, WaitStalled
<1>15. ASSUME UNCHANGED <<place, queue>> PROVE WaitInv'
  BY <1>15 DEF WaitInv
<1>16. ASSUME NEW w \in Worker, Close(w) \/ CountGet(w) \/ CountIncr(w) \/ CountExpire(w)
       \/ CountFull(w) \/ CountSleep(w) \/ CountClear(w) \/ Fence(w) \/ Send(w) \/ Save(w) PROVE
       WaitInv'
  BY <1>16, <1>15 DEF Close, CountGet, CountIncr, keepsAllButCount, CountExpire, CountFull,
  CountSleep, CountClear, Fence, Send, sendsJob, Save, lockVars, jobVars, countVars, history
<1>17. ASSUME NEW r \in Replica, LockLost(r) \/ SocketCloses(r) \/ Crash(r) PROVE
       WaitInv'
  BY <1>17, <1>15 DEF LockLost, Terminate, SocketCloses, Crash, lockVars, jobVars, countVars,
  history
<1>18. ASSUME NEW r \in Replica, NEW g \in Generation, Initialize(r, g) PROVE WaitInv'
  BY <1>18, <1>15 DEF Initialize, lockVars, jobVars, countVars, history
<1>19. CASE CountDies \/ LockExpires
  BY <1>19, <1>15 DEF CountDies, keepsAllButCount, LockExpires, lockVars, jobVars, countVars,
  history
<1>20. CASE UNCHANGED vars
  BY <1>20, <1>15 DEF vars, lockVars, jobVars, countVars, history
<1>21. QED
  BY <1>1, <1>2, <1>3, <1>4, <1>5, <1>6, <1>7, <1>8, <1>9, <1>10, <1>11, <1>12, <1>13, <1>14,
  <1>15, <1>16, <1>17, <1>18, <1>19, <1>20
  DEF Next, WorkerSteps, Starts, Route, QueueSteps, Faults

-----------------------------------------------------------------------------
\* A step that queues nothing keeps the turns, if it upsets or has sent what it
\* takes from the worker that leads, and sends nothing past the fence check of a
\* worker without the lock.
LEMMA TurnKept ==
    ASSUME Types, TurnInv, UNCHANGED queue, upset \subseteq upset',
           \A m \in Msg : Sent(m) => Sent(m)',
           \A m \in Msg : \/ UNCHANGED place[m]
                          \/ /\ place[m] = "active" /\ place'[m] \notin Unqueued
                             /\ m \in upset' \/ (place'[m] = "completed" /\ Sent(m)'),
           \A v \in Worker : job'[v] \in Msg => /\ job'[v] = job[v]
                                                /\ at[v] \in Throttling /\ owner # v[1]
                                                      => at'[v] \in Throttling,
           \A w \in Worker : job[w] \in Msg /\ job[w] \notin upset' /\ ~Sent(job[w])
                                /\ owner = w[1] /\ w \notin closing
                => owner' = owner /\ w \notin closing' /\ job'[w] = job[w]
    PROVE  TurnInv'
<1> SUFFICES ASSUME NEW m \in Msg, m \notin upset' PROVE TurnOf(m)'
  BY DEF TurnInv
<1>1. TurnOf(m)
  BY DEF TurnInv
<1>2. ASSUME NEW k \in Msg, place[k] \in Unqueued PROVE place'[k] = place[k]
  BY <1>2 DEF Unqueued
<1>3. ASSUME NEW k \in Msg, Behind(k, m) PROVE Behind(k, m)'
  <2>1. \A v \in Worker : job'[v] # k
    BY <1>3 DEF Behind
  <2>2. place'[k] = place[k]
    BY <1>3 DEF Behind, Unqueued
  <2>3. QED
    BY <1>3, <2>1, <2>2 DEF Behind
<1>4. Leads(m) => Sent(m) \/ Leads(m)'
  <2> SUFFICES ASSUME Leads(m), ~Sent(m) PROVE Leads(m)'
    OBVIOUS
  <2>1. PICK w \in Worker : job[w] = m /\ owner = w[1] /\ w \notin closing
    BY DEF Leads
  <2>2. owner' = owner /\ w \notin closing' /\ job'[w] = m
    BY <2>1
  <2>3. ASSUME NEW v \in Worker, job'[v] \in Msg, job'[v] > m
        PROVE  at'[v] \in Throttling /\ owner' # v[1]
    BY <2>2, <2>3 DEF Leads
  <2>4. QED
    BY <2>1, <2>2, <2>3 DEF Leads
<1>5. CASE UNCHANGED place[m]
  BY <1>1, <1>2, <1>3, <1>4, <1>5 DEF TurnOf
<1>6. CASE place'[m] = "completed" /\ Sent(m)'
  BY <1>6 DEF TurnOf
<1>7. QED
  BY <1>5, <1>6

\* Steps of workers that leave lock, jobs and messages alone.
LEMMA TurnWorks ==
    ASSUME Types, TurnInv, UNCHANGED <<owner, job, place, queue, sends, upset>>,
           closing' \subseteq closing,
           \A v \in Worker : at[v] \in Throttling /\ owner # v[1] => at'[v] \in Throttling
    PROVE  TurnInv'
BY TurnKept, SentKept

\* A failed attempt; the termination that may go with it closes other workers only
\* if their replica has not the lock.
LEMMA TurnFails ==
    ASSUME Types, TurnInv, NEW w \in Worker, job[w] \in Msg, Fail(w), UNCHANGED owner,
           upset \subseteq upset', job[w] \in upset',
           UNCHANGED sends \/ sends' = Append(sends, job[w]),
           \A v \in Worker : v \in closing' => v \in closing \/ owner # v[1]
    PROVE  TurnInv'
<1>1. \A m \in Msg : Sent(m) => Sent(m)'
  BY SentGrows, SentKept DEF Types
<1>2. \A m \in Msg : \/ UNCHANGED place[m]
                     \/ place[m] = "active" /\ place'[m] \notin Unqueued /\ m \in upset'
  BY FailMoves DEF Unqueued
<1>3. \A v \in Worker : v # w => job'[v] = job[v] /\ at'[v] = at[v]
  BY DEF Fail, Goto, Types, WorkTypes
<1>4. job'[w] \notin Msg /\ UNCHANGED queue
  BY SendTypes DEF Fail, Types, WorkTypes
<1>5. QED
  BY <1>1, <1>2, <1>3, <1>4, TurnKept

\* The owner changes, or workers end: what they have in hand is upset.
LEMMA TurnOwner ==
    ASSUME Types, TurnInv, NEW r \in Replica, Upset(r), UNCHANGED <<place, queue, sends>>,
           owner # r => UNCHANGED owner \/ owner = NoOwner,
           \A v \in Worker : v[1] # r => /\ UNCHANGED <<at[v], job[v]>>
                                         /\ v \in closing' => v \in closing,
           \A v \in Worker : job'[v] \in Msg => job'[v] = job[v] /\ at'[v] = at[v]
    PROVE  TurnInv'
<1>1. \A v \in Worker : v[1] = r /\ job[v] \in Msg => job[v] \in upset'
  BY WorkersOf, SendTypes DEF Upset
<1>2. upset \subseteq upset'
  BY DEF Upset
<1>3. \A v \in Worker : v[1] # NoOwner
  BY WorkersOf, SendTypes
<1>4. \A w \in Worker : job[w] \in Msg /\ job[w] \notin upset' /\ owner = w[1] /\ w \notin closing
                => owner' = owner /\ w \notin closing' /\ job'[w] = job[w]
  BY <1>1, <1>3
<1>5. QED
  BY <1>2, <1>4, TurnKept, SentKept

LEMMA TurnComplete ==
    ASSUME Types, SentInv, TurnInv, NEW w \in Worker, Complete(w)
    PROVE  TurnInv'
<1>1. job[w] \in Msg /\ Sent(job[w])
  BY CompleteMoves DEF SentInv, Complete
<1>2. UNCHANGED <<owner, closing, queue, sends, upset>> /\ job' = [job EXCEPT ![w] = NoMsg]
  BY DEF Complete, lockVars, history
<1>3. \A v \in Worker : v # w => at'[v] = at[v] /\ job'[v] = job[v]
  BY <1>2 DEF Complete, Goto, Types, WorkTypes
<1>4. job'[w] \notin Msg
  BY <1>2, SendTypes DEF Types, WorkTypes
<1>5. \A m \in Msg : Sent(m) => Sent(m)'
  BY <1>2, SentKept
<1>6. \A m \in Msg : \/ UNCHANGED place[m]
                     \/ place[m] = "active" /\ place'[m] = "completed" /\ Sent(m)'
  BY <1>1, <1>5, CompleteMoves
<1>7. QED
  BY <1>1, <1>2, <1>3, <1>4, <1>5, <1>6, TurnKept DEF Unqueued

LEMMA TurnSend ==
    ASSUME Types, TurnInv, NEW w \in Worker, Send(w)
    PROVE  TurnInv'
<1>1. /\ job[w] \in Msg /\ sends' = Append(sends, job[w]) /\ at' = [at EXCEPT ![w] = "saving"]
      /\ UNCHANGED <<owner, closing, queue, place, job, upset>> /\ at[w] \notin Throttling
  BY DEF Types, WorkTypes, InHand, Throttling, Send, sendsJob, Goto, lockVars, jobVars
<1>2. \A m \in Msg : Sent(m) => Sent(m)'
  BY <1>1, SentGrows DEF Types
<1>3. \A v \in Worker : at[v] \in Throttling => at'[v] = at[v]
  BY <1>1 DEF Types, WorkTypes
<1>4. QED
  BY <1>1, <1>2, <1>3, TurnKept

\* A request is made, refused, or dropped.
LEMMA TurnRequests ==
    ASSUME Types, TurnInv, NEW k \in Msg, Ask(k) \/ Refuse(k) \/ PublishSameMs(k)
    PROVE  TurnInv'
<1>1. /\ UNCHANGED <<owner, at, job, closing, queue, sends, upset>> /\ place[k] \in {"new", "asked"}
      /\ place'[k] \in {"asked", "refused", "dropped"}
      /\ \A m \in Msg : m # k => place'[m] = place[m]
  BY DEF Ask, Refuse, PublishSameMs, Put, Types, PlaceTypes, lockVars, history
<1> SUFFICES ASSUME NEW m \in Msg, m \notin upset' PROVE TurnOf(m)'
  BY DEF TurnInv
<1>2. TurnOf(m)
  BY <1>1 DEF TurnInv
<1>3. \A n \in Msg : place[n] \in Unqueued => place'[n] \in Unqueued
  BY <1>1 DEF Unqueued
<1>4. \A n \in Msg : Behind(n, m) => Behind(n, m)'
  BY <1>1, <1>3 DEF Behind
<1>5. (Sent(m) => Sent(m)') /\ (Leads(m) => Leads(m)')
  BY <1>1, SentKept DEF Leads
<1>6. QED
  BY <1>1, <1>2, <1>3, <1>4, <1>5 DEF TurnOf

\* A message that goes to the end of the queue: one that was asked for when the
\* earlier ones were queued or are upset, or one whose turn is upset.
LEMMA TurnAppend ==
    ASSUME Types, SentInv, TurnInv, NEW k \in Msg, queue' = Append(queue, k), Put(k, "waiting"),
           UNCHANGED <<owner, at, job, closing, sends>>, upset \subseteq upset',
           \/ /\ place[k] = "asked"
              /\ \A m \in Msg : m < k /\ m \notin upset' => place[m] \notin {"new", "asked"}
           \/ place[k] = "delayed"
    PROVE  TurnInv'
<1> SUFFICES ASSUME NEW m \in Msg, m \notin upset' PROVE TurnOf(m)'
  BY DEF TurnInv
<1>1. TurnOf(m)
  BY DEF TurnInv
<1>2. place'[k] = "waiting" /\ \A n \in Msg : n # k => place'[n] = place[n]
  BY DEF Put, Types, PlaceTypes
<1>3. /\ Len(queue) \in Nat /\ Len(queue') = Len(queue) + 1
      /\ \A i \in 1..Len(queue) : queue'[i] = queue[i]
      /\ queue'[Len(queue) + 1] = k
      /\ \A i \in 1..Len(queue) : place[queue[i]] = "waiting" /\ queue[i] # k
  BY AppendProperties, LenProperties DEF Types, QueueTypes
<1>4. \A i \in 1..Len(queue') : i # Len(queue) + 1 => i \in 1..Len(queue) /\ queue'[i] = queue[i]
  BY <1>3
<1>5. (Sent(m) => Sent(m)') /\ (Leads(m) => Leads(m)')
  BY SentKept DEF Leads
<1>6. CASE m = k
  <2>1. place[k] = "asked"
    BY <1>1, <1>6 DEF TurnOf
  <2>2. ASSUME NEW n \in Msg, n > m PROVE Behind(n, m)'
    <3>1. place[n] \in Unqueued /\ n # k
      BY <1>1, <1>6, <2>1, <2>2 DEF TurnOf, Msg
    <3>2. \A i \in 1..Len(queue') : queue'[i] # n
      BY <1>3, <1>4, <3>1 DEF Unqueued
    <3>3. \A v \in Worker : job'[v] # n
      BY <3>1 DEF SentInv
    <3>4. QED
      BY <1>2, <3>1, <3>2, <3>3 DEF Behind
  <2>3. QED
    BY <1>2, <1>6, <2>2 DEF TurnOf
<1>7. CASE m # k
  <2>1. place'[m] = place[m]
    BY <1>2, <1>7
  <2>2. CASE place[m] \in {"new", "asked"}
    <3>1. \A n \in Msg : n > m => n # k
      BY <1>1, <1>7, <2>2 DEF TurnOf, Unqueued
    <3>2. QED
      BY <1>1, <1>2, <2>1, <2>2, <3>1 DEF TurnOf
  <2>3. CASE place[m] = "waiting"
    <3>1. ASSUME NEW n \in Msg, n > m PROVE Behind(n, m)'
      <4>1. Behind(n, m)
        BY <1>1, <2>3, <3>1 DEF TurnOf
      <4>2. ASSUME NEW i \in 1..Len(queue'), NEW j \in 1..Len(queue'), queue'[i] = m, queue'[j] = n
            PROVE  i < j
        <5>1. i \in 1..Len(queue) /\ queue[i] = m
          BY <1>4, <1>7, <4>2
        <5>2. CASE j \in 1..Len(queue)
          BY <1>3, <4>1, <4>2, <5>1, <5>2 DEF Behind
        <5>3. CASE j = Len(queue) + 1
          BY <1>3, <5>1, <5>3
        <5>4. QED
          BY <1>4, <5>2, <5>3
      <4>3. place'[n] \in Unqueued \cup {"waiting"}
        BY <1>2, <4>1 DEF Behind
      <4>4. QED
        BY <4>1, <4>2, <4>3 DEF Behind
    <3>2. QED
      BY <2>1, <2>3, <3>1 DEF TurnOf
  <2>4. CASE place[m] \notin {"new", "asked", "waiting"}
    BY <1>1, <1>5, <2>1, <2>4 DEF TurnOf
  <2>5. QED
    BY <2>2, <2>3, <2>4
<1>8. QED
  BY <1>6, <1>7

LEMMA TurnPublish ==
    ASSUME Types, AskInv, SentInv, TurnInv, NEW k \in Msg, Publish(k)
    PROVE  TurnInv'
<1>1. /\ queue' = Append(queue, k) /\ Put(k, "waiting") /\ place[k] = "asked"
      /\ UNCHANGED <<owner, at, job, closing, sends>>
      /\ upset' = upset \cup {m \in 1..(k - 1) : place[m] = "asked"}
  BY DEF Publish, overtakesRequests, lockVars
<1>2. ASSUME NEW m \in Msg, m < k, m \notin upset' PROVE place[m] \notin {"new", "asked"}
  <2>1. m \in 1..(k - 1)
    BY <1>2 DEF Msg
  <2>2. place[m] # "asked"
    BY <1>1, <1>2, <2>1
  <2>3. place[m] # "new"
    BY <1>1, <1>2 DEF AskInv
  <2>4. QED
    BY <2>2, <2>3
<1>3. QED
  BY <1>1, <1>2, TurnAppend

LEMMA TurnPromote ==
    ASSUME Types, SentInv, TurnInv, NEW k \in Msg, Promote(k)
    PROVE  TurnInv'
<1>1. /\ queue' = Append(queue, k) /\ Put(k, "waiting") /\ place[k] = "delayed"
      /\ UNCHANGED <<owner, at, job, closing, sends, upset>>
  BY DEF Promote, lockVars, history
<1>2. QED
  BY <1>1, TurnAppend

LEMMA TurnStalled ==
    ASSUME Types, SentInv, TurnInv, NEW k \in Msg, Stalled(k)
    PROVE  TurnInv'
<1> SUFFICES ASSUME NEW m \in Msg, m \notin upset' PROVE TurnOf(m)'
  BY DEF TurnInv
<1>1. /\ UNCHANGED <<owner, at, job, closing, sends>> /\ upset' = upset \cup {k}
      /\ place[k] = "active" /\ place'[k] \in {"waiting", "failed"}
      /\ \A n \in Msg : n # k => place'[n] = place[n]
  BY DEF Stalled, Put, Types, PlaceTypes, lockVars
<1>2. m # k /\ TurnOf(m) /\ place'[m] = place[m]
  BY <1>1 DEF TurnInv
<1>3. (Sent(m) => Sent(m)') /\ (Leads(m) => Leads(m)')
  BY <1>1, SentKept DEF Leads
<1>4. CASE place[m] \in {"new", "asked"}
  BY <1>1, <1>2, <1>4 DEF TurnOf, Unqueued
<1>5. CASE place[m] = "waiting"
  <2>1. ASSUME NEW n \in Msg, n > m PROVE Behind(n, m)'
    <3>1. Behind(n, m) /\ n # k
      BY <1>1, <1>2, <1>5, <2>1 DEF TurnOf, Behind, Unqueued
    <3>2. ASSUME NEW i \in 1..Len(queue'), NEW j \in 1..Len(queue'), queue'[i] = m, queue'[j] = n
          PROVE  i < j
      <4>1. CASE UNCHANGED queue
        BY <3>1, <3>2, <4>1 DEF Behind
      <4>2. CASE queue' = <<k>> \o queue
        <5>1. i # 1 /\ j # 1
          BY <1>2, <3>1, <3>2, <4>2, Prefixed DEF Types
        <5>2. /\ i - 1 \in 1..Len(queue) /\ j - 1 \in 1..Len(queue)
              /\ queue[i - 1] = m /\ queue[j - 1] = n
          BY <3>2, <4>2, <5>1, Prefixed DEF Types
        <5>3. i - 1 < j - 1
          BY <3>1, <5>2 DEF Behind
        <5>4. QED
          BY <4>2, <5>3, Prefixed DEF Types
      <4>3. QED
        BY <4>1, <4>2 DEF Stalled
    <3>3. QED
      BY <1>1, <3>1, <3>2 DEF Behind
  <2>2. QED
    BY <1>2, <1>5, <2>1 DEF TurnOf
<1>6. CASE place[m] \notin {"new", "asked", "waiting"}
  BY <1>2, <1>3, <1>6 DEF TurnOf
<1>7. QED
  BY <1>4, <1>5, <1>6

\* The first of the queue is taken; with the owner it leads, and with another worker
\* its turn is upset.
LEMMA TurnPick ==
    ASSUME Types, SentInv, WaitInv, AloneInv, TurnInv, NEW w \in Worker, Pick(w)
    PROVE  TurnInv'
<1> SUFFICES ASSUME NEW m \in Msg, m \notin upset' PROVE TurnOf(m)'
  BY DEF TurnInv
<1> DEFINE h == queue[1]
<1>1. /\ Head(queue) = h /\ h \in Msg /\ place[h] = "waiting" /\ 1 \in 1..Len(queue)
      /\ queue # <<>> /\ queue' = Tail(queue)
  BY QueueTail, Shortened DEF Pick, Types
<1>2. /\ UNCHANGED <<owner, closing, sends>> /\ at[w] = "idle" /\ w \notin closing
      /\ job'[w] = h /\ at'[w] = "get" /\ place'[h] = "active"
      /\ \A v \in Worker : v # w => job'[v] = job[v] /\ at'[v] = at[v]
      /\ \A n \in Msg : n # h => place'[n] = place[n]
      /\ owner = w[1] \/ h \in upset'
  BY <1>1 DEF Pick, Goto, Put, Types, WorkTypes, PlaceTypes, lockVars
<1>3. m \notin upset /\ TurnOf(m)
  BY DEF TurnInv, Pick
<1>4. CASE m = h
  <2>1. owner = w[1]
    BY <1>2, <1>4
  <2>2. ASSUME NEW v \in Worker, job'[v] \in Msg, job'[v] > m PROVE FALSE
    <3>1. v # w
      BY <1>2, <1>4, <2>2 DEF Msg
    <3>2. Behind(job[v], m)
      BY <1>1, <1>2, <1>3, <1>4, <2>2, <3>1 DEF TurnOf
    <3>3. QED
      BY <3>2 DEF Behind
  <2>3. Leads(m)'
    BY <1>2, <1>4, <2>1, <2>2 DEF Leads
  <2>4. QED
    BY <1>2, <1>4, <2>3 DEF TurnOf
<1>5. CASE m # h
  <2>1. place'[m] = place[m]
    BY <1>2, <1>5
  <2>2. CASE place[m] \in {"new", "asked"}
    <3>1. \A n \in Msg : n > m => n # h
      BY <1>1, <1>3, <2>2 DEF TurnOf, Unqueued
    <3>2. QED
      BY <1>2, <1>3, <2>1, <2>2, <3>1 DEF TurnOf
  <2>3. CASE place[m] = "waiting"
    <3>1. ASSUME NEW n \in Msg, n > m PROVE Behind(n, m)'
      <4>1. Behind(n, m)
        BY <1>3, <2>3, <3>1 DEF TurnOf
      <4>2. PICK i \in 1..Len(queue) : queue[i] = m
        BY <2>3 DEF WaitInv
      <4>3. n # h
        BY <1>1, <4>1, <4>2 DEF Behind
      <4>4. ASSUME NEW a \in 1..Len(queue'), NEW b \in 1..Len(queue'), queue'[a] = m, queue'[b] = n
            PROVE  a < b
        <5>1. /\ a + 1 \in 1..Len(queue) /\ b + 1 \in 1..Len(queue)
              /\ queue[a + 1] = m /\ queue[b + 1] = n
          BY <1>1, <4>4, Shortened DEF Types
        <5>2. a + 1 < b + 1
          BY <4>1, <5>1 DEF Behind
        <5>3. QED
          BY <5>2
      <4>5. \A v \in Worker : job'[v] # n
        BY <1>2, <4>1, <4>3 DEF Behind
      <4>6. place'[n] \in Unqueued \cup {"waiting"}
        BY <1>2, <4>1, <4>3 DEF Behind
      <4>7. QED
        BY <4>4, <4>5, <4>6 DEF Behind
    <3>2. QED
      BY <2>1, <2>3, <3>1 DEF TurnOf
  <2>4. CASE place[m] = "active"
    <3>1. Leads(m) => Leads(m)'
      <4> SUFFICES ASSUME Leads(m) PROVE Leads(m)'
        OBVIOUS
      <4>1. PICK l \in Worker : job[l] = m /\ owner = l[1] /\ l \notin closing
        BY DEF Leads
      <4>2. l # w /\ at[l] # "off"
        BY <1>2, <4>1 DEF Types, WorkTypes, InHand, Throttling
      <4>3. owner # w[1]
        BY <1>2, <4>1, <4>2 DEF AloneInv
      <4>4. job'[l] = m /\ owner' = l[1] /\ l \notin closing'
        BY <1>2, <4>1, <4>2
      <4>5. ASSUME NEW v \in Worker, job'[v] \in Msg, job'[v] > m
            PROVE  at'[v] \in Throttling /\ owner' # v[1]
        BY <1>2, <4>3, <4>5 DEF Leads, Throttling
      <4>6. QED
        BY <4>4, <4>5 DEF Leads
    <3>2. Sent(m) => Sent(m)'
      BY <1>2, SentKept
    <3>3. QED
      BY <1>3, <2>1, <2>4, <3>1, <3>2 DEF TurnOf
  <2>5. CASE place[m] \notin {"new", "asked", "waiting", "active"}
    <3>1. Sent(m) => Sent(m)'
      BY <1>2, SentKept
    <3>2. QED
      BY <1>3, <2>1, <2>5, <3>1 DEF TurnOf
  <2>6. QED
    BY <2>2, <2>3, <2>4, <2>5
<1>6. QED
  BY <1>4, <1>5

LEMMA NextTurn ==
    Types /\ AskInv /\ SentInv /\ WaitInv /\ AloneInv /\ TurnInv
    /\ [Next]_vars => TurnInv'
<1> SUFFICES ASSUME Types, AskInv, SentInv, WaitInv, AloneInv, TurnInv, [Next]_vars
             PROVE TurnInv'
  OBVIOUS
<1> USE SendTypes
<1>1. ASSUME NEW w \in Worker, Close(w) PROVE TurnInv'
  BY <1>1, TurnWorks DEF Close, Types, WorkTypes, Throttling, InHand, Goto, lockVars, jobVars,
  countVars, history
<1>2. ASSUME NEW w \in Worker, Pick(w) PROVE TurnInv'
  BY <1>2, TurnPick
<1>3. ASSUME NEW w \in Worker, CountGet(w) PROVE TurnInv'
  BY <1>3, TurnWorks DEF CountGet, Types, WorkTypes, Throttling, InHand, Goto, lockVars,
  jobVars, countVars, history
<1>4. ASSUME NEW w \in Worker, CountIncr(w) PROVE TurnInv'
  BY <1>4, TurnWorks DEF CountIncr, keepsAllButCount, Types, WorkTypes, Throttling, InHand,
  Goto, lockVars, jobVars, countVars, history
<1>5. ASSUME NEW w \in Worker, CountExpire(w) PROVE TurnInv'
  BY <1>5, TurnWorks DEF CountExpire, keepsAllButCount, Types, WorkTypes, Throttling, InHand,
  Goto, lockVars, jobVars, countVars, history
<1>6. ASSUME NEW w \in Worker, CountFull(w) PROVE TurnInv'
  BY <1>6, TurnWorks DEF CountFull, keepsAllButCount, Types, WorkTypes, Throttling, InHand,
  Goto, lockVars, jobVars, countVars, history
<1>7. ASSUME NEW w \in Worker, CountSleep(w) PROVE TurnInv'
  BY <1>7, TurnWorks DEF CountSleep, keepsAllButCount, Types, WorkTypes, Throttling, InHand,
  Goto, lockVars, jobVars, countVars, history
<1>8. ASSUME NEW w \in Worker, CountClear(w) PROVE TurnInv'
  BY <1>8, TurnWorks DEF CountClear, keepsAllButCount, Types, WorkTypes, Throttling, InHand,
  Goto, lockVars, jobVars, countVars, history
<1>9. ASSUME NEW w \in Worker, Fence(w) PROVE TurnInv'
  BY <1>9, TurnWorks DEF Fence, keepsAllButCount, Types, WorkTypes, Throttling, InHand, Goto,
  lockVars, jobVars, countVars, history
<1>10. ASSUME NEW w \in Worker, FenceStops(w) PROVE TurnInv'
  <2>1. job[w] \in Msg /\ Fail(w) /\ UNCHANGED owner
        /\ upset \subseteq upset' /\ job[w] \in upset'
        /\ (UNCHANGED sends \/ sends' = Append(sends, job[w]))
        /\ \A v \in Worker : v \in closing' => v \in closing \/ owner # v[1]
    BY <1>10, WorkersOf DEF FenceStops, Terminate, Upset, Running, Types, WorkTypes,
      Throttling, InHand, lockVars
  <2>2. QED
    BY <2>1, TurnFails
<1>11. ASSUME NEW w \in Worker, FenceNoSocket(w) PROVE TurnInv'
  <2>1. job[w] \in Msg /\ Fail(w) /\ UNCHANGED owner
        /\ upset \subseteq upset' /\ job[w] \in upset'
        /\ (UNCHANGED sends \/ sends' = Append(sends, job[w]))
        /\ \A v \in Worker : v \in closing' => v \in closing \/ owner # v[1]
    BY <1>11, WorkersOf DEF FenceNoSocket, upsetsJob, Types, WorkTypes, Throttling, InHand,
      lockVars
  <2>2. QED
    BY <2>1, TurnFails
<1>12. ASSUME NEW w \in Worker, Send(w) PROVE TurnInv'
  BY <1>12, TurnSend
<1>13. ASSUME NEW w \in Worker, SendClosed(w) PROVE TurnInv'
  <2>1. job[w] \in Msg /\ Fail(w) /\ UNCHANGED owner
        /\ upset \subseteq upset' /\ job[w] \in upset'
        /\ (UNCHANGED sends \/ sends' = Append(sends, job[w]))
        /\ \A v \in Worker : v \in closing' => v \in closing \/ owner # v[1]
    BY <1>13, WorkersOf DEF SendClosed, upsetsJob, Types, WorkTypes, Throttling, InHand, lockVars
  <2>2. QED
    BY <2>1, TurnFails
<1>14. ASSUME NEW w \in Worker, Save(w) PROVE TurnInv'
  BY <1>14, TurnWorks DEF Save, Types, WorkTypes, Throttling, InHand, Goto, lockVars, jobVars,
  countVars, history
<1>15. ASSUME NEW w \in Worker, Complete(w) PROVE TurnInv'
  BY <1>15, TurnComplete
<1>16. ASSUME NEW w \in Worker, ThrottleFails(w) PROVE TurnInv'
  <2>1. job[w] \in Msg /\ Fail(w) /\ UNCHANGED owner
        /\ upset \subseteq upset' /\ job[w] \in upset'
        /\ (UNCHANGED sends \/ sends' = Append(sends, job[w]))
        /\ \A v \in Worker : v \in closing' => v \in closing \/ owner # v[1]
    BY <1>16, WorkersOf DEF ThrottleFails, upsetsJob, Types, WorkTypes, Throttling, InHand,
      lockVars
  <2>2. QED
    BY <2>1, TurnFails
<1>17. ASSUME NEW w \in Worker, SendFails(w) PROVE TurnInv'
  <2>1. job[w] \in Msg /\ Fail(w) /\ UNCHANGED owner
        /\ upset \subseteq upset' /\ job[w] \in upset'
        /\ (UNCHANGED sends \/ sends' = Append(sends, job[w]))
        /\ \A v \in Worker : v \in closing' => v \in closing \/ owner # v[1]
    BY <1>17, WorkersOf DEF SendFails, upsetsJob, Types, WorkTypes, Throttling, InHand, lockVars
  <2>2. QED
    BY <2>1, TurnFails
<1>18. ASSUME NEW w \in Worker, SendUnsure(w) PROVE TurnInv'
  <2>1. job[w] \in Msg /\ Fail(w) /\ UNCHANGED owner
        /\ upset \subseteq upset' /\ job[w] \in upset'
        /\ (UNCHANGED sends \/ sends' = Append(sends, job[w]))
        /\ \A v \in Worker : v \in closing' => v \in closing \/ owner # v[1]
    BY <1>18, WorkersOf DEF SendUnsure, upsetsJob, Types, WorkTypes, Throttling, InHand, lockVars
  <2>2. QED
    BY <2>1, TurnFails
<1>19. ASSUME NEW m \in Msg, Ask(m) PROVE TurnInv'
  BY <1>19, TurnRequests
<1>20. ASSUME NEW m \in Msg, Refuse(m) PROVE TurnInv'
  BY <1>20, TurnRequests
<1>21. ASSUME NEW m \in Msg, Publish(m) PROVE TurnInv'
  BY <1>21, TurnPublish
<1>22. ASSUME NEW m \in Msg, PublishSameMs(m) PROVE TurnInv'
  BY <1>22, TurnRequests
<1>23. ASSUME NEW m \in Msg, Promote(m) PROVE TurnInv'
  BY <1>23, TurnPromote
<1>24. ASSUME NEW m \in Msg, Stalled(m) PROVE TurnInv'
  BY <1>24, TurnStalled
<1>25. ASSUME NEW r \in Replica, NEW g \in Generation, Initialize(r, g) PROVE TurnInv'
  BY <1>25, TurnOwner, WorkersOf DEF Initialize, Types, WorkTypes, Throttling, InHand, Goto,
  lockVars, jobVars, countVars, history, Running
<1>26. ASSUME NEW r \in Replica, LockLost(r) PROVE TurnInv'
  BY <1>26, TurnOwner, WorkersOf DEF LockLost, Terminate, Types, WorkTypes, Throttling, InHand,
  Goto, lockVars, jobVars, countVars, history, Running
<1>27. ASSUME NEW r \in Replica, Crash(r) PROVE TurnInv'
  BY <1>27, TurnOwner, WorkersOf DEF Crash, Types, WorkTypes, Throttling, InHand, Goto,
  lockVars, jobVars, countVars, history
<1>28. CASE LockExpires
  BY <1>28, TurnOwner DEF LockExpires, Types, WorkTypes, Throttling, InHand, Goto, lockVars,
  jobVars, countVars, history, LockTypes
<1>29. ASSUME UNCHANGED <<owner, at, job, closing, place, queue, sends, upset>> PROVE TurnInv'
  BY <1>29, TurnWorks
<1>30. ASSUME NEW r \in Replica, SocketCloses(r) PROVE TurnInv'
  BY <1>30, <1>29 DEF SocketCloses, lockVars, jobVars, countVars, history
<1>31. CASE CountDies
  BY <1>31, <1>29 DEF CountDies, keepsAllButCount, lockVars, jobVars, countVars, history
<1>32. CASE UNCHANGED vars
  BY <1>32, <1>29 DEF vars, lockVars, jobVars, countVars, history
<1>33. QED
  BY <1>1, <1>2, <1>3, <1>4, <1>5, <1>6, <1>7, <1>8, <1>9, <1>10, <1>11, <1>12, <1>13, <1>14,
  <1>15, <1>16, <1>17, <1>18, <1>19, <1>20, <1>21, <1>22, <1>23, <1>24, <1>25, <1>26, <1>27,
  <1>28, <1>29, <1>30, <1>31, <1>32
  DEF Next, WorkerSteps, Starts, Route, QueueSteps, Faults

-----------------------------------------------------------------------------
\* A request that was refused or dropped stays so.
NoneRevived ==
    \A m \in Msg : place[m] \in {"refused", "dropped"} => place'[m] \in {"refused", "dropped"}

\* A message that is sent does not pass an earlier one whose turn is not upset.
LEMMA OrderSend ==
    ASSUME Types, SentInv, TurnInv, OvertakenHasCause,
           NEW w \in Worker, at[w] = "sending", sends' = Append(sends, job[w]),
           upset \subseteq upset', NoneRevived
    PROVE  OvertakenHasCause'
<1>1. job[w] \in Msg
  BY DEF Types, WorkTypes, InHand
<1>2. /\ Len(sends) \in Nat /\ Len(sends') = Len(sends) + 1
      /\ \A i \in 1..Len(sends') : \/ i \in 1..Len(sends) /\ sends'[i] = sends[i]
                                   \/ i = Len(sends) + 1 /\ sends'[i] = job[w]
  BY <1>1, SendsGrow DEF Types
<1>3. DOMAIN sends = 1..Len(sends) /\ DOMAIN sends' = 1..Len(sends')
  <2>1. sends \in Seq(Msg) /\ sends' \in Seq(Msg)
    BY <1>1, AppendProperties DEF Types, HistoryTypes
  <2>2. QED
    BY <2>1, LenProperties
<1> SUFFICES ASSUME NEW m \in Msg, NEW n \in 1..Len(sends'), m < sends'[n], m \notin upset',
                    place[m] \notin {"refused", "dropped"}
             PROVE  \E l \in 1..n : sends'[l] = m
  BY <1>3 DEF OvertakenHasCause, NoneRevived
<1>4. \A l \in 1..Len(sends) : sends'[l] = sends[l]
  BY <1>2
<1>5. CASE n \in 1..Len(sends)
  <2>1. PICK l \in 1..n : sends[l] = m
    BY <1>3, <1>4, <1>5 DEF OvertakenHasCause
  <2>2. l \in 1..Len(sends)
    BY <1>2, <1>5
  <2>3. QED
    BY <1>4, <2>1, <2>2
<1>6. CASE n = Len(sends) + 1
  <2>1. job[w] > m /\ TurnOf(m)
    BY <1>1, <1>2, <1>6 DEF TurnInv, Msg
  <2>2. place[job[w]] \notin Unqueued
    BY <1>1 DEF SentInv
  <2>3. place[m] \notin {"new", "asked"}
    BY <1>1, <2>1, <2>2 DEF TurnOf
  <2>4. place[m] # "waiting"
    BY <1>1, <2>1 DEF TurnOf, Behind
  <2>5. ~Leads(m)
    BY <1>1, <2>1 DEF Leads, Throttling
  <2>6. Sent(m)
    BY <2>1, <2>3, <2>4, <2>5 DEF TurnOf, Types, PlaceTypes, Place
  <2>7. PICK l \in 1..Len(sends) : sends[l] = m
    BY <2>6 DEF Sent
  <2>8. l \in 1..n /\ sends'[l] = m
    BY <1>2, <1>4, <1>6, <2>7
  <2>9. QED
    BY <2>8
<1>7. QED
  BY <1>2, <1>5, <1>6

\* Nothing is sent, and no message is refused that could have been sent.
LEMMA OrderKept ==
    ASSUME OvertakenHasCause, UNCHANGED sends, upset \subseteq upset',
           NoneRevived
    PROVE  OvertakenHasCause'
BY DEF OvertakenHasCause, NoneRevived

LEMMA NextOrder ==
    Types /\ SentInv /\ TurnInv /\ OvertakenHasCause
    /\ [Next]_vars => OvertakenHasCause'
<1> SUFFICES ASSUME Types, SentInv, TurnInv, OvertakenHasCause,
             [Next]_vars
             PROVE OvertakenHasCause'
  OBVIOUS
<1> USE SendTypes
<1>1. ASSUME NEW w \in Worker, Pick(w) PROVE OvertakenHasCause'
  BY <1>1, OrderKept, QueueTail DEF Pick, NoneRevived, Types, PlaceTypes, Put, QueueTypes,
  history
<1>2. ASSUME NEW w \in Worker, FenceStops(w) PROVE OvertakenHasCause'
  <2>1. job[w] \in Msg /\ Fail(w) /\ upset \subseteq upset'
    BY <1>2 DEF FenceStops, Terminate, Upset, Types, WorkTypes, Throttling, InHand
  <2>2. NoneRevived
    BY <2>1, FailMoves DEF NoneRevived
  <2>3. QED
    BY <1>2, <2>1, <2>2, OrderKept DEF FenceStops
<1>3. ASSUME NEW w \in Worker, FenceNoSocket(w) PROVE OvertakenHasCause'
  <2>1. job[w] \in Msg /\ Fail(w) /\ upset \subseteq upset'
    BY <1>3 DEF FenceNoSocket, upsetsJob, Types, WorkTypes, Throttling, InHand
  <2>2. NoneRevived
    BY <2>1, FailMoves DEF NoneRevived
  <2>3. QED
    BY <1>3, <2>1, <2>2, OrderKept DEF FenceNoSocket
<1>4. ASSUME NEW w \in Worker, Send(w) PROVE OvertakenHasCause'
  BY <1>4, OrderSend DEF Send, sendsJob, NoneRevived, jobVars
<1>5. ASSUME NEW w \in Worker, SendClosed(w) PROVE OvertakenHasCause'
  <2>1. job[w] \in Msg /\ Fail(w) /\ upset \subseteq upset'
    BY <1>5 DEF SendClosed, upsetsJob, Types, WorkTypes, Throttling, InHand
  <2>2. NoneRevived
    BY <2>1, FailMoves DEF NoneRevived
  <2>3. QED
    BY <1>5, <2>1, <2>2, OrderKept DEF SendClosed
<1>6. ASSUME NEW w \in Worker, Complete(w) PROVE OvertakenHasCause'
  BY <1>6, OrderKept, CompleteMoves DEF Complete, NoneRevived, history
<1>7. ASSUME NEW w \in Worker, ThrottleFails(w) PROVE OvertakenHasCause'
  <2>1. job[w] \in Msg /\ Fail(w) /\ upset \subseteq upset'
    BY <1>7 DEF ThrottleFails, upsetsJob, Types, WorkTypes, Throttling, InHand
  <2>2. NoneRevived
    BY <2>1, FailMoves DEF NoneRevived
  <2>3. QED
    BY <1>7, <2>1, <2>2, OrderKept DEF ThrottleFails
<1>8. ASSUME NEW w \in Worker, SendFails(w) PROVE OvertakenHasCause'
  <2>1. job[w] \in Msg /\ Fail(w) /\ upset \subseteq upset'
    BY <1>8 DEF SendFails, upsetsJob, Types, WorkTypes, Throttling, InHand
  <2>2. NoneRevived
    BY <2>1, FailMoves DEF NoneRevived
  <2>3. QED
    BY <1>8, <2>1, <2>2, OrderKept DEF SendFails
<1>9. ASSUME NEW w \in Worker, SendUnsure(w) PROVE OvertakenHasCause'
  <2>1. job[w] \in Msg /\ Fail(w) /\ upset \subseteq upset'
    BY <1>9 DEF SendUnsure, upsetsJob, Types, WorkTypes, Throttling, InHand
  <2>2. NoneRevived
    BY <2>1, FailMoves DEF NoneRevived
  <2>3. QED
    BY <1>9, <2>1, <2>2, OrderSend DEF SendUnsure
<1>10. ASSUME NEW m \in Msg, Ask(m) PROVE OvertakenHasCause'
  BY <1>10, OrderKept DEF Ask, NoneRevived, Types, PlaceTypes, Put, history
<1>11. ASSUME NEW m \in Msg, Refuse(m) PROVE OvertakenHasCause'
  BY <1>11, OrderKept DEF Refuse, NoneRevived, Types, PlaceTypes, Put, history
<1>12. ASSUME NEW m \in Msg, Publish(m) PROVE OvertakenHasCause'
  BY <1>12, OrderKept DEF Publish, overtakesRequests, NoneRevived, Types, PlaceTypes, Put,
  history
<1>13. ASSUME NEW m \in Msg, PublishSameMs(m) PROVE OvertakenHasCause'
  BY <1>13, OrderKept DEF PublishSameMs, NoneRevived, Types, PlaceTypes, Put, history
<1>14. ASSUME NEW m \in Msg, Promote(m) PROVE OvertakenHasCause'
  BY <1>14, OrderKept DEF Promote, NoneRevived, Types, PlaceTypes, Put, history
<1>15. ASSUME NEW m \in Msg, Stalled(m) PROVE OvertakenHasCause'
  BY <1>15, OrderKept DEF Stalled, NoneRevived, Types, PlaceTypes, Put, history
<1>16. ASSUME NEW r \in Replica, NEW g \in Generation, Initialize(r, g) PROVE OvertakenHasCause'
  BY <1>16, OrderKept DEF Initialize, NoneRevived, Upset, jobVars
<1>17. ASSUME NEW r \in Replica, LockLost(r) PROVE OvertakenHasCause'
  BY <1>17, OrderKept DEF LockLost, Terminate, NoneRevived, Upset, jobVars
<1>18. ASSUME NEW r \in Replica, Crash(r) PROVE OvertakenHasCause'
  BY <1>18, OrderKept DEF Crash, NoneRevived, Upset, jobVars
<1>19. CASE LockExpires
  BY <1>19, OrderKept DEF LockExpires, NoneRevived, Upset, jobVars
<1>20. ASSUME UNCHANGED <<place, sends, upset>> PROVE OvertakenHasCause'
  BY <1>20 DEF OvertakenHasCause
<1>21. ASSUME NEW w \in Worker, Close(w) \/ CountGet(w) \/ CountIncr(w) \/ CountExpire(w)
       \/ CountFull(w) \/ CountSleep(w) \/ CountClear(w) \/ Fence(w) \/ Save(w) PROVE
       OvertakenHasCause'
  BY <1>21, <1>20 DEF Close, CountGet, CountIncr, keepsAllButCount, CountExpire, CountFull,
  CountSleep, CountClear, Fence, Save, lockVars, jobVars, countVars, history
<1>22. ASSUME NEW r \in Replica, SocketCloses(r) PROVE OvertakenHasCause'
  BY <1>22, <1>20 DEF SocketCloses, lockVars, jobVars, countVars, history
<1>23. CASE CountDies
  BY <1>23, <1>20 DEF CountDies, keepsAllButCount, lockVars, jobVars, countVars, history
<1>24. CASE UNCHANGED vars
  BY <1>24, <1>20 DEF vars, lockVars, jobVars, countVars, history
<1>25. QED
  BY <1>1, <1>2, <1>3, <1>4, <1>5, <1>6, <1>7, <1>8, <1>9, <1>10, <1>11, <1>12, <1>13, <1>14,
  <1>15, <1>16, <1>17, <1>18, <1>19, <1>20, <1>21, <1>22, <1>23, <1>24
  DEF Next, WorkerSteps, Starts, Route, QueueSteps, Faults

-----------------------------------------------------------------------------
OrderInv == AskInv /\ SentInv /\ WaitInv /\ AloneInv /\ TurnInv /\ OvertakenHasCause

\* The messages leave in the order in which they were asked for, except one whose
\* request was overtaken, whose attempt failed, which stalled, or whose worker was
\* replaced under way (the queue of a session, session.manager.ts 2186-2365).
THEOREM OrderIsKept == Spec => []OvertakenHasCause
<1>1. Init => OrderInv
  <2>1. Init => OvertakenHasCause
    BY DEF Init, OvertakenHasCause
  <2>2. QED
    BY <2>1, InitOrder DEF OrderInv
<1>2. Types /\ OrderInv /\ [Next]_vars => OrderInv'
  BY NextAsk, NextSent, NextWait, NextAlone, NextTurn, NextOrder DEF OrderInv
<1>3. SendIInv => Types
  BY DEF SendIInv
<1>4. OrderInv => OvertakenHasCause
  BY DEF OrderInv
<1>5. QED
  BY <1>1, <1>2, <1>3, <1>4, Inductive, PTL DEF Spec

=============================================================================
