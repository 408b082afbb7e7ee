------------------------- MODULE HistorySync_proofs -------------------------
(***************************************************************************)
(* Proofs about the history sync, for any set of chunks and any number of  *)
(* attempts: its types, that only a sync-retry takes progress back, and    *)
(* that without failures it does not come to rest unfinished.              *)
(***************************************************************************)
EXTENDS MCHistorySync, FiniteSetTheorems, TLAPS

Phase == {"unsent", "event", "waiting", "counting", "started", "recounting", "ended",
          "completing", "done", "failed", "dropped"}

RowTypes == row \in [done : BOOLEAN, status : SyncStatus, p : Size, t : Size]

KeyTypes ==
    /\ progress \in Progress \cup {NoProgress}
    /\ totals \subseteq Chunk /\ processed \subseteq Chunk

\* A job that waits, or may yet come to wait, has attempts left.
JobTypes ==
    /\ phase \in [Chunk -> Phase] /\ tries \in [Chunk -> 0..Attempts]
    /\ sum \in [Chunk -> Size] /\ kept \subseteq Chunk
    /\ \A c \in Chunk : phase[c] \in {"unsent", "event", "waiting"} => tries[c] < Attempts

UpdateTypes == update \in [Caller -> Update]

TimerTypes ==
    /\ timer \in [Process -> BOOLEAN]
    /\ seen \in [Process -> [p : Size, t : Size] \cup {Nothing}]

SocketTypes ==
    /\ initial \in BOOLEAN /\ opening \in {"no", "read", "timer"}
    /\ retrying \in {"no", "publish", "report"} /\ restart \in BOOLEAN

Types == RowTypes /\ KeyTypes /\ JobTypes /\ UpdateTypes /\ TimerTypes /\ SocketTypes

-----------------------------------------------------------------------------
LEMMA Sizes ==
    /\ 0 \in Size /\ Size \subseteq Nat
    /\ \A S \in SUBSET Chunk : Cardinality(S) \in Size
<1>1. Cardinality(Chunk) \in Nat
  BY ChunkTypes, FS_CardinalityType
<1>2. ASSUME NEW S \in SUBSET Chunk PROVE Cardinality(S) \in Size
  BY <1>1, ChunkTypes, FS_Subset, FS_CardinalityType DEF Size
<1>3. QED
  BY <1>1, <1>2 DEF Size

LEMMA Greater ==
    ASSUME NEW m \in Nat, NEW n \in Nat
    PROVE  Greatest(m, n) >= m /\ Greatest(m, n) >= n /\ Greatest(m, n) \in {m, n}
BY DEF Greatest

LEMMA Merges ==
    ASSUME RowTypes, NEW status \in SyncStatus, NEW p \in Size, NEW t \in Size, Merge(status, p, t)
    PROVE  /\ RowTypes'
           /\ row.p <= row'.p /\ row.t <= row'.t /\ (row.done => row'.done)
           /\ row'.status = status /\ (status = "completed" => row'.done)
<1>1. row.p \in Nat /\ row.t \in Nat /\ p \in Nat /\ t \in Nat
  BY Sizes DEF RowTypes
<1>2. row'.p = Greatest(row.p, p) /\ row'.t = Greatest(row.t, t)
  BY DEF Merge
<1>3. row'.p \in Size /\ row'.t \in Size /\ row.p <= row'.p /\ row.t <= row'.t
  BY <1>1, <1>2, Greater DEF RowTypes
<1>4. QED
  BY <1>3 DEF Merge, RowTypes

LEMMA ReportsTyped ==
    ASSUME UpdateTypes, NEW a \in Caller, NEW status \in SyncStatus, NEW p \in Size, NEW t \in Size,
           Report(a, status, p, t)
    PROVE  UpdateTypes'
BY DEF UpdateTypes, Update, Report

LEMMA StepsTyped ==
    ASSUME UpdateTypes, NEW a \in Caller, NEW step \in {"idle", "redis", "row", "clean"},
           Reported(a, step)
    PROVE  UpdateTypes'
<1>1. /\ Idle \in Update /\ [update[a] EXCEPT !.step = step] \in Update
  BY Sizes DEF UpdateTypes, Update, Idle, SyncStatus
<1>2. QED
  BY <1>1 DEF UpdateTypes, Reported

LEMMA InitTypes == Init => Types
<1> SUFFICES ASSUME Init PROVE Types
  OBVIOUS
<1> USE Sizes, ChunkTypes DEF Init
<1>1. RowTypes
  BY DEF RowTypes, SyncStatus
<1>2. KeyTypes
  BY DEF KeyTypes
<1>3. JobTypes
  BY DEF JobTypes, Phase
<1>4. UpdateTypes
  BY DEF UpdateTypes, Update, Idle, SyncStatus
<1>5. TimerTypes
  BY DEF TimerTypes
<1>6. SocketTypes
  BY DEF SocketTypes
<1>7. QED
  BY <1>1, <1>2, <1>3, <1>4, <1>5, <1>6 DEF Types

LEMMA NextRow == Types /\ [Next]_vars => RowTypes'
<1> SUFFICES ASSUME Types, [Next]_vars PROVE RowTypes'
  OBVIOUS
<1> USE Sizes DEF Types
<1>1. ASSUME NEW a \in Caller, WriteRow(a) PROVE RowTypes'
  BY <1>1, Merges DEF WriteRow, Reported, UpdateTypes, Update
<1>2. ASSUME NEW c \in Chunk, NEW saved \in BOOLEAN, JobCompletes(c, saved) PROVE RowTypes'
  <2>1. sum[c] \in Size /\ "completed" \in SyncStatus
    BY DEF JobTypes, SyncStatus
  <2>2. CASE saved
    BY <1>2, <2>1, <2>2, Merges DEF JobCompletes
  <2>3. CASE ~saved
    <3>1. UNCHANGED row
      BY <1>2, <2>3 DEF JobCompletes
    <3>2. QED
      BY <3>1 DEF RowTypes
  <2>4. QED
    BY <2>2, <2>3
<1>3. CASE RetryReset
  BY <1>3 DEF RetryReset, RowTypes, SyncStatus
<1>4. ASSUME UNCHANGED row PROVE RowTypes'
  BY <1>4 DEF RowTypes
<1>5. ASSUME NEW a \in Caller, WriteProgress(a) \/ CleanKeys(a) \/ WriteRowFails(a) PROVE
  RowTypes'
  BY <1>5, <1>4 DEF WriteProgress, CleanKeys, WriteRowFails, keys, jobs, timers, socket
<1>6. ASSUME NEW c \in Chunk, Publish(c) \/ JobStarts(c) \/ JobCounts(c) \/ JobInserts(c) \/
  JobReports(c) \/ JobEnds(c) \/ ChunkArrives(c) \/ EventFails(c) \/ JobFails(c) PROVE
  RowTypes'
  BY <1>6, <1>4 DEF Publish, JobStarts, JobCounts, JobInserts, JobReports, JobEnds,
    ChunkArrives, EventFails, JobFails, keys, jobs, timers, socket
<1>7. ASSUME NEW x \in Process, TimerReads(x) \/ TimerDecides(x) PROVE RowTypes'
  BY <1>7, <1>4 DEF TimerReads, TimerDecides, keys, jobs, timers, socket
<1>8. CASE OpenReads \/ OpenSetsTimer \/ Restart \/ RetryRestarts \/ RetryEnds \/ Reconnect
  BY <1>8, <1>4 DEF OpenReads, OpenSetsTimer, Restart, RetryRestarts, RetryEnds, Reconnect,
    Connect, keys, jobs, timers, socket
<1>9. CASE UNCHANGED vars
  BY <1>9, <1>4 DEF vars, keys, jobs, timers, socket
<1>10. QED
  BY <1>1, <1>2, <1>3, <1>4, <1>5, <1>6, <1>7, <1>8, <1>9 DEF Next, Steps, Arrivals, Faults,
    Reports, ChunkStep, TimerStep, OpenStep, RetryStep

LEMMA NextKeys == Types /\ [Next]_vars => KeyTypes'
<1> SUFFICES ASSUME Types, [Next]_vars PROVE KeyTypes'
  OBVIOUS
<1> USE Sizes DEF Types, KeyTypes
<1>1. ASSUME NEW a \in Caller, WriteProgress(a) PROVE KeyTypes'
  BY <1>1 DEF WriteProgress, Reported, UpdateTypes, Update, Progress
<1>2. ASSUME NEW a \in Caller, CleanKeys(a) PROVE KeyTypes'
  BY <1>2 DEF CleanKeys, Reported
<1>3. ASSUME NEW c \in Chunk, JobStarts(c) PROVE KeyTypes'
  BY <1>3 DEF JobStarts
<1>4. ASSUME NEW c \in Chunk, JobInserts(c) PROVE KeyTypes'
  BY <1>4 DEF JobInserts
<1>5. CASE RetryReset
  BY <1>5 DEF RetryReset
<1>6. ASSUME UNCHANGED <<progress, totals, processed>> PROVE KeyTypes'
  BY <1>6
<1>7. ASSUME NEW a \in Caller, WriteRow(a) \/ WriteRowFails(a) PROVE KeyTypes'
  BY <1>7, <1>6 DEF WriteRow, WriteRowFails, keys, jobs, timers, socket
<1>8. ASSUME NEW c \in Chunk, Publish(c) \/ JobCounts(c) \/ JobReports(c) \/ JobEnds(c) \/
  ChunkArrives(c) \/ EventFails(c) \/ JobFails(c) PROVE KeyTypes'
  BY <1>8, <1>6 DEF Publish, JobCounts, JobReports, JobEnds, ChunkArrives, EventFails,
    JobFails, keys, jobs, timers, socket
<1>9. ASSUME NEW c \in Chunk, NEW saved \in BOOLEAN, JobCompletes(c, saved) PROVE KeyTypes'
  BY <1>9, <1>6 DEF JobCompletes, keys, jobs, timers, socket
<1>10. ASSUME NEW x \in Process, TimerReads(x) \/ TimerDecides(x) PROVE KeyTypes'
  BY <1>10, <1>6 DEF TimerReads, TimerDecides, keys, jobs, timers, socket
<1>11. CASE OpenReads \/ OpenSetsTimer \/ Restart \/ RetryRestarts \/ RetryEnds \/ Reconnect
  BY <1>11, <1>6 DEF OpenReads, OpenSetsTimer, Restart, RetryRestarts, RetryEnds, Reconnect,
    Connect, keys, jobs, timers, socket
<1>12. CASE UNCHANGED vars
  BY <1>12, <1>6 DEF vars, keys, jobs, timers, socket
<1>13. QED
  BY <1>1, <1>2, <1>3, <1>4, <1>5, <1>6, <1>7, <1>8, <1>9, <1>10, <1>11, <1>12 DEF Next,
    Steps, Arrivals, Faults, Reports, ChunkStep, TimerStep, OpenStep, RetryStep

LEMMA NextJobs == Types /\ [Next]_vars => JobTypes'
<1> SUFFICES ASSUME Types, [Next]_vars PROVE JobTypes'
  OBVIOUS
<1> USE Sizes, ChunkTypes DEF Types, JobTypes, KeyTypes, Phase
<1>1. ASSUME NEW c \in Chunk, Publish(c) PROVE JobTypes'
  BY <1>1 DEF Publish, Queued
<1>2. ASSUME NEW c \in Chunk, JobStarts(c) PROVE JobTypes'
  BY <1>2 DEF JobStarts
<1>3. ASSUME NEW c \in Chunk, JobCounts(c) PROVE JobTypes'
  BY <1>3 DEF JobCounts, Report, Forget
<1>4. ASSUME NEW c \in Chunk, JobInserts(c) PROVE JobTypes'
  BY <1>4 DEF JobInserts
<1>5. ASSUME NEW c \in Chunk, JobReports(c) PROVE JobTypes'
  BY <1>5 DEF JobReports, Report
<1>6. ASSUME NEW c \in Chunk, JobEnds(c) PROVE JobTypes'
  BY <1>6 DEF JobEnds, Forget
<1>7. ASSUME NEW c \in Chunk, NEW saved \in BOOLEAN, JobCompletes(c, saved) PROVE JobTypes'
  BY <1>7 DEF JobCompletes, Merge, Forget
<1>8. CASE Restart
  BY <1>8 DEF Restart, Connect
<1>9. ASSUME NEW c \in Chunk, ChunkArrives(c) PROVE JobTypes'
  BY <1>9 DEF ChunkArrives, Report
<1>10. ASSUME NEW c \in Chunk, EventFails(c) PROVE JobTypes'
  BY <1>10 DEF EventFails, Reported, Queued
<1>11. ASSUME NEW c \in Chunk, JobFails(c) PROVE JobTypes'
  BY <1>11 DEF JobFails, Reported, Forget
<1>12. CASE Reconnect
  BY <1>12 DEF Reconnect, Connect
<1>13. ASSUME UNCHANGED <<phase, tries, sum, kept>> PROVE JobTypes'
  BY <1>13
<1>14. ASSUME NEW a \in Caller, WriteProgress(a) \/ WriteRow(a) \/ CleanKeys(a) \/
  WriteRowFails(a) PROVE JobTypes'
  BY <1>14, <1>13 DEF WriteProgress, WriteRow, CleanKeys, WriteRowFails, keys, jobs, timers,
    socket
<1>15. ASSUME NEW x \in Process, TimerReads(x) \/ TimerDecides(x) PROVE JobTypes'
  BY <1>15, <1>13 DEF TimerReads, TimerDecides, keys, jobs, timers, socket
<1>16. CASE OpenReads \/ OpenSetsTimer \/ RetryRestarts \/ RetryEnds \/ RetryReset
  BY <1>16, <1>13 DEF OpenReads, OpenSetsTimer, RetryRestarts, RetryEnds, RetryReset, keys,
    jobs, timers, socket
<1>17. CASE UNCHANGED vars
  BY <1>17, <1>13 DEF vars, keys, jobs, timers, socket
<1>18. QED
  BY <1>1, <1>2, <1>3, <1>4, <1>5, <1>6, <1>7, <1>8, <1>9, <1>10, <1>11, <1>12, <1>13, <1>14,
    <1>15, <1>16, <1>17 DEF Next, Steps, Arrivals, Faults, Reports, ChunkStep, TimerStep,
    OpenStep, RetryStep

LEMMA NextUpdates == Types /\ [Next]_vars => UpdateTypes'
<1> SUFFICES ASSUME Types, [Next]_vars PROVE UpdateTypes'
  OBVIOUS
<1> USE Sizes DEF Types, Caller
<1>1. ASSUME NEW a \in Caller, WriteProgress(a) PROVE UpdateTypes'
  BY <1>1, StepsTyped DEF WriteProgress
<1>2. ASSUME NEW a \in Caller, WriteRow(a) PROVE UpdateTypes'
  BY <1>2, StepsTyped DEF WriteRow, Merge, AfterRow
<1>3. ASSUME NEW a \in Caller, CleanKeys(a) PROVE UpdateTypes'
  BY <1>3, StepsTyped DEF CleanKeys
<1>4. ASSUME NEW c \in Chunk, JobCounts(c) PROVE UpdateTypes'
  BY <1>4, ReportsTyped DEF JobCounts, Forget, SyncStatus, KeyTypes, JobTypes
<1>5. ASSUME NEW c \in Chunk, JobReports(c) PROVE UpdateTypes'
  BY <1>5, ReportsTyped DEF JobReports, SyncStatus, KeyTypes, JobTypes
<1>6. ASSUME NEW x \in Process, TimerDecides(x) PROVE UpdateTypes'
  BY <1>6, ReportsTyped DEF TimerDecides, SyncStatus, TimerTypes, Process
<1>7. CASE OpenReads
  BY <1>7, ReportsTyped DEF OpenReads, SyncStatus, UpdateTypes
<1>8. CASE RetryRestarts
  BY <1>8, ReportsTyped DEF RetryRestarts, SyncStatus
<1>9. ASSUME NEW c \in Chunk, ChunkArrives(c) PROVE UpdateTypes'
  <2>1. progress.p \in Size /\ progress.t \in Size
    BY DEF KeyTypes, Progress, NoProgress
  <2>2. CASE UNCHANGED update
    BY <2>2 DEF UpdateTypes
  <2>3. CASE Report(c, "syncing", progress.p, progress.t)
    BY <2>1, <2>3, ReportsTyped DEF SyncStatus
  <2>4. QED
    BY <1>9, <2>2, <2>3 DEF ChunkArrives
<1>10. ASSUME NEW a \in Caller, WriteRowFails(a) PROVE UpdateTypes'
  BY <1>10, StepsTyped DEF WriteRowFails, AfterRow
<1>11. ASSUME NEW c \in Chunk, EventFails(c) PROVE UpdateTypes'
  BY <1>11, StepsTyped DEF EventFails
<1>12. ASSUME NEW c \in Chunk, JobFails(c) PROVE UpdateTypes'
  BY <1>12, StepsTyped DEF JobFails, Forget
<1>13. ASSUME UNCHANGED update PROVE UpdateTypes'
  BY <1>13 DEF UpdateTypes
<1>14. ASSUME NEW c \in Chunk, Publish(c) \/ JobStarts(c) \/ JobInserts(c) \/ JobEnds(c) PROVE
  UpdateTypes'
  BY <1>14, <1>13 DEF Publish, JobStarts, JobInserts, JobEnds, keys, jobs, timers, socket
<1>15. ASSUME NEW c \in Chunk, NEW saved \in BOOLEAN, JobCompletes(c, saved) PROVE
  UpdateTypes'
  BY <1>15, <1>13 DEF JobCompletes, keys, jobs, timers, socket
<1>16. ASSUME NEW x \in Process, TimerReads(x) PROVE UpdateTypes'
  BY <1>16, <1>13 DEF TimerReads, keys, jobs, timers, socket
<1>17. CASE OpenSetsTimer \/ Restart \/ RetryEnds \/ Reconnect \/ RetryReset
  BY <1>17, <1>13 DEF OpenSetsTimer, Restart, RetryEnds, Reconnect, RetryReset, Connect, keys,
    jobs, timers, socket
<1>18. CASE UNCHANGED vars
  BY <1>18, <1>13 DEF vars, keys, jobs, timers, socket
<1>19. QED
  BY <1>1, <1>2, <1>3, <1>4, <1>5, <1>6, <1>7, <1>8, <1>9, <1>10, <1>11, <1>12, <1>13, <1>14,
    <1>15, <1>16, <1>17, <1>18 DEF Next, Steps, Arrivals, Faults, Reports, ChunkStep,
    TimerStep, OpenStep, RetryStep

LEMMA NextTimers == Types /\ [Next]_vars => TimerTypes'
<1> SUFFICES ASSUME Types, [Next]_vars PROVE TimerTypes'
  OBVIOUS
<1> USE Sizes DEF Types, TimerTypes, Process
<1>1. ASSUME NEW c \in Chunk, Publish(c) PROVE TimerTypes'
  BY <1>1 DEF Publish
<1>2. ASSUME NEW c \in Chunk, JobEnds(c) PROVE TimerTypes'
  BY <1>2 DEF JobEnds, Forget
<1>3. ASSUME NEW c \in Chunk, NEW saved \in BOOLEAN, JobCompletes(c, saved) PROVE TimerTypes'
  BY <1>3 DEF JobCompletes, Merge, Forget
<1>4. ASSUME NEW x \in Process, TimerReads(x) PROVE TimerTypes'
  BY <1>4 DEF TimerReads, RowTypes, KeyTypes, Greatest
<1>5. ASSUME NEW x \in Process, TimerDecides(x) PROVE TimerTypes'
  BY <1>5 DEF TimerDecides, Report
<1>6. CASE OpenSetsTimer
  BY <1>6 DEF OpenSetsTimer
<1>7. CASE Restart
  BY <1>7 DEF Restart, Connect
<1>8. ASSUME NEW c \in Chunk, EventFails(c) PROVE TimerTypes'
  BY <1>8 DEF EventFails, Reported
<1>9. ASSUME UNCHANGED <<timer, seen>> PROVE TimerTypes'
  BY <1>9
<1>10. ASSUME NEW a \in Caller, WriteProgress(a) \/ WriteRow(a) \/ CleanKeys(a) \/
  WriteRowFails(a) PROVE TimerTypes'
  BY <1>10, <1>9 DEF WriteProgress, WriteRow, CleanKeys, WriteRowFails, keys, jobs, timers,
    socket
<1>11. ASSUME NEW c \in Chunk, JobStarts(c) \/ JobCounts(c) \/ JobInserts(c) \/ JobReports(c)
  \/ ChunkArrives(c) \/ JobFails(c) PROVE TimerTypes'
  BY <1>11, <1>9 DEF JobStarts, JobCounts, JobInserts, JobReports, ChunkArrives, JobFails,
    keys, jobs, timers, socket
<1>12. CASE OpenReads \/ RetryRestarts \/ RetryEnds \/ Reconnect \/ RetryReset
  BY <1>12, <1>9 DEF OpenReads, RetryRestarts, RetryEnds, Reconnect, RetryReset, Connect,
    keys, jobs, timers, socket
<1>13. CASE UNCHANGED vars
  BY <1>13, <1>9 DEF vars, keys, jobs, timers, socket
<1>14. QED
  BY <1>1, <1>2, <1>3, <1>4, <1>5, <1>6, <1>7, <1>8, <1>9, <1>10, <1>11, <1>12, <1>13 DEF
    Next, Steps, Arrivals, Faults, Reports, ChunkStep, TimerStep, OpenStep, RetryStep

LEMMA NextSockets == Types /\ [Next]_vars => SocketTypes'
<1> SUFFICES ASSUME Types, [Next]_vars PROVE SocketTypes'
  OBVIOUS
<1> USE DEF Types, SocketTypes, socket
<1>1. CASE OpenReads
  BY <1>1 DEF OpenReads, Report
<1>2. CASE OpenSetsTimer
  BY <1>2 DEF OpenSetsTimer
<1>3. CASE Restart
  BY <1>3 DEF Restart, Connect, RowTypes
<1>4. CASE RetryRestarts
  BY <1>4 DEF RetryRestarts, Report
<1>5. CASE RetryEnds
  BY <1>5 DEF RetryEnds
<1>6. CASE Reconnect
  BY <1>6 DEF Reconnect, Connect, RowTypes
<1>7. CASE RetryReset
  BY <1>7 DEF RetryReset
<1>8. ASSUME UNCHANGED <<initial, opening, retrying, restart>> PROVE SocketTypes'
  BY <1>8
<1>9. ASSUME NEW a \in Caller, WriteProgress(a) \/ WriteRow(a) \/ CleanKeys(a) \/
  WriteRowFails(a) PROVE SocketTypes'
  BY <1>9, <1>8 DEF WriteProgress, WriteRow, CleanKeys, WriteRowFails, keys, jobs, timers,
    socket
<1>10. ASSUME NEW c \in Chunk, Publish(c) \/ JobStarts(c) \/ JobCounts(c) \/ JobInserts(c) \/
  JobReports(c) \/ JobEnds(c) \/ ChunkArrives(c) \/ EventFails(c) \/ JobFails(c) PROVE
  SocketTypes'
  BY <1>10, <1>8 DEF Publish, JobStarts, JobCounts, JobInserts, JobReports, JobEnds,
    ChunkArrives, EventFails, JobFails, keys, jobs, timers, socket
<1>11. ASSUME NEW c \in Chunk, NEW saved \in BOOLEAN, JobCompletes(c, saved) PROVE
  SocketTypes'
  BY <1>11, <1>8 DEF JobCompletes, keys, jobs, timers, socket
<1>12. ASSUME NEW x \in Process, TimerReads(x) \/ TimerDecides(x) PROVE SocketTypes'
  BY <1>12, <1>8 DEF TimerReads, TimerDecides, keys, jobs, timers, socket
<1>13. CASE UNCHANGED vars
  BY <1>13, <1>8 DEF vars, keys, jobs, timers, socket
<1>14. QED
  BY <1>1, <1>2, <1>3, <1>4, <1>5, <1>6, <1>7, <1>8, <1>9, <1>10, <1>11, <1>12, <1>13 DEF
    Next, Steps, Arrivals, Faults, Reports, ChunkStep, TimerStep, OpenStep, RetryStep

LEMMA TypesStay == Types /\ [Next]_vars => Types'
BY NextRow, NextKeys, NextJobs, NextUpdates, NextTimers, NextSockets DEF Types

LEMMA TypesHold == Spec => []Types
BY InitTypes, TypesStay, PTL DEF Spec

LEMMA TypesTyped == Types => TypeOK
BY DEF Types, RowTypes, KeyTypes, JobTypes, UpdateTypes, TimerTypes, SocketTypes, TypeOK, Phase

\* The ranges of rows, keys, jobs, reports and timers (message.sync.ts,
\* session.manager.ts 1738-1814).
THEOREM SyncTypesHold == Spec => []TypeOK
BY TypesHold, TypesTyped, PTL

-----------------------------------------------------------------------------
Forward == \/ retrying = "no" /\ retrying' = "publish"
           \/ row.p <= row'.p /\ row.t <= row'.t /\ (row.done => row'.done)

LEMMA Stays == ASSUME RowTypes, UNCHANGED row PROVE Forward
<1>1. row.p \in Nat /\ row.t \in Nat
  BY Sizes DEF RowTypes
<1>2. row.p <= row'.p /\ row.t <= row'.t
  BY <1>1
<1>3. QED
  BY <1>2 DEF Forward

LEMMA NextForward == Types /\ [Next]_vars => Forward
<1> SUFFICES ASSUME Types, [Next]_vars PROVE Forward
  OBVIOUS
<1> USE Sizes DEF Types
<1>1. ASSUME NEW a \in Caller, WriteRow(a) PROVE Forward
  BY <1>1, Merges DEF WriteRow, Reported, UpdateTypes, Update, Forward
<1>2. ASSUME NEW c \in Chunk, NEW saved \in BOOLEAN, JobCompletes(c, saved) PROVE Forward
  <2>1. sum[c] \in Size /\ "completed" \in SyncStatus
    BY DEF JobTypes, SyncStatus
  <2>2. CASE saved
    BY <1>2, <2>1, <2>2, Merges DEF JobCompletes, Forward
  <2>3. CASE ~saved
    <3>1. UNCHANGED row
      BY <1>2, <2>3 DEF JobCompletes
    <3>2. QED
      BY <3>1, Stays
  <2>4. QED
    BY <2>2, <2>3
<1>3. CASE RetryReset
  BY <1>3 DEF RetryReset, Forward
<1>4. ASSUME UNCHANGED row PROVE Forward
  BY <1>4, Stays
<1>5. ASSUME NEW a \in Caller, WriteProgress(a) \/ CleanKeys(a) \/ WriteRowFails(a) PROVE
  Forward
  BY <1>5, <1>4 DEF WriteProgress, CleanKeys, WriteRowFails, keys, jobs, timers, socket
<1>6. ASSUME NEW c \in Chunk, Publish(c) \/ JobStarts(c) \/ JobCounts(c) \/ JobInserts(c) \/
  JobReports(c) \/ JobEnds(c) \/ ChunkArrives(c) \/ EventFails(c) \/ JobFails(c) PROVE Forward
  BY <1>6, <1>4 DEF Publish, JobStarts, JobCounts, JobInserts, JobReports, JobEnds,
    ChunkArrives, EventFails, JobFails, keys, jobs, timers, socket
<1>7. ASSUME NEW x \in Process, TimerReads(x) \/ TimerDecides(x) PROVE Forward
  BY <1>7, <1>4 DEF TimerReads, TimerDecides, keys, jobs, timers, socket
<1>8. CASE OpenReads \/ OpenSetsTimer \/ Restart \/ RetryRestarts \/ RetryEnds \/ Reconnect
  BY <1>8, <1>4 DEF OpenReads, OpenSetsTimer, Restart, RetryRestarts, RetryEnds, Reconnect,
    Connect, keys, jobs, timers, socket
<1>9. CASE UNCHANGED vars
  BY <1>9, <1>4 DEF vars, keys, jobs, timers, socket
<1>10. QED
  BY <1>1, <1>2, <1>3, <1>4, <1>5, <1>6, <1>7, <1>8, <1>9 DEF Next, Steps, Arrivals, Faults,
    Reports, ChunkStep, TimerStep, OpenStep, RetryStep

\* Neither counts nor the mark of completion are taken back but by a sync-retry,
\* whatever reports, jobs, timers and failures do (message.sync.ts 75, 398).
THEOREM ProgressGrows == Spec => ProgressIsMonotone
<1>1. Types /\ [Next]_vars => [Forward]_vars
  BY NextForward
<1>2. QED
  BY <1>1, TypesHold, PTL DEF Spec, ProgressIsMonotone, Forward

-----------------------------------------------------------------------------
(* The sync without failures and retries; reconnects are allowed.          *)

CalmNext == Steps \/ Arrivals \/ Reconnect
CalmSpec == Init /\ [][CalmNext]_vars

\* Nothing is asked for by a retry or kept of a failure, and who reports has not
\* gone on: a chunk, the handler of 'open', or a timer with its verdict.
CalmInv ==
    /\ retrying = "no" /\ ~restart /\ kept = {}
    /\ \A c \in Chunk : Reporting(c) => phase[c] \in {"event", "started", "ended", "completing"}
    /\ Reporting("open") => opening = "timer"
    /\ ~Reporting("retry")
    /\ \A x \in Process : update[x].step \in {"redis", "row"}
                             => update[x].status \in {"completed", "failed"}

\* What still leads to an end of the sync.
Concludes ==
    \/ row.done \/ row.status = "failed" \/ opening # "no"
    \/ \E c \in Chunk : phase[c] \notin {"unsent", "done", "failed", "dropped"}
    \/ \E x \in Process : timer[x] \/ seen[x] # Nothing \/ update[x].step \in {"redis", "row"}

LEMMA Callers ==
    /\ "runner" \in Process /\ "worker" \in Process /\ "open" \in Caller /\ "retry" \in Caller
    /\ Process \subseteq Caller /\ Chunk \subseteq Caller
    /\ \A c \in Chunk : c \notin {"runner", "worker", "open", "retry"}
BY ChunkTypes DEF Caller, Process

LEMMA CalmKept == Types /\ CalmInv /\ [CalmNext]_vars => CalmInv'
<1> SUFFICES ASSUME Types, CalmInv, [CalmNext]_vars PROVE CalmInv'
  OBVIOUS
<1> USE Callers DEF Types, UpdateTypes, JobTypes, Update, CalmInv, Reporting, Idle, Process,
  Queued, AfterRow, Phase
<1>1. ASSUME NEW a \in Caller, WriteProgress(a) PROVE CalmInv'
  BY <1>1 DEF WriteProgress, Reported, keys, jobs, timers, socket
<1>2. ASSUME NEW a \in Caller, WriteRow(a) PROVE CalmInv'
  BY <1>2 DEF WriteRow, Merge, Reported, keys, jobs, timers, socket
<1>3. ASSUME NEW a \in Caller, CleanKeys(a) PROVE CalmInv'
  BY <1>3 DEF CleanKeys, Reported, keys, jobs, timers, socket
<1>4. ASSUME NEW c \in Chunk, Publish(c) PROVE CalmInv'
  BY <1>4 DEF Publish, keys, jobs, timers, socket
<1>5. ASSUME NEW c \in Chunk, JobStarts(c) PROVE CalmInv'
  BY <1>5 DEF JobStarts, keys, jobs, timers, socket
<1>6. ASSUME NEW c \in Chunk, JobCounts(c) PROVE CalmInv'
  BY <1>6 DEF JobCounts, Report, Forget, keys, jobs, timers, socket
<1>7. ASSUME NEW c \in Chunk, JobInserts(c) PROVE CalmInv'
  BY <1>7 DEF JobInserts, keys, jobs, timers, socket
<1>8. ASSUME NEW c \in Chunk, JobReports(c) PROVE CalmInv'
  BY <1>8 DEF JobReports, Report, keys, jobs, timers, socket
<1>9. ASSUME NEW c \in Chunk, JobEnds(c) PROVE CalmInv'
  BY <1>9 DEF JobEnds, Forget, keys, jobs, timers, socket
<1>10. ASSUME NEW c \in Chunk, JobCompletes(c, TRUE) PROVE CalmInv'
  BY <1>10 DEF JobCompletes, Merge, Forget, keys, jobs, timers, socket
<1>11. ASSUME NEW x \in Process, TimerReads(x) PROVE CalmInv'
  BY <1>11 DEF TimerReads, keys, jobs, timers, socket
<1>12. ASSUME NEW x \in Process, TimerDecides(x) PROVE CalmInv'
  BY <1>12, SMTT(30) DEF TimerDecides, Report, Greatest, keys, jobs, timers, socket
<1>13. CASE OpenReads
  BY <1>13 DEF OpenReads, Report, keys, jobs, timers, socket
<1>14. CASE OpenSetsTimer
  BY <1>14 DEF OpenSetsTimer, keys, jobs, timers, socket
<1>15. CASE Restart
  BY <1>15 DEF Restart, Connect, keys, jobs, timers, socket
<1>16. CASE RetryRestarts
  BY <1>16 DEF RetryRestarts, Report, keys, jobs, timers, socket
<1>17. CASE RetryEnds
  BY <1>17 DEF RetryEnds, keys, jobs, timers, socket
<1>18. ASSUME NEW c \in Chunk, ChunkArrives(c) PROVE CalmInv'
  BY <1>18 DEF ChunkArrives, Report, keys, jobs, timers, socket
<1>19. CASE Reconnect
  BY <1>19 DEF Reconnect, Connect, keys, jobs, timers, socket
<1>20. ASSUME UNCHANGED <<update, phase, opening, retrying, restart, kept>> PROVE CalmInv'
  BY <1>20
<1>21. CASE UNCHANGED vars
  BY <1>21, <1>20 DEF vars, keys, jobs, timers, socket
<1>22. QED
  BY <1>1, <1>2, <1>3, <1>4, <1>5, <1>6, <1>7, <1>8, <1>9, <1>10, <1>11, <1>12, <1>13, <1>14,
    <1>15, <1>16, <1>17, <1>18, <1>19, <1>20, <1>21 DEF CalmNext, Steps, Arrivals, Reports,
    ChunkStep, TimerStep, OpenStep, RetryStep

LEMMA CalmConcludes == Types /\ CalmInv /\ Concludes /\ [CalmNext]_vars => Concludes'
<1> SUFFICES ASSUME Types, CalmInv, Concludes, [CalmNext]_vars PROVE Concludes'
  OBVIOUS
<1> USE Callers DEF Types, TimerTypes, UpdateTypes, JobTypes, Update, CalmInv, Reporting,
  Idle, Process, Queued, AfterRow, Concludes, Phase
<1>1. ASSUME NEW a \in Caller, WriteProgress(a) PROVE Concludes'
  BY <1>1 DEF WriteProgress, Reported, keys, jobs, timers, socket
<1>2. ASSUME NEW a \in Caller, WriteRow(a) PROVE Concludes'
  <2>1. /\ update[a].step = "row" /\ Merge(update[a].status, update[a].p, update[a].t)
        /\ UNCHANGED <<opening, phase, timer, seen>>
    BY <1>2 DEF WriteRow, jobs, timers, socket
  <2>2. Reporting(a)
    BY <2>1
  <2>3. CASE a \in Chunk
    BY <2>1, <2>2, <2>3
  <2>4. CASE a \in Process
    BY <2>1, <2>4 DEF Merge
  <2>5. CASE a \in {"open", "retry"}
    BY <2>1, <2>2, <2>5
  <2>6. QED
    BY <2>3, <2>4, <2>5 DEF Caller
<1>3. ASSUME NEW a \in Caller, CleanKeys(a) PROVE Concludes'
  BY <1>3 DEF CleanKeys, Reported, keys, jobs, timers, socket
<1>4. ASSUME NEW c \in Chunk, Publish(c) PROVE Concludes'
  BY <1>4 DEF Publish, keys, jobs, timers, socket
<1>5. ASSUME NEW c \in Chunk, JobStarts(c) PROVE Concludes'
  BY <1>5 DEF JobStarts, keys, jobs, timers, socket
<1>6. ASSUME NEW c \in Chunk, JobCounts(c) PROVE Concludes'
  BY <1>6 DEF JobCounts, Report, Forget, keys, jobs, timers, socket
<1>7. ASSUME NEW c \in Chunk, JobInserts(c) PROVE Concludes'
  BY <1>7 DEF JobInserts, keys, jobs, timers, socket
<1>8. ASSUME NEW c \in Chunk, JobReports(c) PROVE Concludes'
  BY <1>8, SMTT(30) DEF JobReports, Report, keys, jobs, timers, socket
<1>9. ASSUME NEW c \in Chunk, JobEnds(c) PROVE Concludes'
  BY <1>9 DEF JobEnds, Forget, keys, jobs, timers, socket
<1>10. ASSUME NEW c \in Chunk, JobCompletes(c, TRUE) PROVE Concludes'
  <2>1. Merge("completed", sum[c], sum[c]) /\ sum[c] \in Size /\ "completed" \in SyncStatus
    BY <1>10 DEF JobCompletes, SyncStatus
  <2>2. row'.done
    BY <2>1, Merges
  <2>3. QED
    BY <2>2
<1>11. ASSUME NEW x \in Process, TimerReads(x) PROVE Concludes'
  <2>1. CASE row.done
    BY <1>11, <2>1 DEF TimerReads
  <2>2. CASE ~row.done
    <3>1. seen' = [seen EXCEPT ![x] = [p |-> row.p, t |-> Greatest(row.t, Cardinality(totals))]]
      BY <1>11, <2>2 DEF TimerReads
    <3>2. row.p \in Nat
      BY Sizes DEF RowTypes
    <3>3. seen'[x] # Nothing
      BY <3>1, <3>2 DEF Nothing
    <3>4. QED
      BY <3>3
  <2>3. QED
    BY <2>1, <2>2
<1>12. ASSUME NEW x \in Process, TimerDecides(x) PROVE Concludes'
  BY <1>12 DEF TimerDecides, Report, Greatest, keys, jobs, timers, socket
<1>13. CASE OpenReads
  BY <1>13 DEF OpenReads, Report, keys, jobs, timers, socket
<1>14. CASE OpenSetsTimer
  BY <1>14 DEF OpenSetsTimer, keys, jobs, timers, socket
<1>15. CASE Restart
  BY <1>15 DEF Restart, Connect, keys, jobs, timers, socket
<1>16. CASE RetryRestarts
  BY <1>16 DEF RetryRestarts, Report, keys, jobs, timers, socket
<1>17. CASE RetryEnds
  BY <1>17 DEF RetryEnds, keys, jobs, timers, socket
<1>18. ASSUME NEW c \in Chunk, ChunkArrives(c) PROVE Concludes'
  BY <1>18 DEF ChunkArrives, Report, keys, jobs, timers, socket
<1>19. CASE Reconnect
  BY <1>19 DEF Reconnect, Connect, keys, jobs, timers, socket
<1>20. ASSUME UNCHANGED <<row, opening, phase, timer, seen, update>> PROVE Concludes'
  BY <1>20
<1>21. CASE UNCHANGED vars
  BY <1>21, <1>20 DEF vars, keys, jobs, timers, socket
<1>22. QED
  BY <1>1, <1>2, <1>3, <1>4, <1>5, <1>6, <1>7, <1>8, <1>9, <1>10, <1>11, <1>12, <1>13, <1>14,
    <1>15, <1>16, <1>17, <1>18, <1>19, <1>20, <1>21 DEF CalmNext, Steps, Arrivals, Reports,
    ChunkStep, TimerStep, OpenStep, RetryStep

LEMMA CalmStarts == Init => Types /\ CalmInv /\ Concludes
<1>1. Init => CalmInv /\ Concludes
  BY Callers DEF Init, CalmInv, Concludes, Reporting, Idle
<1>2. QED
  BY <1>1, InitTypes

LEMMA CalmEnds == Types /\ CalmInv /\ Concludes => NeverHangs
<1> SUFFICES ASSUME Types, CalmInv, Concludes, Quiet PROVE row.done \/ row.status = "failed"
  BY DEF NeverHangs
<1>1. \A x \in Process : update[x].step = "idle"
  BY Callers DEF Quiet, Reporting, Idle
<1>2. QED
  BY <1>1 DEF Quiet, Concludes

\* Without failures and sync-retries, however chunks, reports, timers and reconnects
\* interleave, the sync does not come to rest as pending or syncing
\* (session.manager.ts 1738-1814).
THEOREM CalmSyncConcludes == CalmSpec => []NeverHangs
<1>1. [CalmNext]_vars => [Next]_vars
  BY DEF CalmNext, Next, Faults
<1>2. QED
  BY <1>1, CalmStarts, TypesStay, CalmEnds, CalmKept, CalmConcludes, PTL DEF CalmSpec

-----------------------------------------------------------------------------
(* The two scenarios that the run checks.                                  *)

\* In the calm scenario, with any chunks, the sync does not come to rest as pending
\* or syncing; in the other the types hold, with any number of failures
\* (session.manager.ts 1738-1814).
THEOREM SyncInvHolds == MCSpec => []SyncInv
<1> DEFINE I == Types /\ (calm => CalmInv /\ Concludes)
<1>1. MCInit => I
  BY CalmStarts DEF MCInit
<1>2. I /\ [MCNext]_mcVars => I'
  <2> SUFFICES ASSUME I, [MCNext]_mcVars PROVE I'
    OBVIOUS
  <2>1. calm' = calm
    BY DEF MCNext, mcVars
  <2>2. [Next]_vars
    BY ChunkTypes DEF MCNext, mcVars, Next, Arrivals, Sent
  <2>3. CASE ~calm
    BY <2>1, <2>2, <2>3, TypesStay
  <2>4. CASE calm
    <3>1. [CalmNext]_vars
      BY <2>4 DEF MCNext, mcVars, CalmNext, Arrivals, Sent
    <3>2. QED
      BY <2>1, <2>2, <2>4, <3>1, TypesStay, CalmKept, CalmConcludes
  <2>5. QED
    BY <2>3, <2>4
<1>3. I => SyncInv
  BY CalmEnds, TypesTyped DEF SyncInv, NeverHangsCalmly
<1>4. QED
  BY <1>1, <1>2, <1>3, PTL DEF MCSpec

=============================================================================
