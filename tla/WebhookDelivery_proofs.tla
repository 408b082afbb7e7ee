----------------------- MODULE WebhookDelivery_proofs -----------------------
(***************************************************************************)
(* Proofs about webhook deliveries for any hooks, any finite set of jobs   *)
(* and all limits: the counter of jobs is right, no hook fails much more   *)
(* often than it may, and no event comes twice without a cause.            *)
(* The last part is about the events that go to browsers (WsServer).       *)
(***************************************************************************)
EXTENDS WebhookDelivery, WsServer, FiniteSetTheorems, TLAPS

Fixed == {"unsent", "emptied", "done"}    \* places of jobs that are not live
OnHook == {"posting", "ok", "bad"}        \* a hook is called and not yet judged

\* What a place says of a job: attempts are left until the last one has failed,
\* the hooks to serve are those of an active job without the one it serves.
PlaceInv ==
    \A j \in Job :
        /\ at[j] \in {"unsent", "counted"} \cup Waits \cup Active => tries[j] < Attempts
        /\ at[j] \in OnHook \cup {"logging"} => now[j] \in Hook
        /\ at[j] \notin Active => todo[j] = {}
        /\ at[j] \in OnHook => now[j] \notin todo[j]

\* Active jobs, and those of them that may yet count a failure of h.
Running    == {j \in Job : at[j] \in Active}
Serving(h) == {j \in Running : h \in todo[j] \/ (now[j] = h /\ at[j] \in OnHook)}

\* Every failure that is still to be counted has its worker.
LoadInv ==
    /\ Cardinality(Running) <= Workers
    /\ \A h \in Hook : hook[h].fails + Cardinality(Serving(h)) <= MaxFailures + Workers - 1

\* What a job that ran once has still to post, it has not posted yet.
OnceInv ==
    \A j \in Job, h \in Hook : j \notin again =>
        /\ got[j][h] <= 1
        /\ \/ at[j] \in {"unsent", "counted"} \cup Waits
           \/ h \in todo[j]
           \/ now[j] = h /\ at[j] = "posting"
           => got[j][h] = 0

TypePlace == TypeOK /\ PlaceInv

-----------------------------------------------------------------------------
LEMMA InitTypes == Init => TypePlace
<1> SUFFICES ASSUME Init PROVE TypePlace
  OBVIOUS
<1>1. TypeOK
  <2>1. hook \in [Hook -> [state : {"on", "off", "gone"}, fails : Nat]]
    BY DEF Init
  <2>2. /\ at \in [Job -> Place] /\ todo \in [Job -> SUBSET Hook]
        /\ now \in [Job -> Hook \cup {NoHook}] /\ tries \in [Job -> 0..Attempts]
    BY DeliveryTypes DEF Init, Place
  <2>3. got \in [Job -> [Hook -> Nat]]
    BY DEF Init
  <2>4. count \in Int /\ again \in SUBSET Job
    BY DEF Init
  <2>5. drift \in BOOLEAN
    BY Zenon DEF Init
  <2>6. QED
    BY <2>1, <2>2, <2>3, <2>4, <2>5 DEF TypeOK
<1>2. PlaceInv
  BY DeliveryTypes DEF Init, PlaceInv, Active, OnHook
<1>3. QED
  BY <1>1, <1>2 DEF TypePlace

LEMMA NextTypes == TypePlace /\ [Next]_vars => TypePlace'
<1> SUFFICES ASSUME TypePlace, [Next]_vars PROVE TypePlace'
  OBVIOUS
<1> USE DeliveryTypes
    DEF TypePlace, TypeOK, PlaceInv, Place, Active, Waits, Ended, OnHook, Goto, work
<1>1. ASSUME NEW j \in Job, Increment(j) PROVE TypePlace'
  BY <1>1 DEF Increment
<1>2. ASSUME NEW j \in Job, Add(j) PROVE TypePlace'
  BY <1>2 DEF Add
<1>3. ASSUME NEW j \in Job, Start(j) PROVE TypePlace'
  BY <1>3 DEF Start, Deliverable
<1>4. ASSUME NEW j \in Job, NEW h \in Hook, Pick(j, h) PROVE TypePlace'
  BY <1>4 DEF Pick
<1>5. ASSUME NEW j \in Job, NEW reaches \in BOOLEAN, NEW result \in {"ok", "bad"},
             Post(j, reaches, result)
      PROVE TypePlace'
  BY <1>5 DEF Post
<1>6. ASSUME NEW j \in Job, Succeeded(j) PROVE TypePlace'
  BY <1>6 DEF Succeeded, CountFailures
<1>7. ASSUME NEW j \in Job, Failed(j) PROVE TypePlace'
  BY <1>7 DEF Failed, CountFailures
<1>8. ASSUME NEW j \in Job, Log(j) PROVE TypePlace'
  BY <1>8 DEF Log
<1>9. ASSUME NEW j \in Job, Throws(j), at[j] \in Active PROVE TypePlace'
  BY <1>9 DEF Throws
<1>10. ASSUME NEW j \in Job, Complete(j) PROVE TypePlace'
  BY <1>10 DEF Complete
<1>11. ASSUME NEW j \in Job, Decrement(j) PROVE TypePlace'
  BY <1>11 DEF Decrement
<1>12. ASSUME NEW j \in Job, DeleteCount(j) PROVE TypePlace'
  BY <1>12 DEF DeleteCount
<1>13. ASSUME NEW j \in Job, IncrementFails(j) \/ AddFails(j) \/ ResetFails(j) \/ DecrementFails(j)
       PROVE TypePlace'
  BY <1>13, ZenonT(60) DEF IncrementFails, AddFails, ResetFails, DecrementFails
<1>14. CASE Crash
  BY <1>14 DEF Crash
<1>15. CASE Expire
  BY <1>15 DEF Expire
<1>16. ASSUME NEW h \in Hook, NEW state \in {"on", "off"}, Update(h, state) PROVE TypePlace'
  BY <1>16 DEF Update
<1>17. ASSUME NEW h \in Hook, Delete(h) PROVE TypePlace'
  BY <1>17 DEF Delete
<1>18. CASE UNCHANGED vars
  BY <1>18 DEF vars
<1>19. QED
  BY <1>1, <1>2, <1>3, <1>4, <1>5, <1>6, <1>7, <1>8, <1>9, <1>10, <1>11, <1>12, <1>13, <1>14,
     <1>15, <1>16, <1>17, <1>18
  DEF Next, Steps, Faults, Admin, LogFails, DatabaseFails

\* The range of each variable (webhook.worker.ts, event-bus.ts 399-507).
THEOREM DeliveryTypesHold == Spec => []TypeOK
<1>1. TypePlace => TypeOK
  BY DEF TypePlace
<1>2. QED
  BY <1>1, InitTypes, NextTypes, PTL DEF Spec

-----------------------------------------------------------------------------
(* The counter.  Live is a finite set; a step adds one job to it or takes   *)
(* one off, or leaves it alone.                                             *)

LEMMA LiveFinite == IsFiniteSet(Live) /\ Cardinality(Live) \in Nat
BY DeliveryTypes, FS_Subset, FS_CardinalityType DEF Live

\* A job that moves to `place`.
LEMMA LiveGoto ==
    ASSUME TypePlace, NEW j \in Job, NEW place \in Place, Goto(j, place)
    PROVE  /\ j \in Live /\ place \notin Fixed => Live' = Live
           /\ j \notin Live /\ place \in Fixed => Live' = Live
           /\ j \in Live /\ place \in Fixed => Cardinality(Live') = Cardinality(Live) - 1
           /\ j \notin Live /\ place \notin Fixed => Cardinality(Live') = Cardinality(Live) + 1
<1> USE DEF Goto, TypePlace, TypeOK, Live, Fixed
<1>1. place \in Fixed => Live' = Live \ {j}
  OBVIOUS
<1>2. place \notin Fixed => Live' = Live \cup {j}
  OBVIOUS
<1> HIDE DEF Goto, TypePlace, TypeOK, Live, Fixed
<1>3. (j \in Live => Live \cup {j} = Live) /\ (j \notin Live => Live \ {j} = Live)
  OBVIOUS
<1>4. Cardinality(Live \ {j}) = IF j \in Live THEN Cardinality(Live) - 1 ELSE Cardinality(Live)
  BY LiveFinite, FS_RemoveElement
<1>5. Cardinality(Live \cup {j}) = IF j \in Live THEN Cardinality(Live) ELSE Cardinality(Live) + 1
  BY LiveFinite, FS_AddElement
<1>6. QED
  BY <1>1, <1>2, <1>3, <1>4, <1>5

LEMMA InitCount == Init => CountIsLive
<1> SUFFICES ASSUME Init PROVE CountIsLive
  OBVIOUS
<1>1. Live = {}
  BY DEF Init, Live
<1>2. QED
  BY <1>1, FS_EmptySet DEF Init, CountIsLive

LEMMA NextCount == TypePlace /\ CountIsLive /\ [Next]_vars => CountIsLive'
<1> SUFFICES ASSUME TypePlace, CountIsLive, [Next]_vars PROVE CountIsLive'
  OBVIOUS
<1> USE DEF CountIsLive
\* What neither counts nor ends a job.
<1>1. ASSUME NEW j \in Job, NEW place \in Place \ Fixed, j \in Live, Goto(j, place),
             UNCHANGED <<count, drift>>
      PROVE CountIsLive'
  BY <1>1, LiveGoto
<1>2. ASSUME UNCHANGED <<at, count, drift>> PROVE CountIsLive'
  BY <1>2 DEF Live
<1> USE DEF Place, Waits, Active, Ended, Fixed
<1>3. ASSUME NEW j \in Job, Increment(j) PROVE CountIsLive'
  <2>1. j \notin Live /\ Goto(j, "counted") /\ count' = count + 1 /\ drift' = drift
    BY <1>3 DEF Increment, Live
  <2>2. QED
    BY <2>1, LiveGoto, LiveFinite
<1>4. ASSUME NEW j \in Job, Decrement(j) PROVE CountIsLive'
  <2>1. j \in Live /\ count' = count - 1 /\ drift' = drift
    BY <1>4 DEF Decrement, Live
  <2>2. PICK place \in {"emptied", "done"} : Goto(j, place)
    BY <1>4 DEF Decrement
  <2>3. QED
    BY <2>1, <2>2, LiveGoto, LiveFinite
<1>5. ASSUME NEW j \in Job, DeleteCount(j) PROVE CountIsLive'
  <2>1. j \notin Live /\ Goto(j, "done") /\ count' = 0 /\ drift' = (drift \/ count # 0)
    BY <1>5 DEF DeleteCount, Live
  <2>2. Live' = Live
    BY <2>1, LiveGoto
  <2>3. QED
    BY <2>1, <2>2
<1>6. ASSUME NEW j \in Job, Start(j) \/ Succeeded(j) \/ Failed(j) \/ Log(j) \/ Complete(j)
                            \/ Add(j) \/ ResetFails(j)
      PROVE CountIsLive'
  <2>1. PICK place \in Place \ Fixed : Goto(j, place)
    BY <1>6 DEF Start, Succeeded, Failed, Log, Complete, Add, ResetFails
  <2>2. j \in Live /\ UNCHANGED <<count, drift>>
    BY <1>6 DEF Start, Succeeded, Failed, Log, Complete, Add, ResetFails, work, Live
  <2>3. QED
    BY <2>1, <2>2, <1>1
<1>7. ASSUME NEW j \in Job, NEW h \in Hook, Pick(j, h) PROVE CountIsLive'
  <2>1. j \in Live /\ Goto(j, "posting") /\ UNCHANGED <<count, drift>>
    BY <1>7 DEF Pick, Live
  <2>2. QED
    BY <2>1, <1>1
<1>8. ASSUME NEW j \in Job, NEW reaches \in BOOLEAN, NEW result \in {"ok", "bad"},
             Post(j, reaches, result)
      PROVE CountIsLive'
  <2>1. j \in Live /\ Goto(j, result) /\ UNCHANGED <<count, drift>>
    BY <1>8 DEF Post, Live
  <2>2. QED
    BY <2>1, <1>1
<1>9. ASSUME NEW j \in Job, Throws(j), at[j] \in Active PROVE CountIsLive'
  <2>1. PICK place \in {"delayed", "failed"} : Goto(j, place)
    BY <1>9 DEF Throws
  <2>2. j \in Live /\ UNCHANGED <<count, drift>>
    BY <1>9 DEF Throws, Live
  <2>3. QED
    BY <2>1, <2>2, <1>1
<1>10. ASSUME NEW j \in Job, IncrementFails(j) \/ AddFails(j) \/ DecrementFails(j)
       PROVE CountIsLive'
  BY <1>10 DEF IncrementFails, AddFails, DecrementFails
<1>11. CASE Crash
  <2>1. CASE \E j \in Job : at[j] \in Ended \cup {"emptied"}
    BY <1>11, <2>1 DEF Crash
  <2>2. CASE ~ \E j \in Job : at[j] \in Ended \cup {"emptied"}
    <3>1. Live' = Live
      BY <1>11, <2>2 DEF Crash, Live, TypePlace, TypeOK
    <3>2. QED
      BY <1>11, <2>2, <3>1 DEF Crash
  <2>3. QED
    BY <2>1, <2>2
<1>12. CASE Expire
  BY <1>12 DEF Expire
<1>13. ASSUME NEW h \in Hook, NEW state \in {"on", "off"}, Update(h, state) \/ Delete(h)
       PROVE CountIsLive'
  BY <1>13, <1>2 DEF Update, Delete
<1>14. CASE UNCHANGED vars
  BY <1>14, <1>2 DEF vars
<1>15. QED
  BY <1>3, <1>4, <1>5, <1>6, <1>7, <1>8, <1>9, <1>10, <1>11, <1>12, <1>13, <1>14
  DEF Next, Steps, Faults, Admin, LogFails, DatabaseFails

\* The counter of active jobs is the number of live jobs, as long as nothing
\* has failed, died or expired (event-bus.ts 481-507).
THEOREM DeliveryInvHolds == Spec => []DeliveryInv
<1>1. TypePlace /\ CountIsLive => DeliveryInv
  BY DEF TypePlace, DeliveryInv
<1>2. QED
  BY <1>1, InitTypes, NextTypes, InitCount, NextCount, PTL DEF Spec

-----------------------------------------------------------------------------
(* Failures of a hook.  A job that starts serves a hook that may still      *)
(* fail, and at most Workers - 1 others run; a failure that is counted has  *)
(* one job less to come.                                                    *)

LEMMA SetsFinite ==
    ASSUME NEW h
    PROVE  /\ IsFiniteSet(Running) /\ Cardinality(Running) \in Nat
           /\ IsFiniteSet(Serving(h)) /\ Cardinality(Serving(h)) \in Nat
           /\ Cardinality(Serving(h)) <= Cardinality(Running)
<1>1. IsFiniteSet(Running) /\ Running \subseteq Job
  BY DeliveryTypes, FS_Subset DEF Running
<1>2. Serving(h) \subseteq Running
  BY DEF Serving
<1>3. QED
  BY <1>1, <1>2, FS_Subset, FS_CardinalityType

\* No job starts, and no hook gains failures or jobs to come: or is set to 0.
LEMMA LoadShrinks ==
    ASSUME TypePlace, LoadInv, TypePlace', Running' \subseteq Running,
           \A h \in Hook : \/ hook'[h].fails = 0
                           \/ hook'[h].fails <= hook[h].fails /\ Serving(h)' \subseteq Serving(h)
    PROVE  LoadInv'
<1>1. Cardinality(Running') <= Cardinality(Running) /\ Cardinality(Running') \in Nat
  BY SetsFinite, FS_Subset, FS_CardinalityType
<1>2. ASSUME NEW h \in Hook
      PROVE  hook'[h].fails + Cardinality(Serving(h)') <= MaxFailures + Workers - 1
  <2>1. Serving(h)' \subseteq Running'
    BY DEF Serving
  <2>2. /\ IsFiniteSet(Running') /\ IsFiniteSet(Serving(h)')
        /\ Cardinality(Serving(h)') <= Cardinality(Running')
    BY <2>1, SetsFinite, FS_Subset
  <2>3. Cardinality(Serving(h)') \in Nat
    BY <2>2, FS_CardinalityType
  <2>4. hook'[h].fails \in Nat /\ hook[h].fails \in Nat
    BY DEF TypePlace, TypeOK
  <2>5. CASE hook'[h].fails = 0
    BY <1>1, <2>2, <2>3, <2>5, SetsFinite, DeliveryTypes DEF LoadInv
  <2>6. CASE hook'[h].fails <= hook[h].fails /\ Serving(h)' \subseteq Serving(h)
    <3>1. Cardinality(Serving(h)') <= Cardinality(Serving(h))
      BY <2>6, SetsFinite, FS_Subset
    <3>2. QED
      BY <2>3, <2>4, <2>6, <3>1, SetsFinite, DeliveryTypes DEF LoadInv
  <2>7. QED
    BY <2>5, <2>6
<1>3. QED
  BY <1>1, <1>2, SetsFinite, DeliveryTypes DEF LoadInv

LEMMA InitLoad == Init => LoadInv
<1> SUFFICES ASSUME Init PROVE LoadInv
  OBVIOUS
<1>1. Running = {} /\ \A h \in Hook : Serving(h) = {}
  BY DEF Init, Running, Serving, Active
<1>2. Cardinality(Running) = 0 /\ \A h \in Hook : Cardinality(Serving(h)) = 0
  BY <1>1, FS_EmptySet
<1>3. \A h \in Hook : hook[h].fails = 0
  BY DEF Init
<1>4. QED
  BY <1>2, <1>3, DeliveryTypes DEF LoadInv

LEMMA NextLoad == TypePlace /\ LoadInv /\ [Next]_vars => LoadInv'
<1> SUFFICES ASSUME TypePlace, LoadInv, [Next]_vars PROVE LoadInv'
  OBVIOUS
<1>1. TypePlace'
  BY NextTypes
<1> USE DEF TypePlace, TypeOK, PlaceInv, Active, Waits, Ended, OnHook
\* Steps of one job that is not starting and counts no failure.
<1>2. ASSUME NEW j \in Job, NEW place \in Place, Goto(j, place),
             place \in Active => at[j] \in Active,
             place \in OnHook => at[j] \in OnHook,
             UNCHANGED <<hook, todo, now>>
      PROVE LoadInv'
  <2>1. Running' \subseteq Running
    BY <1>2 DEF Goto, Running
  <2>2. \A h \in Hook : Serving(h)' \subseteq Serving(h)
    BY <1>2, <2>1 DEF Goto, Running, Serving
  <2>3. \A h \in Hook : hook'[h].fails <= hook[h].fails
    BY <1>2
  <2>4. QED
    BY <1>1, <2>1, <2>2, <2>3, LoadShrinks
<1>3. ASSUME NEW j \in Job, \/ Increment(j) \/ Add(j) \/ Log(j) \/ Complete(j) \/ Decrement(j)
                            \/ DeleteCount(j) \/ IncrementFails(j) \/ AddFails(j)
                            \/ ResetFails(j) \/ DecrementFails(j)
      PROVE LoadInv'
  <2>1. CASE Log(j)
    <3>1. Running' \subseteq Running /\ \A h \in Hook : Serving(h)' \subseteq Serving(h)
      BY <2>1 DEF Log, Goto, Running, Serving
    <3>2. \A h \in Hook : hook'[h].fails <= hook[h].fails
      BY <2>1 DEF Log
    <3>3. QED
      BY <1>1, <3>1, <3>2, LoadShrinks
  <2>2. CASE ~Log(j)
    <3>1. PICK place \in Place : /\ Goto(j, place)
                                 /\ place \in Active => at[j] \in Active
                                 /\ place \in OnHook => at[j] \in OnHook
      BY <1>3, <2>2 DEF Increment, Add, Complete, Decrement, DeleteCount, IncrementFails,
                        AddFails, ResetFails, DecrementFails, Place
    <3>2. UNCHANGED <<hook, todo, now>>
      BY <1>3, <2>2 DEF Increment, Add, Complete, Decrement, DeleteCount, IncrementFails,
                        AddFails, ResetFails, DecrementFails, work
    <3>3. QED
      BY <3>1, <3>2, <1>2
  <2>3. QED
    BY <2>1, <2>2
<1>4. ASSUME NEW j \in Job, Start(j) PROVE LoadInv'
  <2>1. Running' = Running \cup {j}
    BY <1>4 DEF Start, Goto, Running
  <2>2. Cardinality(Running) < Workers /\ Cardinality(Running) \in Nat
    BY <1>4, SetsFinite DEF Start, Running
  <2>3. /\ Cardinality(Running') <= Cardinality(Running) + 1
        /\ IsFiniteSet(Running') /\ Cardinality(Running') \in Nat
    <3>1. /\ IsFiniteSet(Running \cup {j})
          /\ Cardinality(Running \cup {j}) = IF j \in Running THEN Cardinality(Running)
                                             ELSE Cardinality(Running) + 1
      BY SetsFinite, FS_AddElement
    <3>2. Cardinality(Running') = Cardinality(Running \cup {j})
      BY <2>1, Zenon
    <3>3. IsFiniteSet(Running') /\ Cardinality(Running) \in Nat
      BY <2>1, <3>1, SetsFinite, Zenon
    <3>4. QED
      BY <3>1, <3>2, <3>3
  <2>4. ASSUME NEW h \in Hook
        PROVE  hook'[h].fails + Cardinality(Serving(h)') <= MaxFailures + Workers - 1
    <3>1. hook' = hook
      BY <1>4 DEF Start
    <3>2. CASE h \in Deliverable
      <4>1. Serving(h)' \subseteq Running'
        BY DEF Serving
      <4>2. IsFiniteSet(Serving(h)') /\ Cardinality(Serving(h)') <= Cardinality(Running')
        BY <2>3, <4>1, FS_Subset
      <4>3. Cardinality(Serving(h)') \in Nat
        BY <4>2, FS_CardinalityType
      <4>4. hook[h].fails < MaxFailures /\ hook[h].fails \in Nat
        BY <3>2 DEF Deliverable
      <4>5. QED
        <5>1. Cardinality(Serving(h)') <= Workers
          BY <2>2, <2>3, <4>2, <4>3, DeliveryTypes
        <5>2. QED
          BY <3>1, <4>3, <4>4, <5>1, DeliveryTypes
    <3>3. CASE h \notin Deliverable
      <4>1. Serving(h)' = Serving(h)
        BY <1>4, <3>3 DEF Start, Goto, Running, Serving
      <4>2. QED
        BY <3>1, <4>1 DEF LoadInv
    <3>4. QED
      BY <3>2, <3>3
  <2>5. Cardinality(Running') <= Workers
    BY <2>2, <2>3, DeliveryTypes
  <2>6. QED
    BY <2>4, <2>5 DEF LoadInv
<1>5. ASSUME NEW j \in Job, NEW h \in Hook, Pick(j, h) PROVE LoadInv'
  <2>1. Running' \subseteq Running /\ \A g \in Hook : Serving(g)' \subseteq Serving(g)
    BY <1>5 DEF Pick, Goto, Running, Serving
  <2>2. \A g \in Hook : hook'[g].fails <= hook[g].fails
    BY <1>5 DEF Pick
  <2>3. QED
    BY <1>1, <2>1, <2>2, LoadShrinks
<1>6. ASSUME NEW j \in Job, NEW reaches \in BOOLEAN, NEW result \in {"ok", "bad"},
             Post(j, reaches, result)
      PROVE LoadInv'
  BY <1>6, <1>2 DEF Post, Place
<1>7. ASSUME NEW j \in Job, Succeeded(j) PROVE LoadInv'
  <2>1. Running' \subseteq Running /\ \A h \in Hook : Serving(h)' \subseteq Serving(h)
    BY <1>7 DEF Succeeded, Goto, work, Running, Serving
  <2>2. \A h \in Hook : hook'[h].fails <= hook[h].fails
    BY <1>7 DEF Succeeded, CountFailures
  <2>3. QED
    BY <1>1, <2>1, <2>2, LoadShrinks
<1>8. ASSUME NEW j \in Job, Failed(j) PROVE LoadInv'
  <2>1. Running' = Running
    BY <1>8 DEF Failed, Goto, work, Running
  <2>2. now[j] \in Hook /\ now[j] \notin todo[j] /\ j \in Serving(now[j])
    BY <1>8 DEF Failed, Running, Serving
  <2>3. \A h \in Hook : Serving(h)' = IF h = now[j] THEN Serving(h) \ {j} ELSE Serving(h)
    BY <1>8, <2>2 DEF Failed, Goto, work, Running, Serving
  <2>4. \A h \in Hook : hook'[h].fails = hook[h].fails \/ (h = now[j] /\ hook'[h].fails = hook[h].fails + 1)
    BY <1>8, <2>2 DEF Failed, CountFailures
  <2>5. ASSUME NEW h \in Hook
        PROVE  hook'[h].fails + Cardinality(Serving(h)') <= MaxFailures + Workers - 1
    <3>1. CASE h = now[j]
      <4>1. Cardinality(Serving(h)') = Cardinality(Serving(h)) - 1
        <5>1. Serving(h)' = Serving(h) \ {j} /\ j \in Serving(h)
          BY <2>2, <2>3, <3>1
        <5>2. QED
          BY <5>1, SetsFinite, FS_RemoveElement
      <4>2. QED
        BY <2>4, <4>1, SetsFinite, DeliveryTypes DEF LoadInv
    <3>2. CASE h # now[j]
      BY <2>3, <2>4, <3>2 DEF LoadInv
    <3>3. QED
      BY <3>1, <3>2
  <2>6. QED
    BY <2>1, <2>5 DEF LoadInv
<1>9. ASSUME NEW j \in Job, Throws(j), at[j] \in Active PROVE LoadInv'
  <2>1. Running' \subseteq Running /\ \A h \in Hook : Serving(h)' \subseteq Serving(h)
    BY <1>9 DEF Throws, Goto, Running, Serving
  <2>2. \A h \in Hook : hook'[h].fails <= hook[h].fails
    BY <1>9 DEF Throws
  <2>3. QED
    BY <1>1, <2>1, <2>2, LoadShrinks
<1>10. CASE Crash
  <2>1. Running' \subseteq Running /\ \A h \in Hook : Serving(h)' \subseteq Serving(h)
    BY <1>10 DEF Crash, Running, Serving
  <2>2. \A h \in Hook : hook'[h].fails <= hook[h].fails
    BY <1>10 DEF Crash
  <2>3. QED
    BY <1>1, <2>1, <2>2, LoadShrinks
<1>11. ASSUME UNCHANGED <<at, todo, now>>,
              \A h \in Hook : hook'[h].fails = 0 \/ hook'[h].fails = hook[h].fails
       PROVE LoadInv'
  <2>1. Running' \subseteq Running /\ \A h \in Hook : Serving(h)' \subseteq Serving(h)
    BY <1>11 DEF Running, Serving
  <2>2. QED
    BY <1>1, <1>11, <2>1, LoadShrinks
<1>12. CASE Expire \/ UNCHANGED vars
  BY <1>11, <1>12 DEF Expire, work, vars
<1>13. ASSUME NEW h \in Hook, NEW state \in {"on", "off"}, Update(h, state) PROVE LoadInv'
  <2>1. \A g \in Hook : hook'[g].fails = 0 \/ hook'[g].fails = hook[g].fails
    BY <1>13 DEF Update
  <2>2. QED
    BY <1>11, <1>13, <2>1 DEF Update, work
<1>14. ASSUME NEW h \in Hook, Delete(h) PROVE LoadInv'
  <2>1. \A g \in Hook : hook'[g].fails = 0 \/ hook'[g].fails = hook[g].fails
    BY <1>14 DEF Delete
  <2>2. QED
    BY <1>11, <1>14, <2>1 DEF Delete, work
<1>15. QED
  BY <1>3, <1>4, <1>5, <1>6, <1>7, <1>8, <1>9, <1>10, <1>12, <1>13, <1>14
  DEF Next, Steps, Faults, Admin, LogFails, DatabaseFails

\* A hook never fails more often than it may, but for the deliveries that were
\* under way (MAX_FAILURE_COUNT, webhook.worker.ts 22 and 99-133).
THEOREM FailuresAreBounded == Spec => []FailuresBounded
<1>1. TypePlace /\ LoadInv => FailuresBounded
  BY SetsFinite, DeliveryTypes DEF LoadInv, FailuresBounded, TypePlace, TypeOK
<1>2. QED
  BY <1>1, InitTypes, NextTypes, InitLoad, NextLoad, PTL DEF Spec

-----------------------------------------------------------------------------
LEMMA InitOnce == Init => OnceInv
BY DEF Init, OnceInv

LEMMA NextOnce == TypePlace /\ OnceInv /\ [Next]_vars => OnceInv'
<1> SUFFICES ASSUME TypePlace, OnceInv, [Next]_vars PROVE OnceInv'
  OBVIOUS
<1> USE DEF TypePlace, TypeOK, PlaceInv, OnceInv, Active, Waits, Ended, OnHook, Goto, work
<1>1. ASSUME NEW j \in Job, \/ Increment(j) \/ Add(j) \/ Log(j) \/ Complete(j) \/ Decrement(j)
                            \/ DeleteCount(j) \/ IncrementFails(j) \/ AddFails(j)
                            \/ ResetFails(j) \/ DecrementFails(j)
      PROVE OnceInv'
  BY <1>1 DEF Increment, Add, Log, Complete, Decrement, DeleteCount, IncrementFails, AddFails,
              ResetFails, DecrementFails
<1>2. ASSUME NEW j \in Job, Start(j) PROVE OnceInv'
  BY <1>2 DEF Start
<1>3. ASSUME NEW j \in Job, NEW h \in Hook, Pick(j, h) PROVE OnceInv'
  BY <1>3 DEF Pick
<1>4. ASSUME NEW j \in Job, NEW reaches \in BOOLEAN, NEW result \in {"ok", "bad"},
             Post(j, reaches, result)
      PROVE OnceInv'
  BY <1>4 DEF Post
<1>5. ASSUME NEW j \in Job, Succeeded(j) \/ Failed(j) PROVE OnceInv'
  BY <1>5 DEF Succeeded, Failed
<1>6. ASSUME NEW j \in Job, Throws(j), at[j] \in Active PROVE OnceInv'
  BY <1>6 DEF Throws
<1>7. CASE Crash
  BY <1>7 DEF Crash
<1>8. CASE UNCHANGED <<at, work>>
  BY <1>8
<1>9. ASSUME Expire \/ Admin \/ UNCHANGED vars PROVE OnceInv'
  BY <1>8, <1>9 DEF Expire, Admin, Update, Delete, vars
<1>10. QED
  BY <1>1, <1>2, <1>3, <1>4, <1>5, <1>6, <1>7, <1>9
  DEF Next, Steps, Faults, LogFails, DatabaseFails

\* No hook gets an event twice unless its job ran again (webhook.worker.ts 47-61).
THEOREM DuplicatesHaveCause == Spec => []DuplicateHasCause
<1>1. TypePlace /\ OnceInv => DuplicateHasCause
  BY DEF OnceInv, DuplicateHasCause, TypePlace, TypeOK
<1>2. QED
  BY <1>1, InitTypes, NextTypes, InitOnce, NextOnce, PTL DEF Spec

-----------------------------------------------------------------------------
(***************************************************************************)
(* The other way out, to browsers: proofs about WsServer, for any clients, *)
(* chats and streams, ages of cache entries and durations of lookups.      *)
(***************************************************************************)

\* Ranges.  The reader is never ahead of its answer, nor an answer of the stream.
ReadTypes ==
    /\ log \in [Stream -> Seq(Chat \cup {NoChat})]
    /\ reader \in {"call", "wait", "read"}
    /\ last \in [Stream -> Int] /\ from \in [Stream -> Nat] /\ upto \in [Stream -> Nat]
    /\ \A s \in Stream : /\ last[s] \in -1..Len(log[s])
                         /\ from[s] <= upto[s] /\ upto[s] <= Len(log[s])

CastRecord == [to : {"none", "org", "session", "chat"}, stream : Stream \cup {NoOne},
               number : Nat, chat : Chat \cup {NoChat}, visited : SUBSET Client]

CastTypes == cast \in [Caster -> CastRecord]

CheckRecord == [who : Client \cup {NoOne}, step : {"none", "org", "access", "assignee"},
                phase : {"cache", "ask", "reply"}, value : Value, age : 0..Lag]

\* The check k of a broadcast x: only lookups have phases and age, none is for an
\* administrator, and the assignee is looked up for a chat.
CheckOf(k, x) ==
    /\ k.step = "none" => k = Free
    /\ k.step # "none" => k.who \in Client /\ x.to # "none"
    /\ k.phase # "cache" => k.step \in {"access", "assignee"}
    /\ k.phase = "cache" => k.age = 0
    /\ k.step \in {"access", "assignee"} => k.who \notin Admins
    /\ k.step = "assignee" => x.chat \in Chat

CheckTypes == check \in [Caster -> CheckRecord] /\ \A b \in Caster : CheckOf(check[b], cast[b])

SocketTypes == open \subseteq Client /\ alive \subseteq open /\ subs \in [Client -> SUBSET Topic]

TruthTypes ==
    /\ access \subseteq Client /\ assignee \in [Chat -> Client \cup {NoOne}]
    /\ deleted \subseteq Chat

CacheTypes == /\ cache \in [Key -> [value : Value, age : 0..Ttl]]
              /\ pending \subseteq Key /\ raced \subseteq Key

HistoryTypes ==
    /\ sent \in [Caster -> Client \cup {NoOne}] /\ owed \subseteq Client /\ crashes \in BOOLEAN

OffTypes ==
    /\ DOMAIN off = Client
    /\ \A c \in Client : off[c] \in [{c} \cup Chat -> 0..Cap]

Types == /\ ReadTypes /\ CastTypes /\ CheckTypes /\ SocketTypes /\ TruthTypes
         /\ CacheTypes /\ HistoryTypes /\ OffTypes

\* Keys whose value a route is changing, or invalidated while somebody looked it up.
Doubted == pending \cup raced

\* Of any other key (but a deleted chat) a cache entry that serves is the truth; so is
\* a value in hand; and who was let through to the assignee has access.
CacheExact == \A k \in Key \ (Doubted \cup deleted) : Serves(k) => cache[k].value = Truth(k)

HandExact ==
    \A b \in Caster :
        check[b].phase = "reply" /\ LookupKey(b) \notin Doubted \cup deleted
            => check[b].value = Truth(LookupKey(b))

AccessExact == \A b \in Caster : check[b].step = "assignee" => check[b].who \in access \cup Doubted

ExactInv == CacheExact /\ HandExact /\ AccessExact

\* To whom the entry in hand is owed is connected, has the right, which nobody has in
\* doubt, and is still to be visited or being checked.
OwedInv ==
    /\ cast["reader"].to # "org" => owed = {}
    /\ \A c \in owed : /\ c \in open
                       /\ c \notin cast["reader"].visited \/ c = check["reader"].who
                       /\ Right(c, cast["reader"].chat) /\ ~Doubtful(c, cast["reader"].chat)
                       /\ cast["reader"].chat \notin deleted

\* A client has lost no right that it has; one that the cache or a value in hand still
\* grants was lost no earlier than that was asked for; and access that let a check
\* through to the assignee no earlier than an entry or a lookup before it accounts for.
TruthOff == \A c \in Client \ Admins : \A k \in {c} \cup Chat : Allowing(c, k) => off[c][k] = 0

CacheOff ==
    \A c \in Client \ Admins : \A k \in {c} \cup Chat :
        Serves(k) /\ Allows(k, cache[k].value, c) => off[c][k] <= cache[k].age

HandOff ==
    \A b \in Caster, c \in Client \ Admins :
        check[b].phase = "reply" /\ LookupKey(b) \in {c} \cup Chat
                /\ Allows(LookupKey(b), check[b].value, c)
            => off[c][LookupKey(b)] <= check[b].age

AccessOff ==
    \A b \in Caster, c \in Client \ Admins :
        check[b].step = "assignee" /\ check[b].who = c
            => off[c][c] <= Greatest(Ttl - 1, Lag) + check[b].age

OffInv == TruthOff /\ CacheOff /\ HandOff /\ AccessOff

-----------------------------------------------------------------------------
(* What a step may change.                                                 *)

LEMMA ReadSteps ==
    [WsNext]_wsVars =>
        \/ Call
        \/ BatchEnds
        \/ CallEnds
        \/ \E s \in Stream : Take(s)
        \/ \E s \in Stream, h \in Chat \cup {NoChat} : Append1(s, h)
        \/ ServerDies
        \/ UNCHANGED readVars
<1>. DEFINE Due == \/ Call
                   \/ BatchEnds
                   \/ CallEnds
                   \/ \E s \in Stream : Take(s)
                   \/ \E s \in Stream, h \in Chat \cup {NoChat} : Append1(s, h)
                   \/ ServerDies
                   \/ UNCHANGED readVars
<1>. SUFFICES [WsNext]_wsVars => Due
  OBVIOUS
<1>1. WsSteps => Due
  BY DEF WsSteps, Visit, NextChannel, CheckOrg, Cached, Read, Reply, Invalidate
<1>2. (CallEnds \/ Tick \/ Beat \/ Pongs) => Due
  BY DEF Tick, Beat, Pongs, Pong
<1>3. ((\E s \in Stream : Entries(s)) \/ Notes) => Due
  BY DEF Entries, Publish, DeleteChat, Notes, Notify
<1>4. Routes => Due
  BY DEF Routes, Assign, Permit, Withdraw, Changed
<1>5. Sockets => Due
  BY DEF Sockets, Connect, Disconnect, Subscribe, Unsubscribe
<1>6. (ReadFaults \/ NotifyFails) => Due
  BY DEF ReadFaults, NotifyFails, LookupFails, CheckOrg
<1>7. UNCHANGED wsVars => Due
  BY DEF wsVars
<1>8. QED
  BY <1>1, <1>2, <1>3, <1>4, <1>5, <1>6, <1>7 DEF WsNext

LEMMA CastSteps ==
    [WsNext]_wsVars =>
        \/ \E s \in Stream : Take(s)
        \/ \E h \in Chat : Notify(h)
        \/ \E b \in Caster : NextChannel(b) \/ \E c \in Client : Visit(b, c)
        \/ \E c \in Client : Connect(c)
        \/ ServerDies
        \/ LookupFails
        \/ UNCHANGED cast
<1>. DEFINE Due == \/ \E s \in Stream : Take(s)
                   \/ \E h \in Chat : Notify(h)
                   \/ \E b \in Caster : NextChannel(b) \/ \E c \in Client : Visit(b, c)
                   \/ \E c \in Client : Connect(c)
                   \/ ServerDies
                   \/ LookupFails
                   \/ UNCHANGED cast
<1>. SUFFICES [WsNext]_wsVars => Due
  OBVIOUS
<1>1. WsSteps => Due
  BY DEF WsSteps, Call, BatchEnds, CheckOrg, Cached, Read, Reply, Invalidate, castVars
<1>2. (CallEnds \/ Tick \/ Beat \/ Pongs) => Due
  BY DEF CallEnds, Tick, Beat, Pongs, Pong, castVars
<1>3. ((\E s \in Stream : Entries(s)) \/ Notes) => Due
  BY DEF Entries, Publish, DeleteChat, Append1, Notes, castVars
<1>4. Routes => Due
  BY DEF Routes, Assign, Permit, Withdraw, Changed, castVars
<1>5. Sockets => Due
  BY DEF Sockets, Disconnect, Subscribe, Unsubscribe, castVars
<1>6. (ReadFaults \/ NotifyFails) => Due
  BY DEF ReadFaults, NotifyFails, CheckOrg, castVars
<1>7. UNCHANGED wsVars => Due
  BY DEF wsVars, castVars
<1>8. QED
  BY <1>1, <1>2, <1>3, <1>4, <1>5, <1>6, <1>7 DEF WsNext

LEMMA CheckSteps ==
    [WsNext]_wsVars =>
        \/ \E b \in Caster, c \in Client : Visit(b, c)
        \/ \E b \in Caster : CheckOrg(b, TRUE) \/ CheckOrg(b, FALSE)
        \/ \E b \in Caster : Cached(b) \/ Read(b) \/ Reply(b)
        \/ Tick
        \/ ServerDies
        \/ LookupFails
        \/ UNCHANGED check
<1>. DEFINE Due == \/ \E b \in Caster, c \in Client : Visit(b, c)
                   \/ \E b \in Caster : CheckOrg(b, TRUE) \/ CheckOrg(b, FALSE)
                   \/ \E b \in Caster : Cached(b) \/ Read(b) \/ Reply(b)
                   \/ Tick
                   \/ ServerDies
                   \/ LookupFails
                   \/ UNCHANGED check
<1>. SUFFICES [WsNext]_wsVars => Due
  OBVIOUS
<1>1. WsSteps => Due
  BY DEF WsSteps, Call, BatchEnds, Take, NextChannel, Invalidate, castVars
<1>2. (CallEnds \/ Tick \/ Beat \/ Pongs) => Due
  BY DEF CallEnds, Beat, Pongs, Pong, castVars
<1>3. ((\E s \in Stream : Entries(s)) \/ Notes) => Due
  BY DEF Entries, Publish, DeleteChat, Append1, Notes, Notify, castVars
<1>4. Routes => Due
  BY DEF Routes, Assign, Permit, Withdraw, Changed, castVars
<1>5. Sockets => Due
  BY DEF Sockets, Connect, Disconnect, Subscribe, Unsubscribe, castVars
<1>6. (ReadFaults \/ NotifyFails) => Due
  BY DEF ReadFaults, NotifyFails, castVars
<1>7. UNCHANGED wsVars => Due
  BY DEF wsVars, castVars
<1>8. QED
  BY <1>1, <1>2, <1>3, <1>4, <1>5, <1>6, <1>7 DEF WsNext

LEMMA SocketSteps ==
    [WsNext]_wsVars =>
        \/ \E c \in Client : Connect(c) \/ Disconnect(c) \/ Pong(c)
        \/ \E c \in Client, t \in Topic : Subscribe(c, t) \/ Unsubscribe(c, t)
        \/ Beat
        \/ ServerDies
        \/ UNCHANGED sockVars
<1>. DEFINE Due == \/ \E c \in Client : Connect(c) \/ Disconnect(c) \/ Pong(c)
                   \/ \E c \in Client, t \in Topic : Subscribe(c, t) \/ Unsubscribe(c, t)
                   \/ Beat
                   \/ ServerDies
                   \/ UNCHANGED sockVars
<1>. SUFFICES [WsNext]_wsVars => Due
  OBVIOUS
<1>1. WsSteps => Due
  BY DEF WsSteps, Call, BatchEnds, Take, Visit, NextChannel, CheckOrg, Cached, Read, Reply,
     Invalidate
<1>2. (CallEnds \/ Tick \/ Beat \/ Pongs) => Due
  BY DEF CallEnds, Tick, Pongs
<1>3. ((\E s \in Stream : Entries(s)) \/ Notes) => Due
  BY DEF Entries, Publish, DeleteChat, Append1, Notes, Notify
<1>4. Routes => Due
  BY DEF Routes, Assign, Permit, Withdraw, Changed
<1>5. Sockets => Due
  BY DEF Sockets
<1>6. (ReadFaults \/ NotifyFails) => Due
  BY DEF ReadFaults, NotifyFails, LookupFails, CheckOrg
<1>7. UNCHANGED wsVars => Due
  BY DEF wsVars
<1>8. QED
  BY <1>1, <1>2, <1>3, <1>4, <1>5, <1>6, <1>7 DEF WsNext

LEMMA TruthSteps ==
    [WsNext]_wsVars =>
        \/ \E s \in Stream, h \in Chat : DeleteChat(s, h)
        \/ \E h \in Chat, u \in Client \cup {NoOne} : Assign(h, u)
        \/ \E c \in Client : Permit(c) \/ Withdraw(c)
        \/ UNCHANGED truthVars
<1>. DEFINE Due == \/ \E s \in Stream, h \in Chat : DeleteChat(s, h)
                   \/ \E h \in Chat, u \in Client \cup {NoOne} : Assign(h, u)
                   \/ \E c \in Client : Permit(c) \/ Withdraw(c)
                   \/ UNCHANGED truthVars
<1>. SUFFICES [WsNext]_wsVars => Due
  OBVIOUS
<1>1. WsSteps => Due
  BY DEF WsSteps, Call, BatchEnds, Take, Visit, NextChannel, CheckOrg, Cached, Read, Reply,
     Invalidate
<1>2. (CallEnds \/ Tick \/ Beat \/ Pongs) => Due
  BY DEF CallEnds, Tick, Beat, Pongs, Pong
<1>3. ((\E s \in Stream : Entries(s)) \/ Notes) => Due
  BY DEF Entries, Publish, Append1, Notes, Notify
<1>4. Routes => Due
  BY DEF Routes, Changed
<1>5. Sockets => Due
  BY DEF Sockets, Connect, Disconnect, Subscribe, Unsubscribe
<1>6. (ReadFaults \/ NotifyFails) => Due
  BY DEF ReadFaults, NotifyFails, ServerDies, LookupFails, CheckOrg
<1>7. UNCHANGED wsVars => Due
  BY DEF wsVars
<1>8. QED
  BY <1>1, <1>2, <1>3, <1>4, <1>5, <1>6, <1>7 DEF WsNext

LEMMA CacheSteps ==
    [WsNext]_wsVars =>
        \/ \E b \in Caster : Reply(b)
        \/ \E k \in Key : Invalidate(k)
        \/ Tick
        \/ ServerDies
        \/ UNCHANGED cache
<1>. DEFINE Due == \/ \E b \in Caster : Reply(b)
                   \/ \E k \in Key : Invalidate(k)
                   \/ Tick
                   \/ ServerDies
                   \/ UNCHANGED cache
<1>. SUFFICES [WsNext]_wsVars => Due
  OBVIOUS
<1>1. WsSteps => Due
  BY DEF WsSteps, Call, BatchEnds, Take, Visit, NextChannel, CheckOrg, Cached, Read
<1>2. (CallEnds \/ Tick \/ Beat \/ Pongs) => Due
  BY DEF CallEnds, Beat, Pongs, Pong
<1>3. ((\E s \in Stream : Entries(s)) \/ Notes) => Due
  BY DEF Entries, Publish, DeleteChat, Append1, Notes, Notify
<1>4. Routes => Due
  BY DEF Routes, Assign, Permit, Withdraw, Changed
<1>5. Sockets => Due
  BY DEF Sockets, Connect, Disconnect, Subscribe, Unsubscribe
<1>6. (ReadFaults \/ NotifyFails) => Due
  BY DEF ReadFaults, NotifyFails, LookupFails, CheckOrg
<1>7. UNCHANGED wsVars => Due
  BY DEF wsVars
<1>8. QED
  BY <1>1, <1>2, <1>3, <1>4, <1>5, <1>6, <1>7 DEF WsNext

LEMMA DoubtSteps ==
    [WsNext]_wsVars =>
        \/ \E h \in Chat, u \in Client \cup {NoOne} : Assign(h, u)
        \/ \E c \in Client : Permit(c) \/ Withdraw(c)
        \/ \E k \in Key : Invalidate(k)
        \/ ServerDies
        \/ UNCHANGED <<pending, raced>>
<1>. DEFINE Due == \/ \E h \in Chat, u \in Client \cup {NoOne} : Assign(h, u)
                   \/ \E c \in Client : Permit(c) \/ Withdraw(c)
                   \/ \E k \in Key : Invalidate(k)
                   \/ ServerDies
                   \/ UNCHANGED <<pending, raced>>
<1>. SUFFICES [WsNext]_wsVars => Due
  OBVIOUS
<1>1. WsSteps => Due
  BY DEF WsSteps, Call, BatchEnds, Take, Visit, NextChannel, CheckOrg, Cached, Read, Reply
<1>2. (CallEnds \/ Tick \/ Beat \/ Pongs) => Due
  BY DEF CallEnds, Tick, Beat, Pongs, Pong
<1>3. ((\E s \in Stream : Entries(s)) \/ Notes) => Due
  BY DEF Entries, Publish, DeleteChat, Append1, Notes, Notify
<1>4. Routes => Due
  BY DEF Routes, Changed
<1>5. Sockets => Due
  BY DEF Sockets, Connect, Disconnect, Subscribe, Unsubscribe
<1>6. (ReadFaults \/ NotifyFails) => Due
  BY DEF ReadFaults, NotifyFails, LookupFails, CheckOrg
<1>7. UNCHANGED wsVars => Due
  BY DEF wsVars
<1>8. QED
  BY <1>1, <1>2, <1>3, <1>4, <1>5, <1>6, <1>7 DEF WsNext

LEMMA OffSteps ==
    [WsNext]_wsVars =>
        \/ \E s \in Stream, h \in Chat : DeleteChat(s, h)
        \/ \E h \in Chat, u \in Client \cup {NoOne} : Assign(h, u)
        \/ \E c \in Client : Permit(c)
        \/ Tick
        \/ UNCHANGED off
<1>. DEFINE Due == \/ \E s \in Stream, h \in Chat : DeleteChat(s, h)
                   \/ \E h \in Chat, u \in Client \cup {NoOne} : Assign(h, u)
                   \/ \E c \in Client : Permit(c)
                   \/ Tick
                   \/ UNCHANGED off
<1>. SUFFICES [WsNext]_wsVars => Due
  OBVIOUS
<1>1. WsSteps => Due
  BY DEF WsSteps, Call, BatchEnds, Take, Visit, NextChannel, CheckOrg, Cached, Read, Reply,
     Invalidate
<1>2. (CallEnds \/ Tick \/ Beat \/ Pongs) => Due
  BY DEF CallEnds, Beat, Pongs, Pong
<1>3. ((\E s \in Stream : Entries(s)) \/ Notes) => Due
  BY DEF Entries, Publish, Append1, Notes, Notify
<1>4. Routes => Due
  BY DEF Routes, Withdraw, Changed
<1>5. Sockets => Due
  BY DEF Sockets, Connect, Disconnect, Subscribe, Unsubscribe
<1>6. (ReadFaults \/ NotifyFails) => Due
  BY DEF ReadFaults, NotifyFails, ServerDies, LookupFails, CheckOrg
<1>7. UNCHANGED wsVars => Due
  BY DEF wsVars
<1>8. QED
  BY <1>1, <1>2, <1>3, <1>4, <1>5, <1>6, <1>7 DEF WsNext

LEMMA SentSteps ==
    [WsNext]_wsVars =>
        \/ \E b \in Caster, c \in Client : Visit(b, c)
        \/ \E b \in Caster : CheckOrg(b, TRUE) \/ CheckOrg(b, FALSE)
        \/ \E b \in Caster : Cached(b) \/ Reply(b)
        \/ UNCHANGED sent
<1>. DEFINE Due == \/ \E b \in Caster, c \in Client : Visit(b, c)
                   \/ \E b \in Caster : CheckOrg(b, TRUE) \/ CheckOrg(b, FALSE)
                   \/ \E b \in Caster : Cached(b) \/ Reply(b)
                   \/ UNCHANGED sent
<1>. SUFFICES [WsNext]_wsVars => Due
  OBVIOUS
<1>1. WsSteps => Due
  BY DEF WsSteps, Call, BatchEnds, Take, NextChannel, Read, Invalidate
<1>2. (CallEnds \/ Tick \/ Beat \/ Pongs) => Due
  BY DEF CallEnds, Tick, Beat, Pongs, Pong
<1>3. ((\E s \in Stream : Entries(s)) \/ Notes) => Due
  BY DEF Entries, Publish, DeleteChat, Append1, Notes, Notify
<1>4. Routes => Due
  BY DEF Routes, Assign, Permit, Withdraw, Changed
<1>5. Sockets => Due
  BY DEF Sockets, Connect, Disconnect, Subscribe, Unsubscribe
<1>6. (ReadFaults \/ NotifyFails) => Due
  BY DEF ReadFaults, NotifyFails, ServerDies, LookupFails
<1>7. UNCHANGED wsVars => Due
  BY DEF wsVars
<1>8. QED
  BY <1>1, <1>2, <1>3, <1>4, <1>5, <1>6, <1>7 DEF WsNext

-----------------------------------------------------------------------------
(* Types.                                                                  *)

LEMMA ReadTyped == ASSUME Types, [WsNext]_wsVars PROVE ReadTypes'
<1>. USE DEF Types
<1>1. CASE Call
  BY <1>1, WsTypes DEF Call, Offset, Latest, ReadTypes
<1>2. CASE BatchEnds \/ CallEnds \/ UNCHANGED readVars
  BY <1>2 DEF BatchEnds, CallEnds, readVars, ReadTypes
<1>3. ASSUME NEW s \in Stream, Take(s) PROVE ReadTypes'
  BY <1>3 DEF Take, ReadTypes
<1>4. ASSUME NEW s \in Stream, NEW h \in Chat \cup {NoChat}, Append1(s, h) PROVE ReadTypes'
  <2>1. log' \in [Stream -> Seq(Chat \cup {NoChat})] /\ \A t \in Stream : Len(log'[t]) \in Nat
            /\ Len(log'[t]) >= Len(log[t])
    BY <1>4 DEF Append1, ReadTypes
  <2>2. Len(log'[s]) = Len(log[s]) + 1
    BY <1>4 DEF Append1, ReadTypes
  <2>3. CASE reader = "wait"
    <3>1. upto' = [upto EXCEPT ![s] = Len(log[s]) + 1] /\ UNCHANGED <<last, from>>
              /\ reader' = "read"
      BY <1>4, <2>3 DEF Append1
    <3>2. upto' \in [Stream -> Nat]
      BY <3>1 DEF ReadTypes
    <3>3. ASSUME NEW t \in Stream
          PROVE  last'[t] \in -1..Len(log'[t]) /\ from'[t] <= upto'[t] /\ upto'[t] <= Len(log'[t])
      BY <2>1, <2>2, <3>1 DEF ReadTypes
    <3>4. QED
      BY <2>1, <3>1, <3>2, <3>3 DEF ReadTypes
  <2>4. CASE reader # "wait"
    BY <1>4, <2>1, <2>2, <2>4 DEF Append1, ReadTypes
  <2>5. QED
    BY <2>3, <2>4
<1>5. CASE ServerDies
  BY <1>5 DEF ServerDies, Latest, ReadTypes
<1>6. QED
  BY <1>1, <1>2, <1>3, <1>4, <1>5, ReadSteps

LEMMA CastTyped == ASSUME Types, [WsNext]_wsVars PROVE CastTypes'
<1>. USE DEF Types
<1>1. ASSUME NEW s \in Stream, Take(s) PROVE CastTypes'
  <2>1. from[s] + 1 \in 1..Len(log[s]) /\ log[s][from[s] + 1] \in Chat \cup {NoChat}
    BY <1>1 DEF Take, ReadTypes
  <2>2. QED
    BY <1>1, <2>1 DEF Take, CastTypes, CastRecord, Caster
<1>2. ASSUME NEW h \in Chat, Notify(h) PROVE CastTypes'
  BY <1>2 DEF Notify, Idle, CastTypes, CastRecord, Caster
<1>3. ASSUME NEW b \in Caster, NEW c \in Client, Visit(b, c) PROVE CastTypes'
  BY <1>3 DEF Visit, CastTypes, CastRecord
<1>4. ASSUME NEW b \in Caster, NextChannel(b) PROVE CastTypes'
  <2>. DEFINE x == cast[b]
  <2>1. x \in CastRecord
    BY DEF CastTypes
  <2>2. /\ [x EXCEPT !.to = "session", !.visited = {}] \in CastRecord
        /\ [x EXCEPT !.to = "chat", !.visited = {}] \in CastRecord
        /\ Idle \in CastRecord
    BY <2>1 DEF CastRecord, Idle
  <2>3. PICK y \in CastRecord : cast' = [cast EXCEPT ![b] = y]
    <3>. HIDE DEF x
    <3>1. \E y \in {[x EXCEPT !.to = "session", !.visited = {}],
                     [x EXCEPT !.to = "chat", !.visited = {}], Idle} :
             cast' = [cast EXCEPT ![b] = y]
      BY <1>4 DEF NextChannel, x
    <3>2. QED
      BY <2>2, <3>1
  <2>4. QED
    BY <2>3 DEF CastTypes
<1>5. ASSUME NEW c \in Client, Connect(c) PROVE CastTypes'
  <2>1. ASSUME NEW b \in Caster PROVE [cast[b] EXCEPT !.visited = @ \ {c}] \in CastRecord
    BY DEF CastTypes, CastRecord
  <2>2. QED
    BY <1>5, <2>1 DEF Connect, CastTypes
<1>6. CASE ServerDies \/ LookupFails
  BY <1>6 DEF ServerDies, LookupFails, Idle, CastTypes, CastRecord
<1>7. CASE UNCHANGED cast
  BY <1>7 DEF CastTypes
<1>8. QED
  BY <1>1, <1>2, <1>3, <1>4, <1>5, <1>6, <1>7, CastSteps

LEMMA SocketsTyped == ASSUME Types, [WsNext]_wsVars PROVE SocketTypes'
<1>. USE DEF Types, SocketTypes
<1>1. ASSUME NEW c \in Client, Connect(c) \/ Disconnect(c) \/ Pong(c) PROVE SocketTypes'
  BY <1>1 DEF Connect, Disconnect, Pong, Closed
<1>2. ASSUME NEW c \in Client, NEW t \in Topic, Subscribe(c, t) \/ Unsubscribe(c, t)
      PROVE SocketTypes'
  BY <1>2 DEF Subscribe, Unsubscribe
<1>3. CASE Beat \/ ServerDies
  BY <1>3 DEF Beat, Closed, ServerDies
<1>4. CASE UNCHANGED sockVars
  BY <1>4 DEF sockVars
<1>5. QED
  BY <1>1, <1>2, <1>3, <1>4, SocketSteps

LEMMA TruthTyped == ASSUME Types, [WsNext]_wsVars PROVE TruthTypes'
<1>. USE DEF Types, TruthTypes
<1>1. ASSUME NEW s \in Stream, NEW h \in Chat, DeleteChat(s, h) PROVE TruthTypes'
  BY <1>1 DEF DeleteChat
<1>2. ASSUME NEW h \in Chat, NEW u \in Client \cup {NoOne}, Assign(h, u) PROVE TruthTypes'
  BY <1>2 DEF Assign, Changed
<1>3. ASSUME NEW c \in Client, Permit(c) \/ Withdraw(c) PROVE TruthTypes'
  BY <1>3 DEF Permit, Withdraw, Changed
<1>4. CASE UNCHANGED truthVars
  BY <1>4 DEF truthVars
<1>5. QED
  BY <1>1, <1>2, <1>3, <1>4, TruthSteps

\* While a check is under way its broadcast is about the same chat.
LEMMA CastStays ==
    ASSUME Types, [WsNext]_wsVars, NEW b \in Caster, check[b].step # "none"
    PROVE  \/ cast'[b].to = cast[b].to /\ cast'[b].chat = cast[b].chat
           \/ check'[b] = Free
<1>. USE DEF Types, CheckTypes, CheckOf, CastTypes, CastRecord
<1>1. ASSUME NEW s \in Stream, Take(s)
      PROVE cast'[b].to = cast[b].to /\ cast'[b].chat = cast[b].chat
  BY <1>1 DEF Take, Caster, Idle
<1>2. ASSUME NEW h \in Chat, Notify(h)
      PROVE cast'[b].to = cast[b].to /\ cast'[b].chat = cast[b].chat
  BY <1>2 DEF Notify, Caster, Idle
<1>3. ASSUME NEW x \in Caster, NextChannel(x)
      PROVE cast'[b].to = cast[b].to /\ cast'[b].chat = cast[b].chat
  BY <1>3 DEF NextChannel, Free
<1>4. ASSUME NEW x \in Caster, NEW c \in Client, Visit(x, c)
      PROVE cast'[b].to = cast[b].to /\ cast'[b].chat = cast[b].chat
  BY <1>4 DEF Visit
<1>5. ASSUME NEW c \in Client, Connect(c)
      PROVE cast'[b].to = cast[b].to /\ cast'[b].chat = cast[b].chat
  BY <1>5 DEF Connect
<1>6. CASE ServerDies
  BY <1>6 DEF ServerDies
<1>7. CASE LookupFails
  BY <1>7 DEF LookupFails, Caster
<1>8. QED
  BY <1>1, <1>2, <1>3, <1>4, <1>5, <1>6, <1>7, CastSteps

\* A check that is over.
LEMMA FreeFits == Free \in CheckRecord /\ \A x : CheckOf(Free, x)
BY WsTypes DEF Free, CheckRecord, CheckOf, Value

\* What a lookup decides.
LEMMA Decisions ==
    ASSUME Types, NEW b \in Caster, NEW v, Decide(b, v)
    PROVE  \/ Deny(b) /\ ~Allows(LookupKey(b), v, check[b].who)
           \/ /\ Goes(b, "assignee") /\ check[b].step = "access" /\ cast[b].chat \in Chat
              /\ Allows(LookupKey(b), v, check[b].who)
           \/ /\ Send(b) /\ ~(check[b].step = "access" /\ cast[b].chat \in Chat)
              /\ Allows(LookupKey(b), v, check[b].who)
BY WsTypes DEF Decide, Types, CastTypes, CastRecord

\* The key that a check looks up.
LEMMA KeyLooked ==
    ASSUME Types, NEW b \in Caster, check[b].step \in {"access", "assignee"}
    PROVE  /\ LookupKey(b) \in Key /\ Truth(LookupKey(b)) \in Value
           /\ check[b].step = "access" => LookupKey(b) = check[b].who
           /\ check[b].step = "assignee" => LookupKey(b) = cast[b].chat
BY WsTypes DEF LookupKey, Key, Truth, Value, Types, CheckTypes, CheckOf, TruthTypes

LEMMA ChecksTyped == ASSUME Types, [WsNext]_wsVars PROVE CheckTypes'
<1>. USE DEF Types
<1>1. ASSUME NEW x \in Caster, check'[x] = check[x] PROVE CheckOf(check'[x], cast'[x])
  <2>1. CASE check[x].step = "none"
    BY <1>1, <2>1, FreeFits DEF CheckTypes, CheckOf
  <2>2. CASE check[x].step # "none"
    BY <1>1, <2>2, CastStays, FreeFits DEF CheckTypes, CheckOf
  <2>3. QED
    BY <2>1, <2>2
<1>2. ASSUME NEW b \in Caster, NEW k \in CheckRecord, CheckOf(k, cast'[b]),
             check' = [check EXCEPT ![b] = k]
      PROVE  CheckTypes'
  <2>1. \A x \in Caster : CheckOf(check'[x], cast'[x])
    <3>1. TAKE x \in Caster
    <3>2. CASE x = b
      BY <1>2, <3>2 DEF CheckTypes
    <3>3. CASE x # b
      <4>1. check'[x] = check[x]
        BY <1>2, <3>3 DEF CheckTypes
      <4>2. QED
        BY <4>1, <1>1
    <3>4. QED
      BY <3>2, <3>3
  <2>2. QED
    BY <1>2, <2>1 DEF CheckTypes
<1>3. ASSUME NEW b \in Caster, check' = [check EXCEPT ![b] = Free] PROVE CheckTypes'
  BY <1>2, <1>3, FreeFits
<1>4. ASSUME NEW b \in Caster, NEW step \in {"org", "access", "assignee"}, NEW c \in Client,
             cast'[b].to # "none", step # "org" => c \notin Admins, step = "assignee"
                   => cast'[b].chat \in Chat,
             check' = [check EXCEPT ![b] = [Free EXCEPT !.who = c, !.step = step]]
      PROVE  CheckTypes'
  <2>. DEFINE k == [Free EXCEPT !.who = c, !.step = step]
  <2>0. Free \in CheckRecord
    BY FreeFits
  <2>1. /\ k \in CheckRecord
        /\ k.who = c /\ k.step = step /\ k.phase = "cache" /\ k.age = 0
    <3>1. k \in CheckRecord
      BY <2>0 DEF CheckRecord
    <3>2. k.who = c /\ k.step = step /\ k.phase = "cache" /\ k.age = 0
      BY <2>0 DEF CheckRecord, Free
    <3>3. QED
      BY <3>1, <3>2
  <2>2. check' = [check EXCEPT ![b] = k]
    BY <1>4
  <2>. HIDE DEF k
  <2>3. CheckOf(k, cast'[b])
    BY <1>4, <2>1 DEF CheckOf
  <2>4. QED
    BY <1>2, <2>1, <2>2, <2>3
<1>5. ASSUME NEW b \in Caster, NEW c \in Client, Visit(b, c) PROVE CheckTypes'
  <2>1. cast[b].to # "none" /\ cast'[b].to = cast[b].to
    BY <1>5 DEF Visit, ToVisit, Heard, CastTypes, CastRecord
  <2>2. QED
    BY <1>4, <1>5, <2>1 DEF Visit
<1>6. ASSUME NEW b \in Caster, NEW ok, CheckOrg(b, ok) PROVE CheckTypes'
  <2>1. CASE check' = [check EXCEPT ![b] = Free]
    BY <1>3, <2>1
  <2>2. CASE Goes(b, "access") /\ check[b].who \notin Admins
    BY <1>4, <1>6, <2>2 DEF CheckOrg, Goes, CheckTypes, CheckOf
  <2>3. QED
    BY <1>6, <2>1, <2>2 DEF CheckOrg, Deny, Send
<1>7. ASSUME NEW b \in Caster, NEW v, Decide(b, v), cast' = cast PROVE CheckTypes'
  <2>1. CASE check' = [check EXCEPT ![b] = Free]
    BY <1>3, <2>1
  <2>2. CASE Goes(b, "assignee") /\ check[b].step = "access" /\ cast[b].chat \in Chat
    BY <1>4, <1>7, <2>2 DEF Goes, CheckTypes, CheckOf
  <2>3. QED
    BY <1>7, <2>1, <2>2, Decisions DEF Deny, Send
<1>8. ASSUME NEW b \in Caster, Cached(b) PROVE CheckTypes'
  <2>1. CASE check' = [check EXCEPT ![b].phase = "ask"]
    <3>1. [check[b] EXCEPT !.phase = "ask"] \in CheckRecord
          /\ CheckOf([check[b] EXCEPT !.phase = "ask"], cast'[b])
      BY <1>8 DEF Cached, CheckTypes, CheckOf, CheckRecord, Free
    <3>2. QED
      BY <1>2, <2>1, <3>1 DEF CheckTypes
  <2>2. QED
    BY <1>7, <1>8, <2>1 DEF Cached
<1>9. ASSUME NEW b \in Caster, Read(b) PROVE CheckTypes'
  <2>1. Truth(LookupKey(b)) \in Value
    BY <1>9, KeyLooked DEF Read, CheckTypes, CheckOf
  <2>2. [check[b] EXCEPT !.phase = "reply", !.value = Truth(LookupKey(b))] \in CheckRecord
        /\ CheckOf([check[b] EXCEPT !.phase = "reply", !.value = Truth(LookupKey(b))], cast'[b])
    BY <1>9, <2>1 DEF Read, CheckTypes, CheckOf, CheckRecord, Free
  <2>3. check' = [check EXCEPT ![b] = [check[b] EXCEPT !.phase = "reply",
        !.value = Truth(LookupKey(b))]]
    BY <1>9 DEF Read, CheckTypes, CheckRecord
  <2>4. QED
    BY <1>2, <2>2, <2>3 DEF CheckTypes
<1>10. ASSUME NEW b \in Caster, Reply(b) PROVE CheckTypes'
  BY <1>7, <1>10 DEF Reply
<1>11. CASE Tick
  <2>1. ASSUME NEW x \in Caster PROVE check'[x] \in CheckRecord /\ CheckOf(check'[x], cast'[x])
    <3>1. CASE check[x].phase = "cache"
      BY <1>1, <1>11, <3>1 DEF Tick, CheckTypes
    <3>2. CASE check[x].phase # "cache"
      <4>1. check[x].age + 1 \in 0..Lag
        BY <1>11, <3>2, WsTypes DEF Tick, CheckTypes, CheckOf, CheckRecord
      <4>2. check'[x] = [check[x] EXCEPT !.age = @ + 1]
        BY <1>11, <3>2 DEF Tick
      <4>3. QED
        BY <1>11, <3>2, <4>1, <4>2 DEF Tick, CheckTypes, CheckOf, CheckRecord, Free
    <3>3. QED
      BY <3>1, <3>2
  <2>2. QED
    BY <1>11, <2>1 DEF Tick, CheckTypes
<1>12. CASE ServerDies
  BY <1>12, FreeFits DEF ServerDies, CheckTypes
<1>13. CASE LookupFails
  BY <1>3, <1>13 DEF LookupFails, Caster
<1>14. CASE UNCHANGED check
  BY <1>1, <1>14 DEF CheckTypes
<1>15. QED
  BY <1>5, <1>6, <1>8, <1>9, <1>10, <1>11, <1>12, <1>13, <1>14, CheckSteps

\* How long a lookup and an entry may take.
LEMMA Bounds ==
    /\ Cap \in Nat /\ Greatest(Ttl - 1, Lag) \in Nat /\ StaleMax \in Nat
    /\ Greatest(Ttl - 1, Lag) >= Lag /\ Greatest(Ttl - 1, Lag) >= Ttl - 1
    /\ Cap > StaleMax /\ StaleMax = Greatest(Ttl - 1, Lag) + Lag
BY WsTypes DEF Cap, StaleMax, Greatest

LEMMA CacheTyped == ASSUME Types, [WsNext]_wsVars PROVE CacheTypes'
<1>. USE DEF Types, CacheTypes
<1>1. None \in [value : Value, age : 0..Ttl]
  BY WsTypes DEF None, Value
<1>2. cache' \in [Key -> [value : Value, age : 0..Ttl]]
  <2>1. ASSUME NEW b \in Caster, Reply(b) PROVE cache' \in [Key -> [value : Value, age : 0..Ttl]]
    <3>1. Stored(b) \in [value : Value, age : 0..Ttl]
      BY WsTypes DEF Stored, CheckTypes, CheckRecord
    <3>2. QED
      BY <2>1, <3>1 DEF Reply
  <2>2. ASSUME NEW k \in Key, Invalidate(k) PROVE cache' \in [Key -> [value : Value, age : 0..Ttl]]
    BY <1>1, <2>2 DEF Invalidate, Forgotten
  <2>3. CASE Tick
    <3>1. ASSUME NEW k \in Key
          PROVE [cache[k] EXCEPT !.age = Older(@, Ttl)] \in [value : Value, age : 0..Ttl]
      BY WsTypes DEF Older
    <3>2. QED
      BY <2>3, <3>1 DEF Tick
  <2>4. CASE ServerDies
    BY <1>1, <2>4 DEF ServerDies
  <2>5. QED
    BY <2>1, <2>2, <2>3, <2>4, CacheSteps
<1>3. pending' \subseteq Key /\ raced' \subseteq Key
  <2>1. ASSUME NEW h \in Chat, NEW u \in Client \cup {NoOne}, Assign(h, u)
        PROVE  pending' \subseteq Key /\ raced' \subseteq Key
    BY <2>1 DEF Assign, Changed, Key
  <2>2. ASSUME NEW c \in Client, Permit(c) \/ Withdraw(c)
        PROVE pending' \subseteq Key /\ raced' \subseteq Key
    BY <2>2 DEF Permit, Withdraw, Changed, Key
  <2>3. ASSUME NEW k \in Key, Invalidate(k) PROVE pending' \subseteq Key /\ raced' \subseteq Key
    BY <2>3 DEF Invalidate
  <2>4. QED
    BY <2>1, <2>2, <2>3, DoubtSteps DEF ServerDies
<1>4. QED
  BY <1>2, <1>3

\* Nothing is owed but by a new entry.
LEMMA OwedSteps ==
    [WsNext]_wsVars => owed' \subseteq owed \/ \E s \in Stream : Take(s)
<1>. DEFINE Due == owed' \subseteq owed \/ \E s \in Stream : Take(s)
<1>. SUFFICES [WsNext]_wsVars => Due
  OBVIOUS
<1>1. WsSteps => Due
  BY DEF WsSteps, Call, BatchEnds, Visit, NextChannel, CheckOrg, Cached, Read, Reply, Decide,
     Deny, Send, Goes, Invalidate
<1>2. (CallEnds \/ Tick \/ Beat \/ Pongs) => Due
  BY DEF CallEnds, Tick, Beat, Closed, Pongs, Pong
<1>3. ((\E s \in Stream : Entries(s)) \/ Notes) => Due
  BY DEF Entries, Publish, DeleteChat, Notes, Notify
<1>4. Routes => Due
  BY DEF Routes, Assign, Permit, Withdraw, Changed
<1>5. Sockets => Due
  BY DEF Sockets, Connect, Disconnect, Subscribe, Unsubscribe, Closed
<1>6. (ReadFaults \/ NotifyFails) => Due
  BY DEF ReadFaults, NotifyFails, ServerDies, LookupFails, CheckOrg, Deny, Send, Goes
<1>7. UNCHANGED wsVars => Due
  BY DEF wsVars
<1>8. QED
  BY <1>1, <1>2, <1>3, <1>4, <1>5, <1>6, <1>7 DEF WsNext

LEMMA CrashSteps == [WsNext]_wsVars => UNCHANGED crashes \/ ServerDies
<1>1. WsSteps => UNCHANGED crashes
  BY DEF WsSteps, Call, BatchEnds, Take, Visit, NextChannel, CheckOrg, Cached, Read, Reply,
     Invalidate
<1>2. CallEnds \/ Tick \/ Beat \/ Pongs => UNCHANGED crashes
  BY DEF CallEnds, Tick, Beat, Pongs, Pong
<1>3. (\E s \in Stream : Entries(s)) \/ Notes => UNCHANGED crashes
  BY DEF Entries, Publish, DeleteChat, Notes, Notify
<1>4. Routes => UNCHANGED crashes
  BY DEF Routes, Assign, Permit, Withdraw, Changed
<1>5. Sockets => UNCHANGED crashes
  BY DEF Sockets, Connect, Disconnect, Subscribe, Unsubscribe
<1>6. ReadFaults \/ NotifyFails => UNCHANGED crashes \/ ServerDies
  BY DEF ReadFaults, NotifyFails, LookupFails, CheckOrg
<1>7. UNCHANGED wsVars => UNCHANGED crashes
  BY DEF wsVars
<1>8. QED
  BY <1>1, <1>2, <1>3, <1>4, <1>5, <1>6, <1>7 DEF WsNext

LEMMA HistoryTyped == ASSUME Types, [WsNext]_wsVars PROVE HistoryTypes'
<1>. USE DEF Types
<1>1. sent' \in [Caster -> Client \cup {NoOne}]
  <2>1. ASSUME NEW b \in Caster, CheckTypes, sent' = [sent EXCEPT ![b] = check[b].who]
        PROVE  sent' \in [Caster -> Client \cup {NoOne}]
    BY <2>1 DEF HistoryTypes, CheckTypes, CheckRecord
  <2>2. ASSUME NEW b \in Caster, Send(b) \/ Deny(b) \/ (\E step : Goes(b, step))
        PROVE  sent' \in [Caster -> Client \cup {NoOne}]
    BY <2>1, <2>2 DEF Send, Deny, Goes, HistoryTypes
  <2>3. ASSUME NEW b \in Caster, NEW c \in Client, Visit(b, c)
        PROVE sent' \in [Caster -> Client \cup {NoOne}]
    BY <2>3 DEF Visit, HistoryTypes
  <2>4. ASSUME NEW b \in Caster, NEW ok, CheckOrg(b, ok)
        PROVE sent' \in [Caster -> Client \cup {NoOne}]
    BY <2>2, <2>4 DEF CheckOrg, HistoryTypes
  <2>5. ASSUME NEW b \in Caster, Cached(b) \/ Reply(b)
        PROVE sent' \in [Caster -> Client \cup {NoOne}]
    BY <2>2, <2>5 DEF Cached, Reply, Decide, HistoryTypes
  <2>6. QED
    BY <2>3, <2>4, <2>5, SentSteps DEF HistoryTypes
<1>2. owed' \subseteq Client
  BY OwedSteps DEF HistoryTypes, Take, SocketTypes
<1>3. crashes' \in BOOLEAN
  BY CrashSteps DEF HistoryTypes, ServerDies
<1>4. QED
  BY <1>1, <1>2, <1>3 DEF HistoryTypes

LEMMA Overridden ==
    ASSUME NEW D, NEW R, NEW f \in [D -> R], NEW x, NEW v \in R
    PROVE  [f EXCEPT ![x] = v] \in [D -> R]
OBVIOUS

LEMMA Zeroed ==
    ASSUME Types, NEW c \in Client, NEW k
    PROVE  [off[c] EXCEPT ![k] = 0] \in [{c} \cup Chat -> 0..Cap]
<1>. DEFINE f == off[c]
            D == {c} \cup Chat
            R == 0..Cap
<1>0. Cap \in Nat
  BY Bounds DEF Types
<1>1. f \in [D -> R] /\ 0 \in R
  <2>1. f \in [D -> R]
    BY DEF Types, OffTypes
  <2>2. 0 \in R
    BY <1>0
  <2>3. QED
    BY <2>1, <2>2
<1>. HIDE DEF f, D, R
<1>2. [f EXCEPT ![k] = 0] \in [D -> R]
  BY <1>1
<1>3. QED
  BY <1>2 DEF f, D, R

LEMMA OffTyped == ASSUME Types, [WsNext]_wsVars PROVE OffTypes'
<1>a. ASSUME NEW c \in Client, NEW k PROVE [off[c] EXCEPT ![k] = 0] \in [{c} \cup Chat -> 0..Cap]
  BY Zeroed
<1>. USE DEF Types, OffTypes
<1>0. Cap \in Nat /\ 0 \in 0..Cap
  BY Bounds
<1>1. ASSUME NEW c \in Client PROVE off[c] \in [{c} \cup Chat -> 0..Cap]
  OBVIOUS
<1>2. ASSUME NEW s \in Stream, NEW h \in Chat, DeleteChat(s, h) PROVE OffTypes'
  <2>1. ASSUME NEW c \in Client PROVE off'[c] \in [{c} \cup Chat -> 0..Cap]
    <3>1. off'[c] = [off[c] EXCEPT ![h] = 0]
      BY <1>2 DEF DeleteChat
    <3>2. QED
      BY <1>1, <3>1, <1>a
  <2>2. QED
    BY <1>2, <2>1 DEF DeleteChat
<1>3. ASSUME NEW h \in Chat, NEW u \in Client \cup {NoOne}, Assign(h, u) PROVE OffTypes'
  <2>1. ASSUME NEW c \in Client PROVE off'[c] \in [{c} \cup Chat -> 0..Cap]
    <3>1. off'[c] = [off[c] EXCEPT ![h] = 0] \/ off'[c] = off[c]
      BY <1>3 DEF Assign
    <3>2. [off[c] EXCEPT ![h] = 0] \in [{c} \cup Chat -> 0..Cap]
      BY <1>a
    <3>3. QED
      BY <1>1, <3>1, <3>2
  <2>2. QED
    BY <1>3, <2>1 DEF Assign
<1>4. ASSUME NEW c \in Client, Permit(c) PROVE OffTypes'
  <2>1. [off[c] EXCEPT ![c] = 0] \in [{c} \cup Chat -> 0..Cap]
    BY <1>a
  <2>2. off' = [off EXCEPT ![c] = [off[c] EXCEPT ![c] = 0]]
    BY <1>4 DEF Permit
  <2>3. QED
    BY <2>1, <2>2
<1>5. CASE Tick
  <2>1. ASSUME NEW c \in Client PROVE off'[c] \in [{c} \cup Chat -> 0..Cap]
    <3>1. off'[c] = [k \in {c} \cup Chat |->
                        IF Allowing(c, k) THEN 0 ELSE Older(off[c][k], Cap)]
      BY <1>5 DEF Tick
    <3>2. ASSUME NEW k \in {c} \cup Chat PROVE Older(off[c][k], Cap) \in 0..Cap
      <4>1. off[c][k] \in 0..Cap
        BY <1>1
      <4>2. QED
        BY <1>0, <4>1 DEF Older
    <3>3. QED
      BY <1>0, <3>1, <3>2
  <2>2. QED
    BY <1>5, <2>1 DEF Tick
<1>6. CASE UNCHANGED off
  BY <1>6
<1>7. QED
  BY <1>2, <1>3, <1>4, <1>5, <1>6, OffSteps

LEMMA TypesHold == ASSUME Types, [WsNext]_wsVars PROVE Types'
BY ReadTyped, CastTyped, ChecksTyped, SocketsTyped, TruthTyped, CacheTyped, HistoryTyped,
   OffTyped, WsTypes DEF Types

-----------------------------------------------------------------------------
(* Checks.                                                                 *)

LEMMA FreeFields == Free.who = NoOne /\ Free.step = "none" /\ Free.phase = "cache" /\ Free.age = 0
BY DEF Free

\* The end of a check, its next step, and its start.
LEMMA Answered ==
    ASSUME Types, NEW b \in Caster, Deny(b) \/ Send(b) \/ check' = [check EXCEPT ![b] = Free]
    PROVE  check'[b] = Free
BY DEF Deny, Send, Types, CheckTypes

LEMMA GoneOn ==
    ASSUME Types, NEW b \in Caster, NEW step, Goes(b, step)
    PROVE  /\ check'[b].who = check[b].who /\ check'[b].step = step
           /\ check'[b].phase = "cache" /\ check'[b].age = 0
<1>1. check'[b] = [Free EXCEPT !.who = check[b].who, !.step = step]
  BY DEF Goes, Types, CheckTypes
<1>2. QED
  BY <1>1 DEF Free

LEMMA Begun ==
    ASSUME Types, NEW b \in Caster, NEW c \in Client, Visit(b, c)
    PROVE  /\ check'[b].who = c /\ check'[b].step = "org"
           /\ check'[b].phase = "cache" /\ check'[b].age = 0
<1>1. check'[b] = [Free EXCEPT !.who = c, !.step = "org"]
  BY DEF Visit, Types, CheckTypes
<1>2. QED
  BY <1>1 DEF Free

\* Of the organization's check, and of a lookup.
LEMMA OrgChecked ==
    ASSUME Types, NEW b \in Caster, CheckOrg(b, TRUE) \/ CheckOrg(b, FALSE)
    PROVE  \/ check'[b] = Free
           \/ /\ check'[b].who = check[b].who /\ check'[b].step = "access"
              /\ check'[b].phase = "cache" /\ check'[b].age = 0
<1>1. CASE Goes(b, "access")
  BY <1>1, GoneOn
<1>2. CASE Deny(b) \/ Send(b) \/ check' = [check EXCEPT ![b] = Free]
  BY <1>2, Answered
<1>3. QED
  BY <1>1, <1>2 DEF CheckOrg

LEMMA Decided ==
    ASSUME Types, NEW b \in Caster, NEW v, Decide(b, v)
    PROVE  \/ check'[b] = Free
           \/ /\ check[b].step = "access" /\ Goes(b, "assignee")
              /\ Allows(LookupKey(b), v, check[b].who)
              /\ check'[b].who = check[b].who /\ check'[b].step = "assignee"
              /\ check'[b].phase = "cache" /\ check'[b].age = 0
<1>1. CASE Goes(b, "assignee") /\ check[b].step = "access" /\ Allows(LookupKey(b), v, check[b].who)
  BY <1>1, GoneOn
<1>2. CASE Deny(b) \/ Send(b)
  BY <1>2, Answered
<1>3. QED
  BY <1>1, <1>2, Decisions

\* A check of another broadcast is not touched.
LEMMA Elsewhere ==
    ASSUME Types, NEW b \in Caster, NEW x \in Caster, x # b,
           \/ \E c \in Client : Visit(x, c)
           \/ CheckOrg(x, TRUE) \/ CheckOrg(x, FALSE) \/ Cached(x) \/ Read(x) \/ Reply(x)
    PROVE  check'[b] = check[b]
<1>. USE DEF Types, CheckTypes
<1>1. ASSUME NEW c \in Client, Visit(x, c) PROVE check'[b] = check[b]
  BY <1>1 DEF Visit
<1>2. CASE CheckOrg(x, TRUE) \/ CheckOrg(x, FALSE)
  BY <1>2 DEF CheckOrg, Deny, Send, Goes
<1>3. ASSUME NEW v, Decide(x, v) PROVE check'[b] = check[b]
  BY <1>3 DEF Decide, Deny, Send, Goes
<1>4. CASE Cached(x) \/ Reply(x)
  BY <1>3, <1>4 DEF Cached, Reply
<1>5. CASE Read(x)
  BY <1>5 DEF Read
<1>6. QED
  BY <1>1, <1>2, <1>4, <1>5

\* A value in hand was just read, or it is the one of before.
LEMMA HandKept ==
    ASSUME Types, [WsNext]_wsVars, NEW b \in Caster, check'[b].phase = "reply"
    PROVE  \/ Read(b)
           \/ Tick
           \/ check'[b] = check[b]
<1>. USE DEF Types, CheckTypes
<1>1. ASSUME NEW c \in Client, Visit(b, c) PROVE FALSE
  BY <1>1, Begun
<1>2. CASE CheckOrg(b, TRUE) \/ CheckOrg(b, FALSE)
  BY <1>2, OrgChecked, FreeFields
<1>3. ASSUME NEW v, Decide(b, v) PROVE FALSE
  BY <1>3, Decided, FreeFields
<1>4. CASE Cached(b) \/ Reply(b)
  <2>1. CASE check' = [check EXCEPT ![b].phase = "ask"]
    BY <2>1 DEF CheckRecord
  <2>2. QED
    BY <1>3, <1>4, <2>1 DEF Cached, Reply
<1>5. CASE ServerDies \/ LookupFails
  BY <1>5 DEF ServerDies, LookupFails, Caster, Free
<1>6. QED
  BY <1>1, <1>2, <1>4, <1>5, CheckSteps, Elsewhere

\* A check at the assignee was there before, or its lookup of the access allowed it.
LEMMA StepKept ==
    ASSUME Types, [WsNext]_wsVars, NEW b \in Caster, check'[b].step = "assignee"
    PROVE  \/ /\ check[b].step = "assignee" /\ check'[b].who = check[b].who
              /\ Tick \/ check'[b].age = check[b].age
           \/ \E v \in Value :
                 /\ check[b].step = "access" /\ Goes(b, "assignee")
                 /\ Allows(LookupKey(b), v, check[b].who)
                 /\ \/ Cached(b) /\ Serves(LookupKey(b)) /\ v = cache[LookupKey(b)].value
                    \/ Reply(b) /\ v = check[b].value
<1>. DEFINE Due == \/ /\ check[b].step = "assignee" /\ check'[b].who = check[b].who
                      /\ Tick \/ check'[b].age = check[b].age
                   \/ \E v \in Value :
                         /\ check[b].step = "access" /\ Goes(b, "assignee")
                         /\ Allows(LookupKey(b), v, check[b].who)
                         /\ \/ Cached(b) /\ Serves(LookupKey(b)) /\ v = cache[LookupKey(b)].value
                            \/ Reply(b) /\ v = check[b].value
<1>. SUFFICES Due
  OBVIOUS
<1>. USE DEF Types, CheckTypes
<1>1. ASSUME NEW c \in Client, Visit(b, c) PROVE Due
  BY <1>1, Begun
<1>2. CASE CheckOrg(b, TRUE) \/ CheckOrg(b, FALSE)
  BY <1>2, OrgChecked, FreeFields
<1>3. ASSUME NEW v, Decide(b, v)
      PROVE  /\ check[b].step = "access" /\ Goes(b, "assignee")
             /\ Allows(LookupKey(b), v, check[b].who)
  BY <1>3, Decided, FreeFields
<1>4. CASE Reply(b)
  <2>1. Decide(b, check[b].value) /\ check[b].value \in Value
    BY <1>4 DEF Reply, CheckRecord
  <2>2. QED
    BY <1>3, <1>4, <2>1
<1>5. CASE Cached(b)
  <2>1. CASE Serves(LookupKey(b))
    <3>1. Decide(b, cache[LookupKey(b)].value) /\ cache[LookupKey(b)].value \in Value
      BY <1>5, <2>1, KeyLooked DEF Cached, CacheTypes
    <3>2. QED
      BY <1>3, <1>5, <2>1, <3>1
  <2>2. CASE ~Serves(LookupKey(b))
    BY <1>5, <2>2 DEF Cached, CheckRecord
  <2>3. QED
    BY <2>1, <2>2
<1>6. CASE Read(b)
  BY <1>6 DEF Read, CheckRecord
<1>7. CASE Tick
  BY <1>7 DEF Tick, CheckRecord
<1>8. CASE ServerDies \/ LookupFails
  BY <1>8 DEF ServerDies, LookupFails, Caster, Free
<1>9. CASE check'[b] = check[b]
  BY <1>9
<1>10. QED
  BY <1>1, <1>2, <1>4, <1>5, <1>6, <1>7, <1>8, <1>9, CheckSteps, Elsewhere

-----------------------------------------------------------------------------
(* The caches are exact.                                                   *)

\* A key that no route has in doubt was in no doubt before, or it has just been
\* forgotten while nobody looked it up.
LEMMA DoubtStays ==
    ASSUME Types, [WsNext]_wsVars, NEW k \in Key, k \notin Doubted'
    PROVE  k \notin Doubted \/ ServerDies \/ (Invalidate(k) /\ ~InHand(k))
<1>1. ASSUME NEW h \in Chat, NEW u \in Client \cup {NoOne}, Assign(h, u) PROVE k \notin Doubted
  BY <1>1 DEF Assign, Changed, Doubted
<1>2. ASSUME NEW c \in Client, Permit(c) \/ Withdraw(c) PROVE k \notin Doubted
  BY <1>2 DEF Permit, Withdraw, Changed, Doubted
<1>3. ASSUME NEW j \in Key, Invalidate(j)
      PROVE  k \notin Doubted \/ (Invalidate(k) /\ ~InHand(k))
  BY <1>3 DEF Invalidate, Doubted
<1>4. CASE UNCHANGED <<pending, raced>>
  BY <1>4 DEF Doubted
<1>5. QED
  BY <1>1, <1>2, <1>3, <1>4, DoubtSteps

\* What is true of a key changes only when a route has it in doubt, or its chat goes.
LEMMA TruthStays ==
    ASSUME Types, [WsNext]_wsVars, NEW k \in Key, k \notin Doubted' \cup deleted'
    PROVE  Truth(k)' = Truth(k) /\ k \notin deleted
<1>. USE WsTypes DEF Types, TruthTypes, Key
<1>1. ASSUME NEW s \in Stream, NEW h \in Chat, DeleteChat(s, h)
      PROVE Truth(k)' = Truth(k) /\ k \notin deleted
  BY <1>1 DEF DeleteChat, Truth
<1>2. ASSUME NEW h \in Chat, NEW u \in Client \cup {NoOne}, Assign(h, u)
      PROVE Truth(k)' = Truth(k) /\ k \notin deleted
  BY <1>2 DEF Assign, Changed, Doubted, Truth
<1>3. ASSUME NEW c \in Client, Permit(c) \/ Withdraw(c)
      PROVE Truth(k)' = Truth(k) /\ k \notin deleted
  BY <1>3 DEF Permit, Withdraw, Changed, Doubted, Truth
<1>4. CASE UNCHANGED truthVars
  BY <1>4 DEF truthVars, Truth
<1>5. QED
  BY <1>1, <1>2, <1>3, <1>4, TruthSteps

LEMMA CacheExactHolds == ASSUME Types, ExactInv, [WsNext]_wsVars PROVE CacheExact'
<1>. SUFFICES ASSUME NEW k \in Key, k \notin Doubted' \cup deleted', Serves(k)'
              PROVE  cache'[k].value = Truth(k)'
  BY DEF CacheExact, Key
<1>1. Truth(k)' = Truth(k) /\ k \notin deleted
  BY TruthStays
<1>2. cache'[k].age < Ttl
  BY DEF Serves
<1>3. k \notin Doubted /\ ~ServerDies
  <2>1. CASE ServerDies
    BY <1>2, <2>1, WsTypes DEF ServerDies, None, Types
  <2>2. CASE Invalidate(k)
    BY <1>2, <2>2, WsTypes DEF Invalidate, Forgotten, None, Types, CacheTypes
  <2>3. QED
    BY <2>1, <2>2, DoubtStays
<1>4. Serves(k) => cache[k].value = Truth(k)
  BY <1>1, <1>3 DEF ExactInv, CacheExact
<1>5. ASSUME NEW b \in Caster, Reply(b) PROVE cache'[k].value = Truth(k)
  <2>1. CASE LookupKey(b) = k
    BY <1>1, <1>3, <1>5, <2>1 DEF Reply, Stored, ExactInv, HandExact, Types, CacheTypes
  <2>2. CASE LookupKey(b) # k
    BY <1>2, <1>4, <1>5, <2>2 DEF Reply, Serves, Types, CacheTypes
  <2>3. QED
    BY <2>1, <2>2
<1>6. ASSUME NEW j \in Key, Invalidate(j) PROVE cache'[k].value = Truth(k)
  <2>1. CASE j = k
    BY <1>2, <1>6, <2>1, WsTypes DEF Invalidate, Forgotten, None, Types, CacheTypes
  <2>2. CASE j # k
    BY <1>2, <1>4, <1>6, <2>2 DEF Invalidate, Forgotten, Serves, Types, CacheTypes
  <2>3. QED
    BY <2>1, <2>2
<1>7. CASE Tick
  <2>1. cache'[k] = [cache[k] EXCEPT !.age = Older(@, Ttl)]
    BY <1>7 DEF Tick
  <2>2. cache'[k].value = cache[k].value /\ cache'[k].age = Older(cache[k].age, Ttl)
    BY <2>1 DEF Types, CacheTypes
  <2>3. cache[k].age < Ttl
    BY <1>2, <2>2, WsTypes DEF Older, Types, CacheTypes
  <2>4. QED
    BY <1>1, <1>4, <2>2, <2>3 DEF Serves
<1>8. CASE UNCHANGED cache
  BY <1>1, <1>2, <1>4, <1>8 DEF Serves
<1>9. QED
  BY <1>1, <1>3, <1>5, <1>6, <1>7, <1>8, CacheSteps

\* A value in hand was the truth when it was read; a key that changes is in doubt.
LEMMA HandExactHolds == ASSUME Types, ExactInv, [WsNext]_wsVars PROVE HandExact'
<1>. SUFFICES ASSUME NEW b \in Caster, check'[b].phase = "reply",
                     LookupKey(b)' \notin Doubted' \cup deleted'
              PROVE  check'[b].value = Truth(LookupKey(b))'
  BY DEF HandExact
<1>1. /\ check[b].step \in {"access", "assignee"} /\ check'[b].step = check[b].step
      /\ check'[b].who = check[b].who
      /\ \/ Read(b)
         \/ check[b].phase = "reply" /\ check'[b].value = check[b].value
  <2>1. CASE Read(b)
    BY <2>1 DEF Read, Types, CheckTypes, CheckOf, CheckRecord
  <2>2. CASE Tick
    BY <2>2 DEF Tick, Types, CheckTypes, CheckOf, CheckRecord
  <2>3. CASE check'[b] = check[b]
    BY <2>3 DEF Types, CheckTypes, CheckOf
  <2>4. QED
    BY <2>1, <2>2, <2>3, HandKept
<1>2. ~ServerDies
  BY FreeFields DEF ServerDies
<1>3. cast'[b].chat = cast[b].chat
  BY <1>1, CastStays, FreeFields
<1>4. LookupKey(b)' = LookupKey(b) /\ LookupKey(b) \in Key
  BY <1>1, <1>3, KeyLooked DEF LookupKey
<1>5. Truth(LookupKey(b))' = Truth(LookupKey(b))
  <2>. DEFINE k == LookupKey(b)
  <2>1. k \in Key /\ k' = k /\ k \notin Doubted' \cup deleted'
    BY <1>4
  <2>2. QED
    BY <2>1, TruthStays DEF Truth
<1>6. LookupKey(b) \notin Doubted \cup deleted
  <2>1. InHand(LookupKey(b))
    BY <1>1 DEF InHand, LookupKey
  <2>2. QED
    BY <1>2, <1>4, <2>1, DoubtStays, TruthStays
<1>7. CASE Read(b)
  BY <1>5, <1>7 DEF Read, Types, CheckTypes, CheckRecord
<1>8. CASE check[b].phase = "reply" /\ check'[b].value = check[b].value
  BY <1>5, <1>6, <1>8 DEF ExactInv, HandExact
<1>9. QED
  BY <1>1, <1>7, <1>8

LEMMA AccessExactHolds == ASSUME Types, ExactInv, [WsNext]_wsVars PROVE AccessExact'
<1>. SUFFICES ASSUME NEW b \in Caster, check'[b].step = "assignee"
              PROVE  check'[b].who \in access' \cup Doubted'
  BY DEF AccessExact
<1>1. check'[b].who = check[b].who /\ check[b].step \in {"access", "assignee"}
  BY StepKept, GoneOn
<1>2. check[b].who \in Client
  BY <1>1 DEF Types, CheckTypes, CheckOf
<1>3. check[b].who \in access \cup Doubted
  <2>1. CASE check[b].step = "assignee"
    BY <2>1 DEF ExactInv, AccessExact
  <2>2. CASE check[b].step = "access" /\ check[b].who \notin Doubted
    <3>1. check[b].who \in Key \ (Doubted \cup deleted) /\ LookupKey(b) = check[b].who
      BY <1>2, <2>2, WsTypes DEF LookupKey, Key, Types, TruthTypes
    <3>2. Truth(check[b].who) = (check[b].who \in access)
      BY <1>2 DEF Truth
    <3>3. CASE Serves(LookupKey(b)) /\ Allows(LookupKey(b), cache[LookupKey(b)].value, check[b].who)
      BY <1>2, <3>1, <3>2, <3>3 DEF Allows, ExactInv, CacheExact
    <3>4. CASE check[b].phase = "reply" /\ Allows(LookupKey(b), check[b].value, check[b].who)
      BY <1>2, <3>1, <3>2, <3>4 DEF Allows, ExactInv, HandExact
    <3>5. QED
      BY <2>2, <3>3, <3>4, StepKept DEF Reply
  <2>3. QED
    BY <1>1, <2>1, <2>2
<1>4. InHand(check[b].who)
  BY <1>1 DEF InHand
<1>5. CASE check[b].who \in Doubted
  <2>1. ~ServerDies
    BY FreeFields DEF ServerDies
  <2>2. QED
    BY <1>1, <1>2, <1>4, <1>5, <2>1, DoubtStays DEF Key
<1>6. CASE check[b].who \in access
  <2>1. ASSUME NEW c \in Client, Permit(c) \/ Withdraw(c)
        PROVE  check[b].who \in access' \cup Doubted'
    BY <1>6, <2>1 DEF Permit, Withdraw, Changed, Doubted
  <2>2. QED
    BY <1>1, <1>6, <2>1, TruthSteps DEF DeleteChat, Assign, truthVars
<1>7. QED
  BY <1>3, <1>5, <1>6

LEMMA ExactHolds == ASSUME Types, ExactInv, [WsNext]_wsVars PROVE ExactInv'
BY CacheExactHolds, HandExactHolds, AccessExactHolds DEF ExactInv

-----------------------------------------------------------------------------
(* Who receives an event has the right, or a cause.                        *)

\* Who receives an event was allowed by the last lookup of its check.
LEMMA Received ==
    ASSUME Types, [WsNext]_wsVars, NEW b \in Caster, NEW c \in Client \ Admins, Receives(b, c)
    PROVE  /\ check[b].who = c /\ check[b].step \in {"access", "assignee"}
           /\ check[b].step = "access" => cast[b].chat = NoChat
           /\ \/ Serves(LookupKey(b)) /\ Allows(LookupKey(b), cache[LookupKey(b)].value, c)
              \/ check[b].phase = "reply" /\ Allows(LookupKey(b), check[b].value, c)
<1>. DEFINE Due == /\ check[b].step \in {"access", "assignee"}
                   /\ check[b].step = "access" => cast[b].chat = NoChat
                   /\ \/ Serves(LookupKey(b)) /\ Allows(LookupKey(b), cache[LookupKey(b)].value, c)
                      \/ check[b].phase = "reply" /\ Allows(LookupKey(b), check[b].value, c)
<1>1. check[b].who = c /\ sent'[b] # sent[b] /\ sent'[b] # NoOne
  BY WsTypes DEF Receives, Types
<1>2. ASSUME NEW x \in Caster, Send(x) \/ Deny(x) \/ (\E step : Goes(x, step))
      PROVE  Send(b) /\ x = b
  BY <1>1, <1>2 DEF Send, Deny, Goes, Types, HistoryTypes
<1>3. ASSUME NEW x \in Caster, NEW d \in Client, Visit(x, d) PROVE Due
  BY <1>1, <1>3 DEF Visit, Types, HistoryTypes
<1>4. ASSUME NEW x \in Caster, CheckOrg(x, TRUE) \/ CheckOrg(x, FALSE) PROVE Due
  <2>1. sent' # sent
    BY <1>1
  <2>2. Send(x) /\ check[x].who \in Admins
    BY <1>4, <2>1 DEF CheckOrg, Deny, Goes
  <2>3. QED
    BY <1>1, <1>2, <2>2
<1>5. ASSUME NEW x \in Caster, NEW v, Decide(x, v)
      PROVE  /\ x = b /\ ~(check[b].step = "access" /\ cast[b].chat \in Chat)
             /\ Allows(LookupKey(b), v, c)
  <2>1. Send(b) /\ x = b
    BY <1>2, <1>5 DEF Decide
  <2>2. sent' # sent
    BY <1>1
  <2>3. QED
    BY <1>1, <1>5, <2>1, <2>2, Decisions DEF Deny, Goes
<1>6. cast[b].chat \in Chat \/ cast[b].chat = NoChat
  BY DEF Types, CastTypes, CastRecord
<1>7. ASSUME NEW x \in Caster, Cached(x) PROVE Due
  <2>1. sent' # sent
    BY <1>1
  <2>2. Serves(LookupKey(x)) /\ Decide(x, cache[LookupKey(x)].value)
    BY <1>7, <2>1 DEF Cached
  <2>3. QED
    BY <1>5, <1>6, <1>7, <2>2 DEF Cached
<1>8. ASSUME NEW x \in Caster, Reply(x) PROVE Due
  BY <1>5, <1>6, <1>8 DEF Reply, Types, CheckTypes, CheckOf
<1>9. QED
  BY <1>1, <1>3, <1>4, <1>7, <1>8, SentSteps

\* Who receives an event has the right by the truth, or a key is in doubt, or the chat gone.
LEMMA RevokedStep ==
    ASSUME Types, ExactInv, [WsNext]_wsVars, NEW b \in Caster, NEW c \in Client \ Admins,
           Receives(b, c)
    PROVE  \/ Right(c, cast[b].chat) \/ Doubtful(c, cast[b].chat)
           \/ cast[b].chat \in deleted /\ (c \in access \/ Doubtful(c, c))
<1>1. CASE c \in Doubted \/ cast[b].chat \in Doubted
  BY <1>1 DEF Doubted, Doubtful
<1>2. CASE c \notin Doubted /\ cast[b].chat \notin Doubted /\ check[b].step = "access"
  <2>1. /\ cast[b].chat = NoChat /\ LookupKey(b) = c
        /\ c \in Key \ (Doubted \cup deleted)
    BY <1>2, Received, WsTypes DEF LookupKey, Key, Types, TruthTypes
  <2>2. Truth(c) = (c \in access)
    BY DEF Truth
  <2>3. CASE Serves(c) /\ Allows(c, cache[c].value, c)
    BY <2>1, <2>2, <2>3 DEF Allows, ExactInv, CacheExact, Right
  <2>4. CASE check[b].phase = "reply" /\ Allows(c, check[b].value, c)
    BY <2>1, <2>2, <2>4 DEF Allows, ExactInv, HandExact, Right
  <2>5. QED
    BY <2>1, <2>3, <2>4, Received
<1>3. CASE c \notin Doubted /\ cast[b].chat \notin Doubted /\ check[b].step = "assignee"
  <2>. DEFINE h == cast[b].chat
  <2>1. h \in Chat /\ LookupKey(b) = h /\ h \in Key /\ h \notin Client
    BY <1>3, WsTypes DEF LookupKey, Key, Types, CheckTypes, CheckOf
  <2>2. c \in access
    BY <1>3, Received DEF ExactInv, AccessExact
  <2>3. CASE h \in deleted
    BY <2>2, <2>3
  <2>4. CASE h \notin deleted /\ Serves(h) /\ Allows(h, cache[h].value, c)
    BY <1>3, <2>1, <2>2, <2>4 DEF Allows, ExactInv, CacheExact, Right, Truth
  <2>5. CASE h \notin deleted /\ check[b].phase = "reply" /\ Allows(h, check[b].value, c)
    BY <1>3, <2>1, <2>2, <2>5 DEF Allows, ExactInv, HandExact, Right, Truth
  <2>6. QED
    BY <2>1, <2>3, <2>4, <2>5, Received
<1>4. QED
  BY <1>1, <1>2, <1>3, Received

-----------------------------------------------------------------------------
(* Who has the right receives.                                             *)

LEMMA OwedKnown ==
    ASSUME Types, OwedInv, NEW c \in owed
    PROVE  /\ cast["reader"].to = "org" /\ c \in Client /\ c # NoOne /\ c \in open
           /\ Right(c, cast["reader"].chat) /\ ~Doubtful(c, cast["reader"].chat)
           /\ cast["reader"].chat \notin deleted
BY WsTypes DEF OwedInv, Types, HistoryTypes

\* Of a client that stays owed: the entry is the same, its socket is open, its right
\* stands and is not in doubt.
LEMMA OwedChat ==
    ASSUME Types, OwedInv, [WsNext]_wsVars, NEW c \in owed, c \in owed'
    PROVE  cast'["reader"].chat = cast["reader"].chat /\ cast'["reader"].to = cast["reader"].to
<1>. DEFINE Due == cast'["reader"].chat = cast["reader"].chat
         /\ cast'["reader"].to = cast["reader"].to
<1>. USE DEF Types, CastTypes, CastRecord, Caster
<1>1. ASSUME NEW s \in Stream, Take(s) PROVE Due
  BY <1>1, OwedKnown DEF Take, Idle
<1>2. ASSUME NEW h \in Chat, Notify(h) PROVE Due
  BY <1>2 DEF Notify
<1>3. ASSUME NEW b \in Caster, NextChannel(b) PROVE Due
  <2>1. CASE b = "reader"
    <3>1. c \in ToVisit(b) \/ c = check[b].who
      BY <2>1, OwedKnown DEF ToVisit, Heard, OwedInv
    <3>2. QED
      BY <1>3, <3>1, OwedKnown, FreeFields DEF NextChannel
  <2>2. CASE b # "reader"
    BY <1>3, <2>2 DEF NextChannel
  <2>3. QED
    BY <2>1, <2>2
<1>4. ASSUME NEW b \in Caster, NEW d \in Client, Visit(b, d) PROVE Due
  BY <1>4 DEF Visit
<1>5. ASSUME NEW d \in Client, Connect(d) PROVE Due
  BY <1>5 DEF Connect
<1>6. CASE ServerDies \/ LookupFails
  BY <1>6 DEF ServerDies, LookupFails
<1>7. QED
  BY <1>1, <1>2, <1>3, <1>4, <1>5, <1>6, CastSteps

LEMMA OwedOpen ==
    ASSUME Types, OwedInv, [WsNext]_wsVars, NEW c \in owed, c \in owed'
    PROVE  c \in open'
<1>1. c \in open
  BY OwedKnown
<1>2. ASSUME NEW d \in Client, Connect(d) \/ Disconnect(d) \/ Pong(d) PROVE c \in open'
  BY <1>1, <1>2 DEF Connect, Disconnect, Pong, Closed
<1>3. ASSUME NEW d \in Client, NEW t \in Topic, Subscribe(d, t) \/ Unsubscribe(d, t)
      PROVE  c \in open'
  BY <1>1, <1>3 DEF Subscribe, Unsubscribe
<1>4. CASE Beat \/ ServerDies
  BY <1>1, <1>4 DEF Beat, Closed, ServerDies
<1>5. QED
  BY <1>1, <1>2, <1>3, <1>4, SocketSteps DEF sockVars

LEMMA OwedRight ==
    ASSUME Types, OwedInv, [WsNext]_wsVars, NEW c \in owed, c \in owed'
    PROVE  Right(c, cast["reader"].chat)' /\ cast["reader"].chat \notin deleted'
<1>. DEFINE g == cast["reader"].chat
            Due == /\ c \in Admins \/ c \in access'
                   /\ c \in Admins \/ g = NoChat \/ assignee'[g] \in {NoOne, c}
                   /\ g \notin deleted'
<1>1. /\ c \in Admins \/ c \in access
      /\ c \in Admins \/ g = NoChat \/ assignee[g] \in {NoOne, c}
      /\ g \notin deleted
  BY OwedKnown DEF Right
<1>2. ASSUME NEW s \in Stream, NEW h \in Chat, DeleteChat(s, h) PROVE Due
  BY <1>1, <1>2 DEF DeleteChat
<1>3. ASSUME NEW h \in Chat, NEW u \in Client \cup {NoOne}, Assign(h, u) PROVE Due
  BY <1>1, <1>3 DEF Assign, Changed, Types, TruthTypes
<1>4. ASSUME NEW d \in Client, Permit(d) \/ Withdraw(d) PROVE Due
  BY <1>1, <1>4 DEF Permit, Withdraw, Changed
<1>5. ASSUME UNCHANGED truthVars PROVE Due
  BY <1>1, <1>5 DEF truthVars
<1>6. Due
  BY <1>2, <1>3, <1>4, <1>5, TruthSteps
<1>7. QED
  BY <1>6, OwedChat DEF Right

LEMMA OwedSure ==
    ASSUME Types, OwedInv, [WsNext]_wsVars, NEW c \in owed, c \in owed'
    PROVE  ~Doubtful(c, cast["reader"].chat)'
<1>. DEFINE g == cast["reader"].chat
<1>1. c \notin pending \cup raced /\ g \notin pending \cup raced
  BY OwedKnown DEF Doubtful
<1>2. ASSUME NEW h \in Chat, NEW u \in Client \cup {NoOne}, Assign(h, u)
      PROVE  c \notin pending' \cup raced' /\ g \notin pending' \cup raced'
  BY <1>1, <1>2 DEF Assign, Changed
<1>3. ASSUME NEW d \in Client, Permit(d) \/ Withdraw(d)
      PROVE  c \notin pending' \cup raced' /\ g \notin pending' \cup raced'
  BY <1>1, <1>3 DEF Permit, Withdraw, Changed
<1>4. ASSUME NEW k \in Key, Invalidate(k)
      PROVE  c \notin pending' \cup raced' /\ g \notin pending' \cup raced'
  BY <1>1, <1>4 DEF Invalidate
<1>5. ASSUME ServerDies PROVE FALSE
  BY <1>5 DEF ServerDies
<1>6. c \notin pending' \cup raced' /\ g \notin pending' \cup raced'
  BY <1>1, <1>2, <1>3, <1>4, <1>5, DoubtSteps
<1>7. QED
  BY <1>6, OwedChat DEF Doubtful

\* No lookup denies a client that has the right and whose keys nobody has in doubt.
LEMMA OwedAllowed ==
    ASSUME Types, ExactInv, OwedInv, NEW c \in owed, check["reader"].who = c,
           check["reader"].step \in {"access", "assignee"}
    PROVE  /\ Serves(LookupKey("reader"))
                 => Allows(LookupKey("reader"), cache[LookupKey("reader")].value, c)
           /\ check["reader"].phase = "reply"
                 => Allows(LookupKey("reader"), check["reader"].value, c)
<1>. DEFINE k == LookupKey("reader")
            g == cast["reader"].chat
<1>1. k \in Key /\ "reader" \in Caster
  BY KeyLooked DEF Caster
<1>2. c \notin Doubted /\ g \notin Doubted /\ g \notin deleted /\ c \in Client
  BY OwedKnown DEF Doubtful, Doubted
<1>3. k \notin Doubted \cup deleted
  BY <1>2, WsTypes DEF LookupKey, Types, TruthTypes
<1>4. c \notin Admins
  BY <1>1 DEF Types, CheckTypes, CheckOf
<1>5. Allows(k, Truth(k), c)
  <2>1. CASE check["reader"].step = "access"
    BY <1>2, <1>4, <2>1, OwedKnown DEF LookupKey, Truth, Allows, Right
  <2>2. CASE check["reader"].step = "assignee"
    <3>1. k = g /\ g \in Chat /\ g \notin Client
      BY <1>1, <2>2, WsTypes DEF LookupKey, Types, CheckTypes, CheckOf
    <3>2. assignee[g] \in {NoOne, c}
      BY <1>4, <3>1, OwedKnown, WsTypes DEF Right, Types
    <3>3. QED
      BY <1>2, <3>1, <3>2 DEF Truth, Allows
  <2>3. QED
    BY <2>1, <2>2
<1>6. QED
  BY <1>1, <1>3, <1>5 DEF ExactInv, CacheExact, HandExact

\* A visit or a check ends only with the event sent.
LEMMA OwedUnseen ==
    ASSUME Types, ExactInv, OwedInv, [WsNext]_wsVars, NEW c \in owed, c \in owed'
    PROVE  c \notin cast'["reader"].visited \/ c = check'["reader"].who
<1>. USE DEF Caster
<1>1. CASE c \notin cast["reader"].visited
  <2>. DEFINE Due == c \notin cast'["reader"].visited \/ c = check'["reader"].who
  <2>. USE DEF Types, CastTypes, CastRecord
  <2>1. ASSUME NEW s \in Stream, Take(s) PROVE Due
    BY <2>1 DEF Take
  <2>2. ASSUME NEW h \in Chat, Notify(h) PROVE Due
    BY <1>1, <2>2 DEF Notify
  <2>3. ASSUME NEW b \in Caster, NextChannel(b) PROVE Due
    BY <1>1, <2>3 DEF NextChannel, Idle
  <2>4. ASSUME NEW b \in Caster, NEW d \in Client, Visit(b, d) PROVE Due
    <3>1. CASE b = "reader" /\ d = c
      BY <2>4, <3>1, Begun
    <3>2. CASE b # "reader" \/ d # c
      BY <1>1, <2>4, <3>2 DEF Visit
    <3>3. QED
      BY <3>1, <3>2
  <2>5. ASSUME NEW d \in Client, Connect(d) PROVE Due
    BY <1>1, <2>5 DEF Connect
  <2>6. CASE ServerDies \/ LookupFails
    BY <2>6 DEF ServerDies, LookupFails
  <2>7. QED
    BY <1>1, <2>1, <2>2, <2>3, <2>4, <2>5, <2>6, CastSteps
<1>2. CASE c = check["reader"].who
  <2>. DEFINE Due == c = check'["reader"].who
  <2>1. c # NoOne /\ check["reader"] # Free
    BY <1>2, OwedKnown, FreeFields
  <2>2. ASSUME Send("reader") PROVE Due
    BY <1>2, <2>2 DEF Send
  <2>3. ASSUME NEW step, Goes("reader", step) PROVE Due
    BY <1>2, <2>3, GoneOn
  <2>4. ASSUME NEW d \in Client, Visit("reader", d) PROVE Due
    BY <2>1, <2>4 DEF Visit
  <2>5. CASE CheckOrg("reader", TRUE) \/ CheckOrg("reader", FALSE)
    BY <1>2, <2>2, <2>3, <2>5, OwedKnown DEF CheckOrg
  <2>6. CASE Cached("reader")
    <3>1. CASE Serves(LookupKey("reader"))
      BY <1>2, <2>2, <2>3, <2>6, <3>1, OwedAllowed DEF Cached, Decide
    <3>2. CASE check' = [check EXCEPT !["reader"].phase = "ask"]
      BY <1>2, <3>2 DEF Types, CheckTypes, CheckRecord
    <3>3. QED
      BY <2>6, <3>1, <3>2 DEF Cached
  <2>7. CASE Read("reader")
    BY <1>2, <2>7 DEF Read, Types, CheckTypes, CheckRecord
  <2>8. CASE Reply("reader")
    BY <1>2, <2>2, <2>3, <2>8, OwedAllowed DEF Reply, Decide, Types, CheckTypes, CheckOf
  <2>9. CASE Tick
    BY <1>2, <2>9 DEF Tick, Types, CheckTypes, CheckRecord
  <2>10. CASE ServerDies \/ LookupFails
    BY <2>10 DEF ServerDies, LookupFails
  <2>11. CASE check'["reader"] = check["reader"]
    BY <1>2, <2>11
  <2>12. QED
    BY <2>4, <2>5, <2>6, <2>7, <2>8, <2>9, <2>10, <2>11, CheckSteps, Elsewhere
<1>3. QED
  BY <1>1, <1>2 DEF OwedInv

LEMMA OwedHolds == ASSUME Types, ExactInv, OwedInv, [WsNext]_wsVars PROVE OwedInv'
<1>1. ASSUME NEW s \in Stream, Take(s) PROVE OwedInv'
  <2>1. /\ cast'["reader"].to = "org" /\ cast'["reader"].visited = {}
        /\ cast'["reader"].chat = log[s][from[s] + 1]
    BY <1>1 DEF Take, Types, CastTypes, CastRecord, Caster
  <2>2. QED
    BY <1>1, <2>1 DEF Take, OwedInv, Right, Doubtful, sockVars, truthVars
<1>2. CASE owed' \subseteq owed
  <2>1. ASSUME NEW c \in owed'
        PROVE  /\ c \in open' /\ cast'["reader"].to = "org"
               /\ c \notin cast'["reader"].visited \/ c = check'["reader"].who
               /\ Right(c, cast["reader"].chat)' /\ ~Doubtful(c, cast["reader"].chat)'
               /\ cast'["reader"].chat \notin deleted'
    <3>1. c \in owed
      BY <1>2
    <3>2. QED
      BY <3>1, OwedKnown, OwedChat, OwedOpen, OwedRight, OwedSure, OwedUnseen
  <2>2. QED
    BY <2>1 DEF OwedInv
<1>3. QED
  BY <1>1, <1>2, OwedSteps

-----------------------------------------------------------------------------
(* How late a loss of rights takes effect.                                 *)

LEMMA OffNumber ==
    ASSUME Types, NEW c \in Client, NEW k \in {c} \cup Chat
    PROVE  off[c][k] \in Nat /\ k \in Key
<1>1. off[c] \in [{c} \cup Chat -> 0..Cap] /\ Cap \in Nat
  BY Bounds DEF Types, OffTypes
<1>2. off[c][k] \in 0..Cap
  BY <1>1
<1>3. QED
  BY <1>1, <1>2 DEF Key

\* Only time makes a client's loss of a right older.
LEMMA OffStays ==
    ASSUME Types, [WsNext]_wsVars, NEW c \in Client, NEW k \in {c} \cup Chat
    PROVE  \/ off'[c][k] = 0 \/ off'[c][k] = off[c][k]
           \/ Tick /\ off'[c][k] \in Nat /\ off'[c][k] <= off[c][k] + 1
<1>. DEFINE Due == off'[c][k] = 0 \/ off'[c][k] = off[c][k]
<1>1. off[c] \in [{c} \cup Chat -> 0..Cap]
  BY DEF Types, OffTypes
<1>2. ASSUME NEW s \in Stream, NEW h \in Chat, DeleteChat(s, h) PROVE Due
  <2>1. off'[c] = [off[c] EXCEPT ![h] = 0]
    BY <1>2 DEF DeleteChat
  <2>2. QED
    BY <1>1, <2>1
<1>3. ASSUME NEW h \in Chat, NEW u \in Client \cup {NoOne}, Assign(h, u) PROVE Due
  <2>1. off'[c] = [off[c] EXCEPT ![h] = 0] \/ off'[c] = off[c]
    BY <1>3 DEF Assign
  <2>2. QED
    BY <1>1, <2>1
<1>4. ASSUME NEW d \in Client, Permit(d) PROVE Due
  <2>1. off' = [off EXCEPT ![d] = [off[d] EXCEPT ![d] = 0]]
    BY <1>4 DEF Permit
  <2>2. off'[c] = off[c] \/ off'[c] = [off[c] EXCEPT ![d] = 0]
    BY <2>1 DEF Types, OffTypes
  <2>3. QED
    BY <1>1, <2>2
<1>5. CASE Tick
  <2>1. off'[c][k] = IF Allowing(c, k) THEN 0 ELSE Older(off[c][k], Cap)
    BY <1>5 DEF Tick
  <2>2. QED
    BY <1>5, <2>1, OffNumber, Bounds DEF Older, Types
<1>6. QED
  BY <1>2, <1>3, <1>4, <1>5, OffSteps

\* A right that a client gets ends its loss.
LEMMA TruthOffHolds == ASSUME Types, OffInv, [WsNext]_wsVars PROVE TruthOff'
<1>. SUFFICES ASSUME NEW c \in Client \ Admins, NEW k \in {c} \cup Chat, Allowing(c, k)'
              PROVE  off'[c][k] = 0
  BY DEF TruthOff
<1>. USE DEF Allowing, Allows, Truth
<1>1. off[c] \in [{c} \cup Chat -> 0..Cap]
  BY DEF Types, OffTypes
<1>2. ASSUME Allowing(c, k) PROVE off'[c][k] = 0
  <2>1. off[c][k] = 0
    BY <1>2 DEF OffInv, TruthOff
  <2>2. CASE Tick
    BY <1>2, <2>2 DEF Tick
  <2>3. QED
    BY <2>1, <2>2, OffStays
<1>3. ASSUME NEW s \in Stream, NEW h \in Chat, DeleteChat(s, h) PROVE off'[c][k] = 0
  <2>1. off'[c] = [off[c] EXCEPT ![h] = 0]
    BY <1>3 DEF DeleteChat
  <2>2. CASE k = h
    BY <1>1, <2>1, <2>2
  <2>3. CASE k # h
    BY <1>2, <1>3, <2>3 DEF DeleteChat
  <2>4. QED
    BY <2>2, <2>3
<1>4. ASSUME NEW h \in Chat, NEW u \in Client \cup {NoOne}, Assign(h, u) PROVE off'[c][k] = 0
  <2>1. CASE k = h /\ u \in {NoOne, c}
    <3>1. off'[c] = [off[c] EXCEPT ![h] = 0]
      BY <1>4, <2>1 DEF Assign
    <3>2. QED
      BY <1>1, <2>1, <3>1
  <2>2. CASE k # h
    BY <1>2, <1>4, <2>2 DEF Assign, Changed, Types, TruthTypes
  <2>3. CASE k = h /\ u \notin {NoOne, c}
    BY <1>4, <2>3, WsTypes DEF Assign, Changed, Types, TruthTypes
  <2>4. QED
    BY <2>1, <2>2, <2>3
<1>5. ASSUME NEW d \in Client, Permit(d) PROVE off'[c][k] = 0
  <2>1. CASE k = d
    <3>1. c = d
      BY <2>1, WsTypes DEF Types
    <3>2. off' = [off EXCEPT ![c] = [off[c] EXCEPT ![c] = 0]]
      BY <1>5, <3>1 DEF Permit
    <3>3. off'[c] = [off[c] EXCEPT ![c] = 0]
      BY <3>2 DEF Types, OffTypes
    <3>4. QED
      BY <1>1, <2>1, <3>1, <3>3
  <2>2. CASE k # d
    BY <1>2, <1>5, <2>2 DEF Permit, Changed
  <2>3. QED
    BY <2>1, <2>2
<1>6. ASSUME NEW d \in Client, Withdraw(d) PROVE off'[c][k] = 0
  BY <1>2, <1>6 DEF Withdraw, Changed
<1>7. CASE UNCHANGED truthVars
  BY <1>2, <1>7 DEF truthVars
<1>8. QED
  BY <1>3, <1>4, <1>5, <1>6, <1>7, TruthSteps

LEMMA CacheOffHolds == ASSUME Types, OffInv, [WsNext]_wsVars PROVE CacheOff'
<1>. SUFFICES ASSUME NEW c \in Client \ Admins, NEW k \in {c} \cup Chat, Serves(k)',
                     Allows(k, cache'[k].value, c)
              PROVE  off'[c][k] <= cache'[k].age
  BY DEF CacheOff, Allows
<1>1. /\ k \in Key /\ off[c][k] \in Nat /\ cache[k].age \in Nat
      /\ cache'[k].age < Ttl /\ Ttl \in Nat
  BY OffNumber, WsTypes DEF Serves, Types, CacheTypes
<1>2. ASSUME cache'[k].value = cache[k].value, cache'[k].age = cache[k].age
      PROVE  off[c][k] <= cache[k].age
  BY <1>1, <1>2 DEF OffInv, CacheOff, Serves
<1>3. ASSUME NEW b \in Caster, Reply(b) PROVE off'[c][k] <= cache'[k].age
  <2>1. CASE LookupKey(b) = k
    <3>1. cache'[k].value = check[b].value /\ cache'[k].age = check[b].age
      BY <1>1, <1>3, <2>1 DEF Reply, Stored, Types, CacheTypes
    <3>2. off[c][k] <= check[b].age
      BY <1>3, <2>1, <3>1 DEF Reply, OffInv, HandOff
    <3>3. QED
      BY <1>3, <3>1, <3>2 DEF Reply
  <2>2. CASE LookupKey(b) # k
    <3>1. cache'[k] = cache[k]
      BY <1>1, <1>3, <2>2 DEF Reply, Types, CacheTypes
    <3>2. QED
      BY <1>2, <1>3, <3>1 DEF Reply
  <2>3. QED
    BY <2>1, <2>2
<1>4. ASSUME NEW j \in Key, Invalidate(j) PROVE off'[c][k] <= cache'[k].age
  <2>1. CASE j = k
    BY <1>1, <1>4, <2>1 DEF Invalidate, Forgotten, None, Types, CacheTypes
  <2>2. CASE j # k
    <3>1. cache'[k] = cache[k]
      BY <1>4, <2>2 DEF Invalidate, Forgotten, Types, CacheTypes
    <3>2. QED
      BY <1>2, <1>4, <3>1 DEF Invalidate
  <2>3. QED
    BY <2>1, <2>2
<1>5. CASE Tick
  <2>1. cache'[k] = [cache[k] EXCEPT !.age = Older(@, Ttl)]
    BY <1>1, <1>5 DEF Tick
  <2>2. cache'[k].value = cache[k].value /\ cache'[k].age = Older(cache[k].age, Ttl)
    BY <1>1, <2>1 DEF Types, CacheTypes
  <2>3. cache[k].age < Ttl /\ cache'[k].age = cache[k].age + 1
    BY <1>1, <2>2 DEF Older
  <2>4. off[c][k] <= cache[k].age
    BY <2>2, <2>3 DEF OffInv, CacheOff, Serves
  <2>5. QED
    BY <1>1, <2>3, <2>4, OffStays
<1>6. CASE ServerDies
  BY <1>1, <1>6 DEF ServerDies, None
<1>7. CASE UNCHANGED cache
  <2>1. off[c][k] <= cache[k].age
    BY <1>2, <1>7
  <2>2. CASE Tick
    BY <1>5, <2>2
  <2>3. CASE ~Tick
    BY <1>1, <1>7, <2>1, <2>3, OffStays
  <2>4. QED
    BY <2>2, <2>3
<1>8. QED
  BY <1>3, <1>4, <1>5, <1>6, <1>7, CacheSteps

LEMMA HandOffHolds == ASSUME Types, OffInv, [WsNext]_wsVars PROVE HandOff'
<1>. SUFFICES ASSUME NEW b \in Caster, NEW c \in Client \ Admins, check'[b].phase = "reply",
                     LookupKey(b)' \in {c} \cup Chat,
                     Allows(LookupKey(b)', check'[b].value, c)
              PROVE  off'[c][LookupKey(b)'] <= check'[b].age
  BY DEF HandOff, Allows
<1>. DEFINE k == LookupKey(b)
<1>1. /\ check[b].step \in {"access", "assignee"} /\ check'[b].step = check[b].step
      /\ check'[b].who = check[b].who
  <2>1. CASE Read(b)
    BY <2>1 DEF Read, Types, CheckTypes, CheckOf, CheckRecord
  <2>2. CASE Tick
    BY <2>2 DEF Tick, Types, CheckTypes, CheckOf, CheckRecord
  <2>3. CASE check'[b] = check[b]
    BY <2>3 DEF Types, CheckTypes, CheckOf
  <2>4. QED
    BY <2>1, <2>2, <2>3, HandKept
<1>2. cast'[b].chat = cast[b].chat
  BY <1>1, CastStays, FreeFields
<1>3. k' = k
  BY <1>1, <1>2 DEF LookupKey
<1>4. /\ k \in {c} \cup Chat /\ off[c][k] \in Nat /\ check[b].age \in Nat
      /\ Allows(k, check'[b].value, c)
  <2>1. k \in {c} \cup Chat /\ check[b].age \in Nat /\ Allows(k, check'[b].value, c)
    BY <1>3, WsTypes DEF Types, CheckTypes, CheckRecord
  <2>2. QED
    BY <2>1, OffNumber
<1>. HIDE DEF k
<1>5. CASE Read(b)
  <2>1. check'[b].value = Truth(k) /\ check'[b].age = check[b].age
    BY <1>5 DEF Read, Types, CheckTypes, CheckRecord, k
  <2>2. off[c][k] = 0
    BY <1>4, <2>1 DEF OffInv, TruthOff, Allowing
  <2>3. QED
    BY <1>3, <1>4, <1>5, <2>1, <2>2 DEF Read, k
<1>6. ASSUME check[b].phase = "reply", check'[b].value = check[b].value
      PROVE  off[c][k] <= check[b].age
  BY <1>4, <1>6 DEF OffInv, HandOff, k
<1>7. CASE Tick
  <2>1. check[b].phase = "reply" /\ check'[b].value = check[b].value
        /\ check'[b].age = check[b].age + 1
    BY <1>7 DEF Tick, Types, CheckTypes, CheckRecord
  <2>2. QED
    BY <1>3, <1>4, <1>6, <2>1, OffStays DEF k
<1>8. CASE check'[b] = check[b] /\ ~Tick
  BY <1>3, <1>4, <1>6, <1>8, OffStays DEF k
<1>9. QED
  BY <1>5, <1>7, <1>8, HandKept

LEMMA AccessOffHolds == ASSUME Types, OffInv, [WsNext]_wsVars PROVE AccessOff'
<1>. SUFFICES ASSUME NEW b \in Caster, NEW c \in Client \ Admins, check'[b].step = "assignee",
                     check'[b].who = c
              PROVE  off'[c][c] <= Greatest(Ttl - 1, Lag) + check'[b].age
  BY DEF AccessOff, Greatest
<1>1. /\ off[c][c] \in Nat /\ check[b].age \in 0..Lag /\ check'[b].age \in Nat
      /\ Greatest(Ttl - 1, Lag) \in Nat /\ Greatest(Ttl - 1, Lag) >= Lag
      /\ Greatest(Ttl - 1, Lag) >= Ttl - 1
  <2>1. check'[b].age \in Nat
    BY ChecksTyped DEF CheckTypes, CheckRecord
  <2>2. QED
    BY <2>1, OffNumber, Bounds DEF Types, CheckTypes, CheckRecord
<1>2. CASE check[b].step = "assignee" /\ check[b].who = c
  <2>1. off[c][c] <= Greatest(Ttl - 1, Lag) + check[b].age
    BY <1>2 DEF OffInv, AccessOff
  <2>2. CASE Tick
    <3>1. check'[b].age = check[b].age + 1
      BY <1>2, <2>2 DEF Tick, Types, CheckTypes, CheckRecord
    <3>2. QED
      BY <1>1, <2>1, <3>1, OffStays
  <2>3. CASE ~Tick /\ check'[b].age = check[b].age
    BY <1>1, <2>1, <2>3, OffStays
  <2>4. CASE check[b].step = "access"
    BY <1>2, <2>4
  <2>5. QED
    BY <1>2, <2>2, <2>3, <2>4, StepKept
<1>3. CASE check[b].step = "access" /\ Goes(b, "assignee")
  <2>1. check[b].who = c /\ LookupKey(b) = c
    BY <1>3, GoneOn DEF LookupKey
  <2>2. CASE Cached(b) /\ Serves(c) /\ Allows(c, cache[c].value, c)
    <3>1. off[c][c] <= cache[c].age /\ cache[c].age <= Ttl - 1
      BY <2>2, WsTypes DEF OffInv, CacheOff, Serves, Types, CacheTypes, Key
    <3>2. off' = off /\ cache[c].age \in Nat /\ Ttl \in Nat
      BY <2>2, WsTypes DEF Cached, Types, CacheTypes, Key
    <3>3. QED
      BY <1>1, <3>1, <3>2
  <2>3. CASE Reply(b) /\ Allows(c, check[b].value, c)
    <3>1. off[c][c] <= check[b].age
      BY <2>1, <2>3 DEF OffInv, HandOff, Reply
    <3>2. off' = off
      BY <2>3 DEF Reply
    <3>3. QED
      BY <1>1, <3>1, <3>2, WsTypes DEF Types
  <2>4. QED
    BY <1>3, <2>1, <2>2, <2>3, StepKept
<1>4. QED
  BY <1>2, <1>3, StepKept

LEMMA OffHolds == ASSUME Types, OffInv, [WsNext]_wsVars PROVE OffInv'
BY TruthOffHolds, CacheOffHolds, HandOffHolds, AccessOffHolds DEF OffInv

\* What was looked up is at most as old as an entry serves or a lookup takes.
LEMMA StaleStep ==
    ASSUME Types, OffInv, [WsNext]_wsVars, NEW b \in Caster, NEW c \in Client \ Admins,
           Receives(b, c)
    PROVE  /\ off[c][c] <= StaleMax
           /\ cast[b].chat \in Chat => off[c][cast[b].chat] <= StaleMax
<1>. DEFINE k == LookupKey(b)
<1>1. check[b].age \in 0..Lag /\ Lag \in Nat /\ Ttl \in Nat /\ off[c][c] \in Nat
  BY OffNumber, WsTypes DEF Types, CheckTypes, CheckRecord
<1>2. k \in {c} \cup Chat /\ k \in Key
  BY Received, KeyLooked DEF LookupKey, Types, CheckTypes, CheckOf
<1>3. off[c][k] \in Nat /\ cache[k].age \in 0..Ttl
  BY <1>2, OffNumber DEF Types, CacheTypes
<1>4. off[c][k] <= Greatest(Ttl - 1, Lag)
  <2>1. CASE Serves(k) /\ Allows(k, cache[k].value, c)
    <3>1. off[c][k] <= cache[k].age /\ cache[k].age < Ttl
      BY <1>2, <2>1 DEF OffInv, CacheOff, Serves
    <3>. HIDE DEF k
    <3>2. QED
      BY <1>1, <1>3, <3>1, Bounds DEF Types
  <2>2. CASE check[b].phase = "reply" /\ Allows(k, check[b].value, c)
    <3>1. off[c][k] <= check[b].age
      BY <1>2, <2>2 DEF OffInv, HandOff
    <3>. HIDE DEF k
    <3>2. QED
      BY <1>1, <1>3, <3>1, Bounds DEF Types
  <2>3. QED
    BY <2>1, <2>2, Received
<1>5. CASE check[b].step = "access"
  <2>1. k = c /\ cast[b].chat = NoChat
    BY <1>5, Received DEF LookupKey
  <2>2. QED
    BY <1>1, <1>4, <2>1, Bounds, WsTypes DEF Types
<1>6. CASE check[b].step = "assignee"
  <2>1. k = cast[b].chat
    BY <1>6 DEF LookupKey
  <2>2. off[c][c] <= Greatest(Ttl - 1, Lag) + check[b].age
    BY <1>6, Received DEF OffInv, AccessOff
  <2>. HIDE DEF k
  <2>3. QED
    BY <1>1, <1>3, <1>4, <2>1, <2>2, Bounds DEF Types
<1>7. QED
  BY <1>5, <1>6, Received

-----------------------------------------------------------------------------
(* The theorems.                                                           *)

\* The inductive invariant.
WsInv == Types /\ ExactInv /\ OwedInv /\ OffInv

LEMMA InitHolds == ASSUME WsInit PROVE WsInv
<1>1. ReadTypes
  BY DEF WsInit, ReadTypes, Latest
<1>2. CastTypes
  BY DEF WsInit, CastTypes, CastRecord, Idle
<1>3. CheckTypes
  BY FreeFits DEF WsInit, CheckTypes
<1>4. SocketTypes /\ TruthTypes /\ HistoryTypes
  BY DEF WsInit, SocketTypes, TruthTypes, HistoryTypes
<1>5. CacheTypes
  <2>1. None \in [value : Value, age : 0..Ttl]
    BY WsTypes DEF None, Value
  <2>2. QED
    BY <2>1 DEF WsInit, CacheTypes
<1>6. OffTypes
  <2>1. ASSUME NEW c \in Client PROVE off[c] \in [{c} \cup Chat -> 0..Cap]
    <3>1. 0 \in 0..Cap /\ Cap \in 0..Cap
      BY Bounds
    <3>2. off[c] = [k \in {c} \cup Chat |-> IF k = c /\ c \notin access THEN Cap ELSE 0]
      BY DEF WsInit
    <3>3. QED
      BY <3>1, <3>2
  <2>2. QED
    BY <2>1 DEF WsInit, OffTypes
<1>7. \A k \in Key : ~Serves(k)
  BY WsTypes DEF WsInit, None, Serves
<1>8. \A b \in Caster : check[b].step = "none" /\ check[b].phase = "cache"
  BY FreeFields DEF WsInit
<1>9. ExactInv
  BY <1>7, <1>8 DEF ExactInv, CacheExact, HandExact, AccessExact
<1>10. OwedInv
  BY DEF WsInit, OwedInv
<1>11. TruthOff
  BY WsTypes DEF WsInit, TruthOff, Allowing, Allows, Truth
<1>12. OffInv
  <2>1. CacheOff
    BY <1>7 DEF CacheOff, Key
  <2>2. HandOff /\ AccessOff
    BY <1>8 DEF HandOff, AccessOff
  <2>3. QED
    BY <1>11, <2>1, <2>2 DEF OffInv
<1>13. QED
  BY <1>1, <1>2, <1>3, <1>4, <1>5, <1>6, <1>9, <1>10, <1>12 DEF WsInv, Types

LEMMA WsInvHolds == WsSpec => []WsInv
<1>1. WsInit => WsInv
  BY InitHolds
<1>2. WsInv /\ [WsNext]_wsVars => WsInv'
  BY TypesHold, ExactHolds, OwedHolds, OffHolds DEF WsInv
<1>3. QED
  BY <1>1, <1>2, PTL DEF WsSpec

\* The ranges, and: when the broadcast of an entry to the organization ends, each client
\* that was connected and had the right all the time has received it (broadcastToOrg and
\* checkAccess, ws-server.ts).
THEOREM SocketInvHolds == WsSpec => []SocketInv
<1>1. WsInv => SocketInv
  <2>1. ASSUME WsInv PROVE WsTypeOK
    <3>. USE <2>1 DEF WsInv, Types
    <3>1. \A b \in Caster : /\ cast[b].to \in {"none", "org", "session", "chat"}
                            /\ cast[b].visited \subseteq Client
      BY DEF CastTypes, CastRecord
    <3>2. \A b \in Caster : /\ check[b].who \in Client \cup {NoOne}
                            /\ check[b].step \in {"none", "org", "access", "assignee"}
                            /\ check[b].phase \in {"cache", "ask", "reply"}
                            /\ check[b].value \in Value /\ check[b].age \in 0..Lag
      BY DEF CheckTypes, CheckRecord
    <3>3. \A s \in Stream : last[s] \in -1..Len(log[s]) /\ from[s] \in 0..upto[s]
                            /\ upto[s] \in 0..Len(log[s])
      BY DEF ReadTypes
    <3>4. \A k \in Key : cache[k].value \in Value /\ cache[k].age \in 0..Ttl
      BY DEF CacheTypes
    <3>5. QED
      BY <3>1, <3>2, <3>3, <3>4 DEF WsTypeOK, ReadTypes, SocketTypes, TruthTypes, CacheTypes,
         HistoryTypes
  <2>2. ASSUME WsInv PROVE Served
    BY <2>2 DEF WsInv, OwedInv, Served
  <2>3. QED
    BY <2>1, <2>2 DEF SocketInv
<1>2. QED
  BY <1>1, WsInvHolds, PTL

\* Once the caches are invalidated, who has lost the right receives nothing more, but for
\* the checks under way and deleted chats (invalidateSessionAccess and
\* invalidateChatAssignee, ws-server.ts).
THEOREM RevokedHolds == WsSpec => RevokedHasCause
<1>. DEFINE Due == \A b \in Caster, c \in Client \ Admins : Receives(b, c) =>
                       \/ Right(c, cast[b].chat) \/ Doubtful(c, cast[b].chat)
                       \/ cast[b].chat \in deleted /\ (c \in access \/ Doubtful(c, c))
<1>1. WsInv /\ [WsNext]_wsVars => [Due]_wsVars
  BY RevokedStep DEF WsInv
<1>2. WsSpec => [][Due]_wsVars
  BY <1>1, WsInvHolds, PTL DEF WsSpec
<1>3. QED
  BY <1>2 DEF RevokedHasCause

\* Nobody receives an event longer after the loss of the right than a cache entry serves
\* and the lookups take (getSessionAccess, getChatAssignee, ws-server.ts).
THEOREM StaleHolds == WsSpec => StaleIsBounded
<1>. DEFINE Due == \A b \in Caster, c \in Client \ Admins : Receives(b, c) =>
                       /\ off[c][c] <= StaleMax
                       /\ cast[b].chat \in Chat => off[c][cast[b].chat] <= StaleMax
<1>1. WsInv /\ [WsNext]_wsVars => [Due]_wsVars
  BY StaleStep DEF WsInv
<1>2. WsSpec => [][Due]_wsVars
  BY <1>1, WsInvHolds, PTL DEF WsSpec
<1>3. QED
  BY <1>2 DEF StaleIsBounded
=============================================================================
