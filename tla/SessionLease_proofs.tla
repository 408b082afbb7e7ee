------------------------ MODULE SessionLease_proofs ------------------------
(***************************************************************************)
(* Proofs, for any set of replicas and any timing within Budget, that the  *)
(* session lease keeps its types, that a split brain has a cause, that no  *)
(* socket outlives its renewal and that SET XX robs nobody past the fence. *)
(*                                                                         *)
(* One lemma per action shows that it preserves IInv, one step per         *)
(* conjunct.  The argument behind SplitBrainHasCause: a sound replica's    *)
(* last renewal is younger than Ttl minus a timely setup (RenewalInv and   *)
(* Budget), a lease is at least Ttl minus that age long (LeaseInv), so     *)
(* whoever takes the lock after it expired meets, once it has waited out   *)
(* the fence, no sound replica (FenceInv).                                 *)
(*                                                                         *)
(* The last part is about the Signal keys of the session: their cache      *)
(* implements the abstract store of AuthStore.                             *)
(***************************************************************************)
EXTENDS SessionLease, AuthKeyCache, TLAPS

USE DEF HbFailureLimit, Lag, WaitCap

\* Before any replica has touched the lock, the invariant holds.
LEMMA InitInv == Init => IInv
BY TimingTypes, Timing DEF Init, IInv, TypeOK, HistoryInv, RenewalInv,
     LeaseInv, FenceInv, TheftInv, Timely, Phase, Answer

\* Entering a phase of initializeSocket keeps its variables typed.
LEMMA PhasedType ==
    ASSUME TypeOK, NEW q \in Replica, NEW p \in Phase, Phased(q, p)
    PROVE  init' \in [Replica -> Phase] /\ wait' \in [Replica -> 0..WaitCap]
BY TimingTypes DEF TypeOK, Phased

\* So does an initialization that ends without a socket.
LEMMA AbandonType ==
    ASSUME TypeOK, NEW q \in Replica, Abandon(q)
    PROVE  /\ init' \in [Replica -> Phase]
           /\ wait' \in [Replica -> 0..WaitCap]
           /\ fresh' \in [Replica -> BOOLEAN]
<1>1. Phased(q, "idle") /\ "idle" \in Phase
  BY DEF Abandon, Phase
<1>2. fresh' \in [Replica -> BOOLEAN]
  BY DEF Abandon, TypeOK
<1>q. QED  BY <1>1, <1>2, PhasedType

\* Starting or clearing renewal and workers keeps their maps typed.
LEMMA ServeType ==
    ASSUME TypeOK, NEW q \in Replica, NEW on \in BOOLEAN, Serve(q, on)
    PROVE  /\ socket' \in [Replica -> BOOLEAN]
           /\ serving' \in [Replica -> BOOLEAN]
           /\ since' \in [Replica -> Nat]
           /\ beat' \in [Replica -> 0..HbPeriod]
           /\ fail' \in [Replica -> 0..(HbFailureLimit - 1)]
BY TimingTypes DEF TypeOK, Serve

\* So does forceTerminateSocket.
LEMMA ForceTerminateType ==
    ASSUME TypeOK, NEW q \in Replica, ForceTerminate(q)
    PROVE  /\ socket' \in [Replica -> BOOLEAN]
           /\ serving' \in [Replica -> BOOLEAN]
           /\ sound' \in [Replica -> BOOLEAN]
           /\ since' \in [Replica -> Nat]
           /\ beat' \in [Replica -> 0..HbPeriod]
           /\ fail' \in [Replica -> 0..(HbFailureLimit - 1)]
           /\ releasing' \in [Replica -> BOOLEAN]
<1>1. Serve(q, FALSE) /\ FALSE \in BOOLEAN
  BY DEF ForceTerminate
<1>2. sound' \in [Replica -> BOOLEAN] /\ releasing' \in [Replica -> BOOLEAN]
  BY DEF ForceTerminate, TypeOK
<1>q. QED  BY <1>1, <1>2, ServeType

\* initializeSocket's GET of the lock preserves the invariant.
LEMMA BeginInv ==
    ASSUME IInv, NEW q \in Replica, Begin(q) PROVE IInv'
<1> USE TimingTypes, Timing, Budget
<1>1. TypeOK'
  BY DEF IInv, TypeOK, Phase, Begin, Phased, lockVars, serveVars, flightVars
<1>2. HistoryInv'
  BY DEF IInv, TypeOK, HistoryInv, Begin, Phased, serveVars
<1>3. RenewalInv'
  BY DEF IInv, RenewalInv, Begin, serveVars, flightVars
<1>4. LeaseInv'
  BY DEF IInv, TypeOK, HistoryInv, LeaseInv, Timely, Begin, Phased,
       lockVars, serveVars, flightVars
<1>5. FenceInv'
  BY DEF IInv, TypeOK, HistoryInv, FenceInv, Timely, Begin, Phased, serveVars
<1>6. TheftInv'
  BY DEF IInv, TypeOK, TheftInv, Begin, Phased, lockVars
<1>q. QED  BY <1>1, <1>2, <1>3, <1>4, <1>5, <1>6 DEF IInv

\* Taking a free lock (SET NX): a young lease of one's own, so nobody else is
\* both sound and unexpired.
LEMMA SetNXInv ==
    ASSUME IInv, NEW q \in Replica, SetNX(q) PROVE IInv'
<1> USE TimingTypes, Timing, Budget
<1>1. TypeOK'
  <2>1. CASE owner = NoOwner
    <3>1. Phased(q, "fencing") /\ "fencing" \in Phase
      BY <2>1 DEF SetNX, Phase
    <3>2. owner' = q /\ ttl' = Ttl /\ fresh' \in [Replica -> BOOLEAN]
      BY <2>1 DEF IInv, TypeOK, SetNX
    <3>q. QED  BY <3>1, <3>2, PhasedType DEF IInv, TypeOK, SetNX, serveVars,
         flightVars
  <2>2. CASE owner # NoOwner
    BY <2>2, AbandonType DEF IInv, TypeOK, SetNX, lockVars, serveVars,
         flightVars
  <2>q. QED  BY <2>1, <2>2
<1>2. HistoryInv'
  BY DEF IInv, TypeOK, HistoryInv, SetNX, Phased, Abandon, serveVars
<1>3. RenewalInv'
  BY DEF IInv, RenewalInv, SetNX, serveVars, flightVars
<1>4. LeaseInv'
  BY DEF IInv, TypeOK, LeaseInv, Timely, SetNX, Phased, Abandon, lockVars,
       serveVars, flightVars
<1>5. FenceInv'
  BY DEF IInv, TypeOK, LeaseInv, FenceInv, Timely, SetNX, Phased, Abandon,
       serveVars
<1>6. TheftInv'
  BY DEF IInv, TypeOK, TheftInv, SetNX, Phased, Abandon, lockVars
<1>q. QED  BY <1>1, <1>2, <1>3, <1>4, <1>5, <1>6 DEF IInv

\* Refreshing, or stealing, the lock (SET XX): the robbed lease is marked.
LEMMA SetXXInv ==
    ASSUME IInv, NEW q \in Replica, SetXX(q) PROVE IInv'
<1> USE TimingTypes, Timing, Budget
<1>1. TypeOK'
  <2>1. CASE owner # NoOwner
    <3>1. Phased(q, "fencing") /\ "fencing" \in Phase
      BY <2>1 DEF SetXX, Phase
    <3>2. /\ owner' = q /\ ttl' = Ttl
          /\ fresh' \in [Replica -> BOOLEAN] /\ sound' \in [Replica -> BOOLEAN]
      BY <2>1 DEF IInv, TypeOK, SetXX
    <3>q. QED  BY <3>1, <3>2, PhasedType DEF IInv, TypeOK, SetXX, flightVars
  <2>2. CASE owner = NoOwner
    <3>1. Abandon(q)
      BY <2>2 DEF SetXX
    <3>2. owner' = owner /\ ttl' = ttl /\ sound' = sound
      BY <2>2 DEF SetXX, lockVars
    <3>3. TypeOK
      BY DEF IInv
    <3>4. /\ init' \in [Replica -> Phase] /\ wait' \in [Replica -> 0..WaitCap]
          /\ fresh' \in [Replica -> BOOLEAN]
      BY <3>1, <3>3, AbandonType
    <3>5. /\ socket' = socket /\ serving' = serving /\ since' = since
          /\ beat' = beat /\ fail' = fail /\ flight' = flight
          /\ fage' = fage /\ jobs' = jobs /\ releasing' = releasing
      BY DEF SetXX, flightVars
    <3>q. QED  BY <3>2, <3>3, <3>4, <3>5 DEF TypeOK
  <2>q. QED  BY <2>1, <2>2
<1>2. HistoryInv'
  <2>1. CASE owner # NoOwner
    <3>1. serving' = serving /\ socket' = socket /\ init'[q] = "fencing"
      BY <2>1 DEF IInv, TypeOK, SetXX, Phased
    <3>2. \A r \in Replica \ {q} : init'[r] = init[r]
      BY <2>1 DEF IInv, TypeOK, SetXX, Phased
    <3>3. \A r \in Replica \ {q} : fresh'[r] => fresh[r]
      BY <2>1 DEF IInv, TypeOK, SetXX
    <3>4. \A r \in Replica : sound'[r] => sound[r]
      BY <2>1 DEF IInv, TypeOK, SetXX
    <3>q. QED  BY <3>1, <3>2, <3>3, <3>4 DEF IInv, HistoryInv
  <2>2. CASE owner = NoOwner
    BY <2>2 DEF IInv, TypeOK, HistoryInv, SetXX, Phased, Abandon
  <2>q. QED  BY <2>1, <2>2
<1>3. RenewalInv'
  BY DEF IInv, RenewalInv, SetXX, flightVars
<1>4. LeaseInv'
  <2>1. CASE owner = NoOwner
    <3>1. /\ owner' = owner /\ ttl' = ttl /\ sound' = sound /\ since' = since
          /\ flight' = flight /\ fage' = fage /\ fresh'[q] = FALSE
      BY <2>1 DEF IInv, TypeOK, SetXX, Abandon, lockVars, flightVars
    <3>2. \A r \in Replica \ {q} : /\ fresh'[r] = fresh[r]
                                   /\ wait'[r] = wait[r] /\ init'[r] = init[r]
      BY <2>1 DEF IInv, TypeOK, SetXX, Abandon, Phased
    <3>q. QED  BY <3>1, <3>2 DEF IInv, TypeOK, HistoryInv, LeaseInv, Timely
  <2>2. CASE owner # NoOwner
    <3>1. /\ owner' = q /\ ttl' = Ttl /\ wait'[q] = 0 /\ init'[q] = "fencing"
          /\ since' = since /\ flight' = flight /\ fage' = fage
      BY <2>2 DEF IInv, TypeOK, SetXX, Phased, flightVars
    <3>2. \A r \in Replica \ {q} : wait'[r] = wait[r] /\ init'[r] = init[r]
      BY <2>2 DEF IInv, TypeOK, SetXX, Phased
    <3>3. \A r \in Replica : sound'[r] => sound[r] /\ (r = q \/ owner # r)
      BY <2>2 DEF IInv, TypeOK, SetXX
    <3>8. \A r \in Replica :
            fresh'[r] => IF r = q THEN owner = q ELSE fresh[r] /\ owner # r
      BY <2>2 DEF IInv, TypeOK, SetXX
    <3>4. owner' = NoOwner <=> ttl' = 0
      BY <2>2, <3>1, <3>2, <3>3, <3>8 DEF IInv, LeaseInv
    <3>5. \A r \in Replica : sound'[r] =>
            IF owner' = r THEN Ttl <= ttl' + since'[r] + Lag
                          ELSE Ttl <= since'[r] + Lag
      BY <2>2, <3>1, <3>2, <3>3, <3>8 DEF IInv, TypeOK, LeaseInv
    <3>6. \A r \in Replica : (sound'[r] \/ fresh'[r]) /\ flight'[r] = "renewed"
                           => owner' = r /\ Ttl <= ttl' + fage'[r]
      BY <2>2, <3>1, <3>2, <3>3, <3>8 DEF IInv, TypeOK, LeaseInv
    <3>7. \A r \in Replica : Timely(r)' => owner' = r /\ Ttl <= ttl' + wait'[r]
      BY <2>2, <3>1, <3>2, <3>3, <3>8 DEF IInv, LeaseInv, Timely
    <3>q. QED  BY <3>4, <3>5, <3>6, <3>7 DEF LeaseInv, Timely
  <2>q. QED  BY <2>1, <2>2
<1>5. FenceInv'
  <2>1. CASE owner = NoOwner
    <3>1. /\ owner' = owner /\ ttl' = ttl /\ sound' = sound /\ since' = since
          /\ flight' = flight /\ fage' = fage /\ fresh'[q] = FALSE
      BY <2>1 DEF IInv, TypeOK, SetXX, Abandon, lockVars, flightVars
    <3>2. \A r \in Replica \ {q} : /\ fresh'[r] = fresh[r]
                                   /\ wait'[r] = wait[r] /\ init'[r] = init[r]
      BY <2>1 DEF IInv, TypeOK, SetXX, Abandon, Phased
    <3>q. QED  BY <3>1, <3>2 DEF IInv, TypeOK, HistoryInv, LeaseInv, Timely,
         FenceInv
  <2>2. CASE owner # NoOwner
    <3>1. /\ owner' = q /\ ttl' = Ttl /\ wait'[q] = 0 /\ init'[q] = "fencing"
          /\ since' = since /\ flight' = flight /\ fage' = fage
      BY <2>2 DEF IInv, TypeOK, SetXX, Phased, flightVars
    <3>2. \A r \in Replica \ {q} : wait'[r] = wait[r] /\ init'[r] = init[r]
      BY <2>2 DEF IInv, TypeOK, SetXX, Phased
    <3>3. \A r \in Replica : sound'[r] => sound[r] /\ (r = q \/ owner # r)
      BY <2>2 DEF IInv, TypeOK, SetXX
    <3>8. \A r \in Replica :
            fresh'[r] => IF r = q THEN owner = q ELSE fresh[r] /\ owner # r
      BY <2>2 DEF IInv, TypeOK, SetXX
    <3>4. ASSUME NEW r \in Replica, NEW s \in Replica, r # s, sound'[r]
          PROVE  /\ ~sound'[s]
                 /\ Timely(s)' => /\ init'[s] = "fencing"
                                  /\ Ttl + wait'[s] <= since'[r] + Lag
      <4>1. ~sound'[s] /\ (r # q => owner # r)
        BY <3>3, <3>4 DEF IInv, FenceInv
      <4>2. CASE s = q
        BY <2>2, <3>1, <3>3, <3>8, <3>4, <4>1, <4>2 DEF IInv, LeaseInv
      <4>3. CASE s # q
        BY <3>1, <3>2, <3>3, <3>8, <3>4, <4>3 DEF IInv, FenceInv, Timely
      <4>q. QED  BY <4>1, <4>2, <4>3
    <3>q. QED  BY <3>4 DEF FenceInv
  <2>q. QED  BY <2>1, <2>2
<1>6. TheftInv'
  <2>1. CASE owner # NoOwner
    <3>1. owner' = q /\ init'[q] = "fencing" /\ wait'[q] = 0
      BY <2>1 DEF IInv, TypeOK, SetXX, Phased
    <3>2. \A r \in Replica \ {q} : init'[r] = init[r]
      BY <2>1 DEF IInv, TypeOK, SetXX, Phased
    <3>3. \A r \in Replica \ {q} : wait'[r] = wait[r]
      BY <2>1 DEF IInv, TypeOK, SetXX, Phased
    <3>4. \A r \in Replica : init'[r] = "setup" => wait'[r] >= Fence
      BY <3>1, <3>2, <3>3 DEF IInv, TheftInv
    <3>5. \A r \in Replica : init'[r] = "setXX" => wait'[r] <= Latency
      BY <3>1, <3>2, <3>3 DEF IInv, TheftInv
    <3>6. ASSUME NEW r \in Replica, init'[r] = "setXX", owner' # r,
                 init'[owner'] \in {"fencing", "setup"}
          PROVE  wait'[owner'] <= wait'[r]
      BY <3>1, <3>3, <3>6 DEF IInv, TypeOK
    <3>q. QED  BY <3>4, <3>5, <3>6 DEF TheftInv
  <2>2. CASE owner = NoOwner
    BY <2>2 DEF IInv, TypeOK, TheftInv, SetXX, Phased, Abandon, lockVars
  <2>q. QED  BY <2>1, <2>2
<1>q. QED  BY <1>1, <1>2, <1>3, <1>4, <1>5, <1>6 DEF IInv

\* A SET whose answer is lost only prolongs a lease, or leaves one unused.
LEMMA SetLostInv ==
    ASSUME IInv, NEW q \in Replica, SetLost(q) PROVE IInv'
<1> USE TimingTypes, Timing, Budget
<1>1. TypeOK'
  BY DEF IInv, TypeOK, Phase, SetLost, Phased, Abandon, serveVars, flightVars
<1>2. HistoryInv'
  BY DEF IInv, HistoryInv, SetLost, Phased, Abandon, serveVars
<1>3. RenewalInv'
  BY DEF IInv, RenewalInv, SetLost, serveVars, flightVars
<1>4. LeaseInv'
  BY DEF IInv, TypeOK, LeaseInv, Timely, SetLost, Phased, Abandon,
       serveVars, flightVars
<1>5. FenceInv'
  BY DEF IInv, TypeOK, FenceInv, Timely, SetLost, Phased, Abandon, serveVars
<1>6. TheftInv'
  BY DEF IInv, TheftInv, SetLost, Phased, Abandon
<1>q. QED  BY <1>1, <1>2, <1>3, <1>4, <1>5, <1>6 DEF IInv

\* Passing the fencing delay: the lock was seen held after it.
LEMMA RecheckInv ==
    ASSUME IInv, NEW q \in Replica, Recheck(q) PROVE IInv'
<1> USE TimingTypes, Timing, Budget
<1>1. TypeOK'
  <2>1. CASE owner # q
    BY <2>1, AbandonType DEF IInv, TypeOK, Recheck, lockVars, serveVars,
         flightVars
  <2>2. CASE owner = q /\ socket[q]
    <3>1. Serve(q, FALSE) /\ FALSE \in BOOLEAN
      BY <2>2 DEF Recheck
    <3>2. init' \in [Replica -> Phase] /\ sound' \in [Replica -> BOOLEAN]
      BY <2>2 DEF IInv, TypeOK, Recheck, Phase
    <3>q. QED  BY <2>2, <3>1, <3>2, ServeType DEF IInv, TypeOK, Recheck,
         lockVars, flightVars
  <2>3. CASE owner = q /\ ~socket[q]
    BY <2>3 DEF IInv, TypeOK, Phase, Recheck, lockVars, serveVars, flightVars
  <2>q. QED  BY <2>1, <2>2, <2>3
<1>2. HistoryInv'
  BY DEF IInv, TypeOK, HistoryInv, Recheck, Phased, Abandon, Serve, serveVars
<1>3. RenewalInv'
  BY DEF IInv, TypeOK, RenewalInv, Recheck, Serve, serveVars, flightVars
<1>4. LeaseInv'
  BY DEF IInv, TypeOK, LeaseInv, Timely, Recheck, Phased, Abandon, Serve,
       lockVars, serveVars, flightVars
<1>5. FenceInv'
  BY DEF IInv, TypeOK, HistoryInv, RenewalInv, FenceInv, Timely, Recheck,
       Phased, Abandon, Serve, serveVars
<1>6. TheftInv'
  BY ZenonT(60) DEF IInv, TypeOK, TheftInv, Recheck, Phased, Abandon, lockVars
<1>q. QED  BY <1>1, <1>2, <1>3, <1>4, <1>5, <1>6 DEF IInv

\* Beginning to serve: sound only from a timely setup, when FenceInv says
\* that the others' renewals are too old to be alive.
LEMMA CreateSocketInv ==
    ASSUME IInv, NEW q \in Replica, CreateSocket(q) PROVE IInv'
<1> USE TimingTypes, Timing, Budget
<1>1. TypeOK'
  BY DEF IInv, TypeOK, Phase, CreateSocket, Phased, Abandon, Serve,
       lockVars, flightVars
<1>2. HistoryInv'
  BY DEF IInv, TypeOK, HistoryInv, CreateSocket, Phased, Abandon, Serve
<1>3. RenewalInv'
  BY DEF IInv, TypeOK, RenewalInv, CreateSocket, Serve, flightVars
<1>4. LeaseInv'
  <2>1. sound'[q] => Timely(q)
    BY DEF IInv, TypeOK, Timely, CreateSocket
  <2>2. owner' = owner /\ ttl' = ttl /\ since'[q] = 0 /\ flight' = flight /\ fage' = fage
    BY DEF IInv, TypeOK, CreateSocket, Serve, lockVars, flightVars
  <2>3. \A r \in Replica \ {q} : /\ sound'[r] = sound[r] /\ fresh'[r] = fresh[r]
                                 /\ since'[r] = since[r] /\ wait'[r] = wait[r]
    BY DEF IInv, CreateSocket, Phased, Abandon, Serve
  <2>4. ~fresh'[q]
    BY DEF IInv, TypeOK, CreateSocket, Abandon
  <2>q. QED  BY <2>1, <2>2, <2>3, <2>4 DEF IInv, TypeOK, LeaseInv, Timely
<1>5. FenceInv'
  BY DEF IInv, TypeOK, LeaseInv, FenceInv, Timely, CreateSocket, Phased,
       Abandon, Serve
<1>6. TheftInv'
  BY DEF IInv, TypeOK, TheftInv, CreateSocket, Phased, Abandon, lockVars
<1>q. QED  BY <1>1, <1>2, <1>3, <1>4, <1>5, <1>6 DEF IInv

\* A throw during the initialization leaves lock and renewal alone.
LEMMA InitErrorInv ==
    ASSUME IInv, NEW q \in Replica, InitError(q) PROVE IInv'
<1> USE TimingTypes, Timing, Budget
<1>1. TypeOK'
  BY DEF IInv, TypeOK, Phase, InitError, Phased, Abandon, lockVars,
       serveVars, flightVars
<1>2. HistoryInv'
  BY DEF IInv, TypeOK, HistoryInv, InitError, Phased, Abandon, serveVars
<1>3. RenewalInv'
  BY DEF IInv, RenewalInv, InitError, serveVars, flightVars
<1>4. LeaseInv'
  BY DEF IInv, TypeOK, LeaseInv, Timely, InitError, Phased, Abandon,
       lockVars, serveVars, flightVars
<1>5. FenceInv'
  BY DEF IInv, TypeOK, FenceInv, Timely, InitError, Phased, Abandon, serveVars
<1>6. TheftInv'
  BY DEF IInv, TypeOK, TheftInv, InitError, Phased, Abandon, lockVars
<1>q. QED  BY <1>1, <1>2, <1>3, <1>4, <1>5, <1>6 DEF IInv

\* A heartbeat's script in Redis extends only its own lease.
LEMMA BeatFireInv ==
    ASSUME IInv, NEW q \in Replica, BeatFire(q) PROVE IInv'
<1> USE TimingTypes, Timing, Budget
<1>1. TypeOK'
  BY DEF IInv, TypeOK, Answer, BeatFire, initVars
<1>2. HistoryInv'
  BY DEF IInv, HistoryInv, BeatFire, initVars
<1>3. RenewalInv'
  BY DEF IInv, TypeOK, RenewalInv, BeatFire
<1>4. LeaseInv'
  BY DEF IInv, TypeOK, LeaseInv, Timely, BeatFire, initVars
<1>5. FenceInv'
  BY DEF IInv, FenceInv, Timely, BeatFire, initVars
<1>6. TheftInv'
  BY DEF IInv, TheftInv, BeatFire, initVars
<1>q. QED  BY <1>1, <1>2, <1>3, <1>4, <1>5, <1>6 DEF IInv

\* The answer to a heartbeat, renewed, lost or failed.
LEMMA BeatReplyInv ==
    ASSUME IInv, NEW q \in Replica, BeatReply(q) PROVE IInv'
<1> USE TimingTypes, Timing, Budget
<1>1. TypeOK'
  <2>1. CASE Renewed(q)
    BY <2>1 DEF IInv, TypeOK, Answer, BeatReply, Renewed, lockVars, initVars
  <2>2. CASE flight[q] = "lost" /\ ForceTerminate(q)
    BY <2>2, ForceTerminateType DEF IInv, TypeOK, Answer, BeatReply,
         lockVars, initVars
  <2>3. CASE BeatError(q) /\ ForceTerminate(q)
    BY <2>3, ForceTerminateType DEF IInv, TypeOK, Answer, BeatReply,
         lockVars, initVars
  <2>4. CASE BeatError(q) /\ ~ForceTerminate(q)
    <3>1. fail' \in [Replica -> 0..(HbFailureLimit - 1)]
      BY <2>4 DEF IInv, TypeOK, BeatError, serveVars
    <3>q. QED  BY <2>4, <3>1 DEF IInv, TypeOK, Answer, BeatReply, BeatError,
         lockVars, initVars, serveVars
  <2>q. QED  BY <2>1, <2>2, <2>3, <2>4 DEF BeatReply
<1>2. HistoryInv'
  BY DEF IInv, TypeOK, HistoryInv, BeatReply, Renewed, BeatError,
       ForceTerminate, Serve, initVars, serveVars
<1>3. RenewalInv'
  BY DEF IInv, TypeOK, RenewalInv, BeatReply, Renewed, BeatError,
       ForceTerminate, Serve, serveVars
<1>4. LeaseInv'
  BY DEF IInv, TypeOK, LeaseInv, Timely, BeatReply, Renewed, BeatError,
       ForceTerminate, Serve, lockVars, initVars, serveVars
<1>5. FenceInv'
  BY DEF IInv, TypeOK, LeaseInv, FenceInv, Timely, BeatReply, Renewed,
       BeatError, ForceTerminate, Serve, initVars, serveVars
<1>6. TheftInv'
  BY DEF IInv, TheftInv, BeatReply, Renewed, BeatError, ForceTerminate,
       lockVars, initVars
<1>q. QED  BY <1>1, <1>2, <1>3, <1>4, <1>5, <1>6 DEF IInv

\* The watchdog's termination preserves the invariant.
LEMMA WatchdogInv ==
    ASSUME IInv, NEW q \in Replica, Watchdog(q) PROVE IInv'
<1> USE TimingTypes, Timing, Budget
<1>1. TypeOK'
  BY DEF IInv, TypeOK, Watchdog, ForceTerminate, Serve, lockVars, initVars,
       flightVars
<1>2. HistoryInv'
  BY DEF IInv, TypeOK, HistoryInv, Watchdog, ForceTerminate, Serve, initVars
<1>3. RenewalInv'
  BY DEF IInv, TypeOK, RenewalInv, Watchdog, ForceTerminate, Serve, flightVars
<1>4. LeaseInv'
  BY DEF IInv, TypeOK, LeaseInv, Timely, Watchdog, ForceTerminate, Serve,
       lockVars, initVars, flightVars
<1>5. FenceInv'
  BY DEF IInv, TypeOK, FenceInv, Timely, Watchdog, ForceTerminate, Serve,
       initVars
<1>6. TheftInv'
  BY DEF IInv, TheftInv, Watchdog, ForceTerminate, lockVars, initVars
<1>q. QED  BY <1>1, <1>2, <1>3, <1>4, <1>5, <1>6 DEF IInv

\* Any other force-termination preserves the invariant.
LEMMA TerminateInv ==
    ASSUME IInv, NEW q \in Replica, Terminate(q) PROVE IInv'
<1> USE TimingTypes, Timing, Budget
<1>1. TypeOK'
  BY DEF IInv, TypeOK, Terminate, ForceTerminate, Serve, lockVars, initVars,
       flightVars
<1>2. HistoryInv'
  BY DEF IInv, TypeOK, HistoryInv, Terminate, ForceTerminate, Serve, initVars
<1>3. RenewalInv'
  BY DEF IInv, TypeOK, RenewalInv, Terminate, ForceTerminate, Serve, flightVars
<1>4. LeaseInv'
  BY DEF IInv, TypeOK, LeaseInv, Timely, Terminate, ForceTerminate, Serve,
       lockVars, initVars, flightVars
<1>5. FenceInv'
  BY DEF IInv, TypeOK, FenceInv, Timely, Terminate, ForceTerminate, Serve,
       initVars
<1>6. TheftInv'
  BY DEF IInv, TheftInv, Terminate, ForceTerminate, lockVars, initVars
<1>q. QED  BY <1>1, <1>2, <1>3, <1>4, <1>5, <1>6 DEF IInv

\* The compare-and-delete takes away no lease but one's own.
LEMMA ReleaseInv ==
    ASSUME IInv, NEW q \in Replica, Release(q) PROVE IInv'
<1> USE TimingTypes, Timing, Budget
<1>1. TypeOK'
  <2>1. owner' \in Replica \cup {NoOwner} /\ ttl' \in 0..Ttl
    BY DEF IInv, TypeOK, Release, lockVars
  <2>2. fresh' \in [Replica -> BOOLEAN] /\ sound' \in [Replica -> BOOLEAN]
    BY DEF IInv, TypeOK, Release
  <2>3. releasing' \in [Replica -> BOOLEAN]
    BY DEF IInv, TypeOK, Release
  <2>q. QED  BY <2>1, <2>2, <2>3 DEF IInv, TypeOK, Release, flightVars
<1>2. HistoryInv'
  BY DEF IInv, TypeOK, HistoryInv, Release
<1>3. RenewalInv'
  BY DEF IInv, RenewalInv, Release, flightVars
<1>4. LeaseInv'
  BY DEF IInv, TypeOK, LeaseInv, Timely, Release, lockVars, flightVars
<1>5. FenceInv'
  BY DEF IInv, TypeOK, FenceInv, Timely, Release
<1>6. TheftInv'
  BY DEF IInv, TheftInv, Release, lockVars
<1>q. QED  BY <1>1, <1>2, <1>3, <1>4, <1>5, <1>6 DEF IInv

\* A release that Redis never executes preserves the invariant.
LEMMA ReleaseFailsInv ==
    ASSUME IInv, NEW q \in Replica, ReleaseFails(q) PROVE IInv'
<1> USE TimingTypes, Timing, Budget
<1>1. TypeOK'
  BY DEF IInv, TypeOK, ReleaseFails, lockVars, initVars, serveVars, flightVars
<1>2. HistoryInv'
  BY DEF IInv, HistoryInv, ReleaseFails, initVars, serveVars
<1>3. RenewalInv'
  BY DEF IInv, RenewalInv, ReleaseFails, serveVars, flightVars
<1>4. LeaseInv'
  BY DEF IInv, LeaseInv, Timely, ReleaseFails, lockVars, initVars,
       serveVars, flightVars
<1>5. FenceInv'
  BY DEF IInv, FenceInv, Timely, ReleaseFails, initVars, serveVars
<1>6. TheftInv'
  BY DEF IInv, TheftInv, ReleaseFails, lockVars, initVars
<1>q. QED  BY <1>1, <1>2, <1>3, <1>4, <1>5, <1>6 DEF IInv

\* Closing the socket alone preserves the invariant.
LEMMA CloseSocketInv ==
    ASSUME IInv, NEW q \in Replica, CloseSocket(q) PROVE IInv'
<1> USE TimingTypes, Timing, Budget
<1>1. TypeOK'
  BY DEF IInv, TypeOK, CloseSocket, lockVars, initVars, flightVars
<1>2. HistoryInv'
  BY DEF IInv, HistoryInv, CloseSocket, initVars
<1>3. RenewalInv'
  BY DEF IInv, RenewalInv, CloseSocket, flightVars
<1>4. LeaseInv'
  BY DEF IInv, LeaseInv, Timely, CloseSocket, lockVars, initVars, flightVars
<1>5. FenceInv'
  BY DEF IInv, FenceInv, Timely, CloseSocket, initVars
<1>6. TheftInv'
  BY DEF IInv, TheftInv, CloseSocket, lockVars, initVars
<1>q. QED  BY <1>1, <1>2, <1>3, <1>4, <1>5, <1>6 DEF IInv

\* Removing the session after a logout preserves the invariant.
LEMMA LoggedOutInv ==
    ASSUME IInv, NEW q \in Replica, LoggedOut(q) PROVE IInv'
<1> USE TimingTypes, Timing, Budget
<1>1. TypeOK'
  BY DEF IInv, TypeOK, LoggedOut, Serve, lockVars, initVars, flightVars
<1>2. HistoryInv'
  BY DEF IInv, TypeOK, HistoryInv, LoggedOut, Serve, initVars
<1>3. RenewalInv'
  BY DEF IInv, TypeOK, RenewalInv, LoggedOut, Serve, flightVars
<1>4. LeaseInv'
  BY DEF IInv, TypeOK, LeaseInv, Timely, LoggedOut, Serve, lockVars,
       initVars, flightVars
<1>5. FenceInv'
  BY DEF IInv, TypeOK, FenceInv, Timely, LoggedOut, Serve, initVars
<1>6. TheftInv'
  BY DEF IInv, TheftInv, LoggedOut, lockVars, initVars
<1>q. QED  BY <1>1, <1>2, <1>3, <1>4, <1>5, <1>6 DEF IInv

\* A crash loses everything but the lock.
LEMMA CrashInv ==
    ASSUME IInv, NEW q \in Replica, Crash(q) PROVE IInv'
<1> USE TimingTypes, Timing, Budget
<1>1. TypeOK'
  BY DEF IInv, TypeOK, Phase, Answer, Crash, Phased, Serve, lockVars
<1>2. HistoryInv'
  BY DEF IInv, TypeOK, HistoryInv, Crash, Phased, Serve
<1>3. RenewalInv'
  BY DEF IInv, TypeOK, RenewalInv, Crash, Serve
<1>4. LeaseInv'
  BY DEF IInv, TypeOK, LeaseInv, Timely, Crash, Phased, Serve, lockVars
<1>5. FenceInv'
  BY DEF IInv, TypeOK, FenceInv, Timely, Crash, Phased, Serve
<1>6. TheftInv'
  BY DEF IInv, TypeOK, TheftInv, Crash, Phased, lockVars
<1>q. QED  BY <1>1, <1>2, <1>3, <1>4, <1>5, <1>6 DEF IInv

\* A new process starts with nothing and owns nothing.
LEMMA RestartInv ==
    ASSUME IInv, NEW q \in Replica, Restart(q) PROVE IInv'
<1> USE TimingTypes, Timing, Budget
<1>1. TypeOK'
  BY DEF IInv, TypeOK, Phase, Restart, Phased, lockVars, serveVars, flightVars
<1>2. HistoryInv'
  BY DEF IInv, HistoryInv, Restart, Phased, serveVars
<1>3. RenewalInv'
  BY DEF IInv, RenewalInv, Restart, serveVars, flightVars
<1>4. LeaseInv'
  BY DEF IInv, HistoryInv, LeaseInv, Timely, Restart, Phased, lockVars,
       serveVars, flightVars
<1>5. FenceInv'
  BY DEF IInv, HistoryInv, FenceInv, Timely, Restart, Phased, serveVars
<1>6. TheftInv'
  BY DEF IInv, TheftInv, Restart, Phased, lockVars
<1>q. QED  BY <1>1, <1>2, <1>3, <1>4, <1>5, <1>6 DEF IInv

\* Time: ages grow and the lease shrinks by the same tick; a lease that
\* expires is old enough by Budget.
LEMMA TickInv ==
    ASSUME IInv, Tick PROVE IInv'
<1> USE TimingTypes, Timing, Budget
<1>1. TypeOK'
  <2>1. owner' \in Replica \cup {NoOwner} /\ ttl' \in 0..Ttl
    BY DEF IInv, TypeOK, Tick
  <2>2. wait' \in [Replica -> 0..WaitCap]
    BY DEF IInv, TypeOK, Tick
  <2>3. since' \in [Replica -> Nat] /\ beat' \in [Replica -> 0..HbPeriod]
    BY DEF IInv, TypeOK, Tick, MayTick
  <2>4. fage' \in [Replica -> 0..Latency]
    BY DEF IInv, TypeOK, Tick, MayTick
  <2>q. QED  BY <2>1, <2>2, <2>3, <2>4 DEF IInv, TypeOK, Tick
<1>2. HistoryInv'
  BY DEF IInv, HistoryInv, Tick, MayTick
<1>3. RenewalInv'
  BY DEF IInv, TypeOK, RenewalInv, Tick, MayTick
<1>4. LeaseInv'
  <2>1. Fence + SetupMax < Ttl /\ Latency < Ttl
    OBVIOUS
  <2>2. \A r \in Replica : sound[r] => since'[r] = since[r] + 1
    BY DEF IInv, HistoryInv, Tick
  <2>6. \A r \in Replica : flight[r] # "none" => fage'[r] = fage[r] + 1 /\ fage'[r] <= Latency
    BY DEF IInv, TypeOK, Tick, MayTick
  <2>7. \A r \in Replica : Timely(r)' => Timely(r) /\ wait'[r] = wait[r] + 1 /\ wait'[r] <= Lag
    BY DEF IInv, TypeOK, HistoryInv, Timely, Tick
  <2>3. sound' = sound /\ fresh' = fresh /\ flight' = flight
    BY DEF Tick
  <2>4. CASE ttl > 1
    <3>1. owner' = owner /\ ttl' = ttl - 1 /\ ttl' # 0 /\ owner # NoOwner
      BY <2>4 DEF IInv, TypeOK, LeaseInv, Tick
    <3>2. owner' = NoOwner <=> ttl' = 0
      BY <2>2, <2>6, <2>7, <2>3, <3>1 DEF IInv, LeaseInv
    <3>3. \A r \in Replica : sound'[r] =>
            IF owner' = r THEN Ttl <= ttl' + since'[r] + Lag
                          ELSE Ttl <= since'[r] + Lag
      BY <2>2, <2>6, <2>7, <2>3, <3>1 DEF IInv, TypeOK, LeaseInv
    <3>4. \A r \in Replica : (sound'[r] \/ fresh'[r]) /\ flight'[r] = "renewed"
                           => owner' = r /\ Ttl <= ttl' + fage'[r]
      BY <2>2, <2>6, <2>7, <2>3, <3>1 DEF IInv, TypeOK, LeaseInv
    <3>5. \A r \in Replica : Timely(r)' => owner' = r /\ Ttl <= ttl' + wait'[r]
      BY <2>2, <2>6, <2>7, <2>3, <3>1 DEF IInv, TypeOK, LeaseInv
    <3>q. QED  BY <3>2, <3>3, <3>4, <3>5 DEF LeaseInv, Timely
  <2>5. CASE ttl <= 1
    <3>1. owner' = NoOwner /\ ttl' = 0
      BY <2>5 DEF IInv, TypeOK, Tick
    <3>2. \A r \in Replica : ~Timely(r)'
      BY <2>1, <2>2, <2>6, <2>7, <2>5, <3>1 DEF IInv, TypeOK, LeaseInv
    <3>3. \A r \in Replica : ~((sound[r] \/ fresh[r]) /\ flight[r] = "renewed")
      BY <2>1, <2>2, <2>6, <2>7, <2>5 DEF IInv, TypeOK, LeaseInv
    <3>4. owner' = NoOwner <=> ttl' = 0
      BY <2>2, <2>6, <2>7, <2>3, <2>5, <3>1, <3>2, <3>3 DEF IInv, LeaseInv
    <3>5. \A r \in Replica : sound'[r] =>
            IF owner' = r THEN Ttl <= ttl' + since'[r] + Lag
                          ELSE Ttl <= since'[r] + Lag
      BY <2>2, <2>6, <2>7, <2>3, <2>5, <3>1, <3>2, <3>3 DEF IInv, TypeOK,
           LeaseInv
    <3>6. \A r \in Replica : (sound'[r] \/ fresh'[r]) /\ flight'[r] = "renewed"
                           => owner' = r /\ Ttl <= ttl' + fage'[r]
      BY <2>2, <2>6, <2>7, <2>3, <2>5, <3>1, <3>2, <3>3 DEF IInv, LeaseInv
    <3>7. \A r \in Replica : Timely(r)' => owner' = r /\ Ttl <= ttl' + wait'[r]
      BY <2>2, <2>6, <2>7, <2>3, <2>5, <3>1, <3>2, <3>3 DEF IInv, LeaseInv
    <3>q. QED  BY <3>4, <3>5, <3>6, <3>7 DEF LeaseInv, Timely
  <2>q. QED  BY <2>4, <2>5 DEF IInv, TypeOK
<1>5. FenceInv'
  BY DEF IInv, TypeOK, HistoryInv, FenceInv, Timely, Tick, MayTick
<1>6. TheftInv'
  BY DEF IInv, TypeOK, TheftInv, Tick, MayTick
<1>q. QED  BY <1>1, <1>2, <1>3, <1>4, <1>5, <1>6 DEF IInv

\* Every step preserves the inductive invariant.
LEMMA NextInv == IInv /\ [Next]_vars => IInv'
<1> SUFFICES ASSUME IInv, [Next]_vars PROVE IInv'
  OBVIOUS
<1>1. CASE UNCHANGED vars
  BY <1>1 DEF IInv, TypeOK, HistoryInv, RenewalInv, LeaseInv, FenceInv,
       TheftInv,
     Timely, vars, lockVars, initVars, serveVars, flightVars
<1>2. ASSUME NEW q \in Replica, InitSteps(q) PROVE IInv'
  BY <1>2, BeginInv, SetNXInv, SetXXInv, RecheckInv, CreateSocketInv DEF
       InitSteps
<1>3. ASSUME NEW q \in Replica, Timers(q) PROVE IInv'
  BY <1>3, BeatFireInv, BeatReplyInv, WatchdogInv, ReleaseInv DEF Timers
<1>4. ASSUME NEW q \in Replica, Faults(q) PROVE IInv'
  BY <1>4, SetLostInv, InitErrorInv, ReleaseFailsInv, CrashInv DEF Faults
<1>5. ASSUME NEW q \in Replica, Commands(q) PROVE IInv'
  BY <1>5, TerminateInv, CloseSocketInv, LoggedOutInv DEF Commands
<1>q. QED  BY <1>1, <1>2, <1>3, <1>4, <1>5, RestartInv, TickInv DEF Next

\* Every reachable state satisfies the inductive invariant, types included.
THEOREM LeaseInvariant == Spec => []IInv
BY InitInv, NextInv, PTL DEF Spec

\* Types, for every number of replicas and every timing within the budget.
THEOREM LeaseTypes == Spec => []TypeOK
<1>1. IInv => TypeOK
  BY DEF IInv
<1>q. QED  BY <1>1, LeaseInvariant, PTL

\* No two replicas serve the session at once unless one of the named causes
\* (force-termination while initializing, late setup, theft) is at work.
THEOREM LeaseExclusion == Spec => []SplitBrainHasCause
<1>1. IInv => SplitBrainHasCause
  BY DEF IInv, FenceInv, SplitBrainHasCause
<1>q. QED  BY <1>1, LeaseInvariant, PTL

\* Every live socket has its heartbeat and watchdog.
THEOREM LeaseWatched == Spec => []SocketIsWatched
<1>1. IInv => SocketIsWatched
  BY DEF IInv, HistoryInv, SocketIsWatched
<1>q. QED  BY <1>1, LeaseInvariant, PTL

\* SET XX takes no lock from a replica past its fencing delay.
THEOREM LeaseTheft == Spec => TheftOnlyInFence
<1> DEFINE P == \A r, s \in Replica :
                  owner = s /\ owner' = r /\ r # s => init[s] # "setup"
<1>1. IInv /\ [Next]_vars => P
  <2> SUFFICES ASSUME IInv, [Next]_vars, NEW r \in Replica, NEW s \in Replica,
                      owner = s, owner' = r, r # s
               PROVE  init[s] # "setup"
    OBVIOUS
  <2>1. CASE SetXX(r)
    BY <2>1, TimingTypes, Timing DEF IInv, TypeOK, TheftInv, SetXX
  <2>2. ASSUME NEW q \in Replica, SetXX(q), q # r PROVE FALSE
    BY <2>2, TimingTypes DEF SetXX, lockVars
  <2>3. ASSUME NEW q \in Replica, SetNX(q) \/ SetLost(q) \/ Release(q) PROVE FALSE
    BY <2>3, TimingTypes DEF SetNX, SetLost, Release, lockVars
  <2>4. ASSUME Tick PROVE FALSE
    BY <2>4, TimingTypes DEF Tick
  <2>5. ASSUME UNCHANGED owner PROVE FALSE
    BY <2>5
  <2>q. QED
    BY <2>1, <2>2, <2>3, <2>4, <2>5 DEF Next, vars, lockVars, InitSteps,
         Timers, Faults,
       Commands, Begin, Recheck, CreateSocket, InitError, BeatFire, BeatReply, Watchdog,
       ReleaseFails, Terminate, CloseSocket, LoggedOut, Crash, Restart
<1>q. QED  BY <1>1, LeaseInvariant, PTL DEF Spec, TheftOnlyInFence

-----------------------------------------------------------------------------
(* The Signal keys of a session (usePostgresAuthState).                    *)

\* The range of each variable (usePostgresAuthState, keys.get, keys.set).
THEOREM KeyCacheTypes == KeysSpec => []KeysTypeOK
<1>1. KeysInit => KeysTypeOK
  BY KeyTypes DEF KeysInit, KeysTypeOK, Stored, At, Free
<1>2. KeysTypeOK /\ [KeysNext]_keysVars => KeysTypeOK'
  <2> SUFFICES ASSUME KeysTypeOK, [KeysNext]_keysVars PROVE KeysTypeOK'
    OBVIOUS
  <2> USE DEF KeysTypeOK, Stored, At, Free
  <2>1. ASSUME NEW k \in Keys, GetHit(k) PROVE KeysTypeOK'
    BY <2>1 DEF GetHit
  <2>2. ASSUME NEW c \in Caller, NEW k \in Keys, GetMiss(c, k) PROVE KeysTypeOK'
    BY <2>2, ZenonT(60) DEF GetMiss
  <2>3. ASSUME NEW c \in Caller, Fetch(c) PROVE KeysTypeOK'
    BY <2>3, ZenonT(60) DEF Fetch
  <2>4. ASSUME NEW c \in Caller, Fill(c) PROVE KeysTypeOK'
    BY <2>4 DEF Fill
  <2>5. ASSUME NEW c \in Caller, FetchFails(c) PROVE KeysTypeOK'
    BY <2>5, KeyTypes DEF FetchFails
  <2>6. ASSUME NEW c \in Caller, NEW K \in SUBSET Keys, NEW data \in [K -> Stored],
               Set(c, K, data)
        PROVE KeysTypeOK'
    BY <2>6 DEF Set, Cached
  <2>7. ASSUME NEW c \in Caller, DeleteRows(c) PROVE KeysTypeOK'
    BY <2>7, ZenonT(60) DEF DeleteRows, Kept
  <2>8. ASSUME NEW c \in Caller, UpsertRows(c) PROVE KeysTypeOK'
    BY <2>8 DEF UpsertRows
  <2>9. ASSUME NEW c \in Caller, WriteFails(c) PROVE KeysTypeOK'
    BY <2>9, KeyTypes DEF WriteFails
  <2>10. CASE Reopen
    BY <2>10 DEF Reopen
  <2>11. CASE UNCHANGED keysVars
    BY <2>11 DEF keysVars
  <2>12. QED
    BY <2>1, <2>2, <2>3, <2>4, <2>5, <2>6, <2>7, <2>8, <2>9, <2>10, <2>11
    DEF KeysNext, Gets, Sets
<1>3. QED
  BY <1>1, <1>2, PTL DEF KeysSpec

-----------------------------------------------------------------------------
\* What a set of a serialized key knows while it is under way: it is alone,
\* and the cache holds what it is about to store.
SetInv(c, k) ==
    Setting(c) /\ k \in call[c].keys =>
        /\ \A d \in Caller \ {c} : k \notin call[d].keys
        /\ cache[k] = Cached(call[c].val[k])

\* A get of one finds a cache that no set has changed since.
GetInv(c, k) ==
    ~Setting(c) /\ k \in call[c].keys =>
        /\ cache[k] \in {Miss, table[k]}
        /\ call[c].at = "fetched" => call[c].val[k] = table[k]

\* A call that waits for its upserts has nothing to delete; a free one no keys.
CallInv(c) ==
    /\ call[c].at = "upserting" => Doomed(c) = {}
    /\ call[c].at = "idle" => call[c].keys = {}

SerialInv ==
    \A c \in Caller : CallInv(c) /\ \A k \in SerialKeys : SetInv(c, k) /\ GetInv(c, k)

\* No two calls meet on a serialized key, in any reachable state (the mutex of
\* Baileys around the accesses of session.auth-state.ts).
LEMMA SerialHolds == KeysSpec => []SerialInv
<1>1. KeysInit => SerialInv
  BY KeyTypes DEF KeysInit, SerialInv, CallInv, SetInv, GetInv, Setting, Free
<1>2. KeysTypeOK /\ SerialInv /\ [KeysNext]_keysVars => SerialInv'
  <2> SUFFICES ASSUME KeysTypeOK, SerialInv, [KeysNext]_keysVars PROVE SerialInv'
    OBVIOUS
  <2> USE KeyTypes DEF KeysTypeOK, SerialInv, CallInv, SetInv, GetInv, Setting, Cached, Free, Doomed
  <2>1. ASSUME NEW k \in Keys, GetHit(k) PROVE SerialInv'
    BY <2>1 DEF GetHit
  <2>2. ASSUME NEW c \in Caller, NEW k \in Keys, GetMiss(c, k) PROVE SerialInv'
    BY <2>2 DEF GetMiss, BusySet
  <2>3. ASSUME NEW c \in Caller, Fetch(c) PROVE SerialInv'
    BY <2>3 DEF Fetch
  <2>4. ASSUME NEW c \in Caller, Fill(c) PROVE SerialInv'
    BY <2>4 DEF Fill
  <2>5. ASSUME NEW c \in Caller, FetchFails(c) PROVE SerialInv'
    BY <2>5 DEF FetchFails
  <2>6. ASSUME NEW c \in Caller, NEW K \in SUBSET Keys, NEW data \in [K -> Stored],
               Set(c, K, data)
        PROVE SerialInv'
    BY <2>6 DEF Set, Busy
  <2>7. ASSUME NEW c \in Caller, DeleteRows(c) PROVE SerialInv'
    BY <2>7 DEF DeleteRows, Kept
  <2>8. ASSUME NEW c \in Caller, UpsertRows(c) PROVE SerialInv'
    BY <2>8 DEF UpsertRows
  <2>9. ASSUME NEW c \in Caller, WriteFails(c) PROVE SerialInv'
    BY <2>9 DEF WriteFails
  <2>10. CASE Reopen
    BY <2>10 DEF Reopen
  <2>11. CASE UNCHANGED keysVars
    BY <2>11 DEF keysVars
  <2>12. QED
    BY <2>1, <2>2, <2>3, <2>4, <2>5, <2>6, <2>7, <2>8, <2>9, <2>10, <2>11
    DEF KeysNext, Gets, Sets
<1>3. QED
  BY <1>1, <1>2, KeyCacheTypes, PTL DEF KeysSpec

-----------------------------------------------------------------------------
\* Each step of cache, calls and table is a step of the abstract store.  What
\* a set stores and a fill caches is what could be read before (SerialInv).
Mem  == [k \in SerialKeys |-> MemOf(k)]
Disk == [k \in SerialKeys |-> table[k]]
Answ == [k \in SerialKeys |-> answer[k]]

\* keys.get and keys.set, saveCreds apart: reads of serialized keys are never
\* stale, and a restart finds what was stored (header of session.auth-state.ts).
THEOREM KeyCacheImplementsStore == KeysSpec => ImplementsStore
<1>1. KeysInit => Store!Init
  BY KeyTypes DEF KeysInit, Store!Init, Stored, MemOf, Free
<1>2. ASSUME KeysTypeOK, SerialInv, [KeysNext]_keysVars PROVE [Store!Next]_(Store!vars)
  <2> USE KeyTypes, <1>2 DEF KeysTypeOK
  <2> SUFFICES \/ Store!Next
               \/ Mem' = Mem /\ Disk' = Disk /\ Answ' = Answ /\ faults' = faults
    BY DEF Store!vars, Mem, Disk, Answ
  <2>1. ASSUME NEW k \in Keys, GetHit(k) PROVE Store!Next
              \/ (Mem' = Mem /\ Disk' = Disk /\ Answ' = Answ /\ faults' = faults)
    <3>1. Mem' = Mem /\ Disk' = Disk /\ faults' = faults
      BY <2>1 DEF GetHit, Mem, Disk, MemOf, Doomed
    <3>2. CASE k \in SerialKeys
      <4>1. Answ' = [Answ EXCEPT ![k] = Mem[k]]
        BY <2>1, <3>2 DEF GetHit, Answ, Mem, MemOf
      <4>2. Store!Read
        BY <3>1, <3>2, <4>1 DEF Store!Read, Mem, Disk, Answ
      <4>3. QED
        BY <4>2 DEF Store!Next
    <3>3. CASE k \notin SerialKeys
      BY <2>1, <3>1, <3>3 DEF GetHit, Answ
    <3>4. QED
      BY <3>2, <3>3
  <2>2. ASSUME NEW c \in Caller, NEW k \in Keys, GetMiss(c, k)
        PROVE Mem' = Mem /\ Disk' = Disk /\ Answ' = Answ /\ faults' = faults
    <3>1. ASSUME NEW d \in Caller
          PROVE (call[d].at = "deleting")' = (call[d].at = "deleting")
                /\ (call[d].at = "deleting" => Doomed(d)' = Doomed(d))
      BY <2>2 DEF GetMiss, Free, Doomed
    <3>2. ASSUME NEW j \in SerialKeys PROVE MemOf(j)' = MemOf(j)
      <4>1. (\E d \in Caller : call[d].at = "deleting" /\ j \in Doomed(d))'
              = \E d \in Caller : call[d].at = "deleting" /\ j \in Doomed(d)
        BY <3>1
      <4>2. QED
        BY <2>2, <4>1 DEF GetMiss, MemOf
    <3>3. QED
      BY <2>2, <3>2 DEF GetMiss, Mem, Disk, Answ
  <2>3. ASSUME NEW c \in Caller, Fetch(c)
        PROVE Mem' = Mem /\ Disk' = Disk /\ Answ' = Answ /\ faults' = faults
    BY <2>3 DEF Fetch, Mem, Disk, Answ, MemOf, Doomed
  <2>4. ASSUME NEW c \in Caller, Fill(c) PROVE Store!Next
              \/ (Mem' = Mem /\ Disk' = Disk /\ Answ' = Answ /\ faults' = faults)
    <3>1. PICK k \in call[c].keys : /\ cache' = [cache EXCEPT ![k] = call[c].val[k]]
                                    /\ answer' = [answer EXCEPT ![k] = call[c].val[k]]
      BY <2>4 DEF Fill
    <3>2. k \in Keys /\ call[c].val[k] # Miss
      BY DEF Stored
    <3>3. ASSUME k \in SerialKeys PROVE MemOf(k) = call[c].val[k] /\ MemOf(k)' = call[c].val[k]
      BY <2>4, <3>1, <3>2, <3>3 DEF Fill, MemOf, SerialInv, SetInv, GetInv, Setting, Doomed
    <3>4. ASSUME NEW j \in SerialKeys, j # k PROVE MemOf(j)' = MemOf(j)
      BY <2>4, <3>1, <3>2, <3>4 DEF Fill, MemOf, Doomed, Free
    <3>5. Mem' = Mem /\ Disk' = Disk /\ faults' = faults
      BY <2>4, <3>3, <3>4 DEF Fill, Mem, Disk
    <3>6. CASE k \in SerialKeys
      <4>1. Answ' = [Answ EXCEPT ![k] = Mem[k]]
        BY <3>1, <3>2, <3>3, <3>6 DEF Answ, Mem
      <4>2. Store!Read
        BY <3>5, <3>6, <4>1 DEF Store!Read, Mem, Disk, Answ
      <4>3. QED
        BY <4>2 DEF Store!Next
    <3>7. CASE k \notin SerialKeys
      BY <3>1, <3>5, <3>7 DEF Answ
    <3>8. QED
      BY <3>6, <3>7
  <2>5. ASSUME NEW c \in Caller, FetchFails(c) PROVE Store!Next
    <3>1. PICK k \in call[c].keys : answer' = [answer EXCEPT ![k] = None]
      BY <2>5 DEF FetchFails
    <3>2. Mem' = Mem /\ Disk' = Disk /\ faults' = faults + 1
      BY <2>5 DEF FetchFails, Mem, Disk, MemOf, Doomed, Free
    <3>3. Answ' = [j \in SerialKeys |-> IF j \in {k} \cap SerialKeys THEN None ELSE Answ[j]]
      BY <3>1 DEF Answ
    <3>4. Store!ReadFails
      BY <3>2, <3>3 DEF Store!ReadFails, Mem, Disk, Answ
    <3>5. QED
      BY <3>4 DEF Store!Next
  <2>6. ASSUME NEW c \in Caller, NEW K \in SUBSET Keys, NEW data \in [K -> Stored],
               Set(c, K, data)
        PROVE Store!Next
    <3>1. Disk' = Disk /\ Answ' = Answ /\ faults' = faults
      BY <2>6 DEF Set, Disk, Answ
    <3> DEFINE D == [k \in K \cap SerialKeys |-> data[k]]
    <3>2. ASSUME NEW k \in K \cap SerialKeys PROVE MemOf(k)' = data[k]
      <4>1. data[k] \in Stored /\ data[k] # Miss /\ k \in Keys
        BY DEF Stored
      <4>2. CASE data[k] = None
        BY <2>6, <4>1, <4>2 DEF Set, MemOf, Cached, Doomed
      <4>3. CASE data[k] # None
        BY <2>6, <4>1, <4>3 DEF Set, MemOf, Cached, Doomed
      <4>4. QED
        BY <4>2, <4>3
    <3>3. ASSUME NEW k \in SerialKeys \ K PROVE MemOf(k)' = MemOf(k)
      BY <2>6 DEF Set, MemOf, Doomed, Free
    <3>4. Mem' = [k \in SerialKeys |-> IF k \in K \cap SerialKeys THEN D[k] ELSE Mem[k]]
      BY <3>2, <3>3 DEF Mem
    <3>5. D \in [K \cap SerialKeys -> Values \cup {None}]
      BY DEF Stored
    <3> HIDE DEF D
    <3>6. \E J \in SUBSET SerialKeys : \E d \in [J -> Values \cup {None}] :
            Mem' = [k \in SerialKeys |-> IF k \in J THEN d[k] ELSE Mem[k]]
      BY <3>4, <3>5, K \cap SerialKeys \in SUBSET SerialKeys
    <3>7. Store!Put
      BY <3>1, <3>6 DEF Store!Put, Mem, Disk, Answ
    <3>8. QED
      BY <3>7 DEF Store!Next
  <2>7. ASSUME NEW c \in Caller, DeleteRows(c) PROVE Store!Next
    <3>1. Answ' = Answ /\ faults' = faults
      BY <2>7 DEF DeleteRows, Answ
    <3>2. ASSUME NEW k \in SerialKeys
          PROVE /\ MemOf(k)' = MemOf(k)
                /\ table'[k] = IF k \in Doomed(c) \cap SerialKeys THEN MemOf(k) ELSE table[k]
      <4>1. CASE k \in Doomed(c)
        BY <2>7, <3>2, <4>1 DEF DeleteRows, MemOf, Doomed, SerialInv, SetInv, Setting, Cached
      <4>2. CASE k \notin Doomed(c)
        BY <2>7, <3>2, <4>2 DEF DeleteRows, MemOf, Doomed, Free
      <4>3. QED
        BY <4>1, <4>2
    <3>3. /\ Mem' = Mem
          /\ Disk' = [k \in SerialKeys |-> IF k \in Doomed(c) \cap SerialKeys THEN Mem[k] ELSE Disk[k]]
      BY <3>2 DEF Mem, Disk
    <3>4. Store!Persist
      BY <3>1, <3>3 DEF Store!Persist, Mem, Disk, Answ
    <3>5. QED
      BY <3>4 DEF Store!Next
  <2>8. ASSUME NEW c \in Caller, UpsertRows(c) PROVE Store!Next
    <3>1. Answ' = Answ /\ faults' = faults
      BY <2>8 DEF UpsertRows, Answ
    <3> DEFINE U == call[c].keys \cap SerialKeys
    <3>2. ASSUME NEW k \in SerialKeys
          PROVE /\ MemOf(k)' = MemOf(k)
                /\ table'[k] = IF k \in U THEN MemOf(k) ELSE table[k]
      <4>1. CASE k \in call[c].keys
        <5>1. call[c].val[k] \in Values /\ cache[k] = call[c].val[k] /\ cache[k] # Miss
          BY <2>8, <3>2, <4>1
          DEF UpsertRows, SerialInv, SetInv, CallInv, Setting, Cached, Doomed, Stored
        <5>2. QED
          BY <2>8, <3>2, <4>1, <5>1 DEF UpsertRows, MemOf
      <4>2. CASE k \notin call[c].keys
        BY <2>8, <3>2, <4>2 DEF UpsertRows, MemOf, Doomed, Free
      <4>3. QED
        BY <4>1, <4>2
    <3>3. /\ Mem' = Mem
          /\ Disk' = [k \in SerialKeys |-> IF k \in U THEN Mem[k] ELSE Disk[k]]
      BY <3>2 DEF Mem, Disk
    <3>4. Store!Persist
      BY <3>1, <3>3 DEF Store!Persist, Mem, Disk, Answ
    <3>5. QED
      BY <3>4 DEF Store!Next
  <2>9. ASSUME NEW c \in Caller, WriteFails(c) PROVE Store!Next
    <3>1. Disk' = Disk /\ Answ' = Answ /\ faults' = faults + 1
      BY <2>9 DEF WriteFails, Disk, Answ
    <3> DEFINE W == {k \in SerialKeys : MemOf(k)' # MemOf(k)}
    <3>2. ASSUME NEW k \in SerialKeys, MemOf(k)' # MemOf(k) PROVE MemOf(k)' = table[k]
      BY <2>9, <3>2 DEF WriteFails, MemOf, Doomed, Free
    <3>3. Mem' = [k \in SerialKeys |-> IF k \in W THEN Disk[k] ELSE Mem[k]]
      BY <3>2 DEF Mem, Disk
    <3>4. Store!WriteFails
      BY <3>1, <3>3 DEF Store!WriteFails, Mem, Disk, Answ
    <3>5. QED
      BY <3>4 DEF Store!Next
  <2>10. CASE Reopen
    <3>1. Disk' = Disk /\ Answ' = Answ /\ faults' = faults
      BY <2>10 DEF Reopen, Disk, Answ
    <3>2. Mem' = Disk
      BY <2>10 DEF Reopen, Mem, Disk, MemOf, Free
    <3>3. Store!Restart
      BY <3>1, <3>2 DEF Store!Restart, Mem, Disk, Answ
    <3>4. QED
      BY <3>3 DEF Store!Next
  <2>11. CASE UNCHANGED keysVars
    BY <2>11 DEF keysVars, Mem, Disk, Answ, MemOf, Doomed
  <2>12. QED
    BY <2>1, <2>2, <2>3, <2>4, <2>5, <2>6, <2>7, <2>8, <2>9, <2>10, <2>11
    DEF KeysNext, Gets, Sets
<1>3. QED
  BY <1>1, <1>2, KeyCacheTypes, SerialHolds, PTL DEF KeysSpec, ImplementsStore, Store!Spec

-----------------------------------------------------------------------------
\* Where no calls overlapped and nothing failed: a set is alone with the key and
\* is about to make the row the last value, which the cache holds already; without
\* one the row is the last value, and so is what a get has fetched.
SetDue(c, k) ==
    Setting(c) /\ k \in call[c].keys =>
        /\ \A d \in Caller \ {c} : k \notin call[d].keys
        /\ call[c].val[k] = last[k] /\ cache[k] = Cached(last[k])

RestDue(k) == ~BusySet(k) => table[k] = last[k] /\ cache[k] \in {Miss, last[k]}

FetchDue(c, k) == call[c].at = "fetched" /\ k \in call[c].keys => call[c].val[k] = last[k]

KeyDue(k) == RestDue(k) /\ \A c \in Caller : SetDue(c, k) /\ FetchDue(c, k)

DueInv == \A k \in Keys \ raced : KeyDue(k)

\* A call that is free has no keys, one that reads has not set.
CallsInv == \A c \in Caller : CallInv(c)

LEMMA NextDue == KeysTypeOK /\ CallsInv /\ DueInv /\ [KeysNext]_keysVars => DueInv'
<1> SUFFICES ASSUME KeysTypeOK, CallsInv, DueInv, [KeysNext]_keysVars, NEW k \in Keys, k \notin raced'
             PROVE  KeyDue(k)'
  BY DEF DueInv
<1> USE KeyTypes DEF KeysTypeOK, CallsInv, CallInv, DueInv, KeyDue, RestDue, SetDue, FetchDue, Setting,
  BusySet, Cached, Free, Doomed
<1>1. ASSUME NEW q \in Keys, GetHit(q) PROVE KeyDue(k)'
  BY <1>1 DEF GetHit
<1>2. ASSUME NEW c \in Caller, NEW q \in Keys, GetMiss(c, q) PROVE KeyDue(k)'
  <2>1. /\ ~BusySet(q) \/ k # q
        /\ \A d \in Caller : d # c => call'[d] = call[d]
        /\ call[c].at = "idle" /\ call'[c].at = "asking" /\ call'[c].keys = {q}
        /\ UNCHANGED <<table, cache, last>> /\ k \notin raced
    BY <1>2 DEF GetMiss
  <2>2. CASE k # q
    <3>1. \A d \in Caller : /\ Setting(d)' => d # c /\ Setting(d)
                            /\ Setting(d) => d # c
                            /\ k \in call'[d].keys => d # c
      BY <2>1, <2>2
    <3>2. KeyDue(k)
      BY <2>1
    <3>3. RestDue(k)'
      BY <2>1, <3>1, <3>2
    <3>4. ASSUME NEW d \in Caller PROVE SetDue(d, k)' /\ FetchDue(d, k)'
      BY <2>1, <3>1, <3>2
    <3>5. QED
      BY <3>3, <3>4
  <2>3. CASE k = q
    <3>1. ~BusySet(k) /\ table[k] = last[k] /\ cache[k] \in {Miss, last[k]}
      BY <2>1, <2>3
    <3>2. ~BusySet(k)'
      BY <2>1, <3>1
    <3>3. QED
      BY <2>1, <3>1, <3>2
  <2>4. QED
    BY <2>2, <2>3
<1>3. ASSUME NEW c \in Caller, Fetch(c) PROVE KeyDue(k)'
  <2>1. /\ \A d \in Caller : d # c => call'[d] = call[d]
        /\ call[c].at = "asking" /\ call'[c].at = "fetched" /\ call'[c].keys = call[c].keys
        /\ k \in call[c].keys => call'[c].val[k] = table[k]
        /\ UNCHANGED <<table, cache, last>> /\ k \notin raced
    BY <1>3 DEF Fetch
  <2>2. QED
    BY <2>1, SMTT(60)
<1>4. ASSUME NEW c \in Caller, Fill(c) PROVE KeyDue(k)'
  BY <1>4 DEF Fill
<1>5. ASSUME NEW c \in Caller, FetchFails(c) PROVE KeyDue(k)'
  BY <1>5 DEF FetchFails
<1>6. ASSUME NEW c \in Caller, NEW K \in SUBSET Keys, NEW data \in [K -> Stored], Set(c, K, data)
      PROVE  KeyDue(k)'
  BY <1>6 DEF Set, Busy
<1>7. ASSUME NEW c \in Caller, DeleteRows(c) PROVE KeyDue(k)'
  BY <1>7 DEF DeleteRows, Kept
<1>8. ASSUME NEW c \in Caller, UpsertRows(c) PROVE KeyDue(k)'
  BY <1>8 DEF UpsertRows
<1>9. ASSUME NEW c \in Caller, WriteFails(c) PROVE KeyDue(k)'
  BY <1>9 DEF WriteFails
<1>10. CASE Reopen
  BY <1>10 DEF Reopen
<1>11. CASE UNCHANGED keysVars
  BY <1>11 DEF keysVars
<1>12. QED
  BY <1>1, <1>2, <1>3, <1>4, <1>5, <1>6, <1>7, <1>8, <1>9, <1>10, <1>11 DEF KeysNext, Gets, Sets

\* For every key, serialized or not: at rest, its row is the value set last, and its
\* cache entry that value or none, unless two calls for it overlapped or a write
\* failed (keys.get and keys.set of session.auth-state.ts).
THEOREM CacheInvHolds == KeysSpec => []CacheInv
<1>1. KeysInit => DueInv
  <2> SUFFICES ASSUME KeysInit, NEW k \in Keys PROVE KeyDue(k)
    BY DEF DueInv
  <2>1. table[k] = last[k] /\ cache[k] = Miss /\ \A c \in Caller : call[c].at = "idle"
    BY DEF KeysInit, Free
  <2>2. QED
    BY <2>1 DEF KeyDue, RestDue, SetDue, FetchDue, Setting
<1>2. KeysTypeOK /\ DueInv => CacheInv
  BY DEF KeysTypeOK, DueInv, KeyDue, RestDue, BusySet, Busy, CacheInv, StaleHasCause
<1>3. SerialInv => CallsInv
  BY DEF SerialInv, CallsInv
<1>4. QED
  BY <1>1, <1>2, <1>3, NextDue, KeyCacheTypes, SerialHolds, PTL DEF KeysSpec
=============================================================================
