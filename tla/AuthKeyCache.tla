----------------------------- MODULE AuthKeyCache -----------------------------
(***************************************************************************)
(* The Signal keys of one session (sessions/session.auth-state.ts): rows   *)
(* of session_keys, and the cache in memory that usePostgresAuthState      *)
(* makes for the socket it is called for.  Calls of keys.get and keys.set  *)
(* run concurrently, one action per stretch between two awaits; a get of   *)
(* several ids is a get of each.                                           *)
(*                                                                         *)
(* Baileys serializes the accesses it makes in transactions, by mutex.     *)
(* SerialKeys are the keys that are only accessed so (external); to others *)
(* gets and sets may overlap.  The writes of a closed socket have reached  *)
(* the database when a new one reads (initializeSocket's fencing delay).   *)
(***************************************************************************)
EXTENDS Integers

CONSTANTS
    Keys, SerialKeys, Values,
    None,        \* no row; a key to delete; the null marker in the cache
    Miss,        \* no entry in the cache; no answer yet
    Caller,      \* calls under way at once
    MaxFaults    \* bound: failures of the database

ASSUME KeyTypes ==
    /\ SerialKeys \subseteq Keys
    /\ None \notin Values /\ Miss \notin Values \cup {None}
    /\ MaxFaults \in Nat

VARIABLES
    table,       \* session_keys
    cache,       \* keysCache
    call,        \* the calls of get and set under way
    answer,      \* what the last get of each key returned
    faults,
    last, raced  \* history: last value set; keys whose calls overlapped or failed

keysVars == <<table, cache, call, answer, faults, last, raced>>

Stored == Values \cup {None}
At     == {"idle", "asking", "fetched", "deleting", "upserting"}
Free   == [at |-> "idle", keys |-> {}, val |-> [k \in Keys |-> None]]
Setting(c) == call[c].at \in {"deleting", "upserting"}
Doomed(c)  == {k \in call[c].keys : call[c].val[k] = None}
Kept(c)    == {k \in call[c].keys : call[c].val[k] # None}
Busy(k)    == \E c \in Caller : k \in call[c].keys
BusySet(k) == \E c \in Caller : Setting(c) /\ k \in call[c].keys

KeysTypeOK ==
    /\ table \in [Keys -> Stored] /\ cache \in [Keys -> Stored \cup {Miss}]
    /\ call \in [Caller -> [at : At, keys : SUBSET Keys, val : [Keys -> Stored]]]
    /\ answer \in [Keys -> Stored \cup {Miss}]
    /\ faults \in 0..MaxFaults
    /\ last \in [Keys -> Stored] /\ raced \in SUBSET Keys

KeysInit ==
    /\ table \in [Keys -> Stored]
    /\ cache = [k \in Keys |-> Miss]
    /\ call = [c \in Caller |-> Free]
    /\ answer = [k \in Keys |-> Miss] /\ faults = 0
    /\ last = table /\ raced = {}

-----------------------------------------------------------------------------
\* keys.get.  A hit answers at once, the null marker included.
GetHit(k) ==
    /\ cache[k] # Miss
    /\ answer' = [answer EXCEPT ![k] = cache[k]]
    /\ UNCHANGED <<table, cache, call, faults, last, raced>>

GetMiss(c, k) ==
    /\ call[c] = Free /\ cache[k] = Miss
    /\ k \in SerialKeys => ~BusySet(k)
    /\ call' = [call EXCEPT ![c].at = "asking", ![c].keys = {k}]
    /\ raced' = IF BusySet(k) THEN raced \cup {k} ELSE raced
    /\ UNCHANGED <<table, cache, answer, faults, last>>

Fetch(c) ==
    /\ call[c].at = "asking"
    /\ call' = [call EXCEPT ![c].at = "fetched",
                  ![c].val = [k \in Keys |-> IF k \in call[c].keys THEN table[k] ELSE None]]
    /\ UNCHANGED <<table, cache, answer, faults, last, raced>>

\* What the database answered enters the cache, whatever the cache holds by now.
Fill(c) ==
    /\ call[c].at = "fetched"
    /\ \E k \in call[c].keys :
         /\ cache' = [cache EXCEPT ![k] = call[c].val[k]]
         /\ answer' = [answer EXCEPT ![k] = call[c].val[k]]
    /\ call' = [call EXCEPT ![c] = Free]
    /\ UNCHANGED <<table, faults, last, raced>>

\* Mutant of FetchFails: the key is marked missing although nothing was read.
FetchFailsMarking(c) ==
    /\ call[c].at = "asking" /\ faults < MaxFaults
    /\ \E k \in call[c].keys : /\ answer' = [answer EXCEPT ![k] = None]
                               /\ cache' = [cache EXCEPT ![k] = None]
    /\ call' = [call EXCEPT ![c] = Free]
    /\ faults' = faults + 1
    /\ UNCHANGED <<table, last, raced>>

\* A failed query is logged; the key is reported absent and not cached.
FetchFails(c) ==
    /\ call[c].at = "asking" /\ faults < MaxFaults
    /\ \E k \in call[c].keys : answer' = [answer EXCEPT ![k] = None]
    /\ call' = [call EXCEPT ![c] = Free]
    /\ faults' = faults + 1
    /\ UNCHANGED <<table, cache, last, raced>>

-----------------------------------------------------------------------------
\* keys.set.  The cache changes first, for all keys; a deleted key leaves it.
Cached(v) == IF v = None THEN Miss ELSE v

\* Mutant of Set: a deleted key stays in the cache.
SetKeepsDeleted(c, K, data) ==
    /\ call[c] = Free
    /\ \A k \in K \cap SerialKeys : ~Busy(k)
    /\ cache' = [k \in Keys |-> IF k \in K /\ data[k] # None THEN data[k] ELSE cache[k]]
    /\ last'  = [k \in Keys |-> IF k \in K THEN data[k] ELSE last[k]]
    /\ call'  = [call EXCEPT ![c] =
         [at   |-> IF \E k \in K : data[k] = None THEN "deleting" ELSE "upserting",
          keys |-> K,
          val  |-> [k \in Keys |-> IF k \in K THEN data[k] ELSE None]]]
    /\ raced' = raced \cup {k \in K : Busy(k)}
    /\ UNCHANGED <<table, answer, faults>>

Set(c, K, data) ==
    /\ call[c] = Free
    /\ \A k \in K \cap SerialKeys : ~Busy(k)
    /\ cache' = [k \in Keys |-> IF k \in K THEN Cached(data[k]) ELSE cache[k]]
    /\ last'  = [k \in Keys |-> IF k \in K THEN data[k] ELSE last[k]]
    /\ call'  = [call EXCEPT ![c] =
         [at   |-> IF \E k \in K : data[k] = None THEN "deleting" ELSE "upserting",
          keys |-> K,
          val  |-> [k \in Keys |-> IF k \in K THEN data[k] ELSE None]]]
    /\ raced' = raced \cup {k \in K : Busy(k)}
    /\ UNCHANGED <<table, answer, faults>>

DeleteRows(c) ==
    /\ call[c].at = "deleting"
    /\ table' = [k \in Keys |-> IF k \in Doomed(c) THEN None ELSE table[k]]
    /\ call' = [call EXCEPT ![c] = IF Kept(c) = {} THEN Free
                                   ELSE [@ EXCEPT !.at = "upserting", !.keys = Kept(c)]]
    /\ UNCHANGED <<cache, answer, faults, last, raced>>

UpsertRows(c) ==
    /\ call[c].at = "upserting"
    /\ table' = [k \in Keys |-> IF k \in call[c].keys THEN call[c].val[k] ELSE table[k]]
    /\ call' = [call EXCEPT ![c] = Free]
    /\ UNCHANGED <<cache, answer, faults, last, raced>>

\* Either statement may fail: the call throws, and the cache keeps the values.
WriteFails(c) ==
    /\ Setting(c) /\ faults < MaxFaults
    /\ call' = [call EXCEPT ![c] = Free]
    /\ faults' = faults + 1
    /\ raced' = raced \cup call[c].keys
    /\ UNCHANGED <<table, cache, answer, last>>

\* A new socket, of this process or the next: a cache of its own, empty.
Reopen ==
    /\ cache' = [k \in Keys |-> Miss]
    /\ call' = [c \in Caller |-> Free]
    /\ last' = table /\ raced' = {}
    /\ UNCHANGED <<table, answer, faults>>

Gets(c) == (\E k \in Keys : GetMiss(c, k)) \/ Fetch(c) \/ Fill(c) \/ FetchFails(c)

Sets(c) ==
    \/ \E K \in SUBSET Keys \ {{}} : \E data \in [K -> Stored] : Set(c, K, data)
    \/ DeleteRows(c) \/ UpsertRows(c) \/ WriteFails(c)

KeysNext ==
    \/ \E k \in Keys : GetHit(k)
    \/ \E c \in Caller : Gets(c) \/ Sets(c)
    \/ Reopen

KeysSpec == KeysInit /\ [][KeysNext]_keysVars

-----------------------------------------------------------------------------
\* When no call is under way for a key, the row holds the value set last, and
\* the cache that value or nothing: unless two calls for the key overlapped
\* (a fill that was under way when the key was set brings back the former
\* value, two writes may be stored in either order) or a write failed.
StaleHasCause ==
    \A k \in Keys : ~Busy(k) /\ k \notin raced =>
        /\ table[k] = last[k]
        /\ cache[k] \in {Miss, last[k]}

\* The types, and: a key is read stale only with a cause (keys.get, keys.set).
CacheInv == KeysTypeOK /\ StaleHasCause

\* What the process can read of a key: its cache entry, or else its row, but
\* for the row of a key that is about to be deleted.
MemOf(k) ==
    IF cache[k] # Miss THEN cache[k]
    ELSE IF \E c \in Caller : call[c].at = "deleting" /\ k \in Doomed(c) THEN None
    ELSE table[k]

Store == INSTANCE AuthStore WITH
    Keys   <- SerialKeys,
    mem    <- [k \in SerialKeys |-> MemOf(k)],
    disk   <- [k \in SerialKeys |-> table[k]],
    answer <- [k \in SerialKeys |-> answer[k]],
    Unread <- Miss

\* For serialized keys cache, calls and table together are the store that
\* the header of session.auth-state.ts promises.
ImplementsStore == Store!Spec
=============================================================================
