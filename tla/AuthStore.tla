------------------------------ MODULE AuthStore ------------------------------
(***************************************************************************)
(* What the Signal key store of a session owes its caller, stated without  *)
(* cache and calls: a read returns what was written last, a process that   *)
(* starts anew finds what had been stored, and only a failure of the       *)
(* database (`faults` counts them) makes a key look absent or takes back   *)
(* a write that was not stored yet (header of session.auth-state.ts).      *)
(***************************************************************************)
EXTENDS Integers

CONSTANTS Keys, Values, None, Unread

VARIABLES mem,      \* what the store holds for the running process
          disk,     \* what survives the process
          answer,   \* what the last read of each key returned
          faults    \* failures of the database so far

vars == <<mem, disk, answer, faults>>

Init ==
    /\ disk \in [Keys -> Values \cup {None}]
    /\ mem = disk
    /\ answer = [k \in Keys |-> Unread]
    /\ faults = 0

Put ==
    /\ \E K \in SUBSET Keys : \E data \in [K -> Values \cup {None}] :
         mem' = [k \in Keys |-> IF k \in K THEN data[k] ELSE mem[k]]
    /\ UNCHANGED <<disk, answer, faults>>

Persist ==
    /\ \E K \in SUBSET Keys :
         disk' = [k \in Keys |-> IF k \in K THEN mem[k] ELSE disk[k]]
    /\ UNCHANGED <<mem, answer, faults>>

Read ==
    /\ \E k \in Keys : answer' = [answer EXCEPT ![k] = mem[k]]
    /\ UNCHANGED <<mem, disk, faults>>

Restart ==
    /\ mem' = disk
    /\ UNCHANGED <<disk, answer, faults>>

ReadFails ==
    /\ \E K \in SUBSET Keys :
         answer' = [k \in Keys |-> IF k \in K THEN None ELSE answer[k]]
    /\ faults' = faults + 1
    /\ UNCHANGED <<mem, disk>>

WriteFails ==
    /\ \E K \in SUBSET Keys :
         mem' = [k \in Keys |-> IF k \in K THEN disk[k] ELSE mem[k]]
    /\ faults' = faults + 1
    /\ UNCHANGED <<disk, answer>>

Next == Put \/ Persist \/ Read \/ Restart \/ ReadFails \/ WriteFails

Spec == Init /\ [][Next]_vars
=============================================================================
