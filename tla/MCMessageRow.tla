----------------------------- MODULE MCMessageRow -----------------------------
(* MessageRow with a bounded number of failures, receipts and repetitions:   *)
(* all amendments of the first message, or all messages without amendment.   *)
EXTENDS MessageRow

CONSTANT MaxEvents
VARIABLE events

Without(S) == [x \in S |-> "done"]
MCInit ==
    /\ events = 0
    /\ \/ /\ Start([m \in Msg |-> "none"], Without(Amend))
          /\ \A a \in Amend : amend[a].kind = "edit"
       \/ Start([m \in Msg |-> IF m = 1 THEN "none" ELSE "done"], [a \in Amend |-> "none"])
    /\ \A a \in Amend : amend[a].of = 1

MCNext ==
    \/ Steps /\ UNCHANGED events
    \/ events < MaxEvents /\ Events /\ events' = events + 1

MCSpec == MCInit /\ [][MCNext]_<<vars, events>>
=============================================================================
