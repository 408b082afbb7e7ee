----------------------------- MODULE MCWsServer -----------------------------
(***************************************************************************)
(* WsServer with a bounded number of events from outside, in three parts:  *)
(* the read loop with its faults; permissions that change, and time;       *)
(* sockets that come and go, and pings.                                    *)
(***************************************************************************)
EXTENDS WsServer

CONSTANT MaxUsers
VARIABLES part, users

\* Clients are connected and have subscribed.
MCInit ==
    /\ part \in {"read", "access", "sockets"}
    /\ log = [s \in Stream |-> <<>>]
    /\ reader = "call" /\ last = [s \in Stream |-> Latest]
    /\ from = [s \in Stream |-> 0] /\ upto = [s \in Stream |-> 0]
    /\ cast = [b \in Caster |-> Idle] /\ check = [b \in Caster |-> Free]
    /\ open = (IF part = "access" THEN Client \ Admins ELSE Client) /\ alive = open
    /\ subs = [c \in Client |-> IF c \in open /\ part # "read" THEN Topic ELSE {}]
    /\ access = Client \ Admins /\ assignee = [h \in Chat |-> NoOne] /\ deleted = {}
    /\ cache = [k \in Key |-> None] /\ pending = {}
    /\ sent = [b \in Caster |-> NoOne] /\ owed = {}
    /\ off = [c \in Client |-> [k \in {c} \cup Chat |->
                 IF k = c /\ c \notin access \cup Admins THEN Cap ELSE 0]]
    /\ raced = {} /\ crashes = FALSE /\ part \in {"read", "access", "sockets"}
    /\ users = IF part = "read" THEN MaxUsers + 1 ELSE MaxUsers

OneStream == CHOOSE s \in Stream : TRUE

Alone ==
    \/ WsSteps
    \/ part = "read" /\ CallEnds
    \/ part = "access" /\ Tick
    \/ part = "sockets" /\ (Beat \/ Pongs)

Outside ==
    \/ part = "read" /\ (ReadFaults \/ \E s \in Stream : Entries(s))
    \/ part # "read" /\ Entries(OneStream)
    \/ part = "access" /\ (Notes \/ Routes \/ NotifyFails)
    \/ part = "sockets" /\ Sockets

MCNext == /\ UNCHANGED part
          /\ \/ Alone /\ UNCHANGED users
             \/ users > 0 /\ Outside /\ users' = users - 1

mcVars == <<wsVars, part, users>>

MCSpec == /\ MCInit /\ [][MCNext]_mcVars
          /\ WF_mcVars(WsSteps /\ UNCHANGED <<part, users>>)
          /\ WF_mcVars(part = "sockets" /\ Beat /\ UNCHANGED <<part, users>>)

\* A client that stops answering pings for good does not stay connected (isAlive,
\* the interval of 30 s).
SilentGoes ==
    part = "sockets" =>
        \A c \in Client : []<><<Pong(c) /\ UNCHANGED part>>_mcVars \/ []<>(c \notin open)
=============================================================================
