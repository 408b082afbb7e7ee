------------------------------ MODULE WsServer ------------------------------
(***************************************************************************)
(* The WebSocket server of the API process (websocket/ws-server.ts): the   *)
(* reader of the Redis streams, the broadcasts to the clients of one       *)
(* organization and to the subscribers of channels, the access check with  *)
(* its two caches and the routes that invalidate them, pings.  Time runs   *)
(* in ticks: the age of cache entries and the duration of lookups.         *)
(*                                                                         *)
(* An entry of a stream is the chat that it is about, or NoChat.           *)
(***************************************************************************)
EXTENDS Integers, Sequences, FiniteSets

CONSTANTS
    Client, Admins,      \* one socket per user; users whose token says admin
    Chat, NoChat, NoOne,
    Stream,
    Ttl,                 \* ticks a cache entry serves (5 s)
    Lag,                 \* ticks an answer of the database takes at most
    MaxEvents            \* bound: entries of a stream

ASSUME WsTypes == /\ Admins \subseteq Client /\ NoChat \notin Chat
                  /\ NoOne \notin Client /\ Client \cap Chat = {}
                  /\ Ttl \in Nat /\ Lag \in Nat /\ MaxEvents \in Nat

Caster  == {"reader", "notify"}    \* the two that broadcast
Key     == Client \cup Chat        \* of the caches: session access, assignee
Latest  == -1                      \* the offset '$'
Topic   == {"session"} \cup Chat   \* channels to subscribe to

VARIABLES
    log,                 \* entries of a stream
    reader, last,        \* read loop: step, lastIds
    from, upto,          \* ... offset of the XREAD, end of what it returned
    cast,                \* a broadcast: channel, entry, clients visited
    check,               \* its access check: client, step, lookup
    open, alive, subs,   \* sockets, isAlive, subscriptions
    access, assignee,    \* database: user_session_access, assignedToUserId
    deleted,             \* chats that are gone
    cache,               \* sessionAccessCache, chatAssigneeCache
    pending,             \* keys a route has changed and not yet invalidated
    sent,                \* history: whom the last check of a broadcast let receive
    owed,                \* ... clients the entry in hand is still owed to
    off,                 \* ... ticks since the truth of a key allowed a client
    raced,               \* ... keys invalidated while a check had their value
    crashes              \* ... the process died and was restarted

readVars  == <<log, reader, last, from, upto>>
castVars  == <<cast, check>>
sockVars  == <<open, alive, subs>>
truthVars == <<access, assignee, deleted>>
wsVars == <<readVars, castVars, sockVars, truthVars, cache, pending, sent, owed, off, raced,
            crashes>>

Greatest(m, n) == IF m >= n THEN m ELSE n
StaleMax == Greatest(Ttl - 1, Lag) + Lag
Cap      == StaleMax + 1

None == [value |-> NoOne, age |-> Ttl]          \* an expired entry serves nobody
Idle == [to |-> "none", stream |-> NoOne, number |-> 0, chat |-> NoChat, visited |-> {}]
Free == [who |-> NoOne, step |-> "none", phase |-> "cache", value |-> NoOne, age |-> 0]

Value == BOOLEAN \cup Client \cup {NoOne}

WsTypeOK ==
    /\ log \in [Stream -> Seq(Chat \cup {NoChat})]
    /\ reader \in {"call", "wait", "read"}
    /\ \A s \in Stream : last[s] \in -1..Len(log[s]) /\ from[s] \in 0..upto[s]
                         /\ upto[s] \in 0..Len(log[s])
    /\ \A b \in Caster : /\ cast[b].to \in {"none", "org", "session", "chat"}
                         /\ cast[b].visited \subseteq Client
                         /\ check[b].who \in Client \cup {NoOne}
                         /\ check[b].step \in {"none", "org", "access", "assignee"}
                         /\ check[b].phase \in {"cache", "ask", "reply"}
                         /\ check[b].value \in Value /\ check[b].age \in 0..Lag
    /\ open \subseteq Client /\ alive \subseteq open /\ subs \in [Client -> SUBSET Topic]
    /\ access \subseteq Client /\ assignee \in [Chat -> Client \cup {NoOne}]
    /\ deleted \subseteq Chat
    /\ \A k \in Key : cache[k].value \in Value /\ cache[k].age \in 0..Ttl
    /\ sent \in [Caster -> Client \cup {NoOne}] /\ pending \subseteq Key /\ raced \subseteq Key /\ owed \subseteq Client
    /\ crashes \in BOOLEAN

WsInit ==
    /\ log = [s \in Stream |-> <<>>]
    /\ reader = "call" /\ last = [s \in Stream |-> Latest]
    /\ from = [s \in Stream |-> 0] /\ upto = [s \in Stream |-> 0]
    /\ cast = [b \in Caster |-> Idle] /\ check = [b \in Caster |-> Free]
    /\ open = {} /\ alive = {} /\ subs = [c \in Client |-> {}]
    /\ access \in SUBSET Client /\ assignee = [h \in Chat |-> NoOne] /\ deleted = {}
    /\ cache = [k \in Key |-> None] /\ pending = {}
    /\ sent = [b \in Caster |-> NoOne] /\ owed = {}
    /\ off = [c \in Client |-> [k \in {c} \cup Chat |-> IF k = c /\ c \notin access THEN Cap ELSE 0]]
    /\ raced = {} /\ crashes = FALSE

-----------------------------------------------------------------------------
(* Redis streams and the read loop.                                        *)

\* Mutant of Offset: '$' at every call.
OffsetEnd(s) == Len(log[s])

\* XREAD BLOCK: what there is after the offsets, or it waits, and then '$' is the
\* end that each stream has now.
Offset(s) == IF last[s] = Latest THEN Len(log[s]) ELSE last[s]

Call ==
    /\ reader = "call"
    /\ from' = [s \in Stream |-> Offset(s)] /\ upto' = [s \in Stream |-> Len(log[s])]
    /\ reader' = IF \E s \in Stream : Offset(s) < Len(log[s]) THEN "read" ELSE "wait"
    /\ UNCHANGED <<log, last, castVars, sockVars, truthVars, cache, pending, sent, owed, off,
                   raced, crashes>>

\* A new entry answers an XREAD that waits.
Append1(s, h) ==
    /\ Len(log[s]) < MaxEvents
    /\ log' = [log EXCEPT ![s] = Append(@, h)]
    /\ IF reader = "wait"
       THEN reader' = "read" /\ upto' = [upto EXCEPT ![s] = Len(log[s]) + 1]
       ELSE UNCHANGED <<reader, upto>>
    /\ UNCHANGED <<last, from>>

\* publishToStream.
Publish(s, h) ==
    /\ h \in Chat => h \notin deleted
    /\ Append1(s, h)
    /\ UNCHANGED <<castVars, sockVars, truthVars, cache, pending, sent, owed, off, raced, crashes>>

\* The chat is deleted by a merge, and then the entry that says so is published.
DeleteChat(s, h) ==
    /\ h \notin deleted /\ deleted' = deleted \cup {h}
    /\ Append1(s, h)
    /\ owed' = IF cast["reader"].chat = h THEN {} ELSE owed
    /\ off' = [c \in Client |-> [off[c] EXCEPT ![h] = 0]]
    /\ UNCHANGED <<castVars, sockVars, access, assignee, cache, pending, sent, raced, crashes>>

\* BLOCK 5000 has passed, or the connection to Redis failed.
CallEnds ==
    /\ reader = "wait" /\ reader' = "call"
    /\ UNCHANGED <<log, last, from, upto, castVars, sockVars, truthVars, cache, pending, sent,
                   owed, off, raced, crashes>>

Right(c, h) == /\ c \in Admins \/ c \in access
               /\ c \in Admins \/ h = NoChat \/ assignee[h] \in {NoOne, c}

\* A value that a route is about to invalidate, or invalidated too early, may be
\* taken for the truth.
Doubtful(c, h) == {c, h} \cap (pending \cup raced) # {}

\* The next entry of an answer.
Take(s) ==
    LET n == from[s] + 1
        h == log[s][n]
    IN  /\ reader = "read" /\ n <= upto[s] /\ cast["reader"] = Idle
        /\ from' = [from EXCEPT ![s] = n]
        /\ last' = [last EXCEPT ![s] = n]
        /\ cast' = [cast EXCEPT !["reader"] =
                       [to |-> "org", stream |-> s, number |-> n, chat |-> h, visited |-> {}]]
        /\ owed' = IF h \in deleted THEN {}
                   ELSE {c \in open : Right(c, h) /\ ~Doubtful(c, h)}
        /\ UNCHANGED <<log, reader, upto, check, sockVars, truthVars, cache, pending, sent, off,
                       raced, crashes>>

BatchEnds ==
    /\ reader = "read" /\ from = upto /\ cast["reader"] = Idle
    /\ reader' = "call"
    /\ UNCHANGED <<log, last, from, upto, castVars, sockVars, truthVars, cache, pending, sent,
                   owed, off, raced, crashes>>

\* PostgreSQL notifies of a message; nobody awaits the broadcast.  (Bound: one
\* such broadcast at a time.)
Notify(h) ==
    /\ cast["notify"] = Idle /\ h \notin deleted
    /\ cast' = [cast EXCEPT !["notify"] = [Idle EXCEPT !.to = "session", !.chat = h]]
    /\ UNCHANGED <<readVars, check, sockVars, truthVars, cache, pending, sent, owed, off, raced,
                   crashes>>

-----------------------------------------------------------------------------
(* broadcastToOrg, broadcastToChannel and checkAccess.                     *)

\* Mutant of Heard: the organization's events, too, are for subscribers.
HeardSubscribed(c, b) == IF cast[b].to = "chat" THEN cast[b].chat \in subs[c]
                         ELSE "session" \in subs[c]

Heard(c, b) == CASE cast[b].to = "org" -> TRUE
                 [] cast[b].to = "session" -> "session" \in subs[c]
                 [] cast[b].to = "chat" -> cast[b].chat \in subs[c]
                 [] OTHER -> FALSE

ToVisit(b) == {c \in open \ cast[b].visited : Heard(c, b)}

Visit(b, c) ==
    /\ check[b] = Free /\ c \in ToVisit(b)
    /\ check' = [check EXCEPT ![b] = [Free EXCEPT !.who = c, !.step = "org"]]
    /\ cast' = [cast EXCEPT ![b].visited = @ \cup {c}]
    /\ sent' = [sent EXCEPT ![b] = NoOne]
    /\ UNCHANGED <<readVars, sockVars, truthVars, cache, pending, owed, off, raced, crashes>>

\* Everyone was visited: the next channel of the entry.
NextChannel(b) ==
    /\ cast[b] # Idle /\ check[b] = Free /\ ToVisit(b) = {}
    /\ cast' = [cast EXCEPT ![b] =
                  CASE b = "reader" /\ @.to = "org" -> [@ EXCEPT !.to = "session", !.visited = {}]
                    [] b = "reader" /\ @.to = "session" /\ @.chat # NoChat
                         -> [@ EXCEPT !.to = "chat", !.visited = {}]
                    [] OTHER -> Idle]
    /\ UNCHANGED <<readVars, check, sockVars, truthVars, cache, pending, sent, owed, off, raced,
                   crashes>>

Deny(b) == check' = [check EXCEPT ![b] = Free] /\ UNCHANGED <<sent, owed>>

\* send: nothing happens on a socket that was closed meanwhile.
Send(b) ==
    LET c == check[b].who
    IN  /\ check' = [check EXCEPT ![b] = Free]
        /\ sent' = IF c \in open THEN [sent EXCEPT ![b] = c] ELSE sent
        /\ owed' = IF b = "reader" THEN owed \ {c} ELSE owed

Goes(b, step) == check' = [check EXCEPT ![b] = [Free EXCEPT !.who = check[b].who, !.step = step]]
                 /\ UNCHANGED <<sent, owed>>

\* The queries of the session's and the chat's organization.  A failure denies.
CheckOrg(b, ok) ==
    /\ check[b].step = "org"
    /\ IF ~ok THEN /\ check' = [check EXCEPT ![b] = Free] /\ UNCHANGED sent
                   /\ owed' = IF b = "reader" THEN owed \ {check[b].who} ELSE owed
       ELSE IF cast[b].chat \in deleted THEN Deny(b)
       ELSE IF check[b].who \in Admins THEN Send(b) ELSE Goes(b, "access")
    /\ UNCHANGED <<readVars, cast, sockVars, truthVars, cache, pending, off, raced, crashes>>

LookupKey(b) == IF check[b].step = "access" THEN check[b].who ELSE cast[b].chat

Allows(k, value, c) == IF k \in Client THEN value = TRUE ELSE value \in {NoOne, c}
Truth(k) == IF k \in Client THEN k \in access
            ELSE IF k \in deleted THEN NoOne ELSE assignee[k]

\* What follows the lookup of a value.
Decide(b, value) ==
    IF ~Allows(LookupKey(b), value, check[b].who) THEN Deny(b)
    ELSE IF check[b].step = "access" /\ cast[b].chat # NoChat THEN Goes(b, "assignee")
    ELSE Send(b)

\* Mutant of Serves: entries do not expire.
ServesLong(k) == cache[k].value # NoOne

Serves(k) == cache[k].age < Ttl

\* getSessionAccess, getChatAssignee: the cache ...
Cached(b) ==
    /\ check[b].step \in {"access", "assignee"} /\ check[b].phase = "cache"
    /\ IF Serves(LookupKey(b))
       THEN Decide(b, cache[LookupKey(b)].value)
       ELSE check' = [check EXCEPT ![b].phase = "ask"] /\ UNCHANGED <<sent, owed>>
    /\ UNCHANGED <<readVars, cast, sockVars, truthVars, cache, pending, off, raced, crashes>>

\* ... or the database reads the row ...
Read(b) ==
    /\ check[b].phase = "ask"
    /\ check' = [check EXCEPT ![b].phase = "reply", ![b].value = Truth(LookupKey(b))]
    /\ UNCHANGED <<readVars, cast, sockVars, truthVars, cache, pending, sent, owed, off, raced,
                   crashes>>

Stored(b) == [value |-> check[b].value, age |-> IF check[b].age < Ttl THEN check[b].age ELSE Ttl]

\* ... and its answer is stored, with the time of the question.
Reply(b) ==
    /\ check[b].phase = "reply"
    /\ cache' = [cache EXCEPT ![LookupKey(b)] = Stored(b)]
    /\ Decide(b, check[b].value)
    /\ UNCHANGED <<readVars, cast, sockVars, truthVars, pending, off, raced, crashes>>

\* The process is shut down (close), dies, or nobody catches the rejection of a
\* broadcast, and it is restarted: its clients are gone and everything in memory
\* with them.
ServerDies ==
    /\ crashes' = TRUE /\ reader' = "call"
    /\ last' = [s \in Stream |-> Latest] /\ from' = [s \in Stream |-> 0]
    /\ upto' = [s \in Stream |-> 0]
    /\ cast' = [b \in Caster |-> Idle] /\ check' = [b \in Caster |-> Free]
    /\ open' = {} /\ alive' = {} /\ subs' = [c \in Client |-> {}]
    /\ cache' = [k \in Key |-> None] /\ pending' = {} /\ owed' = {}
    /\ UNCHANGED <<log, truthVars, sent, off, raced>>

\* A failing lookup ends the broadcast of the read loop, which logs it and goes
\* on with the next entry.
LookupFails ==
    /\ check["reader"].phase \in {"ask", "reply"}
    /\ check' = [check EXCEPT !["reader"] = Free] /\ cast' = [cast EXCEPT !["reader"] = Idle]
    /\ owed' = {}
    /\ UNCHANGED <<readVars, sockVars, truthVars, cache, pending, sent, off, raced, crashes>>

\* A failing lookup of a notification is an unhandled rejection.
NotifyFails == check["notify"].phase \in {"ask", "reply"} /\ ServerDies

-----------------------------------------------------------------------------
(* Sockets.                                                                *)

\* A new socket, which broadcasts under way visit, too.  (Not while the access of the
\* old one is being checked.)
Connect(c) ==
    /\ c \notin open /\ \A b \in Caster : check[b].who # c
    /\ open' = open \cup {c} /\ alive' = alive \cup {c}
    /\ cast' = [b \in Caster |-> [cast[b] EXCEPT !.visited = @ \ {c}]]
    /\ UNCHANGED <<readVars, check, subs, truthVars, cache, pending, sent, owed, off, raced,
                   crashes>>

Closed(C) ==
    /\ open' = open \ C /\ subs' = [c \in Client |-> IF c \in C THEN {} ELSE subs[c]]
    /\ owed' = owed \ C

Disconnect(c) ==
    /\ c \in open /\ Closed({c}) /\ alive' = alive \ {c}
    /\ UNCHANGED <<readVars, castVars, truthVars, cache, pending, sent, off, raced, crashes>>

\* isAuthorizedChannel: the session or the chat is there, and of the organization;
\* whether the user has access to it is not asked.
Authorized(topic) == topic \notin deleted

\* The answer of isAuthorizedChannel may come after a later unsubscribe.
Subscribe(c, topic) ==
    /\ c \in open /\ topic \notin subs[c] /\ Authorized(topic)
    /\ subs' = [subs EXCEPT ![c] = @ \cup {topic}]
    /\ UNCHANGED <<readVars, castVars, open, alive, truthVars, cache, pending, sent, owed, off,
                   raced, crashes>>

Unsubscribe(c, topic) ==
    /\ topic \in subs[c]
    /\ subs' = [subs EXCEPT ![c] = @ \ {topic}]
    /\ UNCHANGED <<readVars, castVars, open, alive, truthVars, cache, pending, sent, owed, off,
                   raced, crashes>>

\* Mutant of Silent: only a client that never answered is closed.
SilentNever == {}

Silent == open \ alive

\* Every 30 s: who did not answer the last ping is terminated, the others are
\* asked again.
Beat ==
    /\ Closed(Silent) /\ alive' = {}
    /\ UNCHANGED <<readVars, castVars, truthVars, cache, pending, sent, off, raced, crashes>>

\* An answer to the ping, before the next round.
Pong(c) ==
    /\ c \in open /\ alive' = alive \cup {c}
    /\ UNCHANGED <<readVars, castVars, open, subs, truthVars, cache, pending, sent, owed, off,
                   raced, crashes>>

-----------------------------------------------------------------------------
(* The routes that change permissions and assignments.                     *)

Changed(k) ==
    /\ pending' = pending \cup {k}
    /\ owed' = {c \in owed : c # k /\ cast["reader"].chat # k}
    /\ UNCHANGED <<readVars, castVars, sockVars, deleted, cache, sent, crashes>>

Permit(c) ==
    /\ c \notin access \cup Admins /\ access' = access \cup {c}
    /\ off' = [off EXCEPT ![c][c] = 0] /\ raced' = raced \ {c}
    /\ Changed(c) /\ UNCHANGED assignee

Withdraw(c) ==
    /\ c \in access \ Admins /\ access' = access \ {c}
    /\ Changed(c) /\ UNCHANGED <<off, raced, assignee>>

Assign(h, u) ==
    /\ assignee[h] # u /\ h \notin deleted /\ assignee' = [assignee EXCEPT ![h] = u]
    /\ off' = [c \in Client |-> IF u \in {NoOne, c} THEN [off[c] EXCEPT ![h] = 0] ELSE off[c]]
    /\ Changed(h) /\ UNCHANGED <<access, raced>>

\* A check has looked the key up, or is doing so.
InHand(k) == \E b \in Caster : /\ check[b].step \in {"access", "assignee"}
                               /\ k \in {check[b].who, cast[b].chat}

\* Mutant of Forgotten: another cache is cleared.
ForgottenNot(k) == cache

Forgotten(k) == [cache EXCEPT ![k] = None]

Invalidate(k) ==
    /\ k \in pending /\ pending' = pending \ {k}
    /\ cache' = Forgotten(k)
    /\ raced' = IF InHand(k) THEN raced \cup {k} ELSE raced
    /\ UNCHANGED <<readVars, castVars, sockVars, truthVars, sent, owed, off, crashes>>

-----------------------------------------------------------------------------
(* Time.                                                                   *)

Older(n, bound) == IF n < bound THEN n + 1 ELSE n

Allowing(c, k) == c \in Admins \/ Allows(k, Truth(k), c)

\* What follows a look at the cache is immediate; an answer of the database is not.
Tick ==
    /\ \A b \in Caster : check[b].step \in {"access", "assignee"} =>
                             check[b].phase # "cache" /\ check[b].age < Lag
    /\ cache' = [k \in Key |-> [cache[k] EXCEPT !.age = Older(@, Ttl)]]
    /\ check' = [b \in Caster |->
                   IF check[b].phase = "cache" THEN check[b] ELSE [check[b] EXCEPT !.age = @ + 1]]
    /\ off' = [c \in Client |-> [k \in {c} \cup Chat |->
                   IF Allowing(c, k) THEN 0 ELSE Older(off[c][k], Cap)]]
    /\ UNCHANGED <<readVars, cast, sockVars, truthVars, pending, sent, owed, raced, crashes>>

WsSteps ==
    \/ Call \/ BatchEnds \/ \E s \in Stream : Take(s)
    \/ \E b \in Caster : \/ \E c \in Client : Visit(b, c)
                         \/ NextChannel(b) \/ CheckOrg(b, TRUE)
                         \/ Cached(b) \/ Read(b) \/ Reply(b)
    \/ \E k \in Key : Invalidate(k)

Entries(s) == \E h \in Chat \cup {NoChat} : Publish(s, h) \/ (h \in Chat /\ DeleteChat(s, h))

Routes == \/ \E h \in Chat, u \in Client \cup {NoOne} : Assign(h, u)
          \/ \E c \in Client : Permit(c) \/ Withdraw(c)

Sockets == \E c \in Client : \/ Connect(c) \/ Disconnect(c)
                             \/ \E t \in Topic : Subscribe(c, t) \/ Unsubscribe(c, t)

Notes == \E h \in Chat : Notify(h)

ReadFaults == ServerDies \/ LookupFails \/ \E b \in Caster : CheckOrg(b, FALSE)

Pongs == \E c \in Client : Pong(c)

WsNext == \/ WsSteps \/ CallEnds \/ Tick \/ Beat \/ Pongs
          \/ (\E s \in Stream : Entries(s)) \/ Notes \/ Routes \/ Sockets \/ ReadFaults
          \/ NotifyFails

\* The loop goes on, the database answers, and timers fire.
WsFairness == WF_wsVars(WsSteps) /\ WF_wsVars(Beat)

WsSpec == WsInit /\ [][WsNext]_wsVars /\ WsFairness

-----------------------------------------------------------------------------
\* A check ends, and its client receives the event.
Receives(b, c) == /\ check[b].who = c /\ sent[b] = NoOne /\ sent'[b] = c

\* A client receives an event only if it has the right to it, or had it as long ago
\* as a cache entry and the lookups under way account for (sessionAccessCache,
\* chatAssigneeCache: 5000 ms).
StaleIsBounded ==
    [][\A b \in Caster, c \in Client \ Admins : Receives(b, c) =>
             /\ off[c][c] <= StaleMax
             /\ cast[b].chat \in Chat => off[c][cast[b].chat] <= StaleMax]_wsVars

\* Once a route has invalidated the caches, a client without the right receives
\* nothing any more ("Invalidate WS server assignee cache immediately",
\* chat.routes.ts): unless a check had the old value in hand at that moment, or the
\* chat is deleted during the check, which getChatAssignee takes for unassigned.
RevokedHasCause ==
    [][\A b \in Caster, c \in Client \ Admins : Receives(b, c) =>
             \/ Right(c, cast[b].chat) \/ Doubtful(c, cast[b].chat)
             \/ cast[b].chat \in deleted /\ (c \in access \/ Doubtful(c, c))]_wsVars

\* When the broadcast to the organization ends, each client that was connected and
\* had the right all the time has received the event: whatever the other
\* clients' sockets and the other broadcast did.
Served == cast["reader"].to \in {"session", "chat"} => owed = {}

\* The types, and: who may see an event gets it (broadcastToSession, broadcastToOrg).
SocketInv == WsTypeOK /\ Served

\* Of a stream that was read once, each later entry is handled, whatever is published
\* while the reader is at work: unless the process dies.
NoneSkipped ==
    \A s \in Stream : \A n \in 2..MaxEvents :
        (last[s] # Latest /\ Len(log[s]) >= n) ~> (last[s] >= n \/ crashes)

\* "to ensure every replica receives every event" (ws-server.ts, startStreamReader).
AllHandled ==
    \A s \in Stream : Len(log[s]) > 0 ~> (last[s] # Latest \/ crashes)
=============================================================================
