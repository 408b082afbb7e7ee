----------------------------- MODULE Dashboard -----------------------------
(***************************************************************************)
(* The inbox of the browser dashboard (public/js/dashboard.js) and what it *)
(* reads: the list of chats, the pane of the chosen chat, the events of    *)
(* the WebSocket, marking as read and sending an attachment.  Requests are *)
(* asked, served from the database and answered in separate steps, in any  *)
(* order.                                                                  *)
(*                                                                         *)
(* A message is its place in the log of the session, which is also its     *)
(* time.  No message or chat is deleted.  n of an event counts the changes *)
(* of a chat's unread count: it is history, no code reads it.              *)
(***************************************************************************)
EXTENDS Naturals, Sequences, FiniteSets, SequencesExt

CONSTANTS
    Chat, NoChat,
    Page,            \* rows of a page (50)
    MaxIterations    \* pages that loadMoreChatsBackground reads (40)

ASSUME InboxTypes == /\ IsFiniteSet(Chat) /\ NoChat \notin Chat
                     /\ Page \in Nat \ {0} /\ MaxIterations \in Nat

VARIABLES
    log,             \* messages of the session: chat, fromMe, n
    unread, changes, \* chats.unread_count; history: its changes
    pinned,          \* chats.is_pinned
    due,             \* messages stored and not yet announced
    marks,           \* markChatAsRead under way
    wire, online,    \* events on their way to the browser, its socket
    admin,           \* userRole
    active,          \* activeChatDbId
    opening,         \* inbox sessions whose contacts are loading
    choosing,        \* selections that wait for the assignees
    pane,            \* activeChatMessages with its paging, and what is rendered
    loads,           \* loadMessages under way, in the order asked
    list,            \* chats: unreadCount of the listed ones
    listing,         \* the loadChats whose token is the current one
    known,           \* processedMessageIds
    attached,        \* pendingAttachmentFile
    sending,         \* handleSendMessageSubmit under way
    sent,            \* history: attachments posted
    left,            \* bounds: inputs that may still come, by kind
    marred,          \* history: why the pane may be behind
    heard, off,      \* ... changes heard of, chats whose count may be off
    moved, short     \* ... chats that rose while listing, a page failed

serverVars == <<log, unread, changes, pinned, due, marks, wire, online>>
paneVars   == <<active, opening, choosing, pane, loads, marred>>
listVars   == <<list, listing, known, heard, off, moved, short>>
sendVars   == <<attached, sending, sent>>
inboxVars == <<serverVars, admin, paneVars, listVars, sendVars, left>>

Input == {"arrive", "reply", "repeat", "status", "sync", "drop", "inbox", "select",
          "more", "limit", "fail", "mark", "attach"}

Spend(kind) == left[kind] > 0 /\ left' = [left EXCEPT ![kind] = @ - 1]
Calm        == UNCHANGED left

-----------------------------------------------------------------------------
(* The database.                                                           *)

Of(h) == {m \in 1..Len(log) : log[m].chat = h}
Newest(S) == CHOOSE m \in S : \A x \in S : x <= m
LastMessage(h) == IF Of(h) = {} THEN 0 ELSE Newest(Of(h))      \* 0: last_message_at is NULL

\* The first members of S in the order of the pane, newest first.
Top(S, n) ==
    LET rank(m) == Cardinality({x \in S : x >= m})
    IN [k \in 1..(IF Cardinality(S) < n THEN Cardinality(S) ELSE n) |->
           CHOOSE m \in S : rank(m) = k]

\* getMessages: one row more is read to know whether there are more.
Older(h, cursor) == {m \in Of(h) : cursor = 0 \/ m < cursor}
HasMore(h, cursor) == Cardinality(Older(h, cursor)) > Page
Rows(h, cursor) == Top(Older(h, cursor), Page)

\* getChatList: pinned chats first, then by the last message; the cursor is the
\* time of the last row's message alone.
Before(h, g) == \/ h \in pinned /\ g \notin pinned
                \/ (h \in pinned <=> g \in pinned) /\ LastMessage(h) > LastMessage(g)
Under(cursor) == {h \in Chat : cursor = 0 \/ (LastMessage(h) < cursor /\ LastMessage(h) # 0)}
Listed(cursor) == {h \in Under(cursor) :
                      Cardinality({g \in Under(cursor) : Before(g, h)}) < Page}
\* Mutant of NextCursor: the next page begins with the last row again.
NextCursorInclusive(cursor) ==
    IF Cardinality(Under(cursor)) <= Page THEN 0
    ELSE LastMessage(CHOOSE h \in Listed(cursor) : \A g \in Listed(cursor) \ {h} : Before(h, g)) + 1

NextCursor(cursor) ==
    IF Cardinality(Under(cursor)) <= Page THEN 0
    ELSE LastMessage(CHOOSE h \in Listed(cursor) : \A g \in Listed(cursor) \ {h} : Before(g, h))

-----------------------------------------------------------------------------
(* loadMessages.                                                           *)

Nothing == [held |-> <<>>, next |-> 0, more |-> FALSE, over |-> FALSE,
            screen |-> <<>>, foot |-> "none"]

\* renderMessages.
Rendered(p) ==
    [p EXCEPT !.screen = p.held,
              !.foot = IF p.held = <<>> THEN "none"
                       ELSE IF p.over THEN "end" ELSE IF p.more THEN "more" ELSE "phone"]

Blank(p) == [p EXCEPT !.screen = <<>>, !.foot = "none"]

\* A load of the newest page forgets what is held when it is asked.
Emptied(p, load) ==
    IF load.cursor # 0 THEN p
    ELSE LET q == [p EXCEPT !.held = <<>>, !.next = 0, !.more = FALSE, !.over = FALSE]
         IN IF load.silent THEN q ELSE Blank(q)

Oldest(p) == IF p.held = <<>> THEN 0 ELSE p.held[Len(p.held)]

Asking(h, silent, cursor) ==
    [chat |-> h, silent |-> silent, cursor |-> cursor, again |-> FALSE, since |-> 0,
     step |-> "asked", rows |-> <<>>, more |-> FALSE, stale |-> FALSE]

\* open is the chat that is open by then.
Load(open, load) ==
    /\ loads' = Append(loads, load) /\ pane' = Emptied(pane, load)
    /\ marred' = (marred \/ load.chat # open)
NoLoad == UNCHANGED <<loads, pane, marred>>

\* Load i is through: an answer to a load asked before it is old news.
Settled(i) ==
    RemoveAt([k \in DOMAIN loads |->
                 IF k < i /\ loads[k].chat = loads[i].chat
                 THEN [loads[k] EXCEPT !.stale = TRUE] ELSE loads[k]], i)

\* sync:completed goes on when its load is through: nothing older came.
Continued(p, load) ==
    IF load.since # 0 /\ Oldest(p) >= load.since THEN Rendered([p EXCEPT !.over = TRUE]) ELSE p

\* The database answers, or the rate limiter or a failure does.
LoadServe(i) ==
    /\ loads[i].step = "asked"
    /\ \/ /\ loads' = [loads EXCEPT ![i].step = "served",
                                    ![i].rows = Rows(loads[i].chat, loads[i].cursor),
                                    ![i].more = HasMore(loads[i].chat, loads[i].cursor)]
          /\ Calm
       \/ Spend("limit") /\ loads' = [loads EXCEPT ![i].step = "limited"]
       \/ Spend("fail") /\ loads' = [loads EXCEPT ![i].step = "failed"]
    /\ UNCHANGED <<serverVars, admin, active, opening, choosing, pane, marred, listVars, sendVars>>

Cursor(load) == IF load.more THEN load.rows[Len(load.rows)] ELSE 0
Taken(p, load) ==
    Rendered([p EXCEPT !.held = IF load.cursor = 0 THEN load.rows ELSE p.held \o load.rows,
                       !.next = Cursor(load), !.more = load.more])

\* Mutant of ForActive: an answer is taken whichever chat is open.
ForActiveAny(load) == active # NoChat

ForActive(load) == load.chat = active

LoadAnswer(i) ==
    LET load == loads[i]
    IN /\ load.step = "served"
       /\ loads' = Settled(i)
       /\ IF ForActive(load)
          THEN /\ pane' = Continued(Taken(pane, load), load)
               /\ marred' = IF load.cursor = 0 THEN load.stale
                            ELSE marred \/ load.cursor # Oldest(pane)
          ELSE pane' = Continued(pane, load) /\ UNCHANGED marred
       /\ Calm /\ UNCHANGED <<serverVars, admin, active, opening, choosing, listVars, sendVars>>

LoadFails(i) ==
    LET load == loads[i]
    IN /\ load.step = "failed"
       /\ loads' = Settled(i)
       /\ pane' = Continued(IF ForActive(load) /\ load.cursor = 0 /\ ~load.silent
                            THEN Blank(pane) ELSE pane, load)
       /\ marred' = (marred \/ (ForActive(load) /\ load.cursor = 0))
       /\ Calm /\ UNCHANGED <<serverVars, admin, active, opening, choosing, listVars, sendVars>>

\* 429: asked once more after a second if the chat is still open, then given up.
LoadLimited(i) ==
    LET load == loads[i]
        next == [load EXCEPT !.step = "asked", !.again = TRUE, !.stale = FALSE]
    IN /\ load.step = "limited"
       /\ IF ~load.again /\ ForActive(load)
          THEN /\ loads' = Append(Settled(i), next)
               /\ pane' = Emptied(pane, load) /\ UNCHANGED marred
          ELSE /\ loads' = Settled(i) /\ pane' = Continued(pane, load)
               /\ marred' = (marred \/ (ForActive(load) /\ load.cursor = 0))
       /\ Calm /\ UNCHANGED <<serverVars, admin, active, opening, choosing, listVars, sendVars>>

\* The button for older messages.
LoadMore ==
    /\ pane.foot = "more" /\ active # NoChat /\ Spend("more")
    /\ IF pane.next # 0 THEN Load(active, Asking(active, TRUE, pane.next)) ELSE NoLoad
    /\ UNCHANGED <<serverVars, admin, active, opening, choosing, listVars, sendVars>>

-----------------------------------------------------------------------------
(* loadChats and its pages in the background.                              *)

Resting == [step |-> "none", cursor |-> 0, page |-> 0, rows |-> {}, count |-> <<>>,
            seen |-> <<>>, next |-> 0]
FirstPage == [Resting EXCEPT !.step = "asked", !.page = 1]

\* A new token: whatever was asked with an older one is ignored.
LoadChats   == listing' = FirstPage /\ moved' = {} /\ short' = FALSE
NoLoadChats == UNCHANGED <<listing, moved, short>>

ListServe ==
    /\ listing.step = "asked"
    /\ \/ /\ listing' = [listing EXCEPT !.step = "served", !.rows = Listed(listing.cursor),
                                        !.count = unread, !.seen = changes,
                                        !.next = NextCursor(listing.cursor)]
          /\ Calm
       \/ Spend("fail") /\ listing' = [listing EXCEPT !.step = "failed"]
    /\ UNCHANGED <<serverVars, admin, paneVars, list, known, heard, off, moved, short, sendVars>>

\* The first page replaces the list, the others add to it; then the next page.
ListAnswer ==
    LET kept == IF listing.page = 1 THEN {} ELSE DOMAIN list
        new  == listing.rows \ kept
    IN /\ listing.step = "served"
       /\ list' = [h \in kept \cup new |-> IF h \in new THEN listing.count[h] ELSE list[h]]
       /\ off' = (off \ new) \cup {h \in new : listing.seen[h] # heard[h]}
       /\ listing' = IF listing.next # 0 /\ listing.page <= MaxIterations /\ listing.rows # {}
                     THEN [FirstPage EXCEPT !.cursor = listing.next, !.page = listing.page + 1]
                     ELSE Resting
       /\ Calm /\ UNCHANGED <<serverVars, admin, paneVars, known, heard, moved, short, sendVars>>

ListFails ==
    /\ listing.step = "failed"
    /\ listing' = Resting /\ short' = TRUE
    /\ Calm /\ UNCHANGED <<serverVars, admin, paneVars, list, known, heard, off, moved, sendVars>>

-----------------------------------------------------------------------------
(* The user.                                                               *)

\* handleInboxSessionChange: the pane closes, contacts and chats are loaded.
ChooseInbox ==
    /\ Spend("inbox")
    /\ active' = NoChat /\ opening' = opening + 1
    /\ UNCHANGED <<serverVars, admin, choosing, pane, loads, marred, listVars, sendVars>>

InboxReady ==
    /\ opening > 0 /\ opening' = opening - 1
    /\ LoadChats
    /\ UNCHANGED active
    /\ \/ Calm /\ IF active # NoChat THEN Load(active, Asking(active, FALSE, 0)) ELSE NoLoad
       \/ Spend("fail") /\ NoLoad
    /\ UNCHANGED <<serverVars, admin, choosing, list, known, heard, off, sendVars>>

\* Mutant of Cancelled: the attachment stays when another chat is chosen.
CancelledNot(file) == file

Cancelled(file) == <<>>

\* selectChat: an administrator's page first asks who may be assigned.
SelectChat(h) ==
    /\ h \in DOMAIN list /\ Spend("select")
    /\ active' = h /\ attached' = Cancelled(attached)
    /\ IF admin THEN choosing' = Append(choosing, h) /\ NoLoad
       ELSE UNCHANGED choosing /\ Load(h, Asking(h, FALSE, 0))
    /\ UNCHANGED <<serverVars, admin, opening, listVars, sending, sent>>

\* loadEligibleAssignees is through, and messages are loaded whichever chat is
\* open by now.
Assignees(i) ==
    /\ choosing' = RemoveAt(choosing, i)
    /\ UNCHANGED active
    /\ Load(active, Asking(choosing[i], FALSE, 0))
    /\ Calm /\ UNCHANGED <<serverVars, admin, opening, listVars, sendVars>>

\* setPendingAttachment; a file is the chat it was chosen for and a number.
Attach ==
    /\ active # NoChat /\ Spend("attach")
    /\ attached' = <<active, left["attach"]>>
    /\ UNCHANGED <<serverVars, admin, paneVars, listVars, sending, sent>>

\* handleSendMessageSubmit: the upload.
Submit ==
    /\ active # NoChat /\ attached # <<>> /\ sending.step = "none"
    /\ sending' = [step |-> "upload", file |-> attached]
    /\ Calm /\ UNCHANGED <<serverVars, admin, paneVars, listVars, attached, sent>>

\* After the upload the file's type is read from what is attached now, and the
\* recipient from the chat that is open now; without an attachment that throws.
Uploaded ==
    /\ sending.step = "upload"
    /\ IF attached # <<>> /\ active # NoChat
       THEN /\ sending' = [sending EXCEPT !.step = "post"]
            /\ sent' = sent \cup {[file |-> sending.file, as |-> attached, to |-> active]}
       ELSE sending' = [sending EXCEPT !.step = "none"] /\ UNCHANGED sent
    /\ Calm /\ UNCHANGED <<serverVars, admin, paneVars, listVars, attached>>

UploadFails ==
    /\ sending.step = "upload" /\ Spend("fail")
    /\ sending' = [sending EXCEPT !.step = "none"]
    /\ UNCHANGED <<serverVars, admin, paneVars, listVars, attached, sent>>

Posted ==
    /\ sending.step = "post"
    /\ sending' = [sending EXCEPT !.step = "none"]
    /\ \/ attached' = <<>> /\ Calm
       \/ UNCHANGED attached /\ Spend("fail")
    /\ UNCHANGED <<serverVars, admin, paneVars, listVars, sent>>

-----------------------------------------------------------------------------
(* Unread counts on the server, and the events about them.                 *)

\* What is sent while the socket is down is lost.
Missed(h) ==
    /\ marred' = (marred \/ h = active)
    /\ loads' = [k \in DOMAIN loads |->
                    IF loads[k].chat = h /\ loads[k].step = "served"
                    THEN [loads[k] EXCEPT !.stale = TRUE] ELSE loads[k]]
Up(h, n) == heard' = [heard EXCEPT ![h] = IF n > @ THEN n ELSE @]
Publish(e) ==
    /\ UNCHANGED <<active, opening, choosing, pane>>
    /\ IF online THEN wire' = Append(wire, e) /\ UNCHANGED <<loads, marred, heard, off>>
       ELSE /\ UNCHANGED wire
            /\ IF e.kind = "sync" THEN UNCHANGED <<loads, marred, heard, off>>
               ELSE /\ Missed(e.chat) /\ Up(e.chat, e.n)
                    /\ off' = IF e.kind = "status" THEN off ELSE off \cup {e.chat}

\* seen counts the changes when the row of an update was read.
Plain(kind, h) == [kind |-> kind, chat |-> h, msg |-> 0, n |-> 0, count |-> 0, seen |-> 0]
New(m)    == [Plain("new", log[m].chat) EXCEPT !.msg = m, !.n = log[m].n]
Update(k) == [Plain("update", k.chat) EXCEPT !.n = k.n, !.count = k.count, !.seen = k.seen]

\* by: the reply that causes it, 0 for submitMarkAsRead.
Marking(h, m) == [chat |-> h, by |-> m, step |-> "clear", n |-> 0, count |-> 0, seen |-> 0]

\* A message is stored; the trigger on_new_message counts it.
Arrive(h, mine) ==
    /\ Spend(IF mine THEN "reply" ELSE "arrive")
    /\ log' = Append(log, [chat |-> h, fromMe |-> mine, n |-> changes[h] + 1])
    /\ unread' = [unread EXCEPT ![h] = IF mine THEN 0 ELSE @ + 1]
    /\ changes' = [changes EXCEPT ![h] = @ + 1]
    /\ due' = due \cup {Len(log) + 1}
    /\ moved' = IF listing.step = "none" THEN moved ELSE moved \cup {h}
    /\ UNCHANGED <<pinned, marks, wire, online, admin, paneVars, list, listing, known, heard, off,
                   short, sendVars>>

\* message:new; a reply then marks its chat as read.
Announce(m) ==
    /\ due' = due \ {m}
    /\ Publish(New(m))
    /\ marks' = IF log[m].fromMe THEN marks \cup {Marking(log[m].chat, m)} ELSE marks
    /\ Calm /\ UNCHANGED <<log, unread, changes, pinned, online, admin, list, listing, known, moved,
                           short, sendVars>>

\* A message job that failed after its publication runs again.
Repeat(m) ==
    /\ Spend("repeat") /\ m \notin due
    /\ Publish(New(m))
    /\ UNCHANGED <<log, unread, changes, pinned, due, marks, online, admin, list, listing, known,
                   moved, short, sendVars>>

\* message:status_update, message:media_update; sync:completed.
Status(h) ==
    /\ Spend("status") /\ Publish(Plain("status", h))
    /\ UNCHANGED <<log, unread, changes, pinned, due, marks, online, admin, list, listing, known,
                   moved, short, sendVars>>
SyncCompleted ==
    /\ Spend("sync") /\ Publish(Plain("sync", NoChat))
    /\ UNCHANGED <<log, unread, changes, pinned, due, marks, online, admin, list, listing, known,
                   moved, short, sendVars>>

\* submitMarkAsRead posts for the chat that is open.
Mark ==
    /\ active # NoChat /\ Spend("mark") /\ \A k \in marks : k.by # 0
    /\ marks' = marks \cup {Marking(active, 0)}
    /\ UNCHANGED <<log, unread, changes, pinned, due, wire, online, admin, paneVars, listVars, sendVars>>

\* markChatAsRead: the row is cleared, read again, and what was read is published.
MarkClear(k) ==
    LET h == k.chat
    IN /\ k.step = "clear"
       /\ unread' = [unread EXCEPT ![h] = 0] /\ changes' = [changes EXCEPT ![h] = @ + 1]
       /\ marks' = (marks \ {k}) \cup {[k EXCEPT !.step = "fetch", !.n = changes[h] + 1]}
       /\ Calm /\ UNCHANGED <<log, pinned, due, wire, online, admin, paneVars, listVars, sendVars>>

MarkFetch(k) ==
    /\ k.step = "fetch"
    /\ marks' = (marks \ {k}) \cup {[k EXCEPT !.step = "tell", !.count = unread[k.chat],
                                              !.seen = changes[k.chat]]}
    /\ Calm /\ UNCHANGED <<log, unread, changes, pinned, due, wire, online, admin, paneVars, listVars,
                           sendVars>>

MarkTell(k) ==
    /\ k.step = "tell"
    /\ Publish(Update(k))
    /\ marks' = IF k.by # 0 THEN marks \ {k} ELSE (marks \ {k}) \cup {[k EXCEPT !.step = "answer"]}
    /\ Calm /\ UNCHANGED <<log, unread, changes, pinned, due, online, admin, list, listing, known,
                           moved, short, sendVars>>

\* The answer to submitMarkAsRead clears the count of the chat that is open now.
MarkAnswer(k) ==
    /\ k.step = "answer" /\ marks' = marks \ {k}
    /\ IF active \in DOMAIN list
       THEN /\ list' = [list EXCEPT ![active] = 0]
            /\ off' = IF active # k.chat \/ heard[active] > k.n THEN off \cup {active} ELSE off
       ELSE UNCHANGED <<list, off>>
    /\ Calm /\ UNCHANGED <<log, unread, changes, pinned, due, wire, online, admin, paneVars, listing,
                           known, heard, moved, short, sendVars>>

-----------------------------------------------------------------------------
(* connectWS, handleWsEvent.                                               *)

\* The socket drops with what is on its way, and is opened again after 3 s;
\* nothing is loaded then.
Drop ==
    LET gone(h) == {j \in DOMAIN wire : wire[j].chat = h /\ wire[j].kind # "sync"}
        lost(h) == {j \in gone(h) : wire[j].kind # "status"}
    IN /\ online /\ Spend("drop")
       /\ online' = FALSE /\ wire' = <<>>
       /\ marred' = (marred \/ (active # NoChat /\ gone(active) # {}))
       /\ loads' = [k \in DOMAIN loads |->
                       IF gone(loads[k].chat) # {} /\ loads[k].step = "served"
                       THEN [loads[k] EXCEPT !.stale = TRUE] ELSE loads[k]]
       /\ off' = off \cup {h \in Chat : lost(h) # {}}
       /\ heard' = [h \in Chat |-> Newest({heard[h]} \cup {wire[j].n : j \in lost(h)})]
       /\ UNCHANGED <<log, unread, changes, pinned, due, marks, admin, active, opening, choosing, pane,
                      list, listing, known, moved, short, sendVars>>

ConnectWS ==
    /\ ~online /\ online' = TRUE
    /\ Calm /\ UNCHANGED <<log, unread, changes, pinned, due, marks, wire, admin, paneVars, listVars,
                           sendVars>>

Heard(e) == wire # <<>> /\ e = Head(wire) /\ wire' = Tail(wire) /\ Calm
            /\ UNCHANGED <<log, unread, changes, pinned, due, marks, online, admin, active, opening,
                           choosing, sendVars>>
Reload(h) == IF h = active THEN Load(h, Asking(h, TRUE, 0)) ELSE NoLoad

\* Mutant of IsDuplicate: each delivery of an event counts.
IsDuplicateNever(m) == FALSE

IsDuplicate(m) == m \in known

HearNew(e) ==
    LET mine == log[e.msg].fromMe
        h == e.chat
    IN /\ Heard(e) /\ e.kind = "new"
       /\ known' = known \cup {e.msg} /\ Up(h, e.n)
       /\ IF h \in DOMAIN list
          THEN /\ NoLoadChats
               /\ list' = [list EXCEPT ![h] = IF mine THEN 0 ELSE IF IsDuplicate(e.msg) THEN @ ELSE @ + 1]
               /\ off' = IF e.n = heard[h] + 1 \/ (e.msg \in known /\ (~mine \/ e.n = heard[h]))
                         THEN off ELSE off \cup {h}
          ELSE LoadChats /\ UNCHANGED <<list, off>>
       /\ Reload(h)

HearStatus(e) ==
    /\ Heard(e) /\ e.kind = "status" /\ Reload(e.chat)
    /\ UNCHANGED listVars

\* chat:update: a count other than 0 is ignored for a chat that is listed.
HearUpdate(e) ==
    LET h == e.chat
        n == Newest({heard[h], e.n})
    IN /\ Heard(e) /\ e.kind = "update" /\ Up(h, e.n) /\ NoLoad /\ NoLoadChats
       /\ IF h \in DOMAIN list
          THEN /\ list' = [list EXCEPT ![h] = IF e.count = 0 THEN 0 ELSE @]
               /\ off' = IF e.n = heard[h] + 1 /\ e.count = 0 THEN off ELSE off \cup {h}
          ELSE /\ list' = [g \in DOMAIN list \cup {h} |-> IF g = h THEN e.count ELSE list[g]]
               /\ off' = IF e.seen = n THEN off \ {h} ELSE off \cup {h}
       /\ UNCHANGED known

HearSync(e) ==
    /\ Heard(e) /\ e.kind = "sync" /\ LoadChats
    /\ IF active # NoChat
       THEN Load(active, [Asking(active, TRUE, 0) EXCEPT !.since = Oldest(pane)]) ELSE NoLoad
    /\ UNCHANGED <<list, known, heard, off>>

-----------------------------------------------------------------------------
\* A log, as it was before the page was opened.  The list is still to be loaded, or
\* loaded, with a chat chosen.  Change 1 of a count is what it was then.
InboxInit ==
    /\ log \in Seq([chat : Chat, fromMe : BOOLEAN, n : {0}])
    /\ unread \in [Chat -> Nat] /\ changes = [h \in Chat |-> 1] /\ pinned \subseteq Chat
    /\ admin \in BOOLEAN /\ left \in [Input -> Nat]
    /\ due = {} /\ marks = {} /\ wire = <<>> /\ online = TRUE
    /\ \/ list = <<>> /\ active = NoChat /\ opening = 1 /\ loads = <<>>
       \/ /\ list = unread /\ active \in Chat /\ opening = 0
          /\ loads \in {<<>>, <<Asking(active, FALSE, 0)>>}
    /\ choosing = <<>> /\ pane = Nothing /\ marred = TRUE
    /\ listing = Resting /\ known = {} /\ heard = changes /\ off = {}
    /\ moved = {} /\ short = FALSE
    /\ attached = <<>> /\ sending = [step |-> "none", file |-> <<>>] /\ sent = {}

Loading == \E i \in DOMAIN loads :
               LoadServe(i) \/ LoadAnswer(i) \/ LoadFails(i) \/ LoadLimited(i)
Listing == ListServe \/ ListAnswer \/ ListFails
User == \/ ChooseInbox \/ InboxReady \/ LoadMore \/ Mark \/ Attach \/ Submit \/ Uploaded
        \/ UploadFails \/ Posted
        \/ \E h \in Chat : SelectChat(h)
        \/ \E i \in DOMAIN choosing : Assignees(i)
Server == \/ \E h \in Chat, mine \in BOOLEAN : Arrive(h, mine)
          \/ \E m \in due : Announce(m)
          \/ \E m \in 1..Len(log) : Repeat(m)
          \/ \E h \in Chat : Status(h)
          \/ SyncCompleted
          \/ \E k \in marks : MarkClear(k) \/ MarkFetch(k) \/ MarkTell(k) \/ MarkAnswer(k)
Socket == \/ Drop \/ ConnectWS
          \/ \E e \in ToSet(wire) : HearNew(e) \/ HearStatus(e) \/ HearUpdate(e) \/ HearSync(e)
InboxNext == Loading \/ Listing \/ User \/ Server \/ Socket

InboxSpec == InboxInit /\ [][InboxNext]_inboxVars

-----------------------------------------------------------------------------
Pane(p) == /\ p.held \in Seq(1..Len(log)) /\ p.screen \in Seq(1..Len(log))
           /\ p.next \in 0..Len(log) /\ p.foot \in {"none", "end", "more", "phone"}
InboxTypeOK ==
    /\ \A m \in 1..Len(log) : log[m].chat \in Chat
    /\ unread \in [Chat -> Nat] /\ due \subseteq 1..Len(log)
    /\ active \in Chat \cup {NoChat} /\ choosing \in Seq(Chat) /\ Pane(pane)
    /\ \A i \in DOMAIN loads : loads[i].chat \in Chat /\ loads[i].rows \in Seq(1..Len(log))
    /\ DOMAIN list \subseteq Chat /\ known \subseteq 1..Len(log)
    /\ sending.step \in {"none", "upload", "post"} /\ left \in [Input -> Nat]

\* An attachment is sent to the chat that it was chosen for, unless another file
\* was attached while it was uploaded (handleSendMessageSubmit reads activeChatId
\* after the upload; selectChat drops what is attached).
AttachmentsGoHome == \A s \in sent : s.to # s.file[1] => s.as # s.file

\* The pane shows messages of the open chat only, whatever answers are late,
\* but while the assignees of a new selection are loading (the guard of loadMessages).
ScreenOfChat ==
    active # NoChat /\ choosing = <<>> =>
        \A m \in ToSet(pane.screen) : log[m].chat = active

DashboardInv == InboxTypeOK /\ AttachmentsGoHome /\ ScreenOfChat

\* Nothing is under way.
Rest == /\ loads = <<>> /\ choosing = <<>> /\ opening = 0 /\ listing.step = "none"
        /\ wire = <<>> /\ due = {} /\ marks = {}

\* At rest the pane shows the newest messages without a gap or a repetition, and
\* offers older ones exactly when there are some.  It may be behind only when an
\* event was lost, a load failed or was overtaken by a later one, a page of older
\* messages met another pane than it was asked for, or a selection was given up
\* before its assignees came (loadMessages, selectChat).
ScreenIsDue ==
    Rest /\ active # NoChat /\ ~marred =>
        /\ pane.screen = Top(Of(active), Len(pane.screen))
        /\ Len(pane.screen) = Cardinality(Of(active)) \/ Len(pane.screen) >= Page
        /\ pane.foot \in {"more", "phone"} =>
              (pane.foot = "more" <=> Cardinality(Of(active)) > Len(pane.screen))

\* At rest a listed chat shows the unread count of the database, although the page
\* counts events by itself, unless its events were lost or handled out of order,
\* or crossed a page of the list or a mark as read (handleWsEvent, loadChats).
CountsAreDue == Rest => \A h \in DOMAIN list \ off : list[h] = unread[h]

\* At rest every chat is listed.  Missing are only chats without a message, chats
\* that a pinned chat hides from the cursor, chats that rose while the pages were
\* read, what follows a page that failed, and new chats whose events were lost.
AllListed ==
    Rest /\ ~short =>
        \A h \in Chat \ DOMAIN list :
            h \in moved \cup off \/ LastMessage(h) = 0 \/ pinned \cap DOMAIN list # {}
=============================================================================
