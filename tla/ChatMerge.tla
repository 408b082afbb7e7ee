------------------------------ MODULE ChatMerge ------------------------------
(***************************************************************************)
(* One person whom WhatsApp names by a LID and by a phone number, in ONE   *)
(* session: the mapping of the two names (modules/sessions/lid-mapping.ts),*)
(* the chats and contacts made under either (modules/chats/                *)
(* chat.service.ts, modules/contacts/contact.service.ts), and the merge    *)
(* that every saving of the mapping starts and does not wait for, while    *)
(* inbound jobs, the history sync and the users write to both chats.  An   *)
(* operator may run scripts/cleanup-lid-duplicates.ts meanwhile.           *)
(*                                                                         *)
(* A merge is one transaction at READ COMMITTED: each of its statements    *)
(* sees what is committed by then, and its own writes show when it commits.*)
(***************************************************************************)
EXTENDS Integers, FiniteSets

CONSTANTS
    Msg,            \* messages of the person
    Saver,          \* calls of saveLidMapping, or runs of the script
    MaxChats,       \* bound: rows ever made
    MaxUnread       \* bound: unread counts that WhatsApp reports

Jid  == {"lid", "phone"}
Chat == 1..MaxChats
NoChat == 0

ASSUME MergeTypes == IsFiniteSet(Msg) /\ IsFiniteSet(Saver)
                     /\ MaxChats \in Nat /\ MaxUnread \in Nat

VARIABLES
    mapped, persisted,   \* lid:mapping in Redis; lid in the contact's metadata
    contact,             \* the contacts there are
    chat, unread,        \* waChatId of a chat ("none" before, "gone" after)
    home,                \* the chat of a stored message
    batch,               \* the messages that the history sync inserts
    at, name, where,     \* a message's job: step, resolved name, chat found
    upserts,             \* names resolved by an upsertChat under way
    saver, scripts,      \* a saving of the mapping: step; which are the script
    holds,               \* its merge has locked the contact of the LID
    readLid, readPhone,  \* what it read: chat and unread count
    moved,               \* the messages its statement moves
    caught,              \* history: messages written into a chat being merged
    due, raced,          \* ... unread count called for; changed during a merge
    overlap,             \* ... two merges ran at once
    strayed              \* ... a job was under way when the mapping came; it was
                         \*     lost with Redis; or a merge was rolled back

jobVars   == <<batch, at, name, where, upserts>>
saveVars  == <<saver, scripts, holds, readLid, readPhone, moved>>
mapVars   == <<mapped, persisted>>
rowVars   == <<contact, chat, unread, home>>
history   == <<caught, due, raced, overlap, strayed>>
vars == <<mapVars, rowVars, jobVars, saveVars, history>>

Read == [id : Chat \cup {NoChat}, unread : Nat]
Nothing == [id |-> NoChat, unread |-> 0]
Merging == {"lid", "phone", "move", "count", "commit", "rename"}

TypeOK ==
    /\ mapped \in BOOLEAN /\ persisted \in BOOLEAN /\ contact \in SUBSET Jid
    /\ chat \in [Chat -> Jid \cup {"none", "gone"}] /\ unread \in [Chat -> Nat]
    /\ \A c, d \in Chat : chat[c] = chat[d] /\ chat[c] \in Jid => c = d
    /\ home \in [Msg -> Chat \cup {NoChat}]
    /\ batch \in SUBSET Msg
    /\ at \in [Msg -> {"new", "resolve", "find", "create", "store", "done", "lost"}]
    /\ \A m \in Msg : at[m] = "lost" => m \in batch
    /\ upserts \in SUBSET Jid /\ scripts \in SUBSET Saver
    /\ name \in [Msg -> Jid] /\ where \in [Msg -> Chat \cup {NoChat}]
    /\ saver \in [Saver -> {"idle", "persist", "contacts", "done"} \cup Merging]
    /\ holds \in SUBSET Saver /\ readLid \in [Saver -> Read] /\ readPhone \in [Saver -> Read]
    /\ moved \in [Saver -> SUBSET Msg]
    /\ caught \in SUBSET Msg /\ due \in Int /\ raced \in BOOLEAN
    /\ overlap \in BOOLEAN /\ strayed \in BOOLEAN

Init ==
    /\ mapped = FALSE /\ persisted = FALSE /\ contact \in SUBSET Jid
    /\ chat = [c \in Chat |-> "none"] /\ unread = [c \in Chat |-> 0]
    /\ home = [m \in Msg |-> NoChat]
    /\ batch \in SUBSET Msg /\ upserts = {} /\ scripts = {}
    /\ at = [m \in Msg |-> "new"] /\ name \in [Msg -> Jid] /\ where = [m \in Msg |-> NoChat]
    /\ saver = [k \in Saver |-> "idle"]
    /\ holds = {} /\ readLid = [k \in Saver |-> Nothing] /\ readPhone = [k \in Saver |-> Nothing]
    /\ moved = [k \in Saver |-> {}]
    /\ caught = {} /\ due = 0 /\ raced = FALSE /\ overlap = FALSE /\ strayed = FALSE

Named(j) == IF \E c \in Chat : chat[c] = j THEN CHOOSE c \in Chat : chat[c] = j ELSE NoChat
Seen(c)  == IF c = NoChat THEN Nothing ELSE [id |-> c, unread |-> unread[c]]

\* A merge has read the counts and has not committed.
Counting == \E k \in Saver : saver[k] \in {"phone", "move", "count", "commit", "rename"}

\* The row is locked by a merge that has updated it.
Locked(c) == \E k \in Saver : saver[k] = "commit" /\ readPhone[k].id = c

-----------------------------------------------------------------------------
(* A job: the inbound worker, the history sync.                            *)

\* Mutant of Resolved: no fallback.
ResolvedInRedis(j) == IF j = "lid" /\ mapped THEN "phone" ELSE j

\* resolveLidJid, with the contact's metadata to fall back on.
Resolved(j) == IF j = "lid" /\ (mapped \/ persisted) THEN "phone" ELSE j

Step(m, s) == at' = [at EXCEPT ![m] = s]

\* The resolution in ensureChatExists is the one that counts.  It caches what it
\* found in the metadata.
Resolve(m) ==
    /\ at[m] \in {"new", "resolve"}
    /\ name' = [name EXCEPT ![m] = Resolved(@)] /\ Step(m, "find")
    /\ mapped' = (mapped \/ (name[m] = "lid" /\ persisted))
    /\ UNCHANGED <<persisted, rowVars, batch, where, upserts, saveVars, history>>

\* ensureChatExists: SELECT, then INSERT ... ON CONFLICT DO NOTHING, then SELECT.
Find(m) ==
    /\ at[m] = "find"
    /\ where' = [where EXCEPT ![m] = Named(name[m])]
    /\ Step(m, IF Named(name[m]) = NoChat THEN "create" ELSE "store")
    /\ UNCHANGED <<mapVars, rowVars, batch, name, upserts, saveVars, history>>

NewChat == CHOOSE c \in Chat : chat[c] = "none"

\* The chat that the unique index of wa_chat_id finds.
Present(j) == Named(j)

\* Mutant of Gone: the insert of the message is tried again in the same chat.
GoneAgain(m) == "store"

\* An inbound job whose insert fails starts over.  bulkInsert counts the messages
\* of its batch as errors, and the job of the history sync goes on.
Gone(m) == IF m \in batch THEN "lost" ELSE "resolve"

Create(m) ==
    /\ at[m] = "create"
    /\ IF Present(name[m]) = NoChat
       THEN /\ \E c \in Chat : chat[c] = "none"
            /\ chat' = [chat EXCEPT ![NewChat] = name[m]]
            /\ where' = [where EXCEPT ![m] = NewChat]
       ELSE where' = [where EXCEPT ![m] = Present(name[m])] /\ UNCHANGED chat
    /\ Step(m, "store")
    /\ UNCHANGED <<mapVars, contact, unread, home, batch, name, upserts, saveVars, history>>

UpsertContact(j) == contact' = contact \cup {j}

Caught(m) == \E k \in Saver : saver[k] \in {"count", "commit"} /\ readLid[k].id = where[m]

\* The sender's contact, resolved anew, then the message: its trigger raises the
\* unread count.  The history sync has saved the contacts before, and switches the
\* trigger off.
Store(m) ==
    /\ at[m] = "store" /\ (m \notin batch => ~Locked(where[m]))
    /\ IF m \in batch THEN UNCHANGED contact ELSE UpsertContact(Resolved(name[m]))
    /\ IF chat[where[m]] = "gone"
       THEN Step(m, Gone(m)) /\ UNCHANGED <<where, unread, home, caught, due, raced>>
       ELSE /\ Step(m, "done") /\ home' = [home EXCEPT ![m] = where[m]]
            /\ where' = [where EXCEPT ![m] = NoChat]
            /\ IF m \in batch THEN UNCHANGED <<unread, due, raced>>
               ELSE /\ unread' = [unread EXCEPT ![where[m]] = @ + 1] /\ due' = due + 1
                    /\ raced' = (raced \/ Counting)
            /\ caught' = IF Caught(m) THEN caught \cup {m} ELSE caught
    /\ UNCHANGED <<mapVars, chat, batch, name, upserts, saveVars, overlap, strayed>>

-----------------------------------------------------------------------------
(* Users and WhatsApp set the unread count of a chat.                      *)

SetUnread(c, n) ==
    /\ chat[c] \in Jid /\ ~Locked(c)
    /\ unread' = [unread EXCEPT ![c] = n]
    /\ due' = due - unread[c] + n
    /\ raced' = (raced \/ Counting)
    /\ UNCHANGED <<mapVars, contact, chat, home, saveVars, caught, overlap, strayed>>

\* markChatAsRead.
MarkRead(c) == SetUnread(c, 0) /\ UNCHANGED jobVars

\* upsertChat resolves the name, and caches what it found in the metadata, ...
AskUpsert(j) ==
    /\ upserts' = upserts \cup {Resolved(j)}
    /\ mapped' = (mapped \/ (j = "lid" /\ persisted))
    /\ UNCHANGED <<persisted, rowVars, batch, at, name, where, saveVars, history>>

\* ... and then INSERT ... ON CONFLICT DO UPDATE.  A chat that exists takes the
\* unread count of the history sync; of chats.upsert and chats.update only 0.
Upsert(j, n, isHistorySync) ==
    /\ j \in upserts
    /\ upserts' = upserts \ {j} /\ UNCHANGED <<batch, at, name, where>>
    /\ IF Named(j) = NoChat
       THEN /\ \E c \in Chat : chat[c] = "none"
            /\ chat' = [chat EXCEPT ![NewChat] = j]
            /\ unread' = [unread EXCEPT ![NewChat] = n]
            /\ due' = due + n /\ raced' = (raced \/ Counting)
            /\ UNCHANGED <<mapVars, contact, home, saveVars, caught, overlap, strayed>>
       ELSE IF isHistorySync \/ n = 0
            THEN SetUnread(Named(j), n)
            ELSE UNCHANGED <<mapVars, rowVars, saveVars, history>>

\* A chat in chats.upsert and chats.update, in a chunk of the history.
SyncChat(j)    == \E n \in 0..MaxUnread : Upsert(j, n, FALSE)
HistoryChat(j) == \E n \in 0..MaxUnread : Upsert(j, n, TRUE)

\* The contacts, senders and mentioned ones of a chunk of the history.
HistoryContact(j) ==
    /\ j = "lid" => holds = {}
    /\ UpsertContact(Resolved(j))
    /\ UNCHANGED <<mapVars, chat, unread, home, jobVars, saveVars, history>>

-----------------------------------------------------------------------------
(* saveLidMapping and mergeLidChatAndContact.                              *)

Goes(k, s) == saver' = [saver EXCEPT ![k] = s]

\* Its transaction has ended; what it read goes out of scope.
Ends(k) ==
    /\ Goes(k, "done") /\ holds' = holds \ {k}
    /\ readLid' = [readLid EXCEPT ![k] = Nothing]
    /\ readPhone' = [readPhone EXCEPT ![k] = Nothing]
    /\ moved' = [moved EXCEPT ![k] = {}]
    /\ UNCHANGED scripts

\* A job or an upsertChat that has looked the LID up without finding the number.
UnderWay == \/ "lid" \in upserts
            \/ \E m \in Msg : at[m] \in {"find", "create"} /\ name[m] = "lid"

Save(k) ==
    /\ saver[k] = "idle"
    /\ mapped' = TRUE /\ Goes(k, "persist")
    /\ strayed' = (strayed \/ UnderWay)
    /\ UNCHANGED <<persisted, rowVars, jobVars, scripts, holds, readLid, readPhone, moved,
                   caught, due, raced, overlap>>

\* Only an existing contact of the phone number keeps the mapping.
Persist(k) ==
    /\ saver[k] = "persist"
    /\ persisted' = (persisted \/ "phone" \in contact) /\ Goes(k, "contacts")
    /\ UNCHANGED <<mapped, rowVars, jobVars, scripts, holds, readLid, readPhone, moved, history>>

\* The transaction begins with the contacts: that of the LID is renamed or
\* deleted, and other merges wait for it.
MergeContacts(k) ==
    /\ saver[k] = "contacts"
    /\ "lid" \in contact => holds = {}
    /\ holds' = IF "lid" \in contact THEN {k} ELSE holds
    /\ overlap' = (overlap \/ \E l \in Saver : saver[l] \in Merging)
    /\ Goes(k, "lid")
    /\ UNCHANGED <<mapVars, rowVars, jobVars, scripts, readLid, readPhone, moved,
                   caught, due, raced, strayed>>

\* The writes to the contacts become visible.
CommitContacts(k) == contact' = IF k \in holds THEN {"phone"} ELSE contact

\* The script, first pass: the contacts whose metadata name a LID.  Its statements
\* before the merge are committed each, and it leaves the contacts alone.
ScanMapped(k) ==
    /\ saver[k] = "idle" /\ persisted
    /\ Goes(k, "lid") /\ scripts' = scripts \cup {k}
    /\ overlap' = (overlap \/ \E l \in Saver : saver[l] \in Merging)
    /\ UNCHANGED <<mapVars, rowVars, jobVars, holds, readLid, readPhone, moved,
                   caught, due, raced, strayed>>

\* The second pass: chats of the same display name, read in one SELECT.  It merges
\* those that share messages or whose LID chat has none unread, and with
\* --force-uncertain the others.
ScanNamed(k) ==
    /\ saver[k] = "idle" /\ Named("lid") # NoChat /\ Named("phone") # NoChat
    /\ readLid' = [readLid EXCEPT ![k] = Seen(Named("lid"))]
    /\ readPhone' = [readPhone EXCEPT ![k] = Seen(Named("phone"))]
    /\ Goes(k, "move") /\ scripts' = scripts \cup {k}
    /\ overlap' = (overlap \/ \E l \in Saver : saver[l] \in Merging)
    /\ UNCHANGED <<mapVars, rowVars, jobVars, holds, moved, caught, due, raced, strayed>>

MergeLid(k) ==
    /\ saver[k] = "lid"
    /\ readLid' = [readLid EXCEPT ![k] = Seen(Named("lid"))] /\ Goes(k, "phone")
    /\ UNCHANGED <<mapVars, rowVars, jobVars, scripts, holds, readPhone, moved, history>>

\* Without a chat of the LID the transaction ends here.
MergePhone(k) ==
    /\ saver[k] = "phone"
    /\ IF readLid[k].id = NoChat
       THEN Ends(k) /\ CommitContacts(k)
       ELSE /\ readPhone' = [readPhone EXCEPT ![k] = Seen(Named("phone"))]
            /\ Goes(k, IF Named("phone") = NoChat THEN "rename" ELSE "move")
            /\ UNCHANGED <<contact, scripts, holds, readLid, moved>>
    /\ UNCHANGED <<mapVars, chat, unread, home, jobVars, history>>

\* The messages that are in the chat now are moved; but those that the other
\* chat has, too, are deleted.
MergeMove(k) ==
    /\ saver[k] = "move"
    /\ \A l \in Saver \ {k} : saver[l] \in {"count", "commit"} => moved[l] = {}
    /\ moved' = [moved EXCEPT ![k] =
                    {m \in Msg : home[m] = readLid[k].id /\ home[m] # readPhone[k].id}]
    /\ Goes(k, "count")
    /\ UNCHANGED <<mapVars, rowVars, jobVars, scripts, holds, readLid, readPhone, history>>

\* The counts that were read are added up, and the row is locked.
MergeCount(k) ==
    /\ saver[k] = "count" /\ ~Locked(readPhone[k].id)
    /\ Goes(k, "commit")
    /\ UNCHANGED <<mapVars, rowVars, jobVars, scripts, holds, readLid, readPhone, moved, history>>

\* Mutant of Merged: the messages are not moved before the chat is deleted.
MergedNot(k) == {}

Merged(k) == moved[k]

\* Mutant of Counted: the greater count is kept.
CountedOnce(k) == IF readPhone[k].unread > readLid[k].unread
                  THEN readPhone[k].unread ELSE readLid[k].unread

Counted(k) == readPhone[k].unread + readLid[k].unread

\* DELETE of the chat, which takes the messages that are still in it, and COMMIT.
MergeCommit(k) ==
    LET lid == readLid[k].id
        phone == readPhone[k].id
    IN  /\ saver[k] = "commit"
        /\ home' = [m \in Msg |-> IF m \in Merged(k) THEN phone
                                  ELSE IF home[m] = lid THEN NoChat ELSE home[m]]
        /\ unread' = [unread EXCEPT ![phone] = Counted(k), ![lid] = 0]
        /\ chat' = [chat EXCEPT ![lid] = "gone"]
        /\ CommitContacts(k) /\ Ends(k)
        /\ UNCHANGED <<mapVars, jobVars, history>>

\* The statements that mergeLidChatAndContact and mergeChats of the script share.
mergeChats(k) == MergeMove(k) \/ MergeCount(k) \/ MergeCommit(k)

\* UPDATE chats SET wa_chat_id.  A chat of the phone number that was made
\* meanwhile makes it fail, and with it the whole transaction.
MergeRename(k) ==
    LET lid == readLid[k].id
    IN  /\ saver[k] = "rename"
        /\ Ends(k)
        /\ IF chat[lid] = "lid" /\ Named("phone") # NoChat
           THEN strayed' = TRUE /\ UNCHANGED <<chat, contact>>
           ELSE /\ chat' = IF chat[lid] = "gone" THEN chat ELSE [chat EXCEPT ![lid] = "phone"]
                /\ CommitContacts(k) /\ UNCHANGED strayed
        /\ UNCHANGED <<mapVars, unread, home, jobVars, caught, due, raced, overlap>>

\* The database refuses a statement: the transaction is rolled back, the error
\* logged, and nobody tries again.
MergeFails(k) ==
    /\ saver[k] \in Merging
    /\ Ends(k) /\ strayed' = TRUE
    /\ UNCHANGED <<mapVars, rowVars, jobVars, caught, due, raced, overlap>>

\* Redis is emptied.
RedisLoses ==
    /\ mapped
    /\ mapped' = FALSE /\ strayed' = (strayed \/ ~persisted)
    /\ UNCHANGED <<persisted, rowVars, jobVars, saveVars, caught, due, raced, overlap>>

JobSteps(m)  == Resolve(m) \/ Find(m) \/ Create(m) \/ Store(m)
SaveSteps(k) == Save(k) \/ Persist(k) \/ MergeContacts(k) \/ MergeLid(k) \/ MergePhone(k)
                \/ mergeChats(k) \/ MergeRename(k)
SyncSteps(j) == SyncChat(j) \/ HistoryChat(j)
Outside == \/ RedisLoses
           \/ \E c \in Chat : MarkRead(c)
           \/ \E j \in Jid : AskUpsert(j) \/ HistoryContact(j)
           \/ \E k \in Saver : MergeFails(k) \/ ScanMapped(k) \/ ScanNamed(k)

Next == \/ \E m \in Msg : JobSteps(m)
        \/ \E k \in Saver : SaveSteps(k)
        \/ \E j \in Jid : SyncSteps(j)
        \/ Outside

Fairness == /\ \A m \in Msg : WF_vars(JobSteps(m))
            /\ \A k \in Saver : WF_vars(SaveSteps(k))

Spec == Init /\ [][Next]_vars /\ Fairness

-----------------------------------------------------------------------------
Kept(m) == at[m] = "done" => home[m] # NoChat

\* A message that was stored stays stored, unless it came into the chat between
\* the statement that moves its messages and the one that deletes it, or two
\* merges of the same mapping ran at once (chat.service.ts 931-972).
KeptUnlessCaught == \A m \in Msg \ caught : Kept(m) \/ overlap

\* The types, and: what was stored is kept (mergeLidChatAndContact).
MergeInv == TypeOK /\ KeptUnlessCaught

\* The merge deletes no message but those that the other chat has, too ("Safely
\* move remaining messages", chat.service.ts 944).
MessagesKept == \A m \in Msg : Kept(m)

AtRest == /\ upserts = {} /\ \A m \in Msg : at[m] \in {"new", "done", "lost"}
          /\ \A k \in Saver : saver[k] \in {"idle", "done"}

\* When nothing is under way and the mapping was saved, no chat is left under
\* the LID, also after Redis lost the mapping: unless a job had looked the LID up
\* just before, the contact could not keep the mapping, or a merge failed.
OneChat ==
    AtRest /\ (\E k \in Saver \ scripts : saver[k] = "done") /\ ~strayed /\ ~overlap
        => Named("lid") = NoChat

\* The chats show as many unread messages as came since they were read: unless
\* a count changed while a merge was using what it had read.
UnreadIsDue ==
    AtRest /\ ~raced /\ ~overlap =>
        due = (IF Named("lid") = NoChat THEN 0 ELSE unread[Named("lid")])
            + (IF Named("phone") = NoChat THEN 0 ELSE unread[Named("phone")])

\* Every message is stored and every merge ends: a message whose chat was deleted
\* under its job finds the other one, unless it came with the history.
AllStored == /\ <>[](\A m \in Msg : at[m] = "done" \/ (at[m] = "lost" /\ m \in batch))
             /\ <>[](\A k \in Saver : saver[k] = "done")
=============================================================================
