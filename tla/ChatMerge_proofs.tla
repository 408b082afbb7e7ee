-------------------------- MODULE ChatMerge_proofs --------------------------
(***************************************************************************)
(* Proofs about the merge of a person's two chats, for any number of       *)
(* messages, of mappings saved and of chats: what was stored is kept, the  *)
(* chat of the LID goes, and the unread counts add up, with the exceptions *)
(* that the properties name.                                               *)
(***************************************************************************)
EXTENDS ChatMerge, TLAPS

\* TypeOK in parts, each of the variables that change together.
FlagTypes == {mapped, persisted, raced, overlap, strayed} \subseteq BOOLEAN

ChatTypes ==
    /\ chat \in [Chat -> Jid \cup {"none", "gone"}]
    /\ \A c, d \in Chat : chat[c] = chat[d] /\ chat[c] \in Jid => c = d

ContactTypes == contact \in SUBSET Jid
HomeTypes == home \in [Msg -> Chat \cup {NoChat}] /\ caught \in SUBSET Msg
CountTypes == unread \in [Chat -> Nat] /\ due \in Int

JobTypes ==
    /\ batch \in SUBSET Msg /\ upserts \in SUBSET Jid
    /\ at \in [Msg -> {"new", "resolve", "find", "create", "store", "done", "lost"}]
    /\ \A m \in Msg : at[m] = "lost" => m \in batch
    /\ name \in [Msg -> Jid] /\ where \in [Msg -> Chat \cup {NoChat}]

SaveTypes ==
    /\ saver \in [Saver -> {"idle", "persist", "contacts", "done"} \cup Merging]
    /\ holds \in SUBSET Saver /\ scripts \in SUBSET Saver
    /\ readLid \in [Saver -> Read] /\ readPhone \in [Saver -> Read]
    /\ moved \in [Saver -> SUBSET Msg]

\* A job that stores knows a chat that was made; a merge that goes on has read
\* one of the LID, and one of the number if it moves messages.
JobPlaces == \A m \in Msg : at[m] = "store" => where[m] \in Chat /\ chat[where[m]] # "none"

SavePlaces ==
    \A k \in Saver :
        /\ saver[k] \in {"move", "count", "commit", "rename"} => readLid[k].id \in Chat
        /\ saver[k] \in {"move", "count", "commit"} => readPhone[k].id \in Chat
        /\ readLid[k].id # NoChat => chat[readLid[k].id] # "none"

Types == FlagTypes /\ ChatTypes /\ ContactTypes /\ HomeTypes /\ CountTypes
         /\ JobTypes /\ SaveTypes /\ JobPlaces /\ SavePlaces

\* Merges run one after the other.
Alone == \A k, l \in Saver : saver[k] \in Merging /\ saver[l] \in Merging => k = l

\* What a merge has read is still so, as long as it is the only one.
HasRead(k) == saver[k] \in {"phone", "move", "count", "commit", "rename"} /\ readLid[k].id # NoChat
Joins(k) == saver[k] \in {"move", "count", "commit"}

ReadsHold ==
    \A k \in Saver : /\ HasRead(k) => chat[readLid[k].id] = "lid"
                     /\ Joins(k) => chat[readPhone[k].id] = "phone"

\* Stored, and moved, are only messages whose job is done.
HomeInv == \A m \in Msg : home[m] # NoChat \/ (\E k \in Saver : m \in moved[k]) => at[m] = "done"

\* A message in the LID's chat is moved, or came too late to be.
MovedInv ==
    \A k \in Saver, m \in Msg \ caught :
        saver[k] \in {"count", "commit"} /\ home[m] = readLid[k].id => m \in moved[k]

AloneInv == ~overlap => Alone /\ ReadsHold /\ MovedInv /\ KeptUnlessCaught

\* The inductive invariant of MergeInv: without two merges at once, what is stored
\* outside of caught is in a chat that stays, or is moved before that one goes.
IInv == Types /\ HomeInv /\ AloneInv

-----------------------------------------------------------------------------
\* The unique index on wa_chat_id: a name finds its chat, and no other.
LEMMA RowOfName ==
    ASSUME ChatTypes, NEW j \in Jid
    PROVE  /\ Named(j) = NoChat \/ (Named(j) \in Chat /\ chat[Named(j)] = j)
           /\ \A c \in Chat : chat[c] = j => c = Named(j)
<1>1. CASE \E c \in Chat : chat[c] = j
  <2>1. Named(j) \in Chat /\ chat[Named(j)] = j
    BY <1>1, Zenon DEF Named
  <2>2. QED
    BY <2>1 DEF ChatTypes
<1>2. CASE ~\E c \in Chat : chat[c] = j
  BY <1>2 DEF Named
<1>3. QED
  BY <1>1, <1>2

LEMMA NewRow ==
    (\E c \in Chat : chat[c] = "none") => NewChat \in Chat /\ chat[NewChat] = "none"
BY Zenon DEF NewChat

LEMMA NoRow == NoChat \notin Chat
BY DEF NoChat, Chat

\* What a step may change: chats are made, deleted and renamed, ...
LEMMA ChatSteps ==
    [Next]_vars =>
        \/ \E m \in Msg : Create(m)
        \/ \E j \in Jid : SyncSteps(j)
        \/ \E k \in Saver : MergeCommit(k) \/ MergeRename(k)
        \/ UNCHANGED chat
BY SMTT(30) DEF Next, JobSteps, SaveSteps, Outside, mergeChats,
   vars, rowVars, Resolve, Find, Store, MarkRead, SetUnread, AskUpsert, HistoryContact, Save,
   Persist, MergeContacts, ScanMapped, ScanNamed, MergeLid, MergePhone, MergeMove,
   MergeCount, MergeFails, RedisLoses

\* A chat is made under a name that no chat has, and renamed to one that none has.
LEMMA ChatsTyped ==
    ASSUME ChatTypes, JobTypes, SaveTypes, SavePlaces, [Next]_vars PROVE ChatTypes'
<1>1. ASSUME NEW m \in Msg, Create(m) PROVE ChatTypes'
  <2>1. name[m] \in Jid
    BY DEF JobTypes
  <2>2. CASE UNCHANGED chat
    BY <2>2 DEF ChatTypes
  <2>3. CASE Named(name[m]) = NoChat /\ chat' = [chat EXCEPT ![NewChat] = name[m]]
    BY <2>1, <2>3, RowOfName, NoRow DEF ChatTypes
  <2>4. QED
    BY <1>1, <2>2, <2>3 DEF Create, Present
<1>2. ASSUME NEW j \in Jid, NEW n \in 0..MaxUnread, NEW b, Upsert(j, n, b)
      PROVE ChatTypes'
  <2>1. CASE UNCHANGED chat
    BY <2>1 DEF ChatTypes
  <2>2. CASE Named(j) = NoChat /\ chat' = [chat EXCEPT ![NewChat] = j]
    BY <2>2, RowOfName, NoRow DEF ChatTypes
  <2>3. QED
    BY <1>2, <2>1, <2>2 DEF Upsert, SetUnread, rowVars
<1>3. ASSUME NEW k \in Saver, MergeCommit(k) PROVE ChatTypes'
  BY <1>3 DEF MergeCommit, ChatTypes, Jid
<1>4. ASSUME NEW k \in Saver, MergeRename(k) PROVE ChatTypes'
  <2>1. CASE UNCHANGED chat
    BY <2>1 DEF ChatTypes
  <2>2. CASE /\ chat' = [chat EXCEPT ![readLid[k].id] = "phone"]
             /\ chat[readLid[k].id] # "gone"
             /\ chat[readLid[k].id] # "lid" \/ Named("phone") = NoChat
    <3>1. readLid[k].id \in Chat /\ chat[readLid[k].id] \in Jid /\ "phone" \in Jid
      BY <1>4, <2>2, NoRow DEF MergeRename, SavePlaces, ChatTypes, Jid
    <3>2. QED
      BY <2>2, <3>1, RowOfName, NoRow DEF ChatTypes, Jid
  <2>3. QED
    BY <1>4, <2>1, <2>2 DEF MergeRename
<1>5. CASE UNCHANGED chat
  BY <1>5 DEF ChatTypes
<1>6. QED
  BY <1>1, <1>2, <1>3, <1>4, <1>5, ChatSteps DEF SyncSteps, SyncChat, HistoryChat

\* ... counts raised, set and added up, ...
LEMMA UnreadSteps ==
    [Next]_vars =>
        \/ \E m \in Msg : Store(m)
        \/ \E c \in Chat : MarkRead(c)
        \/ \E j \in Jid : SyncSteps(j)
        \/ \E k \in Saver : MergeCommit(k)
        \/ UNCHANGED <<unread, due>>
BY SMTT(30) DEF Next, JobSteps, SaveSteps, Outside, mergeChats,
   vars, rowVars, history, Resolve, Find, Create, AskUpsert, HistoryContact, Save,
   Persist, MergeContacts, ScanMapped, ScanNamed, MergeLid, MergePhone, MergeMove,
   MergeCount, MergeFails, RedisLoses, MergeRename

\* ... messages stored and moved, ...
LEMMA HomeSteps ==
    [Next]_vars =>
        \/ \E m \in Msg : Store(m)
        \/ \E k \in Saver : MergeCommit(k)
        \/ UNCHANGED <<home, caught>>
BY SMTT(30) DEF Next, JobSteps, SaveSteps, Outside, mergeChats, SyncSteps, SyncChat,
   HistoryChat, vars, rowVars, history, Resolve, Find, Create, AskUpsert, HistoryContact, Save,
   MarkRead, SetUnread, Upsert, Persist, MergeContacts, ScanMapped, ScanNamed, MergeLid,
   MergePhone, MergeMove, MergeCount, MergeFails, RedisLoses, MergeRename

\* ... contacts made and merged, ...
LEMMA ContactSteps ==
    [Next]_vars =>
        \/ \E j \in Jid : UpsertContact(Resolved(j))
        \/ \E m \in Msg : UpsertContact(Resolved(name[m]))
        \/ contact' \in {contact, {"phone"}}
BY SMTT(30) DEF Next, JobSteps, SaveSteps, Outside, mergeChats, SyncSteps, SyncChat,
   HistoryChat, vars, rowVars, history, Resolve, Find, Create, Store, AskUpsert,
   HistoryContact, Save, MarkRead, SetUnread, Upsert, Persist, MergeContacts, ScanMapped,
   ScanNamed, MergeLid, MergePhone, MergeMove, MergeCount, MergeFails, RedisLoses, MergeRename,
   MergeCommit, CommitContacts

\* ... and jobs go on by themselves.
LEMMA JobMoves ==
    [Next]_vars =>
        \/ \E m \in Msg : JobSteps(m)
        \/ \E j \in Jid : SyncSteps(j) \/ AskUpsert(j)
        \/ UNCHANGED jobVars
BY SMTT(30) DEF Next, SaveSteps, Outside, mergeChats,
   vars, rowVars, MarkRead, HistoryContact, Save,
   Persist, MergeContacts, ScanMapped, ScanNamed, MergeLid, MergePhone, MergeMove,
   MergeCount, MergeFails, RedisLoses, MergeRename, MergeCommit

LEMMA ResolvedIs == ASSUME NEW j \in Jid PROVE Resolved(j) \in Jid
BY DEF Resolved, Jid

LEMMA NamedIs == ASSUME NEW j PROVE Named(j) \in Chat \cup {NoChat}
<1>1. CASE \E c \in Chat : chat[c] = j
  BY <1>1, Zenon DEF Named
<1>2. CASE ~\E c \in Chat : chat[c] = j
  BY <1>2 DEF Named
<1>3. QED
  BY <1>1, <1>2

LEMMA ContactsTyped == ASSUME ContactTypes, JobTypes, [Next]_vars PROVE ContactTypes'
BY ContactSteps, ResolvedIs DEF ContactTypes, JobTypes, UpsertContact, Jid

LEMMA HomesTyped == ASSUME HomeTypes, JobTypes, SavePlaces, [Next]_vars PROVE HomeTypes'
<1>1. ASSUME NEW m \in Msg, Store(m) PROVE HomeTypes'
  BY <1>1 DEF Store, HomeTypes, JobTypes
<1>2. ASSUME NEW k \in Saver, MergeCommit(k) PROVE HomeTypes'
  BY <1>2 DEF MergeCommit, HomeTypes, SavePlaces, history
<1>3. CASE UNCHANGED <<home, caught>>
  BY <1>3 DEF HomeTypes
<1>4. QED
  BY <1>1, <1>2, <1>3, HomeSteps

LEMMA CountsTyped ==
    ASSUME CountTypes, SaveTypes, JobPlaces, SavePlaces, [Next]_vars PROVE CountTypes'
<1>1. ASSUME NEW m \in Msg, Store(m) PROVE CountTypes'
  BY <1>1 DEF Store, CountTypes, JobPlaces
<1>2. ASSUME NEW c \in Chat, NEW n \in Nat, SetUnread(c, n) PROVE CountTypes'
  BY <1>2 DEF SetUnread, CountTypes
<1>3. ASSUME NEW j \in Jid, NEW n \in 0..MaxUnread, NEW b, Upsert(j, n, b) PROVE CountTypes'
  <2>1. n \in Nat
    BY MergeTypes
  <2>2. CASE Named(j) = NoChat
    BY <1>3, <2>1, <2>2, NewRow DEF Upsert, CountTypes
  <2>3. CASE Named(j) # NoChat /\ SetUnread(Named(j), n)
    BY <1>2, <2>1, <2>3, NamedIs
  <2>4. CASE UNCHANGED <<rowVars, history>>
    BY <2>4 DEF CountTypes, rowVars, history
  <2>5. QED
    BY <1>3, <2>2, <2>3, <2>4 DEF Upsert
<1>4. ASSUME NEW k \in Saver, MergeCommit(k) PROVE CountTypes'
  <2>1. Counted(k) \in Nat
    BY DEF Counted, SaveTypes, Read
  <2>2. QED
    BY <1>4, <2>1 DEF MergeCommit, CountTypes, history
<1>5. CASE UNCHANGED <<unread, due>>
  BY <1>5 DEF CountTypes
<1>6. QED
  BY <1>1, <1>2, <1>3, <1>4, <1>5, UnreadSteps, 0 \in Nat
  DEF SyncSteps, SyncChat, HistoryChat, MarkRead

LEMMA JobsTyped == ASSUME JobTypes, [Next]_vars PROVE JobTypes'
<1>1. ASSUME NEW m \in Msg, Resolve(m) PROVE JobTypes'
  BY <1>1, ResolvedIs DEF Resolve, JobTypes, Step
<1>2. ASSUME NEW m \in Msg, Find(m) PROVE JobTypes'
  BY <1>2, NamedIs DEF Find, JobTypes, Step
<1>3. ASSUME NEW m \in Msg, Create(m) PROVE JobTypes'
  BY <1>3, NamedIs, NewRow DEF Create, JobTypes, Step, Present
<1>4. ASSUME NEW m \in Msg, Store(m) PROVE JobTypes'
  BY <1>4 DEF Store, Gone, JobTypes, Step
<1>5. ASSUME NEW j \in Jid, AskUpsert(j) PROVE JobTypes'
  BY <1>5, ResolvedIs DEF AskUpsert, JobTypes
<1>6. ASSUME NEW j \in Jid, NEW n \in 0..MaxUnread, NEW b, Upsert(j, n, b) PROVE JobTypes'
  BY <1>6 DEF Upsert, JobTypes
<1>7. CASE UNCHANGED jobVars
  BY <1>7 DEF jobVars, JobTypes
<1>8. QED
  BY <1>1, <1>2, <1>3, <1>4, <1>5, <1>6, <1>7, JobMoves
  DEF JobSteps, SyncSteps, SyncChat, HistoryChat

\* Flags are only ever set to what a condition says.
LEMMA FlagsStay == ASSUME FlagTypes, [Next]_vars PROVE FlagTypes'
<1> USE DEF FlagTypes
<1> USE DEF Next, JobSteps, SaveSteps, SyncSteps, SyncChat, HistoryChat, Outside, mergeChats,
   vars, mapVars, history, Resolve, Find, Create, Store, MarkRead, SetUnread, AskUpsert,
   Upsert, HistoryContact, Save, Persist, MergeContacts, ScanMapped, ScanNamed, MergeLid,
   MergePhone, MergeMove, MergeCount, MergeCommit, MergeRename, MergeFails, RedisLoses
<1>1. mapped' \in BOOLEAN
  BY Zenon
<1>2. persisted' \in BOOLEAN
  BY Zenon
<1>3. raced' \in BOOLEAN
  BY Zenon
<1>4. overlap' \in BOOLEAN
  BY Zenon
<1>5. strayed' \in BOOLEAN
  BY Zenon
<1>6. QED
  BY <1>1, <1>2, <1>3, <1>4, <1>5

LEMMA SeenIs ==
    ASSUME CountTypes, NEW c \in Chat \cup {NoChat} PROVE Seen(c) \in Read /\ Seen(c).id = c
BY DEF Seen, Nothing, Read, CountTypes

LEMMA NothingIs == Nothing \in Read /\ Nothing.id = NoChat
BY DEF Nothing, Read

\* Only a saver, or the script, changes what a saver knows.
LEMMA SaveMoves ==
    [Next]_vars =>
        \/ \E k \in Saver : SaveSteps(k) \/ MergeFails(k) \/ ScanMapped(k) \/ ScanNamed(k)
        \/ UNCHANGED saveVars
BY SMTT(30) DEF Next, JobSteps, Outside, SyncSteps, SyncChat, HistoryChat,
   vars, rowVars, Resolve, Find, Create, Store, AskUpsert, HistoryContact, MarkRead, SetUnread,
   Upsert, RedisLoses

LEMMA SavesTyped == ASSUME SaveTypes, CountTypes, [Next]_vars PROVE SaveTypes'
<1> USE DEF Merging, Goes
<1>1. ASSUME NEW k \in Saver, Save(k) \/ Persist(k) \/ MergeContacts(k) \/ ScanMapped(k)
      PROVE  SaveTypes'
  BY <1>1 DEF SaveTypes, Save, Persist, MergeContacts, ScanMapped
<1>2. ASSUME NEW k \in Saver, ScanNamed(k) \/ MergeLid(k) PROVE SaveTypes'
  BY <1>2, NamedIs, SeenIs DEF SaveTypes, ScanNamed, MergeLid
<1>3. ASSUME NEW k \in Saver, Ends(k) PROVE SaveTypes'
  BY <1>3, NothingIs DEF SaveTypes, Ends
<1>4. ASSUME NEW k \in Saver, MergePhone(k) PROVE SaveTypes'
  BY <1>3, <1>4, NamedIs, SeenIs DEF SaveTypes, MergePhone
<1>5. ASSUME NEW k \in Saver, MergeMove(k) \/ MergeCount(k) PROVE SaveTypes'
  BY <1>5 DEF SaveTypes, MergeMove, MergeCount
<1>6. ASSUME NEW k \in Saver, MergeCommit(k) \/ MergeRename(k) \/ MergeFails(k)
      PROVE  SaveTypes'
  BY <1>3, <1>6 DEF MergeCommit, MergeRename, MergeFails
<1>7. CASE UNCHANGED saveVars
  BY <1>7 DEF saveVars, SaveTypes
<1>8. QED
  BY <1>1, <1>2, <1>4, <1>5, <1>6, <1>7, SaveMoves DEF SaveSteps, mergeChats

\* But for a merge that ends, a chat that there is keeps its name ...
LEMMA ChatKept ==
    ASSUME ChatTypes, [Next]_vars
    PROVE  \/ \E k \in Saver : MergeCommit(k) \/ MergeRename(k)
           \/ \A c \in Chat : chat[c] # "none" => chat'[c] = chat[c]
<1>1. ASSUME NEW m \in Msg, Create(m)
      PROVE  \A c \in Chat : chat[c] # "none" => chat'[c] = chat[c]
  BY <1>1, NewRow DEF Create, ChatTypes
<1>2. ASSUME NEW j \in Jid, NEW n \in 0..MaxUnread, NEW b, Upsert(j, n, b)
      PROVE  \A c \in Chat : chat[c] # "none" => chat'[c] = chat[c]
  BY <1>2, NewRow DEF Upsert, SetUnread, ChatTypes, rowVars
<1>3. QED
  BY <1>1, <1>2, ChatSteps DEF SyncSteps, SyncChat, HistoryChat

\* ... and in no case it was never there.
LEMMA RowsStay ==
    ASSUME ChatTypes, [Next]_vars PROVE \A c \in Chat : chat[c] # "none" => chat'[c] # "none"
BY ChatKept DEF MergeCommit, MergeRename, ChatTypes

\* A job that is about to store knows a chat.
LEMMA JobsPlaced ==
    ASSUME ChatTypes, JobTypes, SaveTypes, JobPlaces, SavePlaces, [Next]_vars PROVE JobPlaces'
<1> USE DEF Step
<1>1. ASSUME NEW m \in Msg, Resolve(m) \/ Store(m) PROVE JobPlaces'
  BY <1>1, RowsStay DEF JobPlaces, JobTypes, Resolve, Store, Gone
<1>2. ASSUME NEW m \in Msg, Find(m) PROVE JobPlaces'
  <2>1. Named(name[m]) # NoChat => Named(name[m]) \in Chat /\ chat[Named(name[m])] \in Jid
    BY RowOfName DEF JobTypes
  <2>2. UNCHANGED chat
    BY <1>2 DEF Find, rowVars
  <2>3. QED
    BY <1>2, <2>1, <2>2 DEF JobPlaces, JobTypes, Find, Jid
<1>3. ASSUME NEW m \in Msg, Create(m) PROVE JobPlaces'
  <2>1. Named(name[m]) # NoChat => Named(name[m]) \in Chat /\ chat[Named(name[m])] \in Jid
    BY RowOfName DEF JobTypes
  <2>2. where'[m] \in Chat /\ chat'[where'[m]] # "none"
    BY <1>3, <2>1, NewRow DEF Create, Present, JobTypes, ChatTypes, Jid
  <2>3. QED
    BY <1>3, <2>2, RowsStay DEF JobPlaces, JobTypes, Create
<1>4. CASE UNCHANGED <<at, where>>
  BY <1>4, RowsStay DEF JobPlaces
<1>5. QED
  BY <1>1, <1>2, <1>3, <1>4, JobMoves
  DEF JobSteps, SyncSteps, SyncChat, HistoryChat, Upsert, AskUpsert, jobVars

\* A merge that goes on knows the chats that it merges.
LEMMA SavesPlaced ==
    ASSUME ChatTypes, CountTypes, JobTypes, SaveTypes, SavePlaces, [Next]_vars PROVE SavePlaces'
<1> USE DEF Goes, SavePlaces, Read
<1>1. ASSUME NEW k \in Saver, Save(k) \/ Persist(k) \/ MergeContacts(k) \/ ScanMapped(k)
      PROVE  SavePlaces'
  BY <1>1, RowsStay DEF SaveTypes, Save, Persist, MergeContacts, ScanMapped
<1>2. ASSUME NEW j \in Jid
      PROVE  Named(j) # NoChat => Named(j) \in Chat /\ chat'[Named(j)] # "none"
  BY RowOfName, RowsStay DEF Jid
<1>3. ASSUME NEW k \in Saver, ScanNamed(k) \/ MergeLid(k) PROVE SavePlaces'
  BY <1>2, <1>3, NamedIs, SeenIs, RowsStay DEF SaveTypes, ScanNamed, MergeLid, Jid
<1>4. ASSUME NEW k \in Saver, Ends(k) PROVE SavePlaces'
  BY <1>4, NothingIs, RowsStay DEF SaveTypes, Ends
<1>5. ASSUME NEW k \in Saver, MergePhone(k) PROVE SavePlaces'
  BY <1>2, <1>4, <1>5, NamedIs, SeenIs, RowsStay DEF SaveTypes, MergePhone, Jid
<1>6. ASSUME NEW k \in Saver, MergeMove(k) \/ MergeCount(k) PROVE SavePlaces'
  BY <1>6, RowsStay DEF SaveTypes, MergeMove, MergeCount
<1>7. ASSUME NEW k \in Saver, MergeCommit(k) \/ MergeRename(k) \/ MergeFails(k)
      PROVE  SavePlaces'
  BY <1>4, <1>7 DEF MergeCommit, MergeRename, MergeFails
<1>8. CASE UNCHANGED saveVars
  BY <1>8, RowsStay DEF saveVars, SaveTypes
<1>9. QED
  BY <1>1, <1>3, <1>5, <1>6, <1>7, <1>8, SaveMoves DEF SaveSteps, mergeChats

LEMMA TypesStart == Init => Types
<1> SUFFICES ASSUME Init PROVE Types
  OBVIOUS
<1> USE DEF Init
<1>1. FlagTypes
  BY DEF FlagTypes
<1>2. ChatTypes /\ ContactTypes /\ HomeTypes /\ CountTypes
  BY DEF ChatTypes, ContactTypes, HomeTypes, CountTypes, Jid
<1>3. JobTypes /\ JobPlaces
  BY DEF JobTypes, JobPlaces
<1>4. SaveTypes /\ SavePlaces
  BY NothingIs DEF SaveTypes, SavePlaces
<1>5. QED
  BY <1>1, <1>2, <1>3, <1>4 DEF Types

LEMMA TypesStay == ASSUME Types, [Next]_vars PROVE Types'
BY FlagsStay, ChatsTyped, ContactsTyped, HomesTyped, CountsTyped, JobsTyped, SavesTyped,
   JobsPlaced, SavesPlaced DEF Types

\* Two merges at once are remembered.
LEMMA OverlapStays == ASSUME FlagTypes, [Next]_vars, ~overlap' PROVE ~overlap
BY ZenonT(60) DEF Next, JobSteps, SaveSteps, SyncSteps, SyncChat, HistoryChat, Outside, mergeChats,
   vars, history, Resolve, Find, Create, Store, MarkRead, SetUnread, AskUpsert, Upsert,
   HistoryContact, Save, Persist, MergeContacts, ScanMapped, ScanNamed, MergeLid, MergePhone,
   MergeMove, MergeCount, MergeCommit, MergeRename, MergeFails, RedisLoses

\* A merge that begins sets overlap unless it is alone.
LEMMA AloneStays == ASSUME SaveTypes, Alone, [Next]_vars, ~overlap' PROVE Alone'
<1> USE DEF Alone, SaveTypes, Goes
<1>1. ASSUME NEW k \in Saver, MergeContacts(k) \/ ScanMapped(k) \/ ScanNamed(k) PROVE Alone'
  <2>1. \A l \in Saver : saver[l] \notin Merging
    BY <1>1, Zenon DEF MergeContacts, ScanMapped, ScanNamed
  <2>2. PICK s : saver' = [saver EXCEPT ![k] = s]
    BY <1>1 DEF MergeContacts, ScanMapped, ScanNamed
  <2>3. QED
    BY <2>1, <2>2
<1>2. ASSUME NEW k \in Saver, NEW s, saver' = [saver EXCEPT ![k] = s],
             saver[k] \in Merging \/ s \notin Merging
      PROVE  Alone'
  BY <1>2
<1>3. ASSUME NEW k \in Saver, Save(k) \/ Persist(k) \/ MergeLid(k) \/ MergeMove(k) \/ MergeCount(k)
      PROVE  Alone'
  BY <1>2, <1>3 DEF Save, Persist, MergeLid, MergeMove, MergeCount, Merging
<1>4. ASSUME NEW k \in Saver, MergePhone(k) PROVE Alone'
  BY <1>2, <1>4 DEF MergePhone, Ends, Merging
<1>5. ASSUME NEW k \in Saver, MergeCommit(k) \/ MergeRename(k) \/ MergeFails(k) PROVE Alone'
  BY <1>2, <1>5 DEF MergeCommit, MergeRename, MergeFails, Ends, Merging
<1>6. CASE UNCHANGED saveVars
  BY <1>6 DEF saveVars
<1>7. QED
  BY <1>1, <1>3, <1>4, <1>5, <1>6, SaveMoves DEF SaveSteps, mergeChats

\* The LID's chat is found when it is read, and stays until the only merge ends.
LEMMA ReadsStay ==
    ASSUME Types, Alone, ReadsHold, [Next]_vars, ~overlap' PROVE ReadsHold'
<1> USE DEF ReadsHold, HasRead, Joins, SaveTypes, Goes
<1>1. ASSUME NEW j \in Jid PROVE Named(j) = NoChat \/ (Named(j) \in Chat /\ chat[Named(j)] = j)
  BY RowOfName DEF Types
<1>2. "lid" \in Jid /\ "phone" \in Jid
  BY DEF Jid
<1>3. SaveTypes
  BY DEF Types
<1>4. ASSUME NEW k \in Saver, Save(k) \/ Persist(k) \/ MergeContacts(k) \/ ScanMapped(k)
      PROVE  ReadsHold'
  BY <1>3, <1>4 DEF Save, Persist, MergeContacts, ScanMapped, rowVars
<1>5. ASSUME NEW k \in Saver, ScanNamed(k) \/ MergeLid(k) PROVE ReadsHold'
  BY <1>1, <1>2, <1>3, <1>5, SeenIs, NamedIs DEF ScanNamed, MergeLid, rowVars, Types
<1>6. ASSUME NEW k \in Saver, Ends(k), UNCHANGED chat PROVE ReadsHold'
  BY <1>3, <1>6 DEF Ends
<1>7. ASSUME NEW k \in Saver, MergePhone(k) PROVE ReadsHold'
  BY <1>1, <1>2, <1>3, <1>6, <1>7, SeenIs, NamedIs DEF MergePhone, Types
<1>8. ASSUME NEW k \in Saver, MergeMove(k) \/ MergeCount(k) PROVE ReadsHold'
  BY <1>3, <1>8 DEF MergeMove, MergeCount, rowVars
<1>9. ASSUME NEW k \in Saver, Ends(k), saver[k] \in Merging PROVE ReadsHold'
  <2>1. \A l \in Saver : saver'[l] \notin Merging
    BY <1>3, <1>9 DEF Ends, Alone, Merging
  <2>2. QED
    BY <2>1 DEF Merging
<1>10. ASSUME NEW k \in Saver, MergeCommit(k) \/ MergeRename(k) \/ MergeFails(k) PROVE ReadsHold'
  BY <1>9, <1>10 DEF MergeCommit, MergeRename, MergeFails, Merging
<1>11. CASE UNCHANGED saveVars
  <2>1. UNCHANGED <<saver, readLid, readPhone>>
    BY <1>11 DEF saveVars
  <2>2. CASE \A c \in Chat : chat[c] # "none" => chat'[c] = chat[c]
    BY <1>3, <2>1, <2>2 DEF Types, SavePlaces, Read
  <2>3. ASSUME NEW k \in Saver, MergeCommit(k) \/ MergeRename(k) PROVE FALSE
    BY <1>3, <2>1, <2>3 DEF MergeCommit, MergeRename, Ends
  <2>4. QED
    BY <2>2, <2>3, ChatKept DEF Types
<1>12. QED
  BY <1>4, <1>5, <1>7, <1>8, <1>10, <1>11, SaveMoves DEF SaveSteps, mergeChats


LEMMA AtSteps ==
    [Next]_vars => \/ \E m \in Msg : JobSteps(m)
                   \/ UNCHANGED at
BY SMTT(30) DEF Next, SyncSteps, SyncChat, HistoryChat, Upsert, AskUpsert, jobVars, SaveSteps,
   Outside, mergeChats, vars, MarkRead, HistoryContact, Save, Persist, MergeContacts,
   ScanMapped, ScanNamed, MergeLid, MergePhone, MergeMove, MergeCount, MergeFails, RedisLoses,
   MergeRename, MergeCommit

LEMMA MovedSteps ==
    [Next]_vars =>
        \/ \E k \in Saver : MergeMove(k) \/ (Ends(k) /\ saver[k] \in Merging)
        \/ UNCHANGED moved
BY SMTT(30) DEF Next, JobSteps, SaveSteps, Outside, SyncSteps, SyncChat, HistoryChat,
   mergeChats, vars, saveVars, Resolve, Find, Create, Store, AskUpsert, HistoryContact,
   MarkRead, SetUnread, Upsert, RedisLoses, Save, Persist, MergeContacts, ScanMapped,
   ScanNamed, MergeLid, MergePhone, MergeCount, MergeFails, MergeCommit, MergeRename, Merging

\* A job that is done stays done.
LEMMA DoneStays ==
    ASSUME JobTypes, [Next]_vars PROVE \A m \in Msg : at[m] = "done" => at'[m] = "done"
<1>1. ASSUME NEW m \in Msg, JobSteps(m) PROVE \A n \in Msg : at[n] = "done" => at'[n] = "done"
  BY <1>1 DEF JobSteps, JobTypes, Resolve, Find, Create, Store, Gone, Step
<1>2. QED
  BY <1>1, AtSteps

\* What is stored, and what is moved, stays done (DoneStays); a merge moves what is
\* in the LID's chat.
LEMMA HomesStay == ASSUME Types, HomeInv, [Next]_vars PROVE HomeInv'
<1> USE DEF Types, HomeInv
<1>1. ASSUME NEW m \in Msg, \E k \in Saver : m \in moved'[k] PROVE at'[m] = "done"
  <2>1. ASSUME NEW k \in Saver, MergeMove(k) PROVE at[m] = "done"
    BY <1>1, <2>1, NoRow DEF MergeMove, SaveTypes, SavePlaces
  <2>2. ASSUME NEW k \in Saver, Ends(k) PROVE at[m] = "done"
    BY <1>1, <2>2 DEF Ends, SaveTypes
  <2>3. CASE UNCHANGED moved
    BY <1>1, <2>3, DoneStays
  <2>4. QED
    BY <2>1, <2>2, <2>3, MovedSteps, DoneStays
<1>2. ASSUME NEW m \in Msg, home'[m] # NoChat PROVE at'[m] = "done"
  <2>1. ASSUME NEW n \in Msg, Store(n) PROVE at'[m] = "done"
    BY <1>2, <2>1, DoneStays DEF Store, Step, JobTypes, HomeTypes
  <2>2. ASSUME NEW k \in Saver, MergeCommit(k) PROVE at[m] = "done"
    BY <1>2, <2>2 DEF MergeCommit, Merged
  <2>3. CASE UNCHANGED home
    BY <1>2, <2>3, DoneStays
  <2>4. QED
    BY <2>1, <2>2, <2>3, HomeSteps, DoneStays
<1>3. QED
  BY <1>1, <1>2

\* A message that comes into a chat whose messages were moved already is caught.
LEMMA MovedStays ==
    ASSUME Types, Alone, ReadsHold, MovedInv, [Next]_vars, ~overlap' PROVE MovedInv'
<1> USE DEF Types, MovedInv, SaveTypes, Goes
<1> SUFFICES ASSUME NEW k \in Saver, NEW m \in Msg, m \notin caught',
                    saver'[k] \in {"count", "commit"}, home'[m] = readLid'[k].id
             PROVE  m \in moved'[k]
  OBVIOUS
<1>1. ASSUME NEW l \in Saver, MergeMove(l) PROVE m \in moved'[k]
  <2>1. CASE k = l
    <3>1. readLid[k].id # readPhone[k].id
      BY <1>1, <2>1, NoRow DEF MergeMove, ReadsHold, HasRead, Joins, SavePlaces
    <3>2. QED
      BY <1>1, <2>1, <3>1 DEF MergeMove, rowVars
  <2>2. CASE k # l
    BY <1>1, <2>2 DEF MergeMove, rowVars, history
  <2>3. QED
    BY <2>1, <2>2
<1>2. ASSUME NEW l \in Saver, Ends(l), saver[l] \in Merging PROVE m \in moved'[k]
  BY <1>2 DEF Ends, Alone, Merging
<1>3. CASE UNCHANGED <<moved, readLid[k]>> /\ saver[k] \in {"count", "commit"}
  <2>1. ASSUME NEW n \in Msg, Store(n) PROVE m \in moved'[k]
    BY <1>3, <2>1 DEF Store, Caught, saveVars, HomeTypes
  <2>2. ASSUME NEW l \in Saver, MergeCommit(l) PROVE m \in moved'[k]
    BY <1>2, <2>2 DEF MergeCommit, Merging
  <2>3. CASE UNCHANGED <<home, caught>>
    BY <1>3, <2>3
  <2>4. QED
    BY <2>1, <2>2, <2>3, HomeSteps
<1>4. ASSUME NEW l \in Saver, SaveSteps(l) \/ MergeFails(l) \/ ScanMapped(l) \/ ScanNamed(l)
      PROVE  \/ MergeMove(l)
             \/ Ends(l) /\ saver[l] \in Merging
             \/ UNCHANGED <<moved, readLid[k]>> /\ saver[k] \in {"count", "commit"}
  BY <1>4 DEF SaveSteps, mergeChats, Save, Persist, MergeContacts, MergeLid, MergePhone,
     MergeCount, MergeCommit, MergeRename, MergeFails, ScanMapped, ScanNamed, Merging
<1>5. CASE UNCHANGED saveVars
  BY <1>3, <1>5 DEF saveVars
<1>6. QED
  BY <1>1, <1>2, <1>3, <1>4, <1>5, SaveMoves

\* The chat that is deleted holds only messages that were moved, and caught ones.
LEMMA KeptStays ==
    ASSUME Types, HomeInv, ~overlap, MovedInv, KeptUnlessCaught, [Next]_vars
    PROVE  KeptUnlessCaught'
<1> USE DEF Types, KeptUnlessCaught, Kept
<1>1. ASSUME NEW n \in Msg, Store(n) PROVE KeptUnlessCaught'
  BY <1>1, NoRow DEF Store, Step, JobTypes, HomeTypes, JobPlaces, Gone
<1>2. ASSUME NEW k \in Saver, MergeCommit(k) PROVE KeptUnlessCaught'
  BY <1>2, NoRow DEF MergeCommit, Merged, MovedInv, SavePlaces, jobVars, history, HomeTypes
<1>3. CASE UNCHANGED <<home, caught>>
  <2>1. ASSUME NEW m \in Msg, ~Store(m), JobSteps(m)
        PROVE  \A n \in Msg : at'[n] = "done" => at[n] = "done"
    BY <2>1 DEF JobSteps, JobTypes, Resolve, Find, Create, Step
  <2>2. QED
    BY <1>1, <1>3, <2>1, AtSteps
<1>4. QED
  BY <1>1, <1>2, <1>3, HomeSteps

LEMMA IInvHolds == Spec => []IInv
<1>1. Init => IInv
  <2>1. Init => Types
    BY TypesStart
  <2>2. Init => HomeInv /\ AloneInv
    BY DEF Init, HomeInv, AloneInv, Alone, ReadsHold, HasRead, Joins, MovedInv,
       KeptUnlessCaught, Kept, Merging
  <2>3. QED
    BY <2>1, <2>2 DEF IInv
<1>2. IInv /\ [Next]_vars => IInv'
  BY TypesStay, HomesStay, OverlapStays, AloneStays, ReadsStay, MovedStays, KeptStays
  DEF IInv, AloneInv, Types
<1>3. QED
  BY <1>1, <1>2, PTL DEF Spec

\* The types, and: a message that was stored stays stored, unless it was caught in a
\* chat between the move and the delete, or two merges overlapped
\* (mergeLidChatAndContact, chat.service.ts 931-972).
THEOREM MergeInvHolds == Spec => []MergeInv
<1>1. IInv => MergeInv
  <2>1. IInv => TypeOK
    BY DEF IInv, TypeOK, Types, FlagTypes, ChatTypes, ContactTypes, HomeTypes, CountTypes,
       JobTypes, SaveTypes
  <2>2. IInv => KeptUnlessCaught
    BY Zenon DEF IInv, AloneInv, KeptUnlessCaught
  <2>3. QED
    BY <2>1, <2>2 DEF MergeInv
<1>2. QED
  BY <1>1, IInvHolds, PTL

-----------------------------------------------------------------------------
\* Once the mapping was saved the number is found for the LID, also by the jobs
\* that are under way.
Started == \E k \in Saver \ scripts : saver[k] # "idle"
Found == mapped \/ persisted
FoundInv == Started => Found /\ ~UnderWay

\* A merge that is through, or has read that there is no chat of the LID, is right
\* for good.
Through(k) == saver[k] = "done" \/ (saver[k] = "phone" /\ readLid[k].id = NoChat)
GoneInv == \A k \in Saver \ scripts, c \in Chat : Through(k) => chat[c] # "lid"

OneInv == ~strayed /\ ~overlap => FoundInv /\ GoneInv

\* What makes a mapping go astray is remembered.
LEMMA StrayedStays == ASSUME FlagTypes, [Next]_vars, ~strayed' PROVE ~strayed
BY ZenonT(60) DEF Next, JobSteps, SaveSteps, SyncSteps, SyncChat, HistoryChat, Outside, mergeChats,
   vars, mapVars, history, Resolve, Find, Create, Store, MarkRead, SetUnread, AskUpsert,
   Upsert, HistoryContact, Save, Persist, MergeContacts, ScanMapped, ScanNamed, MergeLid,
   MergePhone, MergeMove, MergeCount, MergeCommit, MergeRename, MergeFails, RedisLoses

\* Redis may lose the mapping, and the contact still has it.
LEMMA FoundStays == ASSUME FlagTypes, Found, [Next]_vars, ~strayed' PROVE Found'
BY ZenonT(60) DEF Next, JobSteps, SaveSteps, SyncSteps, SyncChat, HistoryChat, Outside, mergeChats,
   vars, mapVars, history, Resolve, Find, Create, Store, MarkRead, SetUnread, AskUpsert,
   Upsert, HistoryContact, Save, Persist, MergeContacts, ScanMapped, ScanNamed, MergeLid,
   MergePhone, MergeMove, MergeCount, MergeCommit, MergeRename, MergeFails, RedisLoses, Found

LEMMA StartSteps ==
    ASSUME SaveTypes, Started', [Next]_vars PROVE Started \/ \E k \in Saver : Save(k)
<1> USE DEF Started, SaveTypes, Goes
<1>1. ASSUME NEW k \in Saver, NEW s, saver' = [saver EXCEPT ![k] = s], saver[k] # "idle",
             UNCHANGED scripts
      PROVE  Started
  BY <1>1
<1>2. ASSUME NEW k \in Saver, Persist(k) \/ MergeContacts(k) \/ MergeLid(k) \/ mergeChats(k)
      PROVE  Started
  BY <1>1, <1>2 DEF Persist, MergeContacts, MergeLid, mergeChats, MergeMove, MergeCount,
                    MergeCommit, Ends
<1>3. ASSUME NEW k \in Saver, MergePhone(k) \/ MergeRename(k) \/ MergeFails(k) PROVE Started
  BY <1>1, <1>3 DEF MergePhone, MergeRename, MergeFails, Ends, Merging
<1>4. ASSUME NEW k \in Saver, ScanMapped(k) \/ ScanNamed(k) PROVE Started
  BY <1>4 DEF ScanMapped, ScanNamed
<1>5. CASE UNCHANGED saveVars
  BY <1>5 DEF saveVars
<1>6. QED
  BY <1>2, <1>3, <1>4, <1>5, SaveMoves DEF SaveSteps

\* Who resolves the LID now gets the phone number.
LEMMA NoneUnderWay == ASSUME JobTypes, Found, ~UnderWay, [Next]_vars PROVE ~UnderWay'
<1>1. ASSUME NEW j \in Jid PROVE Resolved(j) = "phone"
  BY DEF Resolved, Found, Jid
<1> USE DEF UnderWay, JobTypes, Step
<1>2. ASSUME NEW m \in Msg, Resolve(m) \/ Find(m) \/ Create(m) \/ Store(m) PROVE ~UnderWay'
  BY <1>1, <1>2 DEF Resolve, Find, Create, Store, Gone
<1>3. ASSUME NEW j \in Jid, AskUpsert(j) PROVE ~UnderWay'
  BY <1>1, <1>3 DEF AskUpsert
<1>4. ASSUME NEW j \in Jid, NEW n \in 0..MaxUnread, NEW b, Upsert(j, n, b) PROVE ~UnderWay'
  BY <1>4 DEF Upsert
<1>5. CASE UNCHANGED jobVars
  BY <1>5 DEF jobVars
<1>6. QED
  BY <1>2, <1>3, <1>4, <1>5, JobMoves DEF JobSteps, SyncSteps, SyncChat, HistoryChat

\* The mapping is saved, with no job under way that resolved the LID before.
LEMMA FoundInvStays ==
    ASSUME Types, FoundInv, [Next]_vars, ~strayed' PROVE FoundInv'
<1> SUFFICES ASSUME Started' PROVE Found' /\ ~UnderWay'
  BY DEF FoundInv
<1>1. CASE Started
  BY <1>1, FoundStays, NoneUnderWay DEF FoundInv, Types
<1>2. ASSUME NEW k \in Saver, Save(k) PROVE Found' /\ ~UnderWay'
  <2>1. Found'
    BY <1>2 DEF Save, Found
  <2>2. ~UnderWay
    BY <1>2, Zenon DEF Save
  <2>3. QED
    BY <1>2, <2>1, <2>2 DEF Save, UnderWay, jobVars
<1>3. QED
  BY <1>1, <1>2, StartSteps DEF Types

\* Without one under way, no chat of the LID is made.
LEMMA NoneMade ==
    ASSUME ChatTypes, JobTypes, ~UnderWay, [Next]_vars
    PROVE  \A c \in Chat : chat[c] # "lid" => chat'[c] # "lid"
<1>1. ASSUME NEW m \in Msg, Create(m) PROVE \A c \in Chat : chat[c] # "lid" => chat'[c] # "lid"
  BY <1>1 DEF Create, UnderWay, ChatTypes
<1>2. ASSUME NEW j \in Jid, NEW n \in 0..MaxUnread, NEW b, Upsert(j, n, b)
      PROVE  \A c \in Chat : chat[c] # "lid" => chat'[c] # "lid"
  BY <1>2 DEF Upsert, SetUnread, UnderWay, ChatTypes, rowVars
<1>3. ASSUME NEW k \in Saver, MergeCommit(k) \/ MergeRename(k)
      PROVE  \A c \in Chat : chat[c] # "lid" => chat'[c] # "lid"
  BY <1>3 DEF MergeCommit, MergeRename, ChatTypes
<1>4. QED
  BY <1>1, <1>2, <1>3, ChatSteps DEF SyncSteps, SyncChat, HistoryChat

\* The merge has found no chat of the LID, or deletes it, or renames it.
LEMMA GoneStays ==
    ASSUME Types, Alone, ReadsHold, FoundInv, GoneInv, [Next]_vars, ~strayed', ~overlap'
    PROVE  GoneInv'
<1> USE DEF Types, SaveTypes, Goes
<1> SUFFICES ASSUME NEW k \in Saver \ scripts', Through(k)', NEW c \in Chat
             PROVE  chat'[c] # "lid"
  BY DEF GoneInv
<1>1. CASE k \notin scripts /\ Through(k)
  BY <1>1, NoneMade DEF GoneInv, FoundInv, Started, Through
<1>2. ASSUME MergeLid(k) PROVE chat'[c] # "lid"
  BY <1>2, RowOfName, NamedIs, SeenIs, NoRow DEF MergeLid, Through, rowVars, Jid
<1>3. ASSUME MergeCommit(k) \/ MergeRename(k) PROVE chat'[c] # "lid"
  <2>1. readLid[k].id \in Chat /\ chat[readLid[k].id] = "lid"
    BY <1>3, NoRow DEF MergeCommit, MergeRename, SavePlaces, ReadsHold, HasRead
  <2>2. chat[c] = "lid" => c = readLid[k].id
    BY <2>1 DEF ChatTypes, Jid
  <2>3. QED
    BY <1>3, <2>1, <2>2 DEF MergeCommit, MergeRename, ChatTypes
<1>4. ASSUME NEW l \in Saver,
             SaveSteps(l) \/ MergeFails(l) \/ ScanMapped(l) \/ ScanNamed(l)
      PROVE  \/ l = k /\ (MergeLid(l) \/ MergeCommit(l) \/ MergeRename(l))
             \/ k \notin scripts /\ Through(k)
  BY <1>4 DEF SaveSteps, mergeChats, Save, Persist, MergeContacts, MergeLid, MergePhone,
     MergeMove, MergeCount, MergeCommit, MergeRename, MergeFails, ScanMapped, ScanNamed,
     Merging, Through, Ends
<1>5. CASE UNCHANGED saveVars
  BY <1>1, <1>5 DEF saveVars, Through
<1>6. QED
  BY <1>1, <1>2, <1>3, <1>4, <1>5, SaveMoves

LEMMA OneInvHolds == Spec => []OneInv
<1>1. Init => OneInv
  BY DEF Init, OneInv, FoundInv, Started, GoneInv, Through
<1>2. IInv /\ OneInv /\ [Next]_vars => OneInv'
  BY StrayedStays, OverlapStays, FoundInvStays, GoneStays DEF OneInv, IInv, AloneInv, Types
<1>3. QED
  BY <1>1, <1>2, IInvHolds, PTL DEF Spec

\* At rest no chat is left under the LID once its mapping was saved, unless a job was
\* under way then or a merge failed (saveLidMapping, lid-mapping.ts;
\* mergeLidChatAndContact, chat.service.ts).
THEOREM OneChatHolds == Spec => []OneChat
<1>1. IInv /\ OneInv => OneChat
  BY RowOfName, NamedIs DEF OneInv, GoneInv, Through, OneChat, IInv, Types, Jid
<1>2. QED
  BY <1>1, IInvHolds, OneInvHolds, PTL

-----------------------------------------------------------------------------
\* The unread count that the chat of a name shows.
ShownIn(f, u, j) ==
    LET c == IF \E d \in Chat : f[d] = j THEN CHOOSE d \in Chat : f[d] = j ELSE NoChat
    IN  IF c = NoChat THEN 0 ELSE u[c]
Shown(j) == IF Named(j) = NoChat THEN 0 ELSE unread[Named(j)]

SumInv == due = Shown("lid") + Shown("phone")

\* The counts that a merge has read are still so.
ReadCounts ==
    \A k \in Saver : /\ HasRead(k) => readLid[k].unread = unread[readLid[k].id]
                     /\ Joins(k) => readPhone[k].unread = unread[readPhone[k].id]

NewInv == \A c \in Chat : chat[c] = "none" => unread[c] = 0

CountInv == ~raced /\ ~overlap => NewInv /\ SumInv /\ ReadCounts

LEMMA ShownInIs ==
    ASSUME NEW f, NEW u, NEW j, \A c, d \in Chat : f[c] = j /\ f[d] = j => c = d
    PROVE  /\ \A c \in Chat : f[c] = j => ShownIn(f, u, j) = u[c]
           /\ (\A c \in Chat : f[c] # j) => ShownIn(f, u, j) = 0
<1>1. ASSUME NEW c \in Chat, f[c] = j PROVE ShownIn(f, u, j) = u[c]
  <2> DEFINE e == CHOOSE d \in Chat : f[d] = j
  <2>1. e \in Chat /\ f[e] = j
    BY <1>1, Zenon
  <2>2. e = c
    BY <1>1, <2>1
  <2>3. ShownIn(f, u, j) = IF e = NoChat THEN 0 ELSE u[e]
    BY <1>1, Zenon DEF ShownIn
  <2>4. QED
    BY <2>2, <2>3, NoRow
<1>2. ASSUME \A c \in Chat : f[c] # j PROVE ShownIn(f, u, j) = 0
  BY <1>2, Zenon DEF ShownIn
<1>3. QED
  BY <1>1, <1>2

\* What a name shows is the count of its chat, before a step ...
LEMMA ShownIs ==
    ASSUME ChatTypes, NEW j \in Jid
    PROVE  /\ \A c \in Chat : chat[c] = j => Shown(j) = unread[c]
           /\ (\A c \in Chat : chat[c] # j) => Shown(j) = 0
<1>1. Shown(j) = ShownIn(chat, unread, j)
  BY Zenon DEF Shown, Named, ShownIn
<1>2. \A c, d \in Chat : chat[c] = j /\ chat[d] = j => c = d
  BY DEF ChatTypes
<1>3. QED
  BY <1>1, <1>2, ShownInIs

\* ... and after it.
LEMMA ShownNext ==
    ASSUME ChatTypes', NEW j \in Jid
    PROVE  /\ \A c \in Chat : chat'[c] = j => Shown(j)' = unread'[c]
           /\ (\A c \in Chat : chat'[c] # j) => Shown(j)' = 0
<1>1. Shown(j)' = ShownIn(chat', unread', j)
  BY Zenon DEF Shown, Named, ShownIn
<1>2. \A c, d \in Chat : chat'[c] = j /\ chat'[d] = j => c = d
  BY DEF ChatTypes
<1>3. QED
  BY <1>1, <1>2, ShownInIs

LEMMA ShownSame ==
    ASSUME ChatTypes, ChatTypes', NEW j \in Jid,
           \A c \in Chat : (chat'[c] = j) = (chat[c] = j),
           \A c \in Chat : chat[c] = j => unread'[c] = unread[c]
    PROVE  Shown(j)' = Shown(j)
<1>1. CASE \E c \in Chat : chat[c] = j
  BY <1>1, ShownIs, ShownNext
<1>2. CASE \A c \in Chat : chat[c] # j
  BY <1>2, ShownIs, ShownNext
<1>3. QED
  BY <1>1, <1>2


LEMMA ShownInt == ASSUME CountTypes, NEW j PROVE Shown(j) \in Int
BY NamedIs DEF CountTypes, Shown

\* A count is set, of a chat that there is ...
LEMMA CountSet ==
    ASSUME Types, SumInv, NEW c \in Chat, NEW n \in Nat, chat[c] \in Jid, UNCHANGED chat,
           unread' = [unread EXCEPT ![c] = n], due' = due - unread[c] + n
    PROVE  SumInv'
<1>1. ChatTypes /\ ChatTypes' /\ CountTypes
  BY DEF Types, ChatTypes
<1>2. PICK j \in Jid : chat[c] = j
  OBVIOUS
<1>3. PICK i \in Jid : i # j
  BY DEF Jid
<1>4. Shown(i)' = Shown(i)
  BY <1>1, <1>2, <1>3, ShownSame DEF CountTypes
<1>5. Shown(j) = unread[c] /\ Shown(j)' = n
  BY <1>1, <1>2, ShownIs, ShownNext DEF CountTypes
<1>6. due = Shown(j) + Shown(i)
  BY <1>1, <1>3, ShownInt DEF SumInv, Jid
<1>7. due' = Shown(j)' + Shown(i)'
  BY <1>1, <1>4, <1>5, <1>6, ShownInt DEF CountTypes
<1>8. QED
  <2>1. CASE j = "lid" /\ i = "phone"
    BY <1>7, <2>1 DEF SumInv
  <2>2. CASE j = "phone" /\ i = "lid"
    <3>1. Shown(j)' \in Int /\ Shown(i)' \in Int
      BY <1>1, <1>4, <1>5, ShownInt
    <3>2. QED
      BY <1>7, <2>2, <3>1 DEF SumInv
  <2>3. QED
    BY <1>3, <2>1, <2>2 DEF Jid

\* ... or of one that is made.
LEMMA CountMade ==
    ASSUME Types, ChatTypes', SumInv, NEW c \in Chat, NEW n \in Nat, NEW j \in Jid,
           \A d \in Chat : chat[d] # j, chat[c] = "none", chat' = [chat EXCEPT ![c] = j],
           unread' = [unread EXCEPT ![c] = n], due' = due + n
    PROVE  SumInv'
<1>1. ChatTypes /\ CountTypes
  BY DEF Types
<1>3. PICK i \in Jid : i # j
  BY DEF Jid
<1>4. Shown(i)' = Shown(i)
  <2>1. \A d \in Chat : (chat'[d] = i) = (chat[d] = i)
    BY <1>1, <1>3 DEF ChatTypes, Jid
  <2>2. \A d \in Chat : chat[d] = i => unread'[d] = unread[d]
    BY <1>1 DEF CountTypes, Jid
  <2>3. QED
    BY <1>1, <2>1, <2>2, ShownSame
<1>5. Shown(j) = 0 /\ Shown(j)' = n
  <2>1. chat'[c] = j /\ unread'[c] = n
    BY <1>1 DEF ChatTypes, CountTypes
  <2>2. QED
    BY <1>1, <2>1, ShownIs, ShownNext
<1>6. due = Shown(j) + Shown(i)
  BY <1>1, <1>3, ShownInt DEF SumInv, Jid
<1>7. due' = Shown(j)' + Shown(i)'
  BY <1>1, <1>4, <1>5, <1>6, ShownInt DEF CountTypes
<1>8. QED
  <2>1. CASE j = "lid" /\ i = "phone"
    BY <1>7, <2>1 DEF SumInv
  <2>2. CASE j = "phone" /\ i = "lid"
    <3>1. Shown(j)' \in Int /\ Shown(i)' \in Int
      BY <1>1, <1>4, <1>5, ShownInt
    <3>2. QED
      BY <1>7, <2>2, <3>1 DEF SumInv
  <2>3. QED
    BY <1>3, <2>1, <2>2 DEF Jid

\* A count that changed under a merge is remembered.
LEMMA RacedStays == ASSUME FlagTypes, [Next]_vars, ~raced' PROVE ~raced
BY ZenonT(60) DEF Next, JobSteps, SaveSteps, SyncSteps, SyncChat, HistoryChat, Outside, mergeChats,
   vars, mapVars, history, Resolve, Find, Create, Store, MarkRead, SetUnread, AskUpsert,
   Upsert, HistoryContact, Save, Persist, MergeContacts, ScanMapped, ScanNamed, MergeLid,
   MergePhone, MergeMove, MergeCount, MergeCommit, MergeRename, MergeFails, RedisLoses

\* Whoever changes a count without being a merge sees to it that no merge is using it.
LEMMA StoreCounts ==
    ASSUME Types, NEW m \in Msg, Store(m), ~raced'
    PROVE  /\ UNCHANGED <<chat, saveVars>>
           /\ \/ UNCHANGED <<unread, due>>
              \/ /\ where[m] \in Chat /\ chat[where[m]] \in Jid /\ ~Counting
                 /\ unread' = [unread EXCEPT ![where[m]] = @ + 1] /\ due' = due + 1
<1>1. UNCHANGED <<chat, saveVars>>
  BY DEF Store, saveVars
<1>2. where[m] \in Chat /\ chat[where[m]] \in Jid \cup {"gone"}
  BY DEF Store, Types, JobPlaces, ChatTypes
<1>3. CASE m \in batch \/ chat[where[m]] = "gone"
  BY <1>1, <1>3 DEF Store
<1>4. CASE ~(m \in batch \/ chat[where[m]] = "gone")
  <2>1. raced' = (raced \/ Counting)
    BY <1>4, Zenon DEF Store
  <2>2. ~Counting
    BY <2>1, Zenon
  <2>3. QED
    BY <1>1, <1>2, <1>4, <2>2 DEF Store
<1>5. QED
  BY <1>3, <1>4

\* ... a chat of a chunk of the history, ...
LEMMA UpsertCounts ==
    ASSUME Types, NEW j \in Jid, NEW n \in 0..MaxUnread, NEW b, Upsert(j, n, b), ~raced'
    PROVE  /\ UNCHANGED saveVars
           /\ \/ UNCHANGED <<chat, unread, due>>
              \/ \E c \in Chat : SetUnread(c, n)
              \/ /\ Named(j) = NoChat /\ ~Counting /\ NewChat \in Chat /\ chat[NewChat] = "none"
                 /\ chat' = [chat EXCEPT ![NewChat] = j]
                 /\ unread' = [unread EXCEPT ![NewChat] = n] /\ due' = due + n
<1>1. UNCHANGED saveVars
  BY DEF Upsert, SetUnread
<1>2. CASE Named(j) = NoChat
  <2>1. raced' = (raced \/ Counting)
    BY <1>2, Zenon DEF Upsert
  <2>2. ~Counting
    BY <2>1, Zenon
  <2>3. QED
    BY <1>1, <1>2, <2>2, NewRow DEF Upsert
<1>3. CASE Named(j) # NoChat /\ SetUnread(Named(j), n)
  BY <1>1, <1>3, NamedIs
<1>4. CASE UNCHANGED <<rowVars, history>>
  BY <1>1, <1>4 DEF rowVars, history
<1>5. QED
  BY <1>2, <1>3, <1>4 DEF Upsert

\* ... users and WhatsApp.
LEMMA SetCounts ==
    ASSUME NEW c \in Chat, NEW n, SetUnread(c, n), ~raced'
    PROVE  /\ UNCHANGED <<chat, saveVars>> /\ ~Counting /\ chat[c] \in Jid
           /\ unread' = [unread EXCEPT ![c] = n] /\ due' = due - unread[c] + n
<1>1. ~Counting
  BY Zenon DEF SetUnread
<1>2. QED
  BY <1>1 DEF SetUnread

LEMMA CountSteps ==
    [Next]_vars =>
        \/ \E m \in Msg : Create(m) \/ Store(m)
        \/ \E j \in Jid : SyncSteps(j)
        \/ \E c \in Chat : MarkRead(c)
        \/ \E k \in Saver : MergeCommit(k) \/ MergeRename(k)
        \/ UNCHANGED <<chat, unread, due>>
BY ChatSteps, UnreadSteps

\* A chat that was never made has no count.
LEMMA NewStays == ASSUME Types, ReadsHold, NewInv, [Next]_vars, ~raced' PROVE NewInv'
<1> USE DEF Types, NewInv, ChatTypes, CountTypes
<1>1. ASSUME NEW m \in Msg, Store(m) PROVE NewInv'
  BY <1>1, StoreCounts DEF Jid
<1>2. ASSUME NEW m \in Msg, Create(m) PROVE NewInv'
  BY <1>2, NewRow DEF Create, JobTypes, Jid
<1>3. ASSUME NEW c \in Chat, NEW n, SetUnread(c, n) PROVE NewInv'
  BY <1>3, SetCounts DEF Jid
<1>4. ASSUME NEW j \in Jid, NEW n \in 0..MaxUnread, NEW b, Upsert(j, n, b) PROVE NewInv'
  BY <1>3, <1>4, UpsertCounts DEF Jid
<1>5. ASSUME NEW k \in Saver, MergeCommit(k) PROVE NewInv'
  BY <1>5 DEF MergeCommit, ReadsHold, Joins, SavePlaces
<1>6. ASSUME NEW k \in Saver, MergeRename(k) PROVE NewInv'
  BY <1>6 DEF MergeRename
<1>7. CASE UNCHANGED <<chat, unread, due>>
  BY <1>7
<1>8. QED
  BY <1>1, <1>2, <1>3, <1>4, <1>5, <1>6, <1>7, CountSteps
  DEF SyncSteps, SyncChat, HistoryChat, MarkRead

\* A merge adds up what the two chats show, a rename takes the count along.
LEMMA SumStays ==
    ASSUME Types, Types', ReadsHold, NewInv, SumInv, ReadCounts, [Next]_vars, ~raced' PROVE SumInv'
<1>1. /\ ChatTypes /\ ChatTypes' /\ CountTypes /\ JobTypes /\ SavePlaces
      /\ "lid" \in Jid /\ "phone" \in Jid
  BY DEF Types, Jid
<1>2. CASE UNCHANGED <<chat, unread, due>>
  BY <1>1, <1>2, ShownSame DEF SumInv
<1>3. ASSUME NEW c \in Chat, NEW n \in Nat, SetUnread(c, n) PROVE SumInv'
  BY <1>3, SetCounts, CountSet
<1>4. ASSUME NEW m \in Msg, Store(m) PROVE SumInv'
  <2>1. CASE UNCHANGED <<unread, due>>
    BY <1>2, <1>4, <2>1, StoreCounts
  <2>2. CASE ~UNCHANGED <<unread, due>>
    <3> DEFINE c == where[m]
               n == unread[c] + 1
    <3>1. /\ c \in Chat /\ chat[c] \in Jid /\ UNCHANGED chat
          /\ unread' = [unread EXCEPT ![c] = n] /\ due' = due + 1
      BY <1>4, <2>2, StoreCounts
    <3>2. n \in Nat /\ due' = due - unread[c] + n
      BY <1>1, <3>1 DEF CountTypes
    <3> HIDE DEF c, n
    <3>3. QED
      BY <3>1, <3>2, CountSet
  <2>3. QED
    BY <2>1, <2>2
<1>5. ASSUME NEW m \in Msg, Create(m) PROVE SumInv'
  <2>1. CASE UNCHANGED chat
    BY <1>2, <1>5, <2>1 DEF Create, history
  <2>2. CASE Named(name[m]) = NoChat /\ chat' = [chat EXCEPT ![NewChat] = name[m]]
    <3>1. name[m] \in Jid /\ NewChat \in Chat /\ chat[NewChat] = "none"
      BY <1>1, <1>5, <2>2, NewRow DEF Create, Present, JobTypes
    <3>2. \A d \in Chat : chat[d] # name[m]
      BY <1>1, <2>2, <3>1, RowOfName, NoRow
    <3>3. unread' = [unread EXCEPT ![NewChat] = 0] /\ due' = due + 0
      BY <1>1, <1>5, <3>1 DEF Create, NewInv, CountTypes, history
    <3>4. QED
      BY <1>1, <2>2, <3>1, <3>2, <3>3, CountMade
  <2>3. QED
    BY <1>5, <2>1, <2>2 DEF Create, Present
<1>6. ASSUME NEW j \in Jid, NEW n \in 0..MaxUnread, NEW b, Upsert(j, n, b) PROVE SumInv'
  <2>1. n \in Nat
    BY MergeTypes
  <2>2. Named(j) = NoChat => \A d \in Chat : chat[d] # j
    BY <1>1, RowOfName, NoRow
  <2>3. QED
    BY <1>1, <1>2, <1>3, <1>6, <2>1, <2>2, UpsertCounts, CountMade
<1>7. ASSUME NEW k \in Saver, MergeCommit(k) PROVE SumInv'
  <2> DEFINE lid == readLid[k].id
             phone == readPhone[k].id
  <2>1. /\ lid \in Chat /\ chat[lid] = "lid" /\ phone \in Chat /\ chat[phone] = "phone"
        /\ readLid[k].unread = unread[lid] /\ readPhone[k].unread = unread[phone]
    BY <1>1, <1>7, NoRow DEF MergeCommit, SavePlaces, ReadsHold, ReadCounts, HasRead, Joins
  <2>2. /\ chat' = [chat EXCEPT ![lid] = "gone"] /\ due' = due
        /\ unread' = [unread EXCEPT ![phone] = unread[phone] + unread[lid], ![lid] = 0]
    BY <1>7, <2>1 DEF MergeCommit, Counted, history
  <2> HIDE DEF lid, phone
  <2>3. Shown("lid") = unread[lid] /\ Shown("phone") = unread[phone]
    BY <1>1, <2>1, ShownIs
  <2>4. \A c \in Chat : chat'[c] # "lid"
    BY <1>1, <2>1, <2>2 DEF ChatTypes
  <2>5. chat'[phone] = "phone" /\ unread'[phone] = unread[phone] + unread[lid]
    BY <1>1, <2>1, <2>2 DEF ChatTypes, CountTypes
  <2>6. Shown("lid")' = 0 /\ Shown("phone")' = unread[phone] + unread[lid]
    BY <1>1, <2>1, <2>4, <2>5, ShownNext
  <2>7. QED
    BY <1>1, <2>1, <2>2, <2>3, <2>6 DEF SumInv, CountTypes
<1>8. ASSUME NEW k \in Saver, MergeRename(k) PROVE SumInv'
  <2> DEFINE lid == readLid[k].id
  <2>1. lid \in Chat /\ chat[lid] = "lid" /\ UNCHANGED <<unread, due>>
    BY <1>1, <1>8, NoRow DEF MergeRename, SavePlaces, ReadsHold, HasRead
  <2>2. CASE UNCHANGED chat
    BY <1>2, <2>1, <2>2
  <2>3. CASE Named("phone") = NoChat /\ chat' = [chat EXCEPT ![lid] = "phone"]
    <3> HIDE DEF lid
    <3>1. \A c \in Chat : chat[c] # "phone"
      BY <1>1, <2>3, RowOfName, NoRow
    <3>2. Shown("lid") = unread[lid] /\ Shown("phone") = 0
      BY <1>1, <2>1, <3>1, ShownIs
    <3>3. chat'[lid] = "phone" /\ \A c \in Chat : chat'[c] # "lid"
      BY <1>1, <2>1, <2>3 DEF ChatTypes
    <3>4. Shown("lid")' = 0 /\ Shown("phone")' = unread[lid]
      BY <1>1, <2>1, <3>3, ShownNext
    <3>5. QED
      BY <1>1, <2>1, <3>2, <3>4 DEF SumInv, CountTypes
  <2>4. QED
    BY <1>8, <2>1, <2>2, <2>3 DEF MergeRename
<1>9. QED
  BY <1>2, <1>3, <1>4, <1>5, <1>6, <1>7, <1>8, CountSteps, 0 \in Nat
  DEF SyncSteps, SyncChat, HistoryChat, MarkRead

\* A count that was read is used before it changes.
LEMMA ReadCountsStay ==
    ASSUME Types, Alone, ReadCounts, [Next]_vars, ~raced' PROVE ReadCounts'
<1> USE DEF ReadCounts, HasRead, Joins, SaveTypes, Goes
<1>1. SaveTypes
  BY DEF Types
<1>2. CASE ~Counting /\ UNCHANGED saveVars
  BY <1>2 DEF Counting, saveVars
<1>3. CASE UNCHANGED <<unread, saveVars>>
  BY <1>3 DEF saveVars
<1>4. ASSUME NEW k \in Saver, Save(k) \/ Persist(k) \/ MergeContacts(k) \/ ScanMapped(k)
      PROVE  ReadCounts'
  BY <1>1, <1>4 DEF Save, Persist, MergeContacts, ScanMapped, rowVars
<1>5. ASSUME NEW c \in Chat PROVE Seen(c).unread = unread[c] /\ Seen(c).id = c
  BY <1>5, NoRow DEF Seen
<1>6. ASSUME NEW k \in Saver, ScanNamed(k) \/ MergeLid(k) PROVE ReadCounts'
  BY <1>1, <1>5, <1>6, SeenIs, NamedIs DEF ScanNamed, MergeLid, rowVars, Types
<1>7. ASSUME NEW k \in Saver, Ends(k), UNCHANGED unread PROVE ReadCounts'
  BY <1>1, <1>7 DEF Ends
<1>8. ASSUME NEW k \in Saver, MergePhone(k) PROVE ReadCounts'
  BY <1>1, <1>5, <1>7, <1>8, NamedIs DEF MergePhone
<1>9. ASSUME NEW k \in Saver, MergeMove(k) \/ MergeCount(k) PROVE ReadCounts'
  BY <1>1, <1>9 DEF MergeMove, MergeCount, rowVars
<1>10. ASSUME NEW k \in Saver, MergeCommit(k) \/ MergeRename(k) \/ MergeFails(k)
       PROVE  ReadCounts'
  <2>1. \A l \in Saver : saver'[l] \notin Merging
    BY <1>1, <1>10 DEF MergeCommit, MergeRename, MergeFails, Ends, Alone, Merging
  <2>2. QED
    BY <2>1 DEF Merging
<1>11. CASE UNCHANGED saveVars
  <2>1. ASSUME NEW m \in Msg, Store(m) PROVE ReadCounts'
    BY <1>2, <1>3, <2>1, StoreCounts
  <2>2. ASSUME NEW c \in Chat, NEW n, SetUnread(c, n) PROVE ReadCounts'
    BY <1>2, <2>2, SetCounts
  <2>3. ASSUME NEW j \in Jid, NEW n \in 0..MaxUnread, NEW b, Upsert(j, n, b) PROVE ReadCounts'
    BY <1>2, <1>3, <2>2, <2>3, UpsertCounts
  <2>4. ASSUME NEW k \in Saver, MergeCommit(k) PROVE ReadCounts'
    BY <1>10, <2>4
  <2>5. CASE UNCHANGED unread
    BY <1>3, <1>11, <2>5
  <2>6. QED
    BY <2>1, <2>2, <2>3, <2>4, <2>5, UnreadSteps DEF SyncSteps, SyncChat, HistoryChat, MarkRead
<1>12. QED
  BY <1>4, <1>6, <1>8, <1>9, <1>10, <1>11, SaveMoves DEF SaveSteps, mergeChats

LEMMA CountInvHolds == Spec => []CountInv
<1>1. Init => CountInv
  <2> SUFFICES ASSUME Init PROVE NewInv /\ SumInv /\ ReadCounts
    BY DEF CountInv
  <2>1. ChatTypes /\ \A c \in Chat : chat[c] = "none"
    BY TypesStart DEF Types, Init
  <2>2. Shown("lid") = 0 /\ Shown("phone") = 0
    BY <2>1, ShownIs DEF Jid
  <2>3. QED
    BY <2>2 DEF Init, NewInv, SumInv, ReadCounts, HasRead, Joins
<1>2. IInv /\ IInv' /\ CountInv /\ [Next]_vars => CountInv'
  BY RacedStays, OverlapStays, NewStays, SumStays, ReadCountsStay
  DEF CountInv, IInv, AloneInv, Types
<1>3. QED
  BY <1>1, <1>2, IInvHolds, PTL DEF Spec

\* At rest the two chats show what was called for, unless a count changed while a
\* merge was using what it had read (the counts added up in mergeLidChatAndContact).
THEOREM UnreadHolds == Spec => []UnreadIsDue
<1>1. CountInv => UnreadIsDue
  BY DEF CountInv, UnreadIsDue, SumInv, Shown
<1>2. QED
  BY <1>1, CountInvHolds, PTL
=============================================================================
