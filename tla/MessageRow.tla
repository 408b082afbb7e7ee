----------------------------- MODULE MessageRow -----------------------------
(***************************************************************************)
(* The rows of the messages of ONE chat, and everything that writes them:  *)
(* the inbound worker with new messages, edits, revokes and reactions      *)
(* (events/workers/message.worker.ts), the receipts and the media worker   *)
(* of the session, the save after a send (modules/sessions/                *)
(* session.manager.ts), the history sync (modules/messages/                *)
(* message.service.ts, message.sync.ts).                                   *)
(*                                                                         *)
(* Twenty inbound jobs run at a time, and a job whose publication fails    *)
(* after it has written is run again: the writers meet in any order.  Each *)
(* writes in one statement, so an action is a statement.                   *)
(***************************************************************************)
EXTENDS Integers, FiniteSets

CONSTANTS
    Messages,       \* the messages are 1..Messages in the order of createdAt
    Own,            \* those of them that are fromMe
    WithMedia,      \* those of them that have media to download
    Amendments,     \* edits, revokes and reactions, in the order they were made
    Attempts        \* attempts of a job, 5

Msg   == 1..Messages
Amend == 1..Amendments

ASSUME RowTypes == /\ Messages \in Nat /\ Own \subseteq Msg /\ WithMedia \subseteq Msg
                   /\ Amendments \in Nat /\ Attempts \in Nat \ {0}

\* Texts: none, of the decryption placeholder, of the message, of amendment a.
Blank  == -2
Cipher == -1
Plain  == 0
Text   == {Blank, Cipher, Plain} \cup Amend
Status == {"failed", "pending", "sent", "delivered", "read"}
Kind   == {"edit", "secret", "revoke", "react"}

NoRow == [status |-> "none"]
Row == [status : Status, text : Text, edited : BOOLEAN, deleted : BOOLEAN,
        secret : BOOLEAN, emoji : Amend \cup {0}]

VARIABLES
    row,                \* the row of a message
    job, carries,       \* its inbound job, and the text in it
    tries,
    amend, ajob,        \* amendments: what they are; their inbound jobs
    atries,
    media, copy,        \* media job of a message; the row that it read
    due,                \* history: the row that the events handled so far call for
    redone, errored,    \* ... rows written again or by an older event; in error
    offered, shadowed   \* ... texts that came; came while a job had their id

jobVars == <<job, carries, tries>>
amendVars == <<amend, ajob, atries>>
mediaVars == <<media, copy>>
history == <<due, redone, errored, offered, shadowed>>
vars == <<row, jobVars, amendVars, mediaVars, history>>

Place == {"none", "waiting", "written", "done", "failed"}

TypeOK ==
    /\ row \in [Msg -> Row \cup {NoRow}]
    /\ job \in [Msg -> Place] /\ carries \in [Msg -> {Cipher, Plain}]
    /\ tries \in [Msg -> 0..Attempts]
    /\ \A m \in Msg : job[m] \in {"waiting", "written"} => tries[m] < Attempts
    /\ amend \in [Amend -> [kind : Kind, of : Msg]] /\ ajob \in [Amend -> Place]
    /\ atries \in [Amend -> 0..Attempts]
    /\ media \in [Msg -> {"none", "queued", "read"}] /\ copy \in [Msg -> Row \cup {NoRow}]
    /\ due \in [Msg -> Row \cup {NoRow}]
    /\ redone \in SUBSET Msg /\ errored \in SUBSET Msg
    /\ offered \in SUBSET Msg /\ shadowed \in SUBSET Msg

\* Messages and amendments that are "done" from the start never come.
Start(jobs, ajobs) ==
    /\ row = [m \in Msg |-> NoRow]
    /\ job = jobs /\ carries = [m \in Msg |-> Plain]
    /\ tries = [m \in Msg |-> 0]
    /\ amend \in [Amend -> [kind : Kind, of : Msg]]
    /\ ajob = ajobs /\ atries = [a \in Amend |-> 0]
    /\ media = [m \in Msg |-> "none"] /\ copy = [m \in Msg |-> NoRow]
    /\ due = [m \in Msg |-> NoRow]
    /\ redone = {} /\ errored = {} /\ offered = {} /\ shadowed = {}

Init == Start([m \in Msg |-> "none"], [a \in Amend |-> "none"])

Has(m) == row[m] # NoRow

-----------------------------------------------------------------------------
(* The upsert, and the insert that skips duplicates.                       *)

Fresh(status, text, secret) ==
    [status |-> status, text |-> text, edited |-> FALSE, deleted |-> FALSE,
     secret |-> secret, emoji |-> 0]

\* Mutant of Upserted: the conflict sets every column.
UpsertedAll(old, status, text, secret) == Fresh(status, text, secret)

\* Mutant of Upserted: the conflict does nothing.
UpsertedNothing(old, status, text, secret) ==
    IF old = NoRow THEN Fresh(status, text, secret) ELSE old

\* ON CONFLICT keeps isEdited and isDeleted, and the reactions are elsewhere; the
\* secret is in metadata.waMessage: not in a message of ours from another device.
Upserted(old, status, text, secret) ==
    IF old = NoRow THEN Fresh(status, text, secret)
    ELSE [old EXCEPT !.status = status, !.text = text, !.secret = secret]

\* What the history says of an upsert.
Upsert(m, status, text, secret) ==
    /\ row' = [row EXCEPT ![m] = Upserted(row[m], status, text, secret)]
    /\ due' = IF Has(m) THEN due ELSE [due EXCEPT ![m] = Fresh(status, text, secret)]
    /\ redone' = IF Has(m) THEN redone \cup {m} ELSE redone
    /\ errored' = IF status = "failed" THEN errored \cup {m} ELSE errored

-----------------------------------------------------------------------------
(* messages.upsert: one job per message id.                                *)

\* publishMessageInbound.  A job with the same id that is queued, running or
\* failed for good takes its place; a completed one is removed.
Arrive(m, text) ==
    /\ text = Cipher => job[m] = "none"
    /\ offered' = IF text = Plain THEN offered \cup {m} ELSE offered
    /\ IF job[m] \in {"none", "done"}
       THEN /\ job' = [job EXCEPT ![m] = "waiting"]
            /\ carries' = [carries EXCEPT ![m] = text] /\ tries' = [tries EXCEPT ![m] = 0]
            /\ UNCHANGED shadowed
       ELSE /\ shadowed' = IF carries[m] # text THEN shadowed \cup {m} ELSE shadowed
            /\ UNCHANGED jobVars
    /\ UNCHANGED <<row, amendVars, mediaVars, due, redone, errored>>

\* The handler up to the upsert.  A message with media gets a download then.
Write(m) ==
    /\ job[m] = "waiting"
    /\ Upsert(m, IF carries[m] = Cipher THEN "failed"
                 ELSE IF m \in Own THEN "sent" ELSE "delivered", carries[m], carries[m] = Plain /\ m \notin Own)
    /\ job' = [job EXCEPT ![m] = "written"]
    /\ media' = IF carries[m] = Plain /\ m \in WithMedia /\ media[m] = "none"
                THEN [media EXCEPT ![m] = "queued"] ELSE media
    /\ UNCHANGED <<carries, tries, amendVars, copy, offered, shadowed>>

Notify(m) ==
    /\ job[m] = "written"
    /\ job' = [job EXCEPT ![m] = "done"]
    /\ UNCHANGED <<row, carries, tries, amendVars, mediaVars, history>>

\* A job that threw waits for its next attempt, or has had its last.
Retry(n) == IF n + 1 < Attempts THEN "waiting" ELSE "failed"

\* The database or Redis fails, before or after the upsert, or the worker dies.
JobFails(m) ==
    /\ job[m] \in {"waiting", "written"}
    /\ job' = [job EXCEPT ![m] = Retry(tries[m])]
    /\ tries' = [tries EXCEPT ![m] = @ + 1]
    /\ UNCHANGED <<row, carries, amendVars, mediaVars, history>>

-----------------------------------------------------------------------------
(* Edits, revokes, reactions.                                              *)

ArriveAmend(a) ==
    /\ ajob[a] = "none"
    /\ ajob' = [ajob EXCEPT ![a] = "waiting"]
    /\ UNCHANGED <<row, jobVars, amend, atries, mediaVars, history>>

Amended(r, a) ==
    CASE amend[a].kind = "edit" -> [r EXCEPT !.text = a, !.edited = TRUE]
      [] amend[a].kind = "secret" /\ r.secret -> [r EXCEPT !.text = a, !.edited = TRUE]
      [] amend[a].kind = "revoke" -> [r EXCEPT !.deleted = TRUE]
      [] amend[a].kind = "react" -> [r EXCEPT !.emoji = a]
      [] OTHER -> r

\* A newer edit, or reaction, has been handled before.
Late(a) == \/ amend[a].kind \in {"edit", "secret"} /\ due[amend[a].of].text > a
           \/ amend[a].kind = "react" /\ due[amend[a].of].emoji > a

\* A target without row drops the amendment for good; an encrypted edit needs
\* the secret of the message.
Apply(a) ==
    LET m == amend[a].of
    IN  /\ ajob[a] = "waiting"
        /\ IF Has(m)
           THEN /\ row' = [row EXCEPT ![m] = Amended(@, a)]
                /\ IF Late(a)
                   THEN redone' = redone \cup {m} /\ UNCHANGED due
                   ELSE /\ due' = [due EXCEPT ![m] = Amended([@ EXCEPT !.secret = row[m].secret], a)]
                        /\ UNCHANGED redone
                /\ ajob' = [ajob EXCEPT ![a] = "written"]
           ELSE ajob' = [ajob EXCEPT ![a] = "done"] /\ UNCHANGED <<row, due, redone>>
        /\ UNCHANGED <<jobVars, amend, atries, mediaVars, errored, offered, shadowed>>

NotifyAmend(a) ==
    /\ ajob[a] = "written"
    /\ ajob' = [ajob EXCEPT ![a] = "done"]
    /\ UNCHANGED <<row, jobVars, amend, atries, mediaVars, history>>

AmendFails(a) ==
    /\ ajob[a] \in {"waiting", "written"}
    /\ ajob' = [ajob EXCEPT ![a] = Retry(atries[a])]
    /\ atries' = [atries EXCEPT ![a] = @ + 1]
    /\ UNCHANGED <<row, jobVars, amend, mediaVars, history>>

-----------------------------------------------------------------------------
(* Receipts: messages.update and message-receipt.update.                   *)

Rank == [failed |-> 0, pending |-> 1, sent |-> 2, delivered |-> 3, read |-> 4]

\* Mutant of Takes: a receipt is recorded whatever the message shows.
TakesAny(s) == Status

\* The statuses that a receipt replaces.
Takes(s) == CASE s = "read" -> Status \ {"read"}
              [] s = "delivered" -> {"pending", "sent"}
              [] s = "sent" -> {"pending"}
              [] s = "pending" -> {"pending"}
              [] s = "failed" -> Status \ {"failed"}

\* Those of the messages up to m that the receipt concerns.
Concerned(m, s) == IF s \in {"read", "delivered"} THEN {k \in Own : k <= m} ELSE {m}

\* processMessageReceiptUpdate; without a row the receipt is dropped.
Receipt(m, s) ==
    /\ Has(m)
    /\ row' = [k \in Msg |->
                IF Has(k) /\ k \in Concerned(m, s) /\ row[k].status \in Takes(s)
                THEN [row[k] EXCEPT !.status = s] ELSE row[k]]
    /\ due' = [k \in Msg |->
                IF Has(k) /\ k \in Concerned(m, s) /\ Rank[due[k].status] < Rank[s]
                THEN [due[k] EXCEPT !.status = s] ELSE due[k]]
    /\ errored' = IF s = "failed" THEN errored \cup {m} ELSE errored
    /\ UNCHANGED <<jobVars, amendVars, mediaVars, redone, offered, shadowed>>

-----------------------------------------------------------------------------
\* The outbound worker saves a message that it has sent.
SaveSent(m) ==
    /\ m \in Own
    /\ Upsert(m, "sent", Plain, TRUE)
    /\ UNCHANGED <<jobVars, amendVars, mediaVars, offered, shadowed>>

\* Mutant of History: the history sync takes the place of what is there.
HistoryOver(m, status) ==
    /\ row' = [row EXCEPT ![m] = Upserted(@, status, Blank, m \notin Own)]
    /\ due' = IF Has(m) THEN due ELSE [due EXCEPT ![m] = Fresh(status, Blank, m \notin Own)]
    /\ errored' = IF status = "failed" THEN errored \cup {m} ELSE errored
    /\ UNCHANGED <<jobVars, amendVars, mediaVars, redone, offered, shadowed>>

\* bulkInsert of the history sync: ON CONFLICT DO NOTHING.  The text is looked for
\* in msg.message.message, where there is none (message.sync.ts 304).
History(m, status) ==
    /\ ~Has(m)
    /\ row' = [row EXCEPT ![m] = Fresh(status, Blank, m \notin Own)]
    /\ due' = [due EXCEPT ![m] = Fresh(status, Blank, m \notin Own)]
    /\ errored' = IF status = "failed" THEN errored \cup {m} ELSE errored
    /\ UNCHANGED <<jobVars, amendVars, mediaVars, redone, offered, shadowed>>

\* A reaction in a chunk of the history is applied before the messages of the
\* chunk are inserted, and dropped when its message has no row yet.
HistoryReaction(a) ==
    LET m == amend[a].of
    IN  /\ ajob[a] = "none" /\ amend[a].kind = "react"
        /\ ajob' = [ajob EXCEPT ![a] = "done"]
        /\ IF ~Has(m) THEN UNCHANGED <<row, due, redone>>
           ELSE /\ row' = [row EXCEPT ![m] = Amended(@, a)]
                /\ IF Late(a) THEN redone' = redone \cup {m} /\ UNCHANGED due
                   ELSE due' = [due EXCEPT ![m] = Amended(@, a)] /\ UNCHANGED redone
        /\ UNCHANGED <<jobVars, amend, atries, mediaVars, errored, offered, shadowed>>

\* The media worker reads the row, and upserts all of what it read.
MediaRead(m) ==
    /\ media[m] = "queued" /\ Has(m)
    /\ media' = [media EXCEPT ![m] = "read"] /\ copy' = [copy EXCEPT ![m] = row[m]]
    /\ UNCHANGED <<row, jobVars, amendVars, history>>

MediaWrite(m) ==
    /\ media[m] = "read"
    /\ media' = [media EXCEPT ![m] = "none"] /\ copy' = [copy EXCEPT ![m] = NoRow]
    /\ row' = [row EXCEPT ![m] = Upserted(@, copy[m].status, copy[m].text, copy[m].secret)]
    /\ redone' = IF copy[m] = row[m] THEN redone ELSE redone \cup {m}
    /\ UNCHANGED <<jobVars, amendVars, due, errored, offered, shadowed>>

Steps ==
    \/ \E m \in Msg :
          \/ job[m] = "none" /\ \E text \in {Cipher, Plain} : Arrive(m, text)
          \/ carries[m] = Cipher /\ Arrive(m, Plain)
          \/ Write(m) \/ Notify(m)
          \/ MediaRead(m) \/ MediaWrite(m)
    \/ \E a \in Amend : ArriveAmend(a) \/ Apply(a) \/ NotifyAmend(a)

Events ==
    \/ \E m \in Msg : \/ JobFails(m) \/ SaveSent(m) \/ Arrive(m, Plain)
                      \/ \E s \in Status : Receipt(m, s) \/ History(m, s)
    \/ \E a \in Amend : AmendFails(a) \/ HistoryReaction(a)

Next == Steps \/ Events

Spec == Init /\ [][Next]_vars

-----------------------------------------------------------------------------
\* A message shows the best of the receipts that were handled for it or a later
\* one while its row existed, in whatever order they came (session.manager.ts 1929, "preventing
\* status downgrades"): unless the row was written again by a retried, repeated
\* or late job, or WhatsApp reported an error.
StatusIsDue ==
    \A m \in Own \ (redone \cup errored) : Has(m) => row[m].status = due[m].status

\* The types, and: the status is the best that was reported (session.manager.ts 1929).
RowInv == TypeOK /\ StatusIsDue

\* A message shows its newest edit and each reactor's newest reaction of those
\* handled while its row existed: the history sync, receipts and media take
\* nothing back.  Retried, repeated and overtaken jobs may (upsert 71-80).
TextIsDue ==
    \A m \in Msg \ redone :
        Has(m) => row[m].text = due[m].text /\ row[m].emoji = due[m].emoji

\* Whatever is written again, a message that was revoked stays so, and an edited
\* one is marked as edited.
MarksStay ==
    \A m \in Msg : Has(m) => /\ due[m].deleted => row[m].deleted
                             /\ due[m].edited => row[m].edited

\* When a message could be decrypted in the end and its job is done, its text is
\* shown and not the placeholder: unless it came while the job of the
\* placeholder was there, which has the same id (event-bus.ts 120-135).
PlaceholderReplaced ==
    \A m \in offered \ shadowed : job[m] = "done" => row[m].text # Cipher
=============================================================================
