----------------------------- MODULE MediaFiles -----------------------------
(***************************************************************************)
(* Media files: objects in MinIO, their rows in media_files, and the       *)
(* messages that show them.  The media worker and the upload route store   *)
(* files (media.service.ts upload, which looks for the same content        *)
(* first), the retry route asks for a download again, and three callers    *)
(* delete: the route, the deletion of a session, and the script that       *)
(* removes orphans.                                                        *)
(*                                                                         *)
(* A file is a number: its object and its row have it alike.  A thumbnail  *)
(* goes with its object.                                                   *)
(***************************************************************************)
EXTENDS Naturals, FiniteSets

CONSTANTS
    Session, Message, NoMessage,
    Sum,                 \* contents of files, by checksum
    DownloadAttempts,    \* of a download job (3)
    MaxFiles, MaxFaults  \* bounds: objects stored, failures

ASSUME MediaTypes == /\ NoMessage \notin Message /\ {"user", "script"} \cap Session = {}
                     /\ DownloadAttempts \in Nat \ {0} /\ MaxFiles \in Nat

VARIABLES
    of, sum,             \* session and content of a message's media
    sessions,            \* rows of sessions; their messages go with them
    info,                \* metadata of a message: mediaStatus, mediaFileId
    jobs,                \* download jobs that wait: message, attempts made
    uploads,             \* uploads under way
    retries,             \* retry routes between their upsert and their job
    rows, objects,       \* media_files; MinIO
    purges,              \* deletions of files under way
    stored,              \* history: files stored so far
    first,               \* ... the message that a file was stored for
    asked, ended,        \* ... files and sessions that a user deleted
    torn,                \* ... files whose storing or deletion stopped halfway
    late,                \* ... files stored while their session was deleted
    faults

fileVars == <<rows, objects>>
workVars == <<sessions, info, jobs, uploads, retries, purges>>
histVars == <<stored, first, asked, ended, torn, late>>
storageVars == <<of, sum, workVars, fileVars, histVars, faults>>

Fixed == UNCHANGED <<of, sum>>
Fault == faults < MaxFaults /\ faults' = faults + 1
NoFault == UNCHANGED faults

Exists(m) == m # NoMessage /\ of[m] \in sessions
Unasked == [status |-> "none", file |-> 0]
Job(m) == [msg |-> m, made |-> 0]

\* The row of a file: its content, its message, the session in its object_key.
FileRow(u) == [sum |-> u.sum, msg |-> u.msg, session |-> u.session]

StorageInit ==
    /\ of \in [Message -> Session] /\ sum \in [Message -> Sum]
    /\ sessions = Session /\ info = [m \in Message |-> Unasked]
    /\ jobs = {Job(m) : m \in Message} /\ uploads = {} /\ retries = {}
    /\ rows = [f \in {} |-> Unasked] /\ objects = {} /\ purges = {}
    /\ stored = 0 /\ first = [f \in 1..MaxFiles |-> NoMessage]
    /\ asked = {} /\ ended = {} /\ torn = {} /\ late = {} /\ faults = 0

-----------------------------------------------------------------------------
(* Storing.                                                                *)

\* The media worker of a session downloads one message at a time, while the session
\* has a socket; a download without content ends the job.
Download(j) ==
    LET m == j.msg
    IN /\ Exists(m)
       /\ \A u \in uploads : u.msg # NoMessage => of[u.msg] # of[m]
       /\ jobs' = jobs \ {j}
       /\ \/ /\ NoFault
             /\ uploads' = uploads \cup {[msg |-> m, session |-> of[m], sum |-> sum[m],
                                          step |-> "look", file |-> 0, made |-> j.made + 1]}
          \/ Fault /\ UNCHANGED uploads
       /\ Fixed /\ UNCHANGED <<sessions, info, retries, purges, fileVars, histVars>>

\* POST /api/media/upload: no message yet.
UploadRoute(s, c) ==
    /\ s \in sessions /\ \A u \in uploads : u.msg # NoMessage
    /\ uploads' = uploads \cup {[msg |-> NoMessage, session |-> s, sum |-> c,
                                 step |-> "look", file |-> 0, made |-> DownloadAttempts]}
    /\ Fixed /\ NoFault /\ UNCHANGED <<sessions, info, jobs, retries, purges, fileVars, histVars>>

Moves(u, step, f) == uploads' = (uploads \ {u}) \cup {[u EXCEPT !.step = step, !.file = f]}

Same(u) == {f \in DOMAIN rows : rows[f].sum = u.sum}

\* A file of the organization with the same content is used again.
Look(u) ==
    /\ u.step = "look"
    /\ \/ \E f \in Same(u) : Moves(u, "save", f)
       \/ Same(u) = {} /\ Moves(u, "put", 0)
    /\ Fixed /\ NoFault
    /\ UNCHANGED <<sessions, info, jobs, retries, purges, fileVars, histVars>>

PutObject(u) ==
    /\ u.step = "put" /\ stored < MaxFiles
    /\ stored' = stored + 1
    /\ objects' = objects \cup {stored'} /\ first' = [first EXCEPT ![stored'] = u.msg]
    /\ Moves(u, "insert", stored')
    /\ Fixed /\ NoFault
    /\ UNCHANGED <<sessions, info, jobs, retries, purges, rows, asked, ended, torn, late>>

\* A purge of the session has listed its files already.
Listed(s) == \E p \in purges : p.by = s

\* The row refers to its message, which may be gone with its session.
InsertRow(u) ==
    /\ u.step = "insert" /\ (u.msg # NoMessage => Exists(u.msg))
    /\ rows' = [f \in DOMAIN rows \cup {u.file} |-> IF f = u.file THEN FileRow(u) ELSE rows[f]]
    /\ late' = IF Listed(u.session) \/ u.session \notin sessions THEN late \cup {u.file} ELSE late
    /\ Moves(u, "save", u.file)
    /\ Fixed /\ NoFault
    /\ UNCHANGED <<sessions, info, jobs, retries, purges, objects, stored, first, asked, ended, torn>>

\* The media worker reads the message and upserts it with its file; a message that
\* is gone is skipped.  The upload route answers.
Save(u) ==
    /\ u.step = "save"
    /\ uploads' = uploads \ {u}
    /\ info' = IF Exists(u.msg)
               THEN [info EXCEPT ![u.msg] = [status |-> "downloaded", file |-> u.file]] ELSE info
    /\ Fixed /\ NoFault /\ UNCHANGED <<sessions, jobs, retries, purges, fileVars, histVars>>

\* A step throws, or its process dies: a job is tried again, what is in MinIO stays.
UploadThrows(u) ==
    /\ \/ Fault
       \/ u.step = "insert" /\ u.msg # NoMessage /\ ~Exists(u.msg) /\ NoFault
    /\ uploads' = uploads \ {u}
    /\ jobs' = IF u.made < DownloadAttempts /\ u.session \in sessions
               THEN jobs \cup {[msg |-> u.msg, made |-> u.made]} ELSE jobs
    /\ torn' = IF u.step = "insert" THEN torn \cup {u.file} ELSE torn
    /\ Fixed /\ UNCHANGED <<sessions, info, retries, purges, fileVars, stored, first, asked, ended, late>>

\* POST /api/media/messages/:messageId/retry.
RetryRoute(m) ==
    /\ Exists(m) /\ m \notin retries /\ \A j \in jobs : j.msg # m
    /\ info' = [info EXCEPT ![m] = [status |-> "downloading", file |-> 0]]
    /\ retries' = retries \cup {m}
    /\ Fixed /\ NoFault /\ UNCHANGED <<sessions, jobs, uploads, purges, fileVars, histVars>>

RetryQueued(m) ==
    /\ m \in retries /\ retries' = retries \ {m}
    /\ \/ jobs' = jobs \cup {Job(m)} /\ NoFault
       \/ UNCHANGED jobs /\ Fault
    /\ Fixed /\ UNCHANGED <<sessions, info, uploads, purges, fileVars, histVars>>

-----------------------------------------------------------------------------
(* Deleting.                                                               *)

\* A purge deletes files one after the other: those to do, the one at hand.
Purge(by, files) == [by |-> by, todo |-> files, at |-> 0, step |-> "next"]
Starts(p) == purges' = purges \cup {p}
Goes(p, q) == purges' = (purges \ {p}) \cup {q}

\* DELETE /api/media/:id.
DeleteRoute(f) ==
    /\ f \in DOMAIN rows /\ f \notin asked /\ asked' = asked \cup {f}
    /\ Starts(Purge("user", {f}))
    /\ Fixed /\ NoFault
    /\ UNCHANGED <<sessions, info, jobs, uploads, retries, fileVars, stored, first, ended, torn, late>>

\* Mutant of Linked: all files whose message is known.
LinkedAny(s) == {f \in DOMAIN rows : Exists(rows[f].msg)}

\* deleteSessionMediaFiles: the files stored for messages of the session.
Linked(s) == {f \in DOMAIN rows : Exists(rows[f].msg) /\ of[rows[f].msg] = s}

DeleteSession(s) ==
    /\ s \in sessions /\ ~Listed(s) /\ ended' = ended \cup {s}
    /\ Starts(Purge(s, Linked(s)))
    /\ Fixed /\ NoFault
    /\ UNCHANGED <<sessions, info, jobs, uploads, retries, fileVars, stored, first, asked, torn, late>>

\* The script: no message, or the session of the object's key is gone.
Orphans == {f \in DOMAIN rows : rows[f].msg = NoMessage \/ rows[f].session \notin sessions}

CleanUp ==
    /\ Orphans # {} /\ \A p \in purges : p.by # "script"
    /\ Starts(Purge("script", Orphans))
    /\ Fixed /\ NoFault /\ UNCHANGED <<sessions, info, jobs, uploads, retries, fileVars, histVars>>

\* deleteFile reads the row; without one there is nothing to do.
Pick(p, f) ==
    /\ p.step = "next" /\ f \in p.todo
    /\ Goes(p, IF f \in DOMAIN rows
               THEN [p EXCEPT !.todo = @ \ {f}, !.at = f, !.step = "object"]
               ELSE [p EXCEPT !.todo = @ \ {f}])
    /\ Fixed /\ NoFault /\ UNCHANGED <<sessions, info, jobs, uploads, retries, fileVars, histVars>>

RemoveObject(p) ==
    /\ p.step = "object" /\ objects' = objects \ {p.at}
    /\ Goes(p, [p EXCEPT !.step = "row"])
    /\ Fixed /\ NoFault /\ UNCHANGED <<sessions, info, jobs, uploads, retries, rows, histVars>>

\* Mutant of Removed: the row is forgotten before the object is gone.
RemovedFirst(p) == p.step \in {"object", "row"}

Removed(p) == p.step = "row"

DeleteRow(p) ==
    /\ Removed(p) /\ rows' = [f \in DOMAIN rows \ {p.at} |-> rows[f]]
    /\ Goes(p, [p EXCEPT !.step = "next", !.at = 0])
    /\ Fixed /\ NoFault /\ UNCHANGED <<sessions, info, jobs, uploads, retries, objects, histVars>>

\* One failed file does not stop the others.
PurgeFails(p) ==
    /\ p.step \in {"object", "row"} /\ Fault
    /\ torn' = torn \cup {p.at}
    /\ Goes(p, [p EXCEPT !.step = "next", !.at = 0])
    /\ Fixed
    /\ UNCHANGED <<sessions, info, jobs, uploads, retries, fileVars, stored, first, asked, ended, late>>

\* At the end the session goes with its messages, and their files keep no message.
PurgeEnds(p) ==
    /\ p.step = "next" /\ p.todo = {} /\ purges' = purges \ {p}
    /\ sessions' = sessions \ {p.by}
    /\ rows' = [f \in DOMAIN rows |->
                   IF Exists(rows[f].msg) /\ of[rows[f].msg] = p.by
                   THEN [rows[f] EXCEPT !.msg = NoMessage] ELSE rows[f]]
    /\ jobs' = {j \in jobs : of[j.msg] # p.by}
    /\ Fixed /\ NoFault /\ UNCHANGED <<info, uploads, retries, objects, histVars>>

\* The process that deletes dies; a session stays then.
PurgeDies(p) ==
    /\ Fault /\ purges' = purges \ {p}
    /\ torn' = torn \cup p.todo \cup {p.at}
    /\ Fixed
    /\ UNCHANGED <<sessions, info, jobs, uploads, retries, fileVars, stored, first, asked, ended, late>>

-----------------------------------------------------------------------------
Storing == \/ \E j \in jobs : Download(j)
           \/ \E s \in Session, c \in Sum : UploadRoute(s, c)
           \/ \E u \in uploads : \/ Look(u) \/ PutObject(u) \/ InsertRow(u)
                                 \/ Save(u) \/ UploadThrows(u)
           \/ \E m \in Message : RetryRoute(m) \/ RetryQueued(m)
Deleting == \/ \E f \in DOMAIN rows : DeleteRoute(f)
            \/ \E s \in Session : DeleteSession(s)
            \/ CleanUp
            \/ \E p \in purges : \/ \E f \in p.todo : Pick(p, f)
                                 \/ RemoveObject(p) \/ DeleteRow(p) \/ PurgeFails(p)
                                 \/ PurgeEnds(p) \/ PurgeDies(p)
StorageNext == Storing \/ Deleting
StorageSpec == StorageInit /\ [][StorageNext]_storageVars

-----------------------------------------------------------------------------
StorageTypeOK ==
    /\ info \in [Message -> [status : {"none", "downloading", "downloaded"}, file : 0..MaxFiles]]
    /\ DOMAIN rows \subseteq 1..stored /\ objects \subseteq 1..stored
    /\ \A j \in jobs : j.msg \in Message /\ j.made \in 0..DownloadAttempts
    /\ \A u \in uploads : u.file \in 0..stored /\ u.made \in 1..DownloadAttempts

Present(f) == f \in DOMAIN rows /\ f \in objects

\* A message shown as downloaded keeps a file of its content, whatever else is deleted: it loses
\* it only to a user who deletes the file or the session, or when the file was
\* stored for another message of the same content (upload, deleteSessionMediaFiles, and the
\* script for orphans).
DownloadKept ==
    \A m \in Message :
        of[m] \in sessions \ ended /\ info[m].status = "downloaded" =>
            LET f == info[m].file
            IN (Present(f) /\ rows[f].sum = sum[m]) \/ f \in asked \/ first[f] # m

MediaInv == StorageTypeOK /\ DownloadKept

\* When nothing is under way, MinIO has exactly the objects that have rows, but for
\* what stopped halfway; and a deleted session leaves a file behind only if that
\* was stored meanwhile, or for no message (deleteFile, deleteSessionMediaFiles).
NoneLeft ==
    uploads = {} /\ purges = {} =>
        /\ objects \ torn = DOMAIN rows \ torn
        /\ \A f \in DOMAIN rows \ (torn \cup late) :
               first[f] # NoMessage => rows[f].session \in sessions
=============================================================================
