---------------------------- MODULE MCMediaFiles ----------------------------
(***************************************************************************)
(* MediaFiles with a bounded number of requests and failures together.     *)
(***************************************************************************)
EXTENDS MediaFiles

CONSTANTS MaxRequests, m1, s1, x
VARIABLE requests

Requests == \/ \E s \in Session, c \in Sum : UploadRoute(s, c)
            \/ \E m \in Message : RetryRoute(m)
            \/ \E f \in DOMAIN rows : DeleteRoute(f)
            \/ \E s \in Session : DeleteSession(s)
            \/ CleanUp

Steps == \/ \E j \in jobs : Download(j)
         \/ \E u \in uploads : \/ Look(u) \/ PutObject(u) \/ InsertRow(u)
                               \/ Save(u) \/ UploadThrows(u)
         \/ \E m \in Message : RetryQueued(m)
         \/ \E p \in purges : \/ \E f \in p.todo : Pick(p, f)
                              \/ RemoveObject(p) \/ DeleteRow(p) \/ PurgeFails(p)
                              \/ PurgeEnds(p) \/ PurgeDies(p)

\* Sessions and contents are alike: the first message's are named.
MCInit == StorageInit /\ requests = 0 /\ of[m1] = s1 /\ sum[m1] = x
MCNext == /\ \/ Steps /\ UNCHANGED requests
             \/ Requests /\ requests' = requests + 1
          /\ requests' + faults' <= MaxRequests
MCSpec == MCInit /\ [][MCNext]_<<storageVars, requests>>
=============================================================================
