---------------------------- MODULE MCDashboard ----------------------------
(***************************************************************************)
(* Dashboard with a bounded number of inputs, in parts: the pane with its  *)
(* loads, selections and faults; the list with its pages and events; marks *)
(* as read and replies; attachments.                                       *)
(***************************************************************************)
EXTENDS Dashboard

CONSTANTS a, b

Only(f) == [k \in Input |-> IF k \in DOMAIN f THEN f[k] ELSE 0]

\* What may come from outside, in each part.
Parts == {"pane", "select", "refuse", "list", "lost", "pages", "mark", "attach"}
Unlisted == {"list", "lost", "pages"}      \* the list is not loaded yet
Bound(part) ==
    CASE part = "pane"   -> Only([arrive |-> 1, more |-> 2, sync |-> 1, drop |-> 1])
      [] part = "select" -> Only([arrive |-> 1, status |-> 1, select |-> 2, more |-> 1, fail |-> 1])
      [] part = "refuse" -> Only([arrive |-> 1, select |-> 2, limit |-> 2])
      [] part = "list"   -> Only([arrive |-> 1, reply |-> 1, repeat |-> 1])
      [] part = "lost"   -> Only([arrive |-> 1, reply |-> 1, drop |-> 1])
      [] part = "pages"  -> Only([arrive |-> 1, sync |-> 1, inbox |-> 1, fail |-> 1])
      [] part = "mark"   -> Only([arrive |-> 2, mark |-> 1, select |-> 1])
      [] part = "attach" -> Only([attach |-> 2, select |-> 1, inbox |-> 1, fail |-> 1])

Message(h) == [chat |-> h, fromMe |-> FALSE, n |-> 0]
Stored == <<Message(b), Message(a), Message(a)>>

MCInit ==
    \E part \in Parts :
        /\ left = Bound(part)
        /\ log \in (IF part \in {"pages", "lost"} THEN {Stored, <<Message(a)>>} ELSE {Stored})
        /\ pinned \in (IF part = "pages" THEN {{}, {b}} ELSE {{}})
        /\ unread = [h \in Chat |-> IF part = "mark" THEN 1 ELSE 0]
        /\ admin \in (IF part \in {"select", "refuse", "attach"} THEN BOOLEAN ELSE {FALSE})
        /\ active = (IF part \in Unlisted THEN NoChat ELSE a)
        /\ loads = (IF part = "pane" THEN <<Asking(a, FALSE, 0)>> ELSE <<>>)
        /\ InboxInit

MCSpec == MCInit /\ [][InboxNext]_inboxVars
=============================================================================
