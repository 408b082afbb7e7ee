-------------------------- MODULE Dashboard_proofs --------------------------
(***************************************************************************)
(* Proofs, for any chats, page sizes, messages and numbers of inputs, that *)
(* the pane of the inbox shows messages of the open chat only and, at      *)
(* rest, its newest ones without a gap; that the counts of the list are    *)
(* those of the database and every chat is listed, but for the excuses     *)
(* named; and that an attachment goes to its chat.                         *)
(*                                                                         *)
(* The pane: it is due for some moment n of the log (Exact), and a message *)
(* after n is still carried to it by an event, by a load or by one to be   *)
(* asked (PaneInv; OlderSeen and NewestSeen say the same of answers that   *)
(* are on their way).  The list: a chat that should be listed and is not   *)
(* will be, by this page, by a later one or by an event (PhaseInv).  The   *)
(* counts: f is the history of a chat's count, and every row, event, mark  *)
(* and page names a place in it (History); what the page heard of is a     *)
(* prefix, and the rest is still to be told (HeardInv, ListGood).          *)
(***************************************************************************)
EXTENDS Dashboard, FiniteSetTheorems, SequenceTheorems, WellFoundedInduction, TLAPS

\* A finite set has an element with none below it.
LEMMA Extreme ==
    ASSUME NEW S, IsFiniteSet(S), S # {}, NEW R,
           \A x, y, z \in S : <<x, y>> \in R /\ <<y, z>> \in R => <<x, z>> \in R,
           \A x \in S : <<x, x>> \notin R
    PROVE  \E x \in S : \A y \in S : <<y, x>> \notin R
<1>. DEFINE Below(x) == {y \in S : <<y, x>> \in R}
            Family == {Below(x) : x \in S}
<1>1. IsWellFoundedOn(StrictSubsetOrdering(S), FiniteSubsetsOf(S))
  BY FS_StrictSubsetOrderingWellFounded
<1>2. Family \subseteq FiniteSubsetsOf(S) /\ Family # {}
  <2>1. \A x \in S : Below(x) \in SUBSET S /\ IsFiniteSet(Below(x))
    BY FS_Subset
  <2>2. ASSUME NEW T \in Family  PROVE T \in SUBSET S /\ IsFiniteSet(T)
    <3>1. PICK x \in S : T = Below(x)
      OBVIOUS
    <3>. QED  BY <3>1, <2>1
  <2>3. Family # {}
    <3>1. PICK x : x \in S
      OBVIOUS
    <3>2. Below(x) \in Family
      BY <3>1
    <3>. QED  BY <3>2
  <2>. HIDE DEF Family
  <2>. QED  BY <2>2, <2>3 DEF FiniteSubsetsOf
<1>3. PICK T \in Family : \A U \in Family : <<U, T>> \notin StrictSubsetOrdering(S)
  <2>. HIDE DEF Family
  <2>. QED  BY ONLY <1>1, <1>2, WFMin
<1>4. PICK x \in S : T = Below(x)
  OBVIOUS
<1>5. ASSUME NEW y \in S, <<y, x>> \in R  PROVE FALSE
  <2>1. Below(y) \subseteq T /\ y \in T /\ y \notin Below(y)
    BY <1>4, <1>5
  <2>2. <<Below(y), T>> \in StrictSubsetOrdering(S)
    BY <2>1, <1>4 DEF StrictSubsetOrdering
  <2>. QED  BY <2>2, <1>3
<1>. QED  BY <1>5

\* A finite set of numbers has a largest
LEMMA Largest ==
    ASSUME NEW S, IsFiniteSet(S), \A x \in S : x \in Nat, S # {}
    PROVE  \E m \in S : \A x \in S : x <= m
<1>. DEFINE More == {p \in S \X S : p[1] > p[2]}
<1>1. PICK l \in S : \A y \in S : <<y, l>> \notin More
  <2>1. \A x, y, z \in S : <<x, y>> \in More /\ <<y, z>> \in More => <<x, z>> \in More
    OBVIOUS
  <2>2. \A x \in S : <<x, x>> \notin More
    OBVIOUS
  <2>. HIDE DEF More
  <2>. QED  BY <2>1, <2>2, Extreme
<1>2. ASSUME NEW y \in S  PROVE y <= l
  <2>1. <<y, l>> \in S \X S /\ <<y, l>>[1] = y /\ <<y, l>>[2] = l
    OBVIOUS
  <2>2. ~(y > l)
    BY <2>1, <1>1
  <2>. QED  BY <2>2
<1>. QED  BY <1>2

\* ... and a least member.
LEMMA Least ==
    ASSUME NEW S, IsFiniteSet(S), \A x \in S : x \in Nat, S # {}
    PROVE  \E m \in S : \A x \in S : m <= x
<1>. DEFINE Less == {p \in S \X S : p[1] < p[2]}
<1>1. PICK l \in S : \A y \in S : <<y, l>> \notin Less
  <2>1. \A x, y, z \in S : <<x, y>> \in Less /\ <<y, z>> \in Less => <<x, z>> \in Less
    OBVIOUS
  <2>2. \A x \in S : <<x, x>> \notin Less
    OBVIOUS
  <2>. HIDE DEF Less
  <2>. QED  BY <2>1, <2>2, Extreme
<1>2. ASSUME NEW y \in S  PROVE l <= y
  <2>1. <<y, l>> \in S \X S /\ <<y, l>>[1] = y /\ <<y, l>>[2] = l
    OBVIOUS
  <2>2. ~(y < l)
    BY <2>1, <1>1
  <2>. QED  BY <2>2
<1>. QED  BY <1>2

\* Newest chooses the largest.
LEMMA NewestIs ==
    ASSUME NEW S, IsFiniteSet(S), \A x \in S : x \in Nat, S # {}
    PROVE  Newest(S) \in S /\ \A x \in S : x <= Newest(S)
BY Largest DEF Newest

-----------------------------------------------------------------------------
(* The newest members of a set of messages, by their rank.                 *)

Rank(m, S) == Cardinality({x \in S : x >= m})
Ranked(s, S) == \A k \in 1..Len(s) : s[k] \in S /\ Rank(s[k], S) = k

\* A set of messages and one of its times.
LEMMA Cut ==
    ASSUME NEW S, \A x \in S : x \in Nat, NEW c \in Nat
    PROVE  /\ {x \in S : x >= c} \cap {x \in S : x < c} = {}
           /\ {x \in S : x >= c} \cup {x \in S : x < c} = S
           /\ c \in S => {x \in S : x >= c} = {x \in S : x > c} \cup {c}
           /\ \A y \in Nat : y < c => {x \in {z \in S : z < c} : x >= y} \cup {x \in S : x >= c}
                                         = {x \in S : x >= y}
           /\ \A y \in S : y > c /\ (\A x \in S : x > c => y <= x)
                              => {x \in S : x >= y} = {x \in S : x > c}
<1>1. {x \in S : x >= c} \cap {x \in S : x < c} = {}
  OBVIOUS
<1>2. {x \in S : x >= c} \cup {x \in S : x < c} = S
  OBVIOUS
<1>3. c \in S => {x \in S : x >= c} = {x \in S : x > c} \cup {c}
  <2>1. \A x \in S : x >= c <=> x > c \/ x = c
    OBVIOUS
  <2>. QED  BY <2>1
<1>4. \A y \in Nat : y < c => {x \in {z \in S : z < c} : x >= y} \cup {x \in S : x >= c}
                                 = {x \in S : x >= y}
  OBVIOUS
<1>5. \A y \in S : y > c /\ (\A x \in S : x > c => y <= x)
                      => {x \in S : x >= y} = {x \in S : x > c}
  OBVIOUS
<1>. QED  BY <1>1, <1>2, <1>3, <1>4, <1>5

\* The rank of a member, of the next older one and of any older one.
LEMMA RankOrder ==
    ASSUME NEW S, IsFiniteSet(S), \A x \in S : x \in Nat, NEW m \in S, NEW x \in S
    PROVE  /\ Rank(m, S) \in 1..Cardinality(S)
           /\ x < m => Rank(m, S) < Rank(x, S)
<1>. DEFINE U(y) == {z \in S : z >= y}
<1>1. \A y \in S : U(y) \in SUBSET S /\ IsFiniteSet(U(y)) /\ y \in U(y)
  BY FS_Subset
<1>2. Cardinality(S) \in Nat /\ Cardinality(U(m)) \in Nat /\ Cardinality(U(x)) \in Nat
  BY <1>1, FS_CardinalityType
<1>3. Cardinality(U(m)) # 0
  BY <1>1, FS_EmptySet
<1>4. Cardinality(U(m)) <= Cardinality(S)
  BY <1>1, FS_Subset
<1>5. ASSUME x < m  PROVE Cardinality(U(m)) < Cardinality(U(x))
  <2>1. U(m) \in SUBSET U(x) /\ U(m) # U(x)
    BY <1>1, <1>5
  <2>. QED  BY <2>1, <1>1, <1>2, FS_Subset
<1>. QED  BY <1>2, <1>3, <1>4, <1>5 DEF Rank

\* A member is known by its rank,
LEMMA RankUnique ==
    ASSUME NEW S, IsFiniteSet(S), \A x \in S : x \in Nat, NEW m \in S, NEW x \in S, Rank(m, S) = Rank(x, S)
    PROVE  m = x
BY RankOrder

\* Every rank up to the number of members is somebody's.
LEMMA RankExists ==
    ASSUME NEW S, IsFiniteSet(S), \A x \in S : x \in Nat, NEW k \in 1..Cardinality(S)
    PROVE  \E m \in S : Rank(m, S) = k
<1>. DEFINE T == {m \in S : Rank(m, S) >= k}
<1>1. Cardinality(S) \in Nat /\ S # {}
  BY FS_CardinalityType, FS_EmptySet
<1>2. PICK l \in S : \A x \in S : l <= x
  BY <1>1, Least
<1>3. {x \in S : x >= l} = S
  BY <1>2
<1>4. l \in T
  BY <1>1, <1>3 DEF Rank
<1>5. T \in SUBSET S /\ IsFiniteSet(T) /\ T # {} /\ \A x \in T : x \in Nat
  BY <1>4, FS_Subset
<1>6. PICK m \in T : \A x \in T : x <= m
  <2>. HIDE DEF T
  <2>. QED  BY <1>5, Largest
<1>7. m \in S /\ m \in Nat /\ Rank(m, S) \in Nat /\ Rank(m, S) >= k
  BY RankOrder
<1>8. SUFFICES ASSUME Rank(m, S) # k  PROVE FALSE
  BY <1>7
<1>. DEFINE A == {x \in S : x >= m}
            B == {x \in S : x > m}
<1>9. A = B \cup {m} /\ m \notin B /\ B \in SUBSET S /\ IsFiniteSet(B)
  <2>1. A = B \cup {m}
    BY <1>7, Cut
  <2>2. m \notin B /\ B \in SUBSET S
    BY <1>7
  <2>. HIDE DEF A, B
  <2>. QED  BY <2>1, <2>2, FS_Subset
<1>10. Cardinality(A) = Cardinality(B) + 1 /\ Cardinality(B) \in Nat
  BY <1>9, FS_AddElement, FS_CardinalityType
<1>11. B # {} /\ Cardinality(B) >= k
  BY <1>10, <1>8, <1>7, FS_EmptySet DEF Rank
<1>12. PICK y \in B : \A x \in B : y <= x
  <2>. HIDE DEF B
  <2>. QED  BY <1>9, <1>11, Least
<1>13. {x \in S : x >= y} = B
  <2>1. y \in S /\ y > m /\ \A x \in S : x > m => y <= x
    BY <1>12
  <2>2. \A w \in S : w > m /\ (\A x \in S : x > m => w <= x)
                     => {x \in S : x >= w} = {x \in S : x > m}
    BY <1>7, Cut, ZenonT(30)
  <2>. QED  BY <2>1, <2>2, Zenon
<1>14. y \in T
  BY <1>13, <1>11 DEF Rank
<1>. QED  BY <1>14, <1>6, <1>12

\* Top lists the first members in their order,
LEMMA TopIs ==
    ASSUME NEW S, IsFiniteSet(S), \A x \in S : x \in Nat, NEW n \in Nat
    PROVE  /\ Top(S, n) \in Seq(S) /\ Ranked(Top(S, n), S)
           /\ Len(Top(S, n)) = IF Cardinality(S) < n THEN Cardinality(S) ELSE n
<1>. DEFINE N == IF Cardinality(S) < n THEN Cardinality(S) ELSE n
            e(k) == CHOOSE m \in S : Rank(m, S) = k
<1>1. N \in Nat /\ N <= Cardinality(S) /\ Cardinality(S) \in Nat
  BY FS_CardinalityType
<1>2. \A k \in 1..N : e(k) \in S /\ Rank(e(k), S) = k
  BY <1>1, RankExists
<1>3. Top(S, n) = [k \in 1..N |-> e(k)]
  BY DEF Top, Rank
<1>. HIDE DEF N, e
<1>4. Top(S, n) \in Seq(S) /\ Len(Top(S, n)) = N
  BY <1>1, <1>2, <1>3
<1>. QED  BY <1>2, <1>3, <1>4 DEF Ranked, N

\* and what lists first members in their order is Top.
LEMMA RankedTop ==
    ASSUME NEW S, IsFiniteSet(S), \A x \in S : x \in Nat, NEW s \in Seq(Nat), Ranked(s, S)
    PROVE  Len(s) <= Cardinality(S) /\ s = Top(S, Len(s))
<1>1. Cardinality(S) \in Nat /\ Len(s) \in Nat
  BY FS_CardinalityType
<1>2. Len(s) <= Cardinality(S)
  <2>1. CASE Len(s) = 0
    BY <2>1, <1>1
  <2>2. CASE Len(s) # 0
    <3>1. s[Len(s)] \in S /\ Rank(s[Len(s)], S) = Len(s)
      BY <2>2, <1>1 DEF Ranked
    <3>. QED  BY <3>1, RankOrder
  <2>. QED  BY <2>1, <2>2
<1>. DEFINE t == Top(S, Len(s))
<1>3. t \in Seq(Nat) /\ Ranked(t, S) /\ Len(t) = Len(s)
  <2>1. t \in Seq(S) /\ Ranked(t, S)
        /\ Len(t) = IF Cardinality(S) < Len(s) THEN Cardinality(S) ELSE Len(s)
    BY <1>1, TopIs
  <2>. HIDE DEF t
  <2>2. t \in Seq(Nat)
    BY <2>1, SeqMonotonic
  <2>. QED  BY <2>1, <2>2, <1>1, <1>2
<1>4. \A k \in 1..Len(s) : s[k] = t[k]
  <2>. HIDE DEF t
  <2>. QED  BY <1>3, RankUnique DEF Ranked
<1>. QED
  <2>. HIDE DEF t
  <2>1. s = t
    BY <1>3, <1>4, SeqEqual
  <2>. QED  BY <2>1, <1>2 DEF t

\* Disjoint sets are counted apart.
LEMMA DisjointCount ==
    ASSUME NEW A, NEW B, IsFiniteSet(A), IsFiniteSet(B), A \cap B = {}
    PROVE  /\ Cardinality(A \cup B) = Cardinality(A) + Cardinality(B)
           /\ Cardinality(A) \in Nat /\ Cardinality(B) \in Nat
<1>1. Cardinality(A \cup B) = Cardinality(A) + Cardinality(B) - Cardinality(A \cap B)
  BY FS_Union
<1>2. Cardinality(A \cap B) = 0
  BY FS_EmptySet
<1>3. Cardinality(A) \in Nat /\ Cardinality(B) \in Nat
  BY FS_CardinalityType
<1>. QED  BY <1>1, <1>2, <1>3

\* Ranks below a cursor go on from the rank of the cursor.
LEMMA CutCount ==
    ASSUME NEW S, IsFiniteSet(S), \A x \in S : x \in Nat, NEW c \in Nat
    PROVE  /\ Cardinality(S) = Rank(c, S) + Cardinality({x \in S : x < c})
           /\ \A y \in Nat : y < c => Rank(y, S) = Rank(c, S) + Rank(y, {x \in S : x < c})
           /\ Rank(c, S) \in Nat /\ Cardinality({x \in S : x < c}) \in Nat
<1>. DEFINE T == {x \in S : x < c}
            A == {x \in S : x >= c}
<1>1. T \subseteq S /\ A \subseteq S
  OBVIOUS
<1>2. A \cap T = {} /\ A \cup T = S
  BY Cut, Zenon
<1>3. IsFiniteSet(T) /\ IsFiniteSet(A)
  <2>. HIDE DEF A, T
  <2>. QED  BY <1>1, FS_Subset
<1>4. Cardinality(S) = Cardinality(A) + Cardinality(T) /\ Cardinality(T) \in Nat /\ Cardinality(A) \in Nat
  <2>. HIDE DEF A, T
  <2>. QED  BY <1>2, <1>3, DisjointCount
<1>5. ASSUME NEW y \in Nat, y < c  PROVE Rank(y, S) = Rank(c, S) + Rank(y, T)
  <2>. DEFINE B == {x \in T : x >= y}
  <2>1. B \cup A = {x \in S : x >= y}
    BY <1>5, SMT
  <2>2. B \subseteq T
    OBVIOUS
  <2>3. Cardinality(B \cup A) = Cardinality(B) + Cardinality(A) /\ Cardinality(B) \in Nat
    <3>. HIDE DEF A, B, T
    <3>1. IsFiniteSet(B) /\ B \cap A = {}
      BY <2>2, <1>2, <1>3, FS_Subset
    <3>. QED  BY <3>1, <1>3, DisjointCount
  <2>4. Rank(y, S) = Cardinality(B \cup A) /\ Rank(c, S) = Cardinality(A) /\ Rank(y, T) = Cardinality(B)
    BY <2>1 DEF Rank
  <2>. HIDE DEF A, B, T
  <2>. QED  BY <2>3, <2>4, <1>4
<1>6. Rank(c, S) = Cardinality(A)
  BY DEF Rank
<1>. QED  BY <1>4, <1>5, <1>6

\* A page of older messages that begins after the last one held goes on where it ends.
LEMMA RankedGoesOn ==
    ASSUME NEW S, IsFiniteSet(S), \A x \in S : x \in Nat,
           NEW s \in Seq(Nat), Ranked(s, S), s # <<>>,
           NEW T, \A x : x \in T <=> x \in S /\ x < s[Len(s)],
           NEW t \in Seq(Nat), Ranked(t, T)
    PROVE  /\ Ranked(s \o t, S)
           /\ Cardinality(S) = Len(s) + Cardinality(T)
<1>. DEFINE c == s[Len(s)]
<1>0. T = {x \in S : x < c}
  OBVIOUS
<1>1. Len(s) \in Nat \ {0} /\ Len(t) \in Nat
  BY EmptySeq
<1>2. c \in S /\ c \in Nat /\ Rank(c, S) = Len(s)
  <2>1. Len(s) \in 1..Len(s)
    BY <1>1
  <2>. QED  BY <2>1 DEF Ranked
<1>. HIDE DEF c
<1>3. Cardinality(S) = Len(s) + Cardinality(T)
  <2>1. Cardinality(S) = Rank(c, S) + Cardinality(T)
    BY <1>0, <1>2, CutCount, Zenon
  <2>. QED  BY <2>1, <1>2
<1>4. ASSUME NEW x \in T  PROVE x \in S /\ Rank(x, S) = Len(s) + Rank(x, T)
  <2>1. x \in S /\ x \in Nat /\ x < c
    BY <1>0
  <2>2. Rank(x, S) = Rank(c, S) + Rank(x, T)
    BY <1>0, <2>1, <1>2, CutCount, Zenon
  <2>. QED  BY <2>1, <2>2, <1>2
<1>5. /\ Len(s \o t) = Len(s) + Len(t)
      /\ \A k \in 1..Len(s) : (s \o t)[k] = s[k]
      /\ \A k \in 1..Len(t) : (s \o t)[Len(s) + k] = t[k]
  <2>1. Len(s \o t) = Len(s) + Len(t)
        /\ \A i \in 1..Len(s) + Len(t) : (s \o t)[i] = IF i <= Len(s) THEN s[i] ELSE t[i - Len(s)]
    BY ConcatProperties, Zenon
  <2>2. ASSUME NEW k \in 1..Len(t)  PROVE (s \o t)[Len(s) + k] = t[k]
    <3>1. Len(s) + k \in 1..Len(s) + Len(t) /\ ~(Len(s) + k <= Len(s)) /\ (Len(s) + k) - Len(s) = k
      BY <1>1
    <3>. QED  BY <2>1, <3>1
  <2>. QED  BY <2>1, <2>2, <1>1
<1>6. ASSUME NEW k \in 1..Len(s)  PROVE (s \o t)[k] \in S /\ Rank((s \o t)[k], S) = k
  BY <1>5 DEF Ranked
<1>7. ASSUME NEW j \in 1..Len(t)
      PROVE  (s \o t)[Len(s) + j] \in S /\ Rank((s \o t)[Len(s) + j], S) = Len(s) + j
  <2>1. t[j] \in T /\ Rank(t[j], T) = j
    BY DEF Ranked
  <2>. QED  BY <2>1, <1>4, <1>5, <1>1
<1>8. ASSUME NEW k \in 1..(Len(s) + Len(t))  PROVE (s \o t)[k] \in S /\ Rank((s \o t)[k], S) = k
  <2>1. CASE k > Len(s)
    <3>1. PICK j \in 1..Len(t) : k = Len(s) + j
      <4>1. k - Len(s) \in 1..Len(t) /\ k = Len(s) + (k - Len(s))
        BY <2>1, <1>1
      <4>. QED  BY <4>1
    <3>. QED  BY <3>1, <1>7
  <2>2. CASE ~(k > Len(s))
    <3>1. k \in 1..Len(s)
      BY <2>2, <1>1
    <3>. QED  BY <3>1, <1>6
  <2>. QED  BY <2>1, <2>2
<1>. QED  BY <1>3, <1>5, <1>8 DEF Ranked

-----------------------------------------------------------------------------
(* Ranges.                                                                 *)

LogRecord == [chat : Chat, fromMe : BOOLEAN, n : Nat]
EventRecord == [kind : {"new", "status", "update", "sync"}, chat : Chat \cup {NoChat},
                msg : Nat, n : Nat, count : Nat, seen : Nat]
MarkRecord == [chat : Chat, by : Nat, step : {"clear", "fetch", "tell", "answer"}, n : Nat,
               count : Nat, seen : Nat]

LogTypes == /\ log \in Seq(LogRecord)
            /\ unread \in [Chat -> Nat] /\ changes \in [Chat -> Nat] /\ pinned \subseteq Chat
            /\ due \subseteq 1..Len(log)

ChosenTypes == /\ active \in Chat \cup {NoChat} /\ opening \in Nat /\ choosing \in Seq(Chat)
               /\ admin \in BOOLEAN /\ left \in [Input -> Nat]

MarkTypes == marks \subseteq MarkRecord

\* Of an event on the wire: what is sent of a message is its row.
EventTyped(e, rows) ==
    /\ e.kind # "sync" => e.chat \in Chat
    /\ e.kind = "new" => /\ e.msg \in 1..Len(rows)
                         /\ e.chat = rows[e.msg].chat /\ e.n = rows[e.msg].n

WireTypes == /\ wire \in Seq(EventRecord) /\ online \in BOOLEAN
             /\ \A j \in 1..Len(wire) : EventTyped(wire[j], log)

ServerTypes == LogTypes /\ ChosenTypes /\ MarkTypes /\ WireTypes

-----------------------------------------------------------------------------
(* What a step may change.                                                 *)

\* A load touches the pane only,
LEMMA LoadingFrame ==
    Loading => UNCHANGED <<serverVars, admin, active, opening, choosing, listVars, sendVars>>
<1>1. \A i : LoadServe(i) => UNCHANGED <<serverVars, admin, active, opening, choosing, listVars, sendVars>>
  BY DEF LoadServe
<1>2. \A i : LoadAnswer(i) => UNCHANGED <<serverVars, admin, active, opening, choosing, listVars, sendVars>>
  BY DEF LoadAnswer
<1>3. \A i : LoadFails(i) => UNCHANGED <<serverVars, admin, active, opening, choosing, listVars, sendVars>>
  BY DEF LoadFails
<1>4. \A i : LoadLimited(i) => UNCHANGED <<serverVars, admin, active, opening, choosing, listVars, sendVars>>
  BY DEF LoadLimited
<1>. QED  BY <1>1, <1>2, <1>3, <1>4 DEF Loading

\* the list its own state,
LEMMA ListingFrame == Listing => UNCHANGED <<serverVars, admin, paneVars, known, heard, moved, sendVars>>
<1>1. ListServe => UNCHANGED <<serverVars, admin, paneVars, known, heard, moved, sendVars>>
  BY DEF ListServe
<1>2. ListAnswer => UNCHANGED <<serverVars, admin, paneVars, known, heard, moved, sendVars>>
  BY DEF ListAnswer
<1>3. ListFails => UNCHANGED <<serverVars, admin, paneVars, known, heard, moved, sendVars>>
  BY DEF ListFails
<1>. QED  BY <1>1, <1>2, <1>3 DEF Listing

\* and the user the server only by marking as read.
LEMMA UserFrame == User => Mark \/ UNCHANGED serverVars
<1>1. ChooseInbox \/ LoadMore \/ Attach \/ Submit \/ Uploaded \/ UploadFails \/ Posted
         => UNCHANGED serverVars
  BY DEF ChooseInbox, LoadMore, Attach, Submit, Uploaded, UploadFails, Posted
<1>2. InboxReady => UNCHANGED serverVars
  BY DEF InboxReady
<1>3. \A h : SelectChat(h) => UNCHANGED serverVars
  BY DEF SelectChat
<1>4. \A i : Assignees(i) => UNCHANGED serverVars
  BY DEF Assignees
<1>. QED  BY <1>1, <1>2, <1>3, <1>4 DEF User

\* So the state of the server changes in these steps,
LEMMA SteadyServer ==
    [InboxNext]_inboxVars => Mark \/ Server \/ Socket \/ UNCHANGED serverVars
BY LoadingFrame, ListingFrame, UserFrame DEF InboxNext, inboxVars

\* The log only grows.
LEMMA LogSteps ==
    [InboxNext]_inboxVars =>
        \/ \E h \in Chat, mine \in BOOLEAN : Arrive(h, mine)
        \/ \E m \in due : Announce(m)
        \/ \E k \in marks : MarkClear(k)
        \/ UNCHANGED <<log, unread, changes, pinned, due>>
<1>. DEFINE Due == \/ \E h \in Chat, mine \in BOOLEAN : Arrive(h, mine)
                   \/ \E m \in due : Announce(m)
                   \/ \E k \in marks : MarkClear(k)
                   \/ UNCHANGED <<log, unread, changes, pinned, due>>
<1>. SUFFICES [InboxNext]_inboxVars => Due
  OBVIOUS
<1>1. (Mark \/ UNCHANGED serverVars) => Due
  BY DEF Mark, serverVars
<1>2. Server => Due
  BY DEF Server, Repeat, Status, SyncCompleted, MarkFetch, MarkTell, MarkAnswer
<1>3. Socket => Due
  BY DEF Socket, Drop, ConnectWS, HearNew, HearStatus, HearUpdate, HearSync, Heard
<1>. QED  BY <1>1, <1>2, <1>3, SteadyServer

\* the marks in these,
LEMMA MarkSteps ==
    [InboxNext]_inboxVars =>
        \/ \E m \in due : Announce(m)
        \/ Mark
        \/ \E k \in marks : MarkClear(k) \/ MarkFetch(k) \/ MarkTell(k) \/ MarkAnswer(k)
        \/ UNCHANGED marks
<1>. DEFINE Due == \/ \E m \in due : Announce(m)
                   \/ Mark
                   \/ \E k \in marks : MarkClear(k) \/ MarkFetch(k) \/ MarkTell(k) \/ MarkAnswer(k)
                   \/ UNCHANGED marks
<1>. SUFFICES [InboxNext]_inboxVars => Due
  OBVIOUS
<1>1. (Mark \/ UNCHANGED serverVars) => Due
  BY DEF serverVars
<1>2. Server => Due
  BY DEF Server, Arrive, Repeat, Status, SyncCompleted
<1>3. Socket => Due
  BY DEF Socket, Drop, ConnectWS, HearNew, HearStatus, HearUpdate, HearSync, Heard
<1>. QED  BY <1>1, <1>2, <1>3, SteadyServer

\* the wire in these,
LEMMA WireSteps ==
    [InboxNext]_inboxVars =>
        \/ \E m \in due : Announce(m)
        \/ \E m \in 1..Len(log) : Repeat(m)
        \/ \E h \in Chat : Status(h)
        \/ SyncCompleted
        \/ \E k \in marks : MarkTell(k)
        \/ Socket
        \/ UNCHANGED <<wire, online>>
<1>. DEFINE Due == \/ \E m \in due : Announce(m)
                   \/ \E m \in 1..Len(log) : Repeat(m)
                   \/ \E h \in Chat : Status(h)
                   \/ SyncCompleted
                   \/ \E k \in marks : MarkTell(k)
                   \/ Socket
                   \/ UNCHANGED <<wire, online>>
<1>. SUFFICES [InboxNext]_inboxVars => Due
  OBVIOUS
<1>1. (Mark \/ UNCHANGED serverVars) => Due
  BY DEF Mark, serverVars
<1>2. Server => Due
  BY DEF Server, Arrive, MarkClear, MarkFetch, MarkAnswer
<1>3. Socket => Due
  OBVIOUS
<1>. QED  BY <1>1, <1>2, <1>3, SteadyServer

\* the selection in these,
LEMMA ChosenSteps ==
    [InboxNext]_inboxVars =>
        \/ ChooseInbox \/ InboxReady
        \/ \E h \in Chat : SelectChat(h)
        \/ \E i \in DOMAIN choosing : Assignees(i)
        \/ UNCHANGED <<active, opening, choosing>>
<1>. DEFINE Due == \/ ChooseInbox \/ InboxReady
                   \/ \E h \in Chat : SelectChat(h)
                   \/ \E i \in DOMAIN choosing : Assignees(i)
                   \/ UNCHANGED <<active, opening, choosing>>
<1>. SUFFICES [InboxNext]_inboxVars => Due
  OBVIOUS
<1>1. Loading => Due
  BY LoadingFrame
<1>2. Listing => Due
  BY ListingFrame DEF paneVars
<1>3. User => Due
  BY DEF User, LoadMore, Mark, Attach, Submit, Uploaded, UploadFails, Posted, paneVars
<1>4. Server => Due
  BY DEF Server, Arrive, Announce, Repeat, Status, SyncCompleted, MarkClear, MarkFetch, MarkTell,
     MarkAnswer, Publish, paneVars
<1>5. Socket => Due
  BY DEF Socket, Drop, ConnectWS, HearNew, HearStatus, HearUpdate, HearSync, Heard, paneVars
<1>6. UNCHANGED inboxVars => Due
  BY DEF inboxVars, paneVars
<1>. QED  BY <1>1, <1>2, <1>3, <1>4, <1>5, <1>6 DEF InboxNext

LEMMA SpendTypes == left \in [Input -> Nat] => \A kind \in Input : Spend(kind) => left' \in [Input -> Nat]
BY DEF Spend

\* an input is spent or not,
LEMMA LeftSteps == [InboxNext]_inboxVars => Calm \/ \E kind \in Input : Spend(kind)
<1>. DEFINE Due == Calm \/ \E kind \in Input : Spend(kind)
<1>. SUFFICES [InboxNext]_inboxVars => Due
  OBVIOUS
<1>1. Loading => Due
  BY DEF Loading, LoadServe, LoadAnswer, LoadFails, LoadLimited, Input
<1>2. Listing => Due
  BY DEF Listing, ListServe, ListAnswer, ListFails, Input
<1>3. User => Due
  BY DEF User, ChooseInbox, InboxReady, SelectChat, Assignees, LoadMore, Mark, Attach, Submit,
     Uploaded, UploadFails, Posted, Input
<1>4. Server => Due
  BY DEF Server, Arrive, Announce, Repeat, Status, SyncCompleted, MarkClear, MarkFetch, MarkTell,
     MarkAnswer, Input
<1>5. Socket => Due
  BY DEF Socket, Drop, ConnectWS, HearNew, HearStatus, HearUpdate, HearSync, Heard, Input
<1>6. UNCHANGED inboxVars => Due
  BY DEF inboxVars, Calm
<1>. QED  BY <1>1, <1>2, <1>3, <1>4, <1>5, <1>6 DEF InboxNext

\* and the role never.
LEMMA SteadyAdmin == [InboxNext]_inboxVars => UNCHANGED admin
<1>1. Loading => UNCHANGED admin
  BY LoadingFrame
<1>2. Listing => UNCHANGED admin
  BY ListingFrame
<1>3. User => UNCHANGED admin
  BY DEF User, ChooseInbox, InboxReady, SelectChat, Assignees, LoadMore, Mark, Attach, Submit,
     Uploaded, UploadFails, Posted
<1>4. Server => UNCHANGED admin
  BY DEF Server, Arrive, Announce, Repeat, Status, SyncCompleted, MarkClear, MarkFetch, MarkTell,
     MarkAnswer
<1>5. Socket => UNCHANGED admin
  BY DEF Socket, Drop, ConnectWS, HearNew, HearStatus, HearUpdate, HearSync, Heard
<1>6. UNCHANGED inboxVars => UNCHANGED admin
  BY DEF inboxVars
<1>. QED  BY <1>1, <1>2, <1>3, <1>4, <1>5, <1>6 DEF InboxNext

-----------------------------------------------------------------------------
(* What the server keeps and sends.                                        *)

\* RemoveAt of SequencesExt.
LEMMA Removed ==
    ASSUME NEW S, NEW s \in Seq(S), NEW i \in 1..Len(s)
    PROVE  /\ RemoveAt(s, i) \in Seq(S) /\ Len(RemoveAt(s, i)) = Len(s) - 1
           /\ \A k \in 1..(Len(s) - 1) : RemoveAt(s, i)[k] = IF k < i THEN s[k] ELSE s[k + 1]
<1>. DEFINE a == SubSeq(s, 1, i - 1)
            b == SubSeq(s, i + 1, Len(s))
<1>0. Len(s) \in Nat /\ i \in Nat /\ i >= 1 /\ i <= Len(s)
  BY LenProperties
<1>1. /\ a \in Seq(S) /\ Len(a) = i - 1
      /\ \A k \in 1..(i - 1) : a[k] = s[k]
  <2>1. \A j \in 1..(i - 1) : s[j] \in S
    BY <1>0, ElementOfSeq
  <2>2. 1 \in Int /\ i - 1 \in Int
    BY <1>0
  <2>3. /\ a \in Seq(S) /\ Len(a) = IF 1 <= i - 1 THEN (i - 1) - 1 + 1 ELSE 0
        /\ \A j \in 1..((i - 1) - 1 + 1) : a[j] = s[1 + j - 1]
    BY <2>1, <2>2, SubSeqProperties
  <2>. HIDE DEF a
  <2>. QED  BY <2>3, <1>0
<1>2. /\ b \in Seq(S) /\ Len(b) = Len(s) - i
      /\ \A k \in 1..(Len(s) - i) : b[k] = s[i + k]
  <2>1. \A j \in (i + 1)..Len(s) : s[j] \in S
    BY <1>0, ElementOfSeq
  <2>2. i + 1 \in Int /\ Len(s) \in Int
    BY <1>0
  <2>3. /\ b \in Seq(S) /\ Len(b) = IF i + 1 <= Len(s) THEN Len(s) - (i + 1) + 1 ELSE 0
        /\ \A j \in 1..(Len(s) - (i + 1) + 1) : b[j] = s[(i + 1) + j - 1]
    BY <2>1, <2>2, SubSeqProperties
  <2>. HIDE DEF b
  <2>. QED  BY <2>3, <1>0
<1>3. RemoveAt(s, i) = a \o b
  BY DEF RemoveAt
<1>. HIDE DEF a, b
<1>4. /\ a \o b \in Seq(S) /\ Len(a \o b) = Len(a) + Len(b)
      /\ \A k \in 1..(Len(a) + Len(b)) : (a \o b)[k] = IF k <= Len(a) THEN a[k] ELSE b[k - Len(a)]
  BY <1>1, <1>2, ConcatProperties
<1>5. ASSUME NEW k \in 1..(Len(s) - 1)  PROVE (a \o b)[k] = IF k < i THEN s[k] ELSE s[k + 1]
  <2>1. CASE k < i
    BY <2>1, <1>0, <1>1, <1>2, <1>4
  <2>2. CASE ~(k < i)
    <3>1. k - (i - 1) \in 1..(Len(s) - i) /\ i + (k - (i - 1)) = k + 1 /\ ~(k <= i - 1)
      BY <2>2, <1>0
    <3>2. (a \o b)[k] = b[k - (i - 1)]
      BY <3>1, <1>0, <1>1, <1>2, <1>4
    <3>. QED  BY <3>1, <3>2, <1>2, <2>2, <1>0
  <2>. QED  BY <2>1, <2>2
<1>. QED  BY <1>3, <1>4, <1>5, <1>0, <1>1, <1>2

\* The log only grows, and a row stays as it was stored.
LEMMA LogNext ==
    LogTypes /\ [InboxNext]_inboxVars =>
        /\ LogTypes' /\ Len(log) <= Len(log') /\ Len(log) \in Nat /\ Len(log') \in Nat
        /\ \A m \in 1..Len(log) : m \in 1..Len(log') /\ log'[m] = log[m]
<1>. SUFFICES ASSUME LogTypes, [InboxNext]_inboxVars
              PROVE  /\ LogTypes' /\ Len(log) <= Len(log') /\ Len(log) \in Nat /\ Len(log') \in Nat
                     /\ \A m \in 1..Len(log) : m \in 1..Len(log') /\ log'[m] = log[m]
  OBVIOUS
<1>1. ASSUME NEW h \in Chat, NEW mine \in BOOLEAN, Arrive(h, mine)
      PROVE  /\ LogTypes' /\ Len(log) <= Len(log') /\ Len(log) \in Nat /\ Len(log') \in Nat
             /\ \A m \in 1..Len(log) : m \in 1..Len(log') /\ log'[m] = log[m]
  <2>. DEFINE r == [chat |-> h, fromMe |-> mine, n |-> changes[h] + 1]
  <2>1. r \in LogRecord /\ log' = Append(log, r)
    BY <1>1 DEF Arrive, LogTypes, LogRecord
  <2>. HIDE DEF r
  <2>2. log' \in Seq(LogRecord) /\ Len(log') = Len(log) + 1 /\ Len(log) \in Nat
        /\ \A m \in 1..Len(log) : log'[m] = log[m]
    BY <2>1 DEF LogTypes
  <2>3. unread' \in [Chat -> Nat] /\ changes' \in [Chat -> Nat]
    BY <1>1 DEF Arrive, LogTypes
  <2>4. pinned' \subseteq Chat /\ due' \subseteq 1..Len(log')
    <3>1. pinned' = pinned /\ due' = due \cup {Len(log) + 1}
      BY <1>1 DEF Arrive
    <3>2. pinned \subseteq Chat /\ due \subseteq 1..Len(log)
      BY DEF LogTypes
    <3>3. ASSUME NEW x \in due'  PROVE x \in 1..Len(log')
      <4>1. x \in 1..Len(log) \/ x = Len(log) + 1
        BY <3>1, <3>2
      <4>. QED  BY <4>1, <2>2
    <3>. QED  BY <3>1, <3>2, <3>3
  <2>. QED  BY <2>2, <2>3, <2>4 DEF LogTypes
<1>2. CASE \E m \in due : Announce(m)
  BY <1>2 DEF Announce, LogTypes
<1>3. ASSUME NEW k \in marks, MarkClear(k)
      PROVE  /\ LogTypes' /\ Len(log) <= Len(log') /\ Len(log) \in Nat /\ Len(log') \in Nat
             /\ \A m \in 1..Len(log) : m \in 1..Len(log') /\ log'[m] = log[m]
  <2>1. /\ unread' = [unread EXCEPT ![k.chat] = 0]
        /\ changes' = [changes EXCEPT ![k.chat] = @ + 1]
        /\ UNCHANGED <<log, pinned, due>>
    BY <1>3, Zenon DEF MarkClear
  <2>2. unread' \in [Chat -> Nat]
    BY <2>1 DEF LogTypes
  <2>3. changes' \in [Chat -> Nat]
    <3>1. changes' = [h \in Chat |-> IF h = k.chat THEN changes[h] + 1 ELSE changes[h]]
      BY <2>1 DEF LogTypes
    <3>2. \A h \in Chat : changes[h] \in Nat
      BY DEF LogTypes
    <3>. QED  BY <3>1, <3>2
  <2>4. log' = log /\ Len(log) \in Nat
    BY <2>1 DEF LogTypes
  <2>. QED  BY <2>1, <2>2, <2>3, <2>4 DEF LogTypes
<1>4. CASE UNCHANGED <<log, unread, changes, pinned, due>>
  BY <1>4 DEF LogTypes
<1>. QED  BY <1>1, <1>2, <1>3, <1>4, LogSteps

\* The selection stays typed.
LEMMA ChosenNext == ChosenTypes /\ [InboxNext]_inboxVars => ChosenTypes'
<1>. SUFFICES ASSUME ChosenTypes, [InboxNext]_inboxVars  PROVE ChosenTypes'
  OBVIOUS
<1>1. active' \in Chat \cup {NoChat}
  BY ChosenSteps DEF ChosenTypes, ChooseInbox, InboxReady, SelectChat, Assignees
<1>2. opening' \in Nat
  <2>1. InboxReady => opening' \in Nat
    BY DEF ChosenTypes, InboxReady
  <2>2. ChooseInbox => opening' \in Nat
    BY DEF ChosenTypes, ChooseInbox
  <2>3. \A h : SelectChat(h) => opening' = opening
    BY DEF SelectChat
  <2>4. \A i : Assignees(i) => opening' = opening
    BY DEF Assignees
  <2>. QED  BY <2>1, <2>2, <2>3, <2>4, ChosenSteps DEF ChosenTypes
<1>3. choosing' \in Seq(Chat)
  <2>1. ASSUME NEW i \in DOMAIN choosing, Assignees(i)  PROVE choosing' \in Seq(Chat)
    BY <2>1, Removed DEF ChosenTypes, Assignees
  <2>2. CASE ChooseInbox \/ InboxReady \/ UNCHANGED <<active, opening, choosing>>
    BY <2>2 DEF ChosenTypes, ChooseInbox, InboxReady
  <2>3. ASSUME NEW h \in Chat, SelectChat(h)  PROVE choosing' \in Seq(Chat)
    <3>1. choosing' = Append(choosing, h) \/ choosing' = choosing
      BY <2>3 DEF SelectChat
    <3>. QED  BY <3>1 DEF ChosenTypes
  <2>. QED  BY <2>1, <2>2, <2>3, ChosenSteps
<1>4. admin' \in BOOLEAN
  BY SteadyAdmin DEF ChosenTypes
<1>5. left' \in [Input -> Nat]
  BY LeftSteps, SpendTypes DEF ChosenTypes, Calm
<1>. QED  BY <1>1, <1>2, <1>3, <1>4, <1>5 DEF ChosenTypes

\* The steps of a mark.
LEMMA MarkFetches ==
    ASSUME NEW k \in MarkRecord, NEW x \in Nat, NEW f, f = [k EXCEPT !.step = "fetch", !.n = x]
    PROVE  f \in MarkRecord /\ f.chat = k.chat /\ f.by = k.by /\ f.step = "fetch" /\ f.n = x
BY DEF MarkRecord

\* Steps of markChatAsRead keep its record.
LEMMA MarkTells ==
    ASSUME NEW k \in MarkRecord, NEW x \in Nat, NEW y \in Nat,
           NEW t, t = [k EXCEPT !.step = "tell", !.count = x, !.seen = y]
    PROVE  /\ t \in MarkRecord /\ t.chat = k.chat /\ t.by = k.by /\ t.step = "tell" /\ t.n = k.n
           /\ t.count = x /\ t.seen = y
BY DEF MarkRecord

LEMMA MarkAnswers ==
    ASSUME NEW k \in MarkRecord, NEW a, a = [k EXCEPT !.step = "answer"]
    PROVE  a \in MarkRecord /\ a.chat = k.chat /\ a.by = k.by /\ a.step = "answer" /\ a.n = k.n
BY DEF MarkRecord

LEMMA MarkingIs ==
    ASSUME NEW h \in Chat, NEW m \in Nat
    PROVE  /\ Marking(h, m) \in MarkRecord /\ Marking(h, m).chat = h /\ Marking(h, m).by = m
           /\ Marking(h, m).step = "clear" /\ Marking(h, m).n = 0
BY DEF Marking, MarkRecord

\* A row of the log.
LEMMA LogRow ==
    ASSUME LogTypes, NEW m \in 1..Len(log)
    PROVE  log[m].chat \in Chat /\ log[m].fromMe \in BOOLEAN /\ log[m].n \in Nat /\ m \in Nat
<1>1. log[m] \in LogRecord
  BY ElementOfSeq DEF LogTypes
<1>. QED  BY <1>1 DEF LogRecord

\* The marks stay typed.
LEMMA MarkNext ==
    LogTypes /\ ChosenTypes /\ MarkTypes /\ [InboxNext]_inboxVars => MarkTypes'
<1>. SUFFICES ASSUME LogTypes, ChosenTypes, MarkTypes, [InboxNext]_inboxVars
              PROVE  \A j \in marks' : j \in MarkRecord
  BY DEF MarkTypes
<1>. SUFFICES ASSUME NEW j \in marks'  PROVE j \in MarkRecord
  OBVIOUS
<1>0. \A k \in marks : k \in MarkRecord /\ k.chat \in Chat
  BY DEF MarkTypes, MarkRecord
<1>1. ASSUME NEW m \in due, Announce(m)  PROVE j \in MarkRecord
  <2>1. j \in marks \/ j = Marking(log[m].chat, m)
    BY <1>1 DEF Announce
  <2>2. m \in 1..Len(log)
    BY DEF LogTypes
  <2>. QED  BY <2>1, <2>2, <1>0, LogRow, MarkingIs
<1>2. CASE Mark
  <2>1. active \in Chat /\ (j \in marks \/ j = Marking(active, 0))
    BY <1>2 DEF Mark, ChosenTypes
  <2>. QED  BY <2>1, <1>0, MarkingIs
<1>3. ASSUME NEW k \in marks, MarkClear(k)  PROVE j \in MarkRecord
  <2>1. j \in marks \/ j = [k EXCEPT !.step = "fetch", !.n = changes[k.chat] + 1]
    BY <1>3, Zenon DEF MarkClear
  <2>2. changes[k.chat] + 1 \in Nat
    BY <1>0 DEF LogTypes
  <2>. QED  BY <2>1, <2>2, <1>0 DEF MarkRecord
<1>4. ASSUME NEW k \in marks, MarkFetch(k)  PROVE j \in MarkRecord
  <2>1. j \in marks \/ j = [k EXCEPT !.step = "tell", !.count = unread[k.chat], !.seen = changes[k.chat]]
    BY <1>4, Zenon DEF MarkFetch
  <2>2. unread[k.chat] \in Nat /\ changes[k.chat] \in Nat
    BY <1>0 DEF LogTypes
  <2>. QED  BY <2>1, <2>2, <1>0 DEF MarkRecord
<1>5. ASSUME NEW k \in marks, MarkTell(k)  PROVE j \in MarkRecord
  <2>1. j \in marks \/ j = [k EXCEPT !.step = "answer"]
    BY <1>5, Zenon DEF MarkTell
  <2>. QED  BY <2>1, <1>0, MarkAnswers, Zenon
<1>6. ASSUME NEW k \in marks, MarkAnswer(k)  PROVE j \in MarkRecord
  BY <1>6, <1>0 DEF MarkAnswer
<1>7. CASE UNCHANGED marks
  BY <1>7, <1>0
<1>. QED  BY <1>1, <1>2, <1>3, <1>4, <1>5, <1>6, <1>7, MarkSteps

\* The events.
LEMMA PlainIs ==
    ASSUME NEW kind \in {"new", "status", "update", "sync"}, NEW h \in Chat \cup {NoChat}
    PROVE  LET e == Plain(kind, h)
           IN  /\ e \in EventRecord /\ e.kind = kind /\ e.chat = h /\ e.msg = 0 /\ e.n = 0
               /\ e.count = 0 /\ e.seen = 0
BY DEF Plain, EventRecord

\* message:new tells its row.
LEMMA NewIs ==
    ASSUME LogTypes, NEW m \in 1..Len(log)
    PROVE  /\ New(m) \in EventRecord /\ New(m).kind = "new" /\ New(m).chat = log[m].chat
           /\ New(m).msg = m /\ New(m).n = log[m].n /\ New(m).chat \in Chat
           /\ EventTyped(New(m), log)
<1>1. log[m].chat \in Chat /\ log[m].n \in Nat /\ m \in Nat
  BY LogRow
<1>. DEFINE e == Plain("new", log[m].chat)
<1>2. e \in EventRecord /\ e.kind = "new" /\ e.chat = log[m].chat
  BY <1>1, PlainIs
<1>3. New(m) = [e EXCEPT !.msg = m, !.n = log[m].n]
  BY DEF New
<1>. HIDE DEF e
<1>. QED  BY <1>1, <1>2, <1>3 DEF EventRecord, EventTyped

\* chat:update tells what the mark read.
LEMMA UpdateIs ==
    ASSUME NEW k \in MarkRecord
    PROVE  /\ Update(k) \in EventRecord /\ Update(k).kind = "update" /\ Update(k).chat = k.chat
           /\ Update(k).n = k.n /\ Update(k).count = k.count /\ Update(k).seen = k.seen
           /\ Update(k).msg = 0 /\ Update(k).chat \in Chat /\ EventTyped(Update(k), log)
<1>1. k.chat \in Chat /\ k.n \in Nat /\ k.count \in Nat /\ k.seen \in Nat
  BY DEF MarkRecord
<1>. DEFINE e == Plain("update", k.chat)
<1>2. e \in EventRecord /\ e.kind = "update" /\ e.chat = k.chat /\ e.msg = 0
  BY <1>1, PlainIs
<1>3. Update(k) = [e EXCEPT !.n = k.n, !.count = k.count, !.seen = k.seen]
  BY DEF Update
<1>. HIDE DEF e
<1>. QED  BY <1>1, <1>2, <1>3 DEF EventRecord, EventTyped

\* An event stays true to the log.
LEMMA EventStays ==
    ASSUME LogTypes, [InboxNext]_inboxVars, NEW e, EventTyped(e, log)
    PROVE  EventTyped(e, log')
BY LogNext DEF EventTyped

LEMMA WireHas ==
    ASSUME WireTypes, NEW e \in ToSet(wire)
    PROVE  e \in EventRecord /\ EventTyped(e, log)
<1>1. PICK j \in DOMAIN wire : e = wire[j]
  BY DEF ToSet
<1>2. j \in 1..Len(wire)
  BY LenProperties DEF WireTypes
<1>. QED  BY <1>1, <1>2, ElementOfSeq DEF WireTypes

\* What is published is one of these; the wire grows by it, is emptied or loses its head.
LEMMA WireChanges ==
    ASSUME LogTypes, MarkTypes, [InboxNext]_inboxVars
    PROVE  \/ wire' = wire /\ UNCHANGED online
           \/ /\ online /\ UNCHANGED online
              /\ \/ \E m \in 1..Len(log) : (Announce(m) \/ Repeat(m)) /\ wire' = Append(wire, New(m))
                 \/ \E h \in Chat : Status(h) /\ wire' = Append(wire, Plain("status", h))
                 \/ SyncCompleted /\ wire' = Append(wire, Plain("sync", NoChat))
                 \/ \E k \in marks : MarkTell(k) /\ wire' = Append(wire, Update(k))
           \/ Drop /\ wire' = <<>> /\ online' = FALSE
           \/ ConnectWS /\ wire' = wire /\ online' = TRUE
           \/ wire # <<>> /\ wire' = Tail(wire) /\ UNCHANGED online
<1>. USE DEF Publish
<1>1. ASSUME NEW m \in due, Announce(m)
      PROVE  m \in 1..Len(log) /\ UNCHANGED online
             /\ (IF online THEN wire' = Append(wire, New(m)) ELSE wire' = wire)
  <2>1. m \in 1..Len(log)
    BY DEF LogTypes
  <2>. QED  BY <2>1, <1>1 DEF Announce
<1>2. \A m : Repeat(m) => UNCHANGED online
             /\ (IF online THEN wire' = Append(wire, New(m)) ELSE wire' = wire)
  BY DEF Repeat
<1>3. \A h : Status(h) => UNCHANGED online
             /\ (IF online THEN wire' = Append(wire, Plain("status", h)) ELSE wire' = wire)
  BY DEF Status
<1>4. SyncCompleted => UNCHANGED online
             /\ (IF online THEN wire' = Append(wire, Plain("sync", NoChat)) ELSE wire' = wire)
  BY DEF SyncCompleted
<1>5. \A k : MarkTell(k) => UNCHANGED online
             /\ (IF online THEN wire' = Append(wire, Update(k)) ELSE wire' = wire)
  BY Zenon DEF MarkTell
<1>6. Socket => \/ Drop /\ wire' = <<>> /\ online' = FALSE
                \/ ConnectWS /\ wire' = wire /\ online' = TRUE
                \/ wire # <<>> /\ wire' = Tail(wire) /\ UNCHANGED online
  BY DEF Socket, Drop, ConnectWS, HearNew, HearStatus, HearUpdate, HearSync, Heard
<1>. QED  BY <1>1, <1>2, <1>3, <1>4, <1>5, <1>6, WireSteps

\* The wire stays typed.
LEMMA WireNext ==
    LogTypes /\ ChosenTypes /\ MarkTypes /\ WireTypes /\ [InboxNext]_inboxVars => WireTypes'
<1>. SUFFICES ASSUME LogTypes, ChosenTypes, MarkTypes, WireTypes, [InboxNext]_inboxVars
              PROVE  WireTypes'
  OBVIOUS
<1>1. ASSUME NEW e \in EventRecord, EventTyped(e, log), online, UNCHANGED online, wire' = Append(wire, e)
      PROVE  WireTypes'
  <2>1. wire' \in Seq(EventRecord) /\ Len(wire') = Len(wire) + 1 /\ Len(wire) \in Nat
        /\ \A j \in 1..Len(wire) : wire'[j] = wire[j]
        /\ wire'[Len(wire) + 1] = e
    BY <1>1 DEF WireTypes
  <2>2. ASSUME NEW j \in 1..Len(wire')  PROVE EventTyped(wire'[j], log')
    <3>1. EventTyped(wire'[j], log)
      BY <2>1, <1>1 DEF WireTypes
    <3>. QED  BY <3>1, EventStays
  <2>. QED  BY <2>1, <2>2, <1>1 DEF WireTypes
<1>2. ASSUME wire # <<>>, wire' = Tail(wire), UNCHANGED online
      PROVE  WireTypes'
  <2>1. wire' \in Seq(EventRecord) /\ Len(wire') = Len(wire) - 1 /\ Len(wire) \in Nat
        /\ \A j \in 1..Len(wire') : wire'[j] = wire[j + 1]
    BY <1>2, HeadTailProperties DEF WireTypes
  <2>2. ASSUME NEW j \in 1..Len(wire')  PROVE EventTyped(wire'[j], log')
    <3>1. EventTyped(wire'[j], log)
      BY <2>1 DEF WireTypes
    <3>. QED  BY <3>1, EventStays
  <2>. QED  BY <2>1, <2>2, <1>2 DEF WireTypes
<1>3. ASSUME wire' = wire, online' \in BOOLEAN  PROVE WireTypes'
  <2>2. ASSUME NEW j \in 1..Len(wire')  PROVE EventTyped(wire'[j], log')
    <3>1. EventTyped(wire'[j], log)
      BY <1>3 DEF WireTypes
    <3>. QED  BY <3>1, EventStays
  <2>. QED  BY <2>2, <1>3 DEF WireTypes
<1>4. ASSUME wire' = <<>>, online' = FALSE  PROVE WireTypes'
  <2>1. wire' \in Seq(EventRecord) /\ Len(wire') = 0
    BY <1>4
  <2>2. \A j \in 1..Len(wire') : EventTyped(wire'[j], log')
    BY <2>1
  <2>3. online' \in BOOLEAN
    BY <1>4
  <2>. QED  BY <2>1, <2>2, <2>3 DEF WireTypes
<1>5. \A m \in 1..Len(log) : New(m) \in EventRecord /\ EventTyped(New(m), log)
  BY NewIs
<1>6. \A h \in Chat : Plain("status", h) \in EventRecord /\ EventTyped(Plain("status", h), log)
  BY PlainIs DEF EventTyped
<1>7. Plain("sync", NoChat) \in EventRecord /\ EventTyped(Plain("sync", NoChat), log)
  BY PlainIs DEF EventTyped
<1>8. \A k \in marks : Update(k) \in EventRecord /\ EventTyped(Update(k), log)
  BY UpdateIs DEF MarkTypes
<1>9. online \in BOOLEAN
  BY DEF WireTypes
<1>. QED  BY <1>1, <1>2, <1>3, <1>4, <1>5, <1>6, <1>7, <1>8, <1>9, WireChanges

-----------------------------------------------------------------------------
(* The pane and its loads, when the log has n messages.                    *)

Foot == {"none", "end", "more", "phone"}
PaneRecord(n) == [held : Seq(1..n), next : 0..n, more : BOOLEAN, over : BOOLEAN,
                  screen : Seq(1..n), foot : Foot]
LoadRecord(n) == [chat : Chat, silent : BOOLEAN, cursor : 0..n, again : BOOLEAN, since : Nat,
                  step : {"asked", "served", "limited", "failed"}, rows : Seq(1..n),
                  more : BOOLEAN, stale : BOOLEAN]

\* What an answer brings are messages of its chat.
LoadTyped(load, rows) ==
    /\ load \in LoadRecord(Len(rows))
    /\ \A k \in 1..Len(load.rows) : rows[load.rows[k]].chat = load.chat
    /\ load.more => load.step = "served" /\ load.rows # <<>>

PaneTypes == /\ pane \in PaneRecord(Len(log)) /\ marred \in BOOLEAN
             /\ loads \in Seq(LoadRecord(Len(log)))
             /\ \A i \in 1..Len(loads) : LoadTyped(loads[i], log)

\* What each helper of the pane makes of it.
LEMMA RenderedIs ==
    ASSUME NEW n \in Nat, NEW p \in PaneRecord(n)
    PROVE  LET q == Rendered(p)
           IN  /\ q \in PaneRecord(n) /\ q.held = p.held /\ q.next = p.next /\ q.more = p.more
               /\ q.over = p.over /\ q.screen = p.held
               /\ q.foot = IF p.held = <<>> THEN "none"
                           ELSE IF p.over THEN "end" ELSE IF p.more THEN "more" ELSE "phone"
BY DEF Rendered, PaneRecord, Foot

LEMMA BlankIs ==
    ASSUME NEW n \in Nat, NEW p \in PaneRecord(n)
    PROVE  LET q == Blank(p)
           IN  /\ q \in PaneRecord(n) /\ q.held = p.held /\ q.next = p.next /\ q.more = p.more
               /\ q.over = p.over /\ q.screen = <<>> /\ q.foot = "none"
<1>1. ASSUME NEW e \in Seq(1..n), NEW q, q = [p EXCEPT !.screen = e, !.foot = "none"]
      PROVE  /\ q \in PaneRecord(n) /\ q.held = p.held /\ q.next = p.next /\ q.more = p.more
             /\ q.over = p.over /\ q.screen = e /\ q.foot = "none"
  BY <1>1 DEF PaneRecord, Foot
<1>2. <<>> \in Seq(1..n) /\ Blank(p) = [p EXCEPT !.screen = <<>>, !.foot = "none"]
  BY DEF Blank
<1>. QED  BY <1>1, <1>2, Zenon

\* A load of the newest page forgets what was held,
LEMMA EmptiedIs ==
    ASSUME NEW n \in Nat, NEW p \in PaneRecord(n), NEW load
    PROVE  LET q == Emptied(p, load)
           IN  /\ q \in PaneRecord(n)
               /\ load.cursor # 0 => q = p
               /\ load.cursor = 0 => /\ q.held = <<>> /\ q.next = 0 /\ ~q.more /\ ~q.over
                                     /\ q.screen = IF load.silent THEN p.screen ELSE <<>>
<1>. DEFINE q == [p EXCEPT !.held = <<>>, !.next = 0, !.more = FALSE, !.over = FALSE]
<1>1. ASSUME NEW e \in Seq(1..n), NEW r,
             r = [p EXCEPT !.held = e, !.next = 0, !.more = FALSE, !.over = FALSE]
      PROVE  /\ r \in PaneRecord(n) /\ r.held = e /\ r.next = 0 /\ ~r.more /\ ~r.over
             /\ r.screen = p.screen
  <2>. HIDE DEF q
  <2>1. r \in PaneRecord(n)
    <3>1. 0 \in 0..n /\ p.screen \in Seq(1..n) /\ p.foot \in Foot
      BY DEF PaneRecord
    <3>2. r = [held |-> e, next |-> 0, more |-> FALSE, over |-> FALSE, screen |-> p.screen,
               foot |-> p.foot]
      BY <1>1 DEF PaneRecord
    <3>. QED  BY <3>1, <3>2 DEF PaneRecord
  <2>2. r.held = e /\ r.next = 0 /\ r.more = FALSE /\ r.over = FALSE /\ r.screen = p.screen
    BY <1>1 DEF PaneRecord
  <2>. QED  BY <2>1, <2>2, Zenon
<1>2. <<>> \in Seq(1..n)
  OBVIOUS
<1>3. /\ q \in PaneRecord(n) /\ q.held = <<>> /\ q.next = 0 /\ ~q.more /\ ~q.over
      /\ q.screen = p.screen
  BY <1>1, <1>2, Zenon
<1>4. Emptied(p, load) = IF load.cursor # 0 THEN p ELSE IF load.silent THEN q ELSE Blank(q)
  BY Zenon DEF Emptied
<1>. HIDE DEF q
<1>5. /\ Blank(q) \in PaneRecord(n) /\ Blank(q).held = q.held /\ Blank(q).next = q.next
      /\ Blank(q).more = q.more /\ Blank(q).over = q.over /\ Blank(q).screen = <<>>
  BY <1>3, BlankIs
<1>. QED  BY <1>3, <1>4, <1>5

\* an answer replaces it or adds to it,
LEMMA TakenIs ==
    ASSUME NEW n \in Nat, NEW p \in PaneRecord(n), NEW load \in LoadRecord(n),
           load.more => load.rows # <<>>
    PROVE  LET q == Taken(p, load)
           IN  /\ q \in PaneRecord(n)
               /\ q.held = IF load.cursor = 0 THEN load.rows ELSE p.held \o load.rows
               /\ q.screen = q.held /\ q.next = Cursor(load) /\ q.more = load.more /\ q.over = p.over
               /\ q.foot = IF q.held = <<>> THEN "none"
                           ELSE IF q.over THEN "end" ELSE IF q.more THEN "more" ELSE "phone"
<1>. DEFINE h == IF load.cursor = 0 THEN load.rows ELSE p.held \o load.rows
            r == [p EXCEPT !.held = h, !.next = Cursor(load), !.more = load.more]
<1>1. load.rows \in Seq(1..n) /\ load.more \in BOOLEAN /\ p.held \in Seq(1..n)
  BY DEF LoadRecord, PaneRecord
<1>2. h \in Seq(1..n)
  BY <1>1, ConcatProperties
<1>3. Cursor(load) \in 0..n
  <2>1. load.more => load.rows[Len(load.rows)] \in 1..n
    BY <1>1, EmptySeq, ElementOfSeq
  <2>. QED  BY <2>1 DEF Cursor
<1>. HIDE DEF h
<1>4. r \in PaneRecord(n) /\ r.held = h /\ r.next = Cursor(load) /\ r.more = load.more
      /\ r.over = p.over
  BY <1>1, <1>2, <1>3 DEF PaneRecord
<1>5. Taken(p, load) = Rendered(r)
  BY DEF Taken, h
<1>. HIDE DEF r
<1>. QED  BY <1>4, <1>5, RenderedIs DEF h

\* and sync:completed may end it.
LEMMA ContinuedIs ==
    ASSUME NEW n \in Nat, NEW p \in PaneRecord(n), NEW load
    PROVE  LET q == Continued(p, load)
           IN  /\ q \in PaneRecord(n) /\ q.held = p.held /\ q.next = p.next /\ q.more = p.more
               /\ \/ q = p
                  \/ q.screen = p.held /\ q.foot = IF p.held = <<>> THEN "none" ELSE "end"
<1>. DEFINE r == [p EXCEPT !.over = TRUE]
<1>1. r \in PaneRecord(n) /\ r.held = p.held /\ r.next = p.next /\ r.more = p.more /\ r.over = TRUE
  BY DEF PaneRecord
<1>2. Continued(p, load) = p \/ Continued(p, load) = Rendered(r)
  BY Zenon DEF Continued
<1>. HIDE DEF r
<1>. QED  BY <1>1, <1>2, RenderedIs

\* A load of chat h that is asked.
AskedLoad(load, h, silent, cursor) ==
    /\ load.chat = h /\ load.silent = silent /\ load.cursor = cursor
    /\ load.step = "asked" /\ ~load.more /\ ~load.stale /\ load.rows = <<>>

\* A request, an answer that is old news, and a load that is through.
LEMMA AskingIs ==
    ASSUME NEW n \in Nat, NEW h \in Chat, NEW silent \in BOOLEAN, NEW c \in 0..n
    PROVE  /\ Asking(h, silent, c) \in LoadRecord(n)
           /\ AskedLoad(Asking(h, silent, c), h, silent, c)
           /\ Asking(h, silent, c).since = 0 /\ ~Asking(h, silent, c).again
<1>1. <<>> \in Seq(1..n)
  OBVIOUS
<1>2. ASSUME NEW e \in Seq(1..n),
             NEW load, load = [chat |-> h, silent |-> silent, cursor |-> c, again |-> FALSE, since |-> 0,
                               step |-> "asked", rows |-> e, more |-> FALSE, stale |-> FALSE]
      PROVE  load \in LoadRecord(n)
  BY <1>2 DEF LoadRecord
<1>3. Asking(h, silent, c) \in LoadRecord(n)
  BY <1>1, <1>2, Zenon DEF Asking
<1>. QED  BY <1>3 DEF Asking, AskedLoad

\* Load x is load y, perhaps old news by now.
Same(x, y) ==
    /\ x.chat = y.chat /\ x.silent = y.silent /\ x.cursor = y.cursor /\ x.again = y.again
    /\ x.since = y.since /\ x.step = y.step /\ x.rows = y.rows /\ x.more = y.more
    /\ y.stale => x.stale

LEMMA StaledIs ==
    ASSUME NEW n \in Nat, NEW load \in LoadRecord(n), NEW s, s = [load EXCEPT !.stale = TRUE]
    PROVE  s \in LoadRecord(n) /\ Same(s, load) /\ s.stale
<1>1. s \in LoadRecord(n) /\ s.stale = TRUE
  BY DEF LoadRecord
<1>2. /\ s.chat = load.chat /\ s.silent = load.silent
      /\ s.cursor = load.cursor /\ s.again = load.again /\ s.since = load.since
      /\ s.step = load.step /\ s.rows = load.rows /\ s.more = load.more
  BY DEF LoadRecord
<1>. QED  BY <1>1, <1>2, Zenon DEF Same

\* The place of load k before load i was through.
Was(k, i) == IF k < i THEN k ELSE k + 1

LEMMA SettledIs ==
    ASSUME NEW n \in Nat, loads \in Seq(LoadRecord(n)), NEW i \in 1..Len(loads)
    PROVE  /\ Settled(i) \in Seq(LoadRecord(n)) /\ Len(Settled(i)) = Len(loads) - 1
           /\ \A k \in 1..(Len(loads) - 1) :
                 /\ Was(k, i) \in 1..Len(loads) /\ Same(Settled(i)[k], loads[Was(k, i)])
                 /\ k < i /\ loads[k].chat = loads[i].chat => Settled(i)[k].stale
<1>. DEFINE f == [k \in DOMAIN loads |->
                    IF k < i /\ loads[k].chat = loads[i].chat
                    THEN [loads[k] EXCEPT !.stale = TRUE] ELSE loads[k]]
<1>1. Len(loads) \in Nat /\ DOMAIN loads = 1..Len(loads)
  BY LenProperties
<1>2. \A k \in 1..Len(loads) : loads[k] \in LoadRecord(n)
  BY ElementOfSeq
<1>3. ASSUME NEW k \in 1..Len(loads)
      PROVE  /\ f[k] \in LoadRecord(n) /\ Same(f[k], loads[k])
             /\ k < i /\ loads[k].chat = loads[i].chat => f[k].stale
  <2>1. CASE k < i /\ loads[k].chat = loads[i].chat
    <3>1. f[k] = [loads[k] EXCEPT !.stale = TRUE]
      BY <2>1, <1>1
    <3>. HIDE DEF f
    <3>. QED  BY <3>1, <1>2, StaledIs, Zenon
  <2>2. CASE ~(k < i /\ loads[k].chat = loads[i].chat)
    <3>1. f[k] = loads[k]
      BY <2>2, <1>1
    <3>. HIDE DEF f
    <3>. QED  BY <3>1, <2>2, <1>2 DEF Same
  <2>. QED  BY <2>1, <2>2
<1>4. f = [k \in 1..Len(loads) |-> f[k]]
  BY <1>1
<1>5. Settled(i) = RemoveAt(f, i)
  BY DEF Settled
<1>. HIDE DEF f
<1>6. f \in Seq(LoadRecord(n)) /\ Len(f) = Len(loads)
  <2>1. \A k \in 1..Len(loads) : f[k] \in LoadRecord(n)
    BY <1>3, Zenon
  <2>. QED  BY <1>1, <2>1, <1>4
<1>7. /\ RemoveAt(f, i) \in Seq(LoadRecord(n)) /\ Len(RemoveAt(f, i)) = Len(loads) - 1
      /\ \A k \in 1..(Len(loads) - 1) : RemoveAt(f, i)[k] = IF k < i THEN f[k] ELSE f[k + 1]
  BY <1>6, Removed
<1>8. ASSUME NEW k \in 1..(Len(loads) - 1)
      PROVE  /\ Was(k, i) \in 1..Len(loads) /\ Settled(i)[k] = f[Was(k, i)]
             /\ k < i => Was(k, i) = k
  BY <1>5, <1>7, <1>1 DEF Was
<1>9. ASSUME NEW k \in 1..(Len(loads) - 1)
      PROVE  /\ Was(k, i) \in 1..Len(loads) /\ Same(Settled(i)[k], loads[Was(k, i)])
             /\ k < i /\ loads[k].chat = loads[i].chat => Settled(i)[k].stale
  <2>1. Was(k, i) \in 1..Len(loads) /\ Same(Settled(i)[k], loads[Was(k, i)])
    BY <1>8, <1>3, Zenon
  <2>2. ASSUME k < i, loads[k].chat = loads[i].chat  PROVE Settled(i)[k].stale
    BY <1>8, <1>3, <2>2, Zenon
  <2>. QED  BY <2>1, <2>2
<1>. QED  BY <1>5, <1>7, <1>9

-----------------------------------------------------------------------------
(* How the pane and its loads change.                                      *)

\* The steps that touch the pane.
LEMMA PaneSteps ==
    [InboxNext]_inboxVars =>
        \/ \E i \in DOMAIN loads : LoadServe(i) \/ LoadAnswer(i) \/ LoadFails(i) \/ LoadLimited(i)
        \/ LoadMore \/ InboxReady
        \/ \E h \in Chat : SelectChat(h)
        \/ \E i \in DOMAIN choosing : Assignees(i)
        \/ \E m \in due : Announce(m)
        \/ \E m \in 1..Len(log) : Repeat(m)
        \/ \E h \in Chat : Status(h)
        \/ SyncCompleted
        \/ \E k \in marks : MarkTell(k)
        \/ Drop
        \/ \E e \in ToSet(wire) : HearNew(e) \/ HearStatus(e) \/ HearUpdate(e) \/ HearSync(e)
        \/ UNCHANGED <<pane, loads, marred>>
<1>. DEFINE Due ==
        \/ \E i \in DOMAIN loads : LoadServe(i) \/ LoadAnswer(i) \/ LoadFails(i) \/ LoadLimited(i)
        \/ LoadMore \/ InboxReady
        \/ \E h \in Chat : SelectChat(h)
        \/ \E i \in DOMAIN choosing : Assignees(i)
        \/ \E m \in due : Announce(m)
        \/ \E m \in 1..Len(log) : Repeat(m)
        \/ \E h \in Chat : Status(h)
        \/ SyncCompleted
        \/ \E k \in marks : MarkTell(k)
        \/ Drop
        \/ \E e \in ToSet(wire) : HearNew(e) \/ HearStatus(e) \/ HearUpdate(e) \/ HearSync(e)
        \/ UNCHANGED <<pane, loads, marred>>
<1>. SUFFICES [InboxNext]_inboxVars => Due
  OBVIOUS
<1>1. Loading => Due
  BY DEF Loading
<1>2. Listing => Due
  BY ListingFrame DEF paneVars
<1>3. User => Due
  BY DEF User, ChooseInbox, Mark, Attach, Submit, Uploaded, UploadFails, Posted, paneVars
<1>4. Server => Due
  BY DEF Server, Arrive, MarkClear, MarkFetch, MarkAnswer, paneVars
<1>5. Socket => Due
  BY DEF Socket, ConnectWS, paneVars
<1>6. UNCHANGED inboxVars => Due
  BY DEF inboxVars, paneVars
<1>. QED  BY <1>1, <1>2, <1>3, <1>4, <1>5, <1>6 DEF InboxNext

\* Loads that are old news by an event that was lost.
Olds == /\ pane' = pane /\ (marred => marred') /\ marred' \in BOOLEAN
        /\ Len(loads') = Len(loads) /\ loads' \in Seq(LoadRecord(Len(log)))
        /\ \A k \in 1..Len(loads) : Same(loads'[k], loads[k])

\* A load of a chat is asked when chat open is open.
Asks(open, h, silent, cursor) ==
    \E load \in LoadRecord(Len(log)) : AskedLoad(load, h, silent, cursor) /\ Load(open, load)

LEMMA OldsSame ==
    ASSUME PaneTypes, ServerTypes, UNCHANGED <<pane, loads, marred>>
    PROVE  Olds
<1>1. \A k \in 1..Len(loads) : Same(loads'[k], loads[k])
  BY Zenon DEF Same
<1>. QED  BY <1>1, Zenon DEF Olds, PaneTypes

\* The loads of which the served ones may be old news.
LEMMA OldsSome ==
    ASSUME PaneTypes, ServerTypes, NEW C, pane' = pane, marred => marred', marred' \in BOOLEAN,
           loads' = [k \in DOMAIN loads |->
                       IF loads[k].chat \in C /\ loads[k].step = "served"
                       THEN [loads[k] EXCEPT !.stale = TRUE] ELSE loads[k]]
    PROVE  /\ Olds
           /\ \A k \in 1..Len(loads) :
                 loads[k].chat \in C /\ loads[k].step = "served" => loads'[k].stale
<1>. DEFINE n == Len(log)
<1>1. /\ Len(loads) \in Nat /\ DOMAIN loads = 1..Len(loads) /\ loads \in Seq(LoadRecord(n))
      /\ \A k \in 1..Len(loads) : loads[k] \in LoadRecord(n)
  BY LenProperties, ElementOfSeq DEF PaneTypes
<1>2. n \in Nat
  BY LenProperties DEF ServerTypes, LogTypes
<1>3. ASSUME NEW k \in 1..Len(loads)
      PROVE  /\ loads'[k] \in LoadRecord(n) /\ Same(loads'[k], loads[k])
             /\ loads[k].chat \in C /\ loads[k].step = "served" => loads'[k].stale
  <2>1. CASE loads[k].chat \in C /\ loads[k].step = "served"
    <3>1. loads'[k] = [loads[k] EXCEPT !.stale = TRUE]
      BY <2>1, <1>1, Zenon
    <3>. QED  BY <3>1, <1>1, <1>2, StaledIs, Zenon
  <2>2. CASE ~(loads[k].chat \in C /\ loads[k].step = "served")
    <3>1. loads'[k] = loads[k]
      BY <2>2, <1>1, Zenon
    <3>. QED  BY <3>1, <2>2, <1>1, Zenon DEF Same
  <2>. QED  BY <2>1, <2>2
<1>4. loads' = [k \in 1..Len(loads) |-> loads'[k]]
  BY <1>1
<1>5. loads' \in Seq(LoadRecord(n)) /\ Len(loads') = Len(loads)
  BY <1>1, <1>3, <1>4
<1>. QED  BY <1>3, <1>5 DEF Olds

\* A lost event of a chat stales its answers, and mars the open pane.
LEMMA PublishPane ==
    ASSUME PaneTypes, ServerTypes, NEW e, Publish(e)
    PROVE  /\ Olds
           /\ ~online /\ e.kind # "sync" =>
                 /\ e.chat = active => marred'
                 /\ \A k \in 1..Len(loads) :
                       loads[k].chat = e.chat /\ loads[k].step = "served" => loads'[k].stale
           /\ online => UNCHANGED <<pane, loads, marred>>
<1>1. CASE UNCHANGED <<loads, marred>> /\ (online \/ e.kind = "sync")
  BY <1>1, OldsSame DEF Publish
<1>2. CASE ~online /\ e.kind # "sync" /\ Missed(e.chat)
  <2>1. /\ loads' = [k \in DOMAIN loads |->
                    IF loads[k].chat \in {e.chat} /\ loads[k].step = "served"
                    THEN [loads[k] EXCEPT !.stale = TRUE] ELSE loads[k]]
        /\ pane' = pane
    BY <1>2, Zenon DEF Missed, Publish
  <2>2. marred' = (marred \/ e.chat = active)
    BY <1>2, Zenon DEF Missed
  <2>3. marred' \in BOOLEAN /\ (marred => marred') /\ (e.chat = active => marred')
    BY <2>2, Zenon
  <2>. QED  BY <1>2, <2>1, <2>3, OldsSome, Zenon
<1>. QED  BY <1>1, <1>2 DEF Publish

\* So does a dropped socket.
LEMMA DropPane ==
    ASSUME PaneTypes, ServerTypes, Drop
    PROVE  /\ Olds
           /\ \A h \in Chat : (\E j \in DOMAIN wire : wire[j].chat = h /\ wire[j].kind # "sync") =>
                 /\ h = active => marred'
                 /\ \A k \in 1..Len(loads) :
                       loads[k].chat = h /\ loads[k].step = "served" => loads'[k].stale
<1>. DEFINE gone(h) == {j \in DOMAIN wire : wire[j].chat = h /\ wire[j].kind # "sync"}
            C == {h \in Chat : gone(h) # {}}
<1>1. /\ loads' = [k \in DOMAIN loads |->
                    IF gone(loads[k].chat) # {} /\ loads[k].step = "served"
                    THEN [loads[k] EXCEPT !.stale = TRUE] ELSE loads[k]]
      /\ pane' = pane
      /\ marred' = (marred \/ (active # NoChat /\ gone(active) # {}))
  BY Zenon DEF Drop
<1>2. \A k \in DOMAIN loads : loads[k].chat \in Chat
  <2>1. DOMAIN loads = 1..Len(loads) /\ \A k \in 1..Len(loads) : loads[k] \in LoadRecord(Len(log))
    BY LenProperties, ElementOfSeq DEF PaneTypes
  <2>. QED  BY <2>1 DEF LoadRecord
<1>3. loads' = [k \in DOMAIN loads |->
                    IF loads[k].chat \in C /\ loads[k].step = "served"
                    THEN [loads[k] EXCEPT !.stale = TRUE] ELSE loads[k]]
  BY <1>1, <1>2, Zenon
<1>4. marred' \in BOOLEAN /\ (marred => marred') /\ \A h \in C : h = active => marred'
  <2>1. NoChat \notin Chat
    BY InboxTypes
  <2>. QED  BY <1>1, <2>1, Zenon
<1>5. \A h \in Chat : (\E j \in DOMAIN wire : wire[j].chat = h /\ wire[j].kind # "sync") => h \in C
  OBVIOUS
<1>. HIDE DEF C
<1>6. /\ Olds
      /\ \A k \in 1..Len(loads) : loads[k].chat \in C /\ loads[k].step = "served" => loads'[k].stale
  BY <1>1, <1>3, <1>4, OldsSome, Zenon
<1>. QED  BY <1>4, <1>5, <1>6, Zenon

LEMMA OldestIs ==
    ASSUME NEW n \in Nat, NEW p \in PaneRecord(n)
    PROVE  Oldest(p) \in 0..n /\ (p.held # <<>> => Oldest(p) = p.held[Len(p.held)])
<1>1. p.held \in Seq(1..n)
  BY DEF PaneRecord
<1>2. p.held # <<>> => Len(p.held) \in 1..Len(p.held)
  BY <1>1, EmptySeq
<1>3. p.held # <<>> => p.held[Len(p.held)] \in 1..n
  BY <1>1, <1>2, ElementOfSeq
<1>. QED  BY <1>3 DEF Oldest

\* Which loads the user and the events ask for.
LEMMA Asked ==
    ASSUME PaneTypes, ServerTypes
    PROVE  /\ LoadMore => NoLoad \/ (Asks(active, active, TRUE, pane.next) /\ pane.next # 0)
           /\ InboxReady => NoLoad \/ (active # NoChat /\ Asks(active, active, FALSE, 0))
           /\ \A h \in Chat : SelectChat(h) =>
                 IF admin THEN NoLoad /\ choosing' = Append(choosing, h)
                 ELSE Asks(h, h, FALSE, 0) /\ choosing' = choosing
           /\ \A i \in DOMAIN choosing : Assignees(i) =>
                 choosing[i] \in Chat /\ Asks(active, choosing[i], FALSE, 0)
           /\ \A h \in Chat : Reload(h) => IF h = active THEN Asks(h, h, TRUE, 0) ELSE NoLoad
           /\ \A e : HearSync(e) => IF active # NoChat THEN Asks(active, active, TRUE, 0) ELSE NoLoad
<1>. DEFINE n == Len(log)
<1>1. n \in Nat /\ pane \in PaneRecord(n) /\ 0 \in 0..n /\ pane.next \in 0..n
  <2>1. n \in Nat
    BY LenProperties DEF ServerTypes, LogTypes
  <2>. QED  BY <2>1 DEF PaneTypes, PaneRecord
<1>2. active # NoChat => active \in Chat
  BY DEF ServerTypes, ChosenTypes
<1>3. \A open : \A h \in Chat, silent \in BOOLEAN, c \in 0..n :
         Load(open, Asking(h, silent, c)) => Asks(open, h, silent, c)
  BY <1>1, AskingIs, Zenon DEF Asks
<1>4. LoadMore => NoLoad \/ (Asks(active, active, TRUE, pane.next) /\ pane.next # 0)
  BY <1>1, <1>2, <1>3, Zenon DEF LoadMore
<1>5. InboxReady => NoLoad \/ (active # NoChat /\ Asks(active, active, FALSE, 0))
  BY <1>1, <1>2, <1>3, Zenon DEF InboxReady
<1>6. ASSUME NEW h \in Chat, SelectChat(h)
      PROVE  IF admin THEN NoLoad /\ choosing' = Append(choosing, h)
             ELSE Asks(h, h, FALSE, 0) /\ choosing' = choosing
  BY <1>1, <1>3, <1>6, Zenon DEF SelectChat
<1>7. ASSUME NEW i \in DOMAIN choosing, Assignees(i)
      PROVE  choosing[i] \in Chat /\ Asks(active, choosing[i], FALSE, 0)
  <2>1. choosing[i] \in Chat
    BY LenProperties, ElementOfSeq DEF ServerTypes, ChosenTypes
  <2>. QED  BY <2>1, <1>1, <1>3, <1>7, Zenon DEF Assignees
<1>8. ASSUME NEW h \in Chat, Reload(h)
      PROVE  IF h = active THEN Asks(h, h, TRUE, 0) ELSE NoLoad
  BY <1>1, <1>3, <1>8, Zenon DEF Reload
<1>9. ASSUME NEW e, HearSync(e)
      PROVE  IF active # NoChat THEN Asks(active, active, TRUE, 0) ELSE NoLoad
  <2>1. Oldest(pane) \in Nat
    BY <1>1, OldestIs
  <2>2. CASE active = NoChat
    BY <2>2, <1>9, Zenon DEF HearSync
  <2>3. CASE active # NoChat
    <3>. DEFINE a == Asking(active, TRUE, 0)
                s == Oldest(pane)
                load == [a EXCEPT !.since = s]
    <3>1. Load(active, load)
      BY <2>3, <1>9, Zenon DEF HearSync
    <3>2. a \in LoadRecord(n) /\ AskedLoad(a, active, TRUE, 0)
      BY <2>3, <1>1, <1>2, AskingIs
    <3>. HIDE DEF a, s
    <3>4. load \in LoadRecord(n) /\ AskedLoad(load, active, TRUE, 0)
      <4>1. s \in Nat
        BY <2>1 DEF s
      <4>2. load \in LoadRecord(n)
        BY <3>2, <4>1 DEF LoadRecord
      <4>3. /\ load.chat = a.chat /\ load.silent = a.silent /\ load.cursor = a.cursor
            /\ load.step = a.step /\ load.more = a.more /\ load.stale = a.stale
            /\ load.rows = a.rows
        BY <3>2 DEF LoadRecord
      <4>. HIDE DEF load
      <4>. QED  BY <3>2, <4>2, <4>3, Zenon DEF AskedLoad
    <3>. HIDE DEF load
    <3>3. Asks(active, active, TRUE, 0)
      BY <3>1, <3>4, Zenon DEF Asks
    <3>. QED  BY <3>3, <2>3
  <2>. QED  BY <2>2, <2>3
<1>. QED  BY <1>4, <1>5, <1>6, <1>7, <1>8, <1>9

\* The messages of a chat are finitely many numbers,
LEMMA OlderIs ==
    ASSUME LogTypes, NEW h, NEW c
    PROVE  /\ IsFiniteSet(Of(h)) /\ IsFiniteSet(Older(h, c)) /\ Older(h, c) \subseteq Of(h)
           /\ \A m \in Of(h) : m \in Nat /\ m \in 1..Len(log) /\ log[m].chat = h
<1>1. Len(log) \in Nat
  BY LenProperties DEF LogTypes
<1>2. IsFiniteSet(1..Len(log))
  BY <1>1, FS_Interval
<1>3. Of(h) \subseteq 1..Len(log) /\ Older(h, c) \subseteq 1..Len(log) /\ Older(h, c) \subseteq Of(h)
  BY DEF Of, Older
<1>4. IsFiniteSet(Of(h)) /\ IsFiniteSet(Older(h, c))
  BY <1>2, <1>3, FS_Subset
<1>. QED  BY <1>1, <1>3, <1>4 DEF Of

\* and a page of them is of the chat.
LEMMA RowsAre ==
    ASSUME LogTypes, NEW h, NEW c
    PROVE  /\ Rows(h, c) \in Seq(1..Len(log))
           /\ \A k \in 1..Len(Rows(h, c)) : log[Rows(h, c)[k]].chat = h
           /\ HasMore(h, c) \in BOOLEAN /\ (HasMore(h, c) => Rows(h, c) # <<>>)
<1>. DEFINE S == Older(h, c)
            r == Rows(h, c)
<1>1. IsFiniteSet(S) /\ \A m \in S : m \in Nat /\ m \in 1..Len(log) /\ log[m].chat = h
  BY OlderIs
<1>2. Page \in Nat \ {0}
  BY InboxTypes
<1>3. r = Top(S, Page)
  BY DEF Rows
<1>. HIDE DEF S, r
<1>4. r \in Seq(S) /\ Len(r) = IF Cardinality(S) < Page THEN Cardinality(S) ELSE Page
  BY <1>1, <1>2, <1>3, TopIs
<1>5. r \in Seq(1..Len(log))
  BY <1>1, <1>4, SeqMonotonic
<1>6. \A k \in 1..Len(r) : log[r[k]].chat = h
  BY <1>1, <1>4, ElementOfSeq
<1>7. Cardinality(S) > Page => r # <<>>
  <2>1. Cardinality(S) \in Nat
    BY <1>1, FS_CardinalityType
  <2>. QED  BY <1>2, <1>4, <2>1, EmptySeq
<1>. QED  BY <1>5, <1>6, <1>7 DEF HasMore, S, r

\* The pane changes by a step of a load, by asking one, or not.
LEMMA PaneChanges ==
    ASSUME PaneTypes, ServerTypes, [InboxNext]_inboxVars
    PROVE  \/ \E i \in 1..Len(loads) :
                 LoadServe(i) \/ LoadAnswer(i) \/ LoadFails(i) \/ LoadLimited(i)
           \/ \E h \in Chat, silent \in BOOLEAN, c \in 0..Len(log) : Asks(active', h, silent, c)
           \/ Olds
<1>. DEFINE Asking1 == \E h \in Chat, silent \in BOOLEAN, c \in 0..Len(log) :
                          Asks(active', h, silent, c)
<1>1. /\ Len(log) \in Nat /\ 0 \in 0..Len(log) /\ pane.next \in 0..Len(log)
      /\ active # NoChat => active \in Chat
      /\ DOMAIN loads = 1..Len(loads)
  BY LenProperties DEF ServerTypes, ChosenTypes, LogTypes, PaneTypes, PaneRecord
<1>2. \A open, h, silent, c :
         Asks(open, h, silent, c) /\ open = active' /\ h \in Chat /\ silent \in BOOLEAN /\ c \in 0..Len(log) => Asking1
  BY Zenon
<1>3. NoLoad => Olds
  BY OldsSame DEF NoLoad
<1>. HIDE DEF Asking1
<1>4. LoadMore => Asking1 \/ Olds
  <2>1. LoadMore => active # NoChat /\ active' = active
    BY Zenon DEF LoadMore
  <2>. QED  BY <1>1, <1>2, <1>3, <2>1, Asked, Zenon
<1>5. InboxReady => Asking1 \/ Olds
  <2>1. InboxReady => active' = active
    BY Zenon DEF InboxReady
  <2>. QED  BY <1>1, <1>2, <1>3, <2>1, Asked, Zenon
<1>6. \A h \in Chat : SelectChat(h) => Asking1 \/ Olds
  <2>1. \A h : SelectChat(h) => active' = h
    BY Zenon DEF SelectChat
  <2>. QED  BY <1>1, <1>2, <1>3, <2>1, Asked, Zenon
<1>7. \A i \in DOMAIN choosing : Assignees(i) => Asking1 \/ Olds
  <2>1. \A i : Assignees(i) => active' = active
    BY Zenon DEF Assignees
  <2>. QED  BY <1>1, <1>2, <1>3, <2>1, Asked, Zenon
<1>8. ASSUME NEW e \in ToSet(wire), HearNew(e) \/ HearStatus(e) \/ HearUpdate(e) \/ HearSync(e)
      PROVE  Asking1 \/ Olds
  <2>1. e.kind # "sync" => e.chat \in Chat
    BY WireHas DEF ServerTypes, EventTyped
  <2>0. active' = active
    BY <1>8, Zenon DEF HearNew, HearStatus, HearUpdate, HearSync, Heard
  <2>2. HearNew(e) => Reload(e.chat) /\ e.kind = "new"
    BY DEF HearNew
  <2>3. HearStatus(e) => Reload(e.chat) /\ e.kind = "status"
    BY DEF HearStatus
  <2>4. HearUpdate(e) => NoLoad
    BY DEF HearUpdate
  <2>5. e.kind # "sync" /\ Reload(e.chat) => Asking1 \/ Olds
    BY <2>0, <2>1, <1>1, <1>2, <1>3, Asked, Zenon
  <2>6. HearSync(e) => Asking1 \/ Olds
    BY <2>0, <1>1, <1>2, <1>3, Asked, Zenon
  <2>. QED  BY <1>3, <1>8, <2>2, <2>3, <2>4, <2>5, <2>6
<1>9. ASSUME NEW e, Publish(e)  PROVE Olds
  BY <1>9, PublishPane
<1>10. /\ \A m : Announce(m) \/ Repeat(m) => Publish(New(m))
       /\ \A h : Status(h) => Publish(Plain("status", h))
       /\ SyncCompleted => Publish(Plain("sync", NoChat))
  BY DEF Announce, Repeat, Status, SyncCompleted
<1>11. \A k : MarkTell(k) => Publish(Update(k))
  BY Zenon DEF MarkTell
<1>12. Drop => Olds
  BY DropPane
<1>13. UNCHANGED <<pane, loads, marred>> => Olds
  BY OldsSame
<1>14. (\E i \in DOMAIN loads : LoadServe(i) \/ LoadAnswer(i) \/ LoadFails(i) \/ LoadLimited(i))
         => \E i \in 1..Len(loads) : LoadServe(i) \/ LoadAnswer(i) \/ LoadFails(i) \/ LoadLimited(i)
  BY <1>1
<1>. QED
  BY <1>4, <1>5, <1>6, <1>7, <1>8, <1>9, <1>10, <1>11, <1>12, <1>13, <1>14, PaneSteps, Zenon
     DEF Asking1

\* What was typed by a shorter log is typed by a longer one.
LEMMA RecordsGrow ==
    ASSUME NEW n \in Nat, NEW m \in Nat, n <= m
    PROVE  PaneRecord(n) \subseteq PaneRecord(m) /\ LoadRecord(n) \subseteq LoadRecord(m)
<1>1. 1..n \subseteq 1..m /\ 0..n \subseteq 0..m
  OBVIOUS
<1>2. Seq(1..n) \subseteq Seq(1..m)
  BY <1>1, SeqMonotonic
<1>. QED  BY <1>1, <1>2 DEF PaneRecord, LoadRecord

\* What a load was typed as, it stays, when the log grows and when it becomes old news.
LEMMA LoadStays ==
    ASSUME LogTypes, [InboxNext]_inboxVars, NEW y, LoadTyped(y, log),
           NEW x \in LoadRecord(Len(log')), Same(x, y)
    PROVE  LoadTyped(x, log')
<1>1. \A k \in 1..Len(y.rows) : y.rows[k] \in 1..Len(log) /\ log[y.rows[k]].chat = y.chat
  <2>1. y.rows \in Seq(1..Len(log))
    BY DEF LoadTyped, LoadRecord
  <2>. QED  BY <2>1, ElementOfSeq DEF LoadTyped
<1>2. \A k \in 1..Len(x.rows) : log'[x.rows[k]].chat = x.chat
  BY <1>1, LogNext DEF Same
<1>3. x.more => x.step = "served" /\ x.rows # <<>>
  BY DEF Same, LoadTyped
<1>. QED  BY <1>2, <1>3 DEF LoadTyped

LEMMA PaneFrom ==
    ASSUME LogTypes, [InboxNext]_inboxVars, pane' \in PaneRecord(Len(log)), marred' \in BOOLEAN,
           loads' \in Seq(LoadRecord(Len(log))),
           \A i \in 1..Len(loads') : \E y : LoadTyped(y, log) /\ Same(loads'[i], y)
    PROVE  PaneTypes'
<1>1. /\ PaneRecord(Len(log)) \subseteq PaneRecord(Len(log'))
      /\ LoadRecord(Len(log)) \subseteq LoadRecord(Len(log'))
  BY LogNext, RecordsGrow
<1>2. pane' \in PaneRecord(Len(log')) /\ loads' \in Seq(LoadRecord(Len(log')))
  BY <1>1, SeqMonotonic
<1>3. ASSUME NEW i \in 1..Len(loads')  PROVE LoadTyped(loads'[i], log')
  <2>1. loads'[i] \in LoadRecord(Len(log'))
    BY <1>2, ElementOfSeq
  <2>. QED  BY <2>1, LoadStays
<1>. QED  BY <1>2, <1>3 DEF PaneTypes

\* A load under way.
LEMMA LoadHas ==
    ASSUME PaneTypes, NEW i \in 1..Len(loads)
    PROVE  loads[i] \in LoadRecord(Len(log)) /\ LoadTyped(loads[i], log) /\ Same(loads[i], loads[i])
BY ElementOfSeq, Zenon DEF PaneTypes, Same

LEMMA LoadRow ==
    ASSUME NEW n, NEW load \in LoadRecord(n)
    PROVE  /\ load.chat \in Chat /\ load.silent \in BOOLEAN /\ load.cursor \in 0..n
           /\ load.again \in BOOLEAN /\ load.since \in Nat /\ load.rows \in Seq(1..n)
           /\ load.more \in BOOLEAN /\ load.stale \in BOOLEAN
           /\ load.step \in {"asked", "served", "limited", "failed"}
BY DEF LoadRecord

\* Load i is served, limited or failed.
LEMMA ServeIs ==
    ASSUME PaneTypes, ServerTypes, NEW i \in 1..Len(loads), LoadServe(i)
    PROVE  /\ loads' \in Seq(LoadRecord(Len(log))) /\ Len(loads') = Len(loads)
           /\ pane' = pane /\ marred' = marred /\ log' = log
           /\ \A k \in 1..Len(loads) : k # i => loads'[k] = loads[k]
           /\ LoadTyped(loads'[i], log) /\ loads'[i].chat = loads[i].chat
           /\ loads'[i].cursor = loads[i].cursor /\ loads'[i].stale = loads[i].stale
           /\ loads[i].step = "asked"
           /\ loads'[i].step = "served" =>
                 /\ loads'[i].rows = Rows(loads[i].chat, loads[i].cursor)
                 /\ loads'[i].more = HasMore(loads[i].chat, loads[i].cursor)
<1>. DEFINE n == Len(log)
            y == loads[i]
            r == Rows(y.chat, y.cursor)
            m == HasMore(y.chat, y.cursor)
<1>1. n \in Nat /\ y \in LoadRecord(n) /\ LoadTyped(y, log) /\ y.step = "asked"
  <2>1. y.step = "asked"
    BY Zenon DEF LoadServe
  <2>. QED  BY <2>1, LoadHas, LenProperties DEF ServerTypes, LogTypes
<1>2. /\ r \in Seq(1..n) /\ (\A k \in 1..Len(r) : log[r[k]].chat = y.chat)
      /\ m \in BOOLEAN /\ (m => r # <<>>)
  BY RowsAre DEF ServerTypes
<1>3. pane' = pane /\ marred' = marred /\ log' = log
  BY Zenon DEF LoadServe, serverVars
<1>. DEFINE Ok(x) == /\ x \in LoadRecord(n) /\ LoadTyped(x, log) /\ x.chat = y.chat
                     /\ x.cursor = y.cursor /\ x.stale = y.stale
                     /\ x.step = "served" => x.rows = r /\ x.more = m
<1>4. PICK x : loads' = [loads EXCEPT ![i] = x] /\ Ok(x)
  <2>1. ASSUME NEW x, x = [y EXCEPT !.step = "served", !.rows = r, !.more = m]  PROVE Ok(x)
    <3>1. /\ x \in LoadRecord(n) /\ x.chat = y.chat /\ x.cursor = y.cursor
          /\ x.rows = r /\ x.more = m /\ x.step = "served" /\ x.stale = y.stale
      <4>. HIDE DEF y, r, m
      <4>1. x \in LoadRecord(n)
        BY <1>1, <1>2, <2>1 DEF LoadRecord
      <4>2. /\ x.chat = y.chat /\ x.cursor = y.cursor /\ x.rows = r /\ x.more = m
            /\ x.step = "served" /\ x.stale = y.stale
        BY <1>1, <1>2, <2>1 DEF LoadRecord
      <4>. QED  BY <4>1, <4>2
    <3>. QED
      <4>. HIDE DEF r, m, y
      <4>. QED  BY <3>1, <1>2 DEF LoadTyped
  <2>2. ASSUME NEW s \in {"limited", "failed"}, NEW x, x = [y EXCEPT !.step = s]  PROVE Ok(x)
    <3>1. x \in LoadRecord(n) /\ x.step = s
      <4>. HIDE DEF y
      <4>. QED  BY <1>1, <2>2 DEF LoadRecord
    <3>2. /\ x.chat = y.chat /\ x.cursor = y.cursor /\ x.rows = y.rows /\ x.more = y.more
          /\ x.stale = y.stale
      <4>. HIDE DEF y
      <4>. QED  BY <1>1, <2>2 DEF LoadRecord
    <3>. HIDE DEF y
    <3>. QED  BY <3>1, <3>2, <1>1 DEF LoadTyped
  <2>3. \/ loads' = [loads EXCEPT ![i] = [y EXCEPT !.step = "served", !.rows = r, !.more = m]]
        \/ loads' = [loads EXCEPT ![i] = [y EXCEPT !.step = "limited"]]
        \/ loads' = [loads EXCEPT ![i] = [y EXCEPT !.step = "failed"]]
    BY DEF LoadServe
  <2>. HIDE DEF Ok
  <2>. QED  BY <2>1, <2>2, <2>3, Zenon
<1>5. loads' \in Seq(LoadRecord(n)) /\ Len(loads') = Len(loads)
      /\ (\A k \in 1..Len(loads) : k # i => loads'[k] = loads[k]) /\ loads'[i] = x
  BY <1>4, ExceptSeq DEF PaneTypes
<1>. QED
  <2>. HIDE DEF y, r, m
  <2>. QED  BY <1>1, <1>3, <1>4, <1>5 DEF y, r, m

\* What is on the screen when more is rendered than is held by now.
Continuing(p, q) ==
    /\ q.held = p.held /\ q.next = p.next /\ q.more = p.more
    /\ \/ q = p
       \/ q.screen = p.held /\ q.foot = IF p.held = <<>> THEN "none" ELSE "end"

LEMMA LogLength == LogTypes => Len(log) \in Nat
BY LenProperties DEF LogTypes

\* Load i is answered.
LEMMA AnswerIs ==
    ASSUME PaneTypes, ServerTypes, NEW i \in 1..Len(loads), LoadAnswer(i)
    PROVE  /\ pane' \in PaneRecord(Len(log)) /\ marred' \in BOOLEAN /\ loads' = Settled(i)
           /\ loads[i].step = "served" /\ active' = active /\ choosing' = choosing /\ log' = log
           /\ loads[i].chat = active =>
                 /\ pane'.held = IF loads[i].cursor = 0 THEN loads[i].rows
                                 ELSE pane.held \o loads[i].rows
                 /\ pane'.screen = pane'.held /\ pane'.next = Cursor(loads[i])
                 /\ pane'.more = loads[i].more
                 /\ pane'.foot \in {"more", "phone"} => (pane'.foot = "more" <=> pane'.more)
                 /\ marred' = IF loads[i].cursor = 0 THEN loads[i].stale
                              ELSE marred \/ loads[i].cursor # Oldest(pane)
           /\ loads[i].chat # active => Continuing(pane, pane') /\ marred' = marred
<1>. DEFINE n == Len(log)
            load == loads[i]
<1>1. n \in Nat /\ pane \in PaneRecord(n) /\ marred \in BOOLEAN
  BY LogLength DEF ServerTypes, PaneTypes
<1>2. load \in LoadRecord(n) /\ (load.more => load.rows # <<>>) /\ load.stale \in BOOLEAN
  BY <1>1, LoadHas, LoadRow DEF LoadTyped
<1>3. /\ load.step = "served" /\ loads' = Settled(i)
      /\ UNCHANGED <<active, choosing, log>>
      /\ IF load.chat = active
         THEN /\ pane' = Continued(Taken(pane, load), load)
              /\ marred' = IF load.cursor = 0 THEN load.stale
                           ELSE marred \/ load.cursor # Oldest(pane)
         ELSE pane' = Continued(pane, load) /\ UNCHANGED marred
  BY Zenon DEF LoadAnswer, ForActive, serverVars
<1>. HIDE DEF load, n
<1>4. CASE load.chat = active
  <2>. DEFINE t == Taken(pane, load)
  <2>1. /\ t \in PaneRecord(n)
        /\ t.held = IF load.cursor = 0 THEN load.rows ELSE pane.held \o load.rows
        /\ t.screen = t.held /\ t.next = Cursor(load) /\ t.more = load.more
        /\ t.foot = IF t.held = <<>> THEN "none"
                    ELSE IF t.over THEN "end" ELSE IF t.more THEN "more" ELSE "phone"
    BY <1>1, <1>2, TakenIs
  <2>2. pane' = Continued(t, load)
    BY <1>3, <1>4
  <2>. HIDE DEF t
  <2>3. /\ pane' \in PaneRecord(n) /\ pane'.held = t.held /\ pane'.next = t.next /\ pane'.more = t.more
        /\ \/ pane' = t
           \/ pane'.screen = t.held /\ pane'.foot = IF t.held = <<>> THEN "none" ELSE "end"
    BY <1>1, <2>1, <2>2, ContinuedIs
  <2>4. marred' \in BOOLEAN
    <3>1. CASE load.cursor = 0
      BY <1>2, <1>3, <1>4, <3>1, Zenon
    <3>2. CASE load.cursor # 0
      <4>1. marred' = (marred \/ load.cursor # Oldest(pane))
        BY <1>3, <1>4, <3>2, Zenon
      <4>. QED  BY <4>1, Zenon
    <3>. QED  BY <3>1, <3>2
  <2>5. pane'.screen = pane'.held
    BY <2>1, <2>3
  <2>6. pane'.foot \in {"more", "phone"} => (pane'.foot = "more" <=> pane'.more)
    BY <2>1, <2>3
  <2>7. pane'.held = IF load.cursor = 0 THEN load.rows ELSE pane.held \o load.rows
    BY <2>1, <2>3
  <2>8. pane'.next = Cursor(load) /\ pane'.more = load.more
    BY <2>1, <2>3
  <2>. QED  BY <1>3, <1>4, <2>3, <2>4, <2>5, <2>6, <2>7, <2>8 DEF load, n
<1>5. CASE load.chat # active
  <2>1. pane' = Continued(pane, load) /\ marred' = marred
    BY <1>3, <1>5
  <2>2. pane' \in PaneRecord(n) /\ Continuing(pane, pane')
    BY <1>1, <2>1, ContinuedIs DEF Continuing
  <2>. QED  BY <1>1, <1>3, <1>5, <2>1, <2>2 DEF load, n
<1>. QED  BY <1>4, <1>5

\* Load i failed.
LEMMA FailsIs ==
    ASSUME PaneTypes, ServerTypes, NEW i \in 1..Len(loads), LoadFails(i)
    PROVE  /\ pane' \in PaneRecord(Len(log)) /\ marred' \in BOOLEAN /\ loads' = Settled(i)
           /\ active' = active /\ choosing' = choosing /\ log' = log
           /\ pane'.held = pane.held /\ pane'.next = pane.next /\ pane'.more = pane.more
           /\ pane'.screen \in {pane.screen, pane.held, <<>>}
           /\ (marred => marred')
           /\ IF loads[i].chat = active /\ loads[i].cursor = 0 THEN marred'
              ELSE Continuing(pane, pane')
<1>. DEFINE n == Len(log)
            load == loads[i]
            q == IF load.chat = active /\ load.cursor = 0 /\ ~load.silent THEN Blank(pane) ELSE pane
<1>1. n \in Nat /\ pane \in PaneRecord(n) /\ marred \in BOOLEAN
  BY LogLength DEF ServerTypes, PaneTypes
<1>2. /\ loads' = Settled(i) /\ UNCHANGED <<active, choosing, log>>
      /\ pane' = Continued(q, load)
      /\ marred' = (marred \/ (load.chat = active /\ load.cursor = 0))
  BY Zenon DEF LoadFails, ForActive, serverVars
<1>3. /\ q \in PaneRecord(n) /\ q.held = pane.held /\ q.next = pane.next /\ q.more = pane.more
      /\ q.screen \in {pane.screen, <<>>}
      /\ q = pane \/ (load.chat = active /\ load.cursor = 0)
  BY <1>1, BlankIs
<1>. HIDE DEF load, n, q
<1>4. /\ pane' \in PaneRecord(n) /\ Continuing(q, pane')
  BY <1>1, <1>2, <1>3, ContinuedIs DEF Continuing
<1>5. /\ pane'.held = pane.held /\ pane'.next = pane.next /\ pane'.more = pane.more
      /\ pane'.screen \in {pane.screen, pane.held, <<>>}
  BY <1>3, <1>4 DEF Continuing
<1>6. marred' \in BOOLEAN /\ (marred => marred')
      /\ (load.chat = active /\ load.cursor = 0 => marred')
  BY <1>2, Zenon
<1>. QED  BY <1>2, <1>3, <1>4, <1>5, <1>6, Zenon DEF load, n

\* Load i was limited: it is asked once more, or given up.
LEMMA LimitedIs ==
    ASSUME PaneTypes, ServerTypes, NEW i \in 1..Len(loads), LoadLimited(i)
    PROVE  /\ pane' \in PaneRecord(Len(log)) /\ marred' \in BOOLEAN
           /\ active' = active /\ choosing' = choosing /\ log' = log
           /\ (marred => marred')
           /\ \/ /\ loads' = Settled(i) /\ Continuing(pane, pane')
                 /\ loads[i].chat = active /\ loads[i].cursor = 0 => marred'
              \/ /\ \E next \in LoadRecord(Len(log)) :
                       /\ next.chat = loads[i].chat /\ next.cursor = loads[i].cursor
                       /\ next.rows = loads[i].rows /\ ~next.more /\ next.step = "asked"
                       /\ loads' = Append(Settled(i), next)
                 /\ loads[i].chat = active
                 /\ loads[i].cursor # 0 => pane' = pane
                 /\ loads[i].cursor = 0 =>
                       pane'.held = <<>> /\ pane'.screen \in {pane.screen, <<>>}
<1>. DEFINE n == Len(log)
            load == loads[i]
<1>1. n \in Nat /\ pane \in PaneRecord(n) /\ marred \in BOOLEAN
  BY LogLength DEF ServerTypes, PaneTypes
<1>2. load \in LoadRecord(n) /\ LoadTyped(load, log) /\ load.step = "limited"
  <2>1. load.step = "limited"
    BY Zenon DEF LoadLimited
  <2>. QED  BY <2>1, LoadHas
<1>3. ~load.more
  BY <1>2 DEF LoadTyped
<1>. DEFINE next == [load EXCEPT !.step = "asked", !.again = TRUE, !.stale = FALSE]
<1>4. UNCHANGED <<active, choosing, log>>
  BY Zenon DEF LoadLimited, serverVars
<1>5. IF ~load.again /\ load.chat = active
      THEN loads' = Append(Settled(i), next) /\ pane' = Emptied(pane, load) /\ marred' = marred
      ELSE /\ loads' = Settled(i) /\ pane' = Continued(pane, load)
           /\ marred' = (marred \/ (load.chat = active /\ load.cursor = 0))
  BY Zenon DEF LoadLimited, ForActive
<1>6. /\ next \in LoadRecord(n) /\ next.chat = load.chat /\ next.cursor = load.cursor
      /\ next.rows = load.rows /\ ~next.more /\ next.step = "asked"
  <2>. HIDE DEF n, load
  <2>1. next \in LoadRecord(n) /\ next.chat = load.chat /\ next.cursor = load.cursor
    BY <1>1, <1>2 DEF LoadRecord
  <2>2. next.rows = load.rows /\ next.more = load.more /\ next.step = "asked"
    BY <1>1, <1>2 DEF LoadRecord
  <2>. QED  BY <1>3, <2>1, <2>2, Zenon
<1>7. CASE ~load.again /\ load.chat = active
  <2>1. loads' = Append(Settled(i), next) /\ pane' = Emptied(pane, load) /\ marred' = marred
    BY <1>5, <1>7, Zenon
  <2>. HIDE DEF next, n, load
  <2>2. /\ pane' \in PaneRecord(n)
        /\ load.cursor # 0 => pane' = pane
        /\ load.cursor = 0 => pane'.held = <<>> /\ pane'.screen \in {pane.screen, <<>>}
    BY <1>1, <2>1, EmptiedIs
  <2>3. \E x \in LoadRecord(n) :
           /\ x.chat = load.chat /\ x.cursor = load.cursor
           /\ x.rows = load.rows /\ ~x.more /\ x.step = "asked"
           /\ loads' = Append(Settled(i), x)
    BY <1>6, <2>1, Zenon
  <2>4. marred' \in BOOLEAN /\ (marred => marred')
    BY <1>1, <2>1, Zenon
  <2>. QED  BY <1>4, <1>7, <2>2, <2>3, <2>4, Zenon DEF load, n
<1>8. CASE ~(~load.again /\ load.chat = active)
  <2>1. /\ loads' = Settled(i) /\ pane' = Continued(pane, load)
        /\ marred' = (marred \/ (load.chat = active /\ load.cursor = 0))
    BY <1>5, <1>8, Zenon
  <2>2. pane' \in PaneRecord(n) /\ Continuing(pane, pane')
    BY <1>1, <2>1, ContinuedIs DEF Continuing
  <2>3. marred' \in BOOLEAN /\ (marred => marred')
        /\ (load.chat = active /\ load.cursor = 0 => marred')
    BY <2>1, Zenon
  <2>. QED  BY <1>4, <2>1, <2>2, <2>3, Zenon DEF load, n
<1>. QED  BY <1>7, <1>8

\* A load that is asked.
LEMMA AskIs ==
    ASSUME PaneTypes, ServerTypes, NEW open, NEW h, NEW silent, NEW c, Asks(open, h, silent, c)
    PROVE  /\ pane' \in PaneRecord(Len(log)) /\ marred' \in BOOLEAN
           /\ \E load \in LoadRecord(Len(log)) :
                 AskedLoad(load, h, silent, c) /\ loads' = Append(loads, load)
           /\ c # 0 => pane' = pane
           /\ c = 0 => /\ pane'.held = <<>> /\ pane'.next = 0 /\ ~pane'.more
                       /\ pane'.screen = IF silent THEN pane.screen ELSE <<>>
           /\ (marred => marred') /\ (h # open => marred') /\ (h = open => marred' = marred)
<1>. DEFINE n == Len(log)
<1>1. n \in Nat /\ pane \in PaneRecord(n) /\ marred \in BOOLEAN
  BY LogLength DEF ServerTypes, PaneTypes
<1>2. PICK load \in LoadRecord(n) : AskedLoad(load, h, silent, c) /\ Load(open, load)
  BY Zenon DEF Asks
<1>3. /\ loads' = Append(loads, load) /\ pane' = Emptied(pane, load)
      /\ marred' = (marred \/ load.chat # open)
  BY <1>2, Zenon DEF Load
<1>4. load.chat = h /\ load.silent = silent /\ load.cursor = c
  BY <1>2 DEF AskedLoad
<1>5. marred' \in BOOLEAN /\ (marred => marred') /\ (h # open => marred') /\ (h = open => marred' = marred)
  BY <1>1, <1>3, <1>4, Zenon
<1>6. /\ pane' \in PaneRecord(n)
      /\ c # 0 => pane' = pane
      /\ c = 0 => /\ pane'.held = <<>> /\ pane'.next = 0 /\ ~pane'.more
                  /\ pane'.screen = IF silent THEN pane.screen ELSE <<>>
  BY <1>1, <1>3, <1>4, EmptiedIs
<1>. QED  BY <1>2, <1>3, <1>5, <1>6, Zenon

\* A load that is through leaves the others typed.
LEMMA SettledTyped ==
    ASSUME PaneTypes, ServerTypes, NEW i \in 1..Len(loads)
    PROVE  /\ Settled(i) \in Seq(LoadRecord(Len(log))) /\ Len(Settled(i)) = Len(loads) - 1
           /\ Len(loads) \in Nat /\ i \in Nat
           /\ \A k \in 1..(Len(loads) - 1) :
                 \E y : LoadTyped(y, log) /\ Same(Settled(i)[k], y)
<1>1. Len(log) \in Nat /\ loads \in Seq(LoadRecord(Len(log)))
  BY LogLength DEF ServerTypes, PaneTypes
<1>2. Len(loads) \in Nat /\ i \in Nat
  BY <1>1, LenProperties
<1>3. \A k \in 1..Len(loads) : LoadTyped(loads[k], log)
  BY DEF PaneTypes
<1>. QED  BY <1>1, <1>2, <1>3, SettledIs, Zenon

\* A load that is appended to some that are there.
LEMMA AppendTyped ==
    ASSUME PaneTypes, ServerTypes, [InboxNext]_inboxVars,
           NEW s \in Seq(LoadRecord(Len(log))),
           \A k \in 1..Len(s) : \E y : LoadTyped(y, log) /\ Same(s[k], y),
           NEW load \in LoadRecord(Len(log)), LoadTyped(load, log), loads' = Append(s, load),
           pane' \in PaneRecord(Len(log)), marred' \in BOOLEAN
    PROVE  PaneTypes'
<1>1. /\ loads' \in Seq(LoadRecord(Len(log))) /\ Len(loads') = Len(s) + 1 /\ Len(s) \in Nat
      /\ \A k \in 1..Len(s) : loads'[k] = s[k]
      /\ loads'[Len(s) + 1] = load
  BY AppendProperties, LenProperties
<1>2. Same(load, load)
  BY Zenon DEF Same
<1>3. ASSUME NEW k \in 1..Len(loads')  PROVE \E y : LoadTyped(y, log) /\ Same(loads'[k], y)
  <2>1. CASE k \in 1..Len(s)
    BY <2>1, <1>1, Zenon
  <2>2. CASE k = Len(s) + 1
    BY <2>2, <1>1, <1>2, Zenon
  <2>. QED  BY <2>1, <2>2, <1>1
<1>. QED  BY <1>1, <1>3, PaneFrom DEF ServerTypes

\* The pane and its loads stay typed.
LEMMA PaneNext ==
    PaneTypes /\ ServerTypes /\ [InboxNext]_inboxVars => PaneTypes'
<1>. SUFFICES ASSUME PaneTypes, ServerTypes, [InboxNext]_inboxVars  PROVE PaneTypes'
  OBVIOUS
<1>. DEFINE n == Len(log)
<1>0. /\ n \in Nat /\ pane \in PaneRecord(n) /\ marred \in BOOLEAN /\ LogTypes
      /\ loads \in Seq(LoadRecord(n)) /\ Len(loads) \in Nat
      /\ \A k \in 1..Len(loads) : LoadTyped(loads[k], log) /\ Same(loads[k], loads[k])
  BY LogLength, LoadHas, LenProperties DEF ServerTypes, PaneTypes
<1>1. ASSUME NEW i \in 1..Len(loads), LoadServe(i)  PROVE PaneTypes'
  <2>1. /\ loads' \in Seq(LoadRecord(n)) /\ Len(loads') = Len(loads)
        /\ pane' = pane /\ marred' = marred
        /\ \A k \in 1..Len(loads) : k # i => loads'[k] = loads[k]
        /\ LoadTyped(loads'[i], log)
    BY <1>1, ServeIs
  <2>2. ASSUME NEW k \in 1..Len(loads')  PROVE \E y : LoadTyped(y, log) /\ Same(loads'[k], y)
    <3>1. Same(loads'[k], loads'[k])
      BY Zenon DEF Same
    <3>2. LoadTyped(loads'[k], log)
      BY <1>0, <2>1
    <3>. QED  BY <3>1, <3>2, Zenon
  <2>. QED  BY <1>0, <2>1, <2>2, PaneFrom
<1>2. ASSUME NEW i \in 1..Len(loads), loads' = Settled(i),
             pane' \in PaneRecord(n), marred' \in BOOLEAN
      PROVE  PaneTypes'
  <2>1. /\ loads' \in Seq(LoadRecord(n))
        /\ \A k \in 1..Len(loads') : \E y : LoadTyped(y, log) /\ Same(loads'[k], y)
    BY <1>2, SettledTyped
  <2>. QED  BY <1>0, <1>2, <2>1, PaneFrom
<1>3. ASSUME NEW i \in 1..Len(loads), LoadLimited(i)  PROVE PaneTypes'
  <2>1. /\ pane' \in PaneRecord(n) /\ marred' \in BOOLEAN
        /\ \/ loads' = Settled(i)
           \/ \E next \in LoadRecord(n) :
                 /\ next.chat = loads[i].chat /\ next.rows = loads[i].rows /\ ~next.more
                 /\ loads' = Append(Settled(i), next)
    BY <1>3, LimitedIs, Zenon
  <2>2. ASSUME NEW next \in LoadRecord(n), next.chat = loads[i].chat, next.rows = loads[i].rows,
               ~next.more, loads' = Append(Settled(i), next)
        PROVE  PaneTypes'
    <3>1. LoadTyped(next, log)
      BY <1>0, <2>2 DEF LoadTyped
    <3>2. /\ Settled(i) \in Seq(LoadRecord(n))
          /\ \A k \in 1..Len(Settled(i)) : \E y : LoadTyped(y, log) /\ Same(Settled(i)[k], y)
      BY SettledTyped
    <3>. QED  BY <2>1, <2>2, <3>1, <3>2, AppendTyped
  <2>. QED  BY <1>2, <2>1, <2>2
<1>4. ASSUME NEW h \in Chat, NEW silent \in BOOLEAN, NEW c \in 0..n, NEW open, Asks(open, h, silent, c)
      PROVE  PaneTypes'
  <2>1. /\ pane' \in PaneRecord(n) /\ marred' \in BOOLEAN
        /\ \E load \in LoadRecord(n) : AskedLoad(load, h, silent, c) /\ loads' = Append(loads, load)
    BY <1>4, AskIs
  <2>2. PICK load \in LoadRecord(n) : AskedLoad(load, h, silent, c) /\ loads' = Append(loads, load)
    BY <2>1
  <2>3. LoadTyped(load, log)
    BY <2>2 DEF AskedLoad, LoadTyped
  <2>. QED  BY <1>0, <2>1, <2>2, <2>3, AppendTyped
<1>5. CASE Olds
  <2>1. /\ pane' = pane /\ marred' \in BOOLEAN /\ Len(loads') = Len(loads)
        /\ loads' \in Seq(LoadRecord(n))
        /\ \A k \in 1..Len(loads) : Same(loads'[k], loads[k])
    BY <1>5 DEF Olds
  <2>2. \A k \in 1..Len(loads') : \E y : LoadTyped(y, log) /\ Same(loads'[k], y)
    BY <1>0, <2>1, Zenon
  <2>. QED  BY <1>0, <2>1, <2>2, PaneFrom
<1>6. \A i \in 1..Len(loads) : LoadAnswer(i) \/ LoadFails(i) => PaneTypes'
  BY <1>2, AnswerIs, FailsIs
<1>. QED  BY <1>1, <1>3, <1>4, <1>5, <1>6, PaneChanges

-----------------------------------------------------------------------------
(* The messages that the pane shows.                                       *)

OfChat(s, h) == \A k \in 1..Len(s) : log[s[k]].chat = h
ScreenInv == active # NoChat /\ choosing = <<>> => OfChat(pane.held, active) /\ OfChat(pane.screen, active)

\* Pages of one chat make a pane of it.
LEMMA OfChats ==
    ASSUME NEW n, NEW s \in Seq(1..n), NEW t \in Seq(1..n), NEW h, OfChat(s, h), OfChat(t, h)
    PROVE  OfChat(s \o t, h) /\ OfChat(<<>>, h)
<1>1. /\ Len(s \o t) = Len(s) + Len(t) /\ Len(s) \in Nat /\ Len(t) \in Nat
      /\ \A k \in 1..(Len(s) + Len(t)) : (s \o t)[k] = IF k <= Len(s) THEN s[k] ELSE t[k - Len(s)]
  BY ConcatProperties, LenProperties
<1>2. ASSUME NEW k \in 1..Len(s \o t)  PROVE log[(s \o t)[k]].chat = h
  <2>1. CASE k <= Len(s)
    BY <2>1, <1>1 DEF OfChat
  <2>2. CASE ~(k <= Len(s))
    <3>1. k - Len(s) \in 1..Len(t)
      BY <2>2, <1>1
    <3>. QED  BY <3>1, <2>2, <1>1 DEF OfChat
  <2>. QED  BY <2>1, <2>2
<1>. QED  BY <1>2 DEF OfChat

\* A new selection empties the pane or waits for the assignees.
LEMMA ChosenScreen ==
    ASSUME PaneTypes, ServerTypes, [InboxNext]_inboxVars
    PROVE  \/ active' = active /\ choosing' = choosing
           \/ active' = NoChat \/ choosing' # <<>>
           \/ pane'.held = <<>> /\ pane'.screen = <<>>
<1>1. ChooseInbox => active' = NoChat
  BY DEF ChooseInbox
<1>2. InboxReady => active' = active /\ choosing' = choosing
  BY Zenon DEF InboxReady
<1>3. \A open, h : Asks(open, h, FALSE, 0) => pane'.held = <<>> /\ pane'.screen = <<>>
  BY AskIs
<1>4. ASSUME NEW h \in Chat, SelectChat(h)
      PROVE  choosing' # <<>> \/ (pane'.held = <<>> /\ pane'.screen = <<>>)
  <2>1. choosing' = Append(choosing, h) \/ Asks(h, h, FALSE, 0)
    BY <1>4, Asked
  <2>2. Append(choosing, h) # <<>>
    BY DEF ServerTypes, ChosenTypes
  <2>. QED  BY <1>3, <2>1, <2>2
<1>5. \A i \in DOMAIN choosing : Assignees(i) => (pane'.held = <<>> /\ pane'.screen = <<>>)
  BY <1>3, Asked
<1>. QED  BY <1>1, <1>2, <1>4, <1>5, ChosenSteps

\* The pane stays of the open chat.
LEMMA ScreenNext ==
    PaneTypes /\ ServerTypes /\ ScreenInv /\ [InboxNext]_inboxVars => ScreenInv'
<1>. SUFFICES ASSUME PaneTypes, ServerTypes, ScreenInv, [InboxNext]_inboxVars,
                     active' # NoChat, choosing' = <<>>
              PROVE  OfChat(pane.held, active)' /\ OfChat(pane.screen, active)'
  BY DEF ScreenInv
<1>. DEFINE n == Len(log)
            Shown(s) == s \in Seq(1..n) /\ OfChat(s, active)
<1>0. n \in Nat /\ pane.held \in Seq(1..n) /\ pane.screen \in Seq(1..n) /\ <<>> \in Seq(1..n)
  BY LogLength DEF ServerTypes, PaneTypes, PaneRecord
<1>1. CASE pane'.held = <<>> /\ pane'.screen = <<>>
  BY <1>1 DEF OfChat
<1>2. CASE active' = active /\ choosing' = choosing
  <2>1. Shown(pane.held) /\ Shown(pane.screen) /\ Shown(<<>>)
    <3>1. OfChat(pane.held, active) /\ OfChat(pane.screen, active)
      BY <1>2 DEF ScreenInv
    <3>. QED  BY <1>0, <3>1 DEF OfChat
  <2>2. Shown(pane'.held) /\ Shown(pane'.screen)
    <3>1. Continuing(pane, pane') => Shown(pane'.held) /\ Shown(pane'.screen)
      BY <2>1, Zenon DEF Continuing
    <3>2. ASSUME NEW i \in 1..Len(loads), LoadAnswer(i)
          PROVE  Shown(pane'.held) /\ Shown(pane'.screen)
      <4>1. CASE loads[i].chat # active
        BY <4>1, <3>1, <3>2, AnswerIs
      <4>2. CASE loads[i].chat = active
        <5>1. loads[i].rows \in Seq(1..n) /\ OfChat(loads[i].rows, active)
          <6>1. loads[i] \in LoadRecord(n) /\ LoadTyped(loads[i], log)
            BY LoadHas
          <6>. QED  BY <4>2, <6>1 DEF LoadRecord, LoadTyped, OfChat
        <5>2. Shown(loads[i].rows) /\ Shown(pane.held \o loads[i].rows)
          BY <2>1, <5>1, OfChats, ConcatProperties
        <5>3. /\ pane'.screen = pane'.held
              /\ pane'.held = IF loads[i].cursor = 0 THEN loads[i].rows
                              ELSE pane.held \o loads[i].rows
          BY <3>2, <4>2, AnswerIs
        <5>. HIDE DEF Shown
        <5>. QED  BY <5>2, <5>3
      <4>. QED  BY <4>1, <4>2
    <3>. HIDE DEF Shown
    <3>3. \A i \in 1..Len(loads) : LoadFails(i) => Shown(pane'.held) /\ Shown(pane'.screen)
      BY <2>1, FailsIs
    <3>4. \A i \in 1..Len(loads) : LoadServe(i) => Shown(pane'.held) /\ Shown(pane'.screen)
      BY <2>1, ServeIs
    <3>5. ASSUME NEW i \in 1..Len(loads), LoadLimited(i)
          PROVE  Shown(pane'.held) /\ Shown(pane'.screen)
      <4>1. \/ Continuing(pane, pane') \/ pane' = pane
            \/ pane'.held = <<>> /\ pane'.screen \in {pane.screen, <<>>}
        BY <3>5, LimitedIs
      <4>. QED  BY <2>1, <3>1, <4>1
    <3>6. \A open, h, silent, c : Asks(open, h, silent, c) => Shown(pane'.held) /\ Shown(pane'.screen)
      BY <2>1, AskIs
    <3>7. Olds => Shown(pane'.held) /\ Shown(pane'.screen)
      BY <2>1 DEF Olds
    <3>. QED  BY <3>2, <3>3, <3>4, <3>5, <3>6, <3>7, PaneChanges
  <2>3. \A s : Shown(s) => OfChat(s, active)'
    <3>1. ASSUME NEW s, Shown(s)  PROVE \A k \in 1..Len(s) : log'[s[k]].chat = active'
      <4>1. \A k \in 1..Len(s) : s[k] \in 1..n /\ log[s[k]].chat = active
        BY <3>1, ElementOfSeq DEF OfChat
      <4>. QED  BY <1>2, <4>1, LogNext DEF ServerTypes
    <3>. QED  BY <3>1 DEF OfChat
  <2>. HIDE DEF Shown
  <2>. QED  BY <2>2, <2>3
<1>. QED  BY <1>1, <1>2, ChosenScreen

-----------------------------------------------------------------------------
(* The list.                                                               *)

Counts == [Chat -> Nat]
ListingRecord == [step : {"none", "asked", "served", "failed"}, cursor : Nat, page : Nat,
                  rows : SUBSET Chat, count : Counts \cup {<<>>}, seen : Counts \cup {<<>>}, next : Nat]
ListTypes == /\ DOMAIN list \subseteq Chat /\ list \in [DOMAIN list -> Nat]
             /\ listing \in ListingRecord
             /\ listing.step = "served" => listing.count \in Counts /\ listing.seen \in Counts
             /\ known \subseteq 1..Len(log) /\ heard \in Counts /\ off \subseteq Chat
             /\ moved \subseteq Chat /\ short \in BOOLEAN

\* The last message is the largest, 0 for none.
LEMMA LastMessageIs ==
    ASSUME LogTypes, NEW h
    PROVE  /\ LastMessage(h) \in 0..Len(log)
           /\ LastMessage(h) = 0 <=> Of(h) = {}
           /\ LastMessage(h) # 0 => LastMessage(h) \in Of(h)
           /\ \A m \in Of(h) : m <= LastMessage(h)
<1>1. IsFiniteSet(Of(h)) /\ \A m \in Of(h) : m \in Nat /\ m \in 1..Len(log)
  BY OlderIs
<1>2. Of(h) # {} => Newest(Of(h)) \in Of(h) /\ \A m \in Of(h) : m <= Newest(Of(h))
  BY <1>1, NewestIs
<1>3. Len(log) \in Nat
  BY LogLength
<1>. QED  BY <1>1, <1>2, <1>3 DEF LastMessage

LEMMA NextCursorIs == LogTypes => \A c : NextCursor(c) \in Nat
<1>. SUFFICES ASSUME LogTypes, NEW c  PROVE NextCursor(c) \in Nat
  OBVIOUS
<1>1. \A h : LastMessage(h) \in Nat
  BY LastMessageIs, LogLength
<1>. QED  BY <1>1, Zenon DEF NextCursor

\* No page, and the first one.
LEMMA FirstPageIs ==
    /\ Resting \in ListingRecord /\ Resting.step = "none" /\ Resting.page = 0 /\ Resting.rows = {}
    /\ FirstPage \in ListingRecord /\ FirstPage.step = "asked" /\ FirstPage.page = 1
    /\ FirstPage.cursor = 0 /\ FirstPage.rows = {}
<1>1. ASSUME NEW e \in Counts \cup {<<>>},
             NEW r, r = [step |-> "none", cursor |-> 0, page |-> 0, rows |-> {}, count |-> e, seen |-> e,
                         next |-> 0]
      PROVE  r \in ListingRecord /\ r.step = "none" /\ r.page = 0 /\ r.rows = {} /\ r.cursor = 0
  BY <1>1 DEF ListingRecord
<1>2. Resting \in ListingRecord /\ Resting.step = "none" /\ Resting.page = 0 /\ Resting.rows = {}
      /\ Resting.cursor = 0
  BY <1>1, Zenon DEF Resting
<1>3. FirstPage = [Resting EXCEPT !.step = "asked", !.page = 1]
  BY DEF FirstPage
<1>4. FirstPage \in ListingRecord /\ FirstPage.step = "asked" /\ FirstPage.page = 1
  BY <1>2, <1>3 DEF ListingRecord
<1>5. FirstPage.rows = Resting.rows /\ FirstPage.cursor = Resting.cursor
  BY <1>2, <1>3 DEF ListingRecord
<1>. QED  BY <1>2, <1>4, <1>5

\* The page that is served, and the request for the next one.
LEMMA ListServeIs ==
    ASSUME LogTypes, ListTypes, ListServe
    PROVE  /\ listing' \in ListingRecord /\ listing.step = "asked"
           /\ UNCHANGED <<serverVars, admin, paneVars, list, known, heard, off, moved, short, sendVars>>
           /\ listing'.cursor = listing.cursor /\ listing'.page = listing.page
           /\ \/ listing'.step = "failed"
              \/ /\ listing'.step = "served" /\ listing'.rows = Listed(listing.cursor)
                 /\ listing'.count = unread /\ listing'.seen = changes
                 /\ listing'.next = NextCursor(listing.cursor)
<1>. DEFINE L == Listed(listing.cursor)
            x == NextCursor(listing.cursor)
<1>0. L \subseteq Chat /\ x \in Nat /\ unread \in Counts /\ changes \in Counts
  BY NextCursorIs DEF Listed, Under, LogTypes, Counts
<1>1. /\ listing.step = "asked"
      /\ UNCHANGED <<serverVars, admin, paneVars, list, known, heard, off, moved, short, sendVars>>
      /\ \/ listing' = [listing EXCEPT !.step = "served", !.rows = L, !.count = unread, !.seen = changes,
                                       !.next = x]
         \/ listing' = [listing EXCEPT !.step = "failed"]
  BY Zenon DEF ListServe
<1>. HIDE DEF L, x
<1>2. CASE listing' = [listing EXCEPT !.step = "served", !.rows = L, !.count = unread, !.seen = changes,
                                      !.next = x]
  <2>1. listing' \in ListingRecord
    BY <1>0, <1>2 DEF ListTypes, ListingRecord
  <2>2. /\ listing'.step = "served" /\ listing'.rows = L
        /\ listing'.count = unread /\ listing'.seen = changes /\ listing'.next = x
        /\ listing'.cursor = listing.cursor /\ listing'.page = listing.page
    BY <1>0, <1>2 DEF ListTypes, ListingRecord
  <2>. QED  BY <1>1, <2>1, <2>2, Zenon DEF L, x
<1>3. CASE listing' = [listing EXCEPT !.step = "failed"]
  <2>1. listing' \in ListingRecord /\ listing'.step = "failed"
    BY <1>3 DEF ListTypes, ListingRecord
  <2>2. listing'.cursor = listing.cursor /\ listing'.page = listing.page
    BY <1>3 DEF ListTypes, ListingRecord
  <2>. QED  BY <1>1, <2>1, <2>2, Zenon
<1>. QED  BY <1>1, <1>2, <1>3

\* A page that is answered.
LEMMA ListAnswerIs ==
    ASSUME LogTypes, ListTypes, ListAnswer
    PROVE  LET kept == IF listing.page = 1 THEN {} ELSE DOMAIN list
               new  == listing.rows \ kept
           IN  /\ listing.step = "served" /\ listing' \in ListingRecord
               /\ list' \in [kept \cup new -> Nat] /\ kept \cup new \subseteq Chat
               /\ \A h \in kept \cup new : list'[h] = IF h \in new THEN listing.count[h] ELSE list[h]
               /\ off' = (off \ new) \cup {h \in new : listing.seen[h] # heard[h]}
               /\ UNCHANGED <<serverVars, admin, paneVars, known, heard, moved, short, sendVars>>
               /\ IF listing.next # 0 /\ listing.page <= MaxIterations /\ listing.rows # {}
                  THEN /\ listing'.step = "asked" /\ listing'.cursor = listing.next
                       /\ listing'.page = listing.page + 1
                  ELSE listing'.step = "none"
<1>. DEFINE kept == IF listing.page = 1 THEN {} ELSE DOMAIN list
            new  == listing.rows \ kept
<1>1. /\ listing.step = "served"
      /\ list' = [h \in kept \cup new |-> IF h \in new THEN listing.count[h] ELSE list[h]]
      /\ off' = (off \ new) \cup {h \in new : listing.seen[h] # heard[h]}
      /\ listing' = IF listing.next # 0 /\ listing.page <= MaxIterations /\ listing.rows # {}
                    THEN [FirstPage EXCEPT !.cursor = listing.next, !.page = listing.page + 1]
                    ELSE Resting
      /\ UNCHANGED <<serverVars, admin, paneVars, known, heard, moved, short, sendVars>>
  BY Zenon DEF ListAnswer
<1>2. /\ listing.next \in Nat /\ listing.page + 1 \in Nat /\ listing.rows \subseteq Chat
      /\ listing.count \in [Chat -> Nat] /\ DOMAIN list \subseteq Chat /\ list \in [DOMAIN list -> Nat]
  BY <1>1 DEF ListTypes, ListingRecord, Counts
<1>3. kept \cup new \subseteq Chat
  BY <1>2
<1>4. /\ list' \in [kept \cup new -> Nat]
      /\ \A h \in kept \cup new : list'[h] = IF h \in new THEN listing.count[h] ELSE list[h]
  BY <1>1, <1>2
<1>5. /\ listing' \in ListingRecord
      /\ IF listing.next # 0 /\ listing.page <= MaxIterations /\ listing.rows # {}
         THEN listing'.step = "asked" /\ listing'.cursor = listing.next /\ listing'.page = listing.page + 1
         ELSE listing'.step = "none"
  <2>. DEFINE going == listing.next # 0 /\ listing.page <= MaxIterations /\ listing.rows # {}
  <2>1. CASE going
    <3>. DEFINE c == listing.next
                p == listing.page + 1
    <3>1. listing' = [FirstPage EXCEPT !.cursor = c, !.page = p] /\ c \in Nat /\ p \in Nat
      BY <1>1, <1>2, <2>1
    <3>2. listing' \in ListingRecord /\ listing'.cursor = c /\ listing'.page = p
          /\ listing'.step = FirstPage.step
      <4>. HIDE DEF c, p
      <4>1. listing' \in ListingRecord /\ listing'.cursor = c /\ listing'.page = p
        BY <3>1, FirstPageIs DEF ListingRecord
      <4>2. listing'.step = FirstPage.step
        BY <3>1, FirstPageIs DEF ListingRecord
      <4>. QED  BY <4>1, <4>2
    <3>. QED  BY <2>1, <3>2, FirstPageIs
  <2>2. CASE ~going
    <3>1. listing' = Resting
      BY <1>1, <2>2
    <3>. QED  BY <2>2, <3>1, FirstPageIs
  <2>. QED  BY <2>1, <2>2
<1>. QED  BY <1>1, <1>3, <1>4, <1>5, Zenon

\* The steps that touch the list.
LEMMA ListSteps ==
    [InboxNext]_inboxVars =>
        \/ ListServe \/ ListAnswer \/ ListFails \/ InboxReady
        \/ \E h \in Chat, mine \in BOOLEAN : Arrive(h, mine)
        \/ \E m \in due : Announce(m)
        \/ \E m \in 1..Len(log) : Repeat(m)
        \/ \E h \in Chat : Status(h)
        \/ SyncCompleted
        \/ \E k \in marks : MarkTell(k) \/ MarkAnswer(k)
        \/ Drop
        \/ \E e \in ToSet(wire) : HearNew(e) \/ HearUpdate(e) \/ HearSync(e)
        \/ UNCHANGED listVars
<1>. DEFINE Due ==
        \/ ListServe \/ ListAnswer \/ ListFails \/ InboxReady
        \/ \E h \in Chat, mine \in BOOLEAN : Arrive(h, mine)
        \/ \E m \in due : Announce(m)
        \/ \E m \in 1..Len(log) : Repeat(m)
        \/ \E h \in Chat : Status(h)
        \/ SyncCompleted
        \/ \E k \in marks : MarkTell(k) \/ MarkAnswer(k)
        \/ Drop
        \/ \E e \in ToSet(wire) : HearNew(e) \/ HearUpdate(e) \/ HearSync(e)
        \/ UNCHANGED listVars
<1>. SUFFICES [InboxNext]_inboxVars => Due
  OBVIOUS
<1>1. Loading => Due
  BY LoadingFrame
<1>2. Listing => Due
  BY DEF Listing
<1>3. User => Due
  BY DEF User, ChooseInbox, LoadMore, SelectChat, Assignees, Mark, Attach, Submit, Uploaded, UploadFails,
     Posted
<1>4. Server => Due
  BY DEF Server, MarkClear, MarkFetch
<1>5. Socket => Due
  BY DEF Socket, ConnectWS, HearStatus
<1>6. UNCHANGED inboxVars => Due
  BY DEF inboxVars
<1>. QED  BY <1>1, <1>2, <1>3, <1>4, <1>5, <1>6 DEF InboxNext

\* What a published event does to the list: nothing, or it is lost.
LEMMA PublishList ==
    ASSUME ListTypes, WireTypes, NEW e \in EventRecord, e.kind # "sync" => e.chat \in Chat, Publish(e)
    PROVE  /\ heard' \in Counts /\ off' \subseteq Chat
           /\ (online \/ e.kind = "sync") => UNCHANGED <<heard, off>>
           /\ ~online /\ e.kind # "sync" =>
                 /\ heard'[e.chat] = (IF e.n > heard[e.chat] THEN e.n ELSE heard[e.chat])
                 /\ \A h \in Chat : h # e.chat => heard'[h] = heard[h]
                 /\ off' = IF e.kind = "status" THEN off ELSE off \cup {e.chat}
<1>1. CASE UNCHANGED <<heard, off>> /\ (online \/ e.kind = "sync")
  BY <1>1 DEF ListTypes
<1>2. CASE /\ ~online /\ e.kind # "sync" /\ Up(e.chat, e.n)
           /\ off' = IF e.kind = "status" THEN off ELSE off \cup {e.chat}
  <2>1. e.n \in Nat /\ e.chat \in Chat
    BY <1>2 DEF EventRecord
  <2>. QED  BY <1>2, <2>1 DEF ListTypes, Counts, Up
<1>. QED  BY <1>1, <1>2 DEF Publish

\* A dropped socket loses the events of these chats.
LEMMA DropList ==
    ASSUME ListTypes, WireTypes, Drop
    PROVE  /\ heard' \in Counts /\ off' \subseteq Chat
           /\ \A h \in Chat :
                 LET lost == {j \in 1..Len(wire) : /\ wire[j].chat = h
                                                   /\ wire[j].kind \notin {"sync", "status"}}
                 IN /\ lost # {} => h \in off'
                    /\ \A j \in lost : wire[j].n <= heard'[h]
                    /\ heard[h] <= heard'[h]
                    /\ heard'[h] = heard[h] \/ \E j \in lost : heard'[h] = wire[j].n
           /\ off' = off \cup {h \in Chat : \E j \in 1..Len(wire) :
                                  wire[j].chat = h /\ wire[j].kind \notin {"sync", "status"}}
<1>. DEFINE gone(h) == {j \in DOMAIN wire : wire[j].chat = h /\ wire[j].kind # "sync"}
            lost(h) == {j \in gone(h) : wire[j].kind # "status"}
            V(h) == {heard[h]} \cup {wire[j].n : j \in lost(h)}
<1>1. /\ off' = off \cup {h \in Chat : lost(h) # {}}
      /\ heard' = [h \in Chat |-> Newest({heard[h]} \cup {wire[j].n : j \in lost(h)})]
  BY Zenon DEF Drop
<1>2. DOMAIN wire = 1..Len(wire) /\ Len(wire) \in Nat
  BY LenProperties DEF WireTypes
<1>3. ASSUME NEW h \in Chat
      PROVE  /\ Newest(V(h)) \in V(h) /\ \A x \in V(h) : x <= Newest(V(h))
             /\ \A x \in V(h) : x \in Nat
  <2>1. \A j \in lost(h) : wire[j].n \in Nat
    <3>1. \A j \in 1..Len(wire) : wire[j] \in EventRecord
      BY ElementOfSeq DEF WireTypes
    <3>. QED  BY <1>2, <3>1 DEF EventRecord
  <2>2. heard[h] \in Nat
    BY DEF ListTypes, Counts
  <2>3. IsFiniteSet(lost(h))
    <3>1. lost(h) \subseteq 1..Len(wire) /\ IsFiniteSet(1..Len(wire))
      BY <1>2, FS_Interval
    <3>. QED  BY <3>1, FS_Subset
  <2>4. IsFiniteSet({wire[j].n : j \in lost(h)})
    <3>. DEFINE T == lost(h)
                f == [j \in T |-> wire[j].n]
                U == {wire[j].n : j \in T}
    <3>1. IsFiniteSet(T)
      BY <2>3
    <3>2. f \in Surjection(T, U)
      <4>. HIDE DEF T
      <4>. QED  BY DEF Surjection
    <3>. HIDE DEF T, f, U
    <3>3. IsFiniteSet(U)
      BY <3>1, <3>2, FS_Surjection
    <3>. QED  BY <3>3 DEF T, U
  <2>5. IsFiniteSet(V(h))
    BY <2>4, FS_Singleton, FS_Union, Zenon
  <2>6. \A x \in V(h) : x \in Nat
    BY <2>1, <2>2
  <2>. QED  BY <2>5, <2>6, NewestIs
<1>4. \A h \in Chat : heard'[h] = Newest(V(h))
  BY <1>1
<1>5. heard' \in Counts /\ off' \subseteq Chat
  <2>1. \A h \in Chat : Newest(V(h)) \in Nat
    BY <1>3
  <2>. HIDE DEF V
  <2>2. heard' = [h \in Chat |-> Newest(V(h))]
    BY <1>1 DEF V
  <2>. QED  BY <1>1, <2>1, <2>2 DEF Counts, ListTypes
<1>6. ASSUME NEW h \in Chat
      PROVE  lost(h) = {j \in 1..Len(wire) : /\ wire[j].chat = h
                                             /\ wire[j].kind \notin {"sync", "status"}}
  BY <1>2
<1>7. off' = off \cup {h \in Chat : \E j \in 1..Len(wire) :
                                  wire[j].chat = h /\ wire[j].kind \notin {"sync", "status"}}
  BY <1>1, <1>2
<1>8. ASSUME NEW h \in Chat
      PROVE  LET L == {j \in 1..Len(wire) : /\ wire[j].chat = h
                                            /\ wire[j].kind \notin {"sync", "status"}}
             IN /\ L # {} => h \in off'
                /\ \A j \in L : wire[j].n <= heard'[h]
                /\ heard[h] <= heard'[h]
                /\ heard'[h] = heard[h] \/ \E j \in L : heard'[h] = wire[j].n
  <2>1. heard[h] \in V(h) /\ (\A j \in lost(h) : wire[j].n \in V(h))
        /\ \A x \in V(h) : x = heard[h] \/ \E j \in lost(h) : x = wire[j].n
    OBVIOUS
  <2>. HIDE DEF V
  <2>2. heard'[h] \in V(h) /\ \A x \in V(h) : x <= heard'[h]
    BY <1>3, <1>4
  <2>3. lost(h) # {} => h \in off'
    BY <1>1
  <2>. HIDE DEF lost
  <2>. QED  BY <1>6, <2>1, <2>2, <2>3
<1>. QED  BY <1>5, <1>7, <1>8

\* What a step of another kind leaves as it was.
ListStays == /\ list' = list /\ listing' = listing /\ known' = known /\ moved' = moved /\ short' = short

\* What was heard of a chat only rises.
LEMMA UpIs ==
    ASSUME ListTypes, NEW h \in Chat, NEW n \in Nat, Up(h, n)
    PROVE  /\ heard' \in Counts /\ heard'[h] = (IF n > heard[h] THEN n ELSE heard[h])
           /\ \A g \in Chat : g # h => heard'[g] = heard[g]
BY DEF ListTypes, Counts, Up

\* What message:new
LEMMA HearNewIs ==
    ASSUME ServerTypes, ListTypes, NEW e \in ToSet(wire), HearNew(e)
    PROVE  LET h == e.chat
           IN  /\ h \in Chat /\ e.msg \in 1..Len(log) /\ e.n = log[e.msg].n /\ e.kind = "new"
               /\ h = log[e.msg].chat /\ e \in EventRecord /\ e.n \in Nat
               /\ log' = log /\ e = wire[1] /\ wire # <<>> /\ wire' = Tail(wire)
               /\ UNCHANGED <<unread, changes, due, marks, online, pinned, active, opening, choosing>>
               /\ known' = known \cup {e.msg} /\ Up(h, e.n) /\ Reload(h)
               /\ h \in DOMAIN list =>
                     /\ UNCHANGED <<listing, moved, short>>
                     /\ list' = [list EXCEPT ![h] = IF log[e.msg].fromMe THEN 0
                                                    ELSE IF e.msg \in known THEN @ ELSE @ + 1]
                     /\ off' = IF \/ e.n = heard[h] + 1
                                  \/ e.msg \in known /\ (~log[e.msg].fromMe \/ e.n = heard[h])
                               THEN off ELSE off \cup {h}
               /\ h \notin DOMAIN list => LoadChats /\ list' = list /\ off' = off
<1>1. e.kind = "new" /\ Heard(e)
  BY Zenon DEF HearNew
<1>2. e \in EventRecord /\ EventTyped(e, log)
  BY WireHas DEF ServerTypes
<1>3. e.chat \in Chat /\ e.msg \in 1..Len(log) /\ e.n = log[e.msg].n /\ e.chat = log[e.msg].chat
      /\ e.n \in Nat
  BY <1>1, <1>2 DEF EventTyped, EventRecord
<1>4. /\ e = Head(wire) /\ wire # <<>> /\ wire' = Tail(wire) /\ log' = log
      /\ UNCHANGED <<unread, changes, due, marks, online, pinned, active, opening, choosing>>
  BY <1>1, Zenon DEF Heard
<1>5. Head(wire) = wire[1]
  BY <1>4 DEF ServerTypes, WireTypes
<1>6. known' = known \cup {e.msg} /\ Up(e.chat, e.n) /\ Reload(e.chat)
  BY Zenon DEF HearNew
<1>7. e.chat \in DOMAIN list =>
         /\ UNCHANGED <<listing, moved, short>>
         /\ list' = [list EXCEPT ![e.chat] = IF log[e.msg].fromMe THEN 0
                                             ELSE IF e.msg \in known THEN @ ELSE @ + 1]
         /\ off' = IF \/ e.n = heard[e.chat] + 1
                      \/ e.msg \in known /\ (~log[e.msg].fromMe \/ e.n = heard[e.chat])
                   THEN off ELSE off \cup {e.chat}
  BY Zenon DEF HearNew, NoLoadChats, IsDuplicate
<1>8. e.chat \notin DOMAIN list => LoadChats /\ list' = list /\ off' = off
  BY Zenon DEF HearNew
<1>. QED  BY <1>1, <1>2, <1>3, <1>4, <1>5, <1>6, <1>7, <1>8, Zenon

\* and chat:update do to the list.
LEMMA HearUpdateIs ==
    ASSUME ServerTypes, ListTypes, NEW e \in ToSet(wire), HearUpdate(e)
    PROVE  LET h == e.chat
               n == Newest({heard[h], e.n})
           IN  /\ h \in Chat /\ e.kind = "update" /\ e \in EventRecord
               /\ e.n \in Nat /\ e.count \in Nat /\ e.seen \in Nat
               /\ log' = log /\ e = wire[1] /\ wire # <<>> /\ wire' = Tail(wire)
               /\ UNCHANGED <<unread, changes, due, marks, online, pinned, active, opening, choosing>>
               /\ UNCHANGED <<listing, moved, short, known>> /\ Up(h, e.n) /\ NoLoad
               /\ n = IF e.n > heard[h] THEN e.n ELSE heard[h]
               /\ h \in DOMAIN list =>
                     /\ list' = [list EXCEPT ![h] = IF e.count = 0 THEN 0 ELSE @]
                     /\ off' = IF e.n = heard[h] + 1 /\ e.count = 0 THEN off ELSE off \cup {h}
               /\ h \notin DOMAIN list =>
                     /\ list' = [g \in DOMAIN list \cup {h} |-> IF g = h THEN e.count ELSE list[g]]
                     /\ off' = IF e.seen = n THEN off \ {h} ELSE off \cup {h}
<1>1. e.kind = "update" /\ Heard(e)
  BY Zenon DEF HearUpdate
<1>2. e \in EventRecord /\ EventTyped(e, log)
  BY WireHas DEF ServerTypes
<1>3. e.chat \in Chat /\ e.n \in Nat /\ e.count \in Nat /\ e.seen \in Nat
  BY <1>1, <1>2 DEF EventTyped, EventRecord
<1>4. /\ e = Head(wire) /\ wire # <<>> /\ wire' = Tail(wire) /\ log' = log
      /\ UNCHANGED <<unread, changes, due, marks, online, pinned, active, opening, choosing>>
  BY <1>1, Zenon DEF Heard
<1>5. Head(wire) = wire[1]
  BY <1>4 DEF ServerTypes, WireTypes
<1>6. known' = known /\ Up(e.chat, e.n) /\ NoLoad /\ NoLoadChats
  BY Zenon DEF HearUpdate
<1>7. e.chat \in DOMAIN list =>
         /\ list' = [list EXCEPT ![e.chat] = IF e.count = 0 THEN 0 ELSE @]
         /\ off' = IF e.n = heard[e.chat] + 1 /\ e.count = 0 THEN off ELSE off \cup {e.chat}
  BY Zenon DEF HearUpdate
<1>8. e.chat \notin DOMAIN list =>
         /\ list' = [g \in DOMAIN list \cup {e.chat} |-> IF g = e.chat THEN e.count ELSE list[g]]
         /\ off' = IF e.seen = Newest({heard[e.chat], e.n}) THEN off \ {e.chat} ELSE off \cup {e.chat}
  BY Zenon DEF HearUpdate
<1>9. Newest({heard[e.chat], e.n}) = IF e.n > heard[e.chat] THEN e.n ELSE heard[e.chat]
  <2>1. heard[e.chat] \in Nat
    BY <1>3 DEF ListTypes, Counts
  <2>. DEFINE S == {heard[e.chat], e.n}
  <2>2. IsFiniteSet(S) /\ S # {} /\ \A x \in S : x \in Nat
    <3>1. IsFiniteSet({heard[e.chat]} \cup {e.n})
      BY FS_Singleton, FS_Union, Zenon
    <3>2. S = {heard[e.chat]} \cup {e.n}
      OBVIOUS
    <3>. QED  BY <1>3, <2>1, <3>1, <3>2
  <2>3. Newest(S) \in S /\ \A x \in S : x <= Newest(S)
    BY <2>2, NewestIs
  <2>. QED  BY <1>3, <2>1, <2>3
<1>10. UNCHANGED <<listing, moved, short, known>>
  BY <1>6 DEF NoLoadChats
<1>. QED  BY <1>1, <1>2, <1>3, <1>4, <1>5, <1>6, <1>7, <1>8, <1>9, <1>10, Zenon

\* The list stays typed.
LEMMA ListNext ==
    ServerTypes /\ ListTypes /\ [InboxNext]_inboxVars => ListTypes'
<1>. SUFFICES ASSUME ServerTypes, ListTypes, [InboxNext]_inboxVars  PROVE ListTypes'
  OBVIOUS
<1>0. /\ LogTypes /\ known \subseteq 1..Len(log')
  <2>1. LogTypes
    BY DEF ServerTypes
  <2>2. \A m \in known : m \in 1..Len(log')
    BY <2>1, LogNext DEF ListTypes
  <2>. QED  BY <2>1, <2>2
<1>1. ASSUME LoadChats
      PROVE  listing' \in ListingRecord /\ listing'.step # "served" /\ moved' \subseteq Chat
             /\ short' \in BOOLEAN
  BY <1>1, FirstPageIs DEF LoadChats
<1>2. CASE ListServe
  <2>1. /\ listing' \in ListingRecord /\ UNCHANGED <<list, known, heard, off, moved, short>>
        /\ listing'.step = "served" => listing'.count = unread /\ listing'.seen = changes
    BY <1>0, <1>2, ListServeIs
  <2>. QED  BY <1>0, <2>1 DEF ListTypes, LogTypes, Counts
<1>3. CASE ListAnswer
  <2>1. /\ listing' \in ListingRecord /\ listing'.step # "served"
        /\ UNCHANGED <<known, heard, moved, short>>
    BY <1>0, <1>3, ListAnswerIs
  <2>2. DOMAIN list' \subseteq Chat /\ list' \in [DOMAIN list' -> Nat]
    <3>. DEFINE kept == IF listing.page = 1 THEN {} ELSE DOMAIN list
                new  == listing.rows \ kept
    <3>1. list' \in [kept \cup new -> Nat] /\ kept \cup new \subseteq Chat
      BY <1>0, <1>3, ListAnswerIs
    <3>. QED  BY <3>1
  <2>3. off' \subseteq Chat
    <3>. DEFINE kept == IF listing.page = 1 THEN {} ELSE DOMAIN list
                new  == listing.rows \ kept
    <3>1. off' = (off \ new) \cup {h \in new : listing.seen[h] # heard[h]}
      BY <1>0, <1>3, ListAnswerIs
    <3>2. listing.rows \subseteq Chat
      BY DEF ListTypes, ListingRecord
    <3>. QED  BY <3>1, <3>2 DEF ListTypes
  <2>. QED  BY <1>0, <2>1, <2>2, <2>3 DEF ListTypes
<1>4. CASE ListFails
  BY <1>0, <1>4, FirstPageIs DEF ListTypes, ListFails
<1>5. CASE InboxReady
  <2>1. LoadChats /\ UNCHANGED <<list, known, heard, off>>
    BY <1>5, Zenon DEF InboxReady
  <2>. QED  BY <1>0, <1>1, <2>1 DEF ListTypes
<1>6. ASSUME NEW h \in Chat, NEW mine \in BOOLEAN, Arrive(h, mine)  PROVE ListTypes'
  <2>1. UNCHANGED <<list, listing, known, heard, off, short>>
        /\ moved' = IF listing.step = "none" THEN moved ELSE moved \cup {h}
    BY <1>6 DEF Arrive
  <2>. QED  BY <1>0, <2>1 DEF ListTypes
<1>7. ASSUME NEW e \in EventRecord, e.kind # "sync" => e.chat \in Chat, Publish(e), ListStays
      PROVE  ListTypes'
  <2>1. heard' \in Counts /\ off' \subseteq Chat
    BY <1>7, PublishList DEF ServerTypes
  <2>. QED  BY <1>0, <1>7, <2>1 DEF ListTypes, ListStays
<1>8. \A m \in 1..Len(log) : Announce(m) \/ Repeat(m) => ListTypes'
  <2>1. \A m : Announce(m) \/ Repeat(m) => Publish(New(m)) /\ ListStays
    BY DEF Announce, Repeat, ListStays
  <2>. QED  BY <1>0, <1>7, <2>1, NewIs
<1>9. \A h \in Chat : Status(h) => ListTypes'
  <2>1. \A h : Status(h) => Publish(Plain("status", h)) /\ ListStays
    BY DEF Status, ListStays
  <2>. QED  BY <1>7, <2>1, PlainIs
<1>10. SyncCompleted => ListTypes'
  <2>1. SyncCompleted => Publish(Plain("sync", NoChat)) /\ ListStays
    BY DEF SyncCompleted, ListStays
  <2>. QED  BY <1>7, <2>1, PlainIs
<1>11. \A k \in marks : MarkTell(k) => ListTypes'
  <2>1. \A k : MarkTell(k) => Publish(Update(k)) /\ ListStays
    BY Zenon DEF MarkTell, ListStays
  <2>. QED  BY <1>7, <2>1, UpdateIs DEF ServerTypes, MarkTypes
<1>12. ASSUME NEW k \in marks, MarkAnswer(k)  PROVE ListTypes'
  <2>1. /\ UNCHANGED <<listing, known, heard, moved, short>>
        /\ \/ active \in DOMAIN list /\ list' = [list EXCEPT ![active] = 0]
              /\ (off' = off \/ off' = off \cup {active})
           \/ UNCHANGED <<list, off>>
    BY <1>12 DEF MarkAnswer
  <2>. QED  BY <1>0, <2>1 DEF ListTypes
<1>13. CASE Drop
  <2>1. ListStays
    BY <1>13 DEF Drop, ListStays
  <2>2. heard' \in Counts /\ off' \subseteq Chat
    BY <1>13, DropList DEF ServerTypes
  <2>. QED  BY <1>0, <2>1, <2>2 DEF ListTypes, ListStays
<1>14. ASSUME NEW e \in ToSet(wire), HearNew(e)  PROVE ListTypes'
  <2>. DEFINE h == e.chat
  <2>1. /\ h \in Chat /\ e.msg \in 1..Len(log') /\ known' = known \cup {e.msg}
        /\ heard' \in Counts
    BY <1>14, HearNewIs, UpIs
  <2>2. CASE h \in DOMAIN list
    <3>1. UNCHANGED <<listing, moved, short>> /\ (off' = off \/ off' = off \cup {h})
      BY <1>14, <2>2, HearNewIs
    <3>2. list' = [list EXCEPT ![h] = IF log[e.msg].fromMe THEN 0
                                      ELSE IF e.msg \in known THEN list[h] ELSE list[h] + 1]
      BY <1>14, <2>2, HearNewIs
    <3>3. DOMAIN list' \subseteq Chat /\ list' \in [DOMAIN list' -> Nat]
      <4>. DEFINE x == IF log[e.msg].fromMe THEN 0
                       ELSE IF e.msg \in known THEN list[h] ELSE list[h] + 1
      <4>1. x \in Nat
        BY <2>2 DEF ListTypes
      <4>. HIDE DEF x
      <4>. QED  BY <2>2, <3>2, <4>1 DEF ListTypes
    <3>. QED  BY <1>0, <2>1, <3>1, <3>3 DEF ListTypes
  <2>3. CASE h \notin DOMAIN list
    <3>1. LoadChats /\ list' = list /\ off' = off
      BY <1>14, <2>3, HearNewIs
    <3>. QED  BY <1>0, <1>1, <2>1, <3>1 DEF ListTypes
  <2>. QED  BY <2>2, <2>3
<1>15. ASSUME NEW e \in ToSet(wire), HearUpdate(e)  PROVE ListTypes'
  <2>. DEFINE h == e.chat
  <2>1. /\ h \in Chat /\ e.count \in Nat /\ heard' \in Counts /\ UNCHANGED <<listing, moved, short, known>>
    BY <1>15, HearUpdateIs, UpIs
  <2>2. CASE h \in DOMAIN list
    <3>1. off' \subseteq off \cup {h}
      BY <1>15, <2>2, HearUpdateIs
    <3>2. list' = [list EXCEPT ![h] = IF e.count = 0 THEN 0 ELSE @]
      BY <1>15, <2>2, HearUpdateIs
    <3>. QED  BY <1>0, <2>1, <2>2, <3>1, <3>2 DEF ListTypes
  <2>3. CASE h \notin DOMAIN list
    <3>1. off' \subseteq off \cup {h}
      BY <1>15, <2>3, HearUpdateIs
    <3>2. list' = [g \in DOMAIN list \cup {h} |-> IF g = h THEN e.count ELSE list[g]]
      BY <1>15, <2>3, HearUpdateIs
    <3>. QED  BY <1>0, <2>1, <2>3, <3>1, <3>2 DEF ListTypes
  <2>. QED  BY <2>2, <2>3
<1>16. ASSUME NEW e \in ToSet(wire), HearSync(e)  PROVE ListTypes'
  <2>1. LoadChats /\ UNCHANGED <<list, known, heard, off>>
    BY <1>16, Zenon DEF HearSync
  <2>. QED  BY <1>0, <1>1, <2>1 DEF ListTypes
<1>17. CASE UNCHANGED listVars
  BY <1>0, <1>17 DEF ListTypes, listVars
<1>18. due \subseteq 1..Len(log)
  BY <1>0 DEF LogTypes
<1>. QED
  BY <1>2, <1>3, <1>4, <1>5, <1>6, <1>8, <1>9, <1>10, <1>11, <1>12, <1>13, <1>14, <1>15, <1>16, <1>17,
     <1>18, ListSteps

-----------------------------------------------------------------------------
(* What is attached and sent.                                              *)

SendTypes == \E f : \E s \in {"none", "upload", "post"} : sending = [step |-> s, file |-> f]
AttachInv == /\ attached # <<>> /\ active # NoChat => attached[1] = active
             /\ \A s \in sent : s.as[1] = s.to

\* The steps that touch what is attached,
LEMMA SendSteps ==
    [InboxNext]_inboxVars =>
        \/ ChooseInbox \/ Attach \/ Submit \/ Uploaded \/ UploadFails \/ Posted
        \/ \E h \in Chat : SelectChat(h)
        \/ UNCHANGED <<active, sendVars>>
<1>. DEFINE Due ==
        \/ ChooseInbox \/ Attach \/ Submit \/ Uploaded \/ UploadFails \/ Posted
        \/ \E h \in Chat : SelectChat(h)
        \/ UNCHANGED <<active, sendVars>>
<1>. SUFFICES [InboxNext]_inboxVars => Due
  OBVIOUS
<1>1. Loading => Due
  BY LoadingFrame
<1>2. Listing => Due
  BY ListingFrame DEF paneVars
<1>3. User => Due
  <2>1. InboxReady => Due
    BY Zenon DEF InboxReady
  <2>2. \A i : Assignees(i) => Due
    BY Zenon DEF Assignees
  <2>. QED  BY <2>1, <2>2 DEF User, LoadMore, Mark, paneVars
<1>4. Server => Due
  <2>1. \A e : Publish(e) => UNCHANGED active
    BY DEF Publish
  <2>. QED  BY <2>1 DEF Server, Arrive, Announce, Repeat, Status, SyncCompleted, MarkClear, MarkFetch,
              MarkTell, MarkAnswer, paneVars
<1>5. Socket => Due
  BY DEF Socket, Drop, ConnectWS, HearNew, HearStatus, HearUpdate, HearSync, Heard, paneVars
<1>6. UNCHANGED inboxVars => Due
  BY DEF inboxVars, paneVars
<1>. QED  BY <1>1, <1>2, <1>3, <1>4, <1>5, <1>6 DEF InboxNext

\* and they keep it with its chat.
LEMMA SendNext ==
    SendTypes /\ AttachInv /\ [InboxNext]_inboxVars => SendTypes' /\ AttachInv'
<1>. SUFFICES ASSUME SendTypes, AttachInv, [InboxNext]_inboxVars  PROVE SendTypes' /\ AttachInv'
  OBVIOUS
<1>. USE DEF AttachInv
<1>0. PICK f : \E s \in {"none", "upload", "post"} : sending = [step |-> s, file |-> f]
  BY DEF SendTypes
<1>1. CASE ChooseInbox
  BY <1>1 DEF ChooseInbox, sendVars, SendTypes
<1>2. CASE Attach
  BY <1>2 DEF Attach, paneVars, SendTypes
<1>3. CASE Submit
  <2>1. sending' = [step |-> "upload", file |-> attached] /\ UNCHANGED <<active, attached, sent>>
    BY <1>3 DEF Submit, paneVars
  <2>. QED  BY <2>1, Zenon DEF SendTypes
<1>4. CASE Uploaded
  <2>1. sending' = [step |-> "post", file |-> f] \/ sending' = [step |-> "none", file |-> f]
    BY <1>0, <1>4 DEF Uploaded
  <2>2. SendTypes'
    BY <2>1, Zenon DEF SendTypes
  <2>3. UNCHANGED <<active, attached>>
    BY <1>4 DEF Uploaded, paneVars
  <2>4. \/ sent' = sent
        \/ /\ attached # <<>> /\ active # NoChat
           /\ sent' = sent \cup {[file |-> sending.file, as |-> attached, to |-> active]}
    BY <1>4 DEF Uploaded
  <2>. QED  BY <2>2, <2>3, <2>4
<1>5. CASE UploadFails
  <2>1. sending' = [step |-> "none", file |-> f] /\ UNCHANGED <<active, attached, sent>>
    BY <1>0, <1>5 DEF UploadFails, paneVars
  <2>. QED  BY <2>1, Zenon DEF SendTypes
<1>6. CASE Posted
  <2>1. sending' = [step |-> "none", file |-> f] /\ UNCHANGED <<active, sent>>
        /\ (attached' = <<>> \/ attached' = attached)
    BY <1>0, <1>6 DEF Posted, paneVars
  <2>. QED  BY <2>1, Zenon DEF SendTypes
<1>7. ASSUME NEW h \in Chat, SelectChat(h)  PROVE SendTypes' /\ AttachInv'
  <2>1. UNCHANGED <<sending, sent>> /\ attached' = <<>>
    BY <1>7, Zenon DEF SelectChat, Cancelled
  <2>. QED  BY <2>1 DEF SendTypes
<1>8. CASE UNCHANGED <<active, sendVars>>
  BY <1>8 DEF sendVars, SendTypes
<1>. QED  BY <1>1, <1>2, <1>3, <1>4, <1>5, <1>6, <1>7, <1>8, SendSteps

-----------------------------------------------------------------------------
(* Type correctness, the messages that the pane shows, and attachments.    *)

InboxTypeInv == ServerTypes /\ PaneTypes /\ ListTypes /\ SendTypes
InboxSafeInv == InboxTypeInv /\ ScreenInv /\ AttachInv

LEMMA NothingIs ==
    ASSUME NEW n \in Nat
    PROVE  /\ Nothing \in PaneRecord(n) /\ Nothing.held = <<>> /\ Nothing.screen = <<>>
           /\ Nothing.next = 0 /\ ~Nothing.more
<1>1. ASSUME NEW s \in Seq(1..n)
      PROVE  [held |-> s, next |-> 0, more |-> FALSE, over |-> FALSE, screen |-> s, foot |-> "none"]
                \in PaneRecord(n)
  BY DEF PaneRecord, Foot
<1>2. Nothing \in PaneRecord(n)
  <2>1. <<>> \in Seq(1..n)
    OBVIOUS
  <2>. QED  BY <1>1, <2>1, Zenon DEF Nothing
<1>3. Nothing.held = <<>> /\ Nothing.screen = <<>> /\ Nothing.next = 0 /\ ~Nothing.more
  BY DEF Nothing
<1>. QED  BY <1>2, <1>3

\* At first everything is typed,
LEMMA InitTypes ==
    InboxInit => InboxTypeInv
<1>. SUFFICES ASSUME InboxInit  PROVE InboxTypeInv
  OBVIOUS
<1>1. LogTypes
  <2>1. log \in Seq([chat : Chat, fromMe : BOOLEAN, n : {0}])
    BY DEF InboxInit
  <2>2. [chat : Chat, fromMe : BOOLEAN, n : {0}] \subseteq LogRecord
    BY DEF LogRecord
  <2>3. log \in Seq(LogRecord)
    BY <2>1, <2>2, SeqMonotonic
  <2>. QED  BY <2>3 DEF InboxInit, LogTypes
<1>2. ChosenTypes
  <2>1. active \in Chat \cup {NoChat} /\ opening \in Nat
    <3>1. (active = NoChat /\ opening = 1) \/ (active \in Chat /\ opening = 0)
      BY Zenon DEF InboxInit
    <3>. QED  BY <3>1
  <2>2. admin \in BOOLEAN /\ left \in [Input -> Nat] /\ choosing \in Seq(Chat)
    BY DEF InboxInit
  <2>. QED  BY <2>1, <2>2 DEF ChosenTypes
<1>3. MarkTypes
  BY DEF InboxInit, MarkTypes
<1>4. WireTypes
  BY DEF InboxInit, WireTypes
<1>. DEFINE n == Len(log)
<1>5. n \in Nat
  BY <1>1, LogLength
<1>6. PaneTypes
  <2>1. pane \in PaneRecord(n) /\ marred \in BOOLEAN
    BY <1>5, NothingIs DEF InboxInit
  <2>2. loads = <<>> \/ \E h \in Chat : loads = <<Asking(h, FALSE, 0)>>
    BY DEF InboxInit
  <2>3. ASSUME NEW h \in Chat, NEW a, a = Asking(h, FALSE, 0), loads = <<a>>  PROVE PaneTypes
    <3>0. 0 \in 0..n /\ FALSE \in BOOLEAN
      BY <1>5
    <3>1. a \in LoadRecord(n) /\ AskedLoad(a, h, FALSE, 0)
      BY <1>5, <2>3, <3>0, AskingIs, Zenon
    <3>2. LoadTyped(a, log)
      BY <3>1 DEF AskedLoad, LoadTyped
    <3>. DEFINE R == LoadRecord(n)
    <3>3. loads \in Seq(R) /\ Len(loads) = 1 /\ loads[1] = a
      <4>1. a \in R
        BY <3>1
      <4>2. \A S : a \in S => <<a>> \in Seq(S) /\ Len(<<a>>) = 1 /\ <<a>>[1] = a
        OBVIOUS
      <4>. HIDE DEF R
      <4>. QED  BY <2>3, <4>1, <4>2, Zenon
    <3>. QED  BY <2>1, <3>2, <3>3 DEF PaneTypes
  <2>4. CASE loads = <<>>
    BY <2>1, <2>4 DEF PaneTypes
  <2>. QED  BY <2>2, <2>3, <2>4
<1>7. ListTypes
  <2>1. heard \in Counts /\ known = {} /\ off = {} /\ moved = {} /\ short = FALSE /\ listing = Resting
    BY <1>1 DEF InboxInit, LogTypes, Counts
  <2>2. DOMAIN list \subseteq Chat /\ list \in [DOMAIN list -> Nat]
    <3>1. list = <<>> \/ list \in [Chat -> Nat]
      BY DEF InboxInit
    <3>2. list = <<>> => DOMAIN list = {} /\ list \in [DOMAIN list -> Nat]
      OBVIOUS
    <3>. QED  BY <3>1, <3>2
  <2>. QED  BY <2>1, <2>2, FirstPageIs DEF ListTypes
<1>8. SendTypes
  BY Zenon DEF InboxInit, SendTypes
<1>. QED  BY <1>1, <1>2, <1>3, <1>4, <1>6, <1>7, <1>8 DEF InboxTypeInv, ServerTypes

\* and the pane is empty.
LEMMA InitSafe ==
    InboxInit => InboxSafeInv
<1>. SUFFICES ASSUME InboxInit  PROVE ScreenInv /\ AttachInv
  BY InitTypes DEF InboxSafeInv
<1>1. ScreenInv
  <2>1. pane.held = <<>> /\ pane.screen = <<>>
    BY DEF InboxInit, Nothing
  <2>. QED  BY <2>1 DEF ScreenInv, OfChat
<1>2. AttachInv
  BY DEF InboxInit, AttachInv
<1>. QED  BY <1>1, <1>2

\* Every step keeps the types.
LEMMA InboxTypeStep == InboxTypeInv /\ AttachInv /\ [InboxNext]_inboxVars => InboxTypeInv' /\ AttachInv'
<1>. SUFFICES ASSUME InboxTypeInv, AttachInv, [InboxNext]_inboxVars  PROVE InboxTypeInv' /\ AttachInv'
  OBVIOUS
<1>1. LogTypes /\ ChosenTypes /\ MarkTypes /\ WireTypes /\ ServerTypes
  BY DEF InboxTypeInv, ServerTypes
<1>2. LogTypes' /\ ChosenTypes' /\ MarkTypes' /\ WireTypes'
  BY <1>1, LogNext, ChosenNext, MarkNext, WireNext
<1>3. PaneTypes' /\ ListTypes' /\ SendTypes' /\ AttachInv'
  BY <1>1, PaneNext, ListNext, SendNext DEF InboxTypeInv
<1>. QED  BY <1>2, <1>3 DEF InboxTypeInv, ServerTypes

\* The invariants say what DashboardInv says.
LEMMA SafeIsRight == InboxSafeInv => DashboardInv
<1>. SUFFICES ASSUME InboxSafeInv  PROVE DashboardInv
  OBVIOUS
<1>. USE DEF InboxSafeInv, InboxTypeInv
<1>1. \A m \in 1..Len(log) : log[m].chat \in Chat
  BY LogRow DEF ServerTypes
<1>2. unread \in [Chat -> Nat] /\ due \subseteq 1..Len(log)
  BY DEF ServerTypes, LogTypes
<1>3. active \in Chat \cup {NoChat} /\ choosing \in Seq(Chat) /\ left \in [Input -> Nat]
  BY DEF ServerTypes, ChosenTypes
<1>4. pane \in PaneRecord(Len(log)) /\ Pane(pane)
  BY DEF PaneTypes, PaneRecord, Foot, Pane
<1>5. \A i \in DOMAIN loads : loads[i].chat \in Chat /\ loads[i].rows \in Seq(1..Len(log))
  <2>1. DOMAIN loads = 1..Len(loads)
    BY LenProperties DEF PaneTypes
  <2>. QED  BY <2>1, LoadHas, LoadRow
<1>6. DOMAIN list \subseteq Chat /\ known \subseteq 1..Len(log)
  BY DEF ListTypes
<1>7. sending.step \in {"none", "upload", "post"}
  BY DEF SendTypes
<1>8. InboxTypeOK
  BY <1>1, <1>2, <1>3, <1>4, <1>5, <1>6, <1>7 DEF InboxTypeOK
<1>9. AttachmentsGoHome
  BY DEF AttachInv, AttachmentsGoHome
<1>10. ScreenOfChat
  <2>. SUFFICES ASSUME active # NoChat, choosing = <<>>, NEW m \in ToSet(pane.screen)
                PROVE  log[m].chat = active
    BY DEF ScreenOfChat
  <2>1. OfChat(pane.screen, active) /\ pane.screen \in Seq(1..Len(log))
    BY <1>4 DEF ScreenInv, PaneRecord
  <2>2. PICK k \in 1..Len(pane.screen) : m = pane.screen[k]
    BY <2>1, LenProperties DEF ToSet
  <2>. QED  BY <2>1, <2>2 DEF OfChat
<1>. QED  BY <1>8, <1>9, <1>10 DEF DashboardInv

\* The pane of the dashboard shows messages of the open chat only, and an attachment
\* goes to the chat it was chosen for (selectChat, loadMessages, handleSendMessageSubmit).
THEOREM DashboardInvHolds == InboxSpec => []DashboardInv
<1>1. InboxInit => InboxSafeInv
  BY InitSafe
<1>2. InboxSafeInv /\ [InboxNext]_inboxVars => InboxSafeInv'
  BY InboxTypeStep, ScreenNext DEF InboxSafeInv, InboxTypeInv
<1>3. InboxSafeInv => DashboardInv
  BY SafeIsRight
<1>. QED  BY <1>1, <1>2, <1>3, PTL DEF InboxSpec

-----------------------------------------------------------------------------
(* What the pane is owed.                                                  *)

\* The messages of a chat among the first n of the log, and those before c (0: all).
Upto(rows, h, n) == {m \in 1..Len(rows) : rows[m].chat = h /\ m <= n}
Earlier(rows, h, c) == {m \in 1..Len(rows) : rows[m].chat = h /\ (c = 0 \/ m < c)}
\* The event of message m is still to come.
Carried(m) == m \in due \/ \E j \in 1..Len(wire) : wire[j].kind = "new" /\ wire[j].msg = m
AllCarried(h, n) == \A m \in Of(h) : m > n => Carried(m)
NewestOf(k, h) == loads[k].chat = h /\ loads[k].cursor = 0
Pending(h) == \E k \in 1..Len(loads) : NewestOf(k, h)
Later(i) == \E k \in 1..Len(loads) : k > i /\ NewestOf(k, loads[i].chat)
\* No selection of the open chat waits for its assignees.
Settles == active # NoChat /\ active \notin ToSet(choosing)

\* Messages that are there stay what they are.
LEMMA Growth ==
    ASSUME LogTypes, [InboxNext]_inboxVars, NEW h
    PROVE  /\ \A n \in 0..Len(log) : n \in 0..Len(log') /\ Upto(log', h, n) = Upto(log, h, n)
           /\ \A c \in 1..Len(log) : c \in 1..Len(log') /\ Earlier(log', h, c) = Earlier(log, h, c)
<1>1. /\ Len(log) \in Nat /\ Len(log') \in Nat /\ Len(log) <= Len(log')
      /\ \A m \in 1..Len(log) : m \in 1..Len(log') /\ log'[m] = log[m]
  BY LogNext
<1>2. ASSUME NEW n \in 0..Len(log)  PROVE n \in 0..Len(log') /\ Upto(log', h, n) = Upto(log, h, n)
  <2>1. \A m : m \in 1..Len(log') /\ m <= n => m \in 1..Len(log)
    BY <1>1
  <2>. QED  BY <1>1, <2>1 DEF Upto
<1>3. ASSUME NEW c \in 1..Len(log)
      PROVE  c \in 1..Len(log') /\ Earlier(log', h, c) = Earlier(log, h, c)
  <2>0. c # 0 /\ c \in Nat
    OBVIOUS
  <2>1. \A m : m \in 1..Len(log') /\ m < c => m \in 1..Len(log)
    BY <1>1
  <2>. QED  BY <1>1, <2>0, <2>1 DEF Earlier
<1>. QED  BY <1>2, <1>3

\* All the log is the newest page and those before it.
LEMMA PagesAre ==
    ASSUME LogTypes, NEW h
    PROVE  /\ Upto(log, h, Len(log)) = Of(h) /\ Earlier(log, h, 0) = Of(h)
           /\ \A c : Older(h, c) = Earlier(log, h, c)
           /\ \A n : Upto(log, h, n) \subseteq Of(h) /\ IsFiniteSet(Upto(log, h, n))
           /\ \A m \in Of(h) : m \in Nat
<1>1. Len(log) \in Nat
  BY LogLength
<1>2. Upto(log, h, Len(log)) = Of(h) /\ Earlier(log, h, 0) = Of(h)
  BY <1>1 DEF Upto, Earlier, Of
<1>3. \A c : Older(h, c) = Earlier(log, h, c)
  BY DEF Older, Earlier, Of
<1>4. \A n : Upto(log, h, n) \subseteq Of(h)
  BY DEF Upto, Of
<1>5. IsFiniteSet(Of(h)) /\ \A m \in Of(h) : m \in Nat
  BY OlderIs
<1>6. \A n : IsFiniteSet(Upto(log, h, n))
  BY <1>4, <1>5, FS_Subset
<1>. QED  BY <1>2, <1>3, <1>4, <1>5, <1>6

\* How an event can stop to be still to come.
LEMMA CarriedNext ==
    ASSUME ServerTypes, [InboxNext]_inboxVars, NEW m \in 1..Len(log), Carried(m)
    PROVE  \/ Carried(m)'
           \/ ~online /\ Announce(m)
           \/ Drop /\ \E j \in 1..Len(wire) : wire[j].kind = "new" /\ wire[j].msg = m
           \/ \E e \in ToSet(wire) : HearNew(e) /\ e.msg = m
<1>0. LogTypes /\ WireTypes /\ MarkTypes
  BY DEF ServerTypes
<1>1. wire \in Seq(EventRecord) /\ Len(wire) \in Nat
  BY <1>0, LenProperties DEF WireTypes
<1>2. CASE m \in due
  <2>1. \A h \in Chat, mine \in BOOLEAN : Arrive(h, mine) => m \in due'
    BY <1>2 DEF Arrive
  <2>2. \A k \in marks : MarkClear(k) => m \in due'
    BY <1>2 DEF MarkClear
  <2>3. ASSUME NEW x \in due, Announce(x)  PROVE Carried(m)' \/ (~online /\ Announce(m))
    <3>1. CASE x # m
      <4>1. due' = due \ {x}
        BY <2>3 DEF Announce
      <4>. QED  BY <1>2, <3>1, <4>1 DEF Carried
    <3>2. CASE x = m /\ online
      <4>1. wire' = Append(wire, New(m))
        BY <2>3, <3>2 DEF Announce, Publish
      <4>2. New(m) \in EventRecord /\ New(m).kind = "new" /\ New(m).msg = m
        BY <1>0, NewIs
      <4>3. Len(wire') = Len(wire) + 1 /\ wire'[Len(wire) + 1] = New(m)
        BY <1>1, <4>1, <4>2, AppendProperties
      <4>4. Len(wire) + 1 \in 1..Len(wire')
        BY <1>1, <4>3
      <4>. QED  BY <4>2, <4>3, <4>4 DEF Carried
    <3>. QED  BY <2>3, <3>1, <3>2
  <2>. QED  BY <1>2, <2>1, <2>2, <2>3, LogSteps DEF Carried
<1>3. ASSUME NEW j \in 1..Len(wire), wire[j].kind = "new", wire[j].msg = m
      PROVE  \/ Carried(m)'
             \/ Drop
             \/ \E e \in ToSet(wire) : HearNew(e) /\ e.msg = m
  <2>1. ASSUME NEW i \in 1..Len(wire'), wire'[i] = wire[j]  PROVE Carried(m)'
    BY <1>3, <2>1 DEF Carried
  <2>2. ASSUME wire' = wire  PROVE Carried(m)'
    BY <2>1, <2>2
  <2>3. ASSUME NEW e \in EventRecord, wire' = Append(wire, e)  PROVE Carried(m)'
    <3>1. j \in 1..Len(wire') /\ wire'[j] = wire[j]
      BY <1>1, <2>3, AppendProperties
    <3>. QED  BY <2>1, <3>1
  <2>4. ASSUME NEW e \in EventRecord, Publish(e)  PROVE Carried(m)'
    <3>1. wire' = wire \/ wire' = Append(wire, e)
      BY <2>4 DEF Publish
    <3>. QED  BY <2>2, <2>3, <3>1
  <2>5. \A x \in 1..Len(log) : Announce(x) \/ Repeat(x) => Carried(m)'
    <3>1. \A x : Announce(x) \/ Repeat(x) => Publish(New(x))
      BY DEF Announce, Repeat
    <3>. QED  BY <1>0, <2>4, <3>1, NewIs
  <2>6. \A h \in Chat : Status(h) => Carried(m)'
    <3>1. \A h : Status(h) => Publish(Plain("status", h))
      BY DEF Status
    <3>. QED  BY <2>4, <3>1, PlainIs
  <2>7. SyncCompleted => Carried(m)'
    <3>1. SyncCompleted => Publish(Plain("sync", NoChat))
      BY DEF SyncCompleted
    <3>. QED  BY <2>4, <3>1, PlainIs
  <2>8. \A k \in marks : MarkTell(k) => Carried(m)'
    <3>1. \A k : MarkTell(k) => Publish(Update(k))
      BY Zenon DEF MarkTell
    <3>. QED  BY <1>0, <2>4, <3>1, UpdateIs DEF MarkTypes
  <2>9. ConnectWS => Carried(m)'
    BY <2>2 DEF ConnectWS
  <2>10. ASSUME NEW e \in ToSet(wire), HearNew(e) \/ HearStatus(e) \/ HearUpdate(e) \/ HearSync(e)
         PROVE  Carried(m)' \/ (HearNew(e) /\ e.msg = m)
    <3>1. wire # <<>> /\ e = Head(wire) /\ wire' = Tail(wire)
      BY <2>10, Zenon DEF HearNew, HearStatus, HearUpdate, HearSync, Heard
    <3>2. CASE j = 1
      <4>1. e = wire[j]
        BY <1>1, <3>1, <3>2
      <4>. QED  BY <1>3, <2>10, <4>1 DEF HearStatus, HearUpdate, HearSync
    <3>3. CASE j # 1
      <4>1. j - 1 \in 1..Len(wire') /\ wire'[j - 1] = wire[j]
        BY <1>1, <3>1, <3>3, HeadTailProperties
      <4>. QED  BY <2>1, <4>1
    <3>. QED  BY <3>2, <3>3
  <2>11. due \subseteq 1..Len(log)
    BY <1>0 DEF LogTypes
  <2>. QED  BY <2>2, <2>5, <2>6, <2>7, <2>8, <2>9, <2>10, <2>11, WireSteps DEF Socket
<1>. QED  BY <1>2, <1>3 DEF Carried

\* The newest page of the chat that is open is asked for again.
Renewed ==
    \E load \in LoadRecord(Len(log)) :
        /\ loads' = Append(loads, load) /\ load.step = "asked"
        /\ load.chat = active' /\ load.cursor = 0

\* What may be behind is known to be.
Missing == /\ Olds /\ marred'
           /\ \A k \in 1..Len(loads) :
                 loads[k].chat = active /\ loads[k].step = "served" => loads'[k].stale

LEMMA RenewedIs ==
    ASSUME PaneTypes, ServerTypes, NEW silent, Asks(active', active', silent, 0)
    PROVE  Renewed
<1>1. PICK load \in LoadRecord(Len(log)) :
         AskedLoad(load, active', silent, 0) /\ loads' = Append(loads, load)
  BY AskIs
<1>. QED  BY <1>1, Zenon DEF AskedLoad, Renewed

\* When the pane settles it was settled, or a load was just asked.
LEMMA SettlesNext ==
    ASSUME PaneTypes, ServerTypes, [InboxNext]_inboxVars, Settles'
    PROVE  (Settles /\ active' = active) \/ Renewed
<1>1. choosing \in Seq(Chat) /\ DOMAIN choosing = 1..Len(choosing)
  BY LenProperties DEF ServerTypes, ChosenTypes
<1>2. ~ChooseInbox
  BY DEF ChooseInbox, Settles
<1>3. (InboxReady \/ UNCHANGED <<active, opening, choosing>>) => Settles /\ active' = active
  <2>1. InboxReady => UNCHANGED <<active, choosing>>
    BY Zenon DEF InboxReady
  <2>. QED  BY <2>1 DEF Settles
<1>4. ASSUME NEW h \in Chat, SelectChat(h)  PROVE Renewed
  <2>1. active' = h
    BY <1>4, Zenon DEF SelectChat
  <2>2. choosing' = Append(choosing, h) \/ Asks(h, h, FALSE, 0)
    BY <1>4, Asked
  <2>3. h \in ToSet(Append(choosing, h))
    <3>1. /\ Len(Append(choosing, h)) = Len(choosing) + 1 /\ Len(choosing) \in Nat
          /\ Append(choosing, h)[Len(choosing) + 1] = h
          /\ DOMAIN Append(choosing, h) = 1..(Len(choosing) + 1)
      BY <1>1, AppendProperties, LenProperties
    <3>2. Len(choosing) + 1 \in DOMAIN Append(choosing, h)
      BY <3>1
    <3>. QED  BY <3>1, <3>2 DEF ToSet
  <2>. QED  BY <2>1, <2>2, <2>3, RenewedIs DEF Settles
<1>5. ASSUME NEW i \in DOMAIN choosing, Assignees(i)
      PROVE  (Settles /\ active' = active) \/ Renewed
  <2>1. active' = active /\ choosing' = RemoveAt(choosing, i)
    BY <1>5, Zenon DEF Assignees
  <2>2. CASE choosing[i] = active
    <3>1. Asks(active, active, FALSE, 0)
      BY <1>5, <2>2, Asked
    <3>. QED  BY <2>1, <3>1, RenewedIs
  <2>3. CASE choosing[i] # active
    <3>1. ASSUME active \in ToSet(choosing)  PROVE active \in ToSet(choosing')
      <4>1. PICK j \in 1..Len(choosing) : choosing[j] = active
        BY <1>1, <3>1 DEF ToSet
      <4>2. /\ choosing' \in Seq(Chat) /\ Len(choosing') = Len(choosing) - 1
            /\ \A k \in 1..(Len(choosing) - 1) :
                  choosing'[k] = IF k < i THEN choosing[k] ELSE choosing[k + 1]
        BY <1>1, <2>1, Removed
      <4>3. j # i /\ Len(choosing) \in Nat
        BY <2>3, <4>1, <1>1
      <4>4. PICK k \in 1..Len(choosing') : choosing'[k] = active
        <5>1. CASE j < i
          <6>1. j \in 1..(Len(choosing) - 1)
            BY <5>1, <1>1, <4>3
          <6>. QED  BY <4>1, <4>2, <5>1, <6>1
        <5>2. CASE j > i
          <6>1. j - 1 \in 1..(Len(choosing) - 1) /\ ~(j - 1 < i) /\ (j - 1) + 1 = j
            BY <5>2, <1>1, <4>3
          <6>. QED  BY <4>1, <4>2, <6>1
        <5>. QED  BY <4>3, <5>1, <5>2, <1>1
      <4>. QED  BY <4>2, <4>4, LenProperties DEF ToSet
    <3>. QED  BY <2>1, <3>1 DEF Settles
  <2>. QED  BY <2>2, <2>3
<1>. QED  BY <1>2, <1>3, <1>4, <1>5, ChosenSteps

\* What is owed to the open chat stays on its way, or it is asked for or known to be missing.
LEMMA CarryNext ==
    ASSUME PaneTypes, ServerTypes, [InboxNext]_inboxVars, Settles', active' = active,
           NEW n \in 0..Len(log), AllCarried(active, n)
    PROVE  AllCarried(active, n)' \/ Missing \/ Renewed
<1>. SUFFICES ASSUME NEW m \in 1..Len(log'), log'[m].chat = active, m > n, ~Carried(m)'
              PROVE  Missing \/ Renewed
  BY DEF AllCarried, Of
<1>0. LogTypes /\ WireTypes /\ active \in Chat
  BY DEF ServerTypes, ChosenTypes, Settles
<1>1. CASE m \in 1..Len(log)
  <2>1. log[m].chat = active
    BY <1>0, <1>1, LogNext
  <2>2. Carried(m)
    BY <1>1, <2>1 DEF AllCarried, Of
  <2>3. CASE ~online /\ Announce(m)
    <3>1. Publish(New(m)) /\ New(m).kind = "new" /\ New(m).chat = active
      BY <1>0, <1>1, <2>1, <2>3, NewIs DEF Announce
    <3>. QED  BY <2>3, <3>1, PublishPane DEF Missing
  <2>4. ASSUME Drop, NEW j \in 1..Len(wire), wire[j].kind = "new", wire[j].msg = m  PROVE Missing
    <3>1. wire[j].chat = active /\ j \in DOMAIN wire
      BY <1>0, <2>1, <2>4, LenProperties DEF WireTypes, EventTyped
    <3>. QED  BY <1>0, <2>4, <3>1, DropPane DEF Missing
  <2>5. ASSUME NEW e \in ToSet(wire), HearNew(e), e.msg = m  PROVE Renewed
    <3>1. e.kind = "new" /\ Reload(e.chat)
      BY <2>5, Zenon DEF HearNew
    <3>2. e.chat = active
      BY <1>0, <2>1, <2>5, <3>1, WireHas DEF EventTyped
    <3>3. Asks(active, active, TRUE, 0)
      BY <1>0, <3>1, <3>2, Asked
    <3>. QED  BY <3>3, RenewedIs
  <2>. QED  BY <1>1, <2>2, <2>3, <2>4, <2>5, CarriedNext
<1>2. CASE m \notin 1..Len(log)
  <2>1. PICK h \in Chat, mine \in BOOLEAN : Arrive(h, mine)
    <3>1. log' # log
      BY <1>2
    <3>2. \A x \in due : Announce(x) => log' = log
      BY DEF Announce
    <3>3. \A k \in marks : MarkClear(k) => log' = log
      BY DEF MarkClear
    <3>. QED  BY <3>1, <3>2, <3>3, LogSteps
  <2>2. due' = due \cup {Len(log) + 1} /\ Len(log') = Len(log) + 1 /\ Len(log) \in Nat
    <3>1. due' = due \cup {Len(log) + 1}
      BY <2>1 DEF Arrive
    <3>2. \E r : log' = Append(log, r)
      BY <2>1 DEF Arrive
    <3>3. \A r : Len(Append(log, r)) = Len(log) + 1
      BY <1>0 DEF LogTypes
    <3>. QED  BY <1>0, <3>1, <3>2, <3>3, LogLength
  <2>3. m = Len(log) + 1
    BY <1>2, <2>2
  <2>. QED  BY <2>2, <2>3 DEF Carried
<1>. QED  BY <1>1, <1>2

SeenOlder(rows, x) ==
    LET S == Earlier(rows, x.chat, x.cursor)
    IN x.rows = Top(S, Page) /\ (x.more <=> Cardinality(S) > Page)
SeenNewest(rows, x, n) ==
    LET S == Upto(rows, x.chat, n)
    IN x.rows = Top(S, Page) /\ (x.more <=> Cardinality(S) > Page)

\* An answer on its way is a page of the log, as it was or is.
OlderSeen == \A i \in 1..Len(loads) :
    loads[i].step = "served" /\ loads[i].cursor # 0 => SeenOlder(log, loads[i])
NewestSeen == \A i \in 1..Len(loads) : loads[i].step = "served" /\ loads[i].cursor = 0 =>
    \E n \in 0..Len(log) :
        /\ SeenNewest(log, loads[i], n)
        /\ ~loads[i].stale /\ Settles /\ loads[i].chat = active => AllCarried(active, n) \/ Later(i)

\* Load k is now what load j was.
Origin(k, j) == /\ Same(loads'[k], loads[j])
                /\ Later(j) => Later(k)' \/ loads'[k].stale

\* When a load goes on as another, those after it do too.
LEMMA LoadsGoOn ==
    ASSUME NEW k \in 1..Len(loads'), NEW j \in 1..Len(loads), Same(loads'[k], loads[j]),
           \A q \in 1..Len(loads) : q > j =>
              \/ q # j /\ loads[q].chat = loads[j].chat /\ loads'[k].stale
              \/ loads[q].chat # loads[j].chat
              \/ \E p \in 1..Len(loads') : /\ p > k /\ loads'[p].chat = loads[q].chat
                                           /\ loads'[p].cursor = loads[q].cursor
    PROVE  Origin(k, j)
BY DEF Origin, Later, NewestOf, Same

\* Where load k was, when other loads are through or asked.
LEMMA OriginSettled ==
    ASSUME PaneTypes, ServerTypes, NEW i \in 1..Len(loads), NEW k \in 1..(Len(loads) - 1),
           Len(loads') >= Len(loads) - 1, Len(loads') \in Nat,
           \A q \in 1..(Len(loads) - 1) : loads'[q] = Settled(i)[q]
    PROVE  Was(k, i) \in 1..Len(loads) /\ Origin(k, Was(k, i))
<1>. DEFINE n == Len(log)
            j == Was(k, i)
<1>1. n \in Nat /\ loads \in Seq(LoadRecord(n)) /\ Len(loads) \in Nat /\ i \in Nat
  BY LogLength, LenProperties DEF ServerTypes, PaneTypes
<1>2. \A q \in 1..(Len(loads) - 1) :
         /\ Was(q, i) \in 1..Len(loads) /\ Same(loads'[q], loads[Was(q, i)])
         /\ q < i /\ loads[q].chat = loads[i].chat => loads'[q].stale
  BY <1>1, SettledIs, Zenon
<1>3. j \in 1..Len(loads) /\ Same(loads'[k], loads[j]) /\ k \in 1..Len(loads')
  BY <1>1, <1>2
<1>4. ASSUME NEW q \in 1..Len(loads), q > j
      PROVE  \/ q # j /\ loads[q].chat = loads[j].chat /\ loads'[k].stale
             \/ loads[q].chat # loads[j].chat
             \/ \E p \in 1..Len(loads') : /\ p > k /\ loads'[p].chat = loads[q].chat
                                          /\ loads'[p].cursor = loads[q].cursor
  <2>1. CASE q = i
    <3>1. k < i /\ j = k
      BY <1>1, <1>4, <2>1 DEF Was
    <3>. QED  BY <1>2, <1>4, <2>1, <3>1
  <2>2. CASE q # i
    <3>. DEFINE p == IF q < i THEN q ELSE q - 1
    <3>1. p \in 1..(Len(loads) - 1) /\ p > k /\ Was(p, i) = q
      BY <1>1, <1>4, <2>2 DEF Was
    <3>. HIDE DEF p
    <3>2. Same(loads'[p], loads[q]) /\ p \in 1..Len(loads')
      BY <1>1, <1>2, <3>1
    <3>. QED  BY <3>1, <3>2 DEF Same
  <2>. QED  BY <2>1, <2>2
<1>. HIDE DEF j
<1>5. Origin(k, j)
  BY <1>3, <1>4, LoadsGoOn
<1>. QED  BY <1>3, <1>5 DEF j

LEMMA OriginAppended ==
    ASSUME PaneTypes, NEW load, loads' = Append(loads, load)
    PROVE  /\ Len(loads') = Len(loads) + 1 /\ Len(loads) \in Nat /\ loads'[Len(loads) + 1] = load
           /\ \A k \in 1..Len(loads) : loads'[k] = loads[k] /\ Origin(k, k)
<1>1. /\ Len(loads') = Len(loads) + 1 /\ Len(loads) \in Nat /\ loads'[Len(loads) + 1] = load
      /\ \A k \in 1..Len(loads) : loads'[k] = loads[k]
  BY LenProperties DEF PaneTypes
<1>2. ASSUME NEW k \in 1..Len(loads)  PROVE Origin(k, k)
  <2>1. Same(loads'[k], loads[k]) /\ k \in 1..Len(loads')
    BY <1>1 DEF Same
  <2>2. \A q \in 1..Len(loads) : q > k =>
           \E p \in 1..Len(loads') : p > k /\ loads'[p] = loads[q]
    BY <1>1
  <2>. QED  BY <2>1, <2>2, LoadsGoOn
<1>. QED  BY <1>1, <1>2

\* A served load was served before, or is just now.
LEMMA OriginNext ==
    ASSUME PaneTypes, ServerTypes, [InboxNext]_inboxVars, NEW k \in 1..Len(loads'),
           loads'[k].step = "served"
    PROVE  \/ \E j \in 1..Len(loads) : Origin(k, j)
           \/ /\ log' = log
              /\ loads'[k].rows = Rows(loads'[k].chat, loads'[k].cursor)
              /\ loads'[k].more = HasMore(loads'[k].chat, loads'[k].cursor)
<1>0. Len(loads) \in Nat /\ Len(loads') \in Nat
  BY PaneNext, LenProperties DEF PaneTypes
<1>1. ASSUME NEW i \in 1..Len(loads), LoadServe(i)
      PROVE  \/ Origin(k, k) /\ k \in 1..Len(loads)
             \/ /\ log' = log
                /\ loads'[k].rows = Rows(loads'[k].chat, loads'[k].cursor)
                /\ loads'[k].more = HasMore(loads'[k].chat, loads'[k].cursor)
  <2>1. /\ Len(loads') = Len(loads) /\ log' = log
        /\ \A q \in 1..Len(loads) : q # i => loads'[q] = loads[q]
        /\ loads'[i].chat = loads[i].chat /\ loads'[i].cursor = loads[i].cursor
    BY <1>1, ServeIs
  <2>2. CASE k = i
    BY <1>1, <2>1, <2>2, ServeIs
  <2>3. CASE k # i
    <3>1. Same(loads'[k], loads[k]) /\ k \in 1..Len(loads)
      BY <2>1, <2>3 DEF Same
    <3>2. \A q \in 1..Len(loads) : q > k =>
             \E p \in 1..Len(loads') : /\ p > k /\ loads'[p].chat = loads[q].chat
                                       /\ loads'[p].cursor = loads[q].cursor
      BY <2>1
    <3>. QED  BY <3>1, <3>2, LoadsGoOn
  <2>. QED  BY <2>2, <2>3
<1>2. ASSUME NEW i \in 1..Len(loads), loads' = Settled(i)
      PROVE  \E j \in 1..Len(loads) : Origin(k, j)
  <2>1. Len(loads') = Len(loads) - 1
    BY <1>2, SettledTyped
  <2>2. Was(k, i) \in 1..Len(loads) /\ Origin(k, Was(k, i))
    BY <1>0, <1>2, <2>1, OriginSettled
  <2>. QED  BY <2>2
<1>3. ASSUME NEW i \in 1..Len(loads), NEW next, next.step = "asked", loads' = Append(Settled(i), next)
      PROVE  \E j \in 1..Len(loads) : Origin(k, j)
  <2>1. Len(Settled(i)) = Len(loads) - 1 /\ Settled(i) \in Seq(LoadRecord(Len(log)))
    BY SettledTyped
  <2>2. /\ Len(loads') = Len(loads) /\ loads'[Len(loads)] = next
        /\ \A q \in 1..(Len(loads) - 1) : loads'[q] = Settled(i)[q]
    BY <1>0, <1>3, <2>1
  <2>3. k \in 1..(Len(loads) - 1)
    BY <1>0, <1>3, <2>2
  <2>4. Was(k, i) \in 1..Len(loads) /\ Origin(k, Was(k, i))
    BY <1>0, <2>2, <2>3, OriginSettled
  <2>. QED  BY <2>4
<1>4. ASSUME NEW open, NEW h, NEW silent, NEW c, Asks(open, h, silent, c)
      PROVE  \E j \in 1..Len(loads) : Origin(k, j)
  <2>1. PICK load : AskedLoad(load, h, silent, c) /\ loads' = Append(loads, load)
    BY <1>4, AskIs
  <2>2. load.step # "served"
    BY <2>1 DEF AskedLoad
  <2>. QED  BY <1>0, <2>1, <2>2, OriginAppended
<1>5. ASSUME Olds  PROVE \E j \in 1..Len(loads) : Origin(k, j)
  <2>1. Len(loads') = Len(loads) /\ \A q \in 1..Len(loads) : Same(loads'[q], loads[q])
    BY <1>5 DEF Olds
  <2>2. \A q \in 1..Len(loads) : q > k =>
           \E p \in 1..Len(loads') : /\ p > k /\ loads'[p].chat = loads[q].chat
                                     /\ loads'[p].cursor = loads[q].cursor
    BY <2>1 DEF Same
  <2>. QED  BY <2>1, <2>2, LoadsGoOn
<1>6. \A i \in 1..Len(loads) : LoadAnswer(i) \/ LoadFails(i) => \E j \in 1..Len(loads) : Origin(k, j)
  BY <1>2, AnswerIs, FailsIs
<1>7. ASSUME NEW i \in 1..Len(loads), LoadLimited(i)
      PROVE  \E j \in 1..Len(loads) : Origin(k, j)
  <2>1. loads' = Settled(i) \/ \E next : next.step = "asked" /\ loads' = Append(Settled(i), next)
    BY <1>7, LimitedIs
  <2>. QED  BY <1>2, <1>3, <2>1
<1>. QED  BY <1>1, <1>4, <1>5, <1>6, <1>7, PaneChanges

\* Answers on their way stay true to some moment of the log.
LEMMA OlderSeenNext ==
    PaneTypes /\ ServerTypes /\ OlderSeen /\ [InboxNext]_inboxVars => OlderSeen'
<1>. SUFFICES ASSUME PaneTypes, ServerTypes, OlderSeen, [InboxNext]_inboxVars,
                     NEW k \in 1..Len(loads'), loads'[k].step = "served", loads'[k].cursor # 0
              PROVE  SeenOlder(log', loads'[k])
  BY DEF OlderSeen
<1>1. ASSUME NEW j \in 1..Len(loads), Same(loads'[k], loads[j])
      PROVE  SeenOlder(log', loads'[k])
  <2>1. /\ loads'[k].chat = loads[j].chat /\ loads'[k].cursor = loads[j].cursor
        /\ loads'[k].rows = loads[j].rows /\ loads'[k].more = loads[j].more
        /\ loads'[k].step = loads[j].step
    BY <1>1 DEF Same
  <2>2. SeenOlder(log, loads[j])
    BY <2>1 DEF OlderSeen
  <2>3. loads[j].cursor \in 1..Len(log)
    <3>1. loads[j].cursor \in 0..Len(log) /\ loads[j].cursor # 0
      BY <2>1, LoadHas, LoadRow
    <3>2. Len(log) \in Nat
      BY LogLength DEF ServerTypes
    <3>. QED  BY <3>1, <3>2
  <2>4. Earlier(log', loads[j].chat, loads[j].cursor) = Earlier(log, loads[j].chat, loads[j].cursor)
    BY <2>3, Growth DEF ServerTypes
  <2>. QED  BY <2>1, <2>2, <2>4 DEF SeenOlder
<1>2. ASSUME log' = log, loads'[k].rows = Rows(loads'[k].chat, loads'[k].cursor),
             loads'[k].more = HasMore(loads'[k].chat, loads'[k].cursor)
      PROVE  SeenOlder(log', loads'[k])
  <2>1. \A h, c : Older(h, c) = Earlier(log, h, c)
    BY PagesAre DEF ServerTypes
  <2>2. loads'[k].rows = Top(Earlier(log, loads'[k].chat, loads'[k].cursor), Page)
    BY <1>2, <2>1 DEF Rows
  <2>3. loads'[k].more <=> Cardinality(Earlier(log, loads'[k].chat, loads'[k].cursor)) > Page
    BY <1>2, <2>1 DEF HasMore
  <2>. QED  BY <1>2, <2>2, <2>3 DEF SeenOlder
<1>. QED  BY <1>1, <1>2, OriginNext DEF Origin

LEMMA NewestSeenNext ==
    PaneTypes /\ ServerTypes /\ NewestSeen /\ [InboxNext]_inboxVars => NewestSeen'
<1>. SUFFICES ASSUME PaneTypes, ServerTypes, NewestSeen, [InboxNext]_inboxVars,
                     NEW k \in 1..Len(loads'), loads'[k].step = "served", loads'[k].cursor = 0
              PROVE  \E n \in 0..Len(log') :
                        /\ SeenNewest(log', loads'[k], n)
                        /\ ~loads'[k].stale /\ Settles' /\ loads'[k].chat = active'
                              => AllCarried(active, n)' \/ Later(k)'
  BY DEF NewestSeen
<1>. DEFINE Due(n) == ~loads'[k].stale /\ Settles' /\ loads'[k].chat = active'
                         => AllCarried(active, n)' \/ Later(k)'
<1>. SUFFICES \E n \in 0..Len(log') : SeenNewest(log', loads'[k], n) /\ Due(n)
  OBVIOUS
<1>0. LogTypes /\ Len(log) \in Nat /\ Len(log') \in Nat
  BY LogNext DEF ServerTypes
<1>1. ASSUME NEW j \in 1..Len(loads), Same(loads'[k], loads[j])
      PROVE  \E n \in 0..Len(log) :
                /\ n \in 0..Len(log') /\ SeenNewest(log', loads'[k], n)
                /\ ~loads[j].stale /\ Settles /\ loads[j].chat = active => AllCarried(active, n) \/ Later(j)
  <2>1. /\ loads'[k].chat = loads[j].chat /\ loads'[k].cursor = loads[j].cursor
        /\ loads'[k].rows = loads[j].rows /\ loads'[k].more = loads[j].more
        /\ loads'[k].step = loads[j].step
    BY <1>1 DEF Same
  <2>2. PICK n \in 0..Len(log) :
           /\ SeenNewest(log, loads[j], n)
           /\ ~loads[j].stale /\ Settles /\ loads[j].chat = active => AllCarried(active, n) \/ Later(j)
    BY <2>1 DEF NewestSeen
  <2>3. n \in 0..Len(log') /\ Upto(log', loads[j].chat, n) = Upto(log, loads[j].chat, n)
    BY <1>0, Growth
  <2>4. SeenNewest(log', loads'[k], n)
    BY <2>1, <2>2, <2>3 DEF SeenNewest
  <2>. QED  BY <2>2, <2>3, <2>4
<1>2. ASSUME NEW j \in 1..Len(loads), Origin(k, j), ~Renewed, ~Missing
      PROVE  \E n \in 0..Len(log') : SeenNewest(log', loads'[k], n) /\ Due(n)
  <2>1. Same(loads'[k], loads[j]) /\ (Later(j) => Later(k)' \/ loads'[k].stale)
    BY <1>2 DEF Origin
  <2>2. PICK n \in 0..Len(log) :
           /\ n \in 0..Len(log') /\ SeenNewest(log', loads'[k], n)
           /\ ~loads[j].stale /\ Settles /\ loads[j].chat = active => AllCarried(active, n) \/ Later(j)
    BY <1>1, <2>1
  <2>3. ASSUME ~loads'[k].stale, Settles', loads'[k].chat = active'
        PROVE  AllCarried(active, n)' \/ Later(k)'
    <3>1. Settles /\ active' = active
      BY <1>2, <2>3, SettlesNext
    <3>2. AllCarried(active, n) \/ Later(k)'
      BY <2>1, <2>2, <2>3, <3>1 DEF Same
    <3>. QED  BY <1>2, <2>3, <3>1, <3>2, CarryNext
  <2>. QED  BY <2>2, <2>3
<1>3. CASE Missing
  <2>1. k \in 1..Len(loads) /\ Same(loads'[k], loads[k])
    BY <1>3 DEF Missing, Olds
  <2>2. PICK n \in 0..Len(log) : n \in 0..Len(log') /\ SeenNewest(log', loads'[k], n)
    BY <1>1, <2>1
  <2>3. ASSUME ~loads'[k].stale, Settles', loads'[k].chat = active', ~Renewed  PROVE FALSE
    <3>1. active' = active
      BY <2>3, SettlesNext
    <3>2. loads[k].chat = active /\ loads[k].step = "served"
      BY <2>1, <2>3, <3>1 DEF Same
    <3>. QED  BY <1>3, <2>1, <2>3, <3>2 DEF Missing
  <2>4. ~Renewed
    <3>1. Len(loads') = Len(loads)
      BY <1>3 DEF Missing, Olds
    <3>2. \A load : loads' = Append(loads, load) => Len(loads') = Len(loads) + 1 /\ Len(loads) \in Nat
      BY OriginAppended
    <3>. QED  BY <3>1, <3>2 DEF Renewed
  <2>. QED  BY <2>2, <2>3, <2>4
<1>4. CASE Renewed
  <2>1. PICK load : /\ loads' = Append(loads, load) /\ load.step = "asked"
                    /\ load.chat = active' /\ load.cursor = 0
    BY <1>4 DEF Renewed
  <2>2. /\ Len(loads') = Len(loads) + 1 /\ Len(loads) \in Nat /\ loads'[Len(loads) + 1] = load
        /\ \A q \in 1..Len(loads) : loads'[q] = loads[q] /\ Origin(q, q)
    BY <2>1, OriginAppended
  <2>3. k \in 1..Len(loads)
    BY <2>1, <2>2
  <2>4. PICK n \in 0..Len(log) : n \in 0..Len(log') /\ SeenNewest(log', loads'[k], n)
    BY <1>1, <2>2, <2>3 DEF Origin
  <2>5. loads'[k].chat = active' => Later(k)'
    <3>1. Len(loads) + 1 \in 1..Len(loads') /\ Len(loads) + 1 > k
      BY <2>2, <2>3
    <3>. QED  BY <2>1, <2>2, <3>1 DEF Later, NewestOf
  <2>. QED  BY <2>4, <2>5
<1>5. CASE /\ log' = log
           /\ loads'[k].rows = Rows(loads'[k].chat, loads'[k].cursor)
           /\ loads'[k].more = HasMore(loads'[k].chat, loads'[k].cursor)
  <2>1. \A h, c : Older(h, 0) = Upto(log, h, Len(log))
    BY <1>0, PagesAre
  <2>2. SeenNewest(log', loads'[k], Len(log))
    BY <1>5, <2>1 DEF SeenNewest, Rows, HasMore
  <2>3. AllCarried(active, Len(log))'
    BY <1>0, <1>5 DEF AllCarried, Of
  <2>. QED  BY <1>0, <1>5, <2>2, <2>3
<1>. QED  BY <1>2, <1>3, <1>4, <1>5, OriginNext

\* Pane p shows chat h as it was when the log had n messages, down to some page.
Exact(rows, p, h, n) ==
    LET S == Upto(rows, h, n)
    IN /\ p.screen = p.held /\ Ranked(p.held, S)
       /\ Len(p.held) = Cardinality(S) \/ Len(p.held) >= Page
       /\ p.more <=> Cardinality(S) > Len(p.held)
       /\ p.foot \in {"more", "phone"} => (p.foot = "more" <=> p.more)

\* Unless the pane may be behind: what it misses is asked for or on its way.
PaneInv == Settles /\ ~marred =>
    Pending(active) \/ \E n \in 0..Len(log) : Exact(log, pane, active, n) /\ AllCarried(active, n)

\* A newest page makes the pane exact for its moment,
LEMMA ExactNewest ==
    ASSUME LogTypes, NEW x, NEW n, SeenNewest(log, x, n),
           NEW q, q.held = x.rows, q.screen = q.held, q.more = x.more,
           q.foot \in {"more", "phone"} => (q.foot = "more" <=> q.more)
    PROVE  Exact(log, q, x.chat, n)
<1>. DEFINE S == Upto(log, x.chat, n)
<1>1. IsFiniteSet(S) /\ \A m \in S : m \in Nat
  BY PagesAre
<1>2. Page \in Nat /\ Cardinality(S) \in Nat
  BY <1>1, FS_CardinalityType, InboxTypes
<1>3. x.rows = Top(S, Page) /\ (x.more <=> Cardinality(S) > Page)
  BY DEF SeenNewest
<1>. HIDE DEF S
<1>4. Ranked(x.rows, S) /\ Len(x.rows) = IF Cardinality(S) < Page THEN Cardinality(S) ELSE Page
  BY <1>1, <1>2, <1>3, TopIs
<1>5. Exact(log, q, x.chat, n) <=>
         /\ q.screen = q.held /\ Ranked(q.held, S)
         /\ Len(q.held) = Cardinality(S) \/ Len(q.held) >= Page
         /\ q.more <=> Cardinality(S) > Len(q.held)
         /\ q.foot \in {"more", "phone"} => (q.foot = "more" <=> q.more)
  BY DEF Exact, S
<1>. QED  BY <1>2, <1>3, <1>4, <1>5

\* an older page for the moment the pane was exact for,
LEMMA ExactOlder ==
    ASSUME LogTypes, NEW x, SeenOlder(log, x), NEW n \in 0..Len(log), x.cursor # 0,
           NEW p, Exact(log, p, x.chat, n), p.held \in Seq(1..Len(log)), p.held # <<>>,
           x.cursor = p.held[Len(p.held)],
           NEW q, q.held = p.held \o x.rows, q.screen = q.held, q.more = x.more,
           q.foot \in {"more", "phone"} => (q.foot = "more" <=> q.more)
    PROVE  Exact(log, q, x.chat, n)
<1>. DEFINE S == Upto(log, x.chat, n)
            T == {m \in S : m < x.cursor}
            s == p.held
            t == x.rows
<1>0. Len(log) \in Nat /\ n \in Nat
  BY LogLength
<1>1. IsFiniteSet(S) /\ \A m \in S : m \in Nat
  BY PagesAre
<1>2. IsFiniteSet(T) /\ \A m \in T : m \in Nat
  <2>1. T \subseteq S
    OBVIOUS
  <2>. HIDE DEF T, S
  <2>. QED  BY <1>1, <2>1, FS_Subset
<1>3. Page \in Nat /\ Cardinality(S) \in Nat /\ Cardinality(T) \in Nat
  <2>. HIDE DEF T, S
  <2>. QED  BY <1>1, <1>2, FS_CardinalityType, InboxTypes
<1>4. /\ s \in Seq(Nat) /\ s # <<>> /\ x.cursor = s[Len(s)] /\ Len(s) \in Nat \ {0}
      /\ Ranked(s, S)
  <2>1. s \in Seq(Nat)
    <3>1. 1..Len(log) \subseteq Nat
      OBVIOUS
    <3>. QED  BY <3>1, SeqMonotonic
  <2>2. Ranked(s, S)
    BY DEF Exact
  <2>. QED  BY <2>1, <2>2, EmptySeq
<1>5. T = Earlier(log, x.chat, x.cursor)
  <2>1. x.cursor \in S
    <3>1. Len(s) \in 1..Len(s)
      BY <1>4
    <3>. QED  BY <1>4, <3>1 DEF Ranked
  <2>2. x.cursor \in Nat /\ x.cursor <= n
    BY <1>1, <2>1 DEF Upto
  <2>3. \A m \in 1..Len(log) : m < x.cursor => m <= n
    BY <1>0, <2>2
  <2>. QED  BY <2>3 DEF Upto, Earlier
<1>6. t = Top(T, Page) /\ (x.more <=> Cardinality(T) > Page)
  BY <1>5, Zenon DEF SeenOlder
<1>. HIDE DEF T, S
<1>7. /\ Ranked(t, T) /\ Len(t) = (IF Cardinality(T) < Page THEN Cardinality(T) ELSE Page)
      /\ t \in Seq(Nat)
  <2>1. t \in Seq(T) /\ Ranked(t, T)
        /\ Len(t) = (IF Cardinality(T) < Page THEN Cardinality(T) ELSE Page)
    BY <1>2, <1>3, <1>6, TopIs
  <2>2. T \subseteq Nat
    BY <1>2
  <2>. QED  BY <2>1, <2>2, SeqMonotonic
<1>8. Ranked(s \o t, S) /\ Cardinality(S) = Len(s) + Cardinality(T)
  <2>. HIDE DEF s, t
  <2>1. \A m : m \in T <=> m \in S /\ m < s[Len(s)]
    <3>1. x.cursor = s[Len(s)]
      BY <1>4
    <3>. HIDE DEF s
    <3>. QED  BY <3>1 DEF T
  <2>2. \A m \in S : m \in Nat
    BY <1>1
  <2>3. IsFiniteSet(S) /\ s \in Seq(Nat) /\ Ranked(s, S) /\ s # <<>>
        /\ t \in Seq(Nat) /\ Ranked(t, T)
    BY <1>1, <1>4, <1>7
  <2>. HIDE DEF s, t
  <2>. QED  BY <2>1, <2>2, <2>3, RankedGoesOn, Zenon
<1>9. Len(s \o t) = Len(s) + Len(t)
  <2>. HIDE DEF s, t
  <2>. QED  BY <1>4, <1>7, ConcatProperties
<1>10. Exact(log, q, x.chat, n) <=>
         /\ q.screen = q.held /\ Ranked(q.held, S)
         /\ Len(q.held) = Cardinality(S) \/ Len(q.held) >= Page
         /\ q.more <=> Cardinality(S) > Len(q.held)
         /\ q.foot \in {"more", "phone"} => (q.foot = "more" <=> q.more)
  BY DEF Exact, S
<1>11. /\ Len(s \o t) = Cardinality(S) \/ Len(s \o t) >= Page
       /\ x.more <=> Cardinality(S) > Len(s \o t)
  <2>. DEFINE i == Len(s)
              j == Len(t)
              c == Cardinality(T)
  <2>1. Len(s \o t) = i + j /\ Cardinality(S) = i + c
    BY <1>8, <1>9
  <2>2. i \in Nat \ {0} /\ c \in Nat /\ j = (IF c < Page THEN c ELSE Page)
    BY <1>3, <1>4, <1>7
  <2>3. x.more <=> c > Page
    BY <1>6
  <2>. HIDE DEF s, t, i, j, c
  <2>4. i + j = i + c \/ i + j >= Page
    BY <2>2, <1>3
  <2>5. x.more <=> i + c > i + j
    BY <2>2, <2>3, <1>3
  <2>. QED  BY <2>1, <2>4, <2>5
<1>12. /\ q.held = s \o t /\ q.more = x.more /\ q.screen = q.held
       /\ q.foot \in {"more", "phone"} => (q.foot = "more" <=> q.more)
  OBVIOUS
<1>. DEFINE u == s \o t
<1>. HIDE DEF s, t, u
<1>13. Ranked(q.held, S) /\ (Len(q.held) = Cardinality(S) \/ Len(q.held) >= Page)
  <2>1. q.held = u
    BY <1>12 DEF u
  <2>2. Ranked(u, S) /\ (Len(u) = Cardinality(S) \/ Len(u) >= Page)
    BY <1>8, <1>11, Zenon DEF u
  <2>. QED  BY <2>1, <2>2, Zenon
<1>14. q.more <=> Cardinality(S) > Len(q.held)
  BY <1>11, <1>12
<1>. QED  BY <1>10, <1>12, <1>13, <1>14, Zenon

\* and it stays exact when the log grows.
LEMMA ExactStays ==
    ASSUME LogTypes, [InboxNext]_inboxVars, NEW p, NEW q, NEW h, NEW n \in 0..Len(log),
           Exact(log, p, h, n), Continuing(p, q)
    PROVE  n \in 0..Len(log') /\ Exact(log', q, h, n)
<1>1. n \in 0..Len(log') /\ Upto(log', h, n) = Upto(log, h, n)
  BY Growth
<1>2. /\ q.screen = q.held /\ q.held = p.held /\ q.more = p.more
      /\ q.foot \in {"more", "phone"} => (q.foot = "more" <=> q.more)
  BY DEF Continuing, Exact
<1>. QED  BY <1>1, <1>2 DEF Exact

\* A pending load of the newest page is not through with load i.
LEMMA PendingSettled ==
    ASSUME PaneTypes, ServerTypes, NEW i \in 1..Len(loads), NEW k \in 1..Len(loads), k # i,
           NEW h, NewestOf(k, h),
           Len(loads') >= Len(loads) - 1, Len(loads') \in Nat,
           \A q \in 1..(Len(loads) - 1) : loads'[q] = Settled(i)[q]
    PROVE  \E q \in 1..Len(loads') : loads'[q].chat = h /\ loads'[q].cursor = 0
<1>. DEFINE q == IF k < i THEN k ELSE k - 1
<1>1. Len(loads) \in Nat /\ i \in Nat
  BY SettledTyped
<1>2. q \in 1..(Len(loads) - 1) /\ Was(q, i) = k
  BY <1>1 DEF Was
<1>. HIDE DEF q
<1>3. Same(loads'[q], loads[k])
  BY <1>2, OriginSettled DEF Origin
<1>4. q \in 1..Len(loads')
  BY <1>1, <1>2
<1>. QED  BY <1>3, <1>4 DEF Same, NewestOf

\* The open chat stays open and the pane shows what it showed.
LEMMA PaneKeeps ==
    ASSUME PaneTypes, ServerTypes, PaneInv, [InboxNext]_inboxVars, Settles', Settles, active' = active,
           ~marred, ~marred', ~Renewed, Continuing(pane, pane'),
           Pending(active) => \E q \in 1..Len(loads') : loads'[q].chat = active /\ loads'[q].cursor = 0
    PROVE  \/ \E q \in 1..Len(loads') : loads'[q].chat = active /\ loads'[q].cursor = 0
           \/ \E n \in 0..Len(log') : Exact(log', pane', active, n) /\ AllCarried(active, n)'
<1>1. SUFFICES ASSUME NEW n \in 0..Len(log), Exact(log, pane, active, n), AllCarried(active, n)
               PROVE  \E m \in 0..Len(log') : Exact(log', pane', active, m) /\ AllCarried(active, m)'
  BY DEF PaneInv
<1>2. AllCarried(active, n)'
  BY CarryNext, <1>1 DEF Missing
<1>3. n \in 0..Len(log') /\ Exact(log', pane', active, n)
  BY <1>1, ExactStays DEF ServerTypes
<1>. QED  BY <1>2, <1>3

\* The pane stays due.
LEMMA PaneInvNext ==
    PaneTypes /\ ServerTypes /\ OlderSeen /\ NewestSeen /\ PaneInv /\ [InboxNext]_inboxVars => PaneInv'
<1>. SUFFICES ASSUME PaneTypes, ServerTypes, OlderSeen, NewestSeen, PaneInv, [InboxNext]_inboxVars,
                     Settles', ~marred'
              PROVE  \/ \E q \in 1..Len(loads') : loads'[q].chat = active' /\ loads'[q].cursor = 0
                     \/ \E n \in 0..Len(log') : Exact(log', pane', active', n) /\ AllCarried(active, n)'
  BY DEF PaneInv, Pending, NewestOf
<1>. DEFINE Goal == \/ \E q \in 1..Len(loads') : loads'[q].chat = active' /\ loads'[q].cursor = 0
                    \/ \E n \in 0..Len(log') : Exact(log', pane', active', n) /\ AllCarried(active, n)'
<1>0. /\ Len(loads) \in Nat /\ Len(loads') \in Nat /\ Len(log) \in Nat /\ LogTypes
      /\ loads \in Seq(LoadRecord(Len(log)))
  <2>1. PaneTypes'
    BY PaneNext
  <2>. QED  BY <2>1, LenProperties, LogLength DEF PaneTypes, ServerTypes
<1>1. CASE Renewed
  <2>1. PICK load : loads' = Append(loads, load) /\ load.chat = active' /\ load.cursor = 0
    BY <1>1 DEF Renewed
  <2>2. Len(loads') = Len(loads) + 1 /\ loads'[Len(loads) + 1] = load
    BY <2>1, OriginAppended
  <2>3. Len(loads) + 1 \in 1..Len(loads')
    BY <1>0, <2>2
  <2>. QED  BY <2>1, <2>2, <2>3
<1>2. CASE ~Renewed
  <2>0. Settles /\ active' = active
    BY <1>2, SettlesNext
  <2>1. ASSUME ~marred, Continuing(pane, pane'),
               Pending(active) => \E q \in 1..Len(loads') : loads'[q].chat = active /\ loads'[q].cursor = 0
        PROVE  Goal
    BY <1>2, <2>0, <2>1, PaneKeeps
  <2>2. pane' = pane => Continuing(pane, pane')
    BY DEF Continuing
  <2>. HIDE DEF Goal
  <2>3. ASSUME NEW i \in 1..Len(loads), LoadServe(i)  PROVE Goal
    <3>1. /\ pane' = pane /\ marred' = marred /\ Len(loads') = Len(loads)
          /\ \A k \in 1..Len(loads) : k # i => loads'[k] = loads[k]
          /\ loads'[i].chat = loads[i].chat /\ loads'[i].cursor = loads[i].cursor
      BY <2>3, ServeIs
    <3>2. \A k \in 1..Len(loads) : loads'[k].chat = loads[k].chat /\ loads'[k].cursor = loads[k].cursor
      BY <3>1
    <3>. QED  BY <2>1, <2>2, <3>1, <3>2 DEF Pending, NewestOf
  <2>4. ASSUME NEW i \in 1..Len(loads), loads' = Settled(i) \/ \E x : loads' = Append(Settled(i), x),
               ~(loads[i].chat = active /\ loads[i].cursor = 0)
        PROVE  Pending(active) => \E q \in 1..Len(loads') : loads'[q].chat = active /\ loads'[q].cursor = 0
    <3>1. Settled(i) \in Seq(LoadRecord(Len(log))) /\ Len(Settled(i)) = Len(loads) - 1
      BY SettledTyped
    <3>2. /\ Len(loads') >= Len(loads) - 1
          /\ \A q \in 1..(Len(loads) - 1) : loads'[q] = Settled(i)[q]
      <4>1. CASE loads' = Settled(i)
        BY <1>0, <3>1, <4>1
      <4>2. ASSUME NEW x, loads' = Append(Settled(i), x)
            PROVE  /\ Len(loads') >= Len(loads) - 1
                   /\ \A q \in 1..(Len(loads) - 1) : loads'[q] = Settled(i)[q]
        BY <1>0, <3>1, <4>2
      <4>. QED  BY <2>4, <4>1, <4>2
    <3>3. ASSUME NEW k \in 1..Len(loads), NewestOf(k, active)
          PROVE  \E q \in 1..Len(loads') : loads'[q].chat = active /\ loads'[q].cursor = 0
      <4>1. k # i
        BY <2>4, <3>3 DEF NewestOf
      <4>. QED  BY <1>0, <3>2, <3>3, <4>1, PendingSettled
    <3>. QED  BY <3>3 DEF Pending
  <2>5. ASSUME NEW i \in 1..Len(loads), LoadFails(i)  PROVE Goal
    <3>1. /\ loads' = Settled(i) /\ (marred => marred')
          /\ IF loads[i].chat = active /\ loads[i].cursor = 0 THEN marred'
             ELSE Continuing(pane, pane')
      BY <2>5, FailsIs
    <3>2. ~(loads[i].chat = active /\ loads[i].cursor = 0) /\ ~marred /\ Continuing(pane, pane')
      BY <3>1
    <3>. QED  BY <2>1, <2>4, <3>1, <3>2
  <2>6. ASSUME NEW i \in 1..Len(loads), LoadLimited(i)  PROVE Goal
    <3>1. ~marred
      BY <2>6, LimitedIs
    <3>2. CASE loads' = Settled(i) /\ Continuing(pane, pane')
               /\ ~(loads[i].chat = active /\ loads[i].cursor = 0)
      BY <2>1, <2>4, <3>1, <3>2
    <3>3. ASSUME NEW next, next.chat = loads[i].chat, next.cursor = loads[i].cursor,
                 loads' = Append(Settled(i), next), loads[i].chat = active,
                 loads[i].cursor # 0 => pane' = pane
          PROVE  Goal
      <4>1. CASE loads[i].cursor # 0
        <5>1. Continuing(pane, pane')
          BY <2>2, <3>3, <4>1
        <5>. QED  BY <2>1, <2>4, <3>1, <3>3, <4>1, <5>1
      <4>2. CASE loads[i].cursor = 0
        <5>1. Settled(i) \in Seq(LoadRecord(Len(log))) /\ Len(Settled(i)) = Len(loads) - 1
          BY SettledTyped
        <5>2. Len(loads') = Len(loads) /\ loads'[Len(loads)] = next /\ Len(loads) \in 1..Len(loads')
          BY <1>0, <3>3, <5>1
        <5>. QED  BY <2>0, <3>3, <4>2, <5>2 DEF Goal
      <4>. QED  BY <4>1, <4>2
    <3>4. \/ /\ loads' = Settled(i) /\ Continuing(pane, pane')
             /\ ~(loads[i].chat = active /\ loads[i].cursor = 0)
          \/ \E next : /\ next.chat = loads[i].chat /\ next.cursor = loads[i].cursor
                       /\ loads' = Append(Settled(i), next) /\ loads[i].chat = active
                       /\ loads[i].cursor # 0 => pane' = pane
      BY <2>6, LimitedIs
    <3>. QED  BY <3>2, <3>3, <3>4
  <2>7. ASSUME NEW h, NEW silent, NEW c, Asks(active', h, silent, c)  PROVE Goal
    <3>1. /\ h = active' /\ marred' = marred
          /\ c # 0 => pane' = pane
      BY <2>7, AskIs
    <3>2. c # 0
      BY <1>2, <2>7, <3>1, RenewedIs
    <3>3. PICK load : loads' = Append(loads, load)
      BY <2>7, AskIs
    <3>4. Len(loads') = Len(loads) + 1 /\ \A k \in 1..Len(loads) : loads'[k] = loads[k]
      BY <3>3, OriginAppended
    <3>5. \A k \in 1..Len(loads) : k \in 1..Len(loads') /\ loads'[k] = loads[k]
      BY <1>0, <3>4
    <3>. QED  BY <2>1, <2>2, <3>1, <3>2, <3>5 DEF Pending, NewestOf
  <2>8. ASSUME Olds  PROVE Goal
    <3>1. /\ pane' = pane /\ ~marred /\ Len(loads') = Len(loads)
          /\ \A k \in 1..Len(loads) : Same(loads'[k], loads[k])
      BY <2>8 DEF Olds
    <3>. QED  BY <2>1, <2>2, <3>1 DEF Pending, NewestOf, Same
  <2>9. ASSUME NEW i \in 1..Len(loads), LoadAnswer(i)  PROVE Goal
    <3>1. loads' = Settled(i) /\ loads[i].step = "served" /\ log' = log
      BY <2>9, AnswerIs
    <3>2. CASE loads[i].chat # active
      <4>1. Continuing(pane, pane') /\ marred' = marred
        BY <2>9, <3>2, AnswerIs
      <4>. QED  BY <2>1, <2>4, <3>1, <3>2, <4>1
    <3>3. CASE loads[i].chat = active /\ loads[i].cursor # 0
      <4>1. /\ pane'.held = pane.held \o loads[i].rows
            /\ pane'.screen = pane'.held /\ pane'.more = loads[i].more
            /\ pane'.foot \in {"more", "phone"} => (pane'.foot = "more" <=> pane'.more)
            /\ marred' = (marred \/ loads[i].cursor # Oldest(pane))
        BY <2>9, <3>3, AnswerIs
      <4>2. ~marred /\ loads[i].cursor = Oldest(pane)
        BY <4>1, Zenon
      <4>3. \/ \E q \in 1..Len(loads') : loads'[q].chat = active /\ loads'[q].cursor = 0
            \/ \E n \in 0..Len(log) : Exact(log, pane, active, n) /\ AllCarried(active, n)
        BY <2>0, <2>4, <3>1, <3>3, <4>2 DEF PaneInv
      <4>4. ASSUME NEW n \in 0..Len(log), Exact(log, pane, active, n), AllCarried(active, n)
            PROVE  Goal
        <5>1. AllCarried(active, n)'
          BY <1>2, <2>0, <4>4, CarryNext DEF Missing
        <5>2. SeenOlder(log, loads[i])
          BY <3>1, <3>3 DEF OlderSeen
        <5>3. pane \in PaneRecord(Len(log)) /\ pane.held \in Seq(1..Len(log))
          BY DEF PaneTypes, PaneRecord
        <5>4. pane.held # <<>> /\ loads[i].cursor = pane.held[Len(pane.held)]
          <6>1. pane.held # <<>>
            BY <3>3, <4>2, Zenon DEF Oldest
          <6>. QED  BY <1>0, <4>2, <5>3, <6>1, OldestIs
        <5>5. Exact(log, pane', active, n)
          BY <1>0, <3>3, <4>1, <4>4, <5>2, <5>3, <5>4, ExactOlder
        <5>. QED  BY <2>0, <3>1, <5>1, <5>5 DEF Goal
      <4>. QED  BY <2>0, <4>3, <4>4 DEF Goal
    <3>4. CASE loads[i].chat = active /\ loads[i].cursor = 0
      <4>1. /\ pane'.held = loads[i].rows
            /\ pane'.screen = pane'.held /\ pane'.more = loads[i].more
            /\ pane'.foot \in {"more", "phone"} => (pane'.foot = "more" <=> pane'.more)
            /\ marred' = loads[i].stale
        BY <2>9, <3>4, AnswerIs
      <4>2. PICK n \in 0..Len(log) : SeenNewest(log, loads[i], n) /\ (AllCarried(active, n) \/ Later(i))
        BY <2>0, <3>1, <3>4, <4>1 DEF NewestSeen
      <4>3. CASE AllCarried(active, n)
        <5>1. AllCarried(active, n)'
          BY <1>2, <2>0, <4>3, CarryNext DEF Missing
        <5>2. Exact(log, pane', active, n)
          BY <1>0, <3>4, <4>1, <4>2, ExactNewest
        <5>. QED  BY <2>0, <3>1, <5>1, <5>2 DEF Goal
      <4>4. CASE Later(i)
        <5>1. PICK k \in 1..Len(loads) : k > i /\ NewestOf(k, active)
          BY <3>4, <4>4 DEF Later
        <5>2. Len(loads') = Len(loads) - 1 /\ k # i
          <6>1. k # i
            BY <2>0, <5>1
          <6>2. Len(loads') = Len(loads) - 1
            BY <1>0, <3>1, SettledTyped
          <6>. QED  BY <6>1, <6>2
        <5>3. \E q \in 1..Len(loads') : loads'[q].chat = active /\ loads'[q].cursor = 0
          BY <1>0, <3>1, <5>1, <5>2, PendingSettled
        <5>. QED  BY <2>0, <5>3 DEF Goal
      <4>. QED  BY <4>2, <4>3, <4>4
    <3>. QED  BY <3>2, <3>3, <3>4
  <2>. QED  BY <2>3, <2>5, <2>6, <2>7, <2>8, <2>9, PaneChanges DEF Goal
<1>. QED  BY <1>1, <1>2

ScreenSafe == InboxTypeInv /\ AttachInv /\ OlderSeen /\ NewestSeen /\ PaneInv

\* At rest nothing is carried, so that the moment is now.
LEMMA ScreenSafeIsRight == ScreenSafe => ScreenIsDue
<1>. SUFFICES ASSUME ScreenSafe, Rest, active # NoChat, ~marred
              PROVE  /\ pane.screen = Top(Of(active), Len(pane.screen))
                     /\ Len(pane.screen) = Cardinality(Of(active)) \/ Len(pane.screen) >= Page
                     /\ pane.foot \in {"more", "phone"} =>
                           (pane.foot = "more" <=> Cardinality(Of(active)) > Len(pane.screen))
  BY DEF ScreenIsDue
<1>1. LogTypes /\ pane \in PaneRecord(Len(log)) /\ pane.held \in Seq(1..Len(log))
  BY DEF ScreenSafe, InboxTypeInv, ServerTypes, PaneTypes, PaneRecord
<1>2. Settles /\ ~Pending(active)
  <2>1. loads = <<>> /\ choosing = <<>>
    BY DEF Rest
  <2>. QED  BY <2>1 DEF Settles, Pending, ToSet
<1>3. PICK n \in 0..Len(log) : Exact(log, pane, active, n) /\ AllCarried(active, n)
  BY <1>2 DEF ScreenSafe, PaneInv
<1>. DEFINE S == Of(active)
<1>4. Upto(log, active, n) = S
  <2>1. \A m : ~Carried(m)
    BY DEF Rest, Carried
  <2>2. \A m \in Of(active) : m <= n
    <3>1. \A m \in Of(active) : ~(m > n) /\ m \in Nat
      BY <1>1, <1>3, <2>1, OlderIs DEF AllCarried
    <3>2. n \in Nat
      BY <1>1, LogLength
    <3>. QED  BY <3>1, <3>2
  <2>. QED  BY <2>2 DEF Upto, Of
<1>5. IsFiniteSet(S) /\ \A m \in S : m \in Nat
  BY <1>1, OlderIs
<1>. HIDE DEF S
<1>6. /\ pane.screen = pane.held /\ Ranked(pane.held, S)
      /\ Len(pane.held) = Cardinality(S) \/ Len(pane.held) >= Page
      /\ pane.more <=> Cardinality(S) > Len(pane.held)
      /\ pane.foot \in {"more", "phone"} => (pane.foot = "more" <=> pane.more)
  BY <1>3, <1>4, Zenon DEF Exact
<1>7. pane.held = Top(S, Len(pane.held))
  <2>1. pane.held \in Seq(Nat)
    <3>1. 1..Len(log) \subseteq Nat
      OBVIOUS
    <3>. QED  BY <1>1, <3>1, SeqMonotonic
  <2>. QED  BY <1>5, <1>6, <2>1, RankedTop
<1>. QED  BY <1>6, <1>7 DEF S

\* At rest the pane of the open chat shows its newest messages without a gap or a repetition,
\* however loads, older pages and events crossed (loadMessages, handleWsEvent).
THEOREM ScreenIsDueHolds == InboxSpec => []ScreenIsDue
<1>1. InboxInit => ScreenSafe
  <2>. SUFFICES ASSUME InboxInit  PROVE OlderSeen /\ NewestSeen /\ PaneInv
    BY InitTypes, InitSafe DEF ScreenSafe, InboxSafeInv
  <2>1. PaneInv
    BY DEF InboxInit, PaneInv
  <2>2. \A k \in 1..Len(loads) : loads[k].step # "served"
    <3>1. loads = <<>> \/ \E h : loads = <<Asking(h, FALSE, 0)>>
      BY Zenon DEF InboxInit
    <3>2. \A h : Asking(h, FALSE, 0).step = "asked"
      BY DEF Asking
    <3>3. \A x : Len(<<x>>) = 1 /\ <<x>>[1] = x
      OBVIOUS
    <3>4. ASSUME NEW h, loads = <<Asking(h, FALSE, 0)>>, NEW k \in 1..Len(loads)
          PROVE  loads[k].step # "served"
      <4>1. Len(loads) = 1 /\ loads[1] = Asking(h, FALSE, 0)
        BY <3>3, <3>4, Zenon
      <4>2. k = 1
        BY <4>1
      <4>. QED  BY <3>2, <4>1, <4>2
    <3>5. ASSUME loads = <<>>, NEW k \in 1..Len(loads)
          PROVE  loads[k].step # "served"
      BY <3>5
    <3>6. CASE loads = <<>>
      BY <3>5, <3>6
    <3>7. CASE \E h : loads = <<Asking(h, FALSE, 0)>>
      <4>1. PICK h : loads = <<Asking(h, FALSE, 0)>>
        BY <3>7
      <4>. QED  BY <3>4, <4>1
    <3>. QED  BY <3>1, <3>6, <3>7
  <2>. QED  BY <2>1, <2>2 DEF OlderSeen, NewestSeen
<1>2. ScreenSafe /\ [InboxNext]_inboxVars => ScreenSafe'
  BY InboxTypeStep, OlderSeenNext, NewestSeenNext, PaneInvNext DEF ScreenSafe, InboxTypeInv
<1>3. ScreenSafe => ScreenIsDue
  BY ScreenSafeIsRight
<1>. QED  BY <1>1, <1>2, <1>3, PTL DEF InboxSpec

-----------------------------------------------------------------------------
(* The pages of the list.                                                  *)

\* The time of a last message names its chat.
LEMMA LastOfOne ==
    ASSUME LogTypes, NEW g, NEW h, LastMessage(g) = LastMessage(h), LastMessage(g) # 0
    PROVE  g = h
<1>1. LastMessage(g) \in Of(g) /\ LastMessage(g) \in Of(h)
  BY LastMessageIs
<1>. QED  BY <1>1 DEF Of

\* Chats with messages have as many different last messages.
LEMMA TimesCount ==
    ASSUME LogTypes, NEW U \in SUBSET Chat, \A g \in U : LastMessage(g) # 0,
           NEW T, \A t : t \in T <=> \E g \in U : LastMessage(g) = t
    PROVE  IsFiniteSet(U) /\ IsFiniteSet(T) /\ Cardinality(T) = Cardinality(U) /\ \A t \in T : t \in Nat
<1>. DEFINE f == [g \in U |-> LastMessage(g)]
<1>1. IsFiniteSet(U)
  BY InboxTypes, FS_Subset
<1>2. \A t \in T : t \in Nat
  BY LastMessageIs, LogLength
<1>3. f \in [U -> T] /\ \A t \in T : \E g \in U : f[g] = t
  OBVIOUS
<1>4. \A g, h \in U : f[g] = f[h] => g = h
  BY LastOfOne
<1>. HIDE DEF f
<1>5. f \in Surjection(U, T) /\ f \in Injection(U, T)
  BY <1>3, <1>4 DEF Surjection, Injection, IsInjective
<1>. QED  BY <1>1, <1>2, <1>5, FS_Surjection

\* A pinned chat is on the page that could hold it.
LEMMA PinnedListed ==
    ASSUME LogTypes, NEW c, pinned \cap Under(c) # {}
    PROVE  pinned \cap Listed(c) # {}
<1>. DEFINE P == pinned \cap Under(c)
            R == {p \in Chat \X Chat : Before(p[1], p[2])}
<1>1. P \subseteq Chat /\ IsFiniteSet(P)
  <2>1. P \subseteq Chat
    BY DEF Under
  <2>. QED  BY <2>1, InboxTypes, FS_Subset
<1>2. \A x, y \in Chat : <<x, y>> \in R <=> Before(x, y)
  OBVIOUS
<1>3. \A x, y \in P : <<x, y>> \in R <=> LastMessage(x) > LastMessage(y)
  BY <1>1, <1>2 DEF Before
<1>4. \A h : LastMessage(h) \in Nat
  BY LastMessageIs, LogLength
<1>. HIDE DEF R
<1>5. PICK x \in P : \A y \in P : <<y, x>> \notin R
  <2>1. \A a, b, d \in P : <<a, b>> \in R /\ <<b, d>> \in R => <<a, d>> \in R
    BY <1>3, <1>4
  <2>2. \A a \in P : <<a, a>> \notin R
    BY <1>3, <1>4
  <2>3. P # {}
    OBVIOUS
  <2>. HIDE DEF P
  <2>. QED  BY <1>1, <2>1, <2>2, <2>3, Extreme
<1>6. {g \in Under(c) : Before(g, x)} = {}
  <2>1. ASSUME NEW g \in Under(c), Before(g, x)  PROVE g \in P
    BY <2>1 DEF Before
  <2>2. \A g \in P : ~Before(g, x)
    BY <1>1, <1>2, <1>5
  <2>. QED  BY <2>1, <2>2
<1>7. 0 < Page
  BY InboxTypes
<1>8. x \in Listed(c)
  BY <1>6, <1>7, FS_EmptySet DEF Listed
<1>. QED  BY <1>8

\* A chat that waits for a later page is below its cursor, and the page is full.
LEMMA PageIs ==
    ASSUME LogTypes, NEW c \in Nat, pinned \cap Under(c) = {},
           NEW h \in Under(c), h \notin Listed(c), LastMessage(h) # 0
    PROVE  /\ NextCursor(c) # 0 /\ LastMessage(h) < NextCursor(c) /\ NextCursor(c) \in Nat
           /\ c # 0 => NextCursor(c) < c
           /\ \A g \in Listed(c) : LastMessage(g) >= NextCursor(c)
           /\ Listed(c) \subseteq Chat /\ Cardinality(Listed(c)) = Page
<1>. DEFINE U == {g \in Under(c) : LastMessage(g) # 0}
            T == {LastMessage(g) : g \in U}
            A(m) == {g \in U : LastMessage(g) >= m}
            B(x) == {g \in Under(c) : Before(g, x)}
<1>0. /\ \A g : LastMessage(g) \in Nat
      /\ Under(c) \subseteq Chat /\ U \subseteq Chat /\ Listed(c) \subseteq Under(c)
      /\ Page \in Nat \ {0}
  BY LastMessageIs, LogLength, InboxTypes DEF Under, Listed
<1>1. \A g, x \in Under(c) : Before(g, x) <=> LastMessage(g) > LastMessage(x)
  BY DEF Before
<1>2. IsFiniteSet(T) /\ IsFiniteSet(U) /\ Cardinality(T) = Cardinality(U) /\ \A t \in T : t \in Nat
  <2>1. \A t : t \in T <=> \E g \in U : LastMessage(g) = t
    OBVIOUS
  <2>2. \A g \in U : LastMessage(g) # 0
    OBVIOUS
  <2>. HIDE DEF T, U
  <2>. QED  BY <1>0, <2>1, <2>2, TimesCount
<1>3. ASSUME NEW m \in T  PROVE Cardinality(A(m)) = Rank(m, T) /\ IsFiniteSet(A(m))
  <2>. DEFINE D == {t \in T : t >= m}
  <2>1. \A t : t \in D <=> \E g \in A(m) : LastMessage(g) = t
    OBVIOUS
  <2>2. A(m) \subseteq Chat /\ \A g \in A(m) : LastMessage(g) # 0
    BY <1>0
  <2>3. Rank(m, T) = Cardinality(D)
    BY DEF Rank
  <2>. HIDE DEF D, A
  <2>. QED  BY <2>1, <2>2, <2>3, TimesCount
<1>4. ASSUME NEW x \in U
      PROVE  /\ LastMessage(x) \in T /\ IsFiniteSet(B(x))
             /\ Rank(LastMessage(x), T) = Cardinality(B(x)) + 1 /\ Cardinality(B(x)) \in Nat
  <2>1. A(LastMessage(x)) = B(x) \cup {x} /\ x \notin B(x)
    <3>1. \A g \in A(LastMessage(x)) : g = x \/ g \in B(x)
      BY <1>0, <1>1, LastOfOne
    <3>2. \A g \in B(x) : g \in A(LastMessage(x)) /\ g # x
      BY <1>0, <1>1
    <3>3. x \in A(LastMessage(x))
      BY <1>0
    <3>. HIDE DEF A, B
    <3>. QED  BY <3>1, <3>2, <3>3
  <2>2. LastMessage(x) \in T
    OBVIOUS
  <2>3. Cardinality(A(LastMessage(x))) = Rank(LastMessage(x), T) /\ IsFiniteSet(A(LastMessage(x)))
    BY <1>3, <2>2
  <2>. HIDE DEF A, B, T, U
  <2>4. IsFiniteSet(B(x))
    BY <2>1, <2>3, FS_Subset
  <2>5. Cardinality(B(x) \cup {x}) = Cardinality(B(x)) + 1 /\ Cardinality(B(x)) \in Nat
    BY <2>1, <2>4, FS_AddElement, FS_CardinalityType
  <2>. QED  BY <2>1, <2>2, <2>3, <2>4, <2>5
<1>5. ASSUME NEW x \in U  PROVE x \in Listed(c) <=> Rank(LastMessage(x), T) <= Page
  <2>1. x \in Listed(c) <=> Cardinality(B(x)) < Page
    BY DEF Listed
  <2>2. Rank(LastMessage(x), T) = Cardinality(B(x)) + 1 /\ Cardinality(B(x)) \in Nat
    BY <1>4
  <2>. HIDE DEF B, T
  <2>. QED  BY <1>0, <2>1, <2>2
<1>6. h \in U /\ LastMessage(h) \in T
  OBVIOUS
<1>. HIDE DEF T, U, B
<1>7. /\ Rank(LastMessage(h), T) > Page /\ Rank(LastMessage(h), T) \in 1..Cardinality(T)
      /\ Cardinality(T) \in Nat
  <2>1. Rank(LastMessage(h), T) \in 1..Cardinality(T)
    BY <1>2, <1>6, RankOrder
  <2>2. Cardinality(T) \in Nat
    BY <1>2, FS_CardinalityType
  <2>. QED  BY <1>0, <1>5, <1>6, <2>1, <2>2
<1>8. PICK m \in T : Rank(m, T) = Page
  <2>1. Page \in 1..Cardinality(T)
    BY <1>0, <1>7
  <2>. QED  BY <1>2, <2>1, RankExists
<1>9. PICK l \in U : LastMessage(l) = m
  BY DEF T
<1>10. ASSUME NEW x \in U  PROVE x \in Listed(c) <=> LastMessage(x) >= m
  <2>1. LastMessage(x) \in T /\ LastMessage(x) \in Nat /\ m \in Nat
    BY <1>0, <1>2 DEF T
  <2>2. /\ LastMessage(x) < m => Rank(m, T) < Rank(LastMessage(x), T)
        /\ m < LastMessage(x) => Rank(LastMessage(x), T) < Rank(m, T)
        /\ Rank(m, T) \in 1..Cardinality(T) /\ Rank(LastMessage(x), T) \in 1..Cardinality(T)
    BY <1>2, <2>1, RankOrder
  <2>. QED  BY <1>0, <1>5, <1>7, <1>8, <2>1, <2>2
<1>11. ASSUME NEW x \in Under(c), x \notin U  PROVE x \notin Listed(c)
  <2>1. LastMessage(x) = 0
    BY <1>11 DEF U
  <2>2. B(x) = U
    <3>1. \A g \in Under(c) : Before(g, x) <=> LastMessage(g) # 0
      BY <1>0, <1>1, <2>1
    <3>. QED  BY <3>1 DEF B, U
  <2>3. x \in Listed(c) => Cardinality(B(x)) < Page
    BY DEF Listed, B
  <2>. QED  BY <1>0, <1>2, <1>7, <2>2, <2>3
<1>12. Listed(c) = A(m)
  BY <1>0, <1>10, <1>11
<1>13. Cardinality(Listed(c)) = Page
  BY <1>3, <1>8, <1>12
<1>14. l \in Listed(c) /\ l \in Under(c) /\ m \in Nat /\ m # 0
  <2>1. m \in Nat /\ m # 0 /\ l \in Under(c)
    BY <1>0, <1>9 DEF U
  <2>. QED  BY <1>9, <1>10, <2>1
<1>15. \A g \in Listed(c) \ {l} : Before(g, l)
  <2>1. ASSUME NEW g \in Listed(c) \ {l}  PROVE LastMessage(g) > m
    <3>1. g \in U /\ LastMessage(g) >= m
      BY <1>12
    <3>2. LastMessage(g) # m
      BY <1>9, <1>14, LastOfOne
    <3>. QED  BY <1>0, <1>14, <3>1, <3>2
  <2>. QED  BY <1>0, <1>1, <1>9, <1>14, <2>1
<1>. DEFINE e == CHOOSE x \in Listed(c) : \A g \in Listed(c) \ {x} : Before(g, x)
<1>16. e \in Listed(c) /\ \A g \in Listed(c) \ {e} : Before(g, e)
  BY <1>14, <1>15
<1>17. e = l
  <2>. HIDE DEF e
  <2>. SUFFICES ASSUME e # l  PROVE FALSE
    OBVIOUS
  <2>1. Before(e, l) /\ Before(l, e)
    BY <1>14, <1>15, <1>16
  <2>. QED  BY <1>0, <1>1, <1>14, <1>16, <2>1
<1>18. ~(Cardinality(Under(c)) <= Page)
  <2>1. U \in SUBSET Under(c) /\ IsFiniteSet(Under(c))
    BY <1>0, InboxTypes, FS_Subset DEF U
  <2>2. Cardinality(U) <= Cardinality(Under(c)) /\ Cardinality(Under(c)) \in Nat
    BY <2>1, FS_Subset, FS_CardinalityType
  <2>. QED  BY <1>0, <1>2, <1>7, <2>2
<1>19. NextCursor(c) = m
  BY <1>9, <1>17, <1>18 DEF NextCursor
<1>20. \A g \in Listed(c) : LastMessage(g) >= m
  BY <1>12
<1>21. LastMessage(h) < m
  <2>1. ~(LastMessage(h) >= m)
    BY <1>6, <1>10
  <2>. QED  BY <1>0, <1>14, <2>1
<1>22. c # 0 => m < c
  BY <1>9, <1>14 DEF Under
<1>. QED  BY <1>0, <1>13, <1>14, <1>19, <1>20, <1>21, <1>22

LEMMA LastAlways ==
    LogTypes => \A h : LastMessage(h) \in 0..Len(log) /\ \A m \in Of(h) : m <= LastMessage(h)
BY LastMessageIs

LEMMA LastNext ==
    (LogTypes => \A h : LastMessage(h) \in 0..Len(log) /\ \A m \in Of(h) : m <= LastMessage(h))'
BY LastAlways, PTL

\* Chats only rise, by a message.
LEMMA LastGrows ==
    ASSUME LogTypes, [InboxNext]_inboxVars
    PROVE  /\ pinned' = pinned
           /\ \A h : LastMessage(h) \in Nat /\ LastMessage(h)' \in Nat /\ LastMessage(h)' >= LastMessage(h)
           /\ \A h : (\A mine \in BOOLEAN : ~Arrive(h, mine)) => LastMessage(h)' = LastMessage(h)
<1>0. LogTypes' /\ pinned' = pinned /\ Len(log) \in Nat /\ Len(log') \in Nat /\ Len(log) <= Len(log')
      /\ \A m \in 1..Len(log) : m \in 1..Len(log') /\ log'[m] = log[m]
  <2>1. pinned' = pinned
    BY LogSteps DEF Arrive, Announce, MarkClear
  <2>. QED  BY <2>1, LogNext
<1>1. ASSUME NEW h
      PROVE  LastMessage(h) \in Nat /\ LastMessage(h)' \in Nat /\ LastMessage(h)' >= LastMessage(h)
  <2>1. /\ LastMessage(h) \in 0..Len(log) /\ (LastMessage(h) # 0 => LastMessage(h) \in Of(h))
    BY LastMessageIs
  <2>2. /\ LastMessage(h)' \in 0..Len(log') /\ \A m \in Of(h)' : m <= LastMessage(h)'
    BY <1>0, LastNext
  <2>3. Of(h) \subseteq Of(h)'
    BY <1>0 DEF Of
  <2>4. LastMessage(h) # 0 => LastMessage(h) \in Of(h)'
    BY <2>1, <2>3
  <2>. HIDE DEF Of
  <2>. QED  BY <1>0, <2>1, <2>2, <2>4
<1>2. ASSUME NEW h, \A mine \in BOOLEAN : ~Arrive(h, mine)  PROVE LastMessage(h)' = LastMessage(h)
  <2>1. CASE log' = log
    BY <2>1 DEF LastMessage, Of
  <2>2. ASSUME NEW g \in Chat, NEW mine \in BOOLEAN, Arrive(g, mine)
        PROVE  LastMessage(h)' = LastMessage(h)
    <3>1. g # h
      BY <1>2, <2>2
    <3>. DEFINE x == [chat |-> g, fromMe |-> mine, n |-> changes[g] + 1]
    <3>2. log' = Append(log, x) /\ x.chat = g
      BY <2>2 DEF Arrive
    <3>3. x \in LogRecord
      BY DEF LogRecord, LogTypes
    <3>. HIDE DEF x
    <3>4. Len(log') = Len(log) + 1 /\ log'[Len(log) + 1] = x
      BY <3>2, <3>3, AppendProperties DEF LogTypes
    <3>5. Of(h)' = Of(h)
      <4>1. \A m \in 1..Len(log') : m \in 1..Len(log) \/ m = Len(log) + 1
        BY <1>0, <3>4
      <4>. QED  BY <1>0, <3>1, <3>2, <3>4, <4>1 DEF Of
    <3>. QED  BY <3>5 DEF LastMessage
  <2>3. \A m \in due : Announce(m) => log' = log
    BY DEF Announce
  <2>4. \A k \in marks : MarkClear(k) => log' = log
    BY DEF MarkClear
  <2>. QED  BY <2>1, <2>2, <2>3, <2>4, LogSteps
<1>. QED  BY <1>0, <1>1, <1>2

\* The chats that have a message no older than c.
Reached(c) == {h \in Chat : LastMessage(h) >= c}

\* Chats above a cursor do not become fewer.
LEMMA ReachedGrows ==
    ASSUME LogTypes, [InboxNext]_inboxVars
    PROVE  \A c \in Nat : /\ Cardinality(Reached(c)) \in Nat /\ Cardinality(Reached(c)') \in Nat
                          /\ Cardinality(Reached(c)) <= Cardinality(Reached(c)')
<1>. SUFFICES ASSUME NEW c \in Nat
     PROVE  /\ Cardinality(Reached(c)) \in Nat /\ Cardinality(Reached(c)') \in Nat
            /\ Cardinality(Reached(c)) <= Cardinality(Reached(c)')
  OBVIOUS
<1>1. Reached(c) \subseteq Reached(c)'
  BY LastGrows DEF Reached
<1>2. Reached(c)' \subseteq Chat
  BY DEF Reached
<1>3. IsFiniteSet(Reached(c)')
  BY <1>2, InboxTypes, FS_Subset
<1>. QED  BY <1>1, <1>3, FS_Subset, FS_CardinalityType

-----------------------------------------------------------------------------
(* How the listing proceeds.                                               *)

\* A step that leaves the listing as it is.
Grown == /\ listing' = listing /\ short' = short
         /\ DOMAIN list \subseteq DOMAIN list' /\ off \ off' \subseteq DOMAIN list'
         /\ moved \subseteq moved'
         /\ \A h \in Chat, mine \in BOOLEAN :
               Arrive(h, mine) /\ listing.step # "none" => h \in moved'

\* The listing is asked, served, answered, given up, or left alone.
LEMMA ListPhases ==
    ASSUME ServerTypes, ListTypes, [InboxNext]_inboxVars
    PROVE  LoadChats \/ ListServe \/ ListAnswer \/ ListFails \/ Grown
<1>0. \A h \in Chat, mine \in BOOLEAN : Arrive(h, mine) /\ listing.step # "none" => h \in moved'
  BY DEF Arrive
<1>1. InboxReady => LoadChats
  BY Zenon DEF InboxReady
<1>2. \A e : HearSync(e) => LoadChats
  BY Zenon DEF HearSync
<1>3. ASSUME ListStays, off \subseteq off'  PROVE Grown
  BY <1>0, <1>3 DEF Grown, ListStays
<1>4. ASSUME NEW h \in Chat, NEW mine \in BOOLEAN, Arrive(h, mine)  PROVE Grown
  BY <1>0, <1>4 DEF Grown, Arrive
<1>5. ASSUME NEW e \in EventRecord, e.kind # "sync" => e.chat \in Chat, Publish(e), ListStays
      PROVE  Grown
  <2>1. off \subseteq off'
    BY <1>5, PublishList DEF ServerTypes
  <2>. QED  BY <1>3, <1>5, <2>1
<1>6. \A m \in 1..Len(log) : Announce(m) \/ Repeat(m) => Grown
  <2>1. \A m : Announce(m) \/ Repeat(m) => Publish(New(m)) /\ ListStays
    BY DEF Announce, Repeat, ListStays
  <2>. QED  BY <1>5, <2>1, NewIs DEF ServerTypes
<1>7. \A h \in Chat : Status(h) => Grown
  <2>1. \A h : Status(h) => Publish(Plain("status", h)) /\ ListStays
    BY DEF Status, ListStays
  <2>. QED  BY <1>5, <2>1, PlainIs
<1>8. SyncCompleted => Grown
  <2>1. SyncCompleted => Publish(Plain("sync", NoChat)) /\ ListStays
    BY DEF SyncCompleted, ListStays
  <2>. QED  BY <1>5, <2>1, PlainIs
<1>9. \A k \in marks : MarkTell(k) => Grown
  <2>1. \A k : MarkTell(k) => Publish(Update(k)) /\ ListStays
    BY Zenon DEF MarkTell, ListStays
  <2>. QED  BY <1>5, <2>1, UpdateIs DEF ServerTypes, MarkTypes
<1>10. ASSUME NEW k \in marks, MarkAnswer(k)  PROVE Grown
  <2>1. /\ UNCHANGED <<listing, moved, short>> /\ off \subseteq off'
        /\ \/ list' = [list EXCEPT ![active] = 0]
           \/ list' = list
    BY <1>10 DEF MarkAnswer
  <2>2. DOMAIN list' = DOMAIN list
    BY <2>1
  <2>. QED  BY <1>0, <2>1, <2>2 DEF Grown
<1>11. CASE Drop
  <2>1. ListStays
    BY <1>11 DEF Drop, ListStays
  <2>2. off \subseteq off'
    BY <1>11, DropList DEF ServerTypes
  <2>. QED  BY <1>3, <2>1, <2>2
<1>12. ASSUME NEW e \in ToSet(wire), HearNew(e), ~LoadChats  PROVE Grown
  <2>1. /\ UNCHANGED <<listing, moved, short>> /\ (off' = off \/ off' = off \cup {e.chat})
        /\ list' = [list EXCEPT ![e.chat] = IF log[e.msg].fromMe THEN 0
                                            ELSE IF e.msg \in known THEN @ ELSE @ + 1]
    BY <1>12, HearNewIs
  <2>2. DOMAIN list' = DOMAIN list
    BY <2>1
  <2>. QED  BY <1>0, <2>1, <2>2 DEF Grown
<1>13. ASSUME NEW e \in ToSet(wire), HearUpdate(e)  PROVE Grown
  <2>0. UNCHANGED <<listing, moved, short>>
    BY <1>13, HearUpdateIs
  <2>1. CASE e.chat \in DOMAIN list
    <3>1. /\ list' = [list EXCEPT ![e.chat] = IF e.count = 0 THEN 0 ELSE @]
          /\ off' = off \/ off' = off \cup {e.chat}
      BY <1>13, <2>1, HearUpdateIs
    <3>2. DOMAIN list' = DOMAIN list
      BY <3>1
    <3>. QED  BY <1>0, <2>0, <3>1, <3>2 DEF Grown
  <2>2. CASE e.chat \notin DOMAIN list
    <3>1. /\ list' = [g \in DOMAIN list \cup {e.chat} |-> IF g = e.chat THEN e.count ELSE list[g]]
          /\ off' = off \ {e.chat} \/ off' = off \cup {e.chat}
      BY <1>13, <2>2, HearUpdateIs
    <3>2. DOMAIN list' = DOMAIN list \cup {e.chat}
      BY <3>1
    <3>. QED  BY <1>0, <2>0, <3>1, <3>2 DEF Grown
  <2>. QED  BY <2>1, <2>2
<1>14. UNCHANGED listVars => Grown
  BY <1>3 DEF ListStays, listVars
<1>15. due \subseteq 1..Len(log)
  BY DEF ServerTypes, LogTypes
<1>. QED
  BY <1>1, <1>2, <1>4, <1>6, <1>7, <1>8, <1>9, <1>10, <1>11, <1>12, <1>13, <1>14, <1>15, ListSteps

\* The chats that are missing from L and have no excuse yet.
Wanting(L) == {h \in Chat \ L : h \notin moved /\ LastMessage(h) # 0 /\ pinned \cap L = {}}
\* They are on a page below the cursor, and p pages of chats are above it.
Still(L, c, p) ==
    \A h \in Wanting(L) : c # 0 /\ LastMessage(h) < c /\ Cardinality(Reached(c)) >= p * Page
\* What is listed with the page that was served.
Over == IF listing.page = 1 THEN listing.rows ELSE DOMAIN list \cup listing.rows

AskedInv == listing.step = "asked" =>
    \/ listing.page = 1 /\ listing.cursor = 0
    \/ listing.page # 1 /\ Still(DOMAIN list, listing.cursor, listing.page - 1)
ServedInv == listing.step = "served" =>
    Still(Over, listing.next, listing.page) /\ (listing.rows = {} => Wanting(Over) = {})
\* A chat that is not listed will be, by an event that is still to come.
RestInv == listing.step = "none" /\ opening = 0 /\ ~short =>
    \A h \in Wanting(DOMAIN list) : h \in off \/ \E m \in Of(h) : Carried(m)
PhaseInv == /\ listing.step \in {"asked", "served"} => listing.page \in 1..(MaxIterations + 1)
            /\ AskedInv /\ ServedInv /\ RestInv

\* A chat that was not wanting and is had its first message, and nothing is being listed.
LEMMA WantingFrom ==
    ASSUME LogTypes, [InboxNext]_inboxVars, moved \subseteq moved', NEW h \in Chat,
           h \notin moved', LastMessage(h)' # 0
    PROVE  /\ h \notin moved
           /\ \/ LastMessage(h) # 0 /\ LastMessage(h)' = LastMessage(h)
              \/ \E mine \in BOOLEAN : Arrive(h, mine)
BY LastGrows

\* Nothing is lost while the list is read.
LEMMA StillNext ==
    ASSUME LogTypes, ListTypes, [InboxNext]_inboxVars, Grown, listing.step # "none"
    PROVE  /\ \A p \in Nat : Still(DOMAIN list, listing.cursor, p) =>
                 \A h \in Wanting(DOMAIN list)' :
                    /\ listing.cursor' # 0 /\ LastMessage(h)' < listing.cursor'
                    /\ Cardinality(Reached(listing.cursor)') >= p * Page
           /\ \A p \in Nat : Still(Over, listing.next, p) =>
                 \A h \in Wanting(Over)' :
                    /\ listing.next' # 0 /\ LastMessage(h)' < listing.next'
                    /\ Cardinality(Reached(listing.next)') >= p * Page
           /\ Wanting(Over)' \subseteq Wanting(Over)
<1>0. /\ pinned' = pinned /\ moved \subseteq moved' /\ listing' = listing
      /\ DOMAIN list \subseteq DOMAIN list' /\ Over \subseteq Over'
      /\ listing.cursor \in Nat /\ listing.next \in Nat
  BY LastGrows DEF Grown, Over, ListTypes, ListingRecord
<1>1. ASSUME NEW h \in Chat, h \notin moved', LastMessage(h)' # 0
      PROVE  h \notin moved /\ LastMessage(h) # 0 /\ LastMessage(h)' = LastMessage(h)
  <2>1. ~\E mine \in BOOLEAN : Arrive(h, mine)
    BY <1>1 DEF Grown
  <2>. QED  BY <1>0, <1>1, <2>1, WantingFrom
<1>2. ASSUME NEW h \in Wanting(DOMAIN list)'
      PROVE  h \in Wanting(DOMAIN list) /\ LastMessage(h)' = LastMessage(h)
  <2>1. h \in Chat /\ h \notin DOMAIN list' /\ h \notin moved' /\ LastMessage(h)' # 0
        /\ pinned' \cap DOMAIN list' = {}
    BY DEF Wanting
  <2>2. h \notin moved /\ LastMessage(h) # 0 /\ LastMessage(h)' = LastMessage(h)
    BY <1>1, <2>1
  <2>3. h \notin DOMAIN list /\ pinned \cap DOMAIN list = {}
    BY <1>0, <2>1
  <2>. QED  BY <2>1, <2>2, <2>3 DEF Wanting
<1>3. ASSUME NEW h \in Wanting(Over)'
      PROVE  h \in Wanting(Over) /\ LastMessage(h)' = LastMessage(h)
  <2>1. h \in Chat /\ h \notin Over' /\ h \notin moved' /\ LastMessage(h)' # 0
        /\ pinned' \cap Over' = {}
    BY DEF Wanting
  <2>2. h \notin moved /\ LastMessage(h) # 0 /\ LastMessage(h)' = LastMessage(h)
    BY <1>1, <2>1
  <2>3. h \notin Over /\ pinned \cap Over = {}
    BY <1>0, <2>1
  <2>. QED  BY <2>1, <2>2, <2>3 DEF Wanting
<1>4. ASSUME NEW c \in Nat
      PROVE  /\ Cardinality(Reached(c)) \in Nat /\ Cardinality(Reached(c)') \in Nat
             /\ Cardinality(Reached(c)) <= Cardinality(Reached(c)')
  BY ReachedGrows
<1>5. ASSUME NEW p \in Nat, Still(DOMAIN list, listing.cursor, p), NEW h \in Wanting(DOMAIN list)'
      PROVE  /\ listing.cursor' # 0 /\ LastMessage(h)' < listing.cursor'
             /\ Cardinality(Reached(listing.cursor)') >= p * Page
  <2>. DEFINE c == listing.cursor
  <2>1. /\ Cardinality(Reached(c)) \in Nat /\ Cardinality(Reached(c)') \in Nat
        /\ Cardinality(Reached(c)) <= Cardinality(Reached(c)')
    <3>1. Reached(c)' = {g \in Chat : LastMessage(g)' >= c}
      BY <1>0 DEF Reached
    <3>. QED  BY <1>0, <1>4, <3>1 DEF Reached
  <2>2. c' = c /\ h \in Wanting(DOMAIN list) /\ LastMessage(h)' = LastMessage(h) /\ p * Page \in Nat
    BY <1>0, <1>2, InboxTypes
  <2>3. c # 0 /\ LastMessage(h) < c /\ Cardinality(Reached(c)) >= p * Page
    BY <1>5, <2>2 DEF Still
  <2>. HIDE DEF c
  <2>4. c' # 0 /\ LastMessage(h)' < c' /\ Cardinality(Reached(c)') >= p * Page
    BY <2>1, <2>2, <2>3
  <2>. QED  BY <2>4 DEF c
<1>6. ASSUME NEW p \in Nat, Still(Over, listing.next, p), NEW h \in Wanting(Over)'
      PROVE  /\ listing.next' # 0 /\ LastMessage(h)' < listing.next'
             /\ Cardinality(Reached(listing.next)') >= p * Page
  <2>. DEFINE c == listing.next
  <2>1. /\ Cardinality(Reached(c)) \in Nat /\ Cardinality(Reached(c)') \in Nat
        /\ Cardinality(Reached(c)) <= Cardinality(Reached(c)')
    <3>1. Reached(c)' = {g \in Chat : LastMessage(g)' >= c}
      BY <1>0 DEF Reached
    <3>. QED  BY <1>0, <1>4, <3>1 DEF Reached
  <2>2. c' = c /\ h \in Wanting(Over) /\ LastMessage(h)' = LastMessage(h) /\ p * Page \in Nat
    BY <1>0, <1>3, InboxTypes
  <2>3. c # 0 /\ LastMessage(h) < c /\ Cardinality(Reached(c)) >= p * Page
    BY <1>6, <2>2 DEF Still
  <2>. HIDE DEF c
  <2>4. c' # 0 /\ LastMessage(h)' < c' /\ Cardinality(Reached(c)') >= p * Page
    BY <2>1, <2>2, <2>3
  <2>. QED  BY <2>4 DEF c
<1>. QED  BY <1>3, <1>5, <1>6

\* One page more of chats is above the cursor.
LEMMA ListServed ==
    ASSUME LogTypes, ListTypes, AskedInv, listing.page \in Nat \ {0}, listing.step = "asked",
           NEW h \in Chat, LastMessage(h) # 0, h \notin moved,
           NEW L, L = IF listing.page = 1 THEN Listed(listing.cursor)
                      ELSE DOMAIN list \cup Listed(listing.cursor),
           h \notin L, pinned \cap L = {}
    PROVE  /\ NextCursor(listing.cursor) # 0 /\ LastMessage(h) < NextCursor(listing.cursor)
           /\ Cardinality(Reached(NextCursor(listing.cursor))) >= listing.page * Page
           /\ Listed(listing.cursor) # {}
<1>. DEFINE c == listing.cursor
            x == NextCursor(listing.cursor)
            p == listing.page
<1>0. c \in Nat /\ Page \in Nat \ {0} /\ p \in Nat \ {0} /\ \A g : LastMessage(g) \in Nat
  BY InboxTypes, LastMessageIs, LogLength DEF ListTypes, ListingRecord
<1>1. pinned \cap Under(c) = {}
  BY PinnedListed
<1>2. h \in Under(c) /\ h \notin Listed(c)
        /\ (p # 1 => c # 0 /\ Cardinality(Reached(c)) >= (p - 1) * Page)
  <2>1. CASE p = 1 /\ c = 0
    BY <2>1 DEF Under
  <2>2. CASE p # 1 /\ Still(DOMAIN list, c, p - 1)
    <3>1. h \in Wanting(DOMAIN list)
      BY <2>2 DEF Wanting
    <3>. QED  BY <2>2, <3>1 DEF Still, Under
  <2>. QED  BY <2>1, <2>2 DEF AskedInv
<1>3. /\ x # 0 /\ LastMessage(h) < x /\ x \in Nat /\ (c # 0 => x < c)
      /\ \A g \in Listed(c) : LastMessage(g) >= x
      /\ Listed(c) \subseteq Chat /\ Cardinality(Listed(c)) = Page
  BY <1>0, <1>1, <1>2, PageIs
<1>4. IsFiniteSet(Reached(x)) /\ IsFiniteSet(Reached(c)) /\ IsFiniteSet(Listed(c))
      /\ Listed(c) \subseteq Reached(x)
  <2>1. Reached(x) \subseteq Chat /\ Reached(c) \subseteq Chat
    BY DEF Reached
  <2>2. Listed(c) \subseteq Reached(x)
    BY <1>3 DEF Reached
  <2>. QED  BY <1>3, <2>1, <2>2, InboxTypes, FS_Subset
<1>5. Cardinality(Reached(x)) >= p * Page
  <2>1. CASE p = 1
    <3>1. Cardinality(Listed(c)) <= Cardinality(Reached(x)) /\ Cardinality(Reached(x)) \in Nat
      BY <1>4, FS_Subset, FS_CardinalityType
    <3>2. p * Page = Page
      BY <1>0, <2>1
    <3>. QED  BY <1>0, <1>3, <3>1, <3>2
  <2>2. CASE p # 1
    <3>1. Reached(c) \cap Listed(c) = {}
      <4>1. \A g \in Listed(c) : LastMessage(g) < c
        BY <1>2, <2>2 DEF Listed, Under
      <4>. QED  BY <1>0, <4>1 DEF Reached
    <3>2. Reached(c) \subseteq Reached(x)
      BY <1>0, <1>2, <1>3, <2>2 DEF Reached
    <3>. HIDE DEF c, x, p
    <3>3. /\ Cardinality(Reached(c) \cup Listed(c)) = Cardinality(Reached(c)) + Page
          /\ Cardinality(Reached(c)) \in Nat
      BY <1>3, <1>4, <3>1, DisjointCount
    <3>4. /\ Cardinality(Reached(c) \cup Listed(c)) <= Cardinality(Reached(x))
          /\ Cardinality(Reached(x)) \in Nat
      BY <1>4, <3>2, FS_Subset, FS_CardinalityType
    <3>5. p * Page = (p - 1) * Page + Page /\ (p - 1) * Page \in Nat
      <4>1. \A a, b \in Nat : (a + 1) * b = a * b + b /\ a * b \in Nat
        OBVIOUS
      <4>2. p - 1 \in Nat /\ p = (p - 1) + 1
        BY <1>0, <2>2
      <4>. HIDE DEF p
      <4>. QED  BY <1>0, <4>1, <4>2
    <3>. QED  BY <1>0, <1>2, <2>2, <3>3, <3>4, <3>5
  <2>. QED  BY <2>1, <2>2
<1>6. Listed(c) # {}
  BY <1>0, <1>3, FS_EmptySet
<1>. QED  BY <1>3, <1>5, <1>6

\* There are no more chats than the pages that are read.
Pages == Cardinality(Chat) <= Page * (MaxIterations + 1)

\* The last page leaves nothing.
LEMMA ListEnds ==
    ASSUME LogTypes, Pages, NEW c, Cardinality(Reached(c)) >= (MaxIterations + 1) * Page
    PROVE  \A h \in Chat : LastMessage(h) >= c
<1>1. Reached(c) \subseteq Chat /\ IsFiniteSet(Chat)
  BY InboxTypes DEF Reached
<1>2. IsFiniteSet(Reached(c)) /\ Cardinality(Reached(c)) <= Cardinality(Chat)
      /\ Cardinality(Reached(c)) \in Nat /\ Cardinality(Chat) \in Nat
  BY <1>1, FS_Subset, FS_CardinalityType
<1>3. Page * (MaxIterations + 1) = (MaxIterations + 1) * Page /\ Page * (MaxIterations + 1) \in Nat
  BY InboxTypes
<1>4. Cardinality(Reached(c)) = Cardinality(Chat)
  BY <1>2, <1>3 DEF Pages
<1>5. Reached(c) = Chat
  BY <1>1, <1>4, FS_Subset
<1>. QED  BY <1>5 DEF Reached

\* What should be listed stays on its way.
LEMMA PhaseInvNext ==
    ASSUME Pages, ServerTypes, ListTypes, PhaseInv, [InboxNext]_inboxVars
    PROVE  PhaseInv'
<1>0. LogTypes /\ ListTypes' /\ MaxIterations \in Nat /\ Page \in Nat \ {0} /\ AskedInv /\ ServedInv /\ RestInv
  BY ListNext, InboxTypes DEF ServerTypes, PhaseInv
<1>1. CASE LoadChats
  <2>1. listing'.step = "asked" /\ listing'.page = 1 /\ listing'.cursor = 0
    BY <1>1, FirstPageIs DEF LoadChats
  <2>. QED  BY <1>0, <2>1 DEF PhaseInv, AskedInv, ServedInv, RestInv
<1>2. CASE ListServe
  <2>1. /\ UNCHANGED <<serverVars, admin, paneVars, list, known, heard, off, moved, short, sendVars>>
        /\ listing.step = "asked"
        /\ listing'.cursor = listing.cursor /\ listing'.page = listing.page
        /\ \/ listing'.step = "failed"
           \/ /\ listing'.step = "served" /\ listing'.rows = Listed(listing.cursor)
              /\ listing'.next = NextCursor(listing.cursor)
    BY <1>0, <1>2, ListServeIs
  <2>2. CASE listing'.step = "failed"
    BY <2>2 DEF PhaseInv, AskedInv, ServedInv, RestInv
  <2>3. CASE /\ listing'.step = "served" /\ listing'.rows = Listed(listing.cursor)
             /\ listing'.next = NextCursor(listing.cursor)
    <3>1. listing.page \in 1..(MaxIterations + 1) /\ listing.page \in Nat \ {0}
      BY <1>0, <2>1 DEF PhaseInv
    <3>2. log' = log /\ pinned' = pinned /\ moved' = moved /\ list' = list
      BY <2>1 DEF serverVars
    <3>3. \A h : LastMessage(h)' = LastMessage(h)
      BY <3>2 DEF LastMessage, Of
    <3>4. Over' = IF listing.page = 1 THEN Listed(listing.cursor)
                  ELSE DOMAIN list \cup Listed(listing.cursor)
      BY <2>1, <2>3, <3>2 DEF Over
    <3>5. ASSUME NEW h \in Wanting(Over)'
          PROVE  /\ listing'.next # 0 /\ LastMessage(h)' < listing'.next
                 /\ Cardinality(Reached(listing'.next)) >= listing'.page * Page
                 /\ listing'.rows # {}
      <4>1. /\ h \in Chat /\ h \notin Over' /\ h \notin moved /\ LastMessage(h) # 0
            /\ pinned \cap Over' = {}
        BY <3>2, <3>3 DEF Wanting
      <4>2. /\ NextCursor(listing.cursor) # 0 /\ LastMessage(h) < NextCursor(listing.cursor)
            /\ Cardinality(Reached(NextCursor(listing.cursor))) >= listing.page * Page
            /\ Listed(listing.cursor) # {}
        BY <1>0, <2>1, <3>1, <3>4, <4>1, ListServed
      <4>. QED  BY <2>1, <2>3, <3>3, <4>2
    <3>6. Reached(listing.next)' = Reached(listing'.next)
      BY <3>3 DEF Reached
    <3>7. Still(Over, listing.next, listing.page)'
      BY <3>5, <3>6 DEF Still
    <3>. QED  BY <2>1, <2>3, <3>1, <3>5, <3>7 DEF PhaseInv, AskedInv, ServedInv, RestInv
  <2>. QED  BY <2>1, <2>2, <2>3
<1>3. CASE ListAnswer
  <2>. DEFINE going == listing.next # 0 /\ listing.page <= MaxIterations /\ listing.rows # {}
  <2>1. /\ listing.step = "served" /\ DOMAIN list' = Over
        /\ UNCHANGED <<serverVars, moved, short>>
        /\ IF going
           THEN /\ listing'.step = "asked" /\ listing'.cursor = listing.next
                /\ listing'.page = listing.page + 1
           ELSE listing'.step = "none"
    <3>. DEFINE kept == IF listing.page = 1 THEN {} ELSE DOMAIN list
                new  == listing.rows \ kept
    <3>1. /\ listing.step = "served" /\ list' \in [kept \cup new -> Nat]
          /\ UNCHANGED <<serverVars, moved, short>>
          /\ IF going
             THEN /\ listing'.step = "asked" /\ listing'.cursor = listing.next
                  /\ listing'.page = listing.page + 1
             ELSE listing'.step = "none"
      BY <1>0, <1>3, ListAnswerIs
    <3>2. kept \cup new = Over
      BY DEF Over
    <3>. QED  BY <3>1, <3>2
  <2>2. log' = log /\ pinned' = pinned
    BY <2>1 DEF serverVars
  <2>3. \A h : LastMessage(h)' = LastMessage(h)
    BY <2>2 DEF LastMessage, Of
  <2>4. Wanting(DOMAIN list)' = Wanting(Over)
    BY <2>1, <2>2, <2>3 DEF Wanting
  <2>5. /\ Still(Over, listing.next, listing.page) /\ (listing.rows = {} => Wanting(Over) = {})
        /\ listing.page \in 1..(MaxIterations + 1)
    BY <1>0, <2>1 DEF ServedInv, PhaseInv
  <2>6. CASE going
    <3>1. /\ listing'.page \in 1..(MaxIterations + 1) /\ listing'.page # 1
          /\ listing'.page - 1 = listing.page
      BY <1>0, <2>1, <2>5, <2>6
    <3>2. Reached(listing.cursor)' = Reached(listing.next)
      BY <2>1, <2>3, <2>6 DEF Reached
    <3>3. Still(DOMAIN list, listing.cursor, listing.page - 1)'
      BY <2>1, <2>3, <2>4, <2>5, <2>6, <3>1, <3>2 DEF Still
    <3>. QED  BY <2>1, <2>6, <3>1, <3>3 DEF PhaseInv, AskedInv, ServedInv, RestInv
  <2>7. CASE ~going
    <3>1. ASSUME NEW h \in Wanting(Over)  PROVE FALSE
      <4>1. /\ listing.next # 0 /\ LastMessage(h) < listing.next
            /\ Cardinality(Reached(listing.next)) >= listing.page * Page
        BY <2>5, <3>1 DEF Still
      <4>2. listing.page = MaxIterations + 1
        BY <1>0, <2>5, <2>7, <3>1, <4>1
      <4>3. h \in Chat /\ listing.next \in Nat /\ LastMessage(h) \in Nat
        BY <1>0, LastGrows DEF Wanting, ListTypes, ListingRecord
      <4>4. LastMessage(h) >= listing.next
        BY <1>0, <4>1, <4>2, <4>3, ListEnds
      <4>. QED  BY <4>1, <4>3, <4>4
    <3>. QED  BY <2>1, <2>4, <2>7, <3>1 DEF PhaseInv, AskedInv, ServedInv, RestInv
  <2>. QED  BY <2>6, <2>7
<1>4. CASE ListFails
  <2>1. listing'.step = "none" /\ short' = TRUE
    BY <1>4, FirstPageIs DEF ListFails
  <2>. QED  BY <2>1 DEF PhaseInv, AskedInv, ServedInv, RestInv
<1>5. CASE Grown /\ listing.step # "none"
  <2>1. listing' = listing
    BY <1>5 DEF Grown
  <2>2. AskedInv'
    <3>1. ASSUME listing.step = "asked", listing.page # 1,
                 Still(DOMAIN list, listing.cursor, listing.page - 1)
          PROVE  Still(DOMAIN list, listing.cursor, listing.page - 1)'
      <4>1. listing.page - 1 \in Nat
        BY <1>0, <3>1 DEF PhaseInv
      <4>2. \A h \in Wanting(DOMAIN list)' :
                    /\ listing.cursor' # 0 /\ LastMessage(h)' < listing.cursor'
                    /\ Cardinality(Reached(listing.cursor)') >= (listing.page - 1) * Page
        BY <1>0, <1>5, <3>1, <4>1, StillNext
      <4>. QED  BY <2>1, <4>2 DEF Still
    <3>. QED  BY <1>0, <2>1, <3>1 DEF AskedInv
  <2>3. ServedInv'
    <3>1. ASSUME listing.step = "served", Still(Over, listing.next, listing.page)
          PROVE  Still(Over, listing.next, listing.page)'
      <4>1. listing.page \in Nat
        BY <1>0, <3>1 DEF PhaseInv
      <4>2. \A h \in Wanting(Over)' :
                    /\ listing.next' # 0 /\ LastMessage(h)' < listing.next'
                    /\ Cardinality(Reached(listing.next)') >= listing.page * Page
        BY <1>0, <1>5, <3>1, <4>1, StillNext
      <4>. QED  BY <2>1, <4>2 DEF Still
    <3>2. Wanting(Over)' \subseteq Wanting(Over)
      BY <1>0, <1>5, StillNext
    <3>. QED  BY <1>0, <2>1, <3>1, <3>2 DEF ServedInv
  <2>4. RestInv'
    BY <1>5, <2>1 DEF RestInv
  <2>. QED  BY <2>1, <2>2, <2>3, <2>4 DEF PhaseInv
<1>6. CASE Grown /\ ~LoadChats /\ listing.step = "none"
  <2>0. listing' = listing
    BY <1>6 DEF Grown
  <2>1. ASSUME opening' = 0, ~short', NEW h \in Wanting(DOMAIN list)'
        PROVE  h \in off' \/ \E m \in Of(h)' : Carried(m)'
    <3>1. /\ h \in Chat /\ h \notin DOMAIN list' /\ h \notin moved' /\ LastMessage(h)' # 0
          /\ pinned' \cap DOMAIN list' = {}
      BY DEF Wanting
    <3>2. pinned \cap DOMAIN list = {} /\ h \notin DOMAIN list /\ moved \subseteq moved'
          /\ (h \in off => h \in off') /\ ~short
      BY <1>0, <1>6, <2>1, <3>1, LastGrows DEF Grown
    <3>3. opening = 0
      <4>1. \/ opening' = opening + 1 /\ opening \in Nat
            \/ opening' = opening
        <5>1. InboxReady => LoadChats
          BY Zenon DEF InboxReady
        <5>2. ChooseInbox => opening' = opening + 1
          BY DEF ChooseInbox
        <5>3. \A g : SelectChat(g) => opening' = opening
          BY DEF SelectChat
        <5>4. \A i : Assignees(i) => opening' = opening
          BY DEF Assignees
        <5>5. opening \in Nat
          BY DEF ServerTypes, ChosenTypes
        <5>. QED  BY <1>6, <5>1, <5>2, <5>3, <5>4, <5>5, ChosenSteps
      <4>. QED  BY <2>1, <4>1
    <3>4. CASE \E mine \in BOOLEAN : Arrive(h, mine)
      <4>1. PICK mine \in BOOLEAN : Arrive(h, mine)
        BY <3>4
      <4>. DEFINE x == [chat |-> h, fromMe |-> mine, n |-> changes[h] + 1]
      <4>2. log' = Append(log, x) /\ due' = due \cup {Len(log) + 1} /\ x.chat = h
        BY <4>1 DEF Arrive
      <4>3. x \in LogRecord
        BY <1>0, <3>1 DEF LogRecord, LogTypes
      <4>. HIDE DEF x
      <4>4. Len(log) \in Nat /\ Len(log') = Len(log) + 1 /\ log'[Len(log) + 1] = x
        BY <1>0, <4>2, <4>3, AppendProperties, LogLength DEF LogTypes
      <4>5. Len(log) + 1 \in Of(h)' /\ Len(log) + 1 \in due'
        BY <4>2, <4>4 DEF Of
      <4>. QED  BY <4>5 DEF Carried
    <3>5. CASE ~\E mine \in BOOLEAN : Arrive(h, mine)
      <4>1. h \notin moved /\ LastMessage(h) # 0
        BY <1>0, <3>1, <3>2, <3>5, WantingFrom
      <4>2. h \in Wanting(DOMAIN list)
        BY <3>1, <3>2, <4>1 DEF Wanting
      <4>3. h \in off \/ \E m \in Of(h) : Carried(m)
        BY <1>0, <1>6, <3>2, <3>3, <4>2 DEF RestInv
      <4>4. ASSUME NEW m \in Of(h), Carried(m)
            PROVE  h \in off' \/ \E q \in Of(h)' : Carried(q)'
        <5>1. m \in 1..Len(log) /\ log[m].chat = h /\ m \in Of(h)'
          BY <1>0, LogNext DEF Of
        <5>2. CASE Carried(m)'
          BY <5>1, <5>2
        <5>3. CASE ~online /\ Announce(m)
          <6>1. Publish(New(m))
            BY <5>3 DEF Announce
          <6>2. New(m) \in EventRecord /\ New(m).kind = "new" /\ New(m).chat = h
            BY <1>0, <5>1, NewIs
          <6>3. off' = off \cup {h}
            <7>. DEFINE e == New(m)
            <7>1. e \in EventRecord /\ (e.kind # "sync" => e.chat \in Chat) /\ Publish(e)
              BY <3>1, <6>1, <6>2
            <7>. HIDE DEF e
            <7>2. ~online /\ e.kind # "sync" => off' = IF e.kind = "status" THEN off ELSE off \cup {e.chat}
              BY <7>1, PublishList DEF ServerTypes
            <7>. QED  BY <5>3, <6>2, <7>2 DEF e
          <6>. QED  BY <6>3
        <5>4. CASE Drop /\ \E j \in 1..Len(wire) : wire[j].kind = "new" /\ wire[j].msg = m
          <6>1. PICK j \in 1..Len(wire) : wire[j].kind = "new" /\ wire[j].msg = m
            BY <5>4
          <6>2. wire[j].chat = h
            BY <5>1, <6>1 DEF ServerTypes, WireTypes, EventTyped
          <6>3. off' = off \cup {g \in Chat : \E q \in 1..Len(wire) :
                                    wire[q].chat = g /\ wire[q].kind \notin {"sync", "status"}}
            BY <5>4, DropList DEF ServerTypes
          <6>. QED  BY <3>1, <6>1, <6>2, <6>3
        <5>5. CASE \E e \in ToSet(wire) : HearNew(e) /\ e.msg = m
          <6>1. PICK e \in ToSet(wire) : HearNew(e) /\ e.msg = m
            BY <5>5
          <6>2. e.chat = h /\ (e.chat \notin DOMAIN list => LoadChats)
            BY <5>1, <6>1, HearNewIs
          <6>. QED  BY <1>6, <3>2, <6>2
        <5>. QED  BY <4>4, <5>1, <5>2, <5>3, <5>4, <5>5, CarriedNext
      <4>. QED  BY <3>2, <4>3, <4>4
    <3>. QED  BY <3>4, <3>5
  <2>2. RestInv'
    BY <2>1 DEF RestInv
  <2>. QED  BY <1>6, <2>0, <2>2 DEF PhaseInv, AskedInv, ServedInv
<1>. QED  BY <1>1, <1>2, <1>3, <1>4, <1>5, <1>6, ListPhases

\* At rest every chat is listed, whatever pages, events and mistakes crossed, but for the
\* excuses that AllListed names (loadChats, loadMoreChatsBackground), when there are no more
\* chats than the pages that the loop reads.
THEOREM AllListedHolds == ASSUME Pages PROVE InboxSpec => []AllListed
<1>. DEFINE Inv == InboxTypeInv /\ AttachInv /\ PhaseInv
<1>1. InboxInit => Inv
  <2>. SUFFICES ASSUME InboxInit  PROVE PhaseInv
    BY InitTypes, InitSafe DEF InboxSafeInv
  <2>1. listing.step = "none"
    BY FirstPageIs DEF InboxInit
  <2>2. opening = 0 => DOMAIN list = Chat
    BY DEF InboxInit
  <2>. QED  BY <2>1, <2>2 DEF PhaseInv, AskedInv, ServedInv, RestInv, Wanting
<1>2. Inv /\ [InboxNext]_inboxVars => Inv'
  BY InboxTypeStep, PhaseInvNext DEF InboxTypeInv
<1>3. Inv => AllListed
  <2>. SUFFICES ASSUME Inv, Rest, ~short, NEW h \in Chat \ DOMAIN list
                PROVE  h \in moved \cup off \/ LastMessage(h) = 0 \/ pinned \cap DOMAIN list # {}
    BY DEF AllListed
  <2>1. \A m : ~Carried(m)
    BY DEF Rest, Carried
  <2>2. \A g \in Wanting(DOMAIN list) : g \in off
    BY <2>1 DEF Rest, PhaseInv, RestInv
  <2>. QED  BY <2>2 DEF Wanting
<1>. QED  BY <1>1, <1>2, <1>3, PTL DEF InboxSpec

-----------------------------------------------------------------------------
(* The counts.  f[c] is the unread count of chat h after its change c.     *)

Counted == [Nat -> Nat]
RowGood(f, top, r) ==
    r.n \in 0..top /\ (r.n # 0 => f[r.n] = IF r.fromMe THEN 0 ELSE f[r.n - 1] + 1)
MarkGood(f, top, k) ==
    k.step # "clear" => /\ k.n \in 1..top /\ f[k.n] = 0
                        /\ k.step = "tell" => k.seen \in 0..top /\ f[k.seen] = k.count
UpdateGood(f, top, e) ==
    e.kind = "update" => /\ e.n \in 1..top /\ f[e.n] = 0
                         /\ e.seen \in 0..top /\ f[e.seen] = e.count
PageGood(f, top, h, x) ==
    x.step = "served" => x.seen[h] \in 0..top /\ f[x.seen[h]] = x.count[h]

\* What was written, read and sent of the count is in its history.
History(f, h) ==
    /\ changes[h] # 0 /\ f[changes[h]] = unread[h]
    /\ \A m \in Of(h) : RowGood(f, changes[h], log[m])
    /\ \A k \in marks : k.chat = h => MarkGood(f, changes[h], k)
    /\ \A j \in 1..Len(wire) : wire[j].chat = h => UpdateGood(f, changes[h], wire[j])
    /\ PageGood(f, changes[h], h, listing)

\* A longer history of a count tells the same of its past.
LEMMA GoodStays ==
    ASSUME NEW f, NEW g, NEW t \in Nat, NEW u \in Nat, t <= u, \A i \in 0..t : g[i] = f[i]
    PROVE  /\ \A r : RowGood(f, t, r) => RowGood(g, u, r)
           /\ \A k : MarkGood(f, t, k) => MarkGood(g, u, k)
           /\ \A e : UpdateGood(f, t, e) => UpdateGood(g, u, e)
           /\ \A h, x : PageGood(f, t, h, x) => PageGood(g, u, h, x)
<1>1. ASSUME NEW r, RowGood(f, t, r)  PROVE RowGood(g, u, r)
  <2>1. r.n \in 0..t /\ r.n \in 0..u /\ (r.n # 0 => r.n - 1 \in 0..t)
    BY <1>1 DEF RowGood
  <2>. QED  BY <1>1, <2>1 DEF RowGood
<1>2. \A k : MarkGood(f, t, k) => MarkGood(g, u, k)
  <2>1. \A i : (i \in 0..t => i \in 0..u) /\ (i \in 1..t => i \in 1..u /\ i \in 0..t)
    OBVIOUS
  <2>. QED  BY <2>1 DEF MarkGood
<1>3. \A e : UpdateGood(f, t, e) => UpdateGood(g, u, e)
  <2>1. \A i : (i \in 0..t => i \in 0..u) /\ (i \in 1..t => i \in 1..u /\ i \in 0..t)
    OBVIOUS
  <2>. QED  BY <2>1 DEF UpdateGood
<1>4. \A h, x : PageGood(f, t, h, x) => PageGood(g, u, h, x)
  <2>1. \A i : i \in 0..t => i \in 0..u
    OBVIOUS
  <2>. QED  BY <2>1 DEF PageGood
<1>. QED  BY <1>1, <1>2, <1>3, <1>4

\* How the count and the log of a chat change.
LEMMA ChangeIs ==
    ASSUME LogTypes, MarkTypes, [InboxNext]_inboxVars, NEW h \in Chat
    PROVE  /\ changes[h] \in Nat /\ unread[h] \in Nat /\ changes'[h] \in Nat /\ unread'[h] \in Nat
           /\ \/ changes'[h] = changes[h] /\ unread'[h] = unread[h]
              \/ changes'[h] = changes[h] + 1
           /\ \A m \in Of(h)' :
                 \/ m \in Of(h) /\ log'[m] = log[m]
                 \/ /\ log'[m].n = changes[h] + 1 /\ changes'[h] = changes[h] + 1
                    /\ unread'[h] = IF log'[m].fromMe THEN 0 ELSE unread[h] + 1
                    /\ m \in due'
<1>0. LogTypes'
  BY LogNext
<1>1. changes[h] \in Nat /\ unread[h] \in Nat /\ changes'[h] \in Nat /\ unread'[h] \in Nat
  BY <1>0 DEF LogTypes
<1>. DEFINE Goal == /\ \/ changes'[h] = changes[h] /\ unread'[h] = unread[h]
                       \/ changes'[h] = changes[h] + 1
                    /\ \A m \in Of(h)' :
                          \/ m \in Of(h) /\ log'[m] = log[m]
                          \/ /\ log'[m].n = changes[h] + 1 /\ changes'[h] = changes[h] + 1
                             /\ unread'[h] = IF log'[m].fromMe THEN 0 ELSE unread[h] + 1
                             /\ m \in due'
<1>2. ASSUME log' = log, unread' = unread, changes' = changes  PROVE Goal
  BY <1>2 DEF Of
<1>3. ASSUME NEW g \in Chat, NEW mine \in BOOLEAN, Arrive(g, mine)  PROVE Goal
  <2>. DEFINE x == [chat |-> g, fromMe |-> mine, n |-> changes[g] + 1]
  <2>1. /\ log' = Append(log, x) /\ x.chat = g /\ x.fromMe = mine /\ x.n = changes[g] + 1
        /\ unread' = [unread EXCEPT ![g] = IF mine THEN 0 ELSE @ + 1]
        /\ changes' = [changes EXCEPT ![g] = @ + 1]
        /\ due' = due \cup {Len(log) + 1}
    BY <1>3 DEF Arrive
  <2>2. x \in LogRecord
    BY DEF LogRecord, LogTypes
  <2>. HIDE DEF x
  <2>3. /\ Len(log) \in Nat /\ Len(log') = Len(log) + 1 /\ log'[Len(log) + 1] = x
        /\ \A m \in 1..Len(log) : log'[m] = log[m]
    BY <2>1, <2>2, AppendProperties, LogLength DEF LogTypes
  <2>4. \A m \in 1..Len(log') : m \in 1..Len(log) \/ m = Len(log) + 1
    BY <2>3
  <2>5. g = h => /\ unread'[h] = (IF mine THEN 0 ELSE unread[h] + 1) /\ changes'[h] = changes[h] + 1
    BY <2>1 DEF LogTypes
  <2>6. g # h => unread'[h] = unread[h] /\ changes'[h] = changes[h]
    BY <2>1 DEF LogTypes
  <2>7. ASSUME NEW m \in Of(h)'
        PROVE  \/ m \in Of(h) /\ log'[m] = log[m]
               \/ /\ log'[m].n = changes[h] + 1 /\ changes'[h] = changes[h] + 1
                  /\ unread'[h] = IF log'[m].fromMe THEN 0 ELSE unread[h] + 1
                  /\ m \in due'
    <3>1. m \in 1..Len(log') /\ log'[m].chat = h
      BY DEF Of
    <3>2. CASE m \in 1..Len(log)
      BY <2>3, <3>1, <3>2 DEF Of
    <3>3. CASE m = Len(log) + 1
      <4>1. log'[m] = x /\ g = h /\ m \in due'
        BY <2>1, <2>3, <3>1, <3>3
      <4>. QED  BY <2>1, <2>5, <4>1
    <3>. QED  BY <2>4, <3>1, <3>2, <3>3
  <2>. QED  BY <2>5, <2>6, <2>7
<1>4. ASSUME NEW k \in marks, MarkClear(k)  PROVE Goal
  <2>1. /\ unread' = [unread EXCEPT ![k.chat] = 0] /\ log' = log
        /\ changes' = [changes EXCEPT ![k.chat] = @ + 1]
    BY <1>4, Zenon DEF MarkClear
  <2>2. \A m \in Of(h)' : m \in Of(h) /\ log'[m] = log[m]
    BY <2>1 DEF Of
  <2>3. changes'[h] = changes[h] + 1 \/ (changes'[h] = changes[h] /\ unread'[h] = unread[h])
    BY <2>1 DEF LogTypes
  <2>. QED  BY <2>2, <2>3
<1>5. (\E m \in due : Announce(m)) => log' = log /\ unread' = unread /\ changes' = changes
  BY DEF Announce
<1>. QED  BY <1>1, <1>2, <1>3, <1>4, <1>5, LogSteps

\* How the marks of a chat change.
LEMMA MarksAre ==
    ASSUME LogTypes, ChosenTypes, MarkTypes, [InboxNext]_inboxVars, NEW h \in Chat, NEW j \in marks', j.chat = h
    PROVE  \/ j \in marks
           \/ j.step = "clear"
           \/ /\ j.step = "fetch" /\ j.n = changes[h] + 1 /\ changes'[h] = changes[h] + 1 /\ unread'[h] = 0
           \/ \E k \in marks : /\ k.chat = h /\ k.step # "clear" /\ k.n = j.n
                               /\ \/ j.step = "tell" /\ j.seen = changes[h] /\ j.count = unread[h]
                                  \/ j.step = "answer" /\ MarkTell(k)
<1>. DEFINE Goal ==
           \/ j \in marks
           \/ j.step = "clear"
           \/ /\ j.step = "fetch" /\ j.n = changes[h] + 1 /\ changes'[h] = changes[h] + 1 /\ unread'[h] = 0
           \/ \E k \in marks : /\ k.chat = h /\ k.step # "clear" /\ k.n = j.n
                               /\ \/ j.step = "tell" /\ j.seen = changes[h] /\ j.count = unread[h]
                                  \/ j.step = "answer" /\ MarkTell(k)
<1>0. \A k \in marks : k \in MarkRecord /\ k.chat \in Chat
  BY DEF MarkTypes, MarkRecord
<1>1. ASSUME NEW m \in due, Announce(m)  PROVE Goal
  <2>1. j \in marks \/ j = Marking(log[m].chat, m)
    BY <1>1 DEF Announce
  <2>2. m \in 1..Len(log)
    BY DEF LogTypes
  <2>. QED  BY <2>1, <2>2, LogRow, MarkingIs
<1>2. CASE Mark
  <2>1. active \in Chat /\ (j \in marks \/ j = Marking(active, 0))
    BY <1>2 DEF Mark, ChosenTypes
  <2>. QED  BY <2>1, MarkingIs
<1>3. ASSUME NEW k \in marks, MarkClear(k)  PROVE Goal
  <2>1. /\ j \in marks \/ j = [k EXCEPT !.step = "fetch", !.n = changes[k.chat] + 1]
        /\ unread' = [unread EXCEPT ![k.chat] = 0]
        /\ changes' = [changes EXCEPT ![k.chat] = @ + 1]
    BY <1>3, Zenon DEF MarkClear
  <2>2. changes[k.chat] + 1 \in Nat
    BY <1>0 DEF LogTypes
  <2>. DEFINE x == changes[k.chat] + 1
  <2>3. j = [k EXCEPT !.step = "fetch", !.n = x] => j.chat = k.chat /\ j.step = "fetch" /\ j.n = x
    <3>1. x \in Nat /\ k \in MarkRecord
      BY <1>0, <2>2
    <3>. HIDE DEF x
    <3>. QED  BY <3>1 DEF MarkRecord
  <2>4. k.chat = h => changes'[h] = changes[h] + 1 /\ unread'[h] = 0
    BY <2>1 DEF LogTypes
  <2>. QED  BY <2>1, <2>3, <2>4
<1>4. ASSUME NEW k \in marks, MarkFetch(k)  PROVE Goal
  <2>. DEFINE x == unread[k.chat]
              y == changes[k.chat]
  <2>1. (j \in marks \/ j = [k EXCEPT !.step = "tell", !.count = x, !.seen = y]) /\ k.step = "fetch"
    BY <1>4, Zenon DEF MarkFetch
  <2>2. x \in Nat /\ y \in Nat
    BY <1>0 DEF LogTypes
  <2>3. j = [k EXCEPT !.step = "tell", !.count = x, !.seen = y] =>
           j.chat = k.chat /\ j.step = "tell" /\ j.n = k.n /\ j.count = x /\ j.seen = y
    <3>1. k \in MarkRecord
      BY <1>0
    <3>. HIDE DEF x, y
    <3>. QED  BY <2>2, <3>1 DEF MarkRecord
  <2>. QED  BY <2>1, <2>3
<1>5. ASSUME NEW k \in marks, MarkTell(k)  PROVE Goal
  <2>1. (j \in marks \/ j = [k EXCEPT !.step = "answer"]) /\ k.step = "tell"
    BY <1>5, Zenon DEF MarkTell
  <2>2. j = [k EXCEPT !.step = "answer"] => j.chat = k.chat /\ j.step = "answer" /\ j.n = k.n
    BY <1>0, MarkAnswers, Zenon
  <2>. QED  BY <1>5, <2>1, <2>2
<1>6. ASSUME NEW k \in marks, MarkAnswer(k)  PROVE Goal
  BY <1>6 DEF MarkAnswer
<1>7. CASE UNCHANGED marks
  BY <1>7
<1>. QED  BY <1>1, <1>2, <1>3, <1>4, <1>5, <1>6, <1>7, MarkSteps

\* An update that is on the wire was there, or is just told.
LEMMA WiresAre ==
    ASSUME LogTypes, MarkTypes, WireTypes, [InboxNext]_inboxVars, NEW j \in 1..Len(wire')
    PROVE  \/ \E i \in 1..Len(wire) : wire'[j] = wire[i]
           \/ wire'[j].kind # "update"
           \/ \E k \in marks : MarkTell(k) /\ wire'[j] = Update(k)
<1>. DEFINE Old == \E i \in 1..Len(wire) : wire'[j] = wire[i]
<1>0. wire \in Seq(EventRecord) /\ Len(wire) \in Nat
  BY LenProperties DEF WireTypes
<1>1. ASSUME NEW e \in EventRecord, wire' = Append(wire, e)  PROVE Old \/ wire'[j] = e
  <2>1. /\ Len(wire') = Len(wire) + 1 /\ wire'[Len(wire) + 1] = e
        /\ \A i \in 1..Len(wire) : wire'[i] = wire[i]
    BY <1>0, <1>1, AppendProperties
  <2>2. j \in 1..Len(wire) \/ j = Len(wire) + 1
    BY <1>0, <2>1
  <2>. QED  BY <2>1, <2>2
<1>2. ASSUME wire # <<>>, wire' = Tail(wire)  PROVE Old
  <2>1. /\ Len(wire') = Len(wire) - 1 /\ \A i \in 1..Len(wire') : wire'[i] = wire[i + 1]
    BY <1>0, <1>2, HeadTailProperties
  <2>2. j + 1 \in 1..Len(wire)
    BY <1>0, <2>1
  <2>. QED  BY <2>1, <2>2
<1>3. \A m \in 1..Len(log) : New(m) \in EventRecord /\ New(m).kind = "new"
  BY NewIs
<1>4. \A h \in Chat : Plain("status", h) \in EventRecord /\ Plain("status", h).kind = "status"
  BY PlainIs
<1>5. Plain("sync", NoChat) \in EventRecord /\ Plain("sync", NoChat).kind = "sync"
  BY PlainIs
<1>6. \A k \in marks : Update(k) \in EventRecord
  BY UpdateIs DEF MarkTypes
<1>7. wire' # <<>>
  BY <1>0
<1>8. wire' = wire => Old
  OBVIOUS
<1>. HIDE DEF Old
<1>9. (\E m \in 1..Len(log) : wire' = Append(wire, New(m))) => Old \/ wire'[j].kind # "update"
  BY <1>1, <1>3
<1>10. (\E h \in Chat : wire' = Append(wire, Plain("status", h))) => Old \/ wire'[j].kind # "update"
  BY <1>1, <1>4
<1>11. wire' = Append(wire, Plain("sync", NoChat)) => Old \/ wire'[j].kind # "update"
  BY <1>1, <1>5
<1>12. (\E k \in marks : MarkTell(k) /\ wire' = Append(wire, Update(k)))
          => Old \/ \E k \in marks : MarkTell(k) /\ wire'[j] = Update(k)
  BY <1>1, <1>6
<1>. QED  BY <1>2, <1>7, <1>8, <1>9, <1>10, <1>11, <1>12, WireChanges, Zenon DEF Old

\* A page of the list reads the counts of its moment.
LEMMA ServedIs ==
    ASSUME ServerTypes, ListTypes, [InboxNext]_inboxVars, listing'.step = "served"
    PROVE  \/ listing' = listing
           \/ /\ listing'.seen = changes /\ listing'.count = unread
              /\ changes' = changes /\ unread' = unread
<1>1. ~LoadChats
  BY FirstPageIs DEF LoadChats
<1>2. ~ListAnswer
  BY ListAnswerIs DEF ServerTypes
<1>3. ~ListFails
  BY FirstPageIs DEF ListFails
<1>4. ListServe => /\ listing'.seen = changes /\ listing'.count = unread
                   /\ changes' = changes /\ unread' = unread
  BY ListServeIs DEF ServerTypes, serverVars
<1>. QED  BY <1>1, <1>2, <1>3, <1>4, ListPhases DEF Grown

\* The history of a count grows with it.
LEMMA HistoryNext ==
    ASSUME ServerTypes, ListTypes, [InboxNext]_inboxVars, NEW h \in Chat, NEW f \in Counted, History(f, h)
    PROVE  \E g \in Counted : (\A i \in 0..changes[h] : g[i] = f[i]) /\ History(g, h)'
<1>0. LogTypes /\ ChosenTypes /\ MarkTypes /\ WireTypes
  BY DEF ServerTypes
<1>. DEFINE t == changes[h]
            u == changes'[h]
            x == unread'[h]
            e == IF u = t THEN f ELSE [f EXCEPT ![u] = x]
<1>1. /\ t \in Nat /\ u \in Nat /\ x \in Nat /\ unread[h] \in Nat
      /\ (u = t /\ x = unread[h]) \/ u = t + 1
  BY <1>0, ChangeIs
<1>2. /\ changes[h] # 0 /\ f[t] = unread[h]
      /\ \A m \in Of(h) : RowGood(f, t, log[m])
      /\ \A k \in marks : k.chat = h => MarkGood(f, t, k)
      /\ \A j \in 1..Len(wire) : wire[j].chat = h => UpdateGood(f, t, wire[j])
      /\ PageGood(f, t, h, listing)
  BY DEF History
<1>e. e \in Counted /\ e[u] = x /\ \A i \in 0..t : e[i] = f[i]
  <2>1. CASE u = t
    <3>1. e = f /\ x = unread[h]
      BY <1>1, <2>1
    <3>. HIDE DEF e, x
    <3>. QED  BY <1>2, <2>1, <3>1
  <2>2. CASE u = t + 1
    <3>1. e = [f EXCEPT ![u] = x]
      BY <1>1, <2>2
    <3>2. \A i \in 0..t : i # u /\ i \in Nat
      BY <1>1, <2>2
    <3>. HIDE DEF e, u, t, x
    <3>. QED  BY <1>1, <3>1, <3>2 DEF Counted
  <2>. QED  BY <1>1, <2>1, <2>2
<1>3. PICK g \in Counted : g[u] = x /\ \A i \in 0..t : g[i] = f[i]
  <2>. HIDE DEF e
  <2>. QED  BY <1>e
<1>4. /\ t <= u /\ u # 0
  BY <1>1, <1>2
<1>5. /\ \A r : RowGood(f, t, r) => RowGood(g, u, r)
      /\ \A k : MarkGood(f, t, k) => MarkGood(g, u, k)
      /\ \A v : UpdateGood(f, t, v) => UpdateGood(g, u, v)
      /\ \A c, p : PageGood(f, t, c, p) => PageGood(g, u, c, p)
  <2>. HIDE DEF t, u
  <2>. QED  BY <1>1, <1>3, <1>4, GoodStays
<1>6. t \in 0..t /\ g[t] = unread[h]
  BY <1>1, <1>2, <1>3
<1>7. ASSUME NEW m \in Of(h)'  PROVE RowGood(g, u, log'[m])
  <2>1. CASE m \in Of(h) /\ log'[m] = log[m]
    BY <1>2, <1>5, <2>1
  <2>2. CASE log'[m].n = t + 1 /\ u = t + 1 /\ x = IF log'[m].fromMe THEN 0 ELSE unread[h] + 1
    <3>1. log'[m].n \in 0..u /\ log'[m].n = u /\ log'[m].n - 1 = t
      BY <1>1, <2>2
    <3>. HIDE DEF t, u, x
    <3>. QED  BY <1>3, <1>6, <2>2, <3>1 DEF RowGood
  <2>3. \/ m \in Of(h) /\ log'[m] = log[m]
        \/ log'[m].n = t + 1 /\ u = t + 1 /\ x = IF log'[m].fromMe THEN 0 ELSE unread[h] + 1
    BY <1>0, ChangeIs
  <2>. QED  BY <2>1, <2>2, <2>3
<1>8. ASSUME NEW j \in marks', j.chat = h  PROVE MarkGood(g, u, j)
  <2>1. CASE j \in marks
    BY <1>2, <1>5, <1>8, <2>1
  <2>2. CASE j.step = "clear"
    BY <2>2 DEF MarkGood
  <2>3. CASE j.step = "fetch" /\ j.n = t + 1 /\ u = t + 1 /\ x = 0
    <3>1. j.n = u /\ u \in 1..u
      BY <1>1, <2>3
    <3>. HIDE DEF t, u, x
    <3>. QED  BY <1>3, <2>3, <3>1 DEF MarkGood
  <2>4. ASSUME NEW k \in marks, k.chat = h, k.step # "clear", k.n = j.n,
               (j.step = "tell" /\ j.seen = t /\ j.count = unread[h]) \/ j.step = "answer"
        PROVE  MarkGood(g, u, j)
    <3>1. MarkGood(g, u, k)
      BY <1>2, <1>5, <2>4
    <3>2. t \in 0..u
      BY <1>1, <1>4
    <3>. HIDE DEF t, u
    <3>. QED  BY <1>6, <2>4, <3>1, <3>2 DEF MarkGood
  <2>5. \/ j \in marks
        \/ j.step = "clear"
        \/ j.step = "fetch" /\ j.n = t + 1 /\ u = t + 1 /\ x = 0
        \/ \E k \in marks : /\ k.chat = h /\ k.step # "clear" /\ k.n = j.n
                            /\ (j.step = "tell" /\ j.seen = t /\ j.count = unread[h]) \/ j.step = "answer"
    BY <1>0, <1>8, MarksAre
  <2>. QED  BY <2>1, <2>2, <2>3, <2>4, <2>5
<1>9. ASSUME NEW j \in 1..Len(wire'), wire'[j].chat = h  PROVE UpdateGood(g, u, wire'[j])
  <2>1. CASE \E i \in 1..Len(wire) : wire'[j] = wire[i]
    BY <1>2, <1>5, <1>9, <2>1
  <2>2. CASE wire'[j].kind # "update"
    BY <2>2 DEF UpdateGood
  <2>3. ASSUME NEW k \in marks, MarkTell(k), wire'[j] = Update(k)  PROVE UpdateGood(g, u, wire'[j])
    <3>1. k.step = "tell"
      BY <2>3, Zenon DEF MarkTell
    <3>2. /\ Update(k).chat = k.chat /\ Update(k).n = k.n /\ Update(k).count = k.count
          /\ Update(k).seen = k.seen
      BY <1>0, UpdateIs DEF MarkTypes
    <3>3. MarkGood(g, u, k)
      BY <1>2, <1>5, <1>9, <2>3, <3>2
    <3>. HIDE DEF u
    <3>. QED  BY <2>3, <3>1, <3>2, <3>3 DEF MarkGood, UpdateGood
  <2>. QED  BY <1>0, <2>1, <2>2, <2>3, WiresAre
<1>10. PageGood(g, u, h, listing')
  <2>1. CASE listing'.step # "served"
    BY <2>1 DEF PageGood
  <2>2. CASE listing' = listing
    BY <1>2, <1>5, <2>2
  <2>3. CASE listing'.seen = changes /\ listing'.count = unread
    <3>1. listing'.seen[h] = t /\ listing'.count[h] = unread[h] /\ t \in 0..u
      BY <1>1, <1>4, <2>3
    <3>. HIDE DEF t, u
    <3>. QED  BY <1>6, <3>1 DEF PageGood
  <2>. QED  BY <2>1, <2>2, <2>3, ServedIs
<1>11. History(g, h)'
  BY <1>3, <1>4, <1>7, <1>8, <1>9, <1>10 DEF History
<1>. QED  BY <1>3, <1>11

\* What the page has heard of a chat only grows, by what was on the wire or was lost.
LEMMA HeardPublish ==
    ASSUME ServerTypes, ListTypes, NEW e \in EventRecord, e.kind # "sync" => e.chat \in Chat, Publish(e),
           NEW h \in Chat
    PROVE  /\ heard[h] \in Nat /\ heard'[h] \in Nat /\ heard[h] <= heard'[h]
           /\ heard'[h] = heard[h] \/ (e.chat = h /\ e.kind # "sync" /\ heard'[h] = e.n)
           /\ \A j \in 1..Len(wire) : \E i \in 1..Len(wire') : wire'[i] = wire[j]
           /\ e.chat = h /\ e.kind # "sync" => \/ \E i \in 1..Len(wire') : wire'[i] = e
                                               \/ e.n <= heard'[h]
<1>0. wire \in Seq(EventRecord) /\ Len(wire) \in Nat
  BY LenProperties DEF ServerTypes, WireTypes
<1>1. heard[h] \in Nat /\ e.n \in Nat
  BY DEF ListTypes, Counts, EventRecord
<1>2. /\ online \/ e.kind = "sync" => heard' = heard
      /\ ~online /\ e.kind # "sync" =>
            /\ heard'[e.chat] = (IF e.n > heard[e.chat] THEN e.n ELSE heard[e.chat])
            /\ \A g \in Chat : g # e.chat => heard'[g] = heard[g]
  BY PublishList DEF ServerTypes
<1>3. /\ heard'[h] \in Nat /\ heard[h] <= heard'[h]
      /\ heard'[h] = heard[h] \/ (e.chat = h /\ e.kind # "sync" /\ heard'[h] = e.n)
      /\ e.chat = h /\ e.kind # "sync" /\ ~online => e.n <= heard'[h]
  <2>1. CASE online \/ e.kind = "sync"
    BY <1>1, <1>2, <2>1
  <2>2. CASE ~online /\ e.kind # "sync" /\ e.chat = h
    BY <1>1, <1>2, <2>2
  <2>3. CASE ~online /\ e.kind # "sync" /\ e.chat # h
    BY <1>1, <1>2, <2>3
  <2>. QED  BY <2>1, <2>2, <2>3
<1>4. /\ \A j \in 1..Len(wire) : \E i \in 1..Len(wire') : wire'[i] = wire[j]
      /\ online => \E i \in 1..Len(wire') : wire'[i] = e
  <2>1. CASE ~online
    <3>1. wire' = wire
      BY <2>1 DEF Publish
    <3>. QED  BY <2>1, <3>1
  <2>2. CASE online
    <3>1. wire' = Append(wire, e)
      BY <2>2 DEF Publish
    <3>2. Len(wire') = Len(wire) + 1 /\ wire'[Len(wire) + 1] = e
          /\ \A i \in 1..Len(wire) : wire'[i] = wire[i]
      BY <1>0, <3>1, AppendProperties
    <3>3. Len(wire) + 1 \in 1..Len(wire') /\ \A j \in 1..Len(wire) : j \in 1..Len(wire')
      BY <1>0, <3>2
    <3>. QED  BY <3>2, <3>3
  <2>. QED  BY <2>1, <2>2
<1>. QED  BY <1>1, <1>3, <1>4

\* An event that is heard counts as heard.
LEMMA HeardTail ==
    ASSUME ServerTypes, ListTypes, NEW e, wire # <<>>, wire' = Tail(wire), e = wire[1], NEW h \in Chat,
           heard' \in Counts,
           heard'[h] = IF e.chat = h /\ e.kind \in {"new", "update"} /\ e.n > heard[h] THEN e.n ELSE heard[h]
    PROVE  /\ heard[h] \in Nat /\ heard'[h] \in Nat /\ heard[h] <= heard'[h]
           /\ \/ heard'[h] = heard[h]
              \/ \E j \in 1..Len(wire) : /\ wire[j].chat = h /\ wire[j].kind \in {"new", "update"}
                                         /\ heard'[h] = wire[j].n
           /\ \A j \in 1..Len(wire) : wire[j].chat = h /\ wire[j].kind \in {"new", "update"} =>
                 (\E i \in 1..Len(wire') : wire'[i] = wire[j]) \/ wire[j].n <= heard'[h]
<1>0. wire \in Seq(EventRecord) /\ Len(wire) \in Nat /\ Len(wire) # 0
  BY EmptySeq, LenProperties DEF ServerTypes, WireTypes
<1>1. 1 \in 1..Len(wire) /\ e \in EventRecord
  BY <1>0, ElementOfSeq
<1>2. heard[h] \in Nat /\ heard'[h] \in Nat /\ e.n \in Nat
  BY <1>1 DEF ListTypes, Counts, EventRecord
<1>3. ASSUME NEW j \in 1..Len(wire)
      PROVE  j = 1 \/ \E i \in 1..Len(wire') : wire'[i] = wire[j]
  <2>1. /\ Len(wire') = Len(wire) - 1 /\ \A i \in 1..Len(wire') : wire'[i] = wire[i + 1]
    BY <1>0, HeadTailProperties
  <2>2. CASE j # 1
    <3>1. j - 1 \in 1..Len(wire') /\ (j - 1) + 1 = j
      BY <1>0, <2>1, <2>2
    <3>. QED  BY <2>1, <3>1
  <2>. QED  BY <2>2
<1>. QED  BY <1>1, <1>2, <1>3

\* What was heard only grows, by what was on its way, and nothing on its way is forgotten.
LEMMA HeardGrows ==
    ASSUME ServerTypes, ListTypes, [InboxNext]_inboxVars, NEW h \in Chat
    PROVE  /\ heard[h] \in Nat /\ heard'[h] \in Nat /\ heard[h] <= heard'[h]
           /\ \/ heard'[h] = heard[h]
              \/ \E j \in 1..Len(wire) : /\ wire[j].chat = h /\ wire[j].kind \in {"new", "update"}
                                         /\ heard'[h] = wire[j].n
              \/ \E m \in Of(h) : heard'[h] = log[m].n
              \/ \E k \in marks : k.chat = h /\ k.step = "tell" /\ heard'[h] = k.n
           /\ \A j \in 1..Len(wire) : wire[j].chat = h /\ wire[j].kind \in {"new", "update"} =>
                 (\E i \in 1..Len(wire') : wire'[i] = wire[j]) \/ wire[j].n <= heard'[h]
<1>. DEFINE Goal ==
           /\ heard[h] \in Nat /\ heard'[h] \in Nat /\ heard[h] <= heard'[h]
           /\ \/ heard'[h] = heard[h]
              \/ \E j \in 1..Len(wire) : /\ wire[j].chat = h /\ wire[j].kind \in {"new", "update"}
                                         /\ heard'[h] = wire[j].n
              \/ \E m \in Of(h) : heard'[h] = log[m].n
              \/ \E k \in marks : k.chat = h /\ k.step = "tell" /\ heard'[h] = k.n
           /\ \A j \in 1..Len(wire) : wire[j].chat = h /\ wire[j].kind \in {"new", "update"} =>
                 (\E i \in 1..Len(wire') : wire'[i] = wire[j]) \/ wire[j].n <= heard'[h]
<1>0. /\ heard[h] \in Nat /\ LogTypes /\ MarkTypes /\ WireTypes /\ heard' \in Counts
      /\ due \subseteq 1..Len(log)
  <2>1. ListTypes'
    BY ListNext
  <2>. QED  BY <2>1 DEF ListTypes, Counts, ServerTypes, LogTypes
<1>1. ASSUME wire' = wire, heard' = heard  PROVE Goal
  <2>1. heard'[h] = heard[h] /\ heard[h] <= heard[h]
    BY <1>0, <1>1
  <2>. QED  BY <1>0, <1>1, <2>1
<1>2. ASSUME NEW m \in 1..Len(log), Announce(m) \/ Repeat(m)  PROVE Goal
  <2>1. Publish(New(m))
    BY <1>2 DEF Announce, Repeat
  <2>2. /\ New(m) \in EventRecord /\ New(m).chat \in Chat /\ New(m).chat = log[m].chat
        /\ New(m).n = log[m].n
    BY <1>0, NewIs
  <2>3. /\ heard[h] \in Nat /\ heard'[h] \in Nat /\ heard[h] <= heard'[h]
        /\ heard'[h] = heard[h] \/ (New(m).chat = h /\ heard'[h] = New(m).n)
        /\ \A j \in 1..Len(wire) : \E i \in 1..Len(wire') : wire'[i] = wire[j]
    BY <2>1, <2>2, HeardPublish
  <2>4. New(m).chat = h => m \in Of(h)
    BY <2>2 DEF Of
  <2>. QED  BY <2>2, <2>3, <2>4
<1>3. ASSUME NEW k \in marks, MarkTell(k)  PROVE Goal
  <2>1. Publish(Update(k)) /\ k.step = "tell"
    BY <1>3, Zenon DEF MarkTell
  <2>2. /\ Update(k) \in EventRecord /\ Update(k).chat \in Chat /\ Update(k).chat = k.chat
        /\ Update(k).n = k.n
    BY <1>0, UpdateIs DEF MarkTypes
  <2>3. /\ heard[h] \in Nat /\ heard'[h] \in Nat /\ heard[h] <= heard'[h]
        /\ heard'[h] = heard[h] \/ (Update(k).chat = h /\ heard'[h] = Update(k).n)
        /\ \A j \in 1..Len(wire) : \E i \in 1..Len(wire') : wire'[i] = wire[j]
    BY <2>1, <2>2, HeardPublish
  <2>. QED  BY <2>1, <2>2, <2>3
<1>4. ASSUME NEW e \in EventRecord, e.kind # "sync" => e.chat \in Chat, e.n = 0, Publish(e)  PROVE Goal
  <2>3. /\ heard[h] \in Nat /\ heard'[h] \in Nat /\ heard[h] <= heard'[h]
        /\ heard'[h] = heard[h] \/ (e.chat = h /\ heard'[h] = e.n)
        /\ \A j \in 1..Len(wire) : \E i \in 1..Len(wire') : wire'[i] = wire[j]
    BY <1>4, HeardPublish
  <2>4. heard'[h] = heard[h]
    BY <1>4, <2>3
  <2>. QED  BY <2>3, <2>4
<1>5. \A g \in Chat : Status(g) => Goal
  <2>1. \A g : Status(g) => Publish(Plain("status", g))
    BY DEF Status
  <2>. QED  BY <1>4, <2>1, PlainIs
<1>6. SyncCompleted => Goal
  <2>1. SyncCompleted => Publish(Plain("sync", NoChat))
    BY DEF SyncCompleted
  <2>. QED  BY <1>4, <2>1, PlainIs
<1>7. CASE Drop
  <2>. DEFINE lost == {j \in 1..Len(wire) : wire[j].chat = h /\ wire[j].kind \notin {"sync", "status"}}
  <2>1. /\ \A j \in lost : wire[j].n <= heard'[h]
        /\ heard[h] <= heard'[h]
        /\ heard'[h] = heard[h] \/ \E j \in lost : heard'[h] = wire[j].n
    BY <1>0, <1>7, DropList
  <2>2. \A j \in 1..Len(wire) : wire[j].kind \in {"new", "status", "update", "sync"}
    <3>1. \A j \in 1..Len(wire) : wire[j] \in EventRecord
      BY <1>0, ElementOfSeq DEF WireTypes
    <3>. QED  BY <3>1 DEF EventRecord
  <2>3. heard'[h] \in Nat
    BY <1>0 DEF Counts
  <2>4. \A j \in 1..Len(wire) : wire[j].chat = h /\ wire[j].kind \in {"new", "update"} => j \in lost
    OBVIOUS
  <2>5. \A j \in lost : j \in 1..Len(wire) /\ wire[j].chat = h /\ wire[j].kind \in {"new", "update"}
    BY <2>2
  <2>. HIDE DEF lost
  <2>. QED  BY <1>0, <2>1, <2>3, <2>4, <2>5
<1>8. ASSUME NEW e, wire # <<>>, wire' = Tail(wire), e = wire[1],
             heard'[h] = IF e.chat = h /\ e.kind \in {"new", "update"} /\ e.n > heard[h] THEN e.n ELSE heard[h]
      PROVE  Goal
  BY <1>0, <1>8, HeardTail, Zenon
<1>9. ASSUME NEW e \in ToSet(wire), HearNew(e)  PROVE Goal
  <2>1. e.chat \in Chat /\ e.n \in Nat /\ Up(e.chat, e.n) /\ e.kind = "new"
        /\ wire # <<>> /\ wire' = Tail(wire) /\ e = wire[1]
    BY <1>9, HearNewIs
  <2>2. heard'[h] = IF e.chat = h /\ e.kind \in {"new", "update"} /\ e.n > heard[h] THEN e.n ELSE heard[h]
    BY <2>1, UpIs
  <2>. QED  BY <1>8, <2>1, <2>2
<1>10. ASSUME NEW e \in ToSet(wire), HearUpdate(e)  PROVE Goal
  <2>1. e.chat \in Chat /\ e.n \in Nat /\ Up(e.chat, e.n) /\ e.kind = "update"
        /\ wire # <<>> /\ wire' = Tail(wire) /\ e = wire[1]
    BY <1>10, HearUpdateIs
  <2>2. heard'[h] = IF e.chat = h /\ e.kind \in {"new", "update"} /\ e.n > heard[h] THEN e.n ELSE heard[h]
    BY <2>1, UpIs
  <2>. QED  BY <1>8, <2>1, <2>2
<1>11. ASSUME NEW e \in ToSet(wire), HearStatus(e) \/ HearSync(e)  PROVE Goal
  <2>1. e.kind \notin {"new", "update"} /\ Heard(e) /\ heard' = heard
    BY <1>11, Zenon DEF HearStatus, HearSync, listVars
  <2>2. wire # <<>> /\ wire' = Tail(wire) /\ e = Head(wire)
    BY <2>1, Zenon DEF Heard
  <2>3. e = wire[1]
    BY <1>0, <2>2 DEF WireTypes
  <2>. QED  BY <1>8, <2>1, <2>2, <2>3
<1>12. ASSUME UNCHANGED <<wire, online>>, ~Socket, \A m \in 1..Len(log) : ~Announce(m) /\ ~Repeat(m),
              \A g \in Chat : ~Status(g), ~SyncCompleted, \A k \in marks : ~MarkTell(k)
       PROVE  Goal
  <2>1. heard' = heard
    <3>1. ListServe => heard' = heard
      BY DEF ListServe
    <3>2. ListAnswer => heard' = heard
      BY DEF ListAnswer
    <3>3. ListFails => heard' = heard
      BY DEF ListFails
    <3>4. InboxReady => heard' = heard
      BY Zenon DEF InboxReady
    <3>5. \A g \in Chat, mine \in BOOLEAN : Arrive(g, mine) => heard' = heard
      BY DEF Arrive
    <3>6. \A k \in marks : MarkAnswer(k) => heard' = heard
      BY DEF MarkAnswer
    <3>7. UNCHANGED listVars => heard' = heard
      BY DEF listVars
    <3>. QED  BY <1>0, <1>12, <3>1, <3>2, <3>3, <3>4, <3>5, <3>6, <3>7, ListSteps DEF Socket
  <2>. QED  BY <1>1, <1>12, <2>1
<1>13. ConnectWS => Goal
  BY <1>1 DEF ConnectWS, listVars
<1>14. Socket => Goal
  BY <1>7, <1>9, <1>10, <1>11, <1>13 DEF Socket
<1>. HIDE DEF Goal
<1>15. Goal
  BY <1>0, <1>2, <1>3, <1>5, <1>6, <1>12, <1>14, WireSteps
<1>. QED  BY <1>15 DEF Goal

\* A change n of chat h that an event on the wire, a message or a mark still tells.
Told(h, n) == \E j \in 1..Len(wire) :
                  wire[j].chat = h /\ wire[j].kind \in {"new", "update"} /\ wire[j].n = n
Cleared(h, n) == \E j \in 1..Len(wire) : wire[j].chat = h /\ wire[j].kind = "update" /\ wire[j].n = n
Marked(h, n) == \E k \in marks : k.chat = h /\ k.n = n /\ k.step \in {"fetch", "tell"}
Stored(h, n) == \E m \in due : m \in Of(h) /\ log[m].n = n

HeardInv(h) ==
    /\ heard[h] \in 1..changes[h]
    /\ \A m \in known : m \in Of(h) => log[m].n <= heard[h]
    /\ \A c \in 1..changes[h] : c > heard[h] => Told(h, c) \/ Marked(h, c) \/ Stored(h, c)
    /\ \A k \in marks : k.chat = h /\ k.step = "answer" => k.n <= heard[h] \/ Cleared(h, k.n)

\* A change of a count is at once stored or marked.
LEMMA NewChange ==
    ASSUME LogTypes, MarkTypes, [InboxNext]_inboxVars, NEW h \in Chat, changes'[h] # changes[h],
           NEW n, n = changes'[h]
    PROVE  Stored(h, n)' \/ Marked(h, n)'
<1>1. ASSUME NEW g \in Chat, NEW mine \in BOOLEAN, Arrive(g, mine)
      PROVE  \E m \in due' : m \in Of(h)' /\ log'[m].n = changes'[h]
  <2>. DEFINE x == [chat |-> g, fromMe |-> mine, n |-> changes[g] + 1]
  <2>1. /\ log' = Append(log, x) /\ x.chat = g /\ x.n = changes[g] + 1
        /\ changes' = [changes EXCEPT ![g] = @ + 1] /\ Len(log) + 1 \in due'
    BY <1>1 DEF Arrive
  <2>2. x \in LogRecord
    BY DEF LogRecord, LogTypes
  <2>. HIDE DEF x
  <2>3. Len(log) \in Nat /\ Len(log') = Len(log) + 1 /\ log'[Len(log) + 1] = x
    BY <2>1, <2>2, AppendProperties, LogLength DEF LogTypes
  <2>4. g = h
    BY <2>1 DEF LogTypes
  <2>5. changes'[h] = changes[h] + 1
    BY <2>1, <2>4 DEF LogTypes
  <2>6. Len(log) + 1 \in Of(h)'
    BY <2>1, <2>3, <2>4 DEF Of
  <2>. QED  BY <2>1, <2>3, <2>4, <2>5, <2>6
<1>2. ASSUME NEW k \in marks, MarkClear(k)
      PROVE  \E j \in marks' : j.chat = h /\ j.n = changes'[h] /\ j.step = "fetch"
  <2>. DEFINE y == changes[k.chat] + 1
              j == [k EXCEPT !.step = "fetch", !.n = y]
  <2>1. j \in marks' /\ changes' = [changes EXCEPT ![k.chat] = @ + 1]
    BY <1>2, Zenon DEF MarkClear
  <2>2. k.chat = h
    BY <2>1 DEF LogTypes
  <2>3. changes'[h] = y /\ y \in Nat
    BY <2>1, <2>2 DEF LogTypes
  <2>4. j.chat = k.chat /\ j.n = y /\ j.step = "fetch"
    <3>1. k \in MarkRecord
      BY DEF MarkTypes
    <3>. HIDE DEF y
    <3>. QED  BY <2>3, <3>1 DEF MarkRecord
  <2>. HIDE DEF j, y
  <2>. QED  BY <2>1, <2>2, <2>3, <2>4
<1>3. (\E m \in due : Announce(m)) => changes' = changes
  BY DEF Announce
<1>4. (\E m \in due' : m \in Of(h)' /\ log'[m].n = changes'[h]) => Stored(h, n)'
  BY DEF Stored
<1>5. (\E j \in marks' : j.chat = h /\ j.n = changes'[h] /\ j.step = "fetch") => Marked(h, n)'
  BY DEF Marked
<1>. QED  BY <1>1, <1>2, <1>3, <1>4, <1>5, LogSteps

\* What is stored and what is marked is told.
LEMMA StoredNext ==
    ASSUME ServerTypes, ListTypes, [InboxNext]_inboxVars, NEW h \in Chat, NEW m \in due, m \in Of(h),
           NEW n, n = log[m].n
    PROVE  /\ m \in Of(h)' /\ log'[m] = log[m]
           /\ m \in due' \/ Told(h, n)' \/ n <= heard'[h]
<1>0. LogTypes /\ MarkTypes /\ m \in 1..Len(log) /\ log[m].chat = h
  BY DEF ServerTypes, Of
<1>1. m \in Of(h)' /\ log'[m] = log[m]
  BY <1>0, LogNext DEF Of
<1>2. ASSUME Announce(m)  PROVE Told(h, n)' \/ n <= heard'[h]
  <2>1. Publish(New(m))
    BY <1>2 DEF Announce
  <2>2. /\ New(m) \in EventRecord /\ New(m).chat = h /\ New(m).n = log[m].n /\ New(m).kind = "new"
    BY <1>0, NewIs
  <2>3. (\E i \in 1..Len(wire') : wire'[i] = New(m)) \/ New(m).n <= heard'[h]
    BY <2>1, <2>2, HeardPublish
  <2>. QED  BY <2>2, <2>3 DEF Told
<1>3. \A x \in due : Announce(x) => x = m \/ m \in due'
  BY DEF Announce
<1>4. \A g \in Chat, mine \in BOOLEAN : Arrive(g, mine) => m \in due'
  BY DEF Arrive
<1>5. \A k \in marks : MarkClear(k) => m \in due'
  BY DEF MarkClear
<1>. QED  BY <1>1, <1>2, <1>3, <1>4, <1>5, LogSteps

\* A mark is told by its update.
LEMMA TellIs ==
    ASSUME ServerTypes, ListTypes, NEW h \in Chat, NEW k \in marks, k.chat = h, MarkTell(k)
    PROVE  Cleared(h, k.n)' \/ k.n <= heard'[h]
<1>1. Publish(Update(k))
  BY Zenon DEF MarkTell
<1>2. /\ Update(k) \in EventRecord /\ Update(k).chat = h /\ Update(k).n = k.n /\ Update(k).kind = "update"
  BY UpdateIs DEF ServerTypes, MarkTypes
<1>3. (\E i \in 1..Len(wire') : wire'[i] = Update(k)) \/ Update(k).n <= heard'[h]
  BY <1>1, <1>2, HeardPublish
<1>4. k.n' = k.n
  OBVIOUS
<1>. QED  BY <1>2, <1>3, <1>4 DEF Cleared

\* What is marked is told.
LEMMA MarkedNext ==
    ASSUME ServerTypes, ListTypes, [InboxNext]_inboxVars, NEW h \in Chat,
           NEW k \in marks, k.chat = h, k.step \in {"fetch", "tell"}
    PROVE  Marked(h, k.n)' \/ Told(h, k.n)' \/ k.n <= heard'[h]
<1>0. k \in MarkRecord
  BY DEF ServerTypes, MarkTypes
<1>1. k \in marks' => Marked(h, k.n)'
  BY DEF Marked
<1>2. ASSUME NEW x \in marks, MarkFetch(x), x = k  PROVE Marked(h, k.n)'
  <2>. DEFINE a == unread[k.chat]
              b == changes[k.chat]
              j == [k EXCEPT !.step = "tell", !.count = a, !.seen = b]
  <2>1. j \in marks'
    BY <1>2, Zenon DEF MarkFetch
  <2>2. j.chat = k.chat /\ j.n = k.n /\ j.step = "tell"
    <3>1. a \in Nat /\ b \in Nat
      BY DEF ServerTypes, LogTypes
    <3>. HIDE DEF a, b
    <3>. QED  BY <1>0, <3>1 DEF MarkRecord
  <2>. HIDE DEF j
  <2>. QED  BY <2>1, <2>2 DEF Marked
<1>3. ASSUME NEW x \in marks, MarkTell(x), x = k  PROVE Told(h, k.n)' \/ k.n <= heard'[h]
  <2>1. Cleared(h, k.n)' \/ k.n <= heard'[h]
    BY <1>3, TellIs
  <2>. QED  BY <2>1 DEF Cleared, Told
<1>4. \A x \in marks : MarkClear(x) => k \in marks'
  BY Zenon DEF MarkClear
<1>5. \A x \in marks : MarkAnswer(x) => k \in marks'
  BY DEF MarkAnswer
<1>6. \A x \in marks : MarkFetch(x) \/ MarkTell(x) => x = k \/ k \in marks'
  BY Zenon DEF MarkFetch, MarkTell
<1>7. \A m : Announce(m) => k \in marks'
  BY DEF Announce
<1>8. Mark => k \in marks'
  BY DEF Mark
<1>. QED  BY <1>1, <1>2, <1>3, <1>4, <1>5, <1>6, <1>7, <1>8, MarkSteps

\* What is known was heard.
LEMMA KnownIs ==
    ASSUME ServerTypes, ListTypes, [InboxNext]_inboxVars, NEW m \in known'
    PROVE  m \in 1..Len(log) /\ (m \in known \/ log[m].n <= heard'[log[m].chat])
<1>1. CASE m \in known
  BY <1>1 DEF ListTypes
<1>2. ASSUME NEW e \in ToSet(wire), HearNew(e), m \notin known
      PROVE  m \in 1..Len(log) /\ log[m].n <= heard'[log[m].chat]
  <2>1. /\ e.chat \in Chat /\ e.msg \in 1..Len(log) /\ e.n = log[e.msg].n /\ e.chat = log[e.msg].chat
        /\ e.n \in Nat /\ known' = known \cup {e.msg} /\ Up(e.chat, e.n)
    BY <1>2, HearNewIs
  <2>2. m = e.msg
    BY <1>2, <2>1
  <2>3. heard'[e.chat] = (IF e.n > heard[e.chat] THEN e.n ELSE heard[e.chat]) /\ heard[e.chat] \in Nat
    BY <2>1, UpIs DEF ListTypes, Counts
  <2>. QED  BY <2>1, <2>2, <2>3
<1>3. known' = known \/ \E e \in ToSet(wire) : HearNew(e)
  <2>1. ListServe \/ ListAnswer \/ ListFails => known' = known
    BY ListServeIs, ListAnswerIs DEF ServerTypes, ListFails
  <2>2. InboxReady => known' = known
    BY Zenon DEF InboxReady
  <2>3. \A h \in Chat, mine \in BOOLEAN : Arrive(h, mine) => known' = known
    BY DEF Arrive
  <2>4. \A x : Announce(x) \/ Repeat(x) \/ Status(x) => known' = known
    BY DEF Announce, Repeat, Status
  <2>5. SyncCompleted \/ Drop => known' = known
    BY DEF SyncCompleted, Drop
  <2>6. \A k \in marks : MarkTell(k) => known' = known
    BY Zenon DEF MarkTell
  <2>7. \A k \in marks : MarkAnswer(k) => known' = known
    BY DEF MarkAnswer
  <2>8. \A e : HearUpdate(e) \/ HearSync(e) => known' = known
    BY Zenon DEF HearUpdate, HearSync
  <2>9. UNCHANGED listVars => known' = known
    BY DEF listVars
  <2>. QED  BY <2>1, <2>2, <2>3, <2>4, <2>5, <2>6, <2>7, <2>8, <2>9, ListSteps
<1>. QED  BY <1>1, <1>2, <1>3

\* No more is heard than happened,
LEMMA HeardBound ==
    ASSUME ServerTypes, ListTypes, [InboxNext]_inboxVars, NEW h \in Chat, NEW f, History(f, h), HeardInv(h)
    PROVE  heard'[h] \in 1..changes[h] /\ changes[h] \in Nat
<1>0. LogTypes /\ WireTypes /\ MarkTypes /\ changes[h] \in Nat
  BY DEF ServerTypes, LogTypes
<1>1. heard[h] \in 1..changes[h] /\ heard[h] \in Nat /\ heard'[h] \in Nat /\ heard[h] <= heard'[h]
  BY HeardGrows DEF HeardInv
<1>2. \A m \in Of(h) : log[m].n <= changes[h]
  <2>1. \A m \in Of(h) : log[m].n \in 0..changes[h]
    BY DEF History, RowGood
  <2>. QED  BY <1>0, <2>1
<1>3. ASSUME NEW j \in 1..Len(wire), wire[j].chat = h, wire[j].kind \in {"new", "update"}
      PROVE  wire[j].n <= changes[h]
  <2>1. CASE wire[j].kind = "update"
    <3>1. wire[j].n \in 1..changes[h]
      BY <1>3, <2>1 DEF History, UpdateGood
    <3>. QED  BY <1>0, <3>1
  <2>2. CASE wire[j].kind = "new"
    <3>1. wire[j].msg \in Of(h) /\ wire[j].n = log[wire[j].msg].n
      BY <1>0, <1>3, <2>2 DEF WireTypes, EventTyped, Of
    <3>. QED  BY <1>2, <3>1
  <2>. QED  BY <1>3, <2>1, <2>2
<1>4. ASSUME NEW k \in marks, k.chat = h, k.step = "tell"  PROVE k.n <= changes[h]
  <2>1. k.n \in 1..changes[h]
    BY <1>4 DEF History, MarkGood
  <2>. QED  BY <1>0, <2>1
<1>5. heard'[h] <= changes[h]
  <2>1. heard[h] <= changes[h]
    BY <1>0, <1>1
  <2>. QED  BY <1>2, <1>3, <1>4, <2>1, HeardGrows
<1>. QED  BY <1>0, <1>1, <1>5

\* and what was not heard yet is still to be told.
LEMMA HeardInvNext ==
    ASSUME ServerTypes, ListTypes, [InboxNext]_inboxVars, NEW h \in Chat, NEW f, History(f, h), HeardInv(h)
    PROVE  HeardInv(h)'
<1>0. LogTypes /\ WireTypes /\ MarkTypes /\ ChosenTypes
  BY DEF ServerTypes
<1>1. /\ heard[h] \in Nat /\ heard'[h] \in Nat /\ heard[h] <= heard'[h] /\ heard[h] \in 1..changes[h]
      /\ heard'[h] \in 1..changes[h] /\ changes[h] \in Nat /\ changes'[h] \in Nat
      /\ changes'[h] = changes[h] \/ changes'[h] = changes[h] + 1
  BY <1>0, HeardGrows, HeardBound, ChangeIs DEF HeardInv
<1>2. heard'[h] \in 1..changes'[h]
  BY <1>1
<1>3. ASSUME NEW m \in known', m \in Of(h)'  PROVE log'[m].n <= heard'[h]
  <2>1. m \in 1..Len(log) /\ (m \in known \/ log[m].n <= heard'[log[m].chat])
    BY KnownIs
  <2>2. log'[m] = log[m] /\ log'[m].chat = h
    BY <1>0, <1>3, <2>1, LogNext DEF Of
  <2>3. m \in Of(h) /\ log[m].n \in Nat
    BY <1>0, <2>1, <2>2, LogRow DEF Of
  <2>4. m \in known => log[m].n <= heard[h]
    BY <2>3 DEF HeardInv
  <2>. QED  BY <1>1, <2>1, <2>2, <2>3, <2>4
<1>4. ASSUME NEW n, NEW j \in 1..Len(wire), wire[j].chat = h, wire[j].kind \in {"new", "update"}, wire[j].n = n
      PROVE  Told(h, n)' \/ n <= heard'[h]
  <2>1. (\E i \in 1..Len(wire') : wire'[i] = wire[j]) \/ wire[j].n <= heard'[h]
    BY <1>4, HeardGrows
  <2>. QED  BY <1>4, <2>1 DEF Told
<1>5. ASSUME NEW n, NEW j \in 1..Len(wire), wire[j].chat = h, wire[j].kind = "update", wire[j].n = n
      PROVE  Cleared(h, n)' \/ n <= heard'[h]
  <2>1. (\E i \in 1..Len(wire') : wire'[i] = wire[j]) \/ wire[j].n <= heard'[h]
    BY <1>5, HeardGrows
  <2>. QED  BY <1>5, <2>1 DEF Cleared
<1>6. ASSUME NEW c \in 1..changes'[h], c > heard'[h]
      PROVE  Told(h, c)' \/ Marked(h, c)' \/ Stored(h, c)'
  <2>1. CASE c \in 1..changes[h]
    <3>1. c > heard[h] /\ ~(c <= heard'[h])
      BY <1>1, <1>6
    <3>2. Told(h, c) \/ Marked(h, c) \/ Stored(h, c)
      BY <2>1, <3>1 DEF HeardInv
    <3>3. CASE Told(h, c)
      BY <1>4, <3>1, <3>3 DEF Told
    <3>4. CASE Marked(h, c)
      <4>1. PICK k \in marks : k.chat = h /\ k.n = c /\ k.step \in {"fetch", "tell"}
        BY <3>4 DEF Marked
      <4>2. Marked(h, k.n)' \/ Told(h, k.n)' \/ k.n <= heard'[h]
        BY <4>1, MarkedNext
      <4>. QED  BY <3>1, <4>1, <4>2
    <3>5. CASE Stored(h, c)
      <4>1. PICK m \in due : m \in Of(h) /\ log[m].n = c
        BY <3>5 DEF Stored
      <4>2. m \in Of(h)' /\ log'[m] = log[m] /\ (m \in due' \/ Told(h, c)' \/ c <= heard'[h])
        BY <4>1, StoredNext
      <4>. QED  BY <3>1, <4>1, <4>2 DEF Stored
    <3>. QED  BY <3>2, <3>3, <3>4, <3>5
  <2>2. CASE c \notin 1..changes[h]
    <3>1. c = changes'[h] /\ changes'[h] # changes[h]
      BY <1>1, <2>2
    <3>. QED  BY <1>0, <3>1, NewChange
  <2>. QED  BY <2>1, <2>2
<1>7. ASSUME NEW j \in marks', j.chat = h, j.step = "answer"
      PROVE  j.n <= heard'[h] \/ Cleared(h, j.n)'
  <2>0. j.n \in Nat
    <3>1. MarkTypes'
      BY <1>0, MarkNext
    <3>. QED  BY <3>1 DEF MarkTypes, MarkRecord
  <2>1. CASE j \in marks
    <3>1. j.n <= heard[h] \/ Cleared(h, j.n)
      BY <1>7, <2>1 DEF HeardInv
    <3>2. CASE j.n <= heard[h]
      BY <1>1, <2>0, <3>2
    <3>3. CASE Cleared(h, j.n)
      BY <1>5, <3>3 DEF Cleared
    <3>. QED  BY <3>1, <3>2, <3>3
  <2>2. CASE \E k \in marks : k.chat = h /\ k.n = j.n /\ MarkTell(k)
    <3>1. PICK k \in marks : k.chat = h /\ k.n = j.n /\ MarkTell(k)
      BY <2>2
    <3>2. Cleared(h, k.n)' \/ k.n <= heard'[h]
      BY <3>1, TellIs
    <3>. QED  BY <3>1, <3>2
  <2>. QED  BY <1>0, <1>7, <2>1, <2>2, MarksAre
<1>8. \A m \in known' : m \in Of(h)' => log'[m].n <= heard'[h]
  BY <1>3
<1>9. \A c \in 1..changes'[h] : c > heard'[h] => Told(h, c)' \/ Marked(h, c)' \/ Stored(h, c)'
  BY <1>6
<1>10. \A j \in marks' : j.chat = h /\ j.step = "answer" => j.n <= heard'[h] \/ Cleared(h, j.n)'
  BY <1>7
<1>. QED  BY <1>2, <1>8, <1>9, <1>10 DEF HeardInv

-----------------------------------------------------------------------------
(* The counts that are listed.                                             *)

\* An update of the chat is on its way.
Ahead(h) == \E j \in 1..Len(wire) : /\ wire[j].chat = h /\ wire[j].kind = "update"
                                    /\ wire[j].n > heard[h]
\* A listed count is the one of the last change heard of, or an update will put it right.
ListGood(f, h) == h \in DOMAIN list \ off => list[h] = f[heard[h]] \/ Ahead(h)

\* What no step of the list touches stays right.
LEMMA KeptGood ==
    ASSUME ServerTypes, ListTypes, [InboxNext]_inboxVars, NEW h \in Chat, NEW f, ListGood(f, h),
           h \in DOMAIN list, h \notin off, list'[h] = list[h], heard'[h] = heard[h]
    PROVE  list'[h] = f[heard'[h]] \/ Ahead(h)'
<1>1. ASSUME NEW j \in 1..Len(wire), wire[j].chat = h, wire[j].kind = "update", wire[j].n > heard[h]
      PROVE  Ahead(h)'
  <2>1. (\E i \in 1..Len(wire') : wire'[i] = wire[j]) \/ wire[j].n <= heard'[h]
    BY <1>1, HeardGrows
  <2>2. wire[j].n \in Nat /\ heard[h] \in Nat
    <3>1. wire[j] \in EventRecord
      BY ElementOfSeq DEF ServerTypes, WireTypes
    <3>. QED  BY <3>1 DEF EventRecord, ListTypes, Counts
  <2>3. \E i \in 1..Len(wire') : wire'[i] = wire[j]
    BY <1>1, <2>1, <2>2
  <2>. QED  BY <1>1, <2>3 DEF Ahead
<1>. QED  BY <1>1 DEF ListGood, Ahead

\* An update that told more than was heard is still on its way, or was heard.
LEMMA AheadStays ==
    ASSUME ServerTypes, ListTypes, [InboxNext]_inboxVars, NEW h \in Chat,
           NEW j \in 1..Len(wire), wire[j].chat = h, wire[j].kind = "update", ~(wire[j].n <= heard'[h])
    PROVE  Ahead(h)'
<1>1. (\E i \in 1..Len(wire') : wire'[i] = wire[j]) \/ wire[j].n <= heard'[h]
  BY HeardGrows
<1>2. wire[j].n \in Nat /\ heard'[h] \in Nat
  <2>1. wire[j] \in EventRecord
    BY ElementOfSeq DEF ServerTypes, WireTypes
  <2>. QED  BY <2>1, HeardGrows DEF EventRecord
<1>3. wire[j].n > heard'[h]
  BY <1>2
<1>4. PICK i \in 1..Len(wire') : wire'[i] = wire[j]
  BY <1>1
<1>5. wire'[i].chat = h /\ wire'[i].kind = "update" /\ wire'[i].n > heard'[h]
  BY <1>3, <1>4
<1>. QED  BY <1>5 DEF Ahead

\* A page of the list.
LEMMA AnswerGood ==
    ASSUME ServerTypes, ListTypes, [InboxNext]_inboxVars, NEW h \in Chat, NEW f, History(f, h),
           ListGood(f, h), ListAnswer, h \in DOMAIN list', h \notin off'
    PROVE  list'[h] = f[heard'[h]] \/ Ahead(h)'
<1>. DEFINE kept == IF listing.page = 1 THEN {} ELSE DOMAIN list
            new  == listing.rows \ kept
<1>1. /\ listing.step = "served" /\ DOMAIN list' = kept \cup new /\ heard' = heard
      /\ \A x \in kept \cup new : list'[x] = IF x \in new THEN listing.count[x] ELSE list[x]
      /\ off' = (off \ new) \cup {x \in new : listing.seen[x] # heard[x]}
  BY ListAnswerIs DEF ServerTypes
<1>2. CASE h \in new
  <2>1. list'[h] = listing.count[h] /\ listing.seen[h] = heard[h]
    BY <1>1, <1>2
  <2>2. f[listing.seen[h]] = listing.count[h]
    BY <1>1 DEF History, PageGood
  <2>. QED  BY <1>1, <2>1, <2>2
<1>3. CASE h \notin new
  <2>1. h \in kept /\ list'[h] = list[h] /\ h \notin off
    BY <1>1, <1>3
  <2>2. h \in DOMAIN list
    BY <2>1
  <2>. QED  BY <1>1, <2>1, <2>2, KeptGood
<1>. QED  BY <1>2, <1>3

\* The answer to a mark as read.
LEMMA MarkAnswerGood ==
    ASSUME ServerTypes, ListTypes, [InboxNext]_inboxVars, NEW h \in Chat, NEW f, History(f, h),
           HeardInv(h), ListGood(f, h), NEW k \in marks, MarkAnswer(k), h \in DOMAIN list', h \notin off'
    PROVE  list'[h] = f[heard'[h]] \/ Ahead(h)'
<1>1. /\ k.step = "answer" /\ heard' = heard /\ wire' = wire
      /\ IF active \in DOMAIN list
         THEN /\ list' = [list EXCEPT ![active] = 0]
              /\ off' = IF active # k.chat \/ heard[active] > k.n THEN off \cup {active} ELSE off
         ELSE list' = list /\ off' = off
  BY Zenon DEF MarkAnswer
<1>2. DOMAIN list' = DOMAIN list /\ h \notin off
  BY <1>1
<1>3. CASE active = h
  <2>1. list'[h] = 0 /\ h = k.chat /\ ~(heard[h] > k.n)
    BY <1>1, <1>2, <1>3 DEF ListTypes
  <2>2. k.n \in Nat /\ heard[h] \in Nat
    BY DEF ServerTypes, MarkTypes, MarkRecord, ListTypes, Counts
  <2>3. f[k.n] = 0
    BY <1>1, <2>1 DEF History, MarkGood
  <2>4. CASE k.n = heard[h]
    BY <1>1, <2>1, <2>3, <2>4
  <2>5. CASE k.n # heard[h]
    <3>1. ~(k.n <= heard[h]) /\ k.n > heard[h]
      BY <2>1, <2>2, <2>5
    <3>2. Cleared(h, k.n)
      BY <1>1, <2>1, <3>1 DEF HeardInv
    <3>3. Ahead(h)
      BY <3>1, <3>2 DEF Cleared, Ahead
    <3>. QED  BY <1>1, <3>3 DEF Ahead
  <2>. QED  BY <2>4, <2>5
<1>4. CASE active # h
  <2>1. list'[h] = list[h]
    BY <1>1, <1>2, <1>4 DEF ListTypes
  <2>. QED  BY <1>1, <1>2, <2>1, KeptGood
<1>. QED  BY <1>3, <1>4

\* message:new is heard.
LEMMA HearNewGood ==
    ASSUME ServerTypes, ListTypes, [InboxNext]_inboxVars, NEW h \in Chat, NEW f \in Counted, History(f, h),
           HeardInv(h), ListGood(f, h), NEW e \in ToSet(wire), HearNew(e), h \in DOMAIN list', h \notin off'
    PROVE  list'[h] = f[heard'[h]] \/ Ahead(h)'
<1>1. /\ e.chat \in Chat /\ e.msg \in 1..Len(log) /\ e.n = log[e.msg].n /\ e.chat = log[e.msg].chat
      /\ e.n \in Nat /\ Up(e.chat, e.n)
      /\ e.chat \in DOMAIN list =>
            /\ list' = [list EXCEPT ![e.chat] = IF log[e.msg].fromMe THEN 0
                                                ELSE IF e.msg \in known THEN @ ELSE @ + 1]
            /\ off' = IF \/ e.n = heard[e.chat] + 1
                         \/ e.msg \in known /\ (~log[e.msg].fromMe \/ e.n = heard[e.chat])
                      THEN off ELSE off \cup {e.chat}
      /\ e.chat \notin DOMAIN list => list' = list /\ off' = off
  BY HearNewIs
<1>2. DOMAIN list' = DOMAIN list /\ h \notin off
  BY <1>1
<1>3. /\ heard[h] \in Nat /\ heard'[e.chat] = (IF e.n > heard[e.chat] THEN e.n ELSE heard[e.chat])
      /\ \A g \in Chat : g # e.chat => heard'[g] = heard[g]
  BY <1>1, UpIs DEF ListTypes, Counts
<1>4. CASE e.chat # h
  <2>1. list'[h] = list[h] /\ heard'[h] = heard[h]
    BY <1>1, <1>2, <1>3, <1>4 DEF ListTypes
  <2>. QED  BY <1>2, <2>1, KeptGood
<1>5. CASE e.chat = h
  <2>1. /\ list'[h] = IF log[e.msg].fromMe THEN 0 ELSE IF e.msg \in known THEN list[h] ELSE list[h] + 1
        /\ \/ e.n = heard[h] + 1
           \/ e.msg \in known /\ (~log[e.msg].fromMe \/ e.n = heard[h])
    BY <1>1, <1>2, <1>5 DEF ListTypes
  <2>2. /\ e.msg \in Of(h) /\ heard[h] # 0 /\ (e.msg \in known => e.n <= heard[h])
        /\ RowGood(f, changes[h], log[e.msg])
    <3>1. e.msg \in Of(h)
      BY <1>1, <1>5 DEF Of
    <3>. QED  BY <1>1, <3>1 DEF History, HeardInv
  <2>3. e.n # 0 => f[e.n] = IF log[e.msg].fromMe THEN 0 ELSE f[e.n - 1] + 1
    BY <1>1, <2>2 DEF RowGood
  <2>4. CASE e.n = heard[h] + 1
    <3>1. heard'[h] = e.n /\ e.n # 0 /\ e.n - 1 = heard[h] /\ e.msg \notin known
      BY <1>1, <1>3, <1>5, <2>2, <2>4
    <3>2. CASE log[e.msg].fromMe
      BY <2>1, <2>3, <3>1, <3>2
    <3>3. CASE ~log[e.msg].fromMe /\ list[h] = f[heard[h]]
      BY <2>1, <2>3, <3>1, <3>3
    <3>4. CASE ~log[e.msg].fromMe /\ Ahead(h)
      <4>1. PICK j \in 1..Len(wire) : /\ wire[j].chat = h /\ wire[j].kind = "update"
                                      /\ wire[j].n > heard[h]
        BY <3>4 DEF Ahead
      <4>2. f[wire[j].n] = 0 /\ wire[j].n \in 1..changes[h]
        BY <4>1 DEF History, UpdateGood
      <4>3. f[e.n] # 0
        <5>1. f[heard[h]] \in Nat
          BY <1>3 DEF Counted
        <5>. QED  BY <2>3, <3>1, <3>4, <5>1
      <4>4. wire[j].n # e.n
        BY <4>2, <4>3
      <4>5. ~(wire[j].n <= heard'[h])
        BY <1>1, <1>3, <2>4, <3>1, <4>1, <4>2, <4>4 DEF ServerTypes, LogTypes
      <4>. QED  BY <4>1, <4>5, AheadStays
    <3>. QED  BY <1>2, <3>2, <3>3, <3>4 DEF ListGood
  <2>5. CASE e.msg \in known /\ ~log[e.msg].fromMe
    <3>1. list'[h] = list[h] /\ heard'[h] = heard[h]
      BY <1>1, <1>3, <1>5, <2>1, <2>2, <2>5
    <3>. QED  BY <1>2, <3>1, KeptGood
  <2>6. CASE log[e.msg].fromMe /\ e.n = heard[h]
    <3>1. list'[h] = 0 /\ heard'[h] = heard[h] /\ f[e.n] = 0
      BY <1>3, <1>5, <2>1, <2>2, <2>3, <2>6
    <3>. QED  BY <2>6, <3>1
  <2>. QED  BY <2>1, <2>4, <2>5, <2>6
<1>. QED  BY <1>4, <1>5

\* chat:update is heard.
LEMMA HearUpdateGood ==
    ASSUME ServerTypes, ListTypes, [InboxNext]_inboxVars, NEW h \in Chat, NEW f, History(f, h),
           ListGood(f, h), NEW e \in ToSet(wire), HearUpdate(e), h \in DOMAIN list', h \notin off'
    PROVE  list'[h] = f[heard'[h]] \/ Ahead(h)'
<1>0. heard[h] \in Nat
  BY DEF ListTypes, Counts
<1>1. /\ e.chat \in Chat /\ e.kind = "update" /\ e = wire[1] /\ wire # <<>> /\ e.n \in Nat
      /\ e.count \in Nat /\ e.seen \in Nat /\ Up(e.chat, e.n)
      /\ Newest({heard[e.chat], e.n}) = IF e.n > heard[e.chat] THEN e.n ELSE heard[e.chat]
      /\ e.chat \in DOMAIN list =>
            /\ list' = [list EXCEPT ![e.chat] = IF e.count = 0 THEN 0 ELSE @]
            /\ off' = IF e.n = heard[e.chat] + 1 /\ e.count = 0 THEN off ELSE off \cup {e.chat}
      /\ e.chat \notin DOMAIN list =>
            /\ list' = [g \in DOMAIN list \cup {e.chat} |-> IF g = e.chat THEN e.count ELSE list[g]]
            /\ off' = IF e.seen = Newest({heard[e.chat], e.n}) THEN off \ {e.chat} ELSE off \cup {e.chat}
  BY HearUpdateIs
<1>3. /\ heard'[e.chat] = (IF e.n > heard[e.chat] THEN e.n ELSE heard[e.chat])
      /\ \A g \in Chat : g # e.chat => heard'[g] = heard[g]
  BY <1>1, UpIs
<1>4. CASE e.chat # h
  <2>1. h \in DOMAIN list /\ h \notin off
    BY <1>1, <1>4
  <2>2. list'[h] = list[h] /\ heard'[h] = heard[h]
    BY <1>1, <1>3, <1>4, <2>1 DEF ListTypes
  <2>. QED  BY <2>1, <2>2, KeptGood
<1>5. CASE e.chat = h
  <2>1. 1 \in 1..Len(wire)
    BY <1>1, EmptySeq, LenProperties DEF ServerTypes, WireTypes
  <2>2. f[e.n] = 0 /\ f[e.seen] = e.count
    BY <1>1, <1>5, <2>1 DEF History, UpdateGood
  <2>3. CASE h \in DOMAIN list
    <3>1. e.n = heard[h] + 1 /\ e.count = 0 /\ list'[h] = 0
      BY <1>1, <1>5, <2>3 DEF ListTypes
    <3>2. heard'[h] = e.n
      BY <1>0, <1>1, <1>3, <1>5, <3>1
    <3>. QED  BY <2>2, <3>1, <3>2
  <2>4. CASE h \notin DOMAIN list
    <3>1. e.seen = heard'[h] /\ list'[h] = e.count
      BY <1>1, <1>3, <1>5, <2>4
    <3>. QED  BY <2>2, <3>1
  <2>. QED  BY <2>3, <2>4
<1>. QED  BY <1>4, <1>5

\* An event is sent, or lost.
LEMMA PublishGood ==
    ASSUME ServerTypes, ListTypes, [InboxNext]_inboxVars, NEW h \in Chat, NEW f, ListGood(f, h),
           NEW e \in EventRecord, e.kind # "sync" => e.chat \in Chat, e.kind = "status" => e.n = 0,
           Publish(e), list' = list, h \in DOMAIN list', h \notin off'
    PROVE  list'[h] = f[heard'[h]] \/ Ahead(h)'
<1>1. /\ (online \/ e.kind = "sync") => UNCHANGED <<heard, off>>
      /\ ~online /\ e.kind # "sync" =>
            /\ heard'[e.chat] = (IF e.n > heard[e.chat] THEN e.n ELSE heard[e.chat])
            /\ \A g \in Chat : g # e.chat => heard'[g] = heard[g]
            /\ off' = IF e.kind = "status" THEN off ELSE off \cup {e.chat}
  BY PublishList DEF ServerTypes
<1>2. heard[h] \in Nat
  BY DEF ListTypes, Counts
<1>3. h \notin off /\ heard'[h] = heard[h]
  <2>1. CASE online \/ e.kind = "sync"
    BY <1>1, <2>1
  <2>2. CASE ~online /\ e.kind # "sync"
    <3>1. h \notin off /\ (e.kind = "status" \/ e.chat # h)
      BY <1>1, <2>2
    <3>. QED  BY <1>1, <1>2, <2>2, <3>1
  <2>. QED  BY <2>1, <2>2
<1>. QED  BY <1>3, KeptGood

\* Each listed count stays right.
LEMMA ListGoodNext ==
    ASSUME ServerTypes, ListTypes, [InboxNext]_inboxVars, NEW h \in Chat, NEW f \in Counted, History(f, h),
           HeardInv(h), ListGood(f, h), NEW g, \A i \in 0..changes[h] : g[i] = f[i]
    PROVE  ListGood(g, h)'
<1>. SUFFICES ASSUME h \in DOMAIN list', h \notin off'  PROVE list'[h] = g[heard'[h]] \/ Ahead(h)'
  BY DEF ListGood
<1>. DEFINE Goal == list'[h] = f[heard'[h]] \/ Ahead(h)'
<1>0. LogTypes /\ MarkTypes /\ WireTypes /\ due \subseteq 1..Len(log)
  BY DEF ServerTypes, LogTypes
<1>1. ASSUME UNCHANGED <<list, heard, off>>  PROVE Goal
  BY <1>1, KeptGood
<1>2. ListServe \/ ListFails => UNCHANGED <<list, heard, off>>
  BY DEF ListServe, ListFails
<1>3. InboxReady => UNCHANGED <<list, heard, off>>
  BY Zenon DEF InboxReady
<1>4. \A c \in Chat, mine \in BOOLEAN : Arrive(c, mine) => UNCHANGED <<list, heard, off>>
  BY DEF Arrive
<1>5. \A e : HearSync(e) => UNCHANGED <<list, heard, off>>
  BY DEF HearSync
<1>6. UNCHANGED listVars => UNCHANGED <<list, heard, off>>
  BY DEF listVars
<1>7. ListAnswer => Goal
  BY AnswerGood
<1>8. ASSUME NEW m \in 1..Len(log), Announce(m) \/ Repeat(m)  PROVE Goal
  <2>1. Publish(New(m)) /\ list' = list
    BY <1>8 DEF Announce, Repeat
  <2>2. New(m) \in EventRecord /\ New(m).chat \in Chat /\ New(m).kind = "new"
    BY <1>0, NewIs
  <2>. QED  BY <2>1, <2>2, PublishGood
<1>9. ASSUME NEW c \in Chat, Status(c)  PROVE Goal
  <2>1. Publish(Plain("status", c)) /\ list' = list
    BY <1>9 DEF Status
  <2>2. /\ Plain("status", c) \in EventRecord /\ Plain("status", c).chat \in Chat
        /\ Plain("status", c).kind = "status" /\ Plain("status", c).n = 0
    BY PlainIs
  <2>. QED  BY <2>1, <2>2, PublishGood
<1>10. ASSUME SyncCompleted  PROVE Goal
  <2>1. Publish(Plain("sync", NoChat)) /\ list' = list
    BY <1>10 DEF SyncCompleted
  <2>2. Plain("sync", NoChat) \in EventRecord /\ Plain("sync", NoChat).kind = "sync"
    BY PlainIs
  <2>. QED  BY <2>1, <2>2, PublishGood
<1>11. ASSUME NEW k \in marks, MarkTell(k)  PROVE Goal
  <2>1. Publish(Update(k)) /\ list' = list
    BY <1>11, Zenon DEF MarkTell
  <2>2. Update(k) \in EventRecord /\ Update(k).chat \in Chat /\ Update(k).kind = "update"
    BY <1>0, UpdateIs DEF MarkTypes
  <2>. QED  BY <2>1, <2>2, PublishGood
<1>12. \A k \in marks : MarkAnswer(k) => Goal
  BY MarkAnswerGood
<1>13. ASSUME Drop  PROVE Goal
  <2>. DEFINE lost == {j \in 1..Len(wire) : wire[j].chat = h /\ wire[j].kind \notin {"sync", "status"}}
  <2>1. /\ lost # {} => h \in off'
        /\ heard'[h] = heard[h] \/ \E j \in lost : heard'[h] = wire[j].n
        /\ off \subseteq off'
    BY <1>0, <1>13, DropList
  <2>2. list' = list
    BY <1>13 DEF Drop
  <2>. HIDE DEF lost
  <2>3. heard'[h] = heard[h] /\ h \notin off
    BY <2>1
  <2>. QED  BY <2>2, <2>3, KeptGood
<1>14. \A e \in ToSet(wire) : HearNew(e) => Goal
  BY HearNewGood
<1>15. \A e \in ToSet(wire) : HearUpdate(e) => Goal
  BY HearUpdateGood
<1>16. Goal
  <2>. HIDE DEF Goal
  <2>. QED  BY <1>0, <1>1, <1>2, <1>3, <1>4, <1>5, <1>6, <1>7, <1>8, <1>9, <1>10, <1>11, <1>12, <1>13,
               <1>14, <1>15, ListSteps
<1>17. heard'[h] \in 0..changes[h]
  <2>1. heard'[h] \in 1..changes[h] /\ changes[h] \in Nat
    BY HeardBound
  <2>. QED  BY <2>1
<1>. QED  BY <1>16, <1>17

-----------------------------------------------------------------------------
(* Every count has a history that explains what the list shows.            *)

CountInv == \A h \in Chat : HeardInv(h) /\ \E f \in Counted : History(f, h) /\ ListGood(f, h)

\* So the counts stay right,
LEMMA CountInvNext ==
    ASSUME ServerTypes, ListTypes, [InboxNext]_inboxVars, CountInv
    PROVE  CountInv'
<1>. SUFFICES ASSUME NEW h \in Chat
              PROVE  HeardInv(h)' /\ \E g \in Counted : History(g, h)' /\ ListGood(g, h)'
  BY DEF CountInv
<1>1. PICK f \in Counted : HeardInv(h) /\ History(f, h) /\ ListGood(f, h)
  BY DEF CountInv
<1>2. HeardInv(h)'
  BY <1>1, HeardInvNext
<1>3. PICK g \in Counted : (\A i \in 0..changes[h] : g[i] = f[i]) /\ History(g, h)'
  BY <1>1, HistoryNext
<1>4. ListGood(g, h)'
  BY <1>1, <1>3, ListGoodNext
<1>. QED  BY <1>2, <1>3, <1>4

\* as they are at first.
LEMMA CountInit == InboxInit => CountInv
<1>. SUFFICES ASSUME InboxInit, NEW h \in Chat
              PROVE  HeardInv(h) /\ \E f \in Counted : History(f, h) /\ ListGood(f, h)
  BY DEF CountInv
<1>. DEFINE f == [n \in Nat |-> unread[h]]
<1>1. /\ unread[h] \in Nat /\ changes[h] = 1 /\ heard[h] = 1 /\ marks = {} /\ wire = <<>> /\ known = {}
      /\ listing = Resting /\ log \in Seq([chat : Chat, fromMe : BOOLEAN, n : {0}])
      /\ (list = <<>> \/ list = unread)
  BY DEF InboxInit
<1>2. f \in Counted /\ \A n \in Nat : f[n] = unread[h]
  BY <1>1 DEF Counted
<1>. HIDE DEF f
<1>3. Len(wire) = 0
  BY <1>1
<1>4. \A m \in Of(h) : log[m].n = 0
  <2>1. \A m \in 1..Len(log) : log[m] \in [chat : Chat, fromMe : BOOLEAN, n : {0}]
    BY <1>1, ElementOfSeq
  <2>. QED  BY <2>1 DEF Of
<1>5. HeardInv(h)
  BY <1>1 DEF HeardInv
<1>6. History(f, h)
  <2>1. PageGood(f, changes[h], h, listing)
    BY <1>1, FirstPageIs DEF PageGood
  <2>2. \A m \in Of(h) : RowGood(f, changes[h], log[m])
    BY <1>1, <1>4 DEF RowGood
  <2>3. \A j \in 1..Len(wire) : FALSE
    BY <1>3
  <2>. QED  BY <1>1, <1>2, <2>1, <2>2, <2>3 DEF History
<1>7. ListGood(f, h)
  <2>1. list = <<>> => h \notin DOMAIN list
    OBVIOUS
  <2>. QED  BY <1>1, <1>2, <2>1 DEF ListGood
<1>. QED  BY <1>2, <1>5, <1>6, <1>7

\* At rest a listed chat shows the unread count of the database, whatever pages of the list,
\* messages, marks and their events crossed, unless its own were lost or out of order
\* (handleWsEvent, loadChats, submitMarkAsRead).
THEOREM CountsAreDueHolds == InboxSpec => []CountsAreDue
<1>. DEFINE Inv == InboxTypeInv /\ AttachInv /\ CountInv
<1>1. InboxInit => Inv
  BY InitTypes, InitSafe, CountInit DEF InboxSafeInv
<1>2. Inv /\ [InboxNext]_inboxVars => Inv'
  BY InboxTypeStep, CountInvNext DEF InboxTypeInv
<1>3. Inv => CountsAreDue
  <2>. SUFFICES ASSUME Inv, Rest, NEW h \in DOMAIN list \ off  PROVE list[h] = unread[h]
    BY DEF CountsAreDue
  <2>0. h \in Chat /\ wire = <<>> /\ due = {} /\ marks = {} /\ Len(wire) = 0
    BY DEF Rest, InboxTypeInv, ListTypes
  <2>1. PICK f \in Counted : HeardInv(h) /\ History(f, h) /\ ListGood(f, h)
    BY <2>0 DEF CountInv
  <2>2. ~Ahead(h) /\ \A c : ~Told(h, c) /\ ~Marked(h, c) /\ ~Stored(h, c)
    BY <2>0 DEF Ahead, Told, Marked, Stored
  <2>3. heard[h] \in 1..changes[h] /\ changes[h] \in Nat
    BY <2>0, <2>1 DEF HeardInv, InboxTypeInv, ServerTypes, LogTypes
  <2>4. \A c \in 1..changes[h] : ~(c > heard[h])
    BY <2>1, <2>2 DEF HeardInv
  <2>5. heard[h] = changes[h]
    <3>1. changes[h] \in 1..changes[h]
      BY <2>3
    <3>2. ~(changes[h] > heard[h])
      BY <2>4, <3>1
    <3>. QED  BY <2>3, <3>2
  <2>. QED  BY <2>1, <2>2, <2>5 DEF History, ListGood
<1>. QED  BY <1>1, <1>2, <1>3, PTL DEF InboxSpec
=============================================================================
