------------------------- MODULE MessageRow_proofs -------------------------
(***************************************************************************)
(* Proofs about the rows of messages, for any messages, amendments and     *)
(* attempts: what a row shows is what the events call for, but for the     *)
(* rows that were written again or by an older event.                      *)
(* The last part is about the media of the messages (MediaFiles).          *)
(***************************************************************************)
EXTENDS MessageRow, MediaFiles, TLAPS

\* A row exists exactly when events call for one; the media worker reads rows only.
RowRanges ==
    /\ row \in [Msg -> Row \cup {NoRow}] /\ due \in [Msg -> Row \cup {NoRow}]
    /\ copy \in [Msg -> Row \cup {NoRow}] /\ media \in [Msg -> {"none", "queued", "read"}]
    /\ \A m \in Msg : Has(m) <=> due[m] # NoRow
    /\ \A m \in Msg : media[m] = "read" => copy[m] \in Row /\ Has(m)

\* A job that is not over has attempts left.
JobRanges ==
    /\ job \in [Msg -> Place] /\ carries \in [Msg -> {Cipher, Plain}]
    /\ tries \in [Msg -> 0..Attempts]
    /\ \A m \in Msg : job[m] \in {"waiting", "written"} => tries[m] < Attempts

AmendRanges ==
    /\ amend \in [Amend -> [kind : Kind, of : Msg]] /\ ajob \in [Amend -> Place]
    /\ atries \in [Amend -> 0..Attempts]
    /\ \A a \in Amend : ajob[a] \in {"none", "waiting", "written"} => atries[a] < Attempts

SetRanges ==
    /\ redone \in SUBSET Msg /\ errored \in SUBSET Msg
    /\ offered \in SUBSET Msg /\ shadowed \in SUBSET Msg

Ranges == RowRanges /\ JobRanges /\ AmendRanges /\ SetRanges

\* What the row of a message has to do with the row that is due.
DueOf(m) ==
    /\ m \in Own /\ m \notin redone /\ m \notin errored
           => row[m].status = due[m].status /\ row[m].status # "failed"
    /\ m \notin redone => row[m].text = due[m].text /\ row[m].emoji = due[m].emoji
    /\ due[m].deleted => row[m].deleted
    /\ due[m].edited => row[m].edited

DueInv == \A m \in Msg : Has(m) => DueOf(m)

\* A message whose text came carries it, unless the job of its placeholder stood
\* in the way; then neither the row nor the media worker has the placeholder.
CipherOf(m) ==
    /\ m \in offered /\ m \notin shadowed => carries[m] = Plain /\ job[m] # "none"
    /\ carries[m] = Plain /\ job[m] \in {"written", "done"} => Has(m) /\ row[m].text # Cipher
    /\ media[m] # "none" => /\ carries[m] = Plain /\ job[m] # "none"
                            /\ Has(m) /\ row[m].text # Cipher
    /\ media[m] = "read" => copy[m].text # Cipher

CipherInv == \A m \in Msg : CipherOf(m)

-----------------------------------------------------------------------------
(* Rows.                                                                   *)

LEMMA NoRowIsNone == NoRow \notin Row
<1>1. \A r \in Row : r.status # "none"
  BY DEF Row, Status
<1>2. QED
  BY <1>1 DEF NoRow

LEMMA FreshIsRow ==
    ASSUME NEW status \in Status, NEW text \in Text, NEW secret \in BOOLEAN
    PROVE  /\ Fresh(status, text, secret) \in Row /\ Fresh(status, text, secret) # NoRow
           /\ Fresh(status, text, secret).status = status /\ Fresh(status, text, secret).text = text
<1>1. Fresh(status, text, secret) \in Row
  BY DEF Fresh, Row
<1>2. QED
  BY <1>1, NoRowIsNone DEF Fresh

\* An upsert keeps marks and reactions.
LEMMA UpsertedIsRow ==
    ASSUME NEW old \in Row \cup {NoRow}, NEW status \in Status, NEW text \in Text,
           NEW secret \in BOOLEAN
    PROVE  /\ Upserted(old, status, text, secret) \in Row
           /\ Upserted(old, status, text, secret) # NoRow
           /\ Upserted(old, status, text, secret).text = text
           /\ old = NoRow => Upserted(old, status, text, secret) = Fresh(status, text, secret)
           /\ old # NoRow => /\ Upserted(old, status, text, secret).deleted = old.deleted
                             /\ Upserted(old, status, text, secret).edited = old.edited
<1>1. CASE old = NoRow
  BY <1>1, FreshIsRow DEF Upserted
<1>2. CASE old # NoRow
  <2>1. Upserted(old, status, text, secret)
            = [old EXCEPT !.status = status, !.text = text, !.secret = secret]
    BY <1>2 DEF Upserted
  <2>2. Upserted(old, status, text, secret) \in Row
    BY <1>2, <2>1 DEF Row
  <2>3. QED
    BY <1>2, <2>1, <2>2, NoRowIsNone DEF Row
<1>3. QED
  BY <1>1, <1>2

\* The same row again changes nothing.
LEMMA UpsertedSame ==
    ASSUME NEW old \in Row
    PROVE  Upserted(old, old.status, old.text, old.secret) = old
BY NoRowIsNone DEF Upserted, Row

\* An amendment touches no status, takes no mark back, and writes no placeholder.
LEMMA AmendedIsRow ==
    ASSUME AmendRanges, NEW r \in Row, NEW a \in Amend
    PROVE  /\ Amended(r, a) \in Row /\ Amended(r, a) # NoRow
           /\ Amended(r, a).status = r.status
           /\ Amended(r, a).text \in {r.text, a} /\ a # Cipher
           /\ r.deleted => Amended(r, a).deleted
           /\ r.edited => Amended(r, a).edited
<1>1. a \in Text /\ a # Cipher
  BY DEF Text, Amend, Cipher
<1>2. amend[a].kind \in Kind
  BY DEF AmendRanges
<1>3. CASE amend[a].kind = "edit" \/ (amend[a].kind = "secret" /\ r.secret)
  <2>1. Amended(r, a) = [r EXCEPT !.text = a, !.edited = TRUE]
    BY <1>3 DEF Amended
  <2>2. QED
    BY <1>1, <2>1, NoRowIsNone DEF Row
<1>4. CASE amend[a].kind = "revoke"
  <2>1. Amended(r, a) = [r EXCEPT !.deleted = TRUE]
    BY <1>4 DEF Amended
  <2>2. QED
    BY <1>1, <2>1, NoRowIsNone DEF Row
<1>5. CASE amend[a].kind = "react"
  <2>1. Amended(r, a) = [r EXCEPT !.emoji = a]
    BY <1>5 DEF Amended
  <2>2. QED
    BY <1>1, <2>1, NoRowIsNone DEF Row
<1>6. CASE amend[a].kind = "secret" /\ ~r.secret
  <2>1. Amended(r, a) = r
    BY <1>6 DEF Amended
  <2>2. QED
    BY <1>1, <2>1, NoRowIsNone
<1>7. QED
  BY <1>2, <1>3, <1>4, <1>5, <1>6 DEF Kind

\* Two rows that agree still do after the same amendment, if both have the secret
\* or not; and it sets a mark in both.
LEMMA AmendedAgrees ==
    ASSUME AmendRanges, NEW r \in Row, NEW d \in Row, NEW a \in Amend,
           r.secret = d.secret \/ amend[a].kind = "react"
    PROVE  /\ r.text = d.text /\ r.emoji = d.emoji
                  => /\ Amended(r, a).text = Amended(d, a).text
                     /\ Amended(r, a).emoji = Amended(d, a).emoji
           /\ (d.deleted => r.deleted) => (Amended(d, a).deleted => Amended(r, a).deleted)
           /\ (d.edited => r.edited) => (Amended(d, a).edited => Amended(r, a).edited)
<1>1. amend[a].kind \in Kind
  BY DEF AmendRanges
<1>2. CASE amend[a].kind = "edit" \/ (amend[a].kind = "secret" /\ r.secret)
  <2>1. /\ Amended(r, a) = [r EXCEPT !.text = a, !.edited = TRUE]
        /\ Amended(d, a) = [d EXCEPT !.text = a, !.edited = TRUE]
    BY <1>2 DEF Amended
  <2>2. QED
    BY <2>1 DEF Row
<1>3. CASE amend[a].kind = "revoke"
  <2>1. /\ Amended(r, a) = [r EXCEPT !.deleted = TRUE]
        /\ Amended(d, a) = [d EXCEPT !.deleted = TRUE]
    BY <1>3 DEF Amended
  <2>2. QED
    BY <2>1 DEF Row
<1>4. CASE amend[a].kind = "react"
  <2>1. Amended(r, a) = [r EXCEPT !.emoji = a] /\ Amended(d, a) = [d EXCEPT !.emoji = a]
    BY <1>4 DEF Amended
  <2>2. QED
    BY <2>1 DEF Row
<1>5. CASE amend[a].kind = "secret" /\ ~r.secret
  <2>1. Amended(r, a) = r /\ Amended(d, a) = d
    BY <1>5 DEF Amended
  <2>2. QED
    BY <2>1
<1>6. QED
  BY <1>1, <1>2, <1>3, <1>4, <1>5 DEF Kind

-----------------------------------------------------------------------------
(* What the writers do to one row.                                         *)

\* How the row of m may change, with what is due and the exceptions: not at all;
\* by an upsert; by an amendment; by a receipt; or because it is made.
LEMMA DueKept ==
    ASSUME DueInv, NEW m \in Msg, UNCHANGED <<row[m], due[m]>>,
           redone \subseteq redone', errored \subseteq errored'
    PROVE  (Has(m) => DueOf(m))'
BY DEF DueInv, DueOf, Has

LEMMA DueUpserted ==
    ASSUME Ranges, DueInv, NEW m \in Msg, NEW status \in Status, NEW text \in Text,
           NEW secret \in BOOLEAN, Upsert(m, status, text, secret)
    PROVE  RowRanges' => DueInv'
<1> SUFFICES ASSUME RowRanges', NEW k \in Msg PROVE (Has(k) => DueOf(k))'
  BY DEF DueInv
<1>1. redone \subseteq redone' /\ errored \subseteq errored'
  BY DEF Upsert
<1>2. CASE k # m
  <2>1. UNCHANGED <<row[k], due[k]>>
    BY <1>2 DEF Upsert, Ranges, RowRanges
  <2>2. QED
    BY <1>1, <2>1, DueKept
<1>3. CASE k = m /\ Has(m)
  <2>1. /\ row'[m] = Upserted(row[m], status, text, secret) /\ due' = due /\ m \in redone'
        /\ row[m] \in Row
    BY <1>3 DEF Upsert, Ranges, RowRanges, Has
  <2>2. row'[m].deleted = row[m].deleted /\ row'[m].edited = row[m].edited
    BY <2>1, UpsertedIsRow, NoRowIsNone
  <2>3. QED
    BY <1>3, <2>1, <2>2 DEF DueInv, DueOf
<1>4. CASE k = m /\ ~Has(m)
  <2>1. /\ row'[m] = Fresh(status, text, secret) /\ due'[m] = Fresh(status, text, secret)
        /\ status = "failed" => m \in errored'
    BY <1>4 DEF Upsert, Upserted, Ranges, RowRanges, Has
  <2>2. row'[m].status = status
    BY <2>1, FreshIsRow
  <2>3. QED
    BY <1>4, <2>1, <2>2 DEF DueOf
<1>5. QED
  BY <1>2, <1>3, <1>4

LEMMA DueAmended ==
    ASSUME Ranges, DueInv, NEW a \in Amend, NEW m \in Msg, m = amend[a].of, Has(m),
           row' = [row EXCEPT ![m] = Amended(@, a)], UNCHANGED errored,
           \/ redone' = redone \cup {m} /\ UNCHANGED due
           \/ UNCHANGED redone /\ due' = [due EXCEPT ![m] = Amended([@ EXCEPT !.secret = row[m].secret], a)]
           \/ UNCHANGED redone /\ due' = [due EXCEPT ![m] = Amended(@, a)] /\ amend[a].kind = "react"
    PROVE  DueInv'
<1> SUFFICES ASSUME NEW k \in Msg PROVE (Has(k) => DueOf(k))'
  BY DEF DueInv
<1>1. row[m] \in Row /\ due[m] \in Row /\ row'[m] = Amended(row[m], a)
  BY DEF Ranges, RowRanges, Has
<1>2. CASE k # m
  <2>1. UNCHANGED <<row[k], due[k]>> /\ redone \subseteq redone'
    BY <1>2 DEF Ranges, RowRanges
  <2>2. QED
    BY <2>1, DueKept
<1>3. CASE k = m /\ redone' = redone \cup {m} /\ UNCHANGED due
  BY <1>1, <1>3, AmendedIsRow DEF DueInv, DueOf, Ranges
<1>4. ASSUME NEW d \in Row, k = m, UNCHANGED redone, due'[m] = Amended(d, a),
             d.status = due[m].status, d.text = due[m].text, d.emoji = due[m].emoji,
             d.deleted = due[m].deleted, d.edited = due[m].edited,
             row[m].secret = d.secret \/ amend[a].kind = "react"
      PROVE  DueOf(m)'
  <2>1. DueOf(m)
    BY DEF DueInv
  <2>2. row'[m].status = row[m].status /\ due'[m].status = due[m].status
    BY <1>1, <1>4, AmendedIsRow DEF Ranges
  <2>3. /\ m \notin redone' => row'[m].text = due'[m].text /\ row'[m].emoji = due'[m].emoji
        /\ due'[m].deleted => row'[m].deleted
        /\ due'[m].edited => row'[m].edited
    BY <1>1, <1>4, <2>1, AmendedAgrees DEF DueOf, Ranges
  <2>4. QED
    BY <1>4, <2>1, <2>2, <2>3 DEF DueOf
<1>5. CASE k = m /\ UNCHANGED redone
             /\ due' = [due EXCEPT ![m] = Amended([@ EXCEPT !.secret = row[m].secret], a)]
  <2> DEFINE d == [due[m] EXCEPT !.secret = row[m].secret]
  <2>1. /\ d \in Row /\ d.secret = row[m].secret
        /\ d.status = due[m].status /\ d.text = due[m].text /\ d.emoji = due[m].emoji
        /\ d.deleted = due[m].deleted /\ d.edited = due[m].edited
    BY <1>1 DEF Row
  <2>2. due'[m] = Amended(d, a)
    BY <1>5 DEF Ranges, RowRanges
  <2> HIDE DEF d
  <2>3. QED
    BY <1>4, <1>5, <2>1, <2>2
<1>6. CASE k = m /\ UNCHANGED redone /\ due' = [due EXCEPT ![m] = Amended(@, a)]
             /\ amend[a].kind = "react"
  <2>1. due'[m] = Amended(due[m], a)
    BY <1>6 DEF Ranges, RowRanges
  <2>2. QED
    BY <1>1, <1>4, <1>6, <2>1
<1>7. QED
  BY <1>2, <1>3, <1>5, <1>6

LEMMA DueReceived ==
    ASSUME Ranges, DueInv, NEW m \in Msg, NEW st \in Status, Receipt(m, st)
    PROVE  RowRanges' /\ DueInv'
<1>1. ASSUME NEW k \in Msg
      PROVE  /\ row'[k] = IF Has(k) /\ k \in Concerned(m, st) /\ row[k].status \in Takes(st)
                          THEN [row[k] EXCEPT !.status = st] ELSE row[k]
             /\ due'[k] = IF Has(k) /\ k \in Concerned(m, st) /\ Rank[due[k].status] < Rank[st]
                          THEN [due[k] EXCEPT !.status = st] ELSE due[k]
  BY DEF Receipt
<1>2. /\ \A k \in Msg : Has(k) => row[k] \in Row /\ due[k] \in Row
      /\ \A r \in Row : [r EXCEPT !.status = st] \in Row
  BY DEF Ranges, RowRanges, Has, Row
<1>3. \A k \in Msg : (Has(k) => row'[k] \in Row /\ due'[k] \in Row)
                     /\ (~Has(k) => row'[k] = NoRow /\ due'[k] = NoRow)
  BY <1>1, <1>2 DEF Ranges, RowRanges, Has
<1>4. RowRanges'
  <2>1. /\ row' = [k \in Msg |-> row'[k]] /\ due' = [k \in Msg |-> due'[k]]
        /\ UNCHANGED <<media, copy>>
    BY DEF Receipt, mediaVars
  <2>2. row' \in [Msg -> Row \cup {NoRow}] /\ due' \in [Msg -> Row \cup {NoRow}]
    BY <1>3, <2>1
  <2>3. QED
    BY <1>3, <2>1, <2>2, NoRowIsNone DEF Ranges, RowRanges, Has
<1>5. ASSUME NEW k \in Msg, Has(k) PROVE DueOf(k)'
  <2>1. DueOf(k) /\ row[k] \in Row /\ due[k] \in Row
    BY <1>2, <1>5 DEF DueInv
  <2>2. /\ row'[k].text = row[k].text /\ row'[k].emoji = row[k].emoji
        /\ row'[k].deleted = row[k].deleted /\ row'[k].edited = row[k].edited
        /\ due'[k].text = due[k].text /\ due'[k].emoji = due[k].emoji
        /\ due'[k].deleted = due[k].deleted /\ due'[k].edited = due[k].edited
    BY <1>1, <2>1 DEF Row
  <2>3. ASSUME k \in Own, k \notin redone', k \notin errored'
        PROVE  row'[k].status = due'[k].status /\ row'[k].status # "failed"
    <3>1. row[k].status = due[k].status /\ row[k].status # "failed" /\ row[k].status \in Status
      BY <2>1, <2>3 DEF Receipt, DueOf, Row
    <3>2. CASE k \notin Concerned(m, st)
      BY <1>1, <3>1, <3>2
    <3>3. CASE k \in Concerned(m, st)
      <4>1. st # "failed"
        BY <2>3, <3>3 DEF Receipt, Concerned
      <4>2. row[k].status \in Takes(st) <=> Rank[row[k].status] < Rank[st]
                                         \/ (st = "pending" /\ row[k].status = "pending")
        BY <3>1, <4>1 DEF Takes, Rank, Status
      <4>3. CASE Rank[row[k].status] < Rank[st]
        <5>1. /\ row'[k] = [row[k] EXCEPT !.status = st]
              /\ due'[k] = [due[k] EXCEPT !.status = st]
          BY <1>1, <1>5, <3>1, <3>3, <4>2, <4>3
        <5>2. row'[k].status = st /\ due'[k].status = st
          BY <2>1, <5>1 DEF Row
        <5>3. QED
          BY <4>1, <5>2
      <4>4. CASE ~(Rank[row[k].status] < Rank[st])
        <5>1. due'[k] = due[k]
          BY <1>1, <1>5, <3>1, <3>3, <4>4
        <5>2. row'[k].status = row[k].status
          BY <1>1, <2>1, <4>2, <4>4 DEF Row
        <5>3. QED
          BY <3>1, <5>1, <5>2
      <4>5. QED
        BY <4>3, <4>4
    <3>4. QED
      BY <3>2, <3>3
  <2>4. QED
    BY <2>1, <2>2, <2>3 DEF DueOf, Receipt
<1>6. QED
  BY <1>3, <1>4, <1>5 DEF DueInv, Has

LEMMA DueMedia ==
    ASSUME Ranges, DueInv, NEW m \in Msg, MediaWrite(m)
    PROVE  RowRanges' /\ DueInv'
<1>1. copy[m] \in Row /\ row[m] \in Row
  BY DEF MediaWrite, Ranges, RowRanges, Has
<1> DEFINE new == Upserted(row[m], copy[m].status, copy[m].text, copy[m].secret)
<1>2. /\ new \in Row /\ new # NoRow
      /\ new.deleted = row[m].deleted /\ new.edited = row[m].edited
      /\ copy[m] = row[m] => new = row[m]
  BY <1>1, UpsertedIsRow, UpsertedSame, NoRowIsNone, SMTT(30) DEF Row
<1>3. row' = [row EXCEPT ![m] = new] /\ UNCHANGED <<due, errored>>
  BY DEF MediaWrite
<1> HIDE DEF new
<1>4. RowRanges'
  BY <1>1, <1>2, <1>3, NoRowIsNone DEF Ranges, RowRanges, Has, MediaWrite
<1>5. ASSUME NEW k \in Msg PROVE (Has(k) => DueOf(k))'
  <2>1. redone \subseteq redone'
    BY DEF MediaWrite
  <2>2. CASE row'[k] = row[k]
    BY <1>3, <2>1, <2>2, DueKept
  <2>3. CASE row'[k] # row[k]
    <3>1. k = m /\ m \in redone' /\ row'[m] = new
      BY <1>2, <1>3, <2>3 DEF Ranges, RowRanges, MediaWrite
    <3>2. DueOf(m)
      BY <1>1, NoRowIsNone DEF DueInv, Has
    <3>3. QED
      BY <1>2, <1>3, <3>1, <3>2 DEF DueOf
  <2>4. QED
    BY <2>2, <2>3
<1>6. QED
  BY <1>4, <1>5 DEF DueInv

\* A row that is made by the history sync.
LEMMA DueHistory ==
    ASSUME Ranges, DueInv, NEW m \in Msg, NEW st \in Status, History(m, st)
    PROVE  RowRanges' /\ DueInv'
<1> DEFINE new == Fresh(st, Blank, m \notin Own)
<1>1. new \in Row /\ new # NoRow /\ new.status = st
  BY FreshIsRow DEF Text
<1>2. /\ row' = [row EXCEPT ![m] = new] /\ due' = [due EXCEPT ![m] = new] /\ ~Has(m)
      /\ UNCHANGED <<redone, media, copy>> /\ errored \subseteq errored'
      /\ st = "failed" => m \in errored'
  BY DEF History, mediaVars
<1> HIDE DEF new
<1>3. RowRanges'
  BY <1>1, <1>2 DEF Ranges, RowRanges, Has
<1>4. ASSUME NEW k \in Msg PROVE (Has(k) => DueOf(k))'
  <2>1. CASE k = m
    BY <1>1, <1>2, <2>1 DEF DueOf, Ranges, RowRanges
  <2>2. CASE k # m
    BY <1>2, <2>2, DueKept DEF Ranges, RowRanges
  <2>3. QED
    BY <2>1, <2>2
<1>5. QED
  BY <1>3, <1>4 DEF DueInv

LEMMA UpsertRanges ==
    ASSUME Ranges, NEW m \in Msg, NEW status \in Status, NEW text \in Text, NEW secret \in BOOLEAN,
           Upsert(m, status, text, secret), UNCHANGED copy, media' \in [Msg -> {"none", "queued", "read"}],
           \A k \in Msg : media'[k] = "read" => media[k] = "read"
    PROVE  RowRanges' /\ redone' \in SUBSET Msg /\ errored' \in SUBSET Msg /\ Has(m)'
           /\ row'[m].text = text
           /\ \A k \in Msg : k # m => row'[k] = row[k]
<1> DEFINE new == Upserted(row[m], status, text, secret)
           fresh == Fresh(status, text, secret)
<1>1. new \in Row /\ new # NoRow /\ fresh \in Row /\ fresh # NoRow /\ new.text = text
  BY UpsertedIsRow, FreshIsRow DEF Ranges, RowRanges
<1>2. /\ row' = [row EXCEPT ![m] = new]
      /\ due' = IF Has(m) THEN due ELSE [due EXCEPT ![m] = fresh]
      /\ redone' \in SUBSET Msg /\ errored' \in SUBSET Msg
  BY DEF Upsert, Ranges, SetRanges
<1> HIDE DEF new, fresh
<1>3. RowRanges'
  <2>1. CASE Has(m)
    BY <1>1, <1>2, <2>1 DEF Ranges, RowRanges, Has
  <2>2. CASE ~Has(m)
    BY <1>1, <1>2, <2>2 DEF Ranges, RowRanges, Has
  <2>3. QED
    BY <2>1, <2>2
<1>4. QED
  BY <1>1, <1>2, <1>3 DEF Has, Ranges, RowRanges

LEMMA AmendRowRanges ==
    ASSUME Ranges, NEW a \in Amend, NEW m \in Msg, Has(m), UNCHANGED <<media, copy>>,
           row' = [row EXCEPT ![m] = Amended(@, a)],
           \/ UNCHANGED due
           \/ due' = [due EXCEPT ![m] = Amended([@ EXCEPT !.secret = row[m].secret], a)]
           \/ due' = [due EXCEPT ![m] = Amended(@, a)]
    PROVE  RowRanges' /\ \A k \in Msg : /\ Has(k)' <=> Has(k)
                                        /\ row[k].text # Cipher => row'[k].text # Cipher
<1>1. row[m] \in Row /\ due[m] \in Row /\ [due[m] EXCEPT !.secret = row[m].secret] \in Row
  BY DEF Ranges, RowRanges, Has, Row
<1>2. /\ Amended(row[m], a) \in Row /\ Amended(row[m], a) # NoRow
      /\ row[m].text # Cipher => Amended(row[m], a).text # Cipher
      /\ Amended(due[m], a) \in Row /\ Amended(due[m], a) # NoRow
      /\ Amended([due[m] EXCEPT !.secret = row[m].secret], a) \in Row \ {NoRow}
  BY <1>1, AmendedIsRow DEF Ranges
<1>3. QED
  BY <1>1, <1>2 DEF Ranges, RowRanges, Has

-----------------------------------------------------------------------------
LEMMA InitRanges == Init => Ranges
<1> SUFFICES ASSUME Init PROVE Ranges
  OBVIOUS
<1> USE RowTypes, NoRowIsNone DEF Init, Start
<1>1. RowRanges
  BY DEF RowRanges, Has
<1>2. JobRanges
  BY DEF JobRanges, Place
<1>3. AmendRanges
  BY DEF AmendRanges, Place
<1>4. SetRanges
  BY DEF SetRanges
<1>5. QED
  BY <1>1, <1>2, <1>3, <1>4 DEF Ranges

LEMMA WriteUpserts ==
    ASSUME Ranges, NEW m \in Msg, Write(m)
    PROVE  \E status \in Status, text \in Text, secret \in BOOLEAN :
              Upsert(m, status, text, secret) /\ text = carries[m]
<1> DEFINE st == IF carries[m] = Cipher THEN "failed" ELSE IF m \in Own THEN "sent" ELSE "delivered"
<1>1. st \in Status /\ carries[m] \in Text
  BY DEF Status, Text, Ranges, JobRanges
<1>2. Upsert(m, st, carries[m], carries[m] = Plain /\ m \notin Own)
  BY DEF Write
<1>3. (carries[m] = Plain /\ m \notin Own) \in BOOLEAN
  OBVIOUS
<1>4. QED
  BY <1>1, <1>2, <1>3

LEMMA SentUpserts ==
    ASSUME NEW m \in Msg, SaveSent(m)
    PROVE  "sent" \in Status /\ Plain \in Text /\ Upsert(m, "sent", Plain, TRUE)
BY DEF Status, Text, SaveSent

LEMMA NextRows == Ranges /\ DueInv /\ [Next]_vars => RowRanges'
<1> SUFFICES ASSUME Ranges, DueInv, [Next]_vars PROVE RowRanges'
  OBVIOUS
<1>1. ASSUME NEW m \in Msg, Write(m) PROVE RowRanges'
  <2>1. PICK status \in Status, text \in Text, secret \in BOOLEAN :
           Upsert(m, status, text, secret) /\ text = carries[m]
    BY <1>1, WriteUpserts
  <2>2. /\ UNCHANGED copy /\ media' \in [Msg -> {"none", "queued", "read"}]
        /\ \A k \in Msg : media'[k] = "read" => media[k] = "read"
    BY <1>1 DEF Write, Ranges, RowRanges
  <2>3. QED
    BY <2>1, <2>2, UpsertRanges
<1>2. ASSUME NEW m \in Msg, MediaRead(m) PROVE RowRanges'
  BY <1>2 DEF MediaRead, history, Ranges, RowRanges, Has
<1>3. ASSUME NEW m \in Msg, MediaWrite(m) PROVE RowRanges'
  BY <1>3, DueMedia
<1>4. ASSUME NEW a \in Amend, Apply(a) PROVE RowRanges'
  <2> DEFINE m == amend[a].of
  <2>1. m \in Msg
    BY DEF Ranges, AmendRanges
  <2>2. CASE Has(m)
    BY <1>4, <2>1, <2>2, AmendRowRanges DEF Apply, mediaVars
  <2>3. CASE ~Has(m)
    BY <1>4, <2>3 DEF Apply, mediaVars, Has, Ranges, RowRanges, DueInv, DueOf
  <2>4. QED
    BY <2>2, <2>3
<1>5. ASSUME NEW m \in Msg, SaveSent(m) PROVE RowRanges'
  <2>1. UNCHANGED <<media, copy>> /\ media \in [Msg -> {"none", "queued", "read"}]
    BY <1>5 DEF SaveSent, mediaVars, Ranges, RowRanges
  <2>2. QED
    BY <1>5, <2>1, SentUpserts, UpsertRanges
<1>6. ASSUME NEW m \in Msg, NEW s \in Status, Receipt(m, s) PROVE RowRanges'
  BY <1>6, DueReceived
<1>7. ASSUME NEW m \in Msg, NEW s \in Status, History(m, s) PROVE RowRanges'
  BY <1>7, DueHistory
<1>8. ASSUME NEW a \in Amend, HistoryReaction(a) PROVE RowRanges'
  <2> DEFINE m == amend[a].of
  <2>1. m \in Msg
    BY DEF Ranges, AmendRanges
  <2>2. CASE Has(m)
    BY <1>8, <2>1, <2>2, AmendRowRanges DEF HistoryReaction, mediaVars
  <2>3. CASE ~Has(m)
    BY <1>8, <2>3 DEF HistoryReaction, mediaVars, Has, Ranges, RowRanges, DueInv, DueOf
  <2>4. QED
    BY <2>2, <2>3
<1>9. ASSUME UNCHANGED <<row, due, media, copy>> PROVE RowRanges'
  BY <1>9 DEF Ranges, RowRanges, Has
<1>10. ASSUME NEW m \in Msg, Notify(m) \/ JobFails(m) PROVE RowRanges'
  BY <1>10, <1>9 DEF Notify, JobFails, jobVars, amendVars, mediaVars, history
<1>11. ASSUME NEW a \in Amend, ArriveAmend(a) \/ NotifyAmend(a) \/ AmendFails(a) PROVE
  RowRanges'
  BY <1>11, <1>9 DEF ArriveAmend, NotifyAmend, AmendFails, jobVars, amendVars, mediaVars,
    history
<1>12. ASSUME NEW m \in Msg, NEW text \in {Cipher, Plain}, Arrive(m, text) PROVE RowRanges'
  BY <1>12, <1>9 DEF Arrive, jobVars, amendVars, mediaVars, history
<1>13. CASE UNCHANGED vars
  BY <1>13, <1>9 DEF vars, jobVars, amendVars, mediaVars, history
<1>14. QED
  BY <1>1, <1>2, <1>3, <1>4, <1>5, <1>6, <1>7, <1>8, <1>9, <1>10, <1>11, <1>12, <1>13 DEF
    Next, Steps, Events

LEMMA NextJobRanges == Ranges /\ [Next]_vars => JobRanges'
<1> SUFFICES ASSUME Ranges, [Next]_vars PROVE JobRanges'
  OBVIOUS
<1> USE RowTypes DEF Ranges, JobRanges, Place, Retry
<1>1. ASSUME NEW m \in Msg, NEW text \in {Cipher, Plain}, Arrive(m, text) PROVE JobRanges'
  BY <1>1 DEF Arrive, jobVars
<1>2. ASSUME NEW m \in Msg, Write(m) PROVE JobRanges'
  BY <1>2 DEF Write, Upsert
<1>3. ASSUME NEW m \in Msg, Notify(m) PROVE JobRanges'
  BY <1>3 DEF Notify
<1>4. ASSUME NEW m \in Msg, JobFails(m) PROVE JobRanges'
  BY <1>4 DEF JobFails
<1>5. ASSUME UNCHANGED <<job, carries, tries>> PROVE JobRanges'
  BY <1>5
<1>6. ASSUME NEW m \in Msg, MediaRead(m) \/ MediaWrite(m) \/ SaveSent(m) PROVE JobRanges'
  BY <1>6, <1>5 DEF MediaRead, MediaWrite, SaveSent, jobVars, amendVars, mediaVars, history
<1>7. ASSUME NEW a \in Amend, ArriveAmend(a) \/ Apply(a) \/ NotifyAmend(a) \/ AmendFails(a) \/
  HistoryReaction(a) PROVE JobRanges'
  BY <1>7, <1>5 DEF ArriveAmend, Apply, NotifyAmend, AmendFails, HistoryReaction, jobVars,
    amendVars, mediaVars, history
<1>8. ASSUME NEW m \in Msg, NEW s \in Status, Receipt(m, s) \/ History(m, s) PROVE JobRanges'
  BY <1>8, <1>5 DEF Receipt, History, jobVars, amendVars, mediaVars, history
<1>9. CASE UNCHANGED vars
  BY <1>9, <1>5 DEF vars, jobVars, amendVars, mediaVars, history
<1>10. QED
  BY <1>1, <1>2, <1>3, <1>4, <1>5, <1>6, <1>7, <1>8, <1>9 DEF Next, Steps, Events

LEMMA NextAmendRanges == Ranges /\ [Next]_vars => AmendRanges'
<1> SUFFICES ASSUME Ranges, [Next]_vars PROVE AmendRanges'
  OBVIOUS
<1> USE RowTypes DEF Ranges, AmendRanges, Place, Retry
<1>1. ASSUME NEW a \in Amend, ArriveAmend(a) PROVE AmendRanges'
  BY <1>1 DEF ArriveAmend
<1>2. ASSUME NEW a \in Amend, Apply(a) PROVE AmendRanges'
  BY <1>2 DEF Apply
<1>3. ASSUME NEW a \in Amend, NotifyAmend(a) PROVE AmendRanges'
  BY <1>3 DEF NotifyAmend
<1>4. ASSUME NEW a \in Amend, AmendFails(a) PROVE AmendRanges'
  BY <1>4 DEF AmendFails
<1>5. ASSUME NEW a \in Amend, HistoryReaction(a) PROVE AmendRanges'
  BY <1>5 DEF HistoryReaction
<1>6. ASSUME UNCHANGED <<amend, ajob, atries>> PROVE AmendRanges'
  BY <1>6
<1>7. ASSUME NEW m \in Msg, Write(m) \/ Notify(m) \/ MediaRead(m) \/ MediaWrite(m) \/
  JobFails(m) \/ SaveSent(m) PROVE AmendRanges'
  BY <1>7, <1>6 DEF Write, Notify, MediaRead, MediaWrite, JobFails, SaveSent, jobVars,
    amendVars, mediaVars, history
<1>8. ASSUME NEW m \in Msg, NEW text \in {Cipher, Plain}, Arrive(m, text) PROVE AmendRanges'
  BY <1>8, <1>6 DEF Arrive, jobVars, amendVars, mediaVars, history
<1>9. ASSUME NEW m \in Msg, NEW s \in Status, Receipt(m, s) \/ History(m, s) PROVE
  AmendRanges'
  BY <1>9, <1>6 DEF Receipt, History, jobVars, amendVars, mediaVars, history
<1>10. CASE UNCHANGED vars
  BY <1>10, <1>6 DEF vars, jobVars, amendVars, mediaVars, history
<1>11. QED
  BY <1>1, <1>2, <1>3, <1>4, <1>5, <1>6, <1>7, <1>8, <1>9, <1>10 DEF Next, Steps, Events

LEMMA NextSets == Ranges /\ [Next]_vars => SetRanges'
<1> SUFFICES ASSUME Ranges, [Next]_vars PROVE SetRanges'
  OBVIOUS
<1> USE DEF Ranges, SetRanges
<1>1. ASSUME NEW m \in Msg, NEW text \in {Cipher, Plain}, Arrive(m, text) PROVE SetRanges'
  BY <1>1 DEF Arrive, jobVars, amendVars, mediaVars
<1>2. ASSUME NEW m \in Msg, Write(m) PROVE SetRanges'
  BY <1>2 DEF Write, Upsert, jobVars, amendVars, mediaVars
<1>3. ASSUME NEW m \in Msg, MediaWrite(m) PROVE SetRanges'
  BY <1>3 DEF MediaWrite, jobVars, amendVars, mediaVars
<1>4. ASSUME NEW a \in Amend, Apply(a) PROVE SetRanges'
  BY <1>4 DEF Apply, AmendRanges, jobVars, amendVars, mediaVars
<1>5. ASSUME NEW m \in Msg, SaveSent(m) PROVE SetRanges'
  BY <1>5 DEF SaveSent, Upsert, jobVars, amendVars, mediaVars
<1>6. ASSUME NEW m \in Msg, NEW s \in Status, Receipt(m, s) PROVE SetRanges'
  BY <1>6 DEF Receipt, jobVars, amendVars, mediaVars
<1>7. ASSUME NEW m \in Msg, NEW s \in Status, History(m, s) PROVE SetRanges'
  BY <1>7 DEF History, jobVars, amendVars, mediaVars
<1>8. ASSUME NEW a \in Amend, HistoryReaction(a) PROVE SetRanges'
  BY <1>8 DEF HistoryReaction, AmendRanges, jobVars, amendVars, mediaVars
<1>9. ASSUME UNCHANGED <<redone, errored, offered, shadowed>> PROVE SetRanges'
  BY <1>9
<1>10. ASSUME NEW m \in Msg, Notify(m) \/ MediaRead(m) \/ JobFails(m) PROVE SetRanges'
  BY <1>10, <1>9 DEF Notify, MediaRead, JobFails, jobVars, amendVars, mediaVars, history
<1>11. ASSUME NEW a \in Amend, ArriveAmend(a) \/ NotifyAmend(a) \/ AmendFails(a) PROVE
  SetRanges'
  BY <1>11, <1>9 DEF ArriveAmend, NotifyAmend, AmendFails, jobVars, amendVars, mediaVars,
    history
<1>12. CASE UNCHANGED vars
  BY <1>12, <1>9 DEF vars, jobVars, amendVars, mediaVars, history
<1>13. QED
  BY <1>1, <1>2, <1>3, <1>4, <1>5, <1>6, <1>7, <1>8, <1>9, <1>10, <1>11, <1>12 DEF Next,
    Steps, Events

LEMMA NextDue == Ranges /\ RowRanges' /\ DueInv /\ [Next]_vars => DueInv'
<1> SUFFICES ASSUME Ranges, RowRanges', DueInv, [Next]_vars PROVE DueInv'
  OBVIOUS
<1>1. ASSUME NEW m \in Msg, Write(m) PROVE DueInv'
  BY <1>1, WriteUpserts, DueUpserted
<1>2. ASSUME NEW m \in Msg, MediaWrite(m) PROVE DueInv'
  BY <1>2, DueMedia
<1>3. ASSUME NEW a \in Amend, Apply(a) PROVE DueInv'
  <2> DEFINE m == amend[a].of
  <2>1. m \in Msg
    BY DEF Ranges, AmendRanges
  <2>2. CASE Has(m)
    BY <1>3, <2>1, <2>2, DueAmended DEF Apply, mediaVars
  <2>3. CASE ~Has(m)
    BY <1>3, <2>3 DEF Apply, mediaVars, Has, Ranges, RowRanges, DueInv, DueOf
  <2>4. QED
    BY <2>2, <2>3
<1>4. ASSUME NEW m \in Msg, SaveSent(m) PROVE DueInv'
  BY <1>4, SentUpserts, DueUpserted
<1>5. ASSUME NEW m \in Msg, NEW s \in Status, Receipt(m, s) PROVE DueInv'
  BY <1>5, DueReceived
<1>6. ASSUME NEW m \in Msg, NEW s \in Status, History(m, s) PROVE DueInv'
  BY <1>6, DueHistory
<1>7. ASSUME NEW a \in Amend, HistoryReaction(a) PROVE DueInv'
  <2> DEFINE m == amend[a].of
  <2>1. m \in Msg
    BY DEF Ranges, AmendRanges
  <2>2. CASE Has(m)
    BY <1>7, <2>1, <2>2, DueAmended DEF HistoryReaction, mediaVars
  <2>3. CASE ~Has(m)
    BY <1>7, <2>3 DEF HistoryReaction, mediaVars, Has, Ranges, RowRanges, DueInv, DueOf
  <2>4. QED
    BY <2>2, <2>3
<1>8. ASSUME UNCHANGED <<row, due, redone, errored>> PROVE DueInv'
  BY <1>8 DEF DueInv, DueOf, Has
<1>9. ASSUME NEW m \in Msg, Notify(m) \/ MediaRead(m) \/ JobFails(m) PROVE DueInv'
  BY <1>9, <1>8 DEF Notify, MediaRead, JobFails, jobVars, amendVars, mediaVars, history
<1>10. ASSUME NEW a \in Amend, ArriveAmend(a) \/ NotifyAmend(a) \/ AmendFails(a) PROVE DueInv'
  BY <1>10, <1>8 DEF ArriveAmend, NotifyAmend, AmendFails, jobVars, amendVars, mediaVars,
    history
<1>11. ASSUME NEW m \in Msg, NEW text \in {Cipher, Plain}, Arrive(m, text) PROVE DueInv'
  BY <1>11, <1>8 DEF Arrive, jobVars, amendVars, mediaVars, history
<1>12. CASE UNCHANGED vars
  BY <1>12, <1>8 DEF vars, jobVars, amendVars, mediaVars, history
<1>13. QED
  BY <1>1, <1>2, <1>3, <1>4, <1>5, <1>6, <1>7, <1>8, <1>9, <1>10, <1>11, <1>12 DEF Next,
    Steps, Events

-----------------------------------------------------------------------------
(* The placeholder.                                                        *)

\* A step that brings back no placeholder, to a job, a row, or the media worker.
LEMMA CipherKept ==
    ASSUME CipherInv, UNCHANGED <<carries, offered, media, copy>>, shadowed \subseteq shadowed',
           \A m \in Msg : /\ Has(m) => Has(m)'
                          /\ Has(m) /\ row[m].text # Cipher => row'[m].text # Cipher
                          /\ job[m] # "none" => job'[m] # "none"
                          /\ job'[m] \in {"written", "done"} => job[m] \in {"written", "done"}
    PROVE  CipherInv'
BY DEF CipherInv, CipherOf

LEMMA CipherArrives ==
    ASSUME Ranges, CipherInv, NEW m \in Msg, NEW text \in {Cipher, Plain}, Arrive(m, text)
    PROVE  CipherInv'
<1> SUFFICES ASSUME NEW k \in Msg PROVE CipherOf(k)'
  BY DEF CipherInv
<1>1. CipherOf(k) /\ UNCHANGED <<row, media, copy>> /\ (Has(k)' <=> Has(k)) /\ Cipher # Plain
  BY DEF CipherInv, Arrive, mediaVars, Has, Cipher, Plain
<1>2. CASE k # m
  <2>1. UNCHANGED <<job[k], carries[k]>> /\ (k \in offered' <=> k \in offered)
        /\ (k \in shadowed' <=> k \in shadowed)
    BY <1>2 DEF Arrive, jobVars, Ranges, JobRanges
  <2>2. QED
    BY <1>1, <2>1 DEF CipherOf
<1>3. CASE k = m /\ job[m] \in {"none", "done"}
  <2>1. job'[m] = "waiting" /\ carries'[m] = text /\ UNCHANGED shadowed
    BY <1>3 DEF Arrive, Ranges, JobRanges
  <2>2. CASE text = Plain
    BY <1>1, <1>3, <2>1, <2>2 DEF CipherOf
  <2>3. CASE text = Cipher
    <3>1. job[m] = "none" /\ UNCHANGED offered
      BY <1>1, <2>3 DEF Arrive
    <3>2. QED
      BY <1>1, <1>3, <2>1, <3>1 DEF CipherOf
  <2>4. QED
    BY <2>2, <2>3
<1>4. CASE k = m /\ job[m] \notin {"none", "done"}
  <2>1. /\ UNCHANGED <<job, carries>>
        /\ shadowed' = IF carries[m] # text THEN shadowed \cup {m} ELSE shadowed
    BY <1>4 DEF Arrive, jobVars
  <2>2. text = Plain
    BY <1>4 DEF Arrive
  <2>3. m \notin shadowed' => m \notin shadowed /\ carries[m] = Plain
    BY <2>1, <2>2
  <2>4. QED
    BY <1>1, <1>4, <2>1, <2>3 DEF CipherOf
<1>5. QED
  BY <1>2, <1>3, <1>4

LEMMA CipherWritten ==
    ASSUME Ranges, CipherInv, NEW m \in Msg, Write(m)
    PROVE  CipherInv'
<1> SUFFICES ASSUME NEW k \in Msg PROVE CipherOf(k)'
  BY DEF CipherInv
<1>1. PICK status \in Status, text \in Text, secret \in BOOLEAN :
         Upsert(m, status, text, secret) /\ text = carries[m]
  BY WriteUpserts
<1>2. /\ UNCHANGED <<copy, carries, offered, shadowed>> /\ media' \in [Msg -> {"none", "queued", "read"}]
      /\ \A n \in Msg : media'[n] = "read" => media[n] = "read"
      /\ \A n \in Msg : n # m => UNCHANGED <<job[n], media[n]>>
      /\ job[m] = "waiting" /\ job'[m] = "written" /\ (media'[m] = media[m] \/ carries[m] = Plain)
  BY DEF Write, Ranges, RowRanges, JobRanges
<1>3. Has(m)' /\ row'[m].text = carries[m] /\ \A n \in Msg : n # m => row'[n] = row[n]
  BY <1>1, <1>2, UpsertRanges
<1>4. CipherOf(k)
  BY DEF CipherInv
<1>5. CASE k # m
  BY <1>2, <1>3, <1>4, <1>5 DEF CipherOf, Has
<1>6. CASE k = m
  BY <1>2, <1>3, <1>4, <1>6 DEF CipherOf, Cipher, Plain
<1>7. QED
  BY <1>5, <1>6

LEMMA CipherSent ==
    ASSUME Ranges, CipherInv, NEW m \in Msg, SaveSent(m)
    PROVE  CipherInv'
<1>1. /\ UNCHANGED <<job, carries, media, copy, offered, shadowed>>
      /\ media \in [Msg -> {"none", "queued", "read"}]
  BY DEF SaveSent, jobVars, mediaVars, Ranges, RowRanges
<1>2. Has(m)' /\ row'[m].text = Plain /\ \A k \in Msg : k # m => row'[k] = row[k]
  BY <1>1, SentUpserts, UpsertRanges
<1>3. QED
  BY <1>1, <1>2, CipherKept DEF Has, Cipher, Plain

LEMMA CipherReceived ==
    ASSUME Ranges, CipherInv, NEW m \in Msg, NEW st \in Status, Receipt(m, st)
    PROVE  CipherInv'
<1>1. \A k \in Msg : row'[k] = row[k] \/ (Has(k) /\ row'[k] = [row[k] EXCEPT !.status = st])
  BY DEF Receipt
<1>2. \A k \in Msg : Has(k) => row[k] \in Row
  BY DEF Ranges, RowRanges, Has
<1>3. \A r \in Row : [r EXCEPT !.status = st].text = r.text /\ [r EXCEPT !.status = st] \in Row
  BY DEF Row
<1>4. QED
  BY <1>1, <1>2, <1>3, CipherKept, NoRowIsNone DEF Receipt, jobVars, mediaVars, Has

LEMMA CipherMedia ==
    ASSUME Ranges, CipherInv, NEW m \in Msg, MediaRead(m) \/ MediaWrite(m)
    PROVE  CipherInv'
<1> SUFFICES ASSUME NEW k \in Msg PROVE CipherOf(k)'
  BY DEF CipherInv
<1>1. CipherOf(k) /\ CipherOf(m) /\ UNCHANGED <<job, carries, offered, shadowed>>
  BY DEF CipherInv, MediaRead, MediaWrite, jobVars, history
<1>2. CASE k # m
  <2>1. UNCHANGED <<row[k], media[k], copy[k]>>
    BY <1>2 DEF MediaRead, MediaWrite, Ranges, RowRanges
  <2>2. QED
    BY <1>1, <2>1 DEF CipherOf, Has
<1>3. CASE k = m /\ MediaRead(m)
  <2>1. /\ UNCHANGED row /\ media[m] # "none" /\ copy'[m] = row[m]
    BY <1>3 DEF MediaRead, Ranges, RowRanges
  <2>2. QED
    BY <1>1, <1>3, <2>1 DEF CipherOf, Has
<1>4. CASE k = m /\ MediaWrite(m)
  <2>1. /\ copy[m] \in Row /\ copy[m].text # Cipher /\ media'[m] = "none"
        /\ row'[m] = Upserted(row[m], copy[m].status, copy[m].text, copy[m].secret)
    BY <1>1, <1>4 DEF MediaWrite, Ranges, RowRanges, CipherOf
  <2>2. copy[m].status \in Status /\ copy[m].text \in Text /\ copy[m].secret \in BOOLEAN
    BY <2>1 DEF Row
  <2>3. row[m] \in Row \cup {NoRow}
    BY DEF Ranges, RowRanges
  <2>4. row'[m] # NoRow /\ row'[m].text = copy[m].text
    BY <2>1, <2>2, <2>3, UpsertedIsRow
  <2>5. QED
    BY <1>1, <1>4, <2>1, <2>4 DEF CipherOf, Has
<1>5. QED
  BY <1>2, <1>3, <1>4

LEMMA NextCipher == Ranges /\ CipherInv /\ [Next]_vars => CipherInv'
<1> SUFFICES ASSUME Ranges, CipherInv, [Next]_vars PROVE CipherInv'
  OBVIOUS
<1>1. ASSUME NEW m \in Msg, NEW text \in {Cipher, Plain}, Arrive(m, text) PROVE CipherInv'
  BY <1>1, CipherArrives
<1>2. ASSUME NEW m \in Msg, Write(m) PROVE CipherInv'
  BY <1>2, CipherWritten
<1>3. ASSUME NEW m \in Msg, Notify(m) PROVE CipherInv'
  BY <1>3, CipherKept DEF Notify, Ranges, JobRanges, mediaVars, history, Has
<1>4. ASSUME NEW m \in Msg, MediaRead(m) PROVE CipherInv'
  BY <1>4, CipherMedia
<1>5. ASSUME NEW m \in Msg, MediaWrite(m) PROVE CipherInv'
  BY <1>5, CipherMedia
<1>6. ASSUME NEW a \in Amend, Apply(a) PROVE CipherInv'
  <2>1. PICK m \in Msg : m = amend[a].of
    BY DEF Ranges, AmendRanges
  <2>2. UNCHANGED <<job, carries, media, copy, offered, shadowed>>
    BY <1>6 DEF Apply, jobVars, mediaVars
  <2>3. CASE Has(m)
    <3>1. \A k \in Msg : /\ Has(k)' <=> Has(k)
                         /\ row[k].text # Cipher => row'[k].text # Cipher
      BY <1>6, <2>1, <2>2, <2>3, AmendRowRanges DEF Apply
    <3>2. QED
      BY <2>2, <3>1, CipherKept
  <2>4. CASE ~Has(m)
    BY <1>6, <2>1, <2>2, <2>4, CipherKept DEF Apply, Has
  <2>5. QED
    BY <2>3, <2>4
<1>7. ASSUME NEW m \in Msg, JobFails(m) PROVE CipherInv'
  BY <1>7, CipherKept DEF JobFails, Retry, Ranges, JobRanges, mediaVars, history, Has
<1>8. ASSUME NEW m \in Msg, SaveSent(m) PROVE CipherInv'
  BY <1>8, CipherSent
<1>9. ASSUME NEW m \in Msg, NEW s \in Status, Receipt(m, s) PROVE CipherInv'
  BY <1>9, CipherReceived
<1>10. ASSUME NEW m \in Msg, NEW s \in Status, History(m, s) PROVE CipherInv'
  BY <1>10, CipherKept, FreshIsRow DEF History, Ranges, RowRanges, jobVars, mediaVars, Has,
    Text
<1>11. ASSUME NEW a \in Amend, HistoryReaction(a) PROVE CipherInv'
  <2>1. PICK m \in Msg : m = amend[a].of
    BY DEF Ranges, AmendRanges
  <2>2. UNCHANGED <<job, carries, media, copy, offered, shadowed>>
    BY <1>11 DEF HistoryReaction, jobVars, mediaVars
  <2>3. CASE Has(m)
    <3>1. \A k \in Msg : /\ Has(k)' <=> Has(k)
                         /\ row[k].text # Cipher => row'[k].text # Cipher
      BY <1>11, <2>1, <2>2, <2>3, AmendRowRanges DEF HistoryReaction
    <3>2. QED
      BY <2>2, <3>1, CipherKept
  <2>4. CASE ~Has(m)
    BY <1>11, <2>1, <2>2, <2>4, CipherKept DEF HistoryReaction, Has
  <2>5. QED
    BY <2>3, <2>4
<1>12. ASSUME UNCHANGED <<row, jobVars, mediaVars, offered, shadowed>> PROVE CipherInv'
  BY <1>12 DEF CipherInv, CipherOf, Has, jobVars, mediaVars
<1>13. ASSUME NEW a \in Amend, ArriveAmend(a) \/ NotifyAmend(a) \/ AmendFails(a) PROVE
  CipherInv'
  BY <1>13, <1>12 DEF ArriveAmend, NotifyAmend, AmendFails, jobVars, amendVars, mediaVars,
    history
<1>14. CASE UNCHANGED vars
  BY <1>14, <1>12 DEF vars, jobVars, amendVars, mediaVars, history
<1>15. QED
  BY <1>1, <1>2, <1>3, <1>4, <1>5, <1>6, <1>7, <1>8, <1>9, <1>10, <1>11, <1>12, <1>13, <1>14
    DEF Next, Steps, Events

-----------------------------------------------------------------------------
RowIInv == Ranges /\ DueInv /\ CipherInv

LEMMA Inductive == Spec => []RowIInv
<1>1. Init => RowIInv
  <2>1. Init => DueInv /\ CipherInv
    BY DEF Init, Start, DueInv, CipherInv, CipherOf, Has
  <2>2. QED
    BY <2>1, InitRanges DEF RowIInv
<1>2. RowIInv /\ [Next]_vars => RowIInv'
  <2>1. Ranges /\ DueInv /\ [Next]_vars => Ranges'
    BY NextRows, NextJobRanges, NextAmendRanges, NextSets DEF Ranges
  <2>2. QED
    BY <2>1, NextDue, NextCipher DEF RowIInv, Ranges
<1>3. QED
  BY <1>1, <1>2, PTL DEF Spec

\* The ranges, and: an own message shows the best of the receipts that were handled
\* while its row existed, in whatever order they came (session.manager.ts 1929).
THEOREM RowInvHolds == Spec => []RowInv
<1>1. RowIInv => TypeOK
  BY DEF RowIInv, Ranges, RowRanges, JobRanges, AmendRanges, SetRanges, TypeOK
<1>2. RowIInv => StatusIsDue
  BY RowTypes DEF RowIInv, DueInv, DueOf, StatusIsDue
<1>3. RowIInv => RowInv
  BY <1>1, <1>2 DEF RowInv
<1>4. QED
  BY <1>3, Inductive, PTL

\* A message shows its newest edit and reaction of those handled while its row
\* existed (message.worker.ts 77-180, message.service.ts 75).
THEOREM TextHolds == Spec => []TextIsDue
<1>1. RowIInv => TextIsDue
  BY DEF RowIInv, DueInv, DueOf, TextIsDue
<1>2. QED
  BY <1>1, Inductive, PTL

\* A revoked message stays revoked and an edited one marked, whatever is written
\* again (message.service.ts 75-110).
THEOREM MarksHold == Spec => []MarksStay
<1>1. RowIInv => MarksStay
  BY DEF RowIInv, DueInv, DueOf, MarksStay
<1>2. QED
  BY <1>1, Inductive, PTL

\* The text of a message that could be decrypted in the end takes the place of the
\* placeholder, unless its job was taken for the placeholder's (event-bus.ts 120).
THEOREM PlaceholderGoes == Spec => []PlaceholderReplaced
<1>1. RowIInv => PlaceholderReplaced
  BY DEF RowIInv, CipherInv, CipherOf, Ranges, SetRanges, PlaceholderReplaced
<1>2. QED
  BY <1>1, Inductive, PTL

-----------------------------------------------------------------------------
(***************************************************************************)
(* The media of messages: proofs about MediaFiles, for any sessions,       *)
(* messages, contents and number of failures.                              *)
(***************************************************************************)

\* Whom a file may be stored for.
Someone == Message \cup {NoMessage}

\* Ranges.  Files are numbered in the order in which they were put.
InfoTypes ==
    info \in [Message -> [status : {"none", "downloading", "downloaded"}, file : 0..stored]]

JobTypes == jobs \subseteq [msg : Message, made : 0..(DownloadAttempts - 1)]

\* An upload for a message is for its session and its content, and has a file once put.
IsUpload(u) ==
    /\ u \in [msg : Someone, session : Session, sum : Sum, file : 0..stored,
              step : {"look", "put", "insert", "save"}, made : 1..DownloadAttempts]
    /\ u.msg = NoMessage => u.made = DownloadAttempts
    /\ u.msg # NoMessage => u.session = of[u.msg] /\ u.sum = sum[u.msg]
    /\ u.step \in {"insert", "save"} => u.file # 0

UploadTypes == \A u \in uploads : IsUpload(u)

FileTypes ==
    /\ objects \subseteq 1..stored /\ DOMAIN rows \subseteq 1..stored
    /\ rows \in [DOMAIN rows -> [sum : Sum, msg : Someone, session : Session]]

\* A purge has a file in hand between picking it and being done with its row.
IsPurge(p) ==
    /\ p \in [by : Session \cup {"user", "script"}, todo : SUBSET (1..stored), at : 0..stored,
              step : {"next", "object", "row"}]
    /\ p.at = 0 <=> p.step = "next"

PurgeTypes == \A p \in purges : IsPurge(p)

HistoryTypes ==
    /\ stored \in 0..MaxFiles /\ first \in [1..MaxFiles -> Someone]
    /\ asked \subseteq Nat /\ ended \subseteq Session

FixedTypes ==
    /\ of \in [Message -> Session] /\ sum \in [Message -> Sum] /\ sessions \subseteq Session

Types == /\ FixedTypes /\ InfoTypes /\ JobTypes /\ UploadTypes
         /\ FileTypes /\ PurgeTypes /\ HistoryTypes

\* What a purge deletes, and the uploads that have put their object.
Dealt(p) == p.todo \cup {p.at}
Inserting == {u \in uploads : u.step = "insert"}

\* The object that an upload has put is new to everybody else.
NewInv ==
    \A u \in Inserting :
        /\ u.file \in objects \ DOMAIN rows /\ first[u.file] = u.msg
        /\ \A p \in purges : u.file \notin Dealt(p)
        /\ \A v \in Inserting : v.file = u.file => v = u

\* A row tells whom it was stored for, as long as the message is there.
TellInv ==
    \A f \in DOMAIN rows :
        first[f] # NoMessage =>
            /\ rows[f].session = of[first[f]] /\ rows[f].sum = sum[first[f]]
            /\ of[first[f]] \in sessions => rows[f].msg = first[f]

RowMsg == \A f \in DOMAIN rows : rows[f].msg \in {NoMessage, first[f]}

\* A file that nobody asked to delete, of a session that is there; one that is shown,
\* or about to be.
Safe(f) == first[f] # NoMessage /\ of[first[f]] \in sessions \ ended /\ f \notin asked

Shown(f) == (\E u \in uploads : u.step = "save" /\ u.file = f)
                \/ \E m \in Message : info[m].status = "downloaded" /\ info[m].file = f

\* No purge deals with a safe file, and what is shown and safe has its row and object.
SafeInv ==
    /\ \A p \in purges : \A f \in Dealt(p) \ {0} : ~Safe(f)
    /\ \A f \in DOMAIN rows : Safe(f) => f \in objects
    /\ \A f \in 1..stored : Shown(f) /\ Safe(f) => f \in DOMAIN rows
    /\ ~Shown(0)

KeptInv == Types /\ NewInv /\ TellInv /\ RowMsg /\ SafeInv

\* An object without a row is about to get it, and a row without an object is about
\* to be deleted, unless something failed in between (torn).
HalfInv ==
    /\ \A f \in objects \ (DOMAIN rows \cup torn) : \E u \in Inserting : u.file = f
    /\ \A f \in DOMAIN rows \ (objects \cup torn) : \E p \in purges : p.at = f /\ p.step = "row"
    /\ \A p \in purges : p.step = "row" => p.at \notin objects

Kept(f) == f \in DOMAIN rows \ (torn \cup late) /\ first[f] # NoMessage

\* Each row of a session that is being deleted is dealt with by the purge, unless it
\* was stored later or the purge failed.
GoneInv ==
    /\ \A f \in DOMAIN rows : Kept(f) => rows[f].session \in sessions
    /\ \A p \in purges : \A f \in DOMAIN rows :
           Kept(f) /\ rows[f].session = p.by => f \in Dealt(p)

IInv == KeptInv /\ HalfInv /\ GoneInv

-----------------------------------------------------------------------------
(* What a step may change.                                                 *)

LEMMA UploadSteps ==
    [StorageNext]_storageVars =>
        \/ \E j \in jobs : Download(j)
        \/ \E s \in Session, c \in Sum : UploadRoute(s, c)
        \/ \E u \in uploads : \/ Look(u) \/ PutObject(u) \/ InsertRow(u)
                              \/ Save(u) \/ UploadThrows(u)
        \/ UNCHANGED <<uploads, stored, objects, first>>
        \/ \E p \in purges : RemoveObject(p)
BY DEF StorageNext, Storing, Deleting, storageVars, workVars, fileVars, histVars, RetryRoute,
   RetryQueued, DeleteRoute, DeleteSession, CleanUp, Pick, DeleteRow, PurgeFails, PurgeEnds,
   PurgeDies

LEMMA PurgeSteps ==
    [StorageNext]_storageVars =>
        \/ \E f \in DOMAIN rows : DeleteRoute(f)
        \/ \E s \in Session : DeleteSession(s)
        \/ CleanUp
        \/ \E p \in purges : \/ \E f \in p.todo : Pick(p, f)
                             \/ RemoveObject(p) \/ DeleteRow(p) \/ PurgeFails(p)
                             \/ PurgeEnds(p) \/ PurgeDies(p)
        \/ UNCHANGED <<purges, sessions, ended, asked>>
BY DEF StorageNext, Storing, Deleting, storageVars, workVars, fileVars, histVars, RetryRoute,
   RetryQueued, Download, UploadRoute, Look, PutObject, InsertRow, Save, UploadThrows

LEMMA RowSteps ==
    [StorageNext]_storageVars =>
        \/ \E u \in uploads : InsertRow(u)
        \/ \E p \in purges : DeleteRow(p) \/ PurgeEnds(p)
        \/ UNCHANGED rows
BY DEF StorageNext, Storing, Deleting, storageVars, workVars, fileVars, histVars, RetryRoute,
   RetryQueued, Download, UploadRoute, Look, PutObject, Save, UploadThrows, DeleteRoute,
   DeleteSession, CleanUp, Pick, RemoveObject, PurgeFails, PurgeDies

LEMMA NewRows ==
    ASSUME [StorageNext]_storageVars, NEW f \in DOMAIN rows' \ DOMAIN rows
    PROVE  \E u \in uploads : InsertRow(u) /\ f = u.file
BY RowSteps, ZenonT(30) DEF InsertRow, DeleteRow, PurgeEnds

LEMMA ObjectSteps ==
    [StorageNext]_storageVars =>
        \/ \E u \in uploads : PutObject(u)
        \/ \E p \in purges : RemoveObject(p) /\ UNCHANGED <<stored, first>>
        \/ UNCHANGED <<stored, first, objects>>
BY DEF StorageNext, Storing, Deleting, storageVars, workVars, fileVars, histVars, RetryRoute,
   RetryQueued, Download, UploadRoute, Look, InsertRow, Save, UploadThrows, DeleteRoute,
   DeleteSession, CleanUp, Pick, PurgeFails, PurgeDies, DeleteRow, PurgeEnds, RemoveObject

LEMMA FixedStep == [StorageNext]_storageVars => UNCHANGED <<of, sum>>
BY DEF StorageNext, Storing, Deleting, storageVars, RetryRoute, RetryQueued, Download,
   UploadRoute, Look, InsertRow, Save, UploadThrows, DeleteRoute, DeleteSession, CleanUp, Pick,
   PurgeFails, PurgeDies, DeleteRow, PurgeEnds, PutObject, RemoveObject, Fixed

LEMMA HistorySteps ==
    [StorageNext]_storageVars =>
        \/ \E u \in uploads : PutObject(u)
        \/ \E f \in DOMAIN rows : DeleteRoute(f)
        \/ \E s \in Session : DeleteSession(s)
        \/ UNCHANGED <<stored, first, asked, ended>>
BY DEF StorageNext, Storing, Deleting, storageVars, workVars, fileVars, histVars, RetryRoute,
   RetryQueued, Download, UploadRoute, Look, InsertRow, Save, UploadThrows, CleanUp, Pick,
   PurgeFails, PurgeDies, DeleteRow, PurgeEnds, RemoveObject

LEMMA SessionSteps ==
    [StorageNext]_storageVars => UNCHANGED sessions \/ \E p \in purges : PurgeEnds(p)
BY DEF StorageNext, Storing, Deleting, storageVars, workVars, fileVars, histVars, RetryRoute,
   RetryQueued, Download, UploadRoute, Look, InsertRow, Save, UploadThrows, PutObject,
   DeleteRoute, DeleteSession, CleanUp, Pick, PurgeFails, PurgeDies, DeleteRow, RemoveObject

LEMMA InfoSteps ==
    [StorageNext]_storageVars =>
        \/ \E u \in uploads : Save(u)
        \/ \E m \in Message : RetryRoute(m)
        \/ UNCHANGED info
BY DEF StorageNext, Storing, Deleting, storageVars, workVars, fileVars, histVars, RetryQueued,
   Download, UploadRoute, Look, InsertRow, UploadThrows, PutObject, DeleteRoute, DeleteSession,
   CleanUp, Pick, PurgeFails, PurgeDies, DeleteRow, RemoveObject, PurgeEnds

\* Files are stored under new numbers, and what a user has ended or deleted stays so.
LEMMA StoredSteps ==
    ASSUME Types, [StorageNext]_storageVars
    PROVE  /\ HistoryTypes' /\ stored' \in {stored, stored + 1}
           /\ \A f \in 1..stored : first'[f] = first[f]
           /\ sessions' \subseteq sessions /\ ended \subseteq ended' /\ asked \subseteq asked'
<1>1. sessions' \subseteq sessions
  BY SessionSteps DEF PurgeEnds
<1>2. CASE \E u \in uploads : PutObject(u)
  <2>1. PICK u \in uploads : PutObject(u)
    BY <1>2
  <2>2. u.msg \in Someone
    BY DEF Types, UploadTypes, IsUpload
  <2>3. QED
    BY <1>1, <2>1, <2>2, MediaTypes DEF PutObject, Types, HistoryTypes
<1>3. CASE \E f \in DOMAIN rows : DeleteRoute(f)
  BY <1>3, <1>1, MediaTypes DEF DeleteRoute, Types, HistoryTypes, FileTypes
<1>4. CASE \E s \in Session : DeleteSession(s)
  BY <1>4, <1>1, MediaTypes DEF DeleteSession, Types, HistoryTypes
<1>5. CASE UNCHANGED <<stored, first, asked, ended>>
  BY <1>5, <1>1, MediaTypes DEF Types, HistoryTypes
<1>6. QED
  BY <1>2, <1>3, <1>4, <1>5, HistorySteps

-----------------------------------------------------------------------------
(* Types.                                                                  *)

LEMMA InfoTyped == ASSUME Types, [StorageNext]_storageVars PROVE InfoTypes'
<1>1. stored \in Nat /\ stored' \in {stored, stored + 1}
  BY StoredSteps, MediaTypes DEF Types, HistoryTypes
<1>2. CASE \E u \in uploads : Save(u)
  BY <1>1, <1>2 DEF Save, Exists, Types, InfoTypes, UploadTypes, IsUpload, Someone
<1>3. CASE \E m \in Message : RetryRoute(m)
  BY <1>1, <1>3 DEF RetryRoute, Types, InfoTypes
<1>4. CASE UNCHANGED info
  BY <1>1, <1>4 DEF Types, InfoTypes
<1>5. QED
  BY <1>2, <1>3, <1>4, InfoSteps

LEMMA JobsTyped == ASSUME Types, [StorageNext]_storageVars PROVE JobTypes'
<1>1. ASSUME NEW u \in uploads, UploadThrows(u) PROVE JobTypes'
  <2>1. IsUpload(u)
    BY DEF Types, UploadTypes
  <2>2. u.made < DownloadAttempts
            => [msg |-> u.msg, made |-> u.made] \in [msg : Message,
                  made : 0..(DownloadAttempts - 1)]
    BY <2>1, MediaTypes DEF IsUpload, Someone, Types
  <2>3. QED
    BY <1>1, <2>2 DEF UploadThrows, Types, JobTypes
<1>2. ASSUME NEW m \in Message, RetryQueued(m) PROVE JobTypes'
  BY <1>2, MediaTypes DEF RetryQueued, Types, JobTypes, Job
<1>3. CASE jobs' \subseteq jobs
  BY <1>3 DEF Types, JobTypes
<1>4. QED
  BY <1>1, <1>2, <1>3 DEF StorageNext, Storing, Deleting, storageVars, workVars, fileVars,
     histVars, RetryRoute, Download, UploadRoute, Look, InsertRow, Save, PutObject, DeleteRoute,
     DeleteSession, CleanUp, Pick, PurgeFails, PurgeDies, DeleteRow, RemoveObject, PurgeEnds

LEMMA UploadsTyped == ASSUME Types, [StorageNext]_storageVars PROVE UploadTypes'
<1>1. /\ stored \in Nat /\ stored' \in {stored, stored + 1}
      /\ UNCHANGED <<of, sum>>
  BY StoredSteps, FixedStep, MediaTypes DEF Types, HistoryTypes
<1>2. \A u \in uploads : IsUpload(u) /\ IsUpload(u)'
  BY <1>1 DEF Types, UploadTypes, IsUpload
<1>3. ASSUME NEW j \in jobs, Download(j) PROVE UploadTypes'
  <2>1. j \in [msg : Message, made : 0..(DownloadAttempts - 1)] /\ of[j.msg] \in Session
            /\ sum[j.msg] \in Sum
    BY DEF Types, FixedTypes, JobTypes
  <2>2. QED
    BY <1>1, <1>2, <1>3, <2>1, MediaTypes DEF Download, Types, UploadTypes, IsUpload, Someone
<1>4. ASSUME NEW s \in Session, NEW c \in Sum, UploadRoute(s, c) PROVE UploadTypes'
  BY <1>1, <1>2, <1>4, MediaTypes DEF UploadRoute, Types, UploadTypes, IsUpload, Someone
<1>5. ASSUME NEW u \in uploads, NEW step \in {"put", "insert", "save"}, NEW f \in 0..stored',
             step \in {"insert", "save"} => f # 0, Moves(u, step, f)
      PROVE  UploadTypes'
  <2>1. IsUpload([u EXCEPT !.step = step, !.file = f])'
    BY <1>1, <1>2, <1>5 DEF IsUpload
  <2>2. QED
    BY <1>2, <1>5, <2>1 DEF Moves, UploadTypes
<1>6. ASSUME NEW u \in uploads, Look(u) PROVE UploadTypes'
  BY <1>1, <1>5, <1>6 DEF Look, Same, Types, FileTypes
<1>7. ASSUME NEW u \in uploads, PutObject(u) PROVE UploadTypes'
  BY <1>1, <1>5, <1>7 DEF PutObject
<1>8. ASSUME NEW u \in uploads, InsertRow(u) PROVE UploadTypes'
  BY <1>1, <1>2, <1>5, <1>8 DEF InsertRow, IsUpload
<1>9. CASE uploads' \subseteq uploads
  BY <1>2, <1>9 DEF UploadTypes
<1>10. QED
  BY <1>3, <1>4, <1>6, <1>7, <1>8, <1>9, UploadSteps DEF Save, UploadThrows, RemoveObject

LEMMA FilesTyped == ASSUME Types, [StorageNext]_storageVars PROVE FileTypes'
<1>1. stored \in Nat /\ stored' \in {stored, stored + 1}
  BY StoredSteps, MediaTypes DEF Types, HistoryTypes
<1>2. objects' \subseteq 1..stored'
  <2>1. objects \subseteq 1..stored'
    BY <1>1 DEF Types, FileTypes
  <2>2. CASE \E u \in uploads : PutObject(u)
    BY <1>1, <2>1, <2>2 DEF PutObject
  <2>3. QED
    BY <2>1, <2>2, ObjectSteps DEF RemoveObject
<1>3. ASSUME NEW u \in uploads, InsertRow(u) PROVE FileTypes'
  BY <1>1, <1>2, <1>3 DEF InsertRow, FileRow, Types, UploadTypes, IsUpload, FileTypes
<1>4. ASSUME NEW p \in purges, DeleteRow(p) PROVE FileTypes'
  BY <1>1, <1>2, <1>4 DEF DeleteRow, Types, FileTypes
<1>5. ASSUME NEW p \in purges, PurgeEnds(p) PROVE FileTypes'
  BY <1>1, <1>2, <1>5 DEF PurgeEnds, Types, FileTypes, Someone
<1>6. CASE UNCHANGED rows
  BY <1>1, <1>2, <1>6 DEF Types, FileTypes
<1>7. QED
  BY <1>3, <1>4, <1>5, <1>6, RowSteps

LEMMA PurgesTyped == ASSUME Types, [StorageNext]_storageVars PROVE PurgeTypes'
<1>1. stored \in Nat /\ stored' \in {stored, stored + 1}
  BY StoredSteps, MediaTypes DEF Types, HistoryTypes
<1>2. \A p \in purges : IsPurge(p) /\ IsPurge(p)'
  BY <1>1 DEF Types, PurgeTypes, IsPurge
<1>3. ASSUME NEW by \in Session \cup {"user", "script"}, NEW files \in SUBSET (1..stored),
             Starts(Purge(by, files))
      PROVE  PurgeTypes'
  <2>1. IsPurge(Purge(by, files))'
    BY <1>1 DEF Purge, IsPurge
  <2>2. QED
    BY <1>2, <1>3, <2>1 DEF Starts, PurgeTypes
<1>4. ASSUME NEW f \in DOMAIN rows, DeleteRoute(f) PROVE PurgeTypes'
  BY <1>3, <1>4 DEF DeleteRoute, Types, FileTypes
<1>5. ASSUME NEW s \in Session, DeleteSession(s) PROVE PurgeTypes'
  BY <1>3, <1>5 DEF DeleteSession, Linked, Types, FileTypes
<1>6. CASE CleanUp
  BY <1>3, <1>6 DEF CleanUp, Orphans, Types, FileTypes
<1>7. ASSUME NEW p \in purges, NEW q, IsPurge(q)', Goes(p, q) PROVE PurgeTypes'
  BY <1>2, <1>7 DEF Goes, PurgeTypes
<1>8. ASSUME NEW p \in purges, NEW f \in p.todo, Pick(p, f) PROVE PurgeTypes'
  <2>0. f \in 0..stored' /\ f # 0 /\ p.todo \ {f} \in SUBSET (1..stored')
    BY <1>1, <1>2 DEF IsPurge
  <2>1. IsPurge([p EXCEPT !.todo = @ \ {f}, !.at = f, !.step = "object"])'
    BY <1>2, <2>0 DEF IsPurge
  <2>2. p.step = "next" => IsPurge([p EXCEPT !.todo = @ \ {f}])'
    BY <1>2 DEF IsPurge
  <2>3. QED
    BY <1>7, <1>8, <2>1, <2>2 DEF Pick
<1>9. ASSUME NEW p \in purges, RemoveObject(p) \/ DeleteRow(p) \/ PurgeFails(p) PROVE PurgeTypes'
  <2>1. p.step = "object" => IsPurge([p EXCEPT !.step = "row"])'
    BY <1>2 DEF IsPurge
  <2>0. 0 \in 0..stored'
    BY <1>1
  <2>2. IsPurge([p EXCEPT !.step = "next", !.at = 0])'
    BY <1>2, <2>0 DEF IsPurge
  <2>3. QED
    BY <1>7, <1>9, <2>1, <2>2 DEF RemoveObject, DeleteRow, PurgeFails
<1>10. CASE purges' \subseteq purges
  BY <1>2, <1>10 DEF PurgeTypes
<1>11. QED
  BY <1>4, <1>5, <1>6, <1>8, <1>9, <1>10, PurgeSteps DEF PurgeEnds, PurgeDies

LEMMA TypesHold == ASSUME Types, [StorageNext]_storageVars PROVE Types'
<1>1. FixedTypes'
  BY FixedStep, StoredSteps DEF Types, FixedTypes
<1>2. QED
  BY <1>1, StoredSteps, InfoTyped, JobsTyped, UploadsTyped, FilesTyped, PurgesTyped, MediaTypes
     DEF Types

-----------------------------------------------------------------------------
(* Rows and objects.                                                       *)

\* Who inserts a row.
LEMMA InsertSteps ==
    ASSUME Types, [StorageNext]_storageVars
    PROVE  \/ \E u \in uploads :
                  PutObject(u) /\ Inserting' = Inserting \cup {[u EXCEPT !.step = "insert",
                        !.file = stored']}
           \/ \E u \in Inserting : InsertRow(u) /\ Inserting' = Inserting \ {u}
           \/ \E u \in Inserting : UploadThrows(u) /\ Inserting' = Inserting \ {u}
           \/ Inserting' = Inserting /\ DOMAIN rows' \subseteq DOMAIN rows
                 /\ UNCHANGED <<stored, first>>
<1>1. ASSUME NEW u \in uploads, NEW step, NEW f, Moves(u, step, f), step # "insert",
      u.step # "insert"
      PROVE  Inserting' = Inserting
  <2>1. [u EXCEPT !.step = step, !.file = f].step = step
    BY DEF Types, UploadTypes, IsUpload
  <2>2. QED
    BY <1>1, <2>1 DEF Moves, Inserting
<1>2. ASSUME NEW j \in jobs, Download(j) PROVE Inserting' = Inserting
  BY <1>2 DEF Download, Inserting
<1>3. ASSUME NEW s \in Session, NEW c \in Sum, UploadRoute(s, c) PROVE Inserting' = Inserting
  BY <1>3 DEF UploadRoute, Inserting
<1>4. ASSUME NEW u \in uploads, Look(u) PROVE Inserting' = Inserting
  BY <1>1, <1>4 DEF Look
<1>5. ASSUME NEW u \in uploads, PutObject(u)
      PROVE  Inserting' = Inserting \cup {[u EXCEPT !.step = "insert", !.file = stored']}
  <2>1. [u EXCEPT !.step = "insert", !.file = stored'].step = "insert"
    BY DEF Types, UploadTypes, IsUpload
  <2>2. QED
    BY <1>5, <2>1 DEF PutObject, Moves, Inserting
<1>6. ASSUME NEW u \in uploads, InsertRow(u) PROVE u \in Inserting /\ Inserting' = Inserting \ {u}
  <2>1. [u EXCEPT !.step = "save", !.file = u.file].step = "save"
    BY DEF Types, UploadTypes, IsUpload
  <2>2. QED
    BY <1>6, <2>1 DEF InsertRow, Moves, Inserting
<1>7. ASSUME NEW u \in uploads, Save(u) PROVE Inserting' = Inserting
  BY <1>7 DEF Save, Inserting
<1>8. ASSUME NEW u \in uploads, UploadThrows(u) PROVE Inserting' = Inserting \ {u}
  BY <1>8 DEF UploadThrows, Inserting
<1>10. CASE \E u \in uploads : InsertRow(u) \/ PutObject(u)
  BY <1>5, <1>6, <1>10
<1>11. CASE \E u \in uploads : UploadThrows(u)
  <2>1. PICK u \in uploads : UploadThrows(u)
    BY <1>11
  <2>2. UNCHANGED <<rows, stored, first>>
    BY <2>1 DEF UploadThrows, fileVars
  <2>3. QED
    BY <1>8, <2>1, <2>2 DEF Inserting
<1>12. CASE ~\E u \in uploads : InsertRow(u) \/ PutObject(u) \/ UploadThrows(u)
  <2>1. DOMAIN rows' \subseteq DOMAIN rows
    BY <1>12, RowSteps DEF DeleteRow, PurgeEnds
  <2>2. UNCHANGED <<stored, first>>
    BY <1>12, ObjectSteps
  <2>3. Inserting' = Inserting
    BY <1>2, <1>3, <1>4, <1>7, <1>12, UploadSteps DEF RemoveObject, Inserting
  <2>4. QED
    BY <2>1, <2>2, <2>3
<1>13. QED
  BY <1>10, <1>11, <1>12

\* Where the files of a purge come from.
LEMMA DealtSteps ==
    ASSUME Types, [StorageNext]_storageVars, NEW q \in purges', NEW f \in Dealt(q) \ {0}
    PROVE  \/ \E p \in purges : p.by = q.by /\ f \in Dealt(p)
           \/ DeleteRoute(f) /\ f \in DOMAIN rows
           \/ DeleteSession(q.by) /\ f \in Linked(q.by)
           \/ CleanUp /\ f \in Orphans
<1>1. ASSUME NEW by, NEW files, Starts(Purge(by, files)), q \notin purges
      PROVE  q.by = by /\ f \in files
  BY <1>1 DEF Starts, Purge, Dealt
<1>2. CASE q \in purges
  BY <1>2
<1>3. CASE q \notin purges
  <2>1. ASSUME NEW p \in purges, NEW r, Goes(p, r), r.by = p.by,
        Dealt(r) \subseteq Dealt(p) \cup {0}
        PROVE  \E x \in purges : x.by = q.by /\ f \in Dealt(x)
    BY <1>3, <2>1 DEF Goes
  <2>2. ASSUME NEW p \in purges, NEW g \in p.todo, Pick(p, g)
        PROVE  \E x \in purges : x.by = q.by /\ f \in Dealt(x)
    <3>1. p \in [by : Session \cup {"user", "script"}, todo : SUBSET (1..stored), at : 0..stored,
              step : {"next", "object", "row"}]
      BY DEF Types, PurgeTypes, IsPurge
    <3>2. [p EXCEPT !.todo = @ \ {g}, !.at = g, !.step = "object"].by = p.by
          /\ [p EXCEPT !.todo = @ \ {g}, !.at = g, !.step = "object"].todo = p.todo \ {g}
          /\ [p EXCEPT !.todo = @ \ {g}, !.at = g, !.step = "object"].at = g
          /\ [p EXCEPT !.todo = @ \ {g}].by = p.by
          /\ [p EXCEPT !.todo = @ \ {g}].at = p.at
          /\ [p EXCEPT !.todo = @ \ {g}].todo = p.todo \ {g}
      BY <3>1
    <3>3. QED
      BY <2>1, <2>2, <3>2 DEF Pick, Dealt
  <2>3. ASSUME NEW p \in purges, RemoveObject(p) \/ DeleteRow(p) \/ PurgeFails(p)
        PROVE  \E x \in purges : x.by = q.by /\ f \in Dealt(x)
    <3>1. p \in [by : Session \cup {"user", "script"}, todo : SUBSET (1..stored), at : 0..stored,
              step : {"next", "object", "row"}]
      BY DEF Types, PurgeTypes, IsPurge
    <3>2. [p EXCEPT !.step = "row"].by = p.by
          /\ [p EXCEPT !.step = "row"].todo = p.todo
          /\ [p EXCEPT !.step = "row"].at = p.at
          /\ [p EXCEPT !.step = "next", !.at = 0].by = p.by
          /\ [p EXCEPT !.step = "next", !.at = 0].at = 0
          /\ [p EXCEPT !.step = "next", !.at = 0].todo = p.todo
      BY <3>1
    <3>3. QED
      BY <2>1, <2>3, <3>2 DEF RemoveObject, DeleteRow, PurgeFails, Dealt
  <2>4. ASSUME NEW g \in DOMAIN rows, DeleteRoute(g) PROVE f = g
    BY <1>1, <1>3, <2>4 DEF DeleteRoute
  <2>5. ASSUME NEW s \in Session, DeleteSession(s) PROVE q.by = s /\ f \in Linked(s)
    BY <1>1, <1>3, <2>5 DEF DeleteSession
  <2>6. CleanUp => f \in Orphans
    BY <1>1, <1>3 DEF CleanUp
  <2>7. CASE purges' \subseteq purges
    BY <1>3, <2>7
  <2>8. QED
    BY <2>2, <2>3, <2>4, <2>5, <2>6, <2>7, PurgeSteps DEF PurgeEnds, PurgeDies
<1>4. QED
  BY <1>2, <1>3

\* A number that an upload was given is not given again, nor deleted before it has a row.
LEMMA NewHolds == ASSUME Types, NewInv, [StorageNext]_storageVars PROVE NewInv'
<1>. SUFFICES ASSUME NEW u \in Inserting'
     PROVE  /\ u.file \in objects' \ DOMAIN rows' /\ first'[u.file] = u.msg
            /\ \A p \in purges' : u.file \notin Dealt(p)
            /\ \A v \in Inserting' : v.file = u.file => v = u
  BY DEF NewInv
<1>1. \A v \in Inserting : v.file \in 1..stored /\ IsUpload(v)
  BY DEF Types, UploadTypes, IsUpload, Inserting
<1>2. CASE u \in Inserting
  <2>1. u.file \in 1..stored /\ first'[u.file] = u.msg
    BY <1>1, <1>2, StoredSteps DEF NewInv
  <2>2. u.file \in objects'
    BY <1>2, ObjectSteps DEF NewInv, Dealt, PutObject, RemoveObject
  <2>3. \A p \in purges' : u.file \notin Dealt(p)
    BY <1>2, <2>1, DealtSteps DEF NewInv, Linked, Orphans
  <2>4. u.file \notin DOMAIN rows'
    <3>1. ASSUME NEW x \in Inserting, InsertRow(x), Inserting' = Inserting \ {x}
          PROVE  u.file \notin DOMAIN rows'
      <4>1. x # u /\ x.file # u.file
        BY <1>2, <3>1 DEF NewInv
      <4>2. QED
        BY <1>2, <3>1, <4>1 DEF NewInv, InsertRow
    <3>2. CASE rows' = rows
      BY <1>2, <3>2 DEF NewInv
    <3>3. QED
      BY <1>2, <3>1, <3>2, InsertSteps DEF NewInv, PutObject, UploadThrows, fileVars
  <2>5. ASSUME NEW v \in Inserting', v.file = u.file PROVE v = u
    <3>1. CASE v \in Inserting
      BY <1>2, <2>5, <3>1 DEF NewInv
    <3>2. CASE v \notin Inserting
      <4>1. PICK x \in uploads : PutObject(x) /\ v = [x EXCEPT !.step = "insert", !.file = stored']
        BY <3>2, InsertSteps
      <4>2. v.file = stored + 1
        BY <4>1 DEF PutObject, Types, UploadTypes, IsUpload
      <4>3. QED
        BY <2>1, <2>5, <4>2, MediaTypes DEF Types, HistoryTypes
    <3>3. QED
      BY <3>1, <3>2
  <2>6. QED
    BY <2>1, <2>2, <2>3, <2>4, <2>5
<1>3. CASE u \notin Inserting
  <2>1. PICK x \in uploads : /\ PutObject(x) /\ u = [x EXCEPT !.step = "insert", !.file = stored']
                             /\ Inserting' = Inserting \cup {u}
    BY <1>3, InsertSteps
  <2>2. u.file = stored + 1 /\ u.msg = x.msg /\ stored' = stored + 1 /\ stored \in Nat
    BY <2>1, MediaTypes DEF PutObject, Types, UploadTypes, IsUpload, HistoryTypes
  <2>3. u.file \in objects' \ DOMAIN rows' /\ first'[u.file] = u.msg
    BY <2>1, <2>2, MediaTypes DEF PutObject, Types, FileTypes, HistoryTypes
  <2>4. ASSUME NEW p \in purges' PROVE u.file \notin Dealt(p)
    BY <2>1, <2>2 DEF PutObject, Types, PurgeTypes, IsPurge, Dealt
  <2>5. \A v \in Inserting' : v.file = u.file => v = u
    BY <1>1, <2>1, <2>2
  <2>6. QED
    BY <2>3, <2>4, <2>5
<1>4. QED
  BY <1>2, <1>3

\* A file that an upload saves has a row.
LEMMA SaveSteps ==
    ASSUME Types, [StorageNext]_storageVars, NEW v \in uploads', v.step = "save"
    PROVE  v \in uploads \/ v.file \in DOMAIN rows'
<1>1. ASSUME NEW u \in uploads, NEW step, NEW f, Moves(u, step, f), v \notin uploads
      PROVE  step = "save" /\ v.file = f
  BY <1>1 DEF Moves, Types, UploadTypes, IsUpload
<1>2. CASE v \notin uploads
  <2>1. ASSUME NEW u \in uploads, Look(u) PROVE v.file \in DOMAIN rows'
    BY <1>1, <1>2, <2>1 DEF Look, Same, fileVars
  <2>2. ASSUME NEW u \in uploads, InsertRow(u) PROVE v.file \in DOMAIN rows'
    BY <1>1, <1>2, <2>2 DEF InsertRow
  <2>3. ASSUME NEW u \in uploads, PutObject(u) PROVE FALSE
    BY <1>1, <1>2, <2>3 DEF PutObject
  <2>4. ASSUME NEW j \in jobs, Download(j) PROVE FALSE
    BY <1>2, <2>4 DEF Download
  <2>5. ASSUME NEW s \in Session, NEW c \in Sum, UploadRoute(s, c) PROVE FALSE
    BY <1>2, <2>5 DEF UploadRoute
  <2>6. \E u \in uploads' : u \notin uploads
    BY <1>2
  <2>7. QED
    BY <2>1, <2>2, <2>3, <2>4, <2>5, <2>6, UploadSteps DEF Save, UploadThrows, RemoveObject
<1>3. QED
  BY <1>2

\* A row says where its file belongs.
LEMMA RowsHold == ASSUME Types, NewInv, TellInv, RowMsg, [StorageNext]_storageVars
                  PROVE TellInv' /\ RowMsg'
<1>1. \A f \in DOMAIN rows : f \in 1..stored /\ first'[f] = first[f]
  BY StoredSteps DEF Types, FileTypes
<1>2. UNCHANGED <<of, sum>> /\ sessions' \subseteq sessions
  BY FixedStep, StoredSteps
<1>3. ASSUME NEW u \in uploads, InsertRow(u) PROVE TellInv' /\ RowMsg'
  <2>1. IsUpload(u) /\ first'[u.file] = u.msg
    BY <1>3 DEF Types, UploadTypes, NewInv, Inserting, InsertRow
  <2>2. QED
    BY <1>1, <1>2, <1>3, <2>1 DEF InsertRow, FileRow, Exists, IsUpload, TellInv, RowMsg
<1>4. ASSUME NEW p \in purges, DeleteRow(p) PROVE TellInv' /\ RowMsg'
  BY <1>1, <1>2, <1>4 DEF DeleteRow, TellInv, RowMsg
<1>5. ASSUME NEW p \in purges, PurgeEnds(p) PROVE TellInv' /\ RowMsg'
  BY <1>1, <1>2, <1>5 DEF PurgeEnds, Exists, TellInv, RowMsg, Types, FileTypes
<1>6. CASE UNCHANGED rows
  BY <1>1, <1>2, <1>6 DEF TellInv, RowMsg
<1>7. QED
  BY <1>3, <1>4, <1>5, <1>6, RowSteps

\* What is safe was safe before: asking and ending are for good.
LEMMA SafeStays ==
    ASSUME Types, [StorageNext]_storageVars, NEW f \in 1..stored, Safe(f)' PROVE Safe(f)
BY StoredSteps, FixedStep DEF Safe

\* Nobody deletes a file that is safe.
LEMMA SafeFromPurges ==
    ASSUME Types, TellInv, RowMsg, SafeInv, [StorageNext]_storageVars, NEW p \in purges',
          NEW f \in Dealt(p) \ {0}
    PROVE  ~Safe(f)'
<1>1. \A r \in purges : Dealt(r) \subseteq 0..stored
  BY MediaTypes DEF Types, PurgeTypes, IsPurge, Dealt, HistoryTypes
<1>2. ASSUME NEW r \in purges, f \in Dealt(r) PROVE ~Safe(f)'
  BY <1>1, <1>2, SafeStays DEF SafeInv
<1>3. CASE f \in DOMAIN rows /\ DeleteRoute(f)
  BY <1>3 DEF DeleteRoute, Safe
<1>4. CASE DeleteSession(p.by) /\ f \in Linked(p.by)
  BY <1>4, FixedStep DEF DeleteSession, Linked, Exists, Safe, RowMsg
<1>5. CASE CleanUp /\ f \in Orphans
  <2>1. first'[f] = first[f]
    BY <1>5, StoredSteps DEF Orphans, Types, FileTypes
  <2>2. QED
    BY <1>5, <2>1, FixedStep DEF CleanUp, Orphans, Safe, TellInv
<1>6. QED
  BY <1>2, <1>3, <1>4, <1>5, DealtSteps

LEMMA SafeHolds == ASSUME Types, NewInv, TellInv, RowMsg, SafeInv, [StorageNext]_storageVars
                   PROVE SafeInv'
<1>1. \A p \in purges' : \A f \in Dealt(p) \ {0} : ~Safe(f)'
  BY SafeFromPurges
<1>2. ASSUME NEW f \in DOMAIN rows', Safe(f)' PROVE f \in objects'
  <2>1. CASE f \in DOMAIN rows
    <3>1. f \in 1..stored /\ Safe(f) /\ f \in objects
      BY <1>2, <2>1, SafeStays DEF Types, FileTypes, SafeInv
    <3>2. \A p \in purges : p.at # f
      BY <3>1 DEF SafeInv, Dealt
    <3>3. QED
      BY <3>1, <3>2, ObjectSteps DEF PutObject, RemoveObject
  <2>2. CASE f \notin DOMAIN rows
    <3>1. PICK u \in uploads : InsertRow(u) /\ f = u.file
      BY <1>2, <2>2, NewRows
    <3>2. QED
      BY <3>1 DEF InsertRow, NewInv, Inserting
  <2>3. QED
    BY <2>1, <2>2
<1>3. ASSUME NEW f, Shown(f)' PROVE Shown(f) \/ f \in DOMAIN rows'
  <2>1. ASSUME NEW u \in uploads', u.step = "save" PROVE u \in uploads \/ u.file \in DOMAIN rows'
    BY <2>1, SaveSteps
  <2>2. ASSUME NEW m \in Message, info'[m].status = "downloaded"
        PROVE  info'[m] = info[m] \/ Shown(info'[m].file)
    <3>1. ASSUME NEW u \in uploads, Save(u) PROVE info'[m] = info[m] \/ Shown(info'[m].file)
      BY <3>1 DEF Save, Shown, Types, InfoTypes
    <3>2. ASSUME NEW n \in Message, RetryRoute(n) PROVE info'[m] = info[m]
      BY <2>2, <3>2 DEF RetryRoute, Types, InfoTypes
    <3>3. QED
      BY <3>1, <3>2, InfoSteps
  <2>3. QED
    BY <1>3, <2>1, <2>2 DEF Shown
<1>4. ~Shown(0)'
  BY <1>3, FilesTyped DEF SafeInv, FileTypes
<1>5. ASSUME NEW f \in 1..stored', Shown(f)', Safe(f)' PROVE f \in DOMAIN rows'
  <2>1. CASE Shown(f)
    <3>1. f \in 1..stored
      BY <1>5, <2>1, MediaTypes DEF Shown, SafeInv, Types, UploadTypes, IsUpload, InfoTypes,
         HistoryTypes
    <3>2. Safe(f) /\ f \in DOMAIN rows
      BY <1>5, <2>1, <3>1, SafeStays DEF SafeInv
    <3>3. \A p \in purges : p.at # f
      BY <3>1, <3>2 DEF SafeInv, Dealt
    <3>4. QED
      BY <3>2, <3>3, RowSteps DEF InsertRow, DeleteRow, PurgeEnds
  <2>2. QED
    BY <1>3, <1>5, <2>1
<1>6. QED
  BY <1>1, <1>2, <1>4, <1>5 DEF SafeInv

LEMMA InitKept == StorageInit => KeptInv
<1>. SUFFICES ASSUME StorageInit PROVE KeptInv
  OBVIOUS
<1>1. Types
  BY MediaTypes DEF StorageInit, Types, FixedTypes, InfoTypes, JobTypes, UploadTypes, FileTypes,
     PurgeTypes, HistoryTypes, Unasked, Job, Someone
<1>2. NewInv /\ TellInv /\ RowMsg /\ SafeInv
  BY DEF StorageInit, Unasked, NewInv, Inserting, TellInv, RowMsg, SafeInv, Shown
<1>3. QED
  BY <1>1, <1>2 DEF KeptInv

LEMMA KeptHolds == KeptInv /\ [StorageNext]_storageVars => KeptInv'
BY TypesHold, NewHolds, RowsHold, SafeHolds DEF KeptInv

LEMMA KeptIsDue == KeptInv => MediaInv
<1>. SUFFICES ASSUME KeptInv PROVE MediaInv
  OBVIOUS
<1>1. StorageTypeOK
  <2>1. stored \in 0..MaxFiles /\ MaxFiles \in Nat /\ DownloadAttempts \in Nat \ {0}
    BY MediaTypes DEF KeptInv, Types, HistoryTypes
  <2>2. info \in [Message -> [status : {"none", "downloading", "downloaded"}, file : 0..MaxFiles]]
    BY <2>1 DEF KeptInv, Types, InfoTypes
  <2>3. \A j \in jobs : j.msg \in Message /\ j.made \in 0..DownloadAttempts
    BY <2>1 DEF KeptInv, Types, JobTypes
  <2>4. QED
    BY <2>2, <2>3 DEF KeptInv, Types, FileTypes, UploadTypes, IsUpload, StorageTypeOK
<1>2. ASSUME NEW m \in Message, of[m] \in sessions \ ended, info[m].status = "downloaded",
             info[m].file \notin asked, first[info[m].file] = m
      PROVE  Present(info[m].file) /\ rows[info[m].file].sum = sum[m]
  <2>1. info[m].file \in 1..stored /\ Shown(info[m].file)
    BY <1>2, MediaTypes DEF KeptInv, Types, InfoTypes, HistoryTypes, SafeInv, Shown
  <2>2. Safe(info[m].file)
    BY <1>2, MediaTypes DEF Safe, KeptInv, Types
  <2>3. QED
    BY <1>2, <2>1, <2>2 DEF KeptInv, SafeInv, TellInv, Present, Safe
<1>3. DownloadKept
  BY <1>2 DEF DownloadKept
<1>4. QED
  BY <1>1, <1>3 DEF MediaInv

-----------------------------------------------------------------------------
(* Objects without rows, rows without objects, rows without sessions.      *)

\* What stopped halfway, or was stored late, is so for good.
LEMMA TornSteps == [StorageNext]_storageVars => torn \subseteq torn' /\ late \subseteq late'
BY DEF StorageNext, Storing, Deleting, storageVars, workVars, fileVars, histVars, RetryRoute,
   RetryQueued, Download, UploadRoute, Look, InsertRow, Save, UploadThrows, PutObject,
   DeleteRoute, DeleteSession, CleanUp, Pick, PurgeFails, PurgeDies, DeleteRow, RemoveObject,
   PurgeEnds

\* How a purge goes on or ends.
LEMMA GoneSteps ==
    ASSUME [StorageNext]_storageVars, NEW p \in purges \ purges'
    PROVE  \/ \E f \in p.todo : Pick(p, f)
           \/ RemoveObject(p) \/ DeleteRow(p) \/ PurgeFails(p) \/ PurgeEnds(p) \/ PurgeDies(p)
<1>1. ASSUME NEW r \in purges, r # p,
             \/ \E f \in r.todo : Pick(r, f)
             \/ RemoveObject(r) \/ DeleteRow(r) \/ PurgeFails(r) \/ PurgeEnds(r) \/ PurgeDies(r)
      PROVE  FALSE
  BY <1>1 DEF Pick, RemoveObject, DeleteRow, PurgeFails, PurgeEnds, PurgeDies, Goes
<1>2. QED
  BY <1>1, PurgeSteps DEF DeleteRoute, DeleteSession, CleanUp, Starts

\* A purge is at a row once it has removed the object.
LEMMA RowSteppers ==
    ASSUME Types, [StorageNext]_storageVars, NEW q \in purges' \ purges, q.step = "row"
    PROVE  \E p \in purges : RemoveObject(p) /\ q = [p EXCEPT !.step = "row"]
<1>1. ASSUME NEW by, NEW files PROVE ~Starts(Purge(by, files))
  BY <1>1 DEF Starts, Purge
<1>2. ASSUME NEW p \in purges, NEW r, Goes(p, r) PROVE q = r
  BY <1>2 DEF Goes
<1>3. ASSUME NEW p \in purges, NEW f \in p.todo, Pick(p, f) PROVE FALSE
  <2>1. [p EXCEPT !.todo = @ \ {f}, !.at = f, !.step = "object"].step = "object"
    BY DEF Types, PurgeTypes, IsPurge
  <2>2. [p EXCEPT !.todo = @ \ {f}].step = p.step
    BY DEF Types, PurgeTypes, IsPurge
  <2>3. QED
    BY <1>2, <1>3, <2>1, <2>2 DEF Pick
<1>4. ASSUME NEW p \in purges, DeleteRow(p) \/ PurgeFails(p) PROVE FALSE
  <2>1. [p EXCEPT !.step = "next", !.at = 0].step = "next"
    BY DEF Types, PurgeTypes, IsPurge
  <2>2. QED
    BY <1>2, <1>4, <2>1 DEF DeleteRow, PurgeFails
<1>5. QED
  BY <1>1, <1>3, <1>4, PurgeSteps DEF DeleteRoute, DeleteSession, CleanUp, RemoveObject, Goes,
     PurgeEnds, PurgeDies

LEMMA HalfHolds == ASSUME Types, NewInv, HalfInv, [StorageNext]_storageVars PROVE HalfInv'
<1>1. torn \subseteq torn'
  BY TornSteps
<1>2. ASSUME NEW f \in objects' \ (DOMAIN rows' \cup torn') PROVE \E u \in Inserting' : u.file = f
  <2>1. ASSUME NEW u \in Inserting, u.file = f PROVE u \in Inserting'
    <3>1. ASSUME NEW x \in Inserting, InsertRow(x), Inserting' = Inserting \ {x} PROVE x # u
      BY <1>2, <2>1, <3>1 DEF InsertRow
    <3>2. ASSUME NEW x \in Inserting, UploadThrows(x), Inserting' = Inserting \ {x} PROVE x # u
      BY <1>2, <2>1, <3>2 DEF UploadThrows, Inserting
    <3>3. QED
      BY <2>1, <3>1, <3>2, InsertSteps
  <2>2. CASE f \in objects
    <3>1. CASE f \in DOMAIN rows
      <4>1. PICK p \in purges : DeleteRow(p) /\ f = p.at
        BY <1>2, <3>1, RowSteps DEF InsertRow, DeleteRow, PurgeEnds
      <4>2. QED
        BY <2>2, <4>1 DEF DeleteRow, Removed, HalfInv
    <3>2. CASE f \notin DOMAIN rows
      BY <1>1, <1>2, <2>1, <2>2, <3>2 DEF HalfInv
    <3>3. QED
      BY <3>1, <3>2
  <2>3. CASE f \notin objects
    <3>1. PICK x \in uploads : PutObject(x) /\ f = stored'
      BY <1>2, <2>3, ObjectSteps DEF PutObject, RemoveObject
    <3>2. [x EXCEPT !.step = "insert", !.file = stored'].file = stored'
      BY DEF Types, UploadTypes, IsUpload
    <3>3. [x EXCEPT !.step = "insert", !.file = stored'] \in Inserting'
      BY <3>1, <3>2 DEF PutObject, Moves, Inserting, Types, UploadTypes, IsUpload
    <3>4. QED
      BY <3>1, <3>2, <3>3
  <2>4. QED
    BY <2>2, <2>3
<1>3. ASSUME NEW f \in DOMAIN rows' \ (objects' \cup torn')
      PROVE  \E p \in purges' : p.at = f /\ p.step = "row"
  <2>1. CASE f \in DOMAIN rows /\ f \in objects
    <3>1. PICK p \in purges : RemoveObject(p) /\ f = p.at
      BY <1>3, <2>1, ObjectSteps DEF PutObject, RemoveObject
    <3>2. [p EXCEPT !.step = "row"].at = f /\ [p EXCEPT !.step = "row"].step = "row"
      BY <3>1 DEF Types, PurgeTypes, IsPurge
    <3>3. QED
      BY <3>1, <3>2 DEF RemoveObject, Goes
  <2>2. CASE f \in DOMAIN rows /\ f \notin objects
    <3>1. PICK p \in purges : p.at = f /\ p.step = "row"
      BY <1>1, <1>3, <2>2 DEF HalfInv
    <3>2. ~DeleteRow(p) /\ ~PurgeFails(p) /\ ~PurgeDies(p)
      BY <1>3, <3>1 DEF DeleteRow, PurgeFails, PurgeDies
    <3>3. p \in purges'
      BY <3>1, <3>2, GoneSteps DEF Pick, RemoveObject, PurgeEnds
    <3>4. QED
      BY <3>1, <3>3
  <2>3. CASE f \notin DOMAIN rows
    <3>1. PICK u \in uploads : InsertRow(u) /\ f = u.file
      BY <1>3, <2>3, NewRows
    <3>2. QED
      BY <1>3, <3>1 DEF InsertRow, NewInv, Inserting
  <2>4. QED
    BY <2>1, <2>2, <2>3
<1>4. ASSUME NEW p \in purges', p.step = "row" PROVE p.at \notin objects'
  <2>1. CASE p \in purges
    <3>1. p.at \in 0..stored /\ p.at \notin objects /\ stored \in Nat
      BY <1>4, <2>1, MediaTypes DEF HalfInv, Types, PurgeTypes, IsPurge, HistoryTypes
    <3>2. CASE \E u \in uploads : PutObject(u)
      BY <3>1, <3>2 DEF PutObject
    <3>3. QED
      BY <3>1, <3>2, ObjectSteps DEF RemoveObject
  <2>2. CASE p \notin purges
    <3>1. PICK r \in purges : RemoveObject(r) /\ p = [r EXCEPT !.step = "row"]
      BY <1>4, <2>2, RowSteppers
    <3>2. QED
      BY <3>1 DEF RemoveObject, Types, PurgeTypes, IsPurge
  <2>3. QED
    BY <2>1, <2>2
<1>5. QED
  BY <1>2, <1>3, <1>4 DEF HalfInv

\* A purge deals with a row until the row is gone, or it failed.
LEMMA StillDealt ==
    ASSUME Types, [StorageNext]_storageVars, NEW q \in purges' \ purges
    PROVE  \/ q.by \in {"user", "script"}
           \/ DeleteSession(q.by) /\ q.by \in sessions /\ Linked(q.by) \subseteq Dealt(q)
           \/ \E p \in purges :
                  /\ p.by = q.by
                  /\ \A f \in Dealt(p) \ {0} : f \in Dealt(q) \/ f \in torn'
                        \/ f \notin DOMAIN rows'
<1>1. ASSUME NEW by, NEW files, Starts(Purge(by, files))
      PROVE  q.by = by /\ files \subseteq Dealt(q)
  BY <1>1 DEF Starts, Purge, Dealt
<1>2. ASSUME NEW p \in purges, NEW r, Goes(p, r) PROVE q = r
  BY <1>2 DEF Goes
<1>3. ASSUME NEW p \in purges, NEW f \in p.todo, Pick(p, f)
      PROVE  /\ p.by = q.by
             /\ \A g \in Dealt(p) \ {0} : g \in Dealt(q) \/ g \notin DOMAIN rows'
  <2>1. p.at = 0 /\ UNCHANGED rows
    BY <1>3 DEF Pick, Types, PurgeTypes, IsPurge, fileVars
  <2>2. CASE f \in DOMAIN rows
    <3>1. q = [p EXCEPT !.todo = @ \ {f}, !.at = f, !.step = "object"]
      BY <1>2, <1>3, <2>2 DEF Pick
    <3>2. q.by = p.by /\ q.todo = p.todo \ {f} /\ q.at = f
      BY <3>1 DEF Types, PurgeTypes, IsPurge
    <3>3. QED
      BY <2>1, <3>2 DEF Dealt
  <2>3. CASE f \notin DOMAIN rows
    <3>1. q = [p EXCEPT !.todo = @ \ {f}]
      BY <1>2, <1>3, <2>3 DEF Pick
    <3>2. q.by = p.by /\ q.todo = p.todo \ {f}
      BY <3>1 DEF Types, PurgeTypes, IsPurge
    <3>3. QED
      BY <2>1, <2>3, <3>2 DEF Dealt
  <2>4. QED
    BY <2>2, <2>3
<1>4. ASSUME NEW p \in purges, RemoveObject(p) PROVE p.by = q.by /\ Dealt(p) = Dealt(q)
  <2>1. q = [p EXCEPT !.step = "row"]
    BY <1>2, <1>4 DEF RemoveObject
  <2>2. QED
    BY <2>1 DEF Dealt, Types, PurgeTypes, IsPurge
<1>5. ASSUME NEW p \in purges, DeleteRow(p) \/ PurgeFails(p)
      PROVE  /\ p.by = q.by
             /\ \A g \in Dealt(p) \ {0} : g \in Dealt(q) \/ g \in torn' \/ g \notin DOMAIN rows'
  <2>1. q = [p EXCEPT !.step = "next", !.at = 0]
    BY <1>2, <1>5 DEF DeleteRow, PurgeFails
  <2>2. q.by = p.by /\ q.todo = p.todo
    BY <2>1 DEF Types, PurgeTypes, IsPurge
  <2>3. p.at \in torn' \/ p.at \notin DOMAIN rows'
    BY <1>5 DEF DeleteRow, PurgeFails
  <2>4. QED
    BY <2>2, <2>3 DEF Dealt
<1>7. ASSUME NEW f \in DOMAIN rows, DeleteRoute(f) PROVE q.by = "user"
  BY <1>1, <1>7 DEF DeleteRoute
<1>8. ASSUME NEW s \in Session, DeleteSession(s)
      PROVE q.by = s /\ s \in sessions /\ Linked(s) \subseteq Dealt(q)
  BY <1>1, <1>8 DEF DeleteSession
<1>9. CleanUp => q.by = "script"
  BY <1>1 DEF CleanUp
<1>10. QED
  BY <1>3, <1>4, <1>5, <1>7, <1>8, <1>9, PurgeSteps DEF PurgeEnds, PurgeDies

LEMMA GoneHolds == ASSUME KeptInv, GoneInv, [StorageNext]_storageVars PROVE GoneInv'
<1>. USE DEF KeptInv
<1>1. torn \subseteq torn' /\ late \subseteq late' /\ FileTypes' /\ UNCHANGED of
  BY TornSteps, FilesTyped, FixedStep
<1>2. ASSUME NEW f \in DOMAIN rows', Kept(f)', f \in DOMAIN rows
      PROVE  Kept(f) /\ rows'[f].session = rows[f].session /\ f # 0
  <2>1. first'[f] = first[f] /\ f # 0
    BY <1>2, StoredSteps DEF Types, FileTypes
  <2>2. rows'[f].session = rows[f].session
    <3>1. ASSUME NEW u \in uploads, InsertRow(u) PROVE u.file # f
      BY <1>2, <3>1 DEF InsertRow, NewInv, Inserting
    <3>2. ASSUME NEW p \in purges, PurgeEnds(p) PROVE rows'[f].session = rows[f].session
      BY <1>2, <3>2 DEF PurgeEnds, Types, FileTypes
    <3>3. QED
      BY <1>2, <3>1, <3>2, RowSteps DEF InsertRow, DeleteRow
  <2>3. QED
    BY <1>1, <1>2, <2>1, <2>2 DEF Kept
<1>3. ASSUME NEW f \in DOMAIN rows', Kept(f)', f \notin DOMAIN rows
      PROVE  rows'[f].session \in sessions' /\ UNCHANGED purges /\ ~Listed(rows'[f].session)
  <2>1. PICK u \in uploads : InsertRow(u) /\ f = u.file
    BY <1>3, NewRows
  <2>2. QED
    BY <1>3, <2>1 DEF InsertRow, FileRow, Kept
<1>4. ASSUME NEW f \in DOMAIN rows', Kept(f)' PROVE rows'[f].session \in sessions'
  <2>1. CASE f \in DOMAIN rows
    <3>1. Kept(f) /\ rows'[f].session = rows[f].session /\ rows[f].session \in sessions /\ f # 0
      BY <1>2, <1>4, <2>1 DEF GoneInv
    <3>2. ASSUME NEW p \in purges, PurgeEnds(p) PROVE p.by # rows[f].session
      BY <2>1, <3>1, <3>2 DEF PurgeEnds, GoneInv, Dealt, Types, PurgeTypes, IsPurge
    <3>3. QED
      BY <3>1, <3>2, SessionSteps DEF PurgeEnds
  <2>2. QED
    BY <1>3, <1>4, <2>1
<1>5. ASSUME NEW p \in purges', NEW f \in DOMAIN rows', Kept(f)', rows'[f].session = p.by
      PROVE  f \in Dealt(p)
  <2>1. CASE f \notin DOMAIN rows
    BY <1>3, <1>5, <2>1 DEF Listed
  <2>2. CASE f \in DOMAIN rows /\ p \in purges
    BY <1>2, <1>5, <2>2 DEF GoneInv
  <2>3. CASE f \in DOMAIN rows /\ p \notin purges
    <3>1. Kept(f) /\ rows[f].session = p.by /\ p.by \in Session /\ f # 0
      BY <1>2, <1>5, <2>3 DEF Types, FileTypes
    <3>2. CASE p.by \in sessions /\ Linked(p.by) \subseteq Dealt(p)
      <4>1. first[f] \in Message /\ of[first[f]] = p.by
        BY <2>3, <3>1, MediaTypes DEF Kept, TellInv, Types, HistoryTypes, FileTypes, Someone
      <4>2. f \in Linked(p.by)
        BY <2>3, <3>1, <3>2, <4>1 DEF Kept, TellInv, Linked, Exists
      <4>3. QED
        BY <3>2, <4>2
    <3>3. ASSUME NEW r \in purges, r.by = p.by,
                 \A g \in Dealt(r) \ {0} : g \in Dealt(p) \/ g \in torn' \/ g \notin DOMAIN rows'
          PROVE  f \in Dealt(p)
      BY <1>5, <2>3, <3>1, <3>3 DEF GoneInv, Kept
    <3>4. p.by \notin {"user", "script"}
      BY <3>1, MediaTypes DEF Types
    <3>5. QED
      BY <2>3, <3>2, <3>3, <3>4, StillDealt
  <2>4. QED
    BY <2>1, <2>2, <2>3
<1>6. QED
  BY <1>4, <1>5 DEF GoneInv

-----------------------------------------------------------------------------
(* The theorems.                                                           *)

\* The ranges, and: media that a message shows can be fetched, with its content, unless
\* somebody deleted the file or it was stored for another message (MediaService.upload,
\* deleteFile and deleteSessionMediaFiles, media.service.ts).
THEOREM MediaInvHolds == StorageSpec => []MediaInv
<1>1. StorageInit => KeptInv
  BY InitKept
<1>2. KeptInv /\ [StorageNext]_storageVars => KeptInv'
  BY KeptHolds
<1>3. KeptInv => MediaInv
  BY KeptIsDue
<1>4. QED
  BY <1>1, <1>2, <1>3, PTL DEF StorageSpec

LEMMA InitDue == StorageInit => IInv
BY InitKept DEF IInv, StorageInit, HalfInv, GoneInv

LEMMA DueHolds == IInv /\ [StorageNext]_storageVars => IInv'
BY KeptHolds, HalfHolds, GoneHolds DEF IInv, KeptInv

LEMMA DueIsNone == IInv => NoneLeft
BY DEF IInv, HalfInv, GoneInv, Inserting, Kept, NoneLeft

\* When nothing is under way, MinIO has exactly the objects that have rows, and deleted
\* sessions have left none, but for what stopped halfway or was stored meanwhile
\* (deleteFile, deleteSessionMediaFiles).
THEOREM NoneLeftHolds == StorageSpec => []NoneLeft
<1>1. StorageInit => IInv
  BY InitDue
<1>2. IInv /\ [StorageNext]_storageVars => IInv'
  BY DueHolds
<1>3. IInv => NoneLeft
  BY DueIsNone
<1>4. QED
  BY <1>1, <1>2, <1>3, PTL DEF StorageSpec
=============================================================================
