--------------------------- MODULE CatalogProofs ---------------------------
(***************************************************************************)
(* Theorems about Catalog, for tables of any size.                         *)
(***************************************************************************)
EXTENDS Catalog, SequenceTheorems, TLAPS

-----------------------------------------------------------------------------
(* The changelog as a sequence. *)

\* Appending to the changelog keeps its entries and adds one.
LEMMA ChangelogAppend ==
    ASSUME TypeOK, NEW g \in Editgroup, changelog' = Append(changelog, g)
    PROVE  /\ changelog' \in Seq(Editgroup)
           /\ Len(changelog) \in Nat
           /\ DOMAIN changelog = 1..Len(changelog)
           /\ DOMAIN changelog' = 1..(Len(changelog) + 1)
           /\ \A k \in DOMAIN changelog : changelog'[k] = changelog[k]
           /\ changelog'[Len(changelog) + 1] = g
BY DEF TypeOK

\* A field of an existing row is a revision, an ident or NULL.
LEMMA RowFields ==
    ASSUME TypeOK
    PROVE  /\ \A i \in Ident : ident[i] # NULL =>
                 /\ ident[i] \in IdentRow
                 /\ ident[i].is_live \in BOOLEAN
                 /\ ident[i].rev_id \in Rev \cup {NULL}
                 /\ ident[i].redirect_id \in Ident \cup {NULL}
           /\ \A g \in Editgroup, i \in Ident : edit[g][i] # NULL =>
                 /\ edit[g][i] \in EditRow
                 /\ edit[g][i].rev_id \in Rev \cup {NULL}
                 /\ edit[g][i].redirect_id \in Ident \cup {NULL}
BY DEF TypeOK, IdentRow, EditRow

-----------------------------------------------------------------------------
(* Type correctness. *)

\* INSERT INTO <entity>_edit keeps the edit table well-formed.
LEMMA InsertEditType ==
    ASSUME TypeOK, NEW g \in Editgroup, NEW i \in Ident, NEW row \in EditRow,
           InsertEdit(g, i, row)
    PROVE  edit' \in [Editgroup -> [Ident -> EditRow \cup {NULL}]]
BY DEF TypeOK, InsertEdit

\* prev_rev is a revision or NULL, never an ident.
LEMMA PrevRevType ==
    ASSUME TypeOK, NEW i \in Ident, ident[i] # NULL
    PROVE  PrevRev(i) \in Rev \cup {NULL}
BY RowFields DEF PrevRev

\* Accepting an editgroup writes well-formed ident rows.
LEMMA AcceptedTableType ==
    ASSUME TypeOK, NEW g \in Editgroup
    PROVE  /\ ApplyEdits(g, ident) \in [Ident -> IdentRow \cup {NULL}]
           /\ UpdateRedirects(g, ApplyEdits(g, ident)) \in [Ident -> IdentRow \cup {NULL}]
<1>1. ApplyEdits(g, ident) \in [Ident -> IdentRow \cup {NULL}]
  BY RowFields DEF ApplyEdits, TypeOK, IdentRow
<1>2. ASSUME NEW table \in [Ident -> IdentRow \cup {NULL}], NEW i \in Ident,
             RedirectsToEdited(g, table, i)
      PROVE  [table[i] EXCEPT !.rev_id = edit[g][table[i].redirect_id].rev_id] \in IdentRow
  <2>1. table[i] \in IdentRow /\ table[i].redirect_id \in Ident
    BY <1>2 DEF RedirectsToEdited, IdentRow
  <2>2. edit[g][table[i].redirect_id].rev_id \in Rev \cup {NULL}
    BY <1>2, <2>1, RowFields DEF RedirectsToEdited
  <2> QED
    BY <2>1, <2>2 DEF IdentRow
<1>3. ASSUME NEW table \in [Ident -> IdentRow \cup {NULL}]
      PROVE  UpdateRedirects(g, table) \in [Ident -> IdentRow \cup {NULL}]
  BY <1>2, <1>3 DEF UpdateRedirects
<1> QED
  BY <1>1, <1>3

\* The tables start well-formed.
LEMMA TypeInit == Init => TypeOK
BY DEF Init, TypeOK

\* Every call keeps the tables well-formed.
LEMMA TypeNext == TypeOK /\ [Next]_vars => TypeOK'
<1> SUFFICES ASSUME TypeOK, [Next]_vars PROVE TypeOK'
  OBVIOUS
<1> USE DEF TypeOK
<1>1. ASSUME NEW g \in Editgroup, CreateEditgroup(g) PROVE TypeOK'
  BY <1>1 DEF CreateEditgroup, EditgroupRow
<1>2. ASSUME NEW g \in Editgroup, NEW i \in Ident, EditStep(g, i) PROVE TypeOK'
  <2>1. ASSUME NEW r \in Rev, CreateEntity(g, i, r) PROVE TypeOK'
    <3>1. [rev_id |-> r, redirect_id |-> NULL, prev_rev |-> NULL] \in EditRow
      BY DEF EditRow
    <3>2. edit' \in [Editgroup -> [Ident -> EditRow \cup {NULL}]]
      BY <2>1, <3>1, InsertEditType DEF CreateEntity
    <3> QED BY <2>1, <3>2 DEF CreateEntity, IdentRow
  <2>2. ASSUME NEW r \in Rev, UpdateEntity(g, i, r) PROVE TypeOK'
    <3>1. [rev_id |-> r, redirect_id |-> NULL, prev_rev |-> PrevRev(i)] \in EditRow
      BY <2>2, PrevRevType DEF EditRow, UpdateEntity
    <3>2. edit' \in [Editgroup -> [Ident -> EditRow \cup {NULL}]]
      BY <2>2, <3>1, InsertEditType DEF UpdateEntity
    <3> QED BY <2>2, <3>2 DEF UpdateEntity
  <2>3. ASSUME NEW r \in Rev, RevertEntity(g, i, r) PROVE TypeOK'
    <3>1. [rev_id |-> r, redirect_id |-> NULL, prev_rev |-> PrevRev(i)] \in EditRow
      BY <2>3, PrevRevType DEF EditRow, RevertEntity
    <3>2. edit' \in [Editgroup -> [Ident -> EditRow \cup {NULL}]]
      BY <2>3, <3>1, InsertEditType DEF RevertEntity
    <3> QED BY <2>3, <3>2 DEF RevertEntity
  <2>4. ASSUME NEW target \in Ident, RedirectEntity(g, i, target) PROVE TypeOK'
    <3>1. [rev_id |-> ident[target].rev_id, redirect_id |-> target,
           prev_rev |-> PrevRev(i)] \in EditRow
      BY <2>4, PrevRevType, RowFields DEF EditRow, RedirectEntity, ValidTarget
    <3>2. edit' \in [Editgroup -> [Ident -> EditRow \cup {NULL}]]
      BY <2>4, <3>1, InsertEditType DEF RedirectEntity
    <3> QED BY <2>4, <3>2 DEF RedirectEntity
  <2>5. ASSUME DeleteEntity(g, i) PROVE TypeOK'
    <3>1. ident[i] # NULL
      BY <2>5 DEF DeleteEntity, State
    <3>2. [rev_id |-> NULL, redirect_id |-> NULL, prev_rev |-> ident[i].rev_id] \in EditRow
      BY <3>1, RowFields DEF EditRow
    <3>3. edit' \in [Editgroup -> [Ident -> EditRow \cup {NULL}]]
      BY <2>5, <3>2, InsertEditType DEF DeleteEntity
    <3> QED BY <2>5, <3>3 DEF DeleteEntity
  <2>6. ASSUME DeleteEdit(g, i) PROVE TypeOK'
    BY <2>6 DEF DeleteEdit
  <2> QED
    BY <1>2, <2>1, <2>2, <2>3, <2>4, <2>5, <2>6 DEF EditStep
<1>3. ASSUME NEW g \in Editgroup, AcceptEditgroup(g) PROVE TypeOK'
  <2>1. ident' \in [Ident -> IdentRow \cup {NULL}]
    BY <1>3, AcceptedTableType DEF AcceptEditgroup
  <2>2. editgroup' \in [Editgroup -> EditgroupRow \cup {NULL}]
    BY <1>3 DEF AcceptEditgroup, EditgroupRow
  <2>3. changelog' \in Seq(Editgroup)
    BY <1>3 DEF AcceptEditgroup
  <2> QED
    BY <1>3, <2>1, <2>2, <2>3 DEF AcceptEditgroup
<1>4. ASSUME NEW g \in Editgroup, NEW batch \in Batches, AutoBatch(g, batch) PROVE TypeOK'
  <2>1. \A i \in Ident : i \in DOMAIN batch => batch[i] \in Rev
    BY DEF Batches
  <2>2. {batch[i] : i \in DOMAIN batch} \subseteq Rev
    BY DEF Batches
  <2>3. ident' \in [Ident -> IdentRow \cup {NULL}]
    BY <1>4, <2>1 DEF AutoBatch, IdentRow
  <2>4. edit' \in [Editgroup -> [Ident -> EditRow \cup {NULL}]]
    BY <1>4, <2>1 DEF AutoBatch, EditRow
  <2> QED
    BY <1>4, <2>2, <2>3, <2>4 DEF AutoBatch, EditgroupRow
<1>5. CASE UNCHANGED vars
  BY <1>5 DEF vars
<1> QED
  BY <1>1, <1>2, <1>3, <1>4, <1>5 DEF Next

\* Every table stays well-formed, through every call: a foreign key never
\* holds anything but a row identifier of its table or NULL.
THEOREM TypeCorrect == Spec => []TypeOK
BY TypeInit, TypeNext, PTL DEF Spec

-----------------------------------------------------------------------------
(* What a step does to the tables. *)

\* The row of i after g is accepted, column by column.
LEMMA AcceptedRow ==
    ASSUME TypeOK, NEW g \in Editgroup, AcceptEditgroup(g), NEW i \in Ident
    PROVE  /\ edit[g][i] # NULL =>
                 /\ ident'[i] # NULL
                 /\ ident'[i].is_live
                 /\ ident'[i].redirect_id = edit[g][i].redirect_id
           /\ edit[g][i] = NULL =>
                 /\ ident'[i] = NULL <=> ident[i] = NULL
                 /\ ident'[i] # NULL => /\ ident'[i].is_live = ident[i].is_live
                                        /\ ident'[i].redirect_id = ident[i].redirect_id
           /\ ident'[i] # NULL =>
                 LET target == ident'[i].redirect_id IN
                 ident'[i].rev_id = IF target # NULL /\ edit[g][target] # NULL
                                    THEN edit[g][target].rev_id
                                    ELSE IF edit[g][i] # NULL
                                         THEN edit[g][i].rev_id
                                         ELSE ident[i].rev_id
<1> DEFINE table == ApplyEdits(g, ident)
<1>1. table \in [Ident -> IdentRow \cup {NULL}] /\ ident' \in [Ident -> IdentRow \cup {NULL}]
  BY AcceptedTableType DEF AcceptEditgroup
<1>2. /\ edit[g][i] # NULL =>
            /\ table[i] # NULL
            /\ table[i].is_live
            /\ table[i].rev_id = edit[g][i].rev_id
            /\ table[i].redirect_id = edit[g][i].redirect_id
      /\ edit[g][i] = NULL => table[i] = ident[i]
  <2>1. edit[g][i] # NULL => table[i] \in IdentRow
    BY RowFields DEF ApplyEdits, IdentRow
  <2> QED
    BY <2>1, NullAssumption DEF ApplyEdits, IdentRow
<1>3. ident'[i] = IF RedirectsToEdited(g, table, i)
                  THEN [table[i] EXCEPT !.rev_id = edit[g][table[i].redirect_id].rev_id]
                  ELSE table[i]
  BY DEF AcceptEditgroup, UpdateRedirects
<1>4. RedirectsToEdited(g, table, i) =>
            /\ ident'[i] # NULL
            /\ ident'[i].is_live = table[i].is_live
            /\ ident'[i].redirect_id = table[i].redirect_id
            /\ ident'[i].rev_id = edit[g][table[i].redirect_id].rev_id
  <2> SUFFICES ASSUME RedirectsToEdited(g, table, i)
               PROVE  /\ ident'[i] # NULL
                      /\ ident'[i].is_live = table[i].is_live
                      /\ ident'[i].redirect_id = table[i].redirect_id
                      /\ ident'[i].rev_id = edit[g][table[i].redirect_id].rev_id
    OBVIOUS
  <2> HIDE DEF table
  <2>1. table[i] \in IdentRow
    BY <1>1 DEF RedirectsToEdited
  <2>2. table[i].redirect_id \in Ident
    BY <2>1 DEF RedirectsToEdited, IdentRow
  <2>3. edit[g][table[i].redirect_id].rev_id \in Rev \cup {NULL}
    BY <2>2, RowFields DEF RedirectsToEdited
  <2>4. ident'[i] \in IdentRow
    BY <1>3, <2>1, <2>3 DEF IdentRow
  <2> QED
    BY <1>3, <2>1, <2>4, NullAssumption DEF IdentRow
<1> QED
  <2> HIDE DEF table
  <2>1. CASE RedirectsToEdited(g, table, i)
    BY <1>2, <1>4, <2>1 DEF RedirectsToEdited
  <2>2. CASE ~RedirectsToEdited(g, table, i)
    BY <1>2, <1>3, <2>2 DEF RedirectsToEdited
  <2> QED
    BY <2>1, <2>2

\* is_live is a one-way flag, and ident rows are never deleted.
LEMMA LiveIsOneWay ==
    ASSUME TypeOK, Next, NEW i \in Ident, ident[i] # NULL
    PROVE  ident'[i] # NULL /\ (ident[i].is_live => ident'[i].is_live)
<1>1. ASSUME NEW g \in Editgroup, CreateEditgroup(g)
      PROVE  ident' = ident
  BY <1>1 DEF CreateEditgroup
<1>2. ASSUME NEW g \in Editgroup, NEW j \in Ident, EditStep(g, j)
      PROVE  ident'[i] = ident[i]
  BY <1>2 DEF EditStep, CreateEntity, UpdateEntity, RevertEntity, RedirectEntity,
              DeleteEntity, DeleteEdit, TypeOK
<1>3. ASSUME NEW g \in Editgroup, AcceptEditgroup(g)
      PROVE  ident'[i] # NULL /\ (ident[i].is_live => ident'[i].is_live)
  BY <1>3, AcceptedRow
<1>4. ASSUME NEW g \in Editgroup, NEW batch \in Batches, AutoBatch(g, batch)
      PROVE  ident'[i] = ident[i]
  BY <1>4 DEF AutoBatch, Batches
<1> QED
  BY <1>1, <1>2, <1>3, <1>4 DEF Next

\* The edits of an accepted editgroup are closed to every handler.
LEMMA AcceptedEditsClosed ==
    ASSUME TypeOK, AcceptedOnce, Next, NEW h \in Editgroup, InChangelog(h)
    PROVE  edit'[h] = edit[h]
<1>1. ASSUME NEW g \in Editgroup, NEW i \in Ident, EditStep(g, i)
      PROVE  g # h /\ edit'[h] = edit[h]
  BY <1>1 DEF EditStep, CreateEntity, UpdateEntity, RevertEntity, RedirectEntity,
              DeleteEntity, DeleteEdit, OpenForEdits, InsertEdit, TypeOK
<1>2. ASSUME NEW g \in Editgroup, NEW batch \in Batches, AutoBatch(g, batch)
      PROVE  edit'[h] = edit[h]
  <2>1. g # h
    BY <1>2 DEF AutoBatch, AcceptedOnce
  <2> QED
    BY <1>2, <2>1 DEF AutoBatch, TypeOK
<1> QED
  BY <1>1, <1>2 DEF Next, CreateEditgroup, AcceptEditgroup

-----------------------------------------------------------------------------
(* The safety invariants, one after the other. *)

\* No call makes a WIP row redirect or lose its revision: only create writes a
\* WIP row, and only accept touches it again, setting is_live in the same UPDATE.
LEMMA WipIsPlainNext ==
    ASSUME TypeOK, WipIsPlain, [Next]_vars
    PROVE  WipIsPlain'
<1> SUFFICES ASSUME NEW i \in Ident, ident'[i] # NULL, ~ident'[i].is_live
             PROVE  ident'[i].rev_id # NULL /\ ident'[i].redirect_id = NULL
  BY DEF WipIsPlain
<1>1. CASE ident'[i] = ident[i]
  BY <1>1 DEF WipIsPlain
<1>2. ASSUME NEW g \in Editgroup, NEW j \in Ident, NEW r \in Rev, CreateEntity(g, j, r)
      PROVE  ident'[i].rev_id # NULL /\ ident'[i].redirect_id = NULL
  <2>1. CASE i = j
    BY <1>2, <2>1, NullAssumption DEF CreateEntity, TypeOK
  <2>2. CASE i # j
    BY <1>1, <1>2, <2>2 DEF CreateEntity, TypeOK
  <2> QED BY <2>1, <2>2
<1>3. ASSUME NEW g \in Editgroup, AcceptEditgroup(g)
      PROVE  ident'[i].rev_id # NULL /\ ident'[i].redirect_id = NULL
  BY <1>3, AcceptedRow DEF WipIsPlain
<1>4. ASSUME NEW g \in Editgroup, NEW batch \in Batches, AutoBatch(g, batch)
      PROVE  ident'[i] = ident[i]
  BY <1>4 DEF AutoBatch
<1>5. ASSUME NEW g \in Editgroup, NEW j \in Ident, EditStep(g, j),
             ~(\E r \in Rev : CreateEntity(g, j, r))
      PROVE  ident'[i] = ident[i]
  BY <1>5 DEF EditStep, UpdateEntity, RevertEntity, RedirectEntity, DeleteEntity, DeleteEdit
<1>6. ASSUME NEW g \in Editgroup, CreateEditgroup(g) \/ UNCHANGED vars
      PROVE  ident'[i] = ident[i]
  BY <1>6 DEF CreateEditgroup, vars
<1> QED
  BY <1>1, <1>2, <1>3, <1>4, <1>5, <1>6 DEF Next, vars

\* What a redirect may point to keeps being a fit target, whatever happens next.
LEMMA TargetStaysLive ==
    ASSUME TypeOK, [Next]_vars, NEW t \in Ident, ident[t] # NULL, ident[t].is_live
    PROVE  ident'[t] # NULL /\ ident'[t].is_live
BY LiveIsOneWay DEF vars

\* No call makes a row or an edit point to what is not live: targets come from
\* ValidTarget or from an existing edit, and a live row stays live.
LEMMA RedirectTargetsLiveNext ==
    ASSUME TypeOK, RedirectTargetsLive, [Next]_vars
    PROVE  RedirectTargetsLive'
<1> DEFINE Fit(t, i) == t # i /\ ident[t] # NULL /\ ident[t].is_live
<1>1. ASSUME NEW i \in Ident, NEW t \in Ident, Fit(t, i) PROVE Fit(t, i)'
  BY <1>1, TargetStaysLive
<1>2. ASSUME NEW i \in Ident, ident'[i] # NULL, ident'[i].redirect_id # NULL
      PROVE  /\ ident'[i].redirect_id \in Ident
             /\ Fit(ident'[i].redirect_id, i)
  <2>1. ASSUME ident[i] # NULL, ident'[i].redirect_id = ident[i].redirect_id
        PROVE  /\ ident'[i].redirect_id \in Ident
               /\ Fit(ident'[i].redirect_id, i)
    BY <1>2, <2>1, RowFields DEF RedirectTargetsLive
  <2>2. ASSUME NEW g \in Editgroup, edit[g][i] # NULL,
               ident'[i].redirect_id = edit[g][i].redirect_id
        PROVE  /\ ident'[i].redirect_id \in Ident
               /\ Fit(ident'[i].redirect_id, i)
    BY <1>2, <2>2, RowFields DEF RedirectTargetsLive
  <2>3. ASSUME NEW g \in Editgroup, AcceptEditgroup(g)
        PROVE  \/ ident[i] # NULL /\ ident'[i].redirect_id = ident[i].redirect_id
               \/ edit[g][i] # NULL /\ ident'[i].redirect_id = edit[g][i].redirect_id
    BY <1>2, <2>3, AcceptedRow
  <2>4. ASSUME NEW g \in Editgroup, NEW j \in Ident, EditStep(g, j)
        PROVE  ident[i] # NULL /\ ident'[i].redirect_id = ident[i].redirect_id
    <3>1. ASSUME NEW r \in Rev, CreateEntity(g, j, r) PROVE ident'[i] = ident[i]
      <4>1. i # j
        BY <1>2, <3>1 DEF CreateEntity, TypeOK
      <4> QED
        BY <3>1, <4>1 DEF CreateEntity, TypeOK
    <3>2. ident'[i] = ident[i]
      BY <2>4, <3>1 DEF EditStep, UpdateEntity, RevertEntity, RedirectEntity,
                        DeleteEntity, DeleteEdit
    <3> QED
      BY <1>2, <3>2
  <2>5. ASSUME NEW g \in Editgroup, NEW batch \in Batches, AutoBatch(g, batch)
        PROVE  ident[i] # NULL /\ ident'[i].redirect_id = ident[i].redirect_id
    BY <1>2, <2>5 DEF AutoBatch
  <2>6. ASSUME NEW g \in Editgroup, CreateEditgroup(g) \/ UNCHANGED vars
        PROVE  ident[i] # NULL /\ ident'[i].redirect_id = ident[i].redirect_id
    BY <1>2, <2>6 DEF CreateEditgroup, vars
  <2> QED
    BY <1>2, <2>1, <2>2, <2>3, <2>4, <2>5, <2>6 DEF Next, vars
<1>3. ASSUME NEW h \in Editgroup, NEW i \in Ident,
             edit'[h][i] # NULL, edit'[h][i].redirect_id # NULL
      PROVE  /\ edit'[h][i].redirect_id \in Ident
             /\ Fit(edit'[h][i].redirect_id, i)
  <2>1. ASSUME edit'[h][i] = edit[h][i]
        PROVE  /\ edit'[h][i].redirect_id \in Ident
               /\ Fit(edit'[h][i].redirect_id, i)
    BY <1>3, <2>1, RowFields DEF RedirectTargetsLive
  <2>2. ASSUME NEW g \in Editgroup, NEW j \in Ident, NEW t \in Ident, RedirectEntity(g, j, t)
        PROVE  \/ edit'[h][i] = edit[h][i]
               \/ i = j /\ edit'[h][i].redirect_id = t /\ Fit(t, j)
    BY <2>2 DEF RedirectEntity, ValidTarget, InsertEdit, TypeOK
  <2>3. ASSUME NEW g \in Editgroup, NEW j \in Ident, EditStep(g, j),
               ~(\E t \in Ident : RedirectEntity(g, j, t))
        PROVE  edit'[h][i] = edit[h][i]
    <3>1. \/ \E r \in Rev : \/ CreateEntity(g, j, r) \/ UpdateEntity(g, j, r)
                             \/ RevertEntity(g, j, r)
          \/ DeleteEntity(g, j) \/ DeleteEdit(g, j)
      BY <2>3 DEF EditStep
    <3>2. ASSUME NEW r \in Rev, CreateEntity(g, j, r) PROVE edit'[h][i] = edit[h][i]
      BY <1>3, <3>2 DEF CreateEntity, InsertEdit, TypeOK
    <3>3. ASSUME NEW r \in Rev, UpdateEntity(g, j, r) PROVE edit'[h][i] = edit[h][i]
      BY <1>3, <3>3 DEF UpdateEntity, InsertEdit, TypeOK
    <3>4. ASSUME NEW r \in Rev, RevertEntity(g, j, r) PROVE edit'[h][i] = edit[h][i]
      BY <1>3, <3>4 DEF RevertEntity, InsertEdit, TypeOK
    <3>5. ASSUME DeleteEntity(g, j) PROVE edit'[h][i] = edit[h][i]
      BY <1>3, <3>5 DEF DeleteEntity, InsertEdit, TypeOK
    <3>6. ASSUME DeleteEdit(g, j) PROVE edit'[h][i] = edit[h][i]
      BY <1>3, <3>6 DEF DeleteEdit, TypeOK
    <3> QED
      BY <3>1, <3>2, <3>3, <3>4, <3>5, <3>6
  <2>4. ASSUME NEW g \in Editgroup, NEW batch \in Batches, AutoBatch(g, batch)
        PROVE  edit'[h][i] = edit[h][i]
    BY <1>3, <2>4 DEF AutoBatch, TypeOK
  <2>5. ASSUME NEW g \in Editgroup, CreateEditgroup(g) \/ AcceptEditgroup(g) \/ UNCHANGED vars
        PROVE  edit'[h][i] = edit[h][i]
    BY <2>5 DEF CreateEditgroup, AcceptEditgroup, vars
  <2> QED
    BY <2>1, <2>2, <2>3, <2>4, <2>5 DEF Next, vars
<1> QED
  BY <1>1, <1>2, <1>3 DEF RedirectTargetsLive

\* is_accepted and the changelog entry are written in one transaction, guarded
\* by the changelog lookup of accept_editgroup.
LEMMA AcceptedOnceNext ==
    ASSUME TypeOK, AcceptedOnce, [Next]_vars
    PROVE  AcceptedOnce'
<1>1. ASSUME changelog' = changelog,
             NEW g \in Editgroup, editgroup' = [editgroup EXCEPT ![g] = [is_accepted |-> FALSE]],
             editgroup[g] = NULL
      PROVE  AcceptedOnce'
  BY <1>1 DEF AcceptedOnce, InChangelog, TypeOK
<1>2. ASSUME NEW g \in Editgroup, ~InChangelog(g), changelog' = Append(changelog, g),
             editgroup'[g] # NULL, editgroup'[g].is_accepted,
             \A h \in Editgroup : h # g => editgroup'[h] = editgroup[h]
      PROVE  AcceptedOnce'
  <2>1. \A h \in Editgroup : InChangelog(h)' <=> InChangelog(h) \/ h = g
    BY <1>2, ChangelogAppend DEF InChangelog
  <2>2. \A k, l \in DOMAIN changelog' : changelog'[k] = changelog'[l] => k = l
    BY <1>2, ChangelogAppend DEF AcceptedOnce, InChangelog
  <2> QED
    BY <1>2, <2>1, <2>2 DEF AcceptedOnce
<1>3. ASSUME NEW g \in Editgroup, AcceptEditgroup(g) PROVE AcceptedOnce'
  <2>1. editgroup[g] \in EditgroupRow
    BY <1>3 DEF AcceptEditgroup, TypeOK
  <2>2. editgroup'[g] = [editgroup[g] EXCEPT !.is_accepted = TRUE]
    BY <1>3 DEF AcceptEditgroup, TypeOK
  <2>3. editgroup'[g] \in EditgroupRow /\ editgroup'[g].is_accepted
    BY <2>1, <2>2 DEF EditgroupRow
  <2> QED
    BY <1>2, <1>3, <2>3, NullAssumption DEF AcceptEditgroup, NotAccepted, TypeOK
<1>4. ASSUME NEW g \in Editgroup, NEW batch \in Batches, AutoBatch(g, batch) PROVE AcceptedOnce'
  <2>1. ~InChangelog(g)
    BY <1>4 DEF AutoBatch, AcceptedOnce
  <2>2. editgroup'[g] = [is_accepted |-> TRUE] /\ [is_accepted |-> TRUE] \in EditgroupRow
    BY <1>4 DEF AutoBatch, TypeOK, EditgroupRow
  <2> QED
    BY <1>2, <1>4, <2>1, <2>2, NullAssumption DEF AutoBatch, TypeOK
<1>5. ASSUME NEW g \in Editgroup, NEW i \in Ident, EditStep(g, i) PROVE AcceptedOnce'
  BY <1>5 DEF EditStep, CreateEntity, UpdateEntity, RevertEntity, RedirectEntity,
              DeleteEntity, DeleteEdit, AcceptedOnce, InChangelog
<1>6. ASSUME NEW g \in Editgroup, CreateEditgroup(g) PROVE AcceptedOnce'
  BY <1>1, <1>6 DEF CreateEditgroup
<1>7. CASE UNCHANGED vars
  BY <1>7 DEF vars, AcceptedOnce, InChangelog
<1> QED
  BY <1>3, <1>4, <1>5, <1>6, <1>7 DEF Next

\* An entry that was the last to edit i is still the last when the step leaves
\* the changelog alone or appends an editgroup that does not edit i.
LEMMA LastEditKept ==
    ASSUME TypeOK, AcceptedOnce, Next, NEW i \in Ident,
           NEW k \in DOMAIN changelog, LastEditOf(k, i),
           \/ changelog' = changelog
           \/ \E g \in Editgroup : changelog' = Append(changelog, g) /\ edit'[g][i] = NULL
    PROVE  k \in DOMAIN changelog' /\ LastEditOf(k, i)'
<1>1. \A l \in DOMAIN changelog : edit'[changelog[l]] = edit[changelog[l]]
  <2>1. \A l \in DOMAIN changelog : changelog[l] \in Editgroup
    BY DEF TypeOK
  <2> QED
    BY <2>1, AcceptedEditsClosed DEF InChangelog
<1>2. CASE changelog' = changelog
  BY <1>1, <1>2 DEF LastEditOf
<1>3. ASSUME NEW g \in Editgroup, changelog' = Append(changelog, g), edit'[g][i] = NULL
      PROVE  k \in DOMAIN changelog' /\ LastEditOf(k, i)'
  <2>1. k \in DOMAIN changelog' /\ changelog'[k] = changelog[k]
    BY <1>3, ChangelogAppend
  <2>2. ASSUME NEW l \in DOMAIN changelog', l > k
        PROVE  edit'[changelog'[l]][i] = NULL
    <3>1. CASE l \in DOMAIN changelog
      BY <1>1, <1>3, <2>2, <3>1, ChangelogAppend DEF LastEditOf
    <3>2. CASE l \notin DOMAIN changelog
      BY <1>3, <2>2, <3>2, ChangelogAppend
    <3> QED
      BY <3>1, <3>2
  <2> QED
    BY <1>1, <2>1, <2>2 DEF LastEditOf
<1> QED
  BY <1>2, <1>3

\* A new entry that edits i is the last to edit i.
LEMMA LastEditNew ==
    ASSUME TypeOK, NEW g \in Editgroup, changelog' = Append(changelog, g)
    PROVE  \E k \in DOMAIN changelog' :
               \A i \in Ident : edit'[g][i] # NULL => LastEditOf(k, i)'
<1>1. PICK k \in DOMAIN changelog' : k = Len(changelog) + 1
  BY ChangelogAppend
<1>2. changelog'[k] = g /\ \A l \in DOMAIN changelog' : ~(l > k)
  BY <1>1, ChangelogAppend
<1> QED
  BY <1>2 DEF LastEditOf

\* A step that closes a chain of two redirects is an accept that edits both
\* rows: the forward and the backward check refuse the other ways.
LEMMA ChainsNext ==
    ASSUME TypeOK, AcceptedOnce, ChainsWithinOneEditgroup, [Next]_vars
    PROVE  ChainsWithinOneEditgroup'
<1> SUFFICES ASSUME NEW i \in Ident, NEW j \in Ident,
                    ident'[i] # NULL, ident'[i].redirect_id = j,
                    ident'[j] # NULL, ident'[j].redirect_id # NULL
             PROVE  \E k \in DOMAIN changelog' : LastEditOf(k, i)' /\ LastEditOf(k, j)'
  BY DEF ChainsWithinOneEditgroup
<1> DEFINE Chain == /\ ident[i] # NULL /\ ident[i].redirect_id = j
                    /\ ident[j] # NULL /\ ident[j].redirect_id # NULL
<1>1. ASSUME UNCHANGED vars
      PROVE  \E k \in DOMAIN changelog' : LastEditOf(k, i)' /\ LastEditOf(k, j)'
  BY <1>1 DEF vars, ChainsWithinOneEditgroup, LastEditOf
<1>2. ASSUME Next, Chain, changelog' = changelog
      PROVE  \E k \in DOMAIN changelog' : LastEditOf(k, i)' /\ LastEditOf(k, j)'
  <2>1. PICK k \in DOMAIN changelog : LastEditOf(k, i) /\ LastEditOf(k, j)
    BY <1>2 DEF ChainsWithinOneEditgroup
  <2> QED
    BY <1>2, <2>1, LastEditKept
<1>3. ASSUME Next, Chain, NEW g \in Editgroup, changelog' = Append(changelog, g),
             edit'[g][i] = NULL, edit'[g][j] = NULL
      PROVE  \E k \in DOMAIN changelog' : LastEditOf(k, i)' /\ LastEditOf(k, j)'
  <2>1. PICK k \in DOMAIN changelog : LastEditOf(k, i) /\ LastEditOf(k, j)
    BY <1>3 DEF ChainsWithinOneEditgroup
  <2> QED
    BY <1>3, <2>1, LastEditKept
<1>4. ASSUME NEW g \in Editgroup, NEW e \in Ident, EditStep(g, e)
      PROVE  Chain /\ changelog' = changelog
  <2>1. ASSUME NEW r \in Rev, CreateEntity(g, e, r) PROVE ident'[i] = ident[i] /\ ident'[j] = ident[j]
    <3>1. i # e /\ j # e
      BY <2>1, NullAssumption DEF CreateEntity, TypeOK
    <3> QED
      BY <2>1, <3>1 DEF CreateEntity, TypeOK
  <2>2. ident'[i] = ident[i] /\ ident'[j] = ident[j]
    BY <1>4, <2>1 DEF EditStep, UpdateEntity, RevertEntity, RedirectEntity,
                      DeleteEntity, DeleteEdit
  <2>3. changelog' = changelog
    BY <1>4 DEF EditStep, CreateEntity, UpdateEntity, RevertEntity, RedirectEntity,
                DeleteEntity, DeleteEdit
  <2> QED
    BY <2>2, <2>3
<1>5. ASSUME NEW g \in Editgroup, CreateEditgroup(g)
      PROVE  Chain /\ changelog' = changelog
  BY <1>5 DEF CreateEditgroup
<1>6. ASSUME Next, NEW g \in Editgroup, AcceptEditgroup(g)
      PROVE  \E k \in DOMAIN changelog' : LastEditOf(k, i)' /\ LastEditOf(k, j)'
  <2>1. changelog' = Append(changelog, g) /\ edit' = edit
    BY <1>6 DEF AcceptEditgroup
  <2>2. CASE edit[g][i] = NULL /\ edit[g][j] = NULL
    BY <1>3, <1>6, <2>1, <2>2, AcceptedRow
  <2>3. CASE edit[g][i] # NULL /\ edit[g][j] # NULL
    BY <2>1, <2>3, LastEditNew
  <2>4. CASE edit[g][i] # NULL /\ edit[g][j] = NULL
    <3>1. edit[g][i].redirect_id = j /\ ident[j].redirect_id # NULL
      BY <1>6, <2>4, AcceptedRow
    <3>2. ForwardRecursive(g)
      BY <2>4, <3>1, NullAssumption DEF ForwardRecursive
    <3> QED
      BY <1>6, <3>2 DEF AcceptEditgroup
  <2>5. CASE edit[g][i] = NULL /\ edit[g][j] # NULL
    <3>1. ident[i] # NULL /\ ident[i].redirect_id = j /\ edit[g][j].redirect_id # NULL
      BY <1>6, <2>5, AcceptedRow
    <3>2. BackwardRecursive(g)
      BY <2>5, <3>1 DEF BackwardRecursive
    <3> QED
      BY <1>6, <3>2 DEF AcceptEditgroup
  <2> QED
    BY <2>2, <2>3, <2>4, <2>5
<1>7. ASSUME Next, NEW g \in Editgroup, NEW batch \in Batches, AutoBatch(g, batch)
      PROVE  \E k \in DOMAIN changelog' : LastEditOf(k, i)' /\ LastEditOf(k, j)'
  <2>1. \A b \in DOMAIN batch : b \in Ident /\ ident[b] = NULL
    BY DEF Batches
  <2>2. i \notin DOMAIN batch /\ j \notin DOMAIN batch
    BY <1>7, NullAssumption DEF AutoBatch
  <2>3. edit'[g][i] = NULL /\ edit'[g][j] = NULL /\ Chain
    BY <1>7, <2>2 DEF AutoBatch, TypeOK
  <2> QED
    BY <1>3, <1>7, <2>3 DEF AutoBatch
<1> QED
  BY <1>1, <1>2, <1>4, <1>5, <1>6, <1>7 DEF Next

-----------------------------------------------------------------------------
(* The theorems. *)

\* The inductive invariant: the four safety invariants over well-formed tables.
IInv ==
    /\ TypeOK
    /\ WipIsPlain
    /\ RedirectTargetsLive
    /\ AcceptedOnce
    /\ ChainsWithinOneEditgroup

\* The inductive invariant holds of the empty tables.
LEMMA IInvInit == Init => IInv
BY TypeInit DEF Init, IInv, WipIsPlain, RedirectTargetsLive, AcceptedOnce, InChangelog,
                ChainsWithinOneEditgroup

\* Every call keeps the inductive invariant.
LEMMA IInvNext == IInv /\ [Next]_vars => IInv'
BY TypeNext, WipIsPlainNext, RedirectTargetsLiveNext, AcceptedOnceNext, ChainsNext DEF IInv

\* The inductive invariant holds at every commit.
LEMMA IInvAlways == Spec => []IInv
BY IInvInit, IInvNext, PTL DEF Spec

\* No call leaves a WIP row that redirects or has no revision.
THEOREM WipAlwaysPlain == Spec => []WipIsPlain
<1>1. IInv => WipIsPlain
  BY DEF IInv
<1> QED
  BY <1>1, IInvAlways, PTL

\* db_update's one check of a redirect target is enough, for good.
THEOREM RedirectTargetsAlwaysLive == Spec => []RedirectTargetsLive
<1>1. IInv => RedirectTargetsLive
  BY DEF IInv
<1> QED
  BY <1>1, IInvAlways, PTL

\* Run one call at a time, an editgroup is accepted at most once, and its
\* is_accepted flag and its changelog entry come together.
THEOREM AcceptedAtMostOnce == Spec => []AcceptedOnce
<1>1. IInv => AcceptedOnce
  BY DEF IInv
<1> QED
  BY <1>1, IInvAlways, PTL

\* The two recursion checks of db_accept_edits leave one way to a chain of
\* redirects: both links in one editgroup.
THEOREM ChainsOnlyWithinOneEditgroup == Spec => []ChainsWithinOneEditgroup
<1>1. IInv => ChainsWithinOneEditgroup
  BY DEF IInv
<1> QED
  BY <1>1, IInvAlways, PTL

\* The second UPDATE of db_accept_edits reaches every redirect it should.
THEOREM RedirectsAlwaysFollowTarget == Spec => RedirectsFollowTarget
<1> DEFINE Follow ==
      \A i, j \in Ident :
          /\ ident[i] # NULL /\ ident[i].redirect_id = j
          /\ ident[j] # NULL /\ ident[j].redirect_id = NULL
          /\ ident'[i].redirect_id = j
          /\ ident'[j].rev_id # ident[j].rev_id
          => ident'[i].rev_id = ident'[j].rev_id
<1>1. TypeOK /\ [Next]_vars => [Follow]_ident
  <2> SUFFICES ASSUME TypeOK, [Next]_vars, ident' # ident,
                      NEW i \in Ident, NEW j \in Ident,
                      ident[i] # NULL, ident[i].redirect_id = j,
                      ident[j] # NULL, ident[j].redirect_id = NULL,
                      ident'[i].redirect_id = j,
                      ident'[j].rev_id # ident[j].rev_id
               PROVE  ident'[i].rev_id = ident'[j].rev_id
    OBVIOUS
  <2>1. PICK g \in Editgroup : AcceptEditgroup(g)
    <3>1. ASSUME NEW g \in Editgroup, NEW e \in Ident, EditStep(g, e)
          PROVE  ident'[j] = ident[j]
      BY <3>1 DEF EditStep, CreateEntity, UpdateEntity, RevertEntity, RedirectEntity,
                  DeleteEntity, DeleteEdit, TypeOK
    <3>2. ASSUME NEW g \in Editgroup, NEW batch \in Batches, AutoBatch(g, batch)
          PROVE  ident'[j] = ident[j]
      BY <3>2 DEF AutoBatch, Batches
    <3> QED
      BY <3>1, <3>2 DEF Next, vars, CreateEditgroup
  <2>2. ident'[i] # NULL /\ ident'[j] # NULL
    BY <2>1, AcceptedRow
  <2>3. edit[g][j] # NULL
    BY <2>1, <2>2, AcceptedRow
  <2>4. edit[g][j].redirect_id = NULL
    BY <2>1, <2>3 DEF AcceptEditgroup, BackwardRecursive
  <2>5. ident'[j].rev_id = edit[g][j].rev_id
    BY <2>1, <2>2, <2>3, <2>4, AcceptedRow
  <2>6. ident'[i].rev_id = edit[g][j].rev_id
    BY <2>1, <2>2, <2>3, AcceptedRow, NullAssumption
  <2> QED
    BY <2>5, <2>6
<1> QED
  BY <1>1, TypeCorrect, PTL DEF Spec, RedirectsFollowTarget

-----------------------------------------------------------------------------
(* The catalog implements the published log. *)

\* What readers are shown of a row or an edit is a pointer of the published log.
LEMMA ShownIsPointer ==
    ASSUME TypeOK
    PROVE  /\ \A i \in Ident : ident[i] # NULL => Shown(ident[i]) \in Pointer
           /\ \A g \in Editgroup, i \in Ident : edit[g][i] # NULL => Shown(edit[g][i]) \in Pointer
BY RowFields DEF Shown, Pointer

\* The edits of an editgroup are a changeset of the published log.
LEMMA ChangesetOfType ==
    ASSUME TypeOK, NEW g \in Editgroup
    PROVE  ChangesetOf(g) \in Log!Changeset
<1>1. ChangesetOf(g) \in [EditedIn(g) -> Pointer]
  BY ShownIsPointer DEF ChangesetOf, EditedIn
<1>2. EditedIn(g) \in SUBSET Ident
  BY DEF EditedIn
<1> QED
  BY <1>1, <1>2 DEF Log!Changeset

\* The log the catalog shows is a sequence, one changeset per changelog entry.
ChangesetsOK ==
    /\ PublishedChangesets \in Seq(Log!Changeset)
    /\ Len(PublishedChangesets) = Len(changelog)
    /\ \A k \in DOMAIN changelog : PublishedChangesets[k] = ChangesetOf(changelog[k])

\* Well-formed tables show a well-formed log.
LEMMA ChangesetsSeq == TypeOK => ChangesetsOK
<1> SUFFICES ASSUME TypeOK PROVE ChangesetsOK
  OBVIOUS
<1>1. Len(changelog) \in Nat /\ DOMAIN changelog = 1..Len(changelog)
  BY DEF TypeOK
<1>2. \A k \in DOMAIN changelog : changelog[k] \in Editgroup
  BY DEF TypeOK
<1>3. PublishedChangesets \in [1..Len(changelog) -> Log!Changeset]
  BY <1>1, <1>2, ChangesetOfType DEF PublishedChangesets
<1>4. PublishedChangesets \in Seq(Log!Changeset)
  BY <1>1, <1>3, SeqDef
<1>5. Len(PublishedChangesets) = Len(changelog)
  BY <1>1, <1>3, <1>4, LenProperties
<1> QED
  BY <1>1, <1>4, <1>5 DEF PublishedChangesets, ChangesetsOK

\* The same of the state after a step.
LEMMA ChangesetsSeqNext == TypeOK' => ChangesetsOK'
BY ChangesetsSeq, PTL

\* A step that appends g, changes no edit of the editgroups already accepted and
\* moves exactly the entities g edits to where its edits say publishes a changeset.
LEMMA PublishStep ==
    ASSUME TypeOK, TypeOK', NEW g \in Editgroup, changelog' = Append(changelog, g),
           \A k \in DOMAIN changelog : edit'[changelog[k]] = edit[changelog[k]],
           \A i \in Ident : PublishedHead'[i] =
               IF edit'[g][i] # NULL THEN Shown(edit'[g][i]) ELSE PublishedHead[i]
    PROVE  Log!Next
<1> DEFINE n == Len(changelog)
           old == PublishedChangesets
           new == PublishedChangesets'
           Edits(h) == {i \in Ident : edit'[h][i] # NULL}
           changeset == [i \in Edits(g) |-> Shown(edit'[g][i])]
<1>1. /\ n \in Nat /\ DOMAIN changelog = 1..n /\ DOMAIN changelog' = 1..(n + 1)
      /\ Len(changelog') = n + 1
      /\ \A k \in 1..n : changelog'[k] = changelog[k]
      /\ changelog'[n + 1] = g
  BY ChangelogAppend, LenProperties
<1>2. old \in Seq(Log!Changeset) /\ Len(old) = n
  BY ChangesetsSeq DEF ChangesetsOK
<1>3. new \in Seq(Log!Changeset) /\ Len(new) = n + 1
  BY <1>1, ChangesetsSeqNext DEF ChangesetsOK
<1>4. \A k \in 1..n : new[k] = old[k]
  <2> TAKE k \in 1..n
  <2>1. new[k] = [i \in Edits(changelog[k]) |-> Shown(edit'[changelog[k]][i])]
    BY <1>1 DEF PublishedChangesets, ChangesetOf, EditedIn, Shown
  <2>2. old[k] = [i \in {i \in Ident : edit[changelog[k]][i] # NULL} |->
                       Shown(edit[changelog[k]][i])]
    BY <1>1 DEF PublishedChangesets, ChangesetOf, EditedIn, Shown
  <2> QED
    BY <1>1, <2>1, <2>2
<1>5. new[n + 1] = changeset
  <2>1. n + 1 \in DOMAIN changelog' /\ changelog'[n + 1] = g
    BY <1>1, ChangelogAppend
  <2>2. new[n + 1] = ChangesetOf(g)'
    BY <2>1 DEF PublishedChangesets, ChangesetOf, EditedIn, Shown
  <2>3. ChangesetOf(g)' = changeset
    BY DEF ChangesetOf, EditedIn, Shown
  <2> QED
    BY <2>2, <2>3
<1>6. changeset \in Log!Changeset
  BY <1>1, <1>3, <1>5
<1> HIDE DEF old, new, changeset
<1>7. Append(old, changeset) \in Seq(Log!Changeset) /\ Len(Append(old, changeset)) = n + 1
      /\ (\A k \in 1..n : Append(old, changeset)[k] = old[k])
      /\ Append(old, changeset)[n + 1] = changeset
  BY <1>1, <1>2, <1>6
<1>8. new = Append(old, changeset)
  <2>1. \A k \in 1..(n + 1) : new[k] = Append(old, changeset)[k]
    BY <1>1, <1>4, <1>5, <1>7
  <2> QED
    BY <1>3, <1>7, <2>1, SeqEqual
<1>9. PublishedHead' = [i \in Ident |-> IF i \in DOMAIN changeset THEN changeset[i]
                                                                ELSE PublishedHead[i]]
  <2>1. DOMAIN changeset = Edits(g) /\ \A i \in Edits(g) : changeset[i] = Shown(edit'[g][i])
    BY DEF changeset
  <2>2. \A i \in Ident : PublishedHead'[i] = IF i \in DOMAIN changeset THEN changeset[i]
                                                                ELSE PublishedHead[i]
    BY <2>1
  <2> QED
    BY <2>2 DEF PublishedHead
<1> QED
  BY <1>1, <1>2, <1>3, <1>5, <1>6, <1>8, <1>9 DEF Log!Next, Log!Publish, old, new

\* Accepting an editgroup publishes its edits, as one changeset.
LEMMA AcceptPublishes ==
    ASSUME TypeOK, TypeOK', AcceptedOnce, NEW g \in Editgroup, AcceptEditgroup(g)
    PROVE  Log!Next
<1>1. changelog' = Append(changelog, g) /\ edit' = edit
  BY DEF AcceptEditgroup
<1>2. ASSUME NEW i \in Ident, edit[g][i] # NULL
      PROVE  PublishedHead'[i] = Shown(edit[g][i])
  <2>1. /\ ident'[i] # NULL /\ ident'[i].is_live
        /\ ident'[i].redirect_id = edit[g][i].redirect_id
        /\ ident'[i].redirect_id = NULL => ident'[i].rev_id = edit[g][i].rev_id
    BY <1>2, AcceptedRow
  <2>2. PublishedHead'[i] = Shown(ident'[i])
    BY <2>1 DEF PublishedHead, Published, Shown
  <2> QED
    BY <2>1, <2>2 DEF Shown
<1>3. ASSUME NEW i \in Ident, edit[g][i] = NULL
      PROVE  PublishedHead'[i] = PublishedHead[i]
  <2>1. CASE ident[i] = NULL
    BY <1>3, <2>1, AcceptedRow DEF PublishedHead, Published
  <2>2. CASE ident[i] # NULL
    <3>1. /\ ident'[i] # NULL
          /\ ident'[i].is_live = ident[i].is_live
          /\ ident'[i].redirect_id = ident[i].redirect_id
          /\ ident'[i].redirect_id = NULL => ident'[i].rev_id = ident[i].rev_id
      BY <1>3, <2>2, AcceptedRow
    <3> QED
      BY <2>2, <3>1 DEF PublishedHead, Published, Shown
  <2> QED
    BY <2>1, <2>2
<1> QED
  BY <1>1, <1>2, <1>3, PublishStep

\* A batch publishes its new entities, as one changeset.
LEMMA AutoBatchPublishes ==
    ASSUME TypeOK, TypeOK', AcceptedOnce, Next,
           NEW g \in Editgroup, NEW batch \in Batches, AutoBatch(g, batch)
    PROVE  Log!Next
<1>1. changelog' = Append(changelog, g)
  BY DEF AutoBatch
<1>2. \A k \in DOMAIN changelog : edit'[changelog[k]] = edit[changelog[k]]
  BY AcceptedEditsClosed DEF InChangelog, TypeOK
<1>3. \A i \in DOMAIN batch : i \in Ident /\ ident[i] = NULL /\ batch[i] \in Rev
  BY DEF Batches
<1>4. ASSUME NEW i \in Ident, i \in DOMAIN batch
      PROVE  edit'[g][i] # NULL /\ PublishedHead'[i] = Shown(edit'[g][i])
  <2>1. /\ edit'[g][i] = [rev_id |-> batch[i], redirect_id |-> NULL, prev_rev |-> NULL]
        /\ edit'[g][i] \in EditRow
    BY <1>3, <1>4 DEF AutoBatch, TypeOK, EditRow
  <2>2. /\ ident'[i] = [is_live |-> TRUE, rev_id |-> batch[i], redirect_id |-> NULL]
        /\ ident'[i] \in IdentRow
    BY <1>3, <1>4 DEF AutoBatch, IdentRow
  <2> QED
    BY <2>1, <2>2, NullAssumption DEF PublishedHead, Published, Shown
<1>5. ASSUME NEW i \in Ident, i \notin DOMAIN batch
      PROVE  edit'[g][i] = NULL /\ PublishedHead'[i] = PublishedHead[i]
  BY <1>5 DEF AutoBatch, TypeOK, PublishedHead, Published, Shown
<1> QED
  BY <1>1, <1>2, <1>4, <1>5, PublishStep

\* Every other call leaves the published catalog as it is.
LEMMA UnpublishedStep ==
    ASSUME TypeOK, AcceptedOnce, Next, changelog' = changelog,
           \A i \in Ident : \/ ident'[i] = ident[i]
                            \/ ident[i] = NULL /\ ~ident'[i].is_live
    PROVE  UNCHANGED <<PublishedHead, PublishedChangesets>>
<1>1. \A i \in Ident : PublishedHead'[i] = PublishedHead[i]
  BY DEF PublishedHead, Published, Shown
<1>2. PublishedHead' = PublishedHead
  BY <1>1 DEF PublishedHead
<1>3. \A k \in DOMAIN changelog : edit'[changelog[k]] = edit[changelog[k]]
  BY AcceptedEditsClosed DEF InChangelog, TypeOK
<1>4. PublishedChangesets' = PublishedChangesets
  BY <1>3 DEF PublishedChangesets, ChangesetOf, EditedIn, Shown
<1> QED
  BY <1>2, <1>4

\* The catalog implements the published log: what readers see is the replay of
\* the accepted editgroups, each taken whole, and no accepted edit ever changes.
THEOREM CatalogImplementsLog == Spec => ImplementsLog
<1>1. Init => Log!Init
  <2> SUFFICES ASSUME Init PROVE Log!Init
    OBVIOUS
  <2>1. PublishedHead = [e \in Ident |-> NULL]
    BY DEF Init, PublishedHead, Published
  <2>2. PublishedChangesets = << >>
    BY DEF Init, PublishedChangesets
  <2> QED
    BY <2>1, <2>2 DEF Log!Init
<1>2. TypeOK /\ TypeOK' /\ AcceptedOnce /\ [Next]_vars
        => [Log!Next]_<<PublishedHead, PublishedChangesets>>
  <2> SUFFICES ASSUME TypeOK, TypeOK', AcceptedOnce, [Next]_vars
               PROVE  [Log!Next]_<<PublishedHead, PublishedChangesets>>
    OBVIOUS
  <2>1. CASE UNCHANGED vars
    BY <2>1 DEF vars, PublishedHead, Published, PublishedChangesets, ChangesetOf, EditedIn, Shown
  <2>2. ASSUME Next, NEW g \in Editgroup, CreateEditgroup(g)
        PROVE  UNCHANGED <<PublishedHead, PublishedChangesets>>
    BY <2>2, UnpublishedStep DEF CreateEditgroup
  <2>3. ASSUME Next, NEW g \in Editgroup, NEW i \in Ident, EditStep(g, i)
        PROVE  UNCHANGED <<PublishedHead, PublishedChangesets>>
    <3>1. changelog' = changelog
      BY <2>3 DEF EditStep, CreateEntity, UpdateEntity, RevertEntity, RedirectEntity,
                  DeleteEntity, DeleteEdit
    <3>2. ASSUME NEW r \in Rev, CreateEntity(g, i, r), NEW j \in Ident
          PROVE  \/ ident'[j] = ident[j]
                 \/ ident[j] = NULL /\ ~ident'[j].is_live
      BY <3>2 DEF CreateEntity, TypeOK
    <3>3. \/ \E r \in Rev : CreateEntity(g, i, r)
          \/ ident' = ident
      BY <2>3 DEF EditStep, UpdateEntity, RevertEntity, RedirectEntity, DeleteEntity, DeleteEdit
    <3> QED
      BY <2>3, <3>1, <3>2, <3>3, UnpublishedStep
  <2>4. ASSUME NEW g \in Editgroup, AcceptEditgroup(g) PROVE Log!Next
    BY <2>4, AcceptPublishes
  <2>5. ASSUME Next, NEW g \in Editgroup, NEW batch \in Batches, AutoBatch(g, batch)
        PROVE  Log!Next
    BY <2>5, AutoBatchPublishes
  <2> QED
    BY <2>1, <2>2, <2>3, <2>4, <2>5 DEF Next
<1>3. IInv => TypeOK /\ AcceptedOnce
  BY DEF IInv
<1> QED
  BY <1>1, <1>2, <1>3, IInvAlways, PTL DEF Spec, ImplementsLog, Log!Spec

=============================================================================
