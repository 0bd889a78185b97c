-------------------------- MODULE CatalogTxnProofs --------------------------
(***************************************************************************)
(* Theorems about CatalogTxn, for any number of connections: whatever the  *)
(* interleaving of the SQL statements, and whatever calls are rolled back. *)
(***************************************************************************)
EXTENDS CatalogTxn, CatalogProofs

-----------------------------------------------------------------------------
(* Type correctness. *)

\* What a connection holds, by where it is in its call.
LEMMA SessionForm ==
    ASSUME NEW s \in Session
    PROVE  /\ s.at = "opened" => s \in Opened
           /\ s.at = "read" => s \in ReadRow
           /\ s.at = "target" => s \in ReadTarget
           /\ s.at = "deleting" => s \in Deleting
           /\ s.at \in {"checked", "forward", "backward"} => s \in Checking
           /\ s.at = "applying" => s \in Applying
           /\ s.at \in {"applied", "redirected"} => s \in Applied
           /\ s.at = "redirecting" => s \in Redirecting
BY DEF Session, Idle, Opened, ReadRow, ReadTarget, Deleting, Checking, Applying, Applied,
       Redirecting

\* A connection moves on within its call, or is done.
LEMMA GoType ==
    ASSUME TxnTypeOK, NEW c \in Conn, NEW s \in Session, Go(c, s)
    PROVE  conn' \in [Conn -> Session]
BY DEF Go, TxnTypeOK

\* The tables of Catalog, the connections and the edits applied start well-formed.
LEMMA TxnTypeInit == TxnInit => TxnTypeOK
BY TypeInit DEF TxnInit, TxnTypeOK, Session

\* An edit call keeps them well-formed.
LEMMA EditCallType ==
    ASSUME TxnTypeOK, NEW c \in Conn, EditCall(c)
    PROVE  TxnTypeOK'
<1>1. TypeOK /\ conn[c] \in Session /\ Idle \in Session
  BY DEF TxnTypeOK, Session
<1>2. ASSUME NEW s \in Session, Go(c, s), UNCHANGED Tables PROVE TxnTypeOK'
  BY <1>2, GoType DEF Tables, TxnTypeOK, TypeOK
<1>3. ASSUME NEW i \in Ident, NEW row \in EditRow, conn[c].g \in Editgroup, Insert(c, i, row),
             ident' \in [Ident -> IdentRow \cup {NULL}], revs' \in SUBSET Rev,
             UNCHANGED <<editgroup, changelog, applied>>
      PROVE  TxnTypeOK'
  <2>1. edit' \in [Editgroup -> [Ident -> EditRow \cup {NULL}]]
    BY <1>1, <1>3, InsertEditType DEF Insert
  <2>2. conn' \in [Conn -> Session]
    BY <1>1, <1>3, GoType DEF Insert
  <2> QED
    BY <1>1, <1>3, <2>1, <2>2 DEF TxnTypeOK, TypeOK
<1>4. ASSUME NEW g \in Editgroup, BeginEdit(c, g) PROVE TxnTypeOK'
  <2>1. [at |-> "opened", g |-> g] \in Session
    BY DEF Session, Opened
  <2> QED
    BY <1>2, <1>4, <2>1 DEF BeginEdit
<1>5. ASSUME NEW g \in Editgroup, NEW i \in Ident, BeginDeleteEdit(c, g, i) PROVE TxnTypeOK'
  <2>1. [at |-> "deleting", g |-> g, i |-> i] \in Session
    BY DEF Session, Deleting
  <2> QED
    BY <1>2, <1>5, <2>1 DEF BeginDeleteEdit
<1>6. ASSUME NEW i \in Ident, ReadCurrent(c, i) PROVE TxnTypeOK'
  <2>1. conn[c] \in Opened
    BY <1>1, <1>6, SessionForm DEF ReadCurrent, At
  <2>2. ident[i] \in IdentRow
    BY <1>1, <1>6 DEF ReadCurrent, TypeOK
  <2>3. [at |-> "read", g |-> conn[c].g, i |-> i, row |-> ident[i]] \in Session
    BY <2>1, <2>2 DEF Session, Opened, ReadRow
  <2> QED
    BY <1>2, <1>6, <2>3 DEF ReadCurrent
<1>7. ASSUME NEW i \in Ident, NEW r \in Rev, InsertCreate(c, i, r) PROVE TxnTypeOK'
  <2>1. conn[c].g \in Editgroup
    BY <1>1, <1>7, SessionForm DEF InsertCreate, At, Opened
  <2>2. [rev_id |-> r, redirect_id |-> NULL, prev_rev |-> NULL] \in EditRow
    BY DEF EditRow
  <2>3. [is_live |-> FALSE, rev_id |-> r, redirect_id |-> NULL] \in IdentRow
    BY DEF IdentRow
  <2>4. ident' \in [Ident -> IdentRow \cup {NULL}] /\ revs' \in SUBSET Rev
    BY <1>1, <1>7, <2>3 DEF InsertCreate, TypeOK
  <2> QED
    BY <1>3, <1>7, <2>1, <2>2, <2>4 DEF InsertCreate
<1>8. ASSUME conn[c].at = "read"
      PROVE  /\ conn[c].g \in Editgroup /\ conn[c].i \in Ident /\ conn[c].row \in IdentRow
             /\ conn[c].row.rev_id \in Rev \cup {NULL}
             /\ PrevRevOf(conn[c].row) \in Rev \cup {NULL}
  <2>1. conn[c] \in ReadRow
    BY <1>1, <1>8, SessionForm
  <2> QED
    BY <2>1 DEF ReadRow, IdentRow, PrevRevOf
<1>9. ASSUME NEW r \in Rev, InsertUpdate(c, r) \/ InsertRevert(c, r) PROVE TxnTypeOK'
  <2>1. conn[c].at = "read"
    BY <1>9 DEF InsertUpdate, InsertRevert, At
  <2>2. [rev_id |-> r, redirect_id |-> NULL, prev_rev |-> PrevRevOf(conn[c].row)] \in EditRow
    BY <1>8, <2>1 DEF EditRow
  <2>3. UNCHANGED <<ident, editgroup, changelog, applied>> /\ revs' \in SUBSET Rev
    BY <1>1, <1>9 DEF InsertUpdate, InsertRevert, TypeOK
  <2>4. ident' \in [Ident -> IdentRow \cup {NULL}]
    BY <1>1, <2>3 DEF TypeOK
  <2> QED
    BY <1>3, <1>8, <1>9, <2>1, <2>2, <2>3, <2>4 DEF InsertUpdate, InsertRevert
<1>10. ASSUME InsertDelete(c) PROVE TxnTypeOK'
  <2>1. conn[c].at = "read"
    BY <1>10 DEF InsertDelete, At
  <2>2. [rev_id |-> NULL, redirect_id |-> NULL, prev_rev |-> conn[c].row.rev_id] \in EditRow
    BY <1>8, <2>1 DEF EditRow
  <2> QED
    BY <1>1, <1>3, <1>8, <1>10, <2>1, <2>2 DEF InsertDelete, TypeOK
<1>11. ASSUME NEW t \in Ident, ReadRedirectTarget(c, t) PROVE TxnTypeOK'
  <2>1. conn[c] \in ReadRow
    BY <1>1, <1>11, SessionForm DEF ReadRedirectTarget, At
  <2>2. ident[t].rev_id \in Rev \cup {NULL}
    BY <1>1, <1>11, RowFields DEF ReadRedirectTarget
  <2>3. [at |-> "target", g |-> conn[c].g, i |-> conn[c].i, row |-> conn[c].row,
         target |-> t, rev_id |-> ident[t].rev_id] \in Session
    BY <2>1, <2>2 DEF Session, ReadRow, ReadTarget
  <2> QED
    BY <1>2, <1>11, <2>3 DEF ReadRedirectTarget
<1>12. ASSUME InsertRedirect(c) PROVE TxnTypeOK'
  <2>1. conn[c] \in ReadTarget
    BY <1>1, <1>12, SessionForm DEF InsertRedirect, At
  <2>2. /\ conn[c].g \in Editgroup /\ conn[c].i \in Ident /\ conn[c].target \in Ident
        /\ conn[c].rev_id \in Rev \cup {NULL} /\ PrevRevOf(conn[c].row) \in Rev \cup {NULL}
    BY <2>1 DEF ReadTarget, IdentRow, PrevRevOf
  <2>3. [rev_id |-> conn[c].rev_id, redirect_id |-> conn[c].target,
         prev_rev |-> PrevRevOf(conn[c].row)] \in EditRow
    BY <2>2 DEF EditRow
  <2> QED
    BY <1>1, <1>3, <1>12, <2>2, <2>3 DEF InsertRedirect, TypeOK
<1>13. ASSUME FinishDeleteEdit(c) PROVE TxnTypeOK'
  <2>1. edit' \in [Editgroup -> [Ident -> EditRow \cup {NULL}]]
    BY <1>1, <1>13 DEF FinishDeleteEdit, TypeOK
  <2>2. conn' \in [Conn -> Session]
    BY <1>1, <1>13 DEF FinishDeleteEdit, TxnTypeOK
  <2> QED
    BY <1>1, <1>13, <2>1, <2>2 DEF FinishDeleteEdit, TxnTypeOK, TypeOK
<1> QED
  BY <1>4, <1>5, <1>6, <1>7, <1>9, <1>10, <1>11, <1>12, <1>13 DEF EditCall

\* Every edit, and every row a connection has read, is to write or has written,
\* is of an entity with a row in the ident table; what is accepted has a row too.
Writing(c) == conn[c].at \in {"applied", "redirecting", "redirected"}

Accepting(c) ==
    conn[c].at \in {"checked", "forward", "backward", "applying"} \/ Writing(c)

SessionRows(c) ==
    /\ Accepting(c) => editgroup[conn[c].g] # NULL
    /\ conn[c].at \in {"read", "target"} => ident[conn[c].i] # NULL
    /\ conn[c].at \in {"applying", "redirecting"} =>
          \A i \in Ident : conn[c].snapshot[i] # NULL => ident[i] # NULL
    /\ Writing(c) => \A i \in Ident : conn[c].written[i] # NULL => ident[i] # NULL

RowsExist ==
    /\ \A g \in Editgroup, i \in Ident : edit[g][i] # NULL => ident[i] # NULL
    /\ \A c \in Conn : SessionRows(c)

\* An accept call keeps them well-formed.
LEMMA AcceptCallType ==
    ASSUME TxnTypeOK, RowsExist, NEW c \in Conn, AcceptCall(c)
    PROVE  TxnTypeOK'
<1>1. TypeOK /\ conn[c] \in Session /\ Idle \in Session /\ edit \in [Editgroup -> Snapshot]
  BY DEF TxnTypeOK, TypeOK, Session, Snapshot
<1>2. ASSUME NEW s \in Session, Go(c, s), UNCHANGED Tables PROVE TxnTypeOK'
  BY <1>2, GoType DEF Tables, TxnTypeOK, TypeOK
<1>3. ASSUME NEW g \in Editgroup, BeginAccept(c, g) PROVE TxnTypeOK'
  <2>1. [at |-> "checked", g |-> g] \in Session
    BY DEF Session, Checking
  <2> QED
    BY <1>2, <1>3, <2>1 DEF BeginAccept
<1>4. ASSUME CheckForward(c) \/ CheckBackward(c) PROVE TxnTypeOK'
  <2>1. conn[c] \in Checking
    BY <1>1, <1>4, SessionForm DEF CheckForward, CheckBackward, At
  <2>2. /\ [conn[c] EXCEPT !.at = "forward"] \in Session
        /\ [conn[c] EXCEPT !.at = "backward"] \in Session
    BY <2>1 DEF Session, Checking
  <2> QED
    BY <1>2, <1>4, <2>2 DEF CheckForward, CheckBackward
<1>5. ASSUME PlanApply(c) PROVE TxnTypeOK'
  <2>1. conn[c].g \in Editgroup
    BY <1>1, <1>5, SessionForm DEF PlanApply, At, Checking
  <2>2. [at |-> "applying", g |-> conn[c].g, snapshot |-> edit[conn[c].g]] \in Session
    BY <1>1, <2>1 DEF Session, Applying
  <2> QED
    BY <1>2, <1>5, <2>2 DEF PlanApply
<1>6. ASSUME Apply(c) PROVE TxnTypeOK'
  <2> DEFINE snapshot == conn[c].snapshot
             written == [i \in Ident |->
                            IF snapshot[i] = NULL
                            THEN NULL
                            ELSE [is_live     |-> TRUE,
                                  rev_id      |-> snapshot[i].rev_id,
                                  redirect_id |-> snapshot[i].redirect_id]]
  <2>1. conn[c].g \in Editgroup /\ snapshot \in Snapshot
    BY <1>1, <1>6, SessionForm DEF Apply, At, Applying
  <2>2. written \in Written
    BY <2>1 DEF Written, Snapshot, IdentRow, EditRow
  <2>3. Go(c, [at |-> "applied", g |-> conn[c].g, edits |-> snapshot, written |-> written])
    BY <1>6 DEF Apply
  <2> HIDE DEF snapshot, written
  <2>4. [at |-> "applied", g |-> conn[c].g, edits |-> snapshot, written |-> written] \in Session
    BY <2>1, <2>2 DEF Session, Applied
  <2> QED
    BY <1>2, <1>6, <2>3, <2>4 DEF Apply
<1>7. ASSUME conn[c].at \in {"applied", "redirecting", "redirected"}
      PROVE  /\ conn[c].g \in Editgroup /\ conn[c].edits \in Snapshot /\ conn[c].written \in Written
             /\ Overlay(conn[c].written) \in [Ident -> IdentRow \cup {NULL}]
  <2>1. conn[c] \in Applied \/ conn[c] \in Redirecting
    BY <1>1, <1>7, SessionForm
  <2>2. conn[c].g \in Editgroup /\ conn[c].edits \in Snapshot /\ conn[c].written \in Written
    BY <2>1 DEF Applied, Redirecting
  <2> QED
    BY <1>1, <2>2 DEF Overlay, Written, TypeOK
<1>8. ASSUME PlanRedirects(c) PROVE TxnTypeOK'
  <2> DEFINE g == conn[c].g
             table == Overlay(conn[c].written)
             snapshot == [i \in Ident |->
                            IF RedirectsToEdited(g, table, i)
                            THEN [target |-> table[i].redirect_id,
                                  rev_id |-> edit[g][table[i].redirect_id].rev_id]
                            ELSE NULL]
  <2>1. /\ g \in Editgroup /\ conn[c].edits \in Snapshot /\ conn[c].written \in Written
        /\ table \in [Ident -> IdentRow \cup {NULL}]
    BY <1>7, <1>8 DEF PlanRedirects, At
  <2>2. ASSUME NEW i \in Ident, RedirectsToEdited(g, table, i)
        PROVE  /\ table[i].redirect_id \in Ident
               /\ edit[g][table[i].redirect_id].rev_id \in Rev \cup {NULL}
    <3>1. table[i] \in IdentRow /\ table[i].redirect_id # NULL
      BY <2>1, <2>2 DEF RedirectsToEdited
    <3>2. table[i].redirect_id \in Ident
      BY <3>1 DEF IdentRow
    <3> QED
      BY <1>1, <2>1, <2>2, <3>2, RowFields DEF RedirectsToEdited
  <2>3. snapshot \in RedirectSnapshot
    BY <2>2 DEF RedirectSnapshot, RedirectFound
  <2>4. Go(c, [at |-> "redirecting", g |-> g, edits |-> conn[c].edits,
               written |-> conn[c].written, snapshot |-> snapshot])
    BY <1>8 DEF PlanRedirects
  <2> HIDE DEF g, table, snapshot
  <2>5. [at |-> "redirecting", g |-> g, edits |-> conn[c].edits,
         written |-> conn[c].written, snapshot |-> snapshot] \in Session
    BY <2>1, <2>3 DEF Session, Redirecting
  <2> QED
    BY <1>2, <1>8, <2>4, <2>5 DEF PlanRedirects
<1>9. ASSUME FinishRedirects(c) PROVE TxnTypeOK'
  <2> DEFINE snapshot == conn[c].snapshot
             table == Overlay(conn[c].written)
             written == [i \in Ident |->
                            IF snapshot[i] # NULL /\ StillRedirects(table[i], snapshot[i])
                            THEN [table[i] EXCEPT !.rev_id = snapshot[i].rev_id]
                            ELSE conn[c].written[i]]
  <2>1. /\ conn[c].g \in Editgroup /\ conn[c].edits \in Snapshot /\ conn[c].written \in Written
        /\ table \in [Ident -> IdentRow \cup {NULL}]
    BY <1>7, <1>9 DEF FinishRedirects, At
  <2>2. snapshot \in RedirectSnapshot
    BY <1>1, <1>9, SessionForm DEF FinishRedirects, At, Redirecting
  <2>3. ASSUME NEW i \in Ident, snapshot[i] # NULL, table[i] # NULL
        PROVE  [table[i] EXCEPT !.rev_id = snapshot[i].rev_id] \in IdentRow
    <3>1. snapshot[i].rev_id \in Rev \cup {NULL} /\ table[i] \in IdentRow
      BY <2>1, <2>2, <2>3 DEF RedirectSnapshot, RedirectFound
    <3> QED
      BY <3>1 DEF IdentRow
  <2>4. \A i \in Ident : snapshot[i] # NULL => table[i] # NULL
    BY <1>9 DEF FinishRedirects, At, RowsExist, SessionRows, Overlay
  <2>5. written \in Written
    BY <2>1, <2>3, <2>4 DEF Written
  <2>6. Go(c, [at |-> "redirected", g |-> conn[c].g, edits |-> conn[c].edits,
               written |-> written])
    BY <1>9 DEF FinishRedirects
  <2> HIDE DEF snapshot, table, written
  <2>7. [at |-> "redirected", g |-> conn[c].g, edits |-> conn[c].edits,
         written |-> written] \in Session
    BY <2>1, <2>5 DEF Session, Applied
  <2> QED
    BY <1>2, <1>9, <2>6, <2>7 DEF FinishRedirects
<1>10. ASSUME CommitAccept(c) PROVE TxnTypeOK'
  <2>1. /\ conn[c].g \in Editgroup /\ conn[c].edits \in Snapshot
        /\ Overlay(conn[c].written) \in [Ident -> IdentRow \cup {NULL}]
    BY <1>7, <1>10 DEF CommitAccept, At
  <2>2. editgroup' \in [Editgroup -> EditgroupRow \cup {NULL}]
    <3>1. editgroup[conn[c].g] \in EditgroupRow
      BY <1>1, <1>10, <2>1 DEF CommitAccept, At, Accepting, Writing, RowsExist, SessionRows, TypeOK
    <3>2. [editgroup[conn[c].g] EXCEPT !.is_accepted = TRUE] \in EditgroupRow
      BY <3>1 DEF EditgroupRow
    <3> QED
      BY <1>1, <1>10, <3>2 DEF CommitAccept, TypeOK
  <2>3. conn' \in [Conn -> Session]
    BY <1>1, <1>10, GoType DEF CommitAccept
  <2> QED
    BY <1>1, <1>10, <2>1, <2>2, <2>3 DEF CommitAccept, TxnTypeOK, TypeOK
<1> QED
  BY <1>3, <1>4, <1>5, <1>6, <1>8, <1>9, <1>10 DEF AcceptCall

-----------------------------------------------------------------------------
(* Rows are never deleted, so what a call read is still there when it writes. *)

\* No statement deletes an ident or an editgroup.
LEMMA RowsKept ==
    ASSUME TxnTypeOK, TxnNext
    PROVE  /\ \A i \in Ident : ident[i] # NULL => ident'[i] # NULL
           /\ \A g \in Editgroup : editgroup[g] # NULL => editgroup'[g] # NULL
<1>1. TypeOK
  BY DEF TxnTypeOK
<1>2. ASSUME NEW g \in Editgroup, NewEditgroup(g) \/ NewBatch(g)
      PROVE  /\ \A i \in Ident : ident[i] # NULL => ident'[i] # NULL
             /\ \A h \in Editgroup : editgroup[h] # NULL => editgroup'[h] # NULL
  BY <1>1, <1>2 DEF NewEditgroup, CreateEditgroup, NewBatch, AutoBatch, Batches, TypeOK
<1>3. ASSUME NEW c \in Conn, EditCall(c)
      PROVE  editgroup' = editgroup /\ \A i \in Ident : ident[i] # NULL => ident'[i] # NULL
  BY <1>1, <1>3 DEF EditCall, BeginEdit, BeginDeleteEdit, ReadCurrent, InsertCreate,
      InsertUpdate, InsertRevert, ReadRedirectTarget, InsertDelete, InsertRedirect,
      FinishDeleteEdit, Tables, TypeOK
<1>4. ASSUME NEW c \in Conn, AcceptCall(c), ~CommitAccept(c)
      PROVE  UNCHANGED Tables
  BY <1>4 DEF AcceptCall, BeginAccept, CheckForward, CheckBackward, PlanApply, Apply,
      PlanRedirects, FinishRedirects
<1>5. ASSUME NEW c \in Conn, CommitAccept(c)
      PROVE  /\ \A i \in Ident : ident[i] # NULL => ident'[i] # NULL
             /\ \A g \in Editgroup : editgroup[g] # NULL => editgroup'[g] # NULL
  <2>1. \A i \in Ident : ident[i] # NULL => ident'[i] # NULL
    BY <1>5 DEF CommitAccept, Overlay
  <2>2. ASSUME NEW g \in Editgroup, editgroup[g] # NULL
        PROVE  editgroup'[g] # NULL
    <3>1. CASE g # conn[c].g
      BY <1>1, <1>5, <2>2, <3>1 DEF CommitAccept, TypeOK
    <3>2. CASE g = conn[c].g
      <4>1. editgroup[g] \in EditgroupRow
        BY <1>1, <2>2 DEF TypeOK
      <4>2. [editgroup[g] EXCEPT !.is_accepted = TRUE] \in EditgroupRow
        BY <4>1 DEF EditgroupRow
      <4> QED
        BY <1>1, <1>5, <3>2, <4>2, NullAssumption DEF CommitAccept, TypeOK
    <3> QED
      BY <3>1, <3>2
  <2> QED
    BY <2>1, <2>2
<1> QED
  BY <1>2, <1>3, <1>4, <1>5 DEF TxnNext, Rollback, Tables

\* A step of one connection leaves every other as it is, or with nothing to do.
LEMMA OthersKept ==
    ASSUME TxnTypeOK, NEW c \in Conn, EditCall(c) \/ AcceptCall(c) \/ Rollback(c),
           NEW d \in Conn, d # c
    PROVE  conn'[d] = conn[d] \/ conn'[d] = Idle
<1>1. (\E s : Go(c, s)) \/ FinishDeleteEdit(c)
  BY DEF EditCall, BeginEdit, BeginDeleteEdit, ReadCurrent, InsertCreate,
      InsertUpdate, InsertRevert, ReadRedirectTarget, InsertDelete, InsertRedirect, Insert,
      AcceptCall, BeginAccept, CheckForward, CheckBackward, PlanApply, Apply,
      PlanRedirects, FinishRedirects, CommitAccept, Rollback
<1> QED
  BY <1>1 DEF Go, FinishDeleteEdit, TxnTypeOK

\* A connection another one left alone still finds its rows.
LEMMA SessionRowsKept ==
    ASSUME TxnTypeOK, TxnNext, NEW d \in Conn, SessionRows(d),
           conn'[d] = conn[d] \/ conn'[d] = Idle
    PROVE  SessionRows(d)'
<1>1. CASE conn'[d] = Idle
  BY <1>1 DEF SessionRows, Accepting, Writing, Idle
<1>2. CASE conn'[d] = conn[d]
  <2>1. conn[d] \in Session
    BY DEF TxnTypeOK
  <2>2. conn[d].at \in {"read", "target"} => conn[d].i \in Ident
    BY <2>1, SessionForm DEF ReadRow, ReadTarget
  <2>3. Accepting(d) => conn[d].g \in Editgroup
    BY <2>1, SessionForm DEF Accepting, Writing, Checking, Applying, Applied, Redirecting
  <2> QED
    BY <1>2, <2>2, <2>3, RowsKept DEF SessionRows, Accepting, Writing
<1> QED
  BY <1>1, <1>2

\* Edits are made of entities that have a row, whichever call makes them.
LEMMA EditRowsNext ==
    ASSUME TxnTypeOK, RowsExist, TxnNext, NEW g \in Editgroup, NEW i \in Ident,
           edit'[g][i] # NULL
    PROVE  ident'[i] # NULL
<1>1. TypeOK
  BY DEF TxnTypeOK
<1>2. CASE edit'[g][i] = edit[g][i]
  BY <1>2, RowsKept DEF RowsExist
<1>3. ASSUME NEW h \in Editgroup, NewEditgroup(h) PROVE edit'[g][i] = edit[g][i]
  BY <1>3 DEF NewEditgroup, CreateEditgroup
<1>4. ASSUME NEW h \in Editgroup, NewBatch(h)
      PROVE  ident'[i] # NULL
  <2>1. PICK batch \in Batches : AutoBatch(h, batch)
    BY <1>4 DEF NewBatch
  <2>2. CASE g = h
    <3>1. i \in DOMAIN batch
      BY <1>1, <2>1, <2>2 DEF AutoBatch, TypeOK
    <3>2. ident'[i] \in IdentRow
      BY <2>1, <3>1 DEF AutoBatch, Batches, IdentRow
    <3> QED
      BY <3>2, NullAssumption
  <2>3. CASE g # h
    BY <1>1, <1>2, <2>1, <2>3 DEF AutoBatch, TypeOK
  <2> QED
    BY <2>2, <2>3
<1>5. ASSUME NEW c \in Conn, NEW j \in Ident, NEW row, Insert(c, j, row), ident'[j] # NULL,
             conn[c].g \in Editgroup
      PROVE  ident'[i] # NULL
  BY <1>1, <1>2, <1>5 DEF Insert, InsertEdit, TypeOK
<1>6. ASSUME NEW c \in Conn, EditCall(c)
      PROVE  ident'[i] # NULL
  <2>1. conn[c] \in Session
    BY DEF TxnTypeOK
  <2>2. CASE \E j \in Ident, r \in Rev : InsertCreate(c, j, r)
    <3>1. PICK j \in Ident, r \in Rev : InsertCreate(c, j, r)
      BY <2>2
    <3>2. ident'[j] \in IdentRow
      BY <1>1, <3>1 DEF InsertCreate, IdentRow, TypeOK
    <3>3. conn[c].g \in Editgroup
      BY <2>1, <3>1, SessionForm DEF InsertCreate, At, Opened
    <3> QED
      BY <1>5, <3>1, <3>2, <3>3, NullAssumption DEF InsertCreate
  <2>3. CASE \/ \E r \in Rev : InsertUpdate(c, r) \/ InsertRevert(c, r)
             \/ InsertDelete(c)
             \/ InsertRedirect(c)
    <3>1. conn[c].at \in {"read", "target"}
      BY <2>3 DEF InsertUpdate, InsertRevert, InsertDelete, InsertRedirect, At
    <3>2. conn[c].g \in Editgroup /\ conn[c].i \in Ident
      BY <2>1, <3>1, SessionForm DEF ReadRow, ReadTarget
    <3>3. ident'[conn[c].i] # NULL
      BY <3>1, <3>2, RowsKept DEF RowsExist, SessionRows
    <3>4. \E row : Insert(c, conn[c].i, row)
      BY <2>3 DEF InsertUpdate, InsertRevert, InsertDelete, InsertRedirect
    <3> QED
      BY <1>5, <3>2, <3>3, <3>4
  <2>4. CASE FinishDeleteEdit(c)
    <3>1. conn[c].g \in Editgroup /\ conn[c].i \in Ident
      BY <2>1, <2>4, SessionForm DEF FinishDeleteEdit, At, Deleting
    <3> QED
      BY <1>1, <1>2, <2>4, <3>1 DEF FinishDeleteEdit, TypeOK
  <2>5. CASE \/ \E h \in Editgroup : BeginEdit(c, h) \/ \E j \in Ident : BeginDeleteEdit(c, h, j)
             \/ \E j \in Ident : ReadCurrent(c, j)
             \/ \E t \in Ident : ReadRedirectTarget(c, t)
    BY <1>2, <2>5 DEF BeginEdit, BeginDeleteEdit, ReadCurrent, ReadRedirectTarget, Tables
  <2> QED
    BY <1>6, <2>2, <2>3, <2>4, <2>5 DEF EditCall
<1>7. ASSUME NEW c \in Conn, AcceptCall(c) \/ Rollback(c)
      PROVE  edit'[g][i] = edit[g][i]
  BY <1>7 DEF AcceptCall, BeginAccept, CheckForward, CheckBackward, PlanApply, Apply,
      PlanRedirects, FinishRedirects, CommitAccept, Rollback, Tables
<1> QED
  BY <1>2, <1>3, <1>4, <1>6, <1>7 DEF TxnNext

\* A connection's own step: it finds the rows it goes on to write.
LEMMA OwnRowsNext ==
    ASSUME TxnTypeOK, RowsExist, TxnNext, NEW c \in Conn, EditCall(c) \/ AcceptCall(c)
    PROVE  SessionRows(c)'
<1>1. TypeOK /\ conn[c] \in Session /\ SessionRows(c)
  BY DEF TxnTypeOK, RowsExist
<1>2. CASE conn'[c].at \in {"idle", "opened", "deleting"}
  BY <1>2 DEF SessionRows, Accepting, Writing
<1>3. ASSUME NEW s, Go(c, s) PROVE conn'[c] = s
  BY <1>3 DEF Go, TxnTypeOK
<1>4. ASSUME EditCall(c) PROVE SessionRows(c)'
  <2>1. ASSUME NEW i \in Ident, ReadCurrent(c, i) PROVE SessionRows(c)'
    <3>1. conn'[c].at = "read" /\ conn'[c].i = i /\ ident'[i] # NULL
      BY <1>3, <2>1 DEF ReadCurrent, Tables
    <3> QED
      BY <3>1 DEF SessionRows, Accepting, Writing
  <2>2. ASSUME NEW t \in Ident, ReadRedirectTarget(c, t) PROVE SessionRows(c)'
    <3>1. conn'[c].at = "target" /\ conn'[c].i = conn[c].i /\ conn[c].at = "read"
      BY <1>3, <2>2 DEF ReadRedirectTarget, At
    <3>2. ident'[conn[c].i] # NULL
      BY <1>1, <2>2, <3>1 DEF ReadRedirectTarget, SessionRows, Tables
    <3> QED
      BY <3>1, <3>2 DEF SessionRows, Accepting, Writing
  <2>3. ASSUME NEW s, Go(c, s), s.at \in {"idle", "opened", "deleting"} PROVE SessionRows(c)'
    BY <1>2, <1>3, <2>3
  <2>4. CASE FinishDeleteEdit(c)
    <3>1. conn'[c].at = "idle"
      BY <2>4 DEF FinishDeleteEdit, Idle
    <3> QED
      BY <1>2, <3>1
  <2>5. CASE \/ \E g \in Editgroup : BeginEdit(c, g) \/ \E i \in Ident : BeginDeleteEdit(c, g, i)
             \/ \E i \in Ident, r \in Rev : InsertCreate(c, i, r)
             \/ \E r \in Rev : InsertUpdate(c, r) \/ InsertRevert(c, r)
             \/ InsertDelete(c)
             \/ InsertRedirect(c)
    BY <2>3, <2>5 DEF BeginEdit, BeginDeleteEdit, InsertCreate, InsertUpdate, InsertRevert,
        InsertDelete, InsertRedirect, Insert, Idle
  <2> QED
    BY <1>4, <2>1, <2>2, <2>4, <2>5 DEF EditCall
<1>5. ASSUME NEW g \in Editgroup, BeginAccept(c, g) PROVE SessionRows(c)'
  <2>1. conn'[c].at = "checked" /\ conn'[c].g = g /\ editgroup'[g] # NULL
    BY <1>3, <1>5 DEF BeginAccept, Tables
  <2> QED
    BY <2>1 DEF SessionRows, Accepting, Writing
<1>6. ASSUME CheckForward(c) \/ CheckBackward(c) PROVE SessionRows(c)'
  <2>1. conn[c] \in Checking
    BY <1>1, <1>6, SessionForm DEF CheckForward, CheckBackward, At
  <2>2. conn'[c].at \in {"forward", "backward"} /\ conn'[c].g = conn[c].g
    BY <1>3, <1>6, <2>1 DEF CheckForward, CheckBackward, Checking
  <2>3. editgroup'[conn[c].g] # NULL
    BY <1>1, <1>6, <2>1 DEF CheckForward, CheckBackward, Checking, SessionRows, Accepting, Tables
  <2> QED
    BY <2>2, <2>3 DEF SessionRows, Accepting, Writing
<1>7. ASSUME PlanApply(c) PROVE SessionRows(c)'
  <2>1. /\ conn[c].g \in Editgroup
        /\ conn'[c].at = "applying" /\ conn'[c].g = conn[c].g
        /\ conn'[c].snapshot = edit[conn[c].g]
    BY <1>1, <1>3, <1>7, SessionForm DEF PlanApply, At, Checking
  <2>2. editgroup'[conn[c].g] # NULL /\ ident' = ident
    BY <1>1, <1>7 DEF PlanApply, At, SessionRows, Accepting, Tables
  <2> QED
    BY <2>1, <2>2 DEF SessionRows, Accepting, Writing, RowsExist
<1>8. ASSUME Apply(c) PROVE SessionRows(c)'
  <2>1. /\ conn'[c].at = "applied" /\ conn'[c].g = conn[c].g
        /\ \A i \in Ident : conn'[c].written[i] # NULL => conn[c].snapshot[i] # NULL
    BY <1>3, <1>8 DEF Apply
  <2>2. /\ editgroup'[conn[c].g] # NULL /\ ident' = ident
        /\ \A i \in Ident : conn[c].snapshot[i] # NULL => ident[i] # NULL
    BY <1>1, <1>8 DEF Apply, At, SessionRows, Accepting, Tables
  <2> QED
    BY <2>1, <2>2 DEF SessionRows, Accepting, Writing
<1>9. ASSUME PlanRedirects(c) PROVE SessionRows(c)'
  <2>1. /\ conn'[c].at = "redirecting" /\ conn'[c].g = conn[c].g
        /\ conn'[c].written = conn[c].written
        /\ \A i \in Ident : conn'[c].snapshot[i] # NULL => Overlay(conn[c].written)[i] # NULL
    <3> DEFINE table == Overlay(conn[c].written)
               snapshot == [i \in Ident |->
                              IF RedirectsToEdited(conn[c].g, table, i)
                              THEN [target |-> table[i].redirect_id,
                                    rev_id |-> edit[conn[c].g][table[i].redirect_id].rev_id]
                              ELSE NULL]
    <3>1. Go(c, [at |-> "redirecting", g |-> conn[c].g, edits |-> conn[c].edits,
                 written |-> conn[c].written, snapshot |-> snapshot])
      BY <1>9 DEF PlanRedirects
    <3>2. \A i \in Ident : snapshot[i] # NULL => table[i] # NULL
      BY DEF RedirectsToEdited
    <3> HIDE DEF snapshot
    <3> QED
      BY <1>3, <3>1, <3>2
  <2>2. /\ editgroup'[conn[c].g] # NULL /\ ident' = ident
        /\ \A i \in Ident : conn[c].written[i] # NULL => ident[i] # NULL
    BY <1>1, <1>9 DEF PlanRedirects, At, SessionRows, Accepting, Writing, Tables
  <2>3. \A i \in Ident : conn'[c].snapshot[i] # NULL => ident[i] # NULL
    BY <2>1, <2>2 DEF Overlay
  <2> QED
    BY <2>1, <2>2, <2>3 DEF SessionRows, Accepting, Writing
<1>10. ASSUME FinishRedirects(c) PROVE SessionRows(c)'
  <2>1. /\ conn'[c].at = "redirected" /\ conn'[c].g = conn[c].g
        /\ \A i \in Ident : conn'[c].written[i] # NULL =>
              conn[c].snapshot[i] # NULL \/ conn[c].written[i] # NULL
    BY <1>3, <1>10 DEF FinishRedirects
  <2>2. /\ editgroup'[conn[c].g] # NULL /\ ident' = ident
        /\ \A i \in Ident : conn[c].snapshot[i] # NULL => ident[i] # NULL
        /\ \A i \in Ident : conn[c].written[i] # NULL => ident[i] # NULL
    BY <1>1, <1>10 DEF FinishRedirects, At, SessionRows, Accepting, Writing, Tables
  <2> QED
    BY <2>1, <2>2 DEF SessionRows, Accepting, Writing
<1>11. ASSUME CommitAccept(c) PROVE SessionRows(c)'
  BY <1>2, <1>3, <1>11 DEF CommitAccept, Idle
<1> QED
  BY <1>4, <1>5, <1>6, <1>7, <1>8, <1>9, <1>10, <1>11 DEF AcceptCall

\* The two together, through every step.
LEMMA TxnTypeNext ==
    ASSUME TxnTypeOK, RowsExist, [TxnNext]_txnVars
    PROVE  TxnTypeOK' /\ RowsExist'
<1>1. CASE UNCHANGED txnVars
  BY <1>1 DEF txnVars, TxnTypeOK, TypeOK, RowsExist, SessionRows, Accepting, Writing
<1>2. CASE TxnNext
  <2>1. TxnTypeOK'
    <3>1. ASSUME NEW g \in Editgroup, NewEditgroup(g) PROVE TxnTypeOK'
      <4>1. TypeOK'
        BY <3>1, TypeNext DEF NewEditgroup, Next, TxnTypeOK
      <4> QED
        BY <3>1, <4>1 DEF NewEditgroup, TxnTypeOK
    <3>2. ASSUME NEW g \in Editgroup, NewBatch(g) PROVE TxnTypeOK'
      <4>1. TypeOK'
        BY <3>2, TypeNext DEF NewBatch, Next, TxnTypeOK
      <4>2. edit'[g] \in Snapshot
        BY <4>1 DEF TypeOK, Snapshot
      <4> QED
        BY <3>2, <4>1, <4>2 DEF NewBatch, TxnTypeOK
    <3>3. ASSUME NEW c \in Conn, Rollback(c) PROVE TxnTypeOK'
      <4>1. Idle \in Session
        BY DEF Session
      <4>2. conn' \in [Conn -> Session]
        BY <3>3, <4>1, GoType DEF Rollback
      <4> QED
        BY <3>3, <4>2 DEF Rollback, Tables, TxnTypeOK, TypeOK
    <3> QED
      BY <1>2, <3>1, <3>2, <3>3, EditCallType, AcceptCallType DEF TxnNext
  <2>2. ASSUME NEW d \in Conn PROVE SessionRows(d)'
    <3>1. SessionRows(d)
      BY DEF RowsExist
    <3>2. CASE \E g \in Editgroup : NewEditgroup(g) \/ NewBatch(g)
      <4>1. conn' = conn
        BY <3>2 DEF NewEditgroup, NewBatch
      <4> QED
        BY <1>2, <3>1, <4>1, SessionRowsKept
    <3>3. ASSUME NEW c \in Conn, EditCall(c) \/ AcceptCall(c) \/ Rollback(c), d # c
          PROVE  SessionRows(d)'
      BY <1>2, <3>1, <3>3, OthersKept, SessionRowsKept
    <3>4. CASE EditCall(d) \/ AcceptCall(d)
      BY <1>2, <3>4, OwnRowsNext
    <3>5. CASE Rollback(d)
      BY <1>2, <3>1, <3>5, SessionRowsKept DEF Rollback, Go, TxnTypeOK
    <3> QED
      BY <1>2, <3>2, <3>3, <3>4, <3>5 DEF TxnNext
  <2> QED
    BY <1>2, <2>1, <2>2, EditRowsNext DEF RowsExist
<1> QED
  BY <1>1, <1>2

\* The two together, at the start.
LEMMA TxnRowsInit == TxnInit => RowsExist
BY DEF TxnInit, Init, RowsExist, SessionRows, Accepting, Writing, Idle

\* They hold of every reachable state.
LEMMA TxnTypeAlways == TxnSpec => [](TxnTypeOK /\ RowsExist)
BY TxnTypeInit, TxnRowsInit, TxnTypeNext, PTL DEF TxnSpec

\* Whatever the interleaving, the committed tables and what every transaction
\* holds are well-formed: no statement writes a row it has no ident row for.
THEOREM TxnTypeCorrect == TxnSpec => []TxnTypeOK
BY TxnTypeAlways, PTL

-----------------------------------------------------------------------------
(* What an accept has written and not committed. *)

\* An accept writes every row its edits name, to say what the edit says, and of
\* other rows only the revision a redirect shows.
WrittenRow(c, i) ==
    LET new == conn[c].written[i]
        row == conn[c].edits[i]
    IN  /\ row # NULL =>
              /\ new # NULL
              /\ new.is_live
              /\ new.redirect_id = row.redirect_id
              /\ row.redirect_id = NULL => new.rev_id = row.rev_id
        /\ row = NULL /\ new # NULL =>
              /\ new.is_live = ident[i].is_live
              /\ new.redirect_id = ident[i].redirect_id
              /\ new.redirect_id # NULL

WritesEdits == \A c \in Conn : Writing(c) => \A i \in Ident : WrittenRow(c, i)

\* No two accepts have written the same row: the second waits for the first.
RowsLocked ==
    \A c, d \in Conn : c # d /\ Writing(c) /\ Writing(d) =>
        \A i \in Ident : conn[c].written[i] = NULL \/ conn[d].written[i] = NULL

TxnInv == TxnTypeOK /\ RowsExist /\ WritesEdits /\ RowsLocked

\* What a connection in the middle of an accept holds.
LEMMA WritingForm ==
    ASSUME TxnTypeOK, NEW c \in Conn, Writing(c)
    PROVE  /\ conn[c].g \in Editgroup /\ conn[c].edits \in Snapshot /\ conn[c].written \in Written
           /\ Overlay(conn[c].written) \in [Ident -> IdentRow \cup {NULL}]
<1>1. conn[c] \in Applied \/ conn[c] \in Redirecting
  BY SessionForm DEF Writing, TxnTypeOK
<1>2. conn[c].g \in Editgroup /\ conn[c].edits \in Snapshot /\ conn[c].written \in Written
  BY <1>1 DEF Applied, Redirecting
<1> QED
  BY <1>2 DEF Overlay, Written, TxnTypeOK, TypeOK

\* A row an accept has written stays as it was until the accept commits or is
\* rolled back: the statements of others insert rows or wait.
LEMMA WrittenRowKept ==
    ASSUME TxnInv, TxnNext, NEW d \in Conn, Writing(d), conn'[d] = conn[d],
           NEW i \in Ident, conn[d].written[i] # NULL
    PROVE  ident'[i] = ident[i]
<1>1. ident[i] # NULL
  BY DEF TxnInv, RowsExist, SessionRows
<1>2. ASSUME NEW g \in Editgroup, NewEditgroup(g) \/ NewBatch(g)
      PROVE  ident'[i] = ident[i]
  BY <1>1, <1>2 DEF NewEditgroup, CreateEditgroup, NewBatch, AutoBatch, Batches
<1>3. ASSUME NEW c \in Conn, EditCall(c)
      PROVE  ident'[i] = ident[i]
  BY <1>1, <1>3 DEF EditCall, BeginEdit, BeginDeleteEdit, ReadCurrent, InsertCreate,
      InsertUpdate, InsertRevert, ReadRedirectTarget, InsertDelete, InsertRedirect,
      FinishDeleteEdit, Tables, TxnInv, TxnTypeOK, TypeOK
<1>4. ASSUME NEW c \in Conn, CommitAccept(c)
      PROVE  ident'[i] = ident[i]
  <2>1. conn'[c] = Idle /\ Writing(c)
    BY <1>4 DEF CommitAccept, Go, At, Writing, TxnInv, TxnTypeOK
  <2>2. c # d
    BY <2>1 DEF Writing, Idle
  <2>3. conn[c].written[i] = NULL
    BY <2>1, <2>2 DEF TxnInv, RowsLocked
  <2> QED
    BY <1>4, <2>3 DEF CommitAccept, Overlay
<1>5. ASSUME NEW c \in Conn, AcceptCall(c) \/ Rollback(c), ~CommitAccept(c)
      PROVE  ident' = ident
  BY <1>5 DEF AcceptCall, BeginAccept, CheckForward, CheckBackward, PlanApply, Apply,
      PlanRedirects, FinishRedirects, Rollback, Tables
<1> QED
  BY <1>2, <1>3, <1>4, <1>5 DEF TxnNext

\* The first UPDATE writes the rows its snapshot names, once they are free.
LEMMA ApplyWrites ==
    ASSUME TxnInv, NEW c \in Conn, Apply(c)
    PROVE  /\ \A i \in Ident : WrittenRow(c, i)'
           /\ \A d \in Conn \ {c} : Writing(d) =>
                 \A i \in Ident : conn'[c].written[i] # NULL => conn[d].written[i] = NULL
<1> DEFINE snapshot == conn[c].snapshot
           Row(i) == [is_live     |-> TRUE,
                      rev_id      |-> snapshot[i].rev_id,
                      redirect_id |-> snapshot[i].redirect_id]
           written == [i \in Ident |-> IF snapshot[i] = NULL THEN NULL ELSE Row(i)]
<1>1. snapshot \in Snapshot
  BY SessionForm DEF Apply, At, Applying, TxnInv, TxnTypeOK
<1>2. Go(c, [at |-> "applied", g |-> conn[c].g, edits |-> snapshot, written |-> written])
  BY DEF Apply
<1>3. \A i \in Ident : snapshot[i] # NULL => ~Locked(c, i)
  BY DEF Apply
<1>4. \A i \in Ident : snapshot[i] # NULL => Row(i) \in IdentRow
  BY <1>1 DEF Snapshot, EditRow, IdentRow
<1>5. ASSUME NEW i \in Ident
      PROVE  /\ snapshot[i] = NULL => written[i] = NULL
             /\ snapshot[i] # NULL => /\ written[i] # NULL
                                      /\ written[i].is_live
                                      /\ written[i].redirect_id = snapshot[i].redirect_id
                                      /\ written[i].rev_id = snapshot[i].rev_id
  BY <1>4, NullAssumption
<1> HIDE DEF snapshot, written
<1>6. conn'[c].edits = snapshot /\ conn'[c].written = written
  BY <1>2 DEF Go, TxnInv, TxnTypeOK
<1>7. \A i \in Ident : WrittenRow(c, i)'
  BY <1>5, <1>6 DEF WrittenRow
<1>8. ASSUME NEW d \in Conn \ {c}, Writing(d), NEW i \in Ident, written[i] # NULL
      PROVE  conn[d].written[i] = NULL
  BY <1>3, <1>5, <1>8 DEF Locked, Writing
<1> QED
  BY <1>6, <1>7, <1>8

\* The second UPDATE gives redirects a revision and touches nothing else of them.
LEMMA RedirectsWrites ==
    ASSUME TxnInv, NEW c \in Conn, FinishRedirects(c)
    PROVE  /\ \A i \in Ident : WrittenRow(c, i)'
           /\ \A d \in Conn \ {c} : Writing(d) =>
                 \A i \in Ident : conn'[c].written[i] # NULL => conn[d].written[i] = NULL
<1> DEFINE snapshot == conn[c].snapshot
           edits == conn[c].edits
           old == conn[c].written
           table == Overlay(old)
           Row(i) == [table[i] EXCEPT !.rev_id = snapshot[i].rev_id]
           written == [i \in Ident |->
                          IF snapshot[i] # NULL /\ StillRedirects(table[i], snapshot[i])
                          THEN Row(i)
                          ELSE old[i]]
<1>1. Writing(c)
  BY DEF FinishRedirects, At, Writing
<1>2. /\ snapshot \in RedirectSnapshot
      /\ \A i \in Ident : snapshot[i] # NULL => ident[i] # NULL
      /\ \A i \in Ident : WrittenRow(c, i)
  BY <1>1, SessionForm DEF FinishRedirects, At, Redirecting, TxnInv, TxnTypeOK, RowsExist,
     SessionRows, WritesEdits
<1>3. table \in [Ident -> IdentRow \cup {NULL}] /\ old \in Written
  BY <1>1, WritingForm DEF TxnInv
<1>4. Go(c, [at |-> "redirected", g |-> conn[c].g, edits |-> edits, written |-> written])
  BY DEF FinishRedirects
<1>5. \A i \in Ident : snapshot[i] # NULL => ~Locked(c, i)
  BY DEF FinishRedirects
<1>6. ident' = ident
  BY DEF FinishRedirects, Tables
<1>7. ASSUME NEW i \in Ident, written[i] # old[i]
      PROVE  /\ snapshot[i] # NULL
             /\ table[i] # NULL
             /\ written[i] # NULL
             /\ written[i].is_live = table[i].is_live
             /\ written[i].redirect_id = table[i].redirect_id
             /\ table[i].redirect_id # NULL
  <2>1. snapshot[i] # NULL /\ StillRedirects(table[i], snapshot[i]) /\ written[i] = Row(i)
    BY <1>7
  <2>2. snapshot[i].target \in Ident /\ snapshot[i].rev_id \in Rev \cup {NULL}
    BY <1>2, <2>1 DEF RedirectSnapshot, RedirectFound
  <2>3. table[i] # NULL
    BY <1>2, <2>1 DEF Overlay
  <2>4. table[i] \in IdentRow
    BY <1>3, <2>3
  <2> HIDE DEF table, snapshot, written
  <2>5. Row(i) \in IdentRow /\ Row(i).is_live = table[i].is_live
        /\ Row(i).redirect_id = table[i].redirect_id
    BY <2>2, <2>4 DEF IdentRow
  <2>6. table[i].redirect_id # NULL
    BY <2>1, <2>2, NullAssumption DEF StillRedirects
  <2> QED
    BY <2>1, <2>3, <2>5, <2>6, NullAssumption
<1>8. \A i \in Ident : table[i] = IF old[i] # NULL THEN old[i] ELSE ident[i]
  BY DEF Overlay
<1> HIDE DEF snapshot, written, table
<1>9. conn'[c].edits = edits /\ conn'[c].written = written
  BY <1>4 DEF Go, TxnInv, TxnTypeOK
<1>10. ASSUME NEW i \in Ident PROVE WrittenRow(c, i)'
  <2>1. CASE written[i] = old[i]
    BY <1>2, <1>6, <1>9, <2>1 DEF WrittenRow
  <2>2. CASE written[i] # old[i]
    BY <1>2, <1>6, <1>7, <1>8, <1>9, <2>2 DEF WrittenRow
  <2> QED
    BY <2>1, <2>2
<1>11. ASSUME NEW d \in Conn \ {c}, Writing(d), NEW i \in Ident, written[i] # NULL
       PROVE  conn[d].written[i] = NULL
  <2>1. CASE written[i] = old[i]
    BY <1>1, <1>11, <2>1 DEF TxnInv, RowsLocked
  <2>2. CASE written[i] # old[i]
    BY <1>5, <1>7, <1>11, <2>2 DEF Locked, Writing
  <2> QED
    BY <2>1, <2>2
<1> QED
  BY <1>9, <1>10, <1>11

\* Any other step of a connection leaves what it has written, if it is writing.
LEMMA WritingStep ==
    ASSUME TxnTypeOK, NEW c \in Conn, EditCall(c) \/ AcceptCall(c) \/ Rollback(c),
           ~Apply(c), ~FinishRedirects(c), Writing(c)'
    PROVE  /\ Writing(c) /\ ident' = ident
           /\ conn'[c].written = conn[c].written /\ conn'[c].edits = conn[c].edits
<1>1. ASSUME NEW s, Go(c, s) PROVE conn'[c] = s
  BY <1>1 DEF Go, TxnTypeOK
<1>2. ASSUME NEW s, Go(c, s), ~(s.at \in {"applied", "redirecting", "redirected"}) PROVE FALSE
  BY <1>1, <1>2 DEF Writing
<1>3. CASE PlanRedirects(c)
  <2>1. /\ Writing(c) /\ ident' = ident
        /\ \E snapshot : Go(c, [at |-> "redirecting", g |-> conn[c].g, edits |-> conn[c].edits,
                                written |-> conn[c].written, snapshot |-> snapshot])
    BY <1>3 DEF PlanRedirects, At, Writing, Tables
  <2> QED
    BY <1>1, <2>1
<1>4. CASE FinishDeleteEdit(c)
  BY <1>4 DEF FinishDeleteEdit, Writing, Idle
<1>5. CASE CheckForward(c) \/ CheckBackward(c)
  <2>1. conn[c] \in Checking
    BY <1>5, SessionForm DEF CheckForward, CheckBackward, At, TxnTypeOK
  <2> QED
    BY <1>2, <1>5, <2>1 DEF CheckForward, CheckBackward, Checking
<1>6. CASE EditCall(c) /\ ~FinishDeleteEdit(c)
  BY <1>2, <1>6 DEF EditCall, BeginEdit, BeginDeleteEdit, ReadCurrent, InsertCreate,
      InsertUpdate, InsertRevert, ReadRedirectTarget, InsertDelete, InsertRedirect, Insert, Idle
<1>7. CASE \/ \E g \in Editgroup : BeginAccept(c, g)
           \/ PlanApply(c) \/ CommitAccept(c) \/ Rollback(c)
  BY <1>2, <1>7 DEF BeginAccept, PlanApply, CommitAccept, Rollback, Idle
<1> QED
  BY <1>3, <1>4, <1>5, <1>6, <1>7 DEF AcceptCall

\* What a connection has written is right after every step, its own or another's.
LEMMA WritesEditsNext ==
    ASSUME TxnInv, TxnNext
    PROVE  WritesEdits'
<1> SUFFICES ASSUME NEW d \in Conn, Writing(d)' PROVE (\A i \in Ident : WrittenRow(d, i))'
  BY DEF WritesEdits
<1>1. CASE conn'[d] = conn[d]
  <2>1. Writing(d) /\ \A i \in Ident : WrittenRow(d, i)
    BY <1>1 DEF Writing, TxnInv, WritesEdits
  <2>2. \A i \in Ident : conn[d].written[i] # NULL => ident'[i] = ident[i]
    BY <1>1, <2>1, WrittenRowKept
  <2> QED
    BY <1>1, <2>1, <2>2 DEF WrittenRow
<1>2. CASE conn'[d] = Idle
  BY <1>2 DEF Writing, Idle
<1>3. CASE EditCall(d) \/ AcceptCall(d) \/ Rollback(d)
  <2>1. CASE Apply(d) \/ FinishRedirects(d)
    BY <2>1, ApplyWrites, RedirectsWrites
  <2>2. CASE ~Apply(d) /\ ~FinishRedirects(d)
    <3>1. /\ Writing(d) /\ ident' = ident
          /\ conn'[d].written = conn[d].written /\ conn'[d].edits = conn[d].edits
      BY <1>3, <2>2, WritingStep DEF TxnInv
    <3>2. \A i \in Ident : WrittenRow(d, i)
      BY <3>1 DEF TxnInv, WritesEdits
    <3> QED
      BY <3>1, <3>2 DEF WrittenRow
  <2> QED
    BY <2>1, <2>2
<1>4. ASSUME NEW c \in Conn, c # d, EditCall(c) \/ AcceptCall(c) \/ Rollback(c)
      PROVE  conn'[d] = conn[d] \/ conn'[d] = Idle
  BY <1>4, OthersKept DEF TxnInv
<1>5. ASSUME NEW g \in Editgroup, NewEditgroup(g) \/ NewBatch(g)
      PROVE  conn'[d] = conn[d]
  BY <1>5 DEF NewEditgroup, NewBatch
<1> QED
  BY <1>1, <1>2, <1>3, <1>4, <1>5 DEF TxnNext

\* No statement writes a row another transaction holds.
LEMMA RowsLockedNext ==
    ASSUME TxnInv, TxnNext
    PROVE  RowsLocked'
<1> DEFINE Apart(c, d) == \A i \in Ident : conn[c].written[i] = NULL \/ conn[d].written[i] = NULL
<1>1. ASSUME NEW c \in Conn, Writing(c)'
      PROVE  \/ Apply(c) \/ FinishRedirects(c)
             \/ Writing(c) /\ conn'[c].written = conn[c].written
  <2>1. CASE conn'[c] = conn[c]
    BY <1>1, <2>1 DEF Writing
  <2>2. CASE conn'[c] = Idle
    BY <1>1, <2>2 DEF Writing, Idle
  <2>3. CASE EditCall(c) \/ AcceptCall(c) \/ Rollback(c)
    BY <1>1, <2>3, WritingStep DEF TxnInv
  <2>4. ASSUME NEW d \in Conn, c # d, EditCall(d) \/ AcceptCall(d) \/ Rollback(d)
        PROVE  conn'[c] = conn[c] \/ conn'[c] = Idle
    BY <2>4, OthersKept DEF TxnInv
  <2>5. ASSUME NEW g \in Editgroup, NewEditgroup(g) \/ NewBatch(g)
        PROVE  conn'[c] = conn[c]
    BY <2>5 DEF NewEditgroup, NewBatch
  <2> QED
    BY <2>1, <2>2, <2>3, <2>4, <2>5 DEF TxnNext
<1>2. ASSUME NEW c \in Conn, NEW d \in Conn, c # d, Apply(c) \/ FinishRedirects(c), Writing(d)'
      PROVE  Apart(c, d)'
  <2>1. conn'[d] = conn[d]
    <3>1. \E s : Go(c, s)
      BY <1>2 DEF Apply, FinishRedirects
    <3> QED
      BY <1>2, <3>1 DEF Go, TxnInv, TxnTypeOK
  <2>2. Writing(d)
    BY <1>2, <2>1 DEF Writing
  <2>3. \A i \in Ident : conn'[c].written[i] # NULL => conn[d].written[i] = NULL
    BY <1>2, <2>2, ApplyWrites, RedirectsWrites
  <2> QED
    BY <2>1, <2>3
<1>3. ASSUME NEW c \in Conn, NEW d \in Conn, c # d, Writing(c)', Writing(d)'
      PROVE  Apart(c, d)'
  <2>1. CASE Apply(c) \/ FinishRedirects(c)
    BY <1>2, <1>3, <2>1
  <2>2. CASE Apply(d) \/ FinishRedirects(d)
    BY <1>2, <1>3, <2>2
  <2>3. CASE /\ Writing(c) /\ conn'[c].written = conn[c].written
             /\ Writing(d) /\ conn'[d].written = conn[d].written
    BY <1>3, <2>3 DEF TxnInv, RowsLocked
  <2> QED
    BY <1>1, <1>3, <2>1, <2>2, <2>3
<1> QED
  BY <1>3 DEF RowsLocked

\* The inductive invariant holds of every reachable state.
LEMMA TxnInvAlways == TxnSpec => []TxnInv
<1>1. TxnInit => TxnInv
  BY TxnTypeInit, TxnRowsInit
     DEF TxnInv, TxnInit, WritesEdits, RowsLocked, Writing, Idle
<1>2. ASSUME TxnInv, [TxnNext]_txnVars PROVE TxnInv'
  <2>1. CASE UNCHANGED txnVars
    BY <1>2, <2>1, TxnTypeNext
       DEF TxnInv, txnVars, WritesEdits, RowsLocked, Writing, WrittenRow
  <2>2. CASE TxnNext
    BY <1>2, <2>2, TxnTypeNext, WritesEditsNext, RowsLockedNext DEF TxnInv
  <2> QED
    BY <1>2, <2>1, <2>2
<1> QED
  BY <1>1, <1>2, PTL DEF TxnSpec

-----------------------------------------------------------------------------
(* Every commit publishes what its accept read, whole, and nothing else does. *)

\* What the log shows of the edits an accept applied.
ShownEdits(s) == [i \in {i \in Ident : s[i] # NULL} |-> Shown(s[i])]

\* The edits of an editgroup are a changeset of the published log.
LEMMA ShownEditsType ==
    ASSUME NEW s \in Snapshot
    PROVE  ShownEdits(s) \in TxnLog!Changeset
<1>1. \A i \in Ident : s[i] # NULL => Shown(s[i]) \in Pointer
  BY DEF Snapshot, EditRow, Shown, Pointer
<1>2. ShownEdits(s) \in [{i \in Ident : s[i] # NULL} -> Pointer]
  BY <1>1 DEF ShownEdits
<1> QED
  BY <1>2 DEF TxnLog!Changeset

\* A step that logs some edits and moves exactly the entities they are of, each to
\* where its edit says, publishes a changeset.
LEMMA TxnPublishStep ==
    ASSUME applied \in Seq(Snapshot), NEW s \in Snapshot, applied' = Append(applied, s),
           \A i \in Ident : PublishedHead'[i] =
               IF s[i] # NULL THEN Shown(s[i]) ELSE PublishedHead[i]
    PROVE  TxnLog!Next
<1> DEFINE n == Len(applied)
           old == TxnChangesets
           changeset == ShownEdits(s)
<1>1. /\ n \in Nat /\ DOMAIN applied = 1..n /\ DOMAIN applied' = 1..(n + 1)
      /\ \A k \in 1..n : applied'[k] = applied[k] /\ applied[k] \in Snapshot
      /\ applied'[n + 1] = s
  OBVIOUS
<1>2. changeset \in TxnLog!Changeset
  BY ShownEditsType
<1>3. old = [k \in 1..n |-> ShownEdits(applied[k])]
  BY <1>1 DEF TxnChangesets, ShownEdits
<1>4. TxnChangesets' = [k \in 1..(n + 1) |-> ShownEdits(applied'[k])]
  BY <1>1 DEF TxnChangesets, ShownEdits, Shown
<1> HIDE DEF old, changeset, n
<1>5. PICK new : new = TxnChangesets'
  OBVIOUS
<1>6. old \in Seq(TxnLog!Changeset) /\ Len(old) = n
  <2>1. old \in [1..n -> TxnLog!Changeset]
    BY <1>1, <1>3, ShownEditsType
  <2> QED
    BY <1>1, <2>1, SeqDef, LenProperties
<1>7. new \in Seq(TxnLog!Changeset) /\ Len(new) = n + 1
  <2>1. new \in [1..(n + 1) -> TxnLog!Changeset]
    BY <1>1, <1>4, <1>5, ShownEditsType
  <2> QED
    BY <1>1, <2>1, SeqDef, LenProperties
<1>8. (\A k \in 1..n : new[k] = old[k]) /\ new[n + 1] = changeset
  <2>1. \A k \in 1..(n + 1) : new[k] = ShownEdits(applied'[k])
    BY <1>4, <1>5
  <2> QED
    BY <1>1, <1>3, <2>1 DEF changeset
<1>9. Append(old, changeset) \in Seq(TxnLog!Changeset) /\ Len(Append(old, changeset)) = n + 1
      /\ (\A k \in 1..n : Append(old, changeset)[k] = old[k])
      /\ Append(old, changeset)[n + 1] = changeset
  BY <1>1, <1>2, <1>6
<1>10. new = Append(old, changeset)
  <2>1. \A k \in 1..(n + 1) : new[k] = Append(old, changeset)[k]
    BY <1>1, <1>8, <1>9
  <2> QED
    BY <1>7, <1>9, <2>1, SeqEqual
<1>11. PublishedHead' = [i \in Ident |-> IF i \in DOMAIN changeset THEN changeset[i]
                                                                 ELSE PublishedHead[i]]
  <2>1. DOMAIN changeset = {i \in Ident : s[i] # NULL}
        /\ \A i \in DOMAIN changeset : changeset[i] = Shown(s[i])
    BY DEF changeset, ShownEdits
  <2>2. \A i \in Ident : PublishedHead'[i] = IF i \in DOMAIN changeset THEN changeset[i]
                                                                 ELSE PublishedHead[i]
    BY <2>1
  <2> QED
    BY <2>2 DEF PublishedHead
<1> QED
  BY <1>1, <1>2, <1>5, <1>6, <1>7, <1>8, <1>10, <1>11 DEF TxnLog!Next, TxnLog!Publish, old

\* COMMIT of an accept publishes the edits its first UPDATE read.
LEMMA CommitPublishes ==
    ASSUME TxnInv, NEW c \in Conn, CommitAccept(c)
    PROVE  TxnLog!Next
<1> DEFINE edits == conn[c].edits
           written == conn[c].written
<1>1. Writing(c)
  BY DEF CommitAccept, At, Writing
<1>2. edits \in Snapshot /\ \A i \in Ident : WrittenRow(c, i)
  BY <1>1, WritingForm DEF TxnInv, WritesEdits
<1>3. \A i \in Ident : ident'[i] = IF written[i] # NULL THEN written[i] ELSE ident[i]
  BY DEF CommitAccept, Overlay
<1>4. \A i \in Ident : written[i] # NULL => ident[i] # NULL
  BY <1>1 DEF TxnInv, RowsExist, SessionRows
<1>5. ASSUME NEW i \in Ident, edits[i] # NULL
      PROVE  PublishedHead'[i] = Shown(edits[i])
  <2>1. /\ ident'[i] # NULL /\ ident'[i].is_live
        /\ ident'[i].redirect_id = edits[i].redirect_id
        /\ ident'[i].redirect_id = NULL => ident'[i].rev_id = edits[i].rev_id
    BY <1>2, <1>3, <1>5 DEF WrittenRow
  <2>2. PublishedHead'[i] = Shown(ident'[i])
    BY <2>1 DEF PublishedHead, Published, Shown
  <2> QED
    BY <2>1, <2>2 DEF Shown
<1>6. ASSUME NEW i \in Ident, edits[i] = NULL
      PROVE  PublishedHead'[i] = PublishedHead[i]
  <2>1. CASE written[i] = NULL
    BY <1>3, <2>1 DEF PublishedHead, Published, Shown
  <2>2. CASE written[i] # NULL
    <3>1. /\ ident[i] # NULL /\ ident'[i] # NULL
          /\ ident'[i].is_live = ident[i].is_live
          /\ ident'[i].redirect_id = ident[i].redirect_id
          /\ ident[i].redirect_id # NULL
      BY <1>2, <1>3, <1>4, <1>6, <2>2 DEF WrittenRow
    <3> QED
      BY <3>1 DEF PublishedHead, Published, Shown
  <2> QED
    BY <2>1, <2>2
<1>7. applied' = Append(applied, edits) /\ applied \in Seq(Snapshot)
  BY DEF CommitAccept, TxnInv, TxnTypeOK
<1> QED
  BY <1>2, <1>5, <1>6, <1>7, TxnPublishStep

\* A batch publishes its new entities.
LEMMA NewBatchPublishes ==
    ASSUME TxnInv, TxnTypeOK', NEW g \in Editgroup, NewBatch(g)
    PROVE  TxnLog!Next
<1>1. PICK batch \in Batches : AutoBatch(g, batch)
  BY DEF NewBatch
<1>2. /\ edit'[g] \in Snapshot /\ applied' = Append(applied, edit'[g])
      /\ applied \in Seq(Snapshot)
  BY DEF NewBatch, TxnInv, TxnTypeOK, TypeOK, Snapshot
<1>3. \A i \in DOMAIN batch : i \in Ident /\ ident[i] = NULL /\ batch[i] \in Rev
  BY DEF Batches
<1>4. ASSUME NEW i \in Ident, i \in DOMAIN batch
      PROVE  edit'[g][i] # NULL /\ PublishedHead'[i] = Shown(edit'[g][i])
  <2>1. /\ edit'[g][i] = [rev_id |-> batch[i], redirect_id |-> NULL, prev_rev |-> NULL]
        /\ edit'[g][i] \in EditRow
    BY <1>1, <1>3, <1>4 DEF AutoBatch, TxnInv, TxnTypeOK, TypeOK, EditRow
  <2>2. /\ ident'[i] = [is_live |-> TRUE, rev_id |-> batch[i], redirect_id |-> NULL]
        /\ ident'[i] \in IdentRow
    BY <1>1, <1>3, <1>4 DEF AutoBatch, IdentRow
  <2> QED
    BY <2>1, <2>2, NullAssumption DEF PublishedHead, Published, Shown
<1>5. ASSUME NEW i \in Ident, i \notin DOMAIN batch
      PROVE  edit'[g][i] = NULL /\ PublishedHead'[i] = PublishedHead[i]
  BY <1>1, <1>5 DEF AutoBatch, TxnInv, TxnTypeOK, TypeOK, PublishedHead, Published, Shown
<1> QED
  BY <1>2, <1>4, <1>5, TxnPublishStep

\* Every other statement leaves what is published as it is.
LEMMA OtherStatements ==
    ASSUME TxnInv, applied' = applied,
           \A i \in Ident : \/ ident'[i] = ident[i]
                            \/ ident[i] = NULL /\ ~ident'[i].is_live
    PROVE  UNCHANGED <<PublishedHead, TxnChangesets>>
<1>1. \A i \in Ident : PublishedHead'[i] = PublishedHead[i]
  BY DEF PublishedHead, Published, Shown
<1>2. PublishedHead' = PublishedHead
  BY <1>1 DEF PublishedHead
<1>3. TxnChangesets' = TxnChangesets
  BY DEF TxnChangesets, Shown
<1> QED
  BY <1>2, <1>3

\* However the statements of any number of connections interleave, the published
\* catalog changes only by a COMMIT, which publishes the edits that one accept
\* read, all of them, and nothing else: no accept is lost in, or mixed with,
\* another.
THEOREM CommitsAlwaysPublish == TxnSpec => CommitsPublish
<1>1. TxnInv /\ TxnInv' /\ [TxnNext]_txnVars => [TxnLog!Next]_<<PublishedHead, TxnChangesets>>
  <2> SUFFICES ASSUME TxnInv, TxnInv', [TxnNext]_txnVars
               PROVE  [TxnLog!Next]_<<PublishedHead, TxnChangesets>>
    OBVIOUS
  <2>1. CASE UNCHANGED txnVars
    BY <2>1 DEF txnVars, PublishedHead, Published, TxnChangesets, Shown
  <2>2. ASSUME NEW g \in Editgroup, NewEditgroup(g)
        PROVE  UNCHANGED <<PublishedHead, TxnChangesets>>
    BY <2>2, OtherStatements DEF NewEditgroup, CreateEditgroup
  <2>3. ASSUME NEW g \in Editgroup, NewBatch(g) PROVE TxnLog!Next
    BY <2>3, NewBatchPublishes DEF TxnInv
  <2>4. ASSUME NEW c \in Conn, EditCall(c)
        PROVE  UNCHANGED <<PublishedHead, TxnChangesets>>
    <3>1. ASSUME NEW j \in Ident, NEW r \in Rev, InsertCreate(c, j, r), NEW i \in Ident
          PROVE  \/ ident'[i] = ident[i]
                 \/ ident[i] = NULL /\ ~ident'[i].is_live
      BY <3>1 DEF InsertCreate, TxnInv, TxnTypeOK, TypeOK
    <3>2. applied' = applied
      BY <2>4 DEF EditCall, BeginEdit, BeginDeleteEdit, ReadCurrent, InsertCreate,
          InsertUpdate, InsertRevert, ReadRedirectTarget, InsertDelete, InsertRedirect,
          FinishDeleteEdit, Tables
    <3>3. (\E j \in Ident, r \in Rev : InsertCreate(c, j, r)) \/ ident' = ident
      BY <2>4 DEF EditCall, BeginEdit, BeginDeleteEdit, ReadCurrent,
          InsertUpdate, InsertRevert, ReadRedirectTarget, InsertDelete, InsertRedirect,
          FinishDeleteEdit, Tables
    <3> QED
      BY <3>1, <3>2, <3>3, OtherStatements
  <2>5. ASSUME NEW c \in Conn, CommitAccept(c) PROVE TxnLog!Next
    BY <2>5, CommitPublishes
  <2>6. ASSUME NEW c \in Conn, AcceptCall(c) \/ Rollback(c), ~CommitAccept(c)
        PROVE  UNCHANGED <<PublishedHead, TxnChangesets>>
    <3>1. ident' = ident /\ applied' = applied
      BY <2>6 DEF AcceptCall, BeginAccept, CheckForward, CheckBackward, PlanApply, Apply,
          PlanRedirects, FinishRedirects, Rollback, Tables
    <3> QED
      BY <3>1, OtherStatements
  <2> QED
    BY <2>1, <2>2, <2>3, <2>4, <2>5, <2>6 DEF TxnNext
<1> QED
  BY <1>1, TxnInvAlways, PTL DEF TxnSpec, CommitsPublish

-----------------------------------------------------------------------------
(* With one connection the statements add up to the calls of Catalog. *)

Serial == \A c, d \in Conn : c = d

\* An edit has an editgroup.
EditgroupsExist == \A g \in Editgroup, i \in Ident : edit[g][i] # NULL => editgroup[g] # NULL

\* The rows the second UPDATE of an accept finds in a table.
RedirectsFound(g, table) ==
    [i \in Ident |->
        IF RedirectsToEdited(g, table, i)
        THEN [target |-> table[i].redirect_id,
              rev_id |-> edit[g][table[i].redirect_id].rev_id]
        ELSE NULL]

\* How far an accept has come.
PastBackward == {"backward", "applying", "applied", "redirecting", "redirected"}
PastForward == {"forward"} \cup PastBackward
PastCheck == {"checked"} \cup PastForward

\* What a call has checked and read still is as it was.
Current(s) ==
    /\ s.at \in {"opened", "read", "target"} => OpenForEdits(s.g)
    /\ s.at \in {"read", "target"} => s.row = ident[s.i]
    /\ s.at = "target" => ValidTarget(s.i, s.target) /\ s.rev_id = ident[s.target].rev_id
    /\ s.at = "deleting" => edit[s.g][s.i] # NULL /\ ~InChangelog(s.g)
    /\ s.at \in PastCheck => NotAccepted(s.g)
    /\ s.at \in PastForward => ~ForwardRecursive(s.g)
    /\ s.at \in PastBackward => ~BackwardRecursive(s.g)
    /\ s.at = "applying" => s.snapshot = edit[s.g]
    /\ s.at \in {"applied", "redirecting"} => Overlay(s.written) = ApplyEdits(s.g, ident)
    /\ s.at = "redirecting" => s.snapshot = RedirectsFound(s.g, ApplyEdits(s.g, ident))
    /\ s.at = "redirected" => Overlay(s.written) = UpdateRedirects(s.g, ApplyEdits(s.g, ident))

SerialInv ==
    /\ TxnInv
    /\ IInv
    /\ EditgroupsExist
    /\ \A s \in {conn[c] : c \in Conn} : Current(s)

\* No call of Catalog makes an edit without an editgroup.
LEMMA EditgroupsExistNext ==
    ASSUME TypeOK, EditgroupsExist, [Next]_vars
    PROVE  EditgroupsExist'
<1>1. CASE UNCHANGED vars
  BY <1>1 DEF vars, EditgroupsExist
<1>2. ASSUME NEW g \in Editgroup, CreateEditgroup(g) PROVE EditgroupsExist'
  BY <1>2 DEF CreateEditgroup, EditgroupsExist, TypeOK
<1>3. ASSUME NEW g \in Editgroup, NEW i \in Ident, EditStep(g, i) PROVE EditgroupsExist'
  <2>1. editgroup' = editgroup
    BY <1>3 DEF EditStep, CreateEntity, UpdateEntity, RevertEntity, RedirectEntity,
        DeleteEntity, DeleteEdit
  <2>2. ASSUME NEW h \in Editgroup, NEW j \in Ident, edit'[h][j] # NULL
        PROVE  edit[h][j] # NULL \/ (h = g /\ editgroup[g] # NULL)
    BY <1>3, <2>2 DEF EditStep, CreateEntity, UpdateEntity, RevertEntity, RedirectEntity,
        DeleteEntity, DeleteEdit, InsertEdit, OpenForEdits, TypeOK
  <2> QED
    BY <2>1, <2>2 DEF EditgroupsExist
<1>4. ASSUME NEW g \in Editgroup, AcceptEditgroup(g) PROVE EditgroupsExist'
  <2>1. editgroup[g] \in EditgroupRow
    BY <1>4 DEF AcceptEditgroup, TypeOK
  <2>2. [editgroup[g] EXCEPT !.is_accepted = TRUE] \in EditgroupRow
    BY <2>1 DEF EditgroupRow
  <2> QED
    BY <1>4, <2>2, NullAssumption DEF AcceptEditgroup, EditgroupsExist, TypeOK
<1>5. ASSUME NEW g \in Editgroup, NEW batch \in Batches, AutoBatch(g, batch)
      PROVE  EditgroupsExist'
  <2>1. [is_accepted |-> TRUE] \in EditgroupRow
    BY DEF EditgroupRow
  <2> QED
    BY <1>5, <2>1, NullAssumption DEF AutoBatch, EditgroupsExist, TypeOK
<1> QED
  BY <1>1, <1>2, <1>3, <1>4, <1>5 DEF Next

\* A step that only adds rows and editgroups leaves what a call has checked and
\* read as it was.
LEMMA CurrentKept ==
    ASSUME SerialInv, NEW c \in Conn, NEW s, conn[c] = s,
           \A i \in Ident : \/ ident'[i] = ident[i]
                            \/ /\ ident[i] = NULL
                               /\ ident'[i] # NULL
                               /\ ident'[i].redirect_id = NULL,
           \A g \in Editgroup : editgroup[g] # NULL =>
               /\ edit'[g] = edit[g] /\ editgroup'[g] = editgroup[g]
               /\ ~InChangelog(g) => ~InChangelog(g)'
    PROVE  Current(s)'
<1>1. /\ TypeOK /\ s \in Session /\ SessionRows(c) /\ Current(s)
      /\ RedirectTargetsLive /\ AcceptedOnce
  BY DEF SerialInv, TxnInv, TxnTypeOK, RowsExist, IInv
<1>2. CASE s.at \in {"opened", "read", "target"}
  <2>1. s.g \in Editgroup
    BY <1>1, <1>2, SessionForm DEF Opened, ReadRow, ReadTarget
  <2>2. OpenForEdits(s.g)'
    BY <1>1, <1>2, <2>1 DEF Current, OpenForEdits
  <2>3. s.at \in {"read", "target"} => s.i \in Ident /\ ident'[s.i] = ident[s.i]
    BY <1>1, SessionForm DEF ReadRow, ReadTarget, SessionRows
  <2>4. s.at = "target" => s.target \in Ident /\ ident'[s.target] = ident[s.target]
    BY <1>1, SessionForm DEF ReadTarget, Current, ValidTarget
  <2> QED
    BY <1>1, <1>2, <2>2, <2>3, <2>4
       DEF Current, ValidTarget, PastCheck, PastForward, PastBackward
<1>3. CASE s.at = "deleting"
  <2>1. s.g \in Editgroup /\ s.i \in Ident
    BY <1>1, <1>3, SessionForm DEF Deleting
  <2>2. edit[s.g][s.i] # NULL /\ ~InChangelog(s.g)
    BY <1>1, <1>3 DEF Current
  <2>3. editgroup[s.g] # NULL
    BY <2>1, <2>2 DEF SerialInv, EditgroupsExist
  <2> QED
    BY <1>3, <2>1, <2>2, <2>3 DEF Current, PastCheck, PastForward, PastBackward
<1>4. CASE s.at \in PastCheck
  <2>1. s.g \in Editgroup /\ editgroup[s.g] # NULL
    BY <1>1, <1>4, SessionForm DEF Checking, Applying, Applied, Redirecting, SessionRows,
        Accepting, Writing, PastCheck, PastForward, PastBackward
  <2>2. edit'[s.g] = edit[s.g] /\ (NotAccepted(s.g) => NotAccepted(s.g)')
    BY <2>1 DEF NotAccepted
  <2>3. ~ForwardRecursive(s.g) => ~ForwardRecursive(s.g)'
    <3>1. ASSUME NEW i \in Ident, edit[s.g][i] # NULL, edit[s.g][i].redirect_id # NULL
          PROVE  /\ edit[s.g][i].redirect_id \in Ident
                 /\ ident'[edit[s.g][i].redirect_id] = ident[edit[s.g][i].redirect_id]
      BY <1>1, <2>1, <3>1, RowFields DEF RedirectTargetsLive
    <3>2. SUFFICES ASSUME ~ForwardRecursive(s.g), NEW i \in Ident, edit[s.g][i] # NULL,
                          edit[s.g][i].redirect_id # NULL,
                          ident'[edit[s.g][i].redirect_id].redirect_id # NULL
                   PROVE  FALSE
      BY <2>2 DEF ForwardRecursive
    <3> QED
      BY <3>1, <3>2 DEF ForwardRecursive
  <2>4. ~BackwardRecursive(s.g) => ~BackwardRecursive(s.g)'
    <3>1. ASSUME NEW i \in Ident, NEW j \in Ident, ident'[j] # NULL, ident'[j].redirect_id = i
          PROVE  ident[j] # NULL /\ ident[j].redirect_id = i
      BY <3>1, NullAssumption
    <3> QED
      BY <2>2, <3>1 DEF BackwardRecursive
  <2> DEFINE table == ApplyEdits(s.g, ident)
  <2>5. PICK new : new = ApplyEdits(s.g, ident)'
    OBVIOUS
  <2>6. ASSUME NEW i \in Ident
        PROVE  \/ ident'[i] = ident[i] /\ new[i] = table[i]
               \/ /\ ident[i] = NULL /\ edit[s.g][i] = NULL /\ table[i] = NULL
                  /\ new[i] = ident'[i] /\ ident'[i] # NULL /\ ident'[i].redirect_id = NULL
    <3>1. CASE ident'[i] = ident[i]
      BY <2>2, <2>5, <3>1 DEF ApplyEdits
    <3>2. CASE ident'[i] # ident[i]
      <4>1. ident[i] = NULL /\ ident'[i] # NULL /\ ident'[i].redirect_id = NULL
        BY <3>2
      <4>2. edit[s.g][i] = NULL
        BY <2>1, <4>1 DEF SerialInv, TxnInv, RowsExist
      <4> QED
        BY <2>2, <2>5, <4>1, <4>2 DEF ApplyEdits
    <3> QED
      BY <3>1, <3>2
  <2>7. /\ table = [i \in Ident |-> table[i]] /\ new = [i \in Ident |-> new[i]]
    BY <2>5 DEF ApplyEdits
  <2>8. RedirectsFound(s.g, ApplyEdits(s.g, ident))' = RedirectsFound(s.g, table)
    <3>1. RedirectsFound(s.g, ApplyEdits(s.g, ident))' =
             [i \in Ident |->
                 IF new[i] # NULL /\ new[i].redirect_id # NULL
                    /\ edit[s.g][new[i].redirect_id] # NULL
                 THEN [target |-> new[i].redirect_id,
                       rev_id |-> edit[s.g][new[i].redirect_id].rev_id]
                 ELSE NULL]
      BY <2>2, <2>5 DEF RedirectsFound, RedirectsToEdited
    <3> HIDE DEF table
    <3>2. \A i \in Ident :
             (IF new[i] # NULL /\ new[i].redirect_id # NULL
                 /\ edit[s.g][new[i].redirect_id] # NULL
              THEN [target |-> new[i].redirect_id,
                    rev_id |-> edit[s.g][new[i].redirect_id].rev_id]
              ELSE NULL) = RedirectsFound(s.g, table)[i]
      BY <2>6 DEF RedirectsFound, RedirectsToEdited
    <3> QED
      BY <3>1, <3>2 DEF RedirectsFound
  <2>9. s.at \in {"applied", "redirecting", "redirected"} =>
           \A i \in Ident : ident[i] = NULL => s.written[i] = NULL
    BY <1>1 DEF SessionRows, Writing
  <2>10. s.at \in {"applied", "redirecting"} => Overlay(s.written)' = ApplyEdits(s.g, ident)'
    <3> SUFFICES ASSUME s.at \in {"applied", "redirecting"}
                 PROVE  Overlay(s.written)' = new
      BY <2>5
    <3>1. \A i \in Ident : Overlay(s.written)[i] = table[i]
      BY <1>1 DEF Current
    <3> HIDE DEF table
    <3>2. \A i \in Ident : (IF s.written[i] # NULL THEN s.written[i] ELSE ident'[i]) = new[i]
      BY <2>6, <2>9, <3>1 DEF Overlay
    <3> QED
      BY <2>7, <3>2 DEF Overlay
  <2>11. s.at = "redirected" =>
            Overlay(s.written)' = UpdateRedirects(s.g, ApplyEdits(s.g, ident))'
    <3> SUFFICES ASSUME s.at = "redirected"
                 PROVE  Overlay(s.written)' = UpdateRedirects(s.g, ApplyEdits(s.g, ident))'
      OBVIOUS
    <3>1. \A i \in Ident : Overlay(s.written)[i] = UpdateRedirects(s.g, table)[i]
      BY <1>1 DEF Current
    <3>2. UpdateRedirects(s.g, ApplyEdits(s.g, ident))' =
             [i \in Ident |->
                 IF new[i] # NULL /\ new[i].redirect_id # NULL
                    /\ edit[s.g][new[i].redirect_id] # NULL
                 THEN [new[i] EXCEPT !.rev_id = edit[s.g][new[i].redirect_id].rev_id]
                 ELSE new[i]]
      BY <2>2, <2>5 DEF UpdateRedirects, RedirectsToEdited
    <3> HIDE DEF table
    <3>3. ASSUME NEW i \in Ident
          PROVE  (IF s.written[i] # NULL THEN s.written[i] ELSE ident'[i]) =
                 (IF new[i] # NULL /\ new[i].redirect_id # NULL
                     /\ edit[s.g][new[i].redirect_id] # NULL
                  THEN [new[i] EXCEPT !.rev_id = edit[s.g][new[i].redirect_id].rev_id]
                  ELSE new[i])
      <4>1. CASE ident'[i] = ident[i] /\ new[i] = table[i]
        BY <3>1, <4>1 DEF Overlay, UpdateRedirects, RedirectsToEdited
      <4>2. CASE /\ ident[i] = NULL
                 /\ new[i] = ident'[i] /\ ident'[i] # NULL /\ ident'[i].redirect_id = NULL
        BY <2>9, <4>2
      <4> QED
        BY <2>6, <4>1, <4>2
    <3>4. Overlay(s.written)' =
             [i \in Ident |-> IF s.written[i] # NULL THEN s.written[i] ELSE ident'[i]]
      BY DEF Overlay
    <3> QED
      BY <3>2, <3>3, <3>4
  <2> QED
    BY <1>1, <1>4, <2>2, <2>3, <2>4, <2>8, <2>10, <2>11
       DEF Current, PastCheck, PastForward, PastBackward
<1>5. CASE s.at = "idle"
  BY <1>5 DEF Current, PastCheck, PastForward, PastBackward
<1>6. s.at \in {"idle", "opened", "read", "target", "deleting"} \cup PastCheck
  BY <1>1 DEF Session, Idle, Opened, ReadRow, ReadTarget, Deleting, Checking, Applying, Applied,
     Redirecting, PastCheck, PastForward, PastBackward
<1> QED
  BY <1>2, <1>3, <1>4, <1>5, <1>6

\* So do the calls that only insert new rows.
LEMMA InsertOnlyKeepsCurrent ==
    ASSUME SerialInv, NEW c \in Conn, NEW s, conn[c] = s,
           NEW h \in Editgroup, NewEditgroup(h) \/ NewBatch(h)
    PROVE  Current(s)'
<1>1. TypeOK /\ AcceptedOnce
  BY DEF SerialInv, IInv
<1>2. CASE NewEditgroup(h)
  <2>1. /\ ident' = ident /\ edit' = edit /\ changelog' = changelog
        /\ \A g \in Editgroup : editgroup[g] # NULL => editgroup'[g] = editgroup[g]
    BY <1>1, <1>2 DEF NewEditgroup, CreateEditgroup, TypeOK
  <2>2. \A g \in Editgroup : ~InChangelog(g) => ~InChangelog(g)'
    BY <2>1 DEF InChangelog
  <2> QED
    BY <2>1, <2>2, CurrentKept
<1>3. CASE NewBatch(h)
  <2>1. PICK batch \in Batches : AutoBatch(h, batch)
    BY <1>3 DEF NewBatch
  <2>2. ASSUME NEW i \in Ident, i \in DOMAIN batch
        PROVE  ident[i] = NULL /\ ident'[i] # NULL /\ ident'[i].redirect_id = NULL
    <3>1. ident[i] = NULL /\ batch[i] \in Rev
      BY <2>2 DEF Batches
    <3>2. ident'[i] = [is_live |-> TRUE, rev_id |-> batch[i], redirect_id |-> NULL]
      BY <2>1, <2>2 DEF AutoBatch
    <3>3. [is_live |-> TRUE, rev_id |-> batch[i], redirect_id |-> NULL] \in IdentRow
      BY <3>1 DEF IdentRow
    <3>4. ident'[i] # NULL
      BY <3>2, <3>3, NullAssumption
    <3>5. ident'[i].redirect_id = NULL
      BY <3>2
    <3> QED
      BY <3>1, <3>4, <3>5
  <2>3. \A i \in Ident : \/ ident'[i] = ident[i]
                         \/ /\ ident[i] = NULL
                            /\ ident'[i] # NULL
                            /\ ident'[i].redirect_id = NULL
    BY <2>1, <2>2 DEF AutoBatch
  <2>4. ASSUME NEW g \in Editgroup, editgroup[g] # NULL
        PROVE  /\ edit'[g] = edit[g] /\ editgroup'[g] = editgroup[g]
               /\ ~InChangelog(g) => ~InChangelog(g)'
    <3>1. g # h
      BY <2>1, <2>4 DEF AutoBatch
    <3>2. edit'[g] = edit[g] /\ editgroup'[g] = editgroup[g]
      BY <1>1, <2>1, <3>1 DEF AutoBatch, TypeOK
    <3>3. ~InChangelog(g) => ~InChangelog(g)'
      BY <1>1, <2>1, <3>1, ChangelogAppend DEF AutoBatch, InChangelog
    <3> QED
      BY <3>2, <3>3
  <2> QED
    BY <2>3, <2>4, CurrentKept
<1> QED
  BY <1>2, <1>3

\* What a call's own step checks or reads is so, and nothing else changes: the
\* step is a stutter of Catalog.
LEMMA OwnStepCurrent ==
    ASSUME SerialInv, NEW c \in Conn, UNCHANGED vars,
           EditCall(c) \/ AcceptCall(c) \/ Rollback(c), NEW s, conn'[c] = s
    PROVE  Current(s)
<1>1. /\ TypeOK /\ conn[c] \in Session /\ SessionRows(c) /\ Current(conn[c])
  BY DEF SerialInv, TxnInv, TxnTypeOK, RowsExist
<1> USE DEF PastCheck, PastForward, PastBackward
<1>2. ASSUME NEW next, Go(c, next) PROVE s = next
  BY <1>2 DEF Go, SerialInv, TxnInv, TxnTypeOK
<1>3. ASSUME s.at = "idle" PROVE Current(s)
  BY <1>3 DEF Current
<1>4. ASSUME NEW g \in Editgroup, BeginEdit(c, g) PROVE Current(s)
  BY <1>2, <1>4 DEF BeginEdit, Current
<1>5. ASSUME NEW g \in Editgroup, NEW i \in Ident, BeginDeleteEdit(c, g, i) PROVE Current(s)
  BY <1>2, <1>5 DEF BeginDeleteEdit, Current
<1>6. ASSUME NEW i \in Ident, ReadCurrent(c, i) PROVE Current(s)
  BY <1>1, <1>2, <1>6 DEF ReadCurrent, At, Current
<1>7. ASSUME NEW t \in Ident, ReadRedirectTarget(c, t) PROVE Current(s)
  BY <1>1, <1>2, <1>7 DEF ReadRedirectTarget, At, Current, ValidTarget
<1>8. CASE FinishDeleteEdit(c)
  BY <1>3, <1>8 DEF FinishDeleteEdit, Idle
<1>9. CASE \/ \E i \in Ident, r \in Rev : InsertCreate(c, i, r)
           \/ \E r \in Rev : InsertUpdate(c, r) \/ InsertRevert(c, r)
           \/ InsertDelete(c) \/ InsertRedirect(c) \/ CommitAccept(c) \/ Rollback(c)
  <2>1. Go(c, Idle)
    BY <1>9 DEF InsertCreate, InsertUpdate, InsertRevert, InsertDelete, InsertRedirect,
        Insert, CommitAccept, Rollback
  <2> QED
    BY <1>2, <1>3, <2>1 DEF Idle
<1>10. ASSUME NEW g \in Editgroup, BeginAccept(c, g) PROVE Current(s)
  BY <1>2, <1>10 DEF BeginAccept, Current
<1>11. CASE CheckForward(c) \/ CheckBackward(c)
  <2>1. conn[c] \in Checking
    BY <1>1, <1>11, SessionForm DEF CheckForward, CheckBackward, At
  <2>2. s.g = conn[c].g /\ s.at = (IF CheckForward(c) THEN "forward" ELSE "backward")
    BY <1>2, <1>11, <2>1 DEF CheckForward, CheckBackward, Checking, At
  <2> QED
    BY <1>1, <1>11, <2>2 DEF CheckForward, CheckBackward, At, Current
<1>12. CASE PlanApply(c)
  BY <1>1, <1>2, <1>12 DEF PlanApply, At, Current
<1>13. CASE Apply(c)
  <2> DEFINE written == [i \in Ident |->
                            IF conn[c].snapshot[i] = NULL
                            THEN NULL
                            ELSE [is_live     |-> TRUE,
                                  rev_id      |-> conn[c].snapshot[i].rev_id,
                                  redirect_id |-> conn[c].snapshot[i].redirect_id]]
  <2>1. s = [at |-> "applied", g |-> conn[c].g, edits |-> conn[c].snapshot, written |-> written]
    BY <1>2, <1>13 DEF Apply
  <2>2. conn[c].at = "applying" /\ conn[c].g \in Editgroup
        /\ conn[c].snapshot = edit[conn[c].g] /\ conn[c].snapshot \in Snapshot
    BY <1>1, <1>13, SessionForm DEF Apply, At, Applying, Current
  <2>3. \A i \in Ident : conn[c].snapshot[i] # NULL => written[i] \in IdentRow
    BY <2>2 DEF Snapshot, EditRow, IdentRow
  <2>4. Overlay(written) = ApplyEdits(conn[c].g, ident)
    BY <2>2, <2>3, NullAssumption DEF Overlay, ApplyEdits
  <2> HIDE DEF written
  <2> QED
    BY <1>1, <2>1, <2>2, <2>4 DEF Current
<1>14. CASE PlanRedirects(c)
  <2> DEFINE g == conn[c].g
             found == RedirectsFound(g, Overlay(conn[c].written))
  <2>1. s = [at |-> "redirecting", g |-> g, edits |-> conn[c].edits,
             written |-> conn[c].written, snapshot |-> found]
    BY <1>2, <1>14 DEF PlanRedirects, RedirectsFound
  <2>2. conn[c].at = "applied" /\ Overlay(conn[c].written) = ApplyEdits(g, ident)
    BY <1>1, <1>14 DEF PlanRedirects, At, Current
  <2> HIDE DEF found
  <2>3. /\ s.at = "redirecting" /\ s.g = g /\ s.written = conn[c].written /\ s.snapshot = found
    BY <2>1
  <2> QED
    BY <1>1, <2>2, <2>3 DEF Current, found
<1>15. CASE FinishRedirects(c)
  <2> DEFINE g == conn[c].g
             snapshot == conn[c].snapshot
             old == conn[c].written
             table == Overlay(old)
             written == [i \in Ident |->
                            IF snapshot[i] # NULL /\ StillRedirects(table[i], snapshot[i])
                            THEN [table[i] EXCEPT !.rev_id = snapshot[i].rev_id]
                            ELSE old[i]]
  <2>1. s = [at |-> "redirected", g |-> g, edits |-> conn[c].edits, written |-> written]
    BY <1>2, <1>15 DEF FinishRedirects
  <2>2. /\ conn[c].at = "redirecting" /\ table = ApplyEdits(g, ident)
        /\ snapshot = RedirectsFound(g, table) /\ snapshot \in RedirectSnapshot
        /\ table \in [Ident -> IdentRow \cup {NULL}]
    BY <1>1, <1>15, SessionForm, WritingForm
       DEF FinishRedirects, At, Redirecting, Current, Writing, SerialInv, TxnInv
  <2>3. ASSUME NEW i \in Ident
        PROVE  Overlay(written)[i] = UpdateRedirects(g, table)[i]
    <3>1. CASE RedirectsToEdited(g, table, i)
      <4>1. /\ snapshot[i] = [target |-> table[i].redirect_id,
                              rev_id |-> edit[g][table[i].redirect_id].rev_id]
            /\ table[i] # NULL /\ table[i].redirect_id # NULL
        BY <2>2, <3>1 DEF RedirectsFound, RedirectsToEdited
      <4>2. table[i] \in IdentRow
        BY <2>2, <4>1
      <4>3. snapshot[i] # NULL
        <5>1. g \in Editgroup /\ table[i].redirect_id \in Ident
          BY <1>1, <2>2, <4>1, <4>2, SessionForm DEF Redirecting, IdentRow
        <5>2. [target |-> table[i].redirect_id,
               rev_id |-> edit[g][table[i].redirect_id].rev_id] \in RedirectFound
          BY <1>1, <3>1, <5>1, RowFields DEF RedirectsToEdited, RedirectFound
        <5> QED
          BY <4>1, <5>2, FoundAssumption
      <4>4. snapshot[i].rev_id \in Rev \cup {NULL}
        BY <2>2, <4>3 DEF RedirectSnapshot, RedirectFound
      <4> HIDE DEF table, snapshot
      <4>5. [table[i] EXCEPT !.rev_id = snapshot[i].rev_id] \in IdentRow
        BY <4>2, <4>4 DEF IdentRow
      <4>6. written[i] = [table[i] EXCEPT !.rev_id = snapshot[i].rev_id]
        BY <4>1, <4>3 DEF StillRedirects
      <4>7. written[i] # NULL /\ Overlay(written)[i] = written[i]
        <5> HIDE DEF written
        <5> QED
          BY <4>5, <4>6, NullAssumption DEF Overlay
      <4>8. UpdateRedirects(g, table)[i] =
               [table[i] EXCEPT !.rev_id = edit[g][table[i].redirect_id].rev_id]
        BY <3>1 DEF UpdateRedirects
      <4>9. snapshot[i].rev_id = edit[g][table[i].redirect_id].rev_id
        BY <4>1
      <4> QED
        BY <4>6, <4>7, <4>8, <4>9
    <3>2. CASE ~RedirectsToEdited(g, table, i)
      <4>1. snapshot[i] = NULL
        BY <2>2, <3>2 DEF RedirectsFound
      <4> QED
        BY <3>2, <4>1 DEF Overlay, UpdateRedirects
    <3> QED
      BY <3>1, <3>2
  <2>4. Overlay(written) = UpdateRedirects(g, table)
    BY <2>3 DEF Overlay, UpdateRedirects
  <2> HIDE DEF written
  <2> QED
    BY <1>1, <2>1, <2>2, <2>4 DEF Current
<1> QED
  BY <1>4, <1>5, <1>6, <1>7, <1>8, <1>9, <1>10, <1>11, <1>12, <1>13, <1>14, <1>15
     DEF EditCall, AcceptCall

\* A call that waits in its connection, while another call of the pool's one
\* connection cannot run, writes as Catalog's call of the same name.
LEMMA StepIsCall ==
    ASSUME SerialInv, NEW c \in Conn, Serial, EditCall(c) \/ AcceptCall(c) \/ Rollback(c)
    PROVE  [Next]_vars
<1>1. /\ TypeOK /\ conn[c] \in Session /\ SessionRows(c) /\ Current(conn[c])
  BY DEF SerialInv, TxnInv, TxnTypeOK, RowsExist
<1> DEFINE s == conn[c]
<1>2. ASSUME NEW i \in Ident, NEW r \in Rev, InsertCreate(c, i, r) PROVE Next
  <2>1. s.g \in Editgroup /\ OpenForEdits(s.g)
    BY <1>1, <1>2, SessionForm DEF InsertCreate, At, Opened, Current
  <2>2. CreateEntity(s.g, i, r)
    BY <1>2, <2>1 DEF InsertCreate, Insert, CreateEntity
  <2> QED
    BY <2>1, <2>2 DEF Next, EditStep
<1>3. ASSUME s.at = "read"
      PROVE  /\ s.g \in Editgroup /\ s.i \in Ident /\ OpenForEdits(s.g)
             /\ ident[s.i] # NULL /\ s.row = ident[s.i] /\ PrevRevOf(s.row) = PrevRev(s.i)
  BY <1>1, <1>3, SessionForm DEF ReadRow, Current, SessionRows, PrevRevOf, PrevRev
<1>4. ASSUME NEW r \in Rev, InsertUpdate(c, r) \/ InsertRevert(c, r) PROVE Next
  <2>1. s.at = "read"
    BY <1>4 DEF InsertUpdate, InsertRevert, At
  <2>2. UpdateEntity(s.g, s.i, r) \/ RevertEntity(s.g, s.i, r)
    BY <1>3, <1>4, <2>1 DEF InsertUpdate, InsertRevert, Insert, UpdateEntity, RevertEntity
  <2> QED
    BY <1>3, <2>1, <2>2 DEF Next, EditStep
<1>5. ASSUME InsertDelete(c) PROVE Next
  <2>1. s.at = "read"
    BY <1>5 DEF InsertDelete, At
  <2>2. DeleteEntity(s.g, s.i)
    BY <1>3, <1>5, <2>1 DEF InsertDelete, Insert, DeleteEntity
  <2> QED
    BY <1>3, <2>1, <2>2 DEF Next, EditStep
<1>6. ASSUME InsertRedirect(c) PROVE Next
  <2>1. /\ s.at = "target" /\ s.g \in Editgroup /\ s.i \in Ident /\ s.target \in Ident
        /\ OpenForEdits(s.g) /\ ident[s.i] # NULL /\ s.row = ident[s.i]
        /\ ValidTarget(s.i, s.target) /\ s.rev_id = ident[s.target].rev_id
    BY <1>1, <1>6, SessionForm DEF InsertRedirect, At, ReadTarget, Current, SessionRows
  <2>2. RedirectEntity(s.g, s.i, s.target)
    BY <1>6, <2>1 DEF InsertRedirect, Insert, RedirectEntity, PrevRevOf, PrevRev
  <2> QED
    BY <2>1, <2>2 DEF Next, EditStep
<1>7. ASSUME FinishDeleteEdit(c) PROVE Next
  <2>1. /\ s.g \in Editgroup /\ s.i \in Ident
        /\ edit[s.g][s.i] # NULL /\ ~InChangelog(s.g)
    BY <1>1, <1>7, SessionForm DEF FinishDeleteEdit, At, Deleting, Current
  <2>2. DeleteEdit(s.g, s.i)
    BY <1>7, <2>1 DEF FinishDeleteEdit, DeleteEdit
  <2> QED
    BY <2>1, <2>2 DEF Next, EditStep
<1>8. ASSUME CommitAccept(c) PROVE Next
  <2>1. /\ s.at = "redirected" /\ s.g \in Editgroup /\ editgroup[s.g] # NULL /\ NotAccepted(s.g)
        /\ ~ForwardRecursive(s.g) /\ ~BackwardRecursive(s.g)
        /\ Overlay(s.written) = UpdateRedirects(s.g, ApplyEdits(s.g, ident))
    BY <1>1, <1>8, SessionForm DEF CommitAccept, At, Applied, Current, SessionRows, Accepting,
        Writing, PastCheck, PastForward, PastBackward
  <2>2. AcceptEditgroup(s.g)
    BY <1>8, <2>1 DEF CommitAccept, AcceptEditgroup
  <2> QED
    BY <2>1, <2>2 DEF Next
<1>9. CASE \/ \E g \in Editgroup : BeginEdit(c, g) \/ \E i \in Ident : BeginDeleteEdit(c, g, i)
           \/ \E i \in Ident : ReadCurrent(c, i)
           \/ \E t \in Ident : ReadRedirectTarget(c, t)
           \/ AcceptCall(c) /\ ~CommitAccept(c)
           \/ Rollback(c)
  BY <1>9 DEF BeginEdit, BeginDeleteEdit, ReadCurrent, ReadRedirectTarget, AcceptCall, BeginAccept,
      CheckForward, CheckBackward, PlanApply, Apply, PlanRedirects, FinishRedirects, Rollback,
      Tables, vars
<1> QED
  BY <1>2, <1>4, <1>5, <1>6, <1>7, <1>8, <1>9 DEF EditCall

\* A step that writes leaves the connection idle.
LEMMA WriteEndsCall ==
    ASSUME SerialInv, NEW c \in Conn, EditCall(c) \/ AcceptCall(c) \/ Rollback(c)
    PROVE  UNCHANGED vars \/ conn'[c] = Idle
<1>1. CASE FinishDeleteEdit(c) \/ Go(c, Idle)
  BY <1>1 DEF FinishDeleteEdit, Go, SerialInv, TxnInv, TxnTypeOK
<1>2. (FinishDeleteEdit(c) \/ Go(c, Idle)) \/ UNCHANGED vars
  BY DEF EditCall, BeginEdit, BeginDeleteEdit, ReadCurrent, InsertCreate,
      InsertUpdate, InsertRevert, ReadRedirectTarget, InsertDelete, InsertRedirect, Insert,
      AcceptCall, BeginAccept, CheckForward, CheckBackward, PlanApply, Apply,
      PlanRedirects, FinishRedirects, CommitAccept, Rollback, Tables, vars
<1> QED
  BY <1>1, <1>2

\* What is so of unchanged tables stays so.
LEMMA CurrentStays ==
    ASSUME UNCHANGED vars, NEW s, Current(s)
    PROVE  Current(s)'
<1>1. UNCHANGED <<ident, revs, edit, editgroup, changelog>>
  BY DEF vars
<1>2. OpenForEdits(s.g)' = OpenForEdits(s.g) /\ InChangelog(s.g)' = InChangelog(s.g)
  BY <1>1 DEF OpenForEdits, InChangelog
<1>3. ValidTarget(s.i, s.target)' = ValidTarget(s.i, s.target)
  BY <1>1 DEF ValidTarget
<1>4. NotAccepted(s.g)' = NotAccepted(s.g)
  BY <1>1 DEF NotAccepted, InChangelog
<1>5. ForwardRecursive(s.g)' = ForwardRecursive(s.g)
  BY <1>1 DEF ForwardRecursive
<1>6. BackwardRecursive(s.g)' = BackwardRecursive(s.g)
  BY <1>1 DEF BackwardRecursive
<1>7. Overlay(s.written)' = Overlay(s.written)
  BY <1>1 DEF Overlay
<1>8. ApplyEdits(s.g, ident)' = ApplyEdits(s.g, ident)
  BY <1>1 DEF ApplyEdits
<1>9. RedirectsFound(s.g, ApplyEdits(s.g, ident))' = RedirectsFound(s.g, ApplyEdits(s.g, ident))
  BY <1>1 DEF ApplyEdits, RedirectsFound, RedirectsToEdited
<1>10. UpdateRedirects(s.g, ApplyEdits(s.g, ident))' = UpdateRedirects(s.g, ApplyEdits(s.g, ident))
  BY <1>1 DEF ApplyEdits, UpdateRedirects, RedirectsToEdited
<1> QED
  BY <1>1, <1>2, <1>3, <1>4, <1>5, <1>6, <1>7, <1>8, <1>9, <1>10 DEF Current

\* With one connection every step is a call of Catalog or a stutter.
LEMMA SerialNext ==
    ASSUME Serial, SerialInv, [TxnNext]_txnVars
    PROVE  [Next]_vars /\ SerialInv'
<1>1. [Next]_vars
  <2>1. CASE UNCHANGED txnVars
    BY <2>1 DEF txnVars, vars
  <2>2. ASSUME NEW g \in Editgroup, NewEditgroup(g) \/ NewBatch(g) PROVE Next
    BY <2>2 DEF NewEditgroup, NewBatch, Next
  <2> QED
    BY <2>1, <2>2, StepIsCall DEF TxnNext
<1>2. TypeOK /\ EditgroupsExist' /\ IInv'
  BY <1>1, IInvNext, EditgroupsExistNext DEF SerialInv, IInv
<1>3. TxnInv'
  <2>1. CASE UNCHANGED txnVars
    BY <2>1, TxnTypeNext
       DEF SerialInv, TxnInv, txnVars, WritesEdits, RowsLocked, Writing, WrittenRow
  <2>2. CASE TxnNext
    BY <2>2, TxnTypeNext, WritesEditsNext, RowsLockedNext DEF SerialInv, TxnInv
  <2> QED
    BY <2>1, <2>2
<1>4. ASSUME NEW c \in Conn, NEW s, conn'[c] = s
      PROVE  Current(s)'
  <2>1. ASSUME UNCHANGED vars, Current(s) PROVE Current(s)'
    BY <2>1, CurrentStays
  <2>2. CASE UNCHANGED txnVars
    BY <1>4, <2>1, <2>2 DEF txnVars, vars, SerialInv
  <2>3. ASSUME NEW g \in Editgroup, NewEditgroup(g) \/ NewBatch(g) PROVE Current(s)'
    <3>1. conn[c] = s
      BY <1>4, <2>3 DEF NewEditgroup, NewBatch
    <3> QED
      BY <2>3, <3>1, InsertOnlyKeepsCurrent
  <2>4. ASSUME NEW d \in Conn, EditCall(d) \/ AcceptCall(d) \/ Rollback(d) PROVE Current(s)'
    <3>1. d = c
      BY DEF Serial
    <3>2. CASE UNCHANGED vars
      BY <1>4, <2>1, <2>4, <3>1, <3>2, OwnStepCurrent
    <3>3. CASE conn'[c] = Idle
      BY <1>4, <3>3 DEF Current, Idle, PastCheck, PastForward, PastBackward
    <3> QED
      BY <2>4, <3>1, <3>2, <3>3, WriteEndsCall
  <2> QED
    BY <2>2, <2>3, <2>4 DEF TxnNext
<1> QED
  BY <1>1, <1>2, <1>3, <1>4 DEF SerialInv

LEMMA SerialInit ==
    ASSUME TxnInit
    PROVE  SerialInv
<1>1. TxnInv
  BY TxnTypeInit, TxnRowsInit DEF TxnInv, TxnInit, WritesEdits, RowsLocked, Writing, Idle
<1>2. \A s \in {conn[c] : c \in Conn} : Current(s)
  BY DEF TxnInit, Current, Idle, PastCheck, PastForward, PastBackward
<1> QED
  BY <1>1, <1>2, IInvInit DEF TxnInit, Init, SerialInv, EditgroupsExist

\* Calls that come one at a time do what Catalog says of them, though batches and
\* new editgroups come in between their statements: each transaction is its
\* statements and nothing is lost in taking it for one step.
THEOREM SerialImplementsCatalog == Serial => (TxnSpec => ImplementsCatalog)
<1> SUFFICES ASSUME Serial PROVE TxnSpec => ImplementsCatalog
  OBVIOUS
<1>1. TxnInit => Init /\ SerialInv
  BY SerialInit DEF TxnInit
<1>2. SerialInv /\ [TxnNext]_txnVars => [Next]_vars /\ SerialInv'
  BY SerialNext
<1> QED
  BY <1>1, <1>2, PTL DEF TxnSpec, Spec, ImplementsCatalog

-----------------------------------------------------------------------------
(* With one connection, what was accepted stays as it was and is logged once. *)

\* An entry is added to two logs.
LEMMA LogsAppend ==
    ASSUME NEW S, NEW T, NEW q \in Seq(S), NEW r \in Seq(T), Len(q) = Len(r),
           NEW f, NEW x \in S, NEW y \in T, f[x] = y,
           \A k \in DOMAIN q : f[q[k]] = r[k]
    PROVE  /\ Len(Append(q, x)) = Len(Append(r, y))
           /\ \A k \in DOMAIN Append(q, x) : f[Append(q, x)[k]] = Append(r, y)[k]
<1>1. PICK u, v : u = Append(q, x) /\ v = Append(r, y)
  OBVIOUS
<1>2. /\ Len(q) \in Nat /\ DOMAIN q = 1 .. Len(q)
      /\ Len(u) = Len(q) + 1 /\ DOMAIN u = 1 .. Len(q) + 1
      /\ u[Len(q) + 1] = x /\ \A k \in 1 .. Len(q) : u[k] = q[k]
  BY <1>1
<1>3. /\ Len(v) = Len(q) + 1 /\ v[Len(q) + 1] = y
      /\ \A k \in 1 .. Len(q) : v[k] = r[k]
  BY <1>1, <1>2
<1>4. \A k \in DOMAIN u : f[u[k]] = v[k]
  <2> SUFFICES ASSUME NEW k \in DOMAIN u
               PROVE  f[u[k]] = v[k]
    OBVIOUS
  <2>1. CASE k = Len(q) + 1
    BY <1>2, <1>3, <2>1
  <2>2. CASE k \in 1 .. Len(q)
    BY <1>2, <1>3, <2>2
  <2> QED
    BY <1>2, <2>1, <2>2
<1> QED
  BY <1>1, <1>2, <1>3, <1>4

\* No call of Catalog touches the edits of an editgroup in the changelog, and
\* only an accept or a batch adds to the changelog.
LEMMA AcceptedEditsKept ==
    ASSUME TypeOK, AcceptedOnce, [Next]_vars, NEW h \in Editgroup, InChangelog(h)
    PROVE  edit'[h] = edit[h]
<1>1. editgroup[h] # NULL
  BY DEF AcceptedOnce
<1>2. CASE UNCHANGED vars
  BY <1>2 DEF vars
<1>3. ASSUME NEW g \in Editgroup, CreateEditgroup(g) PROVE edit'[h] = edit[h]
  BY <1>3 DEF CreateEditgroup
<1>4. ASSUME NEW g \in Editgroup, NEW i \in Ident, EditStep(g, i) PROVE edit'[h] = edit[h]
  <2>1. g # h
    BY <1>4 DEF EditStep, CreateEntity, UpdateEntity, RevertEntity, RedirectEntity,
        DeleteEntity, DeleteEdit, OpenForEdits
  <2> QED
    BY <1>4, <2>1 DEF EditStep, CreateEntity, UpdateEntity, RevertEntity, RedirectEntity,
        DeleteEntity, DeleteEdit, InsertEdit, TypeOK
<1>5. ASSUME NEW g \in Editgroup, AcceptEditgroup(g) PROVE edit'[h] = edit[h]
  BY <1>5 DEF AcceptEditgroup
<1>6. ASSUME NEW g \in Editgroup, NEW batch \in Batches, AutoBatch(g, batch)
      PROVE  edit'[h] = edit[h]
  <2>1. g # h
    BY <1>1, <1>6 DEF AutoBatch
  <2> QED
    BY <1>6, <2>1 DEF AutoBatch, TypeOK
<1> QED
  BY <1>2, <1>3, <1>4, <1>5, <1>6 DEF Next

FrozenInv ==
    /\ SerialInv
    /\ Len(applied) = Len(changelog)
    /\ AcceptedEditsFrozen
    /\ \A c \in Conn : Writing(c) => conn[c].edits = edit[conn[c].g]

\* What an accept has read and is writing is what its editgroup still holds.
LEMMA WritingIsCurrent ==
    ASSUME Serial, FrozenInv, [TxnNext]_txnVars, NEW c \in Conn, Writing(c)'
    PROVE  conn'[c].edits = edit'[conn'[c].g]
<1>1. TxnTypeOK /\ TypeOK /\ SessionRows(c) /\ Current(conn[c])
  BY DEF FrozenInv, SerialInv, TxnInv, TxnTypeOK, RowsExist
<1>2. ASSUME NEW next, Go(c, next) PROVE conn'[c] = next
  BY <1>1, <1>2 DEF Go, TxnTypeOK
<1>3. CASE UNCHANGED txnVars
  BY <1>3 DEF txnVars, Writing, FrozenInv
<1>4. ASSUME NEW g \in Editgroup, NewEditgroup(g) \/ NewBatch(g)
      PROVE  conn'[c].edits = edit'[conn'[c].g]
  <2>1. conn' = conn /\ Writing(c)
    BY <1>4 DEF NewEditgroup, NewBatch, Writing
  <2>2. conn[c].g \in Editgroup /\ editgroup[conn[c].g] # NULL
    BY <1>1, <2>1, WritingForm DEF SessionRows, Accepting
  <2>3. edit'[conn[c].g] = edit[conn[c].g]
    BY <1>1, <1>4, <2>2 DEF NewEditgroup, NewBatch, CreateEditgroup, AutoBatch, TypeOK
  <2> QED
    BY <2>1, <2>3 DEF FrozenInv
<1>5. CASE EditCall(c) \/ Rollback(c)
  <2>1. CASE FinishDeleteEdit(c) \/ Go(c, Idle)
    <3>1. conn'[c] = Idle
      BY <1>1, <1>2, <2>1 DEF FinishDeleteEdit
    <3> QED
      BY <3>1 DEF Writing, Idle
  <2>2. ASSUME NEW g \in Editgroup, BeginEdit(c, g)
        PROVE  conn'[c].at = "opened"
    BY <1>2, <2>2 DEF BeginEdit
  <2>3. ASSUME NEW g \in Editgroup, NEW i \in Ident, BeginDeleteEdit(c, g, i)
        PROVE  conn'[c].at = "deleting"
    BY <1>2, <2>3 DEF BeginDeleteEdit
  <2>4. ASSUME NEW i \in Ident, ReadCurrent(c, i)
        PROVE  conn'[c].at = "read"
    BY <1>2, <2>4 DEF ReadCurrent
  <2>5. ASSUME NEW i \in Ident, ReadRedirectTarget(c, i)
        PROVE  conn'[c].at = "target"
    BY <1>2, <2>5 DEF ReadRedirectTarget
  <2>6. \/ FinishDeleteEdit(c) \/ Go(c, Idle)
        \/ \E g \in Editgroup : BeginEdit(c, g) \/ \E i \in Ident : BeginDeleteEdit(c, g, i)
        \/ \E i \in Ident : ReadCurrent(c, i) \/ ReadRedirectTarget(c, i)
    BY <1>5 DEF EditCall, InsertCreate, InsertUpdate, InsertRevert, InsertDelete,
        InsertRedirect, Insert, Rollback
  <2> QED
    BY <2>1, <2>2, <2>3, <2>4, <2>5, <2>6 DEF Writing
<1>6. CASE AcceptCall(c)
  <2>1. CASE \/ \E g \in Editgroup : BeginAccept(c, g)
             \/ CheckForward(c) \/ CheckBackward(c) \/ PlanApply(c) \/ CommitAccept(c)
    <3>1. ASSUME NEW g \in Editgroup, BeginAccept(c, g)
          PROVE  conn'[c].at = "checked"
      BY <1>2, <3>1 DEF BeginAccept
    <3>2. ASSUME CheckForward(c) \/ CheckBackward(c)
          PROVE  conn'[c].at \in {"forward", "backward"}
      <4>1. conn[c] \in Checking
        BY <1>1, <3>2, SessionForm DEF CheckForward, CheckBackward, At, TxnTypeOK
      <4>2. conn'[c] = [conn[c] EXCEPT !.at = "forward"] \/ conn'[c] = [conn[c] EXCEPT !.at = "backward"]
        BY <1>2, <3>2 DEF CheckForward, CheckBackward
      <4> QED
        BY <4>1, <4>2 DEF Checking
    <3>3. ASSUME PlanApply(c)
          PROVE  conn'[c].at = "applying"
      BY <1>2, <3>3 DEF PlanApply
    <3>4. ASSUME CommitAccept(c)
          PROVE  conn'[c].at = "idle"
      BY <1>2, <3>4 DEF CommitAccept, Idle
    <3> QED
      BY <2>1, <3>1, <3>2, <3>3, <3>4 DEF Writing
  <2>2. CASE Apply(c)
    <3>1. conn'[c].edits = conn[c].snapshot /\ conn'[c].g = conn[c].g /\ edit' = edit
      BY <1>2, <2>2 DEF Apply, Tables
    <3>2. conn[c].snapshot = edit[conn[c].g]
      BY <1>1, <2>2 DEF Apply, At, Current
    <3> QED
      BY <3>1, <3>2
  <2>3. CASE PlanRedirects(c) \/ FinishRedirects(c)
    <3>1. conn'[c].edits = conn[c].edits /\ conn'[c].g = conn[c].g /\ edit' = edit
      <4>1. CASE PlanRedirects(c)
        <5>1. PICK snapshot : Go(c, [at |-> "redirecting", g |-> conn[c].g, edits |-> conn[c].edits,
                                     written |-> conn[c].written, snapshot |-> snapshot])
          BY <4>1 DEF PlanRedirects
        <5>2. edit' = edit
          BY <4>1 DEF PlanRedirects, Tables
        <5> QED
          BY <1>2, <5>1, <5>2
      <4>2. CASE FinishRedirects(c)
        <5>1. PICK written : Go(c, [at |-> "redirected", g |-> conn[c].g, edits |-> conn[c].edits,
                                    written |-> written])
          BY <4>2 DEF FinishRedirects
        <5>2. edit' = edit
          BY <4>2 DEF FinishRedirects, Tables
        <5> QED
          BY <1>2, <5>1, <5>2
      <4> QED
        BY <2>3, <4>1, <4>2
    <3>2. Writing(c)
      BY <2>3 DEF PlanRedirects, FinishRedirects, At, Writing
    <3> QED
      BY <3>1, <3>2 DEF FrozenInv
  <2> QED
    BY <1>6, <2>1, <2>2, <2>3 DEF AcceptCall
<1>7. ASSUME NEW d \in Conn, EditCall(d) \/ AcceptCall(d) \/ Rollback(d) PROVE d = c
  BY DEF Serial
<1> QED
  BY <1>3, <1>4, <1>5, <1>6, <1>7 DEF TxnNext

LEMMA FrozenNext ==
    ASSUME Serial, FrozenInv, [TxnNext]_txnVars
    PROVE  FrozenInv'
<1>1. SerialInv' /\ [Next]_vars
  BY SerialNext DEF FrozenInv
<1>2. /\ TypeOK /\ AcceptedOnce /\ applied \in Seq(Snapshot) /\ changelog \in Seq(Editgroup)
      /\ Len(applied) = Len(changelog)
  BY DEF FrozenInv, SerialInv, IInv, TxnInv, TxnTypeOK, TypeOK
<1>3. PICK f : f = edit'
  OBVIOUS
<1>4. \A k \in DOMAIN changelog : f[changelog[k]] = applied[k]
  <2> SUFFICES ASSUME NEW k \in DOMAIN changelog
               PROVE  f[changelog[k]] = applied[k]
    OBVIOUS
  <2>1. changelog[k] \in Editgroup /\ InChangelog(changelog[k])
    BY <1>2 DEF InChangelog
  <2>2. f[changelog[k]] = edit[changelog[k]]
    BY <1>1, <1>2, <1>3, <2>1, AcceptedEditsKept
  <2> QED
    BY <2>2 DEF FrozenInv, AcceptedEditsFrozen
<1>5. \A c \in Conn : Writing(c)' => conn'[c].edits = edit'[conn'[c].g]
  BY WritingIsCurrent
<1>6. CASE UNCHANGED <<changelog, applied>>
  BY <1>1, <1>2, <1>3, <1>4, <1>5, <1>6 DEF FrozenInv, AcceptedEditsFrozen, Writing
<1>7. ASSUME NEW g \in Editgroup, NEW e \in Snapshot, f[g] = e,
             changelog' = Append(changelog, g), applied' = Append(applied, e)
      PROVE  FrozenInv'
  <2>1. /\ Len(changelog') = Len(applied')
        /\ \A k \in DOMAIN changelog' : f[changelog'[k]] = applied'[k]
    BY <1>2, <1>4, <1>7, LogsAppend
  <2> QED
    BY <1>1, <1>3, <1>5, <2>1 DEF FrozenInv, AcceptedEditsFrozen, Writing
<1>8. ASSUME NEW g \in Editgroup, NewBatch(g)
      PROVE  FrozenInv'
  <2>1. changelog' = Append(changelog, g) /\ applied' = Append(applied, f[g])
    BY <1>3, <1>8 DEF NewBatch, AutoBatch
  <2>2. f[g] \in Snapshot
    BY <1>1, <1>3 DEF SerialInv, TxnInv, TxnTypeOK, TypeOK, Snapshot
  <2> QED
    BY <1>7, <2>1, <2>2
<1>9. ASSUME NEW c \in Conn, CommitAccept(c)
      PROVE  FrozenInv'
  <2>1. Writing(c) /\ edit' = edit
    BY <1>9 DEF CommitAccept, At, Writing
  <2>2. conn[c].g \in Editgroup /\ conn[c].edits \in Snapshot
    BY <2>1, WritingForm DEF FrozenInv, SerialInv, TxnInv
  <2>3. f[conn[c].g] = conn[c].edits
    BY <1>3, <2>1 DEF FrozenInv
  <2>4. changelog' = Append(changelog, conn[c].g) /\ applied' = Append(applied, conn[c].edits)
    BY <1>9 DEF CommitAccept
  <2> QED
    BY <1>7, <2>2, <2>3, <2>4
<1>10. \/ UNCHANGED <<changelog, applied>>
       \/ \E g \in Editgroup : NewBatch(g)
       \/ \E c \in Conn : CommitAccept(c)
  <2>1. ASSUME NEW c \in Conn, EditCall(c) \/ Rollback(c)
        PROVE  UNCHANGED <<changelog, applied>>
    BY <2>1 DEF EditCall, BeginEdit, BeginDeleteEdit, ReadCurrent, InsertCreate, InsertUpdate,
        InsertRevert, ReadRedirectTarget, InsertDelete, InsertRedirect, FinishDeleteEdit,
        Rollback, Tables
  <2>2. ASSUME NEW c \in Conn, AcceptCall(c)
        PROVE  UNCHANGED <<changelog, applied>> \/ CommitAccept(c)
    BY <2>2 DEF AcceptCall, BeginAccept, CheckForward, CheckBackward, PlanApply, Apply,
        PlanRedirects, FinishRedirects, Tables
  <2>3. ASSUME NEW g \in Editgroup, NewEditgroup(g)
        PROVE  UNCHANGED <<changelog, applied>>
    BY <2>3 DEF NewEditgroup, CreateEditgroup
  <2>4. CASE UNCHANGED txnVars
    BY <2>4 DEF txnVars
  <2> QED
    BY <2>1, <2>2, <2>3, <2>4 DEF TxnNext
<1> QED
  BY <1>6, <1>8, <1>9, <1>10

LEMMA FrozenAlways == Serial => (TxnSpec => []FrozenInv)
<1> SUFFICES ASSUME Serial PROVE TxnSpec => []FrozenInv
  OBVIOUS
<1>1. TxnInit => FrozenInv
  <2> SUFFICES ASSUME TxnInit PROVE FrozenInv
    OBVIOUS
  <2>1. SerialInv
    BY SerialInit
  <2> QED
    BY <2>1 DEF TxnInit, Init, FrozenInv, AcceptedEditsFrozen, Writing, Idle
<1> QED
  BY <1>1, FrozenNext, PTL DEF TxnSpec

\* When calls come one at a time, the check of accept_editgroup is enough: an
\* editgroup is in the changelog once.
THEOREM SerialLogsOnce == Serial => (TxnSpec => []LoggedOnce)
<1>1. FrozenInv => LoggedOnce
  BY DEF FrozenInv, SerialInv, IInv, AcceptedOnce, LoggedOnce
<1> QED
  BY <1>1, FrozenAlways, PTL

\* And the checks before an edit are: the edits of an editgroup in the changelog
\* are the ones its accept applied, whatever batches come in between.
THEOREM SerialFreezesEdits == Serial => (TxnSpec => []AcceptedEditsFrozen)
<1>1. FrozenInv => AcceptedEditsFrozen
  BY DEF FrozenInv
<1> QED
  BY <1>1, FrozenAlways, PTL

=============================================================================
