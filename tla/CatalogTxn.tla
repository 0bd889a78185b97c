----------------------------- MODULE CatalogTxn -----------------------------
(***************************************************************************)
(* The calls of Catalog as the server really runs them: each handler takes *)
(* a connection of the r2d2 pool and opens a transaction on it, and the    *)
(* transactions of several connections interleave, SQL statement by SQL    *)
(* statement.  The server never sets an isolation level, so Postgres gives *)
(* READ COMMITTED: every statement sees what was committed when it began   *)
(* and what its own transaction wrote.                                     *)
(*                                                                         *)
(* The variables of Catalog are the committed tables; conn adds where each *)
(* connection is in its call, what that call has read, and the ident rows  *)
(* it has written (and so locked) but not committed.                       *)
(*                                                                         *)
(* An UPDATE ... FROM is two steps.  One takes the statement's snapshot and *)
(* finds the rows it joins; the other runs once no other transaction has   *)
(* those rows locked, and looks at each row again as it then is.           *)
(*                                                                         *)
(* The rows an edit call inserts are invisible to others until its COMMIT, *)
(* so its INSERTs and COMMIT are one step.  So are the two last statements *)
(* of an accept (the changelog INSERT, the is_accepted UPDATE) and its     *)
(* COMMIT; ChangelogFeed takes those apart.                                *)
(***************************************************************************)
EXTENDS Catalog

CONSTANT Conn   \* the connections of the pool

VARIABLES
    conn,       \* what each connection is doing
    applied     \* auxiliary: the edits each changelog entry copied to the ident table

txnVars == <<ident, revs, edit, editgroup, changelog, conn, applied>>

Idle == [at |-> "idle"]

\* Edit calls, after EditContext::check(), after reading the ident row, and
\* after reading the row to redirect to as well.
Opened == [at : {"opened"}, g : Editgroup]
ReadRow == [at : {"read"}, g : Editgroup, i : Ident, row : IdentRow]
ReadTarget == [at : {"target"}, g : Editgroup, i : Ident, row : IdentRow,
               target : Ident, rev_id : Rev \cup {NULL}]
Deleting == [at : {"deleting"}, g : Editgroup, i : Ident]

\* Accept calls: the snapshot of a statement says which rows it is to write.
Snapshot == [Ident -> EditRow \cup {NULL}]
RedirectFound == [target : Ident, rev_id : Rev \cup {NULL}]
RedirectSnapshot == [Ident -> RedirectFound \cup {NULL}]
Written == [Ident -> IdentRow \cup {NULL}]

Checking == [at : {"checked", "forward", "backward"}, g : Editgroup]
Applying == [at : {"applying"}, g : Editgroup, snapshot : Snapshot]
Applied == [at : {"applied", "redirected"}, g : Editgroup, edits : Snapshot,
            written : Written]
Redirecting == [at : {"redirecting"}, g : Editgroup, edits : Snapshot,
                written : Written, snapshot : RedirectSnapshot]

Session == {Idle} \cup Opened \cup ReadRow \cup ReadTarget \cup Deleting
           \cup Checking \cup Applying \cup Applied \cup Redirecting

ASSUME FoundAssumption == NULL \notin RedirectFound

TxnTypeOK ==
    /\ TypeOK
    /\ conn \in [Conn -> Session]
    /\ applied \in Seq(Snapshot)

TxnInit ==
    /\ Init
    /\ conn = [c \in Conn |-> Idle]
    /\ applied = << >>

At(c, step) == conn[c].at = step
Go(c, session) == conn' = [conn EXCEPT ![c] = session]
Tables == <<ident, revs, edit, editgroup, changelog, applied>>

-----------------------------------------------------------------------------
(* Calls that only insert new rows: nobody else sees them before COMMIT. *)

NewEditgroup(g) == CreateEditgroup(g) /\ UNCHANGED <<conn, applied>>

NewBatch(g) ==
    /\ \E batch \in Batches : AutoBatch(g, batch)
    /\ applied' = Append(applied, edit'[g])
    /\ UNCHANGED conn

-----------------------------------------------------------------------------
(* Edit calls. *)

BeginEdit(c, g) ==
    /\ At(c, "idle")
    /\ OpenForEdits(g)
    /\ Go(c, [at |-> "opened", g |-> g])
    /\ UNCHANGED Tables

\* INSERT INTO <entity>_edit, and COMMIT.
Insert(c, i, row) ==
    /\ InsertEdit(conn[c].g, i, row)
    /\ Go(c, Idle)

InsertCreate(c, i, r) ==
    /\ At(c, "opened")
    /\ ident[i] = NULL
    /\ r \notin revs
    /\ revs' = revs \cup {r}
    /\ ident' = [ident EXCEPT ![i] =
                    [is_live |-> FALSE, rev_id |-> r, redirect_id |-> NULL]]
    /\ Insert(c, i, [rev_id |-> r, redirect_id |-> NULL, prev_rev |-> NULL])
    /\ UNCHANGED <<editgroup, changelog, applied>>

\* let current = <entity>_ident.find(ident)
ReadCurrent(c, i) ==
    /\ At(c, "opened")
    /\ ident[i] # NULL
    /\ Go(c, [at |-> "read", g |-> conn[c].g, i |-> i, row |-> ident[i]])
    /\ UNCHANGED Tables

PrevRevOf(row) == IF row.redirect_id = NULL THEN row.rev_id ELSE NULL

InsertUpdate(c, r) ==
    /\ At(c, "read")
    /\ r \notin revs
    /\ revs' = revs \cup {r}
    /\ Insert(c, conn[c].i, [rev_id |-> r, redirect_id |-> NULL,
                             prev_rev |-> PrevRevOf(conn[c].row)])
    /\ UNCHANGED <<ident, editgroup, changelog, applied>>

InsertRevert(c, r) ==
    /\ At(c, "read")
    /\ r \in revs
    /\ r # conn[c].row.rev_id
    /\ Insert(c, conn[c].i, [rev_id |-> r, redirect_id |-> NULL,
                             prev_rev |-> PrevRevOf(conn[c].row)])
    /\ UNCHANGED <<ident, revs, editgroup, changelog, applied>>

InsertDelete(c) ==
    /\ At(c, "read")
    /\ State(conn[c].row) \in {"active", "redirect"}
    /\ Insert(c, conn[c].i, [rev_id |-> NULL, redirect_id |-> NULL,
                             prev_rev |-> conn[c].row.rev_id])
    /\ UNCHANGED <<ident, revs, editgroup, changelog, applied>>

\* let target = <entity>_ident.find(redirect_ident), and the checks around it.
ReadRedirectTarget(c, target) ==
    /\ At(c, "read")
    /\ target # conn[c].i
    /\ target # conn[c].row.redirect_id
    /\ ident[target] # NULL
    /\ ident[target].is_live
    /\ Go(c, [at |-> "target", g |-> conn[c].g, i |-> conn[c].i, row |-> conn[c].row,
              target |-> target, rev_id |-> ident[target].rev_id])
    /\ UNCHANGED Tables

InsertRedirect(c) ==
    /\ At(c, "target")
    /\ Insert(c, conn[c].i, [rev_id      |-> conn[c].rev_id,
                             redirect_id |-> conn[c].target,
                             prev_rev    |-> PrevRevOf(conn[c].row)])
    /\ UNCHANGED <<ident, revs, editgroup, changelog, applied>>

\* Mutant of BeginDeleteEdit: the look at the changelog dropped.
DeleteAcceptedEdit(c, g, i) ==
    /\ At(c, "idle")
    /\ edit[g][i] # NULL
    /\ Go(c, [at |-> "deleting", g |-> g, i |-> i])
    /\ UNCHANGED Tables

BeginDeleteEdit(c, g, i) ==
    /\ At(c, "idle")
    /\ edit[g][i] # NULL
    /\ ~InChangelog(g)
    /\ Go(c, [at |-> "deleting", g |-> g, i |-> i])
    /\ UNCHANGED Tables

\* The DELETE names the edit by its id.  Another call deleting the same edit is
\* left with nothing to do, even if its editgroup edits the entity anew.
FinishDeleteEdit(c) ==
    /\ At(c, "deleting")
    /\ edit' = [edit EXCEPT ![conn[c].g] = [@ EXCEPT ![conn[c].i] = NULL]]
    /\ conn' = [d \in Conn |-> IF conn[d] = conn[c] THEN Idle ELSE conn[d]]
    /\ UNCHANGED <<ident, revs, editgroup, changelog, applied>>

-----------------------------------------------------------------------------
(* Accept calls. *)

BeginAccept(c, g) ==
    /\ At(c, "idle")
    /\ editgroup[g] # NULL
    /\ NotAccepted(g)
    /\ Go(c, [at |-> "checked", g |-> g])
    /\ UNCHANGED Tables

CheckForward(c) ==
    /\ At(c, "checked")
    /\ ~ForwardRecursive(conn[c].g)
    /\ Go(c, [conn[c] EXCEPT !.at = "forward"])
    /\ UNCHANGED Tables

CheckBackward(c) ==
    /\ At(c, "forward")
    /\ ~BackwardRecursive(conn[c].g)
    /\ Go(c, [conn[c] EXCEPT !.at = "backward"])
    /\ UNCHANGED Tables

\* Rows another transaction has written and not committed.
Locked(c, i) ==
    \E d \in Conn \ {c} :
        conn[d].at \in {"applied", "redirecting", "redirected"} /\ conn[d].written[i] # NULL

\* What a statement of c sees of the ident table.
Overlay(written) == [i \in Ident |-> IF written[i] # NULL THEN written[i] ELSE ident[i]]

PlanApply(c) ==
    /\ At(c, "backward")
    /\ Go(c, [at |-> "applying", g |-> conn[c].g, snapshot |-> edit[conn[c].g]])
    /\ UNCHANGED Tables

Apply(c) ==
    /\ At(c, "applying")
    /\ LET snapshot == conn[c].snapshot
       IN  /\ \A i \in Ident : snapshot[i] # NULL => ~Locked(c, i)
           /\ Go(c, [at |-> "applied", g |-> conn[c].g, edits |-> snapshot,
                     written |-> [i \in Ident |->
                         IF snapshot[i] = NULL
                         THEN NULL
                         ELSE [is_live     |-> TRUE,
                               rev_id      |-> snapshot[i].rev_id,
                               redirect_id |-> snapshot[i].redirect_id]]])
    /\ UNCHANGED Tables

PlanRedirects(c) ==
    /\ At(c, "applied")
    /\ LET g == conn[c].g
           table == Overlay(conn[c].written)
       IN  Go(c, [at |-> "redirecting", g |-> g, edits |-> conn[c].edits,
                  written |-> conn[c].written,
                  snapshot |-> [i \in Ident |->
                      IF RedirectsToEdited(g, table, i)
                      THEN [target |-> table[i].redirect_id,
                            rev_id |-> edit[g][table[i].redirect_id].rev_id]
                      ELSE NULL]])
    /\ UNCHANGED Tables

\* Mutant of StillRedirects: the rows are selected first and updated by their id,
\* so the condition is not looked at again.
NotLookedAtAgain(row, found) == TRUE

\* WHERE {entity}_ident.redirect_id = {entity}_edit.ident_id: Postgres evaluates
\* it again on the row as it is once unlocked.
StillRedirects(row, found) == row.redirect_id = found.target

FinishRedirects(c) ==
    /\ At(c, "redirecting")
    /\ LET snapshot == conn[c].snapshot
           table == Overlay(conn[c].written)
       IN  /\ \A i \in Ident : snapshot[i] # NULL => ~Locked(c, i)
           /\ Go(c, [at |-> "redirected", g |-> conn[c].g, edits |-> conn[c].edits,
                     written |-> [i \in Ident |->
                         IF snapshot[i] # NULL /\ StillRedirects(table[i], snapshot[i])
                         THEN [table[i] EXCEPT !.rev_id = snapshot[i].rev_id]
                         ELSE conn[c].written[i]]])
    /\ UNCHANGED Tables

CommitAccept(c) ==
    /\ At(c, "redirected")
    /\ ident' = Overlay(conn[c].written)
    /\ changelog' = Append(changelog, conn[c].g)
    /\ editgroup' = [editgroup EXCEPT ![conn[c].g] = [@ EXCEPT !.is_accepted = TRUE]]
    /\ applied' = Append(applied, conn[c].edits)
    /\ Go(c, Idle)
    /\ UNCHANGED <<revs, edit>>

\* A refused call, a database error, a deadlock victim, a server that stops.
Rollback(c) ==
    /\ ~At(c, "idle")
    /\ Go(c, Idle)
    /\ UNCHANGED Tables

-----------------------------------------------------------------------------

EditCall(c) ==
    \/ \E g \in Editgroup : BeginEdit(c, g) \/ \E i \in Ident : BeginDeleteEdit(c, g, i)
    \/ \E i \in Ident : ReadCurrent(c, i) \/ \E r \in Rev : InsertCreate(c, i, r)
    \/ \E r \in Rev : InsertUpdate(c, r) \/ InsertRevert(c, r)
    \/ \E target \in Ident : ReadRedirectTarget(c, target)
    \/ InsertDelete(c)
    \/ InsertRedirect(c)
    \/ FinishDeleteEdit(c)

AcceptCall(c) ==
    \/ \E g \in Editgroup : BeginAccept(c, g)
    \/ CheckForward(c)
    \/ CheckBackward(c)
    \/ PlanApply(c)
    \/ Apply(c)
    \/ PlanRedirects(c)
    \/ FinishRedirects(c)
    \/ CommitAccept(c)

TxnNext ==
    \/ \E g \in Editgroup : NewEditgroup(g) \/ NewBatch(g)
    \/ \E c \in Conn : EditCall(c) \/ AcceptCall(c) \/ Rollback(c)

TxnSpec == TxnInit /\ [][TxnNext]_txnVars

-----------------------------------------------------------------------------
(* What must hold. *)

\* However the calls interleave, the ident table is the replay, in changelog
\* order, of the edits each accept read: an accept neither overwrites nor mixes
\* with one it ran alongside, what it does to redirects included, and nothing
\* else changes a published entity.
TxnChangesets ==
    [k \in DOMAIN applied |->
        [i \in {i \in Ident : applied[k][i] # NULL} |-> Shown(applied[k][i])]]

TxnLog == INSTANCE PublishedLog WITH
    Entity  <- Ident,
    None    <- NULL,
    Pointer <- Pointer,
    head    <- PublishedHead,
    log     <- TxnChangesets

CommitsPublish == [][TxnLog!Next]_<<PublishedHead, TxnChangesets>>

\* With one connection the statements add up to the calls of Catalog.
ImplementsCatalog == Spec

\* "ensure that edit hasn't been accepted" (entity_crud.rs, db_delete_edit),
\* and EditContext::check() before every edit: the edits of an editgroup in the
\* changelog are the ones its accept applied.
AcceptedEditsFrozen ==
    \A k \in DOMAIN changelog : edit[changelog[k]] = applied[k]

\* "check that we haven't accepted already (in changelog)" (editing.rs).
LoggedOnce == \A k, l \in DOMAIN changelog : changelog[k] = changelog[l] => k = l

=============================================================================
