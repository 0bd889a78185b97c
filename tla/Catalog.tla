------------------------------ MODULE Catalog ------------------------------
(***************************************************************************)
(* The editing core of the fatcat API server: the *_ident, *_rev, *_edit,  *)
(* editgroup and changelog tables of one entity type and the handlers that *)
(* write them (rust/src/entity_crud.rs, editing.rs, editing_crud.rs,       *)
(* endpoint_handlers.rs).  The seven entity types use the same macros, and *)
(* a redirect stays inside its type (foreign key), so one type is enough   *)
(* to state what the macros promise.                                       *)
(*                                                                         *)
(* Every action is one API call, that is one database transaction run to   *)
(* its commit; a call that is refused rolls back and is not a step.        *)
(* CatalogTxn breaks the same calls into their SQL statements.             *)
(*                                                                         *)
(* Who may call (auth.rs) is left out: an admin may make every call below. *)
(***************************************************************************)
EXTENDS Naturals, Sequences

CONSTANTS
    Editgroup,  \* identifiers the editgroup table may come to hold
    Ident,      \* identifiers the <entity>_ident table may come to hold
    Rev,        \* identifiers the <entity>_rev table may come to hold
    NULL        \* SQL NULL; also stands for a row that does not exist

IdentRow == [is_live     : BOOLEAN,
             rev_id      : Rev \cup {NULL},
             redirect_id : Ident \cup {NULL}]

EditRow == [rev_id      : Rev \cup {NULL},
            redirect_id : Ident \cup {NULL},
            prev_rev    : Rev \cup {NULL}]

EditgroupRow == [is_accepted : BOOLEAN]

ASSUME NullAssumption ==
    NULL \notin Ident \cup Rev \cup IdentRow \cup EditRow \cup EditgroupRow

VARIABLES
    ident,      \* the <entity>_ident table
    revs,       \* the <entity>_rev table: the revisions inserted so far
    edit,       \* the <entity>_edit table, by its key UNIQUE (editgroup_id, ident_id)
    editgroup,  \* the editgroup table
    changelog   \* the changelog table, by ascending id

vars == <<ident, revs, edit, editgroup, changelog>>

TypeOK ==
    /\ ident \in [Ident -> IdentRow \cup {NULL}]
    /\ revs \in SUBSET Rev
    /\ edit \in [Editgroup -> [Ident -> EditRow \cup {NULL}]]
    /\ editgroup \in [Editgroup -> EditgroupRow \cup {NULL}]
    /\ changelog \in Seq(Editgroup)

\* A new database; the sample rows the migration inserts for tests are left out.
Init ==
    /\ ident = [i \in Ident |-> NULL]
    /\ revs = {}
    /\ edit = [g \in Editgroup |-> [i \in Ident |-> NULL]]
    /\ editgroup = [g \in Editgroup |-> NULL]
    /\ changelog = << >>

-----------------------------------------------------------------------------
(* Rows as the code reads them. *)

\* EntityIdentRow::state(); "absent" where the lookup finds no row.
State(row) ==
    CASE row = NULL -> "absent"
      [] row # NULL /\ ~row.is_live -> "wip"
      [] row # NULL /\ row.is_live /\ row.redirect_id # NULL -> "redirect"
      [] row # NULL /\ row.is_live /\ row.redirect_id = NULL /\ row.rev_id # NULL -> "active"
      [] OTHER -> "deleted"

InChangelog(g) == \E k \in DOMAIN changelog : changelog[k] = g

\* Mutant of OpenForEdits: any editgroup that exists will do.
AnyEditgroup(g) == editgroup[g] # NULL

\* EditContext::check(), and the foreign key that makes the editgroup exist.
OpenForEdits(g) == editgroup[g] # NULL /\ ~InChangelog(g)

\* Mutant of PrevRev: the wrong column of a redirect.
PrevRevOfRedirect(i) == IF ident[i].redirect_id = NULL THEN ident[i].rev_id
                        ELSE ident[i].redirect_id

\* prev_rev as db_update computes it: no revision of its own behind a redirect.
PrevRev(i) == IF ident[i].redirect_id = NULL THEN ident[i].rev_id ELSE NULL

\* INSERT INTO <entity>_edit: refused when the editgroup already edits i.
InsertEdit(g, i, row) ==
    /\ edit[g][i] = NULL
    /\ edit' = [edit EXCEPT ![g] = [@ EXCEPT ![i] = row]]

-----------------------------------------------------------------------------
(* Editgroups. *)

CreateEditgroup(g) ==
    /\ editgroup[g] = NULL
    /\ editgroup' = [editgroup EXCEPT ![g] = [is_accepted |-> FALSE]]
    /\ UNCHANGED <<ident, revs, edit, changelog>>

-----------------------------------------------------------------------------
(* Edits. *)

CreateEntity(g, i, r) ==
    /\ OpenForEdits(g)
    /\ ident[i] = NULL
    /\ r \notin revs
    /\ revs' = revs \cup {r}
    /\ ident' = [ident EXCEPT ![i] =
                    [is_live |-> FALSE, rev_id |-> r, redirect_id |-> NULL]]
    /\ InsertEdit(g, i, [rev_id |-> r, redirect_id |-> NULL, prev_rev |-> NULL])
    /\ UNCHANGED <<editgroup, changelog>>

\* db_update with a new body: any row will do, a WIP one of another editgroup too.
UpdateEntity(g, i, r) ==
    /\ OpenForEdits(g)
    /\ ident[i] # NULL
    /\ r \notin revs
    /\ revs' = revs \cup {r}
    /\ InsertEdit(g, i, [rev_id |-> r, redirect_id |-> NULL, prev_rev |-> PrevRev(i)])
    /\ UNCHANGED <<ident, editgroup, changelog>>

\* Mutant of ValidTarget: the check for a WIP target dropped.
ValidTargetOrWip(i, target) ==
    /\ target # i
    /\ target # ident[i].redirect_id
    /\ ident[target] # NULL

\* What db_update asks of a redirect: not to itself, not to where it points
\* already, and not to a WIP row.  That the target may redirect is left to accept.
ValidTarget(i, target) ==
    /\ target # i
    /\ target # ident[i].redirect_id
    /\ ident[target] # NULL
    /\ ident[target].is_live

\* db_update with "redirect": the target's revision is copied here and now.
RedirectEntity(g, i, target) ==
    /\ OpenForEdits(g)
    /\ ident[i] # NULL
    /\ ValidTarget(i, target)
    /\ InsertEdit(g, i, [rev_id      |-> ident[target].rev_id,
                         redirect_id |-> target,
                         prev_rev    |-> PrevRev(i)])
    /\ UNCHANGED <<ident, revs, editgroup, changelog>>

\* db_update with "revision": any revision of the table but the current one.
RevertEntity(g, i, r) ==
    /\ OpenForEdits(g)
    /\ ident[i] # NULL
    /\ r \in revs
    /\ r # ident[i].rev_id
    /\ InsertEdit(g, i, [rev_id |-> r, redirect_id |-> NULL, prev_rev |-> PrevRev(i)])
    /\ UNCHANGED <<ident, revs, editgroup, changelog>>

\* db_delete: prev_rev is the raw rev_id column, a redirect's copy included.
DeleteEntity(g, i) ==
    /\ OpenForEdits(g)
    /\ State(ident[i]) \in {"active", "redirect"}
    /\ InsertEdit(g, i, [rev_id      |-> NULL,
                         redirect_id |-> NULL,
                         prev_rev    |-> ident[i].rev_id])
    /\ UNCHANGED <<ident, revs, editgroup, changelog>>

\* db_delete_edit: the ident and the revision the edit made stay behind.
DeleteEdit(g, i) ==
    /\ edit[g][i] # NULL
    /\ ~InChangelog(g)
    /\ edit' = [edit EXCEPT ![g] = [@ EXCEPT ![i] = NULL]]
    /\ UNCHANGED <<ident, revs, editgroup, changelog>>

-----------------------------------------------------------------------------
(* Accepting an editgroup. *)

\* An edit of g redirects to a row that is itself a redirect.
ForwardRecursive(g) ==
    \E i \in Ident :
        /\ edit[g][i] # NULL
        /\ edit[g][i].redirect_id # NULL
        /\ ident[edit[g][i].redirect_id].redirect_id # NULL

\* Mutant of BackwardRecursive: the second check of db_accept_edits dropped.
NoBackwardCheck(g) == FALSE

\* An edit of g redirects a row that some row redirects to.
BackwardRecursive(g) ==
    \E i \in Ident, j \in Ident :
        /\ edit[g][i] # NULL
        /\ edit[g][i].redirect_id # NULL
        /\ ident[j] # NULL
        /\ ident[j].redirect_id = i

\* Mutant of ApplyEdits: the row does not become live.
ApplyEditsKeepingWip(g, table) ==
    [i \in Ident |->
        IF edit[g][i] = NULL
        THEN table[i]
        ELSE [is_live     |-> table[i].is_live,
              rev_id      |-> edit[g][i].rev_id,
              redirect_id |-> edit[g][i].redirect_id]]

\* First UPDATE of db_accept_edits: copy the edit columns to the ident table.
ApplyEdits(g, table) ==
    [i \in Ident |->
        IF edit[g][i] = NULL
        THEN table[i]
        ELSE [is_live     |-> TRUE,
              rev_id      |-> edit[g][i].rev_id,
              redirect_id |-> edit[g][i].redirect_id]]

\* i redirects, in this table, to a row that g edits.
RedirectsToEdited(g, table, i) ==
    /\ table[i] # NULL
    /\ table[i].redirect_id # NULL
    /\ edit[g][table[i].redirect_id] # NULL

\* Mutant of UpdateRedirects: the second UPDATE left out.
UpdateNoRedirects(g, table) == table

\* Second UPDATE: redirects to an edited row get the revision of that edit.
UpdateRedirects(g, table) ==
    [i \in Ident |->
        IF RedirectsToEdited(g, table, i)
        THEN [table[i] EXCEPT !.rev_id = edit[g][table[i].redirect_id].rev_id]
        ELSE table[i]]

\* Mutant of NotAccepted: the check dropped.
AcceptAgain(g) == TRUE

\* "check that we haven't accepted already (in changelog)"
NotAccepted(g) == ~InChangelog(g)

AcceptEditgroup(g) ==
    /\ editgroup[g] # NULL
    /\ NotAccepted(g)
    /\ ~ForwardRecursive(g)
    /\ ~BackwardRecursive(g)
    /\ ident' = UpdateRedirects(g, ApplyEdits(g, ident))
    /\ changelog' = Append(changelog, g)
    /\ editgroup' = [editgroup EXCEPT ![g] = [@ EXCEPT !.is_accepted = TRUE]]
    /\ UNCHANGED <<revs, edit>>

\* *_auto_batch: an editgroup born accepted, whose entities are born live.
AutoBatch(g, batch) ==
    /\ editgroup[g] = NULL
    /\ editgroup' = [editgroup EXCEPT ![g] = [is_accepted |-> TRUE]]
    /\ revs' = revs \cup {batch[i] : i \in DOMAIN batch}
    /\ ident' = [i \in Ident |->
                    IF i \in DOMAIN batch
                    THEN [is_live |-> TRUE, rev_id |-> batch[i], redirect_id |-> NULL]
                    ELSE ident[i]]
    /\ edit' = [edit EXCEPT ![g] = [i \in Ident |->
                    IF i \in DOMAIN batch
                    THEN [rev_id |-> batch[i], redirect_id |-> NULL, prev_rev |-> NULL]
                    ELSE NULL]]
    /\ changelog' = Append(changelog, g)

\* New rows get new identifiers: one fresh ident and one fresh rev per model.
Batches ==
    {batch \in UNION {[S -> Rev \ revs] : S \in SUBSET {i \in Ident : ident[i] = NULL}} :
        \A i, j \in DOMAIN batch : batch[i] = batch[j] => i = j}

-----------------------------------------------------------------------------

EditStep(g, i) ==
    \/ \E r \in Rev : \/ CreateEntity(g, i, r)
                      \/ UpdateEntity(g, i, r)
                      \/ RevertEntity(g, i, r)
    \/ \E target \in Ident : RedirectEntity(g, i, target)
    \/ DeleteEntity(g, i)
    \/ DeleteEdit(g, i)

Next ==
    \E g \in Editgroup :
        \/ CreateEditgroup(g)
        \/ \E i \in Ident : EditStep(g, i)
        \/ AcceptEditgroup(g)
        \/ \E batch \in Batches : AutoBatch(g, batch)

Spec == Init /\ [][Next]_vars

-----------------------------------------------------------------------------
(* What must hold. *)

\* A row that is not live yet is a plain new entity.  The guide: '"WIP,
\* redirect" or "WIP, deleted" are invalid states'.  Nothing at accept time
\* checks it: it rests on is_live and the two pointers being set together.
WipIsPlain ==
    \A i \in Ident :
        ident[i] # NULL /\ ~ident[i].is_live
            => ident[i].rev_id # NULL /\ ident[i].redirect_id = NULL

\* Whatever an ident row or a pending edit redirects to is published and is not
\* the row itself.  db_update checks it once, when the edit is made, and trusts
\* it from then on, through every accept, revert and edit deletion in between.
RedirectTargetsLive ==
    \A i \in Ident :
        /\ ident[i] # NULL /\ ident[i].redirect_id # NULL
            => /\ ident[i].redirect_id # i
               /\ ident[ident[i].redirect_id] # NULL
               /\ ident[ident[i].redirect_id].is_live
        /\ \A g \in Editgroup : edit[g][i] # NULL /\ edit[g][i].redirect_id # NULL
            => /\ edit[g][i].redirect_id # i
               /\ ident[edit[g][i].redirect_id] # NULL
               /\ ident[edit[g][i].redirect_id].is_live

\* is_accepted is set exactly for the editgroups of the changelog, and each is
\* there once: db_get_with_changelog calls anything else an "internal database
\* consistency error", and no constraint of the schema rules it out.
AcceptedOnce ==
    /\ \A g \in Editgroup :
          InChangelog(g) <=> editgroup[g] # NULL /\ editgroup[g].is_accepted
    /\ \A k, l \in DOMAIN changelog : changelog[k] = changelog[l] => k = l

\* The changelog entry k edits i, and no later one does.
LastEditOf(k, i) ==
    /\ edit[changelog[k]][i] # NULL
    /\ \A l \in DOMAIN changelog : l > k => edit[changelog[l]][i] = NULL

\* What the two checks of db_accept_edits buy: a redirect to a redirect can
\* only be the work of one editgroup that redirected both rows, never of two
\* editgroups accepted one after the other, whatever was pending meanwhile.
ChainsWithinOneEditgroup ==
    \A i, j \in Ident :
        /\ ident[i] # NULL /\ ident[i].redirect_id = j
        /\ ident[j] # NULL /\ ident[j].redirect_id # NULL
        => \E k \in DOMAIN changelog : LastEditOf(k, i) /\ LastEditOf(k, j)

\* "update any/all redirects for updated entities": when the revision of a
\* plain entity changes, every row that goes on redirecting to it, untouched
\* by the editgroup itself, changes to the same revision in the same step.
RedirectsFollowTarget ==
    [][\A i, j \in Ident :
          /\ ident[i] # NULL /\ ident[i].redirect_id = j
          /\ ident[j] # NULL /\ ident[j].redirect_id = NULL
          /\ ident'[i].redirect_id = j
          /\ ident'[j].rev_id # ident[j].rev_id
          => ident'[i].rev_id = ident'[j].rev_id]_ident

\* The catalog implements the log of changesets: the head of an entity is what
\* the newest accepted editgroup that edits it says, an accept publishes all
\* the edits of its editgroup and nothing else, and no edit of an accepted
\* editgroup is ever added, changed or taken away.
Pointer == [rev_id : Rev \cup {NULL}, redirect_id : Ident \cup {NULL}]

Shown(row) == [rev_id      |-> IF row.redirect_id = NULL THEN row.rev_id ELSE NULL,
               redirect_id |-> row.redirect_id]

EditedIn(g) == {i \in Ident : edit[g][i] # NULL}

Published == {i \in Ident : ident[i] # NULL /\ ident[i].is_live}

PublishedHead == [i \in Ident |-> IF i \in Published THEN Shown(ident[i]) ELSE NULL]

ChangesetOf(g) == [i \in EditedIn(g) |-> Shown(edit[g][i])]

PublishedChangesets == [k \in DOMAIN changelog |-> ChangesetOf(changelog[k])]

Log == INSTANCE PublishedLog WITH
    Entity  <- Ident,
    None    <- NULL,
    Pointer <- Pointer,
    head    <- PublishedHead,
    log     <- PublishedChangesets

ImplementsLog == Log!Spec

\* No row redirects to a row that is itself a redirect (notes/UNSORTED.txt:9,
\* the comments above the two checks of db_accept_edits).
NoRedirectChains ==
    \A i \in Ident :
        ident[i] # NULL /\ ident[i].redirect_id # NULL
            => ident[ident[i].redirect_id].redirect_id = NULL

\* A redirect shows the current revision of its target.
RedirectsCurrent ==
    \A i \in Ident :
        /\ ident[i] # NULL /\ ident[i].redirect_id # NULL
        /\ ident[ident[i].redirect_id].redirect_id = NULL
        => ident[i].rev_id = ident[ident[i].redirect_id].rev_id

=============================================================================
