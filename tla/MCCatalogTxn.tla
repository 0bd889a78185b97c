---------------------------- MODULE MCCatalogTxn ----------------------------
(***************************************************************************)
(* CatalogTxn on small tables.  The runs with several connections start    *)
(* from a catalog in use: editgroup b1 published p and q in a batch, b2     *)
(* then redirected p to q, and the other editgroups are open.              *)
(***************************************************************************)
EXTENDS CatalogTxn, FiniteSets, TLC

CONSTANTS
    b1, b2,     \* the editgroups accepted already
    p, q,       \* the entities published
    rp, rq,     \* their revisions
    MaxEdits,   \* bound on the rows of the <entity>_edit table
    MaxLog      \* bound on the rows of the changelog table

Plain(r) == [rev_id |-> r, redirect_id |-> NULL, prev_rev |-> NULL]

SeedEdits ==
    [g \in Editgroup |-> [i \in Ident |->
        CASE g = b1 /\ i = p -> Plain(rp)
          [] g = b1 /\ i = q -> Plain(rq)
          [] g = b2 /\ i = p -> [rev_id |-> rq, redirect_id |-> q, prev_rev |-> rp]
          [] OTHER -> NULL]]

SeededInit ==
    /\ ident = [i \in Ident |->
          CASE i = p -> [is_live |-> TRUE, rev_id |-> rq, redirect_id |-> q]
            [] i = q -> [is_live |-> TRUE, rev_id |-> rq, redirect_id |-> NULL]
            [] OTHER -> NULL]
    /\ revs = {rp, rq}
    /\ edit = SeedEdits
    /\ editgroup = [g \in Editgroup |-> [is_accepted |-> g \in {b1, b2}]]
    /\ changelog = <<b1, b2>>
    /\ conn = [c \in Conn |-> Idle]
    /\ applied = <<SeedEdits[b1], SeedEdits[b2]>>

SeededSpec == SeededInit /\ [][TxnNext]_txnVars

FewEdits == Cardinality({<<g, i>> \in Editgroup \X Ident : edit[g][i] # NULL}) <= MaxEdits

\* The last commit is followed up while an accept it overlapped still runs.
Bounded ==
    /\ FewEdits
    /\ Len(changelog) <= MaxLog
    /\ Len(changelog) = MaxLog =>
          \E c \in Conn : conn[c].at \in {"applying", "applied", "redirecting", "redirected"}

\* The symmetry of the runs that start from the empty catalog.
Symmetry == Permutations(Editgroup) \cup Permutations(Ident) \cup Permutations(Rev)

SeededSymmetry == Permutations(Conn) \cup Permutations(Editgroup \ {b1, b2})

=============================================================================
