---------------------------- MODULE PublishedLog ----------------------------
(***************************************************************************)
(* What the catalog promises its readers: the published entities are the   *)
(* replay of an append-only log of changesets.  An entity changes only     *)
(* when a changeset that names it is published, a changeset takes effect   *)
(* as a whole, and nothing published is ever rewritten.                    *)
(*                                                                         *)
(* Which revision a redirect shows is left open: it follows its target.    *)
(***************************************************************************)
EXTENDS Naturals, Sequences

CONSTANTS
    Entity,     \* what can be published
    Pointer,    \* what an entity can point to
    None        \* the pointer of an entity not published yet

VARIABLES
    head,       \* where every entity points now
    log         \* the changesets published, oldest first

\* A changeset gives new pointers to some entities.
Changeset == UNION {[S -> Pointer] : S \in SUBSET Entity}

Init ==
    /\ head = [e \in Entity |-> None]
    /\ log = << >>

Publish(changeset) ==
    /\ log' = Append(log, changeset)
    /\ head' = [e \in Entity |->
                   IF e \in DOMAIN changeset THEN changeset[e] ELSE head[e]]

\* \E changeset \in Changeset : Publish(changeset), said of the one changeset it
\* can be, the newest entry of the log, so that TLC has nothing to enumerate.
Next ==
    /\ Len(log') > Len(log)
    /\ log'[Len(log')] \in Changeset
    /\ Publish(log'[Len(log')])

Spec == Init /\ [][Next]_<<head, log>>

=============================================================================
