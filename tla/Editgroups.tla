----------------------------- MODULE Editgroups -----------------------------
(***************************************************************************)
(* The life of an editgroup as its editors and reviewers see it: created,  *)
(* submitted for review, taken back, accepted.  The edits it holds are in  *)
(* WebEditing, the bot that annotates it in ReviewBot.                     *)
(*                                                                         *)
(* A call of the API is one step.  The handlers of fatcat_web fetch the    *)
(* editgroup first and give up when it is accepted; the API checks the     *)
(* same again, so that fetch is part of the step.                          *)
(***************************************************************************)
EXTENDS Naturals

CONSTANTS
    User,           \* editors
    NoUser,
    Admin,          \* those of them who may accept, and touch any editgroup
    MaxEditgroups,  \* bound on the editgroups created
    LastTick        \* bound on time, in ticks

ASSUME EditgroupsAssumption ==
    /\ Admin \subseteq User /\ NoUser \notin User
    /\ MaxEditgroups \in Nat /\ LastTick \in Nat \ {0}

Editgroup == 1 .. MaxEditgroups

VARIABLES
    now,        \* the time, from 1
    editgroup   \* rows: owner (or NoUser: not created), submitted (0 for
                \* NULL), accepted

NotCreated == [owner |-> NoUser, submitted |-> 0, accepted |-> FALSE]

Exists(g) == editgroup[g].owner # NoUser
Accepted(g) == editgroup[g].accepted

\* require_editgroup(): the owner, or an admin.
MayEdit(u, g) == Exists(g) /\ (u \in Admin \/ editgroup[g].owner = u)

EditgroupsTypeOK ==
    /\ now \in 1 .. LastTick
    /\ editgroup \in [Editgroup -> [owner : User \cup {NoUser}, submitted : 0 .. LastTick,
                                    accepted : BOOLEAN]]
    /\ \A g \in Editgroup : ~Exists(g) => editgroup[g] = NotCreated

-----------------------------------------------------------------------------
\* db_create() of an editgroup.
Created(u, g) == [editgroup EXCEPT ![g] = [NotCreated EXCEPT !.owner = u]]
FreshEditgroup(g) == ~Exists(g) /\ \A h \in 1 .. g - 1 : Exists(h)

\* update_editgroup?submit=true: the time is that of the call, the first or not.
SubmitEditgroup(u, g) ==
    /\ MayEdit(u, g) /\ ~Accepted(g)
    /\ editgroup' = [editgroup EXCEPT ![g].submitted = now]
    /\ UNCHANGED now

UnsubmitEditgroup(u, g) ==
    /\ MayEdit(u, g) /\ ~Accepted(g)
    /\ editgroup' = [editgroup EXCEPT ![g].submitted = 0]
    /\ UNCHANGED now

\* accept_editgroup: submitted or not.
MarkAccepted(u, g) ==
    /\ u \in Admin /\ Exists(g) /\ ~Accepted(g)
    /\ editgroup' = [editgroup EXCEPT ![g].accepted = TRUE]
    /\ UNCHANGED now

Tick ==
    /\ now < LastTick
    /\ now' = now + 1
    /\ UNCHANGED editgroup

=============================================================================
