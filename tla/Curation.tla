------------------------------ MODULE Curation ------------------------------
(***************************************************************************)
(* Editgroups from the editor's pages to the reviewers: WebEditing and     *)
(* ReviewBot over the same editgroups.  What is in an editgroup does not   *)
(* matter to the bot, whose listing holds no edits, and submission does    *)
(* not matter to the pages, since the API takes edits of a submitted       *)
(* editgroup: the two scenes leave out one or the other.                   *)
(***************************************************************************)
EXTENDS WebEditing, ReviewBot

CONSTANT Scenes  \* a subset of {"editing", "review"}

VARIABLE scene

curationVars == <<scene, now, editgroup, entity, edit, tab, history,
                  bot, annotations, botDeaths>>

CurationInit ==
    /\ scene \in Scenes
    /\ now = 1
    /\ \E owner \in IF scene = "editing" THEN {NoUser} ELSE User \ Admin :
          editgroup = [g \in Editgroup |-> [NotCreated EXCEPT !.owner = owner]]
    /\ WebInit /\ BotInit

EditingScene ==
    /\ scene = "editing"
    /\ \E u \in User : WebStep(u)
    /\ UNCHANGED <<scene, bot, annotations, botDeaths>>

\* The owner, an admin, and the clock.
OthersStep ==
    \/ \E u \in User, g \in Editgroup :
          SubmitEditgroup(u, g) \/ UnsubmitEditgroup(u, g) \/ MarkAccepted(u, g)
    \/ Tick

InReview(Step) ==
    /\ scene = "review"
    /\ Step
    /\ UNCHANGED <<scene, entity, edit, tab, history>>

ReviewScene ==
    \/ InReview(BotNext)
    \/ InReview(OthersStep /\ UNCHANGED <<bot, annotations, botDeaths>>)

CurationSpec ==
    /\ CurationInit
    /\ [][EditingScene \/ ReviewScene]_curationVars
    /\ WF_curationVars(InReview(BotStep))

CurationTypeOK == WebTypeOK /\ ReviewTypeOK

=============================================================================
