----------------------------- MODULE WebEditing -----------------------------
(***************************************************************************)
(* Editing entities in the web interface: fatcat_web/editing_routes.py.    *)
(* An editor opens a page, filled from the live entity or from the edit    *)
(* that an editgroup holds of it; posts it; and the handler fetches the    *)
(* entity again, deletes the edit of the editgroup and makes a new one,    *)
(* each with a call of the API.  Anything can happen between two calls,    *)
(* and any of them can fail.  An editor here is one open page.             *)
(*                                                                         *)
(* There are three kinds of page.  A "form" shows some fields of an entity *)
(* and leaves the others as they are when it is posted; "toml" is the      *)
(* whole entity as text; "delete".  Every save adds a mark of its own to   *)
(* the fields it changes, so that the marks of a revision tell which saves *)
(* it holds.  Redirects are left to Catalog.                               *)
(***************************************************************************)
EXTENDS Editgroups, Sequences, FiniteSets

CONSTANTS
    Ident,      \* entities
    MaxSaves    \* bound on the saves and on what undoes them, see Affordable

ASSUME WebAssumption == MaxSaves \in Nat /\ 0 \notin Ident

\* A mark: which event, and whether forms leave the field out.
Mark == [n : 1 .. 2 * MaxSaves + MaxEditgroups, hidden : BOOLEAN]
Rev == SUBSET Mark
Shown(rev) == {m \in rev : ~m.hidden}
Hidden(rev) == {m \in rev : m.hidden}

VARIABLES
    entity,   \* rows: state and revision (a deleted one has none: {})
    edit,     \* rows of the edit table, per editgroup and entity
    tab,      \* what each editor has open, and the request it is waiting for
    history   \* auxiliary: saves, edits lost or removed, accepts

webVars == <<now, editgroup, entity, edit, tab, history>>

NoEdit == [op |-> "none", id |-> 0, rev |-> {}, shown |-> 0, hidden |-> 0]
NoTab == [at |-> "closed", kind |-> "form", url |-> 0, ident |-> 0, base |-> {},
          pinned |-> FALSE, opened |-> 0, group |-> 0, existing |-> 0,
          current |-> {}, fetched |-> 0, shown |-> 0, hidden |-> 0]

Kinds == {"form", "toml", "delete"}
Idents == Ident \cup {0}

EditRow == [op : {"none", "update", "delete"}, id : Nat, rev : Rev, shown : Nat, hidden : Nat]
Tab == [at : {"closed", "open", "fetched", "cleared"}, kind : Kinds \cup {"create"},
        url : Editgroup \cup {0}, ident : Idents, base : Rev, pinned : BOOLEAN, opened : Nat,
        group : Editgroup \cup {0}, existing : Nat, current : Rev, fetched : Nat,
        shown : Nat, hidden : Nat]
HistoryEvent ==
    [op : {"save", "wipe", "remove", "accept"}, eg : Editgroup, ident : Idents,
     kind : Kinds \cup {"create", "remove"}, pinned : BOOLEAN, opened : Nat, fetched : Nat]

WebTypeOK ==
    /\ EditgroupsTypeOK
    /\ entity \in [Ident -> [state : {"none", "wip", "active", "deleted"}, rev : Rev]]
    /\ edit \in [Editgroup -> [Ident -> EditRow]]
    /\ \A g \in Editgroup, i \in Ident :
          LET e == edit[g][i]
          IN  /\ {e.id, e.shown, e.hidden} \subseteq 0 .. Len(history)
              /\ e.op = "none" <=> e = NoEdit
              /\ e.op # "none" => Exists(g) /\ entity[i].state # "none"
              /\ e.op = "delete" => e.rev = {}
    /\ tab \in [User -> Tab]
    /\ \A u \in User :
          LET t == tab[u]
          IN  /\ t.url \in {0, t.group}
              /\ t.at = "cleared" => t.existing # 0
    /\ history \in Seq(HistoryEvent)
    /\ Len(history) <= 2 * MaxSaves + MaxEditgroups

WebInit ==
    /\ entity \in [Ident -> {[state |-> "none", rev |-> {}], [state |-> "active", rev |-> {}]}]
    /\ edit = [g \in Editgroup |-> [i \in Ident |-> NoEdit]]
    /\ tab = [u \in User |-> NoTab]
    /\ history = << >>

-----------------------------------------------------------------------------
(* GET. *)

Moment == Len(history)

\* The bound: MaxSaves of anything, or half as many again of form saves alone.
Cost(kind) == IF kind = "form" THEN 2 ELSE 3
Spent ==
    LET events(kinds) == Cardinality({k \in DOMAIN history : /\ history[k].op # "accept"
                                                            /\ history[k].kind \in kinds})
    IN  2 * events({"form"}) + 3 * events({"toml", "delete", "create", "remove"})
Affordable(kind) == Spent + Cost(kind) <= 3 * MaxSaves

Opens(u, kind) == tab[u].at = "closed" /\ Affordable(kind)

\* What a page knows of the entity; one that deletes it need know nothing.
Filled(kind, row, since) ==
    IF kind = "delete" THEN [NoTab EXCEPT !.at = "open", !.kind = kind]
    ELSE [NoTab EXCEPT !.at = "open", !.kind = kind, !.base = row.rev, !.opened = Moment,
                       !.shown = since.shown, !.hidden = since.hidden]

\* /<entity>/<ident>/edit: generic_get_entity().  The TOML leaves the revision
\* out for an active entity only.
OpenEntity(u, kind, i) ==
    /\ Opens(u, kind)
    /\ entity[i].state # "none"
    /\ tab' = [tab EXCEPT ![u] =
          [Filled(kind, entity[i], [shown |-> Moment, hidden |-> Moment]) EXCEPT
              !.ident = i, !.pinned = kind = "toml" /\ entity[i].state = "wip"]]
    /\ UNCHANGED <<now, editgroup, entity, edit, history>>

\* /editgroup/<id>/<entity>/<ident>/edit: generic_get_editgroup_entity(), 404
\* when the editgroup does not edit it.  A revision by itself has no state,
\* so the TOML of an edit in progress names it.
OpenEdit(u, kind, g, i) ==
    /\ Opens(u, kind)
    /\ ~Accepted(g) /\ edit[g][i] # NoEdit
    /\ tab' = [tab EXCEPT ![u] =
          [Filled(kind, edit[g][i], edit[g][i]) EXCEPT
              !.url = g, !.group = g, !.ident = i,
              !.pinned = kind = "toml" /\ edit[g][i].op = "update"]]
    /\ UNCHANGED <<now, editgroup, entity, edit, history>>

\* /<entity>/create
OpenCreate(u) ==
    /\ Opens(u, "create")
    /\ tab' = [tab EXCEPT ![u] = [NoTab EXCEPT !.at = "open", !.kind = "create"]]
    /\ UNCHANGED <<now, editgroup, entity, edit, history>>

ClosePage(u) ==
    /\ tab[u].at = "open"
    /\ tab' = [tab EXCEPT ![u] = NoTab]
    /\ UNCHANGED <<now, editgroup, entity, edit, history>>

-----------------------------------------------------------------------------
(* POST. *)

\* A form takes the fields it does not show from what is fetched now.
Refetched(t, row, since) ==
    IF t.kind # "form" THEN t
    ELSE [t EXCEPT !.current = Hidden(row.rev), !.fetched = Moment, !.hidden = since]

\* The editgroup of the URL must not be accepted and the entity is fetched as
\* it is now, with the edit that is to be replaced.
PostEdit(u) ==
    LET t == tab[u]
        e == edit[t.url][t.ident]
    IN  /\ t.at = "open" /\ t.url # 0
        /\ ~Accepted(t.url) /\ e # NoEdit
        /\ tab' = [tab EXCEPT ![u] =
              [Refetched(t, e, e.hidden) EXCEPT !.at = "fetched", !.existing = e.id]]
        /\ UNCHANGED <<now, editgroup, entity, edit, history>>

\* Without one in the URL, form_editgroup_get_or_create(): the editgroup chosen
\* on the page, unless it is accepted, or a new one.  An edit this editgroup
\* may hold of the entity is not looked for.
PostEntity(u, g) ==
    LET t == tab[u]
    IN  /\ t.at = "open" /\ t.url = 0
        /\ \/ Exists(g) /\ ~Accepted(g) /\ UNCHANGED editgroup
           \/ FreshEditgroup(g) /\ editgroup' = Created(u, g)
        /\ tab' = [tab EXCEPT ![u] =
              [IF t.kind = "create" THEN t ELSE Refetched(t, entity[t.ident], Moment)
                  EXCEPT !.at = "fetched", !.group = g]]
        /\ UNCHANGED <<now, entity, edit, history>>

\* Mutant of Saved: a form overwrites the fields it does not show.
SavedFromPage(t, n) ==
    CASE t.kind = "delete" -> {}
      [] t.kind = "create" -> {[n |-> n, hidden |-> FALSE]}
      [] t.kind = "form" -> t.base \cup {[n |-> n, hidden |-> FALSE]}
      [] t.kind = "toml" -> IF t.pinned THEN t.base
                            ELSE t.base \cup {[n |-> n, hidden |-> TRUE]}

\* update_entity(): a form overwrites the fields it shows; the rest is as
\* fetched by the request.
Saved(t, n) ==
    CASE t.kind = "delete" -> {}
      [] t.kind = "create" -> {[n |-> n, hidden |-> FALSE]}
      [] t.kind = "form" -> Shown(t.base) \cup t.current
                               \cup {[n |-> n, hidden |-> FALSE]}
      [] t.kind = "toml" -> IF t.pinned THEN t.base
                            ELSE t.base \cup {[n |-> n, hidden |-> TRUE]}

Event(op, t, g, i) ==
    [op |-> op, eg |-> g, ident |-> i, kind |-> t.kind, pinned |-> t.pinned,
     opened |-> t.opened, fetched |-> t.fetched]

\* Back in the browser: the page is as it was before it was posted.
Back(u) ==
    [tab EXCEPT ![u].at = "open", ![u].group = tab[u].url, ![u].existing = 0]

\* The edit is deleted, or is gone already (404).
ClearEdit(u) ==
    LET t == tab[u]
        there == edit[t.group][t.ident].id = t.existing
    IN  /\ t.at = "fetched" /\ t.existing # 0
        /\ MayEdit(u, t.group)
        /\ there => ~Accepted(t.group)
        /\ edit' = IF there THEN [edit EXCEPT ![t.group][t.ident] = NoEdit] ELSE edit
        /\ tab' = [tab EXCEPT ![u].at = "cleared"]
        /\ UNCHANGED <<now, editgroup, entity, history>>

ReadyToWrite(t) == t.at = "cleared" \/ (t.at = "fetched" /\ t.existing = 0)

\* Mutant of Takes: a second edit of the entity replaces the first.
TakesOver(u, t, i) ==
    /\ MayEdit(u, t.group) /\ ~Accepted(t.group)
    /\ t.kind = "delete" => entity[i].state = "active"
    /\ t.pinned => entity[i].state = "deleted" \/ t.base # entity[i].rev

\* The API takes the edit: the editgroup is open and has none of the entity; a
\* pointer to a revision must change it; what is deleted is live.
Takes(u, t, i) ==
    /\ MayEdit(u, t.group) /\ ~Accepted(t.group)
    /\ edit[t.group][i] = NoEdit
    /\ t.kind = "delete" => entity[i].state = "active"
    /\ t.pinned => entity[i].state = "deleted" \/ t.base # entity[i].rev

WriteEdit(u, i) ==
    LET t == tab[u]
        n == Moment + 1
    IN  /\ ReadyToWrite(t) /\ Affordable(t.kind)
        /\ IF t.kind = "create" THEN entity[i].state = "none" ELSE t.ident = i
        /\ Takes(u, t, i)
        /\ edit' = [edit EXCEPT ![t.group][i] =
              [op |-> IF t.kind = "delete" THEN "delete" ELSE "update", id |-> n,
               rev |-> Saved(t, n), shown |-> t.shown, hidden |-> t.hidden]]
        /\ entity' = IF t.kind = "create"
                     THEN [entity EXCEPT ![i] = [state |-> "wip", rev |-> Saved(t, n)]]
                     ELSE entity
        /\ history' = Append(history, Event("save", t, t.group, i))
        /\ tab' = [tab EXCEPT ![u] = NoTab]
        /\ UNCHANGED <<now, editgroup>>

\* Any call is refused, or fails: an edit that was deleted stays so.
RequestFails(u) ==
    LET t == tab[u]
    IN  /\ t.at \in {"fetched", "cleared"}
        /\ IF t.at = "cleared"
           THEN /\ Affordable(t.kind)
                /\ history' = Append(history, Event("wipe", t, t.group, t.ident))
           ELSE UNCHANGED history
        /\ tab' = Back(u)
        /\ UNCHANGED <<now, editgroup, entity, edit>>

\* generic_edit_delete(), of the edit seen on the editgroup's page.
RemoveEdit(u, g, i) ==
    /\ MayEdit(u, g) /\ ~Accepted(g)
    /\ edit[g][i] # NoEdit
    /\ Affordable("remove")
    /\ edit' = [edit EXCEPT ![g][i] = NoEdit]
    /\ history' = Append(history, Event("remove", [NoTab EXCEPT !.kind = "remove"], g, i))
    /\ UNCHANGED <<now, editgroup, entity, tab>>

\* accept_editgroup: the edits become the entities.
AcceptEdits(u, g) ==
    /\ MarkAccepted(u, g)
    /\ entity' = [i \in Ident |->
          CASE edit[g][i].op = "none" -> entity[i]
            [] edit[g][i].op = "update" -> [state |-> "active", rev |-> edit[g][i].rev]
            [] edit[g][i].op = "delete" -> [state |-> "deleted", rev |-> {}]]
    /\ history' = Append(history, Event("accept", NoTab, g, 0))
    /\ UNCHANGED <<edit, tab>>

WebStep(u) ==
    \/ \E i \in Ident : \/ \E kind \in Kinds : OpenEntity(u, kind, i)
                        \/ WriteEdit(u, i)
    \/ \E g \in Editgroup : \/ PostEntity(u, g) \/ AcceptEdits(u, g)
                            \/ \E i \in Ident : RemoveEdit(u, g, i)
                            \/ \E i \in Ident, kind \in Kinds : OpenEdit(u, kind, g, i)
    \/ OpenCreate(u) \/ ClosePage(u) \/ PostEdit(u) \/ ClearEdit(u) \/ RequestFails(u)

-----------------------------------------------------------------------------
\* A save that stores what its editor wrote: not a deletion, and not the TOML
\* of an edit in progress, which names the revision it was opened with and
\* only points the new edit there.
Stores(e) == e.op = "save" /\ e.kind # "delete" /\ ~e.pinned

MarkOf(k) == [n |-> k, hidden |-> history[k].kind = "toml"]

\* Event e put a revision in place that was read before event k.  A form reads
\* the fields it does not show when it is posted; a deletion reads nothing
\* (NoTab), which is before every save.
ReadBefore(e, k) ==
    e.op = "save" /\ IF e.kind = "form" /\ MarkOf(k).hidden THEN e.fetched < k ELSE e.opened < k

BetweenCalls(u, g, i) == tab[u].at = "cleared" /\ tab[u].group = g /\ tab[u].ident = i

\* What an editor saved stays in the edit of the editgroup, over any number of
\* further saves by several editors, until a page that was opened before it is
\* saved over it, the edit is removed, the entity deleted, or a request fails
\* between the two calls ("some danger of wiping database state here").
SavesKept ==
    \A k \in DOMAIN history :
        LET s == history[k]
        IN  Stores(s) =>
            \/ MarkOf(k) \in edit[s.eg][s.ident].rev
            \/ \E u \in User : BetweenCalls(u, s.eg, s.ident)
            \/ \E l \in k + 1 .. Len(history) :
                  LET e == history[l]
                  IN  /\ e.eg = s.eg /\ e.ident = s.ident
                      /\ \/ e.op \in {"wipe", "remove"}
                         \/ ReadBefore(e, k)

\* What was published stays published, through editgroups that are edited side
\* by side and accepted in any order, unless an edit whose page was filled
\* from the entity before that is accepted later ("TODO: prev_rev interlock"),
\* or a deletion.
PublishedKept ==
    \A k, a \in DOMAIN history :
        LET s == history[k]
            m == MarkOf(k)
        IN  /\ Stores(s)
            /\ history[a].op = "accept" /\ history[a].eg = s.eg
            /\ m \in edit[s.eg][s.ident].rev
            => \/ m \in entity[s.ident].rev
               \/ \E b \in a + 1 .. Len(history) :
                     LET e == edit[history[b].eg][s.ident]
                     IN  /\ history[b].op = "accept" /\ e # NoEdit
                         /\ (IF m.hidden THEN e.hidden ELSE e.shown) < a

=============================================================================
