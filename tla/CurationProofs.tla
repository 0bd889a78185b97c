---------------------------- MODULE CurationProofs ----------------------------
(***************************************************************************)
(* Theorems about Curation: the saves of the editor's pages (WebEditing)   *)
(* and the reviews of the bot (ReviewBot), for any editors, entities,      *)
(* editgroups, times and page sizes.                                       *)
(***************************************************************************)
EXTENDS Curation, SequenceTheorems, FiniteSetTheorems, WellFoundedInduction, TLAPS

-----------------------------------------------------------------------------
(* What a step is. *)

EditgroupStep == \E u \in User, g \in Editgroup :
    SubmitEditgroup(u, g) \/ UnsubmitEditgroup(u, g) \/ MarkAccepted(u, g)

\* A step of the whole is one of the pages, or one of the bot, or one of the
\* others that leaves both alone.
LEMMA StepIs ==
    ASSUME [EditingScene \/ ReviewScene]_curationVars
    PROVE  \/ (\E u \in User : WebStep(u)) /\ UNCHANGED <<bot, annotations, botDeaths>>
           \/ BotNext /\ UNCHANGED <<entity, edit, tab, history>>
           \/ /\ EditgroupStep \/ Tick \/ UNCHANGED <<now, editgroup>>
              /\ UNCHANGED <<bot, annotations, botDeaths, entity, edit, tab, history>>
BY DEF EditingScene, ReviewScene, InReview, OthersStep, curationVars, EditgroupStep

-----------------------------------------------------------------------------
(* Well-formed pages, edits and history. *)

\* An editgroup that is there or accepted stays so, and an entity that was made.
LaterEditgroups == \A g \in Editgroup : /\ Exists(g) => Exists(g)'
                                        /\ Accepted(g) => Accepted(g)'
LaterEntities == \A i \in Ident : entity[i].state # "none" => entity'[i].state # "none"

EntitiesOK ==
    /\ entity \in [Ident -> [state : {"none", "wip", "active", "deleted"}, rev : Rev]]
    /\ \A i \in Ident : entity[i].state = "none" => entity[i].rev = {}

\* A row of the edit table.
EditOK(e, g, i) ==
    /\ {e.id, e.shown, e.hidden} \subseteq 0 .. Len(history)
    /\ e.op = "none" <=> e = NoEdit
    /\ e.op # "none" => Exists(g) /\ entity[i].state # "none"
    /\ e.op = "delete" => e.rev = {}

EditsOK ==
    /\ edit \in [Editgroup -> [Ident -> EditRow]]
    /\ \A g \in Editgroup, i \in Ident : EditOK(edit[g][i], g, i)

\* A page is of an entity that exists, unless it creates one; one that is being
\* posted has an editgroup, and replaces an edit only of the one in its URL.
TabOK(t) ==
    /\ t.url \in {0, t.group}
    /\ t.at = "cleared" => t.existing # 0
    /\ t.at = "closed" => t = NoTab
    /\ t.at # "closed" /\ t.kind # "create" => t.ident \in Ident /\ entity[t.ident].state # "none"
    /\ t.url # 0 => t.kind # "create"
    /\ t.at \in {"fetched", "cleared"} => t.group # 0
    /\ t.existing # 0 => t.url # 0 /\ t.at \in {"fetched", "cleared"}
    /\ t.kind \in {"delete", "create"} => t.opened = 0 /\ t.shown = 0 /\ t.hidden = 0
    /\ {t.opened, t.fetched, t.shown, t.hidden, t.existing} \subseteq 0 .. Len(history)

TabsOK == tab \in [User -> Tab] /\ \A u \in User : TabOK(tab[u])

\* The bound is kept, and no editgroup is accepted twice.
HistoryOK ==
    /\ history \in Seq(HistoryEvent)
    /\ Spent <= 3 * MaxSaves
    /\ \A a \in DOMAIN history : history[a].op = "accept" => Accepted(history[a].eg)
    /\ \A a, b \in DOMAIN history :
          history[a].op = "accept" /\ history[b].op = "accept" /\ history[a].eg = history[b].eg
             => a = b

WebInv == EditgroupsTypeOK /\ EntitiesOK /\ EditsOK /\ TabsOK /\ HistoryOK

\* One more event: the older ones stay where they are.
LEMMA Appended ==
    ASSUME NEW S, NEW a \in Seq(S), NEW d \in S, NEW c, c = Append(a, d)
    PROVE  /\ Len(a) \in Nat /\ Len(c) = Len(a) + 1 /\ c \in Seq(S)
           /\ DOMAIN a = 1 .. Len(a) /\ DOMAIN c = 1 .. Len(a) + 1
           /\ \A p \in 1 .. Len(a) : c[p] = a[p]
           /\ c[Len(a) + 1] = d
<1>1. Len(a) \in Nat /\ DOMAIN a = 1 .. Len(a)
  BY LenProperties
<1>2. /\ c \in Seq(S) /\ Len(c) = Len(a) + 1
      /\ \A p \in 1 .. Len(a) : c[p] = a[p]
      /\ c[Len(a) + 1] = d
  BY AppendProperties
<1> QED
  BY <1>1, <1>2, LenProperties

\* The editgroups, whoever submits, takes back, accepts or creates one.
LEMMA EditgroupsTypeStep ==
    ASSUME EditgroupsTypeOK,
           \/ EditgroupStep \/ Tick \/ UNCHANGED <<now, editgroup>>
           \/ \E u \in User, g \in Editgroup :
                 FreshEditgroup(g) /\ editgroup' = Created(u, g) /\ UNCHANGED now
    PROVE  EditgroupsTypeOK' /\ LaterEditgroups
<1> USE EditgroupsAssumption DEF EditgroupsTypeOK, Exists, Accepted, LaterEditgroups
<1> DEFINE Row == [owner : User \cup {NoUser}, submitted : 0 .. LastTick, accepted : BOOLEAN]
<1>0. now \in 1 .. LastTick /\ editgroup \in [Editgroup -> Row]
  OBVIOUS
<1>1. CASE UNCHANGED <<now, editgroup>>
  BY <1>1
<1>2. CASE Tick
  BY <1>2 DEF Tick
<1>3. ASSUME NEW g \in Editgroup, NEW row \in Row, UNCHANGED now,
             editgroup' = [editgroup EXCEPT ![g] = row],
             row.owner # NoUser, editgroup[g].accepted => row.accepted
      PROVE  EditgroupsTypeOK' /\ LaterEditgroups
  BY <1>3
<1>4. ASSUME NEW u \in User, NEW g \in Editgroup, SubmitEditgroup(u, g)
      PROVE  EditgroupsTypeOK' /\ LaterEditgroups
  <2>1. editgroup' = [editgroup EXCEPT ![g] = [editgroup[g] EXCEPT !.submitted = now]]
    BY <1>4 DEF SubmitEditgroup
  <2>2. PICK row : row = [editgroup[g] EXCEPT !.submitted = now]
    OBVIOUS
  <2>3. editgroup[g] \in Row /\ editgroup[g].owner # NoUser /\ ~editgroup[g].accepted
    BY <1>0, <1>4 DEF SubmitEditgroup, MayEdit
  <2>4. row \in Row /\ row.owner # NoUser
    BY <1>0, <2>2, <2>3
  <2> QED
    BY <1>3, <1>4, <2>1, <2>2, <2>3, <2>4 DEF SubmitEditgroup
<1>5. ASSUME NEW u \in User, NEW g \in Editgroup, UnsubmitEditgroup(u, g)
      PROVE  EditgroupsTypeOK' /\ LaterEditgroups
  <2>1. editgroup' = [editgroup EXCEPT ![g] = [editgroup[g] EXCEPT !.submitted = 0]]
    BY <1>5 DEF UnsubmitEditgroup
  <2>2. PICK row : row = [editgroup[g] EXCEPT !.submitted = 0]
    OBVIOUS
  <2>3. editgroup[g] \in Row /\ editgroup[g].owner # NoUser /\ ~editgroup[g].accepted
    BY <1>0, <1>5 DEF UnsubmitEditgroup, MayEdit
  <2>4. row \in Row /\ row.owner # NoUser
    BY <1>0, <2>2, <2>3
  <2> QED
    BY <1>3, <1>5, <2>1, <2>2, <2>3, <2>4 DEF UnsubmitEditgroup
<1>6. ASSUME NEW u \in User, NEW g \in Editgroup, MarkAccepted(u, g)
      PROVE  EditgroupsTypeOK' /\ LaterEditgroups
  <2>1. editgroup' = [editgroup EXCEPT ![g] = [editgroup[g] EXCEPT !.accepted = TRUE]]
    BY <1>6 DEF MarkAccepted
  <2>2. PICK row : row = [editgroup[g] EXCEPT !.accepted = TRUE]
    OBVIOUS
  <2>3. editgroup[g] \in Row /\ editgroup[g].owner # NoUser
    BY <1>0, <1>6 DEF MarkAccepted
  <2>4. row \in Row /\ row.owner # NoUser /\ row.accepted
    BY <2>2, <2>3
  <2> QED
    BY <1>3, <1>6, <2>1, <2>2, <2>4 DEF MarkAccepted
<1>7. ASSUME NEW u \in User, NEW g \in Editgroup, FreshEditgroup(g),
             editgroup' = Created(u, g), UNCHANGED now
      PROVE  EditgroupsTypeOK' /\ LaterEditgroups
  <2>1. PICK row : row = [NotCreated EXCEPT !.owner = u]
    OBVIOUS
  <2>2. editgroup' = [editgroup EXCEPT ![g] = row]
    BY <1>7, <2>1 DEF Created
  <2>3. row \in Row /\ row.owner # NoUser
    <3>1. row = [owner |-> u, submitted |-> 0, accepted |-> FALSE]
      BY <2>1 DEF NotCreated
    <3>2. 0 \in 0 .. LastTick
      OBVIOUS
    <3> QED
      BY <3>1, <3>2
  <2>4. ~editgroup[g].accepted
    BY <1>7 DEF NotCreated, FreshEditgroup
  <2> QED
    BY <1>3, <1>7, <2>2, <2>3, <2>4
<1> QED
  BY <1>1, <1>2, <1>4, <1>5, <1>6, <1>7 DEF EditgroupStep

-----------------------------------------------------------------------------
(* The bound on what editors do. *)

\* What Spent counts.
EventsOf(kinds) == {k \in DOMAIN history : history[k].op # "accept" /\ history[k].kind \in kinds}
Others == {"toml", "delete", "create", "remove"}
Accepts == {k \in DOMAIN history : history[k].op = "accept"}

LEMMA SpentIs ==
    Spent = 2 * Cardinality(EventsOf({"form"})) + 3 * Cardinality(EventsOf(Others))
BY DEF Spent, EventsOf, Others

LEMMA EventsCounted ==
    ASSUME history \in Seq(HistoryEvent), NEW kinds
    PROVE  IsFiniteSet(EventsOf(kinds)) /\ Cardinality(EventsOf(kinds)) \in Nat
<1>1. Len(history) \in Nat /\ DOMAIN history = 1 .. Len(history)
  BY LenProperties
<1>2. IsFiniteSet(1 .. Len(history))
  BY <1>1, FS_Interval
<1>3. EventsOf(kinds) \in SUBSET (1 .. Len(history))
  BY <1>1 DEF EventsOf
<1>4. IsFiniteSet(EventsOf(kinds))
  BY <1>2, <1>3, FS_Subset
<1> QED
  BY <1>4, FS_CardinalityType

\* The events of a kind, with one more event.
LEMMA EventsAppend ==
    ASSUME history \in Seq(HistoryEvent), NEW e \in HistoryEvent, history' = Append(history, e),
           NEW kinds
    PROVE  Cardinality(EventsOf(kinds)') =
              IF e.op # "accept" /\ e.kind \in kinds THEN Cardinality(EventsOf(kinds)) + 1
              ELSE Cardinality(EventsOf(kinds))
<1>1. PICK h, n : h = history' /\ n = Len(history) + 1
  OBVIOUS
<1>2. /\ Len(history) \in Nat
      /\ DOMAIN history = 1 .. Len(history) /\ DOMAIN h = 1 .. Len(history) + 1
      /\ \A p \in 1 .. Len(history) : h[p] = history[p]
      /\ h[Len(history) + 1] = e
  <2> HIDE DEF HistoryEvent
  <2> QED
    BY <1>1, Appended
<1>3. EventsOf(kinds)' = {k \in DOMAIN h : h[k].op # "accept" /\ h[k].kind \in kinds}
  BY <1>1 DEF EventsOf
<1>4. \A k : k \in DOMAIN h <=> k \in DOMAIN history \/ k = n
  BY <1>1, <1>2
<1>5. n \notin DOMAIN history
  BY <1>1, <1>2
<1>6. CASE e.op # "accept" /\ e.kind \in kinds
  <2>1. EventsOf(kinds)' = EventsOf(kinds) \cup {n}
    BY <1>1, <1>2, <1>3, <1>4, <1>6 DEF EventsOf
  <2>2. n \notin EventsOf(kinds)
    BY <1>5 DEF EventsOf
  <2>3. IsFiniteSet(EventsOf(kinds))
    BY EventsCounted
  <2>4. Cardinality(EventsOf(kinds) \cup {n}) = Cardinality(EventsOf(kinds)) + 1
    BY <2>2, <2>3, FS_AddElement
  <2> QED
    BY <1>6, <2>1, <2>4
<1>7. CASE ~(e.op # "accept" /\ e.kind \in kinds)
  <2>1. EventsOf(kinds)' = EventsOf(kinds)
    BY <1>1, <1>2, <1>3, <1>4, <1>7 DEF EventsOf
  <2> QED
    BY <1>7, <2>1
<1> QED
  BY <1>6, <1>7

LEMMA SpentAppend ==
    ASSUME history \in Seq(HistoryEvent), NEW e \in HistoryEvent, history' = Append(history, e)
    PROVE  /\ Spent \in Nat
           /\ Spent' = IF e.op = "accept" THEN Spent ELSE Spent + Cost(e.kind)
<1>1. /\ Cardinality(EventsOf({"form"})) \in Nat
      /\ Cardinality(EventsOf(Others)) \in Nat
  BY EventsCounted
<1>2. /\ Cardinality(EventsOf({"form"})') =
            IF e.op # "accept" /\ e.kind \in {"form"} THEN Cardinality(EventsOf({"form"})) + 1
            ELSE Cardinality(EventsOf({"form"}))
      /\ Cardinality(EventsOf(Others)') =
            IF e.op # "accept" /\ e.kind \in Others THEN Cardinality(EventsOf(Others)) + 1
            ELSE Cardinality(EventsOf(Others))
  BY EventsAppend
<1>3. Spent' = 2 * Cardinality(EventsOf({"form"})') + 3 * Cardinality(EventsOf(Others)')
  BY DEF Spent, EventsOf, Others
<1>4. e.kind = "form" <=> e.kind \notin Others
  BY DEF HistoryEvent, Kinds, Others
<1>5. PICK a, b, c, d : /\ a = Cardinality(EventsOf({"form"})) /\ b = Cardinality(EventsOf(Others))
                        /\ c = Cardinality(EventsOf({"form"})') /\ d = Cardinality(EventsOf(Others)')
  OBVIOUS
<1>6. /\ a \in Nat /\ b \in Nat /\ Spent = 2 * a + 3 * b
      /\ Spent' = 2 * c + 3 * d
  BY <1>1, <1>3, <1>5, SpentIs
<1>7. /\ c = IF e.op # "accept" /\ e.kind = "form" THEN a + 1 ELSE a
      /\ d = IF e.op # "accept" /\ e.kind # "form" THEN b + 1 ELSE b
  BY <1>2, <1>4, <1>5
<1>8. Cost(e.kind) = IF e.kind = "form" THEN 2 ELSE 3
  BY DEF Cost
<1> QED
  BY <1>6, <1>7, <1>8

\* As many accepts as there are editgroups, and the rest is paid for.
LEMMA HistoryLength ==
    ASSUME HistoryOK
    PROVE  /\ Len(history) \in Nat /\ Spent \in Nat
           /\ 2 * Len(history) <= Spent + 2 * MaxEditgroups
<1> DEFINE F == EventsOf({"form"})
<1> DEFINE O == EventsOf(Others)
<1>1. Len(history) \in Nat /\ DOMAIN history = 1 .. Len(history)
  BY LenProperties DEF HistoryOK
<1>2. IsFiniteSet(F) /\ IsFiniteSet(O) /\ Cardinality(F) \in Nat /\ Cardinality(O) \in Nat
  BY EventsCounted DEF HistoryOK
<1>3. IsFiniteSet(Editgroup) /\ Cardinality(Editgroup) = MaxEditgroups
  BY EditgroupsAssumption, FS_Interval DEF Editgroup
<1>4. \A k \in DOMAIN history : history[k] \in HistoryEvent
  BY <1>1 DEF HistoryOK
<1>5. IsFiniteSet(Accepts) /\ Cardinality(Accepts) <= MaxEditgroups
  <2> DEFINE f == [a \in Accepts |-> history[a].eg]
  <2>1. f \in [Accepts -> Editgroup]
    BY <1>4 DEF Accepts, HistoryEvent
  <2>2. \A a, b \in Accepts : f[a] = f[b] => a = b
    BY DEF HistoryOK, Accepts
  <2>3. f \in Injection(Accepts, Editgroup)
    BY <2>1, <2>2 DEF Injection, IsInjective
  <2> HIDE DEF f
  <2> QED
    BY <1>3, <2>3, FS_Injection
<1>6. Cardinality(Accepts) \in Nat
  BY <1>5, FS_CardinalityType
<1>7. 1 .. Len(history) = (F \cup O) \cup Accepts
  <2>1. \A k \in DOMAIN history : history[k].kind \in {"form"} \cup Others
    BY <1>4 DEF HistoryEvent, Kinds, Others
  <2> QED
    BY <1>1, <2>1 DEF EventsOf, Accepts
<1>8. F \cap O = {} /\ (F \cup O) \cap Accepts = {}
  BY DEF EventsOf, Accepts, Others
<1> HIDE DEF F, O
<1>9. IsFiniteSet(F \cup O) /\ Cardinality(F \cup O) = Cardinality(F) + Cardinality(O)
  BY <1>2, <1>8, FS_Union, FS_EmptySet
<1>10. Cardinality((F \cup O) \cup Accepts) = Cardinality(F \cup O) + Cardinality(Accepts)
  <2>1. PICK S : S = F \cup O
    OBVIOUS
  <2>2. IsFiniteSet(S) /\ Cardinality(S) \in Nat /\ S \cap Accepts = {}
    BY <1>2, <1>8, <1>9, <2>1
  <2>3. Cardinality(S \cup Accepts) = Cardinality(S) + Cardinality(Accepts) - Cardinality(S \cap Accepts)
    BY <1>5, <2>2, FS_Union
  <2>4. Cardinality(S \cap Accepts) = 0
    BY <2>2, FS_EmptySet
  <2>5. Cardinality(S \cup Accepts) = Cardinality(S) + Cardinality(Accepts)
    BY <1>6, <2>2, <2>3, <2>4
  <2> QED
    BY <2>1, <2>5
<1>11. Cardinality(1 .. Len(history)) = Len(history)
  <2>1. PICK n \in Nat : n = Len(history)
    BY <1>1
  <2>2. Cardinality(1 .. n) = IF 1 > n THEN 0 ELSE n - 1 + 1
    BY FS_Interval
  <2> QED
    BY <2>1, <2>2
<1>12. Len(history) = Cardinality(F) + Cardinality(O) + Cardinality(Accepts)
  BY <1>7, <1>9, <1>10, <1>11
<1>13. Spent = 2 * Cardinality(F) + 3 * Cardinality(O)
  BY SpentIs DEF F, O
<1>14. PICK n, f, o, a : /\ n = Len(history) /\ f = Cardinality(F) /\ o = Cardinality(O)
                         /\ a = Cardinality(Accepts)
  OBVIOUS
<1>15. /\ n \in Nat /\ f \in Nat /\ o \in Nat /\ a \in Nat /\ MaxEditgroups \in Nat
       /\ a <= MaxEditgroups /\ n = f + o + a /\ Spent = 2 * f + 3 * o
  BY <1>1, <1>2, <1>5, <1>6, <1>12, <1>13, <1>14, EditgroupsAssumption
<1>16. 2 * n <= (2 * f + 3 * o) + 2 * MaxEditgroups /\ 2 * f + 3 * o \in Nat
  BY <1>15
<1> QED
  BY <1>14, <1>15, <1>16

-----------------------------------------------------------------------------
(* Every step of the pages keeps them well-formed. *)

\* What was well-formed stays so as time goes on.
LEMMA Later ==
    ASSUME LaterEditgroups, LaterEntities, Len(history) \in Nat, Len(history') \in Nat,
           Len(history) <= Len(history')
    PROVE  /\ \A t : TabOK(t) => TabOK(t)'
           /\ \A e : \A g \in Editgroup, i \in Ident : EditOK(e, g, i) => EditOK(e, g, i)'
<1>1. 0 .. Len(history) \subseteq 0 .. Len(history')
  OBVIOUS
<1>2. ASSUME NEW t, TabOK(t) PROVE TabOK(t)'
  BY <1>1, <1>2 DEF TabOK, LaterEntities
<1>3. ASSUME NEW e, NEW g \in Editgroup, NEW i \in Ident, EditOK(e, g, i) PROVE EditOK(e, g, i)'
  BY <1>1, <1>3 DEF EditOK, LaterEntities, LaterEditgroups
<1> QED
  BY <1>2, <1>3

LEMMA HistoryAppends ==
    ASSUME HistoryOK, LaterEditgroups, NEW e \in HistoryEvent, history' = Append(history, e),
           \/ e.op # "accept" /\ Affordable(e.kind)
           \/ e.op = "accept" /\ ~Accepted(e.eg) /\ Accepted(e.eg)'
    PROVE  /\ HistoryOK'
           /\ Len(history) \in Nat /\ Len(history') = Len(history) + 1
           /\ DOMAIN history = 1 .. Len(history)
           /\ DOMAIN history' = 1 .. Len(history) + 1
           /\ \A k \in DOMAIN history : history'[k] = history[k]
           /\ history'[Len(history) + 1] = e
<1>1. PICK h, n : h = history' /\ n = Len(history) + 1
  OBVIOUS
<1>2. /\ Len(history) \in Nat /\ Len(h) = n /\ h \in Seq(HistoryEvent)
      /\ DOMAIN history = 1 .. Len(history) /\ DOMAIN h = 1 .. Len(history) + 1
      /\ \A p \in 1 .. Len(history) : h[p] = history[p]
      /\ h[Len(history) + 1] = e
  <2> HIDE DEF HistoryEvent
  <2> QED
    BY <1>1, Appended DEF HistoryOK
<1>3. Spent' <= 3 * MaxSaves
  <2>1. /\ Spent \in Nat
        /\ Spent' = IF e.op = "accept" THEN Spent ELSE Spent + Cost(e.kind)
    BY SpentAppend DEF HistoryOK
  <2> QED
    BY <2>1 DEF HistoryOK, Affordable
<1>4. \A k \in DOMAIN history : history[k] \in HistoryEvent
  BY <1>2 DEF HistoryOK
<1>5. ASSUME NEW a \in DOMAIN history, history[a].op = "accept"
      PROVE  Accepted(history[a].eg) /\ Accepted(history[a].eg)'
  BY <1>4, <1>5 DEF HistoryOK, LaterEditgroups, HistoryEvent
<1>6. \A a \in DOMAIN h : a \in DOMAIN history \/ a = n
  BY <1>1, <1>2
<1>7. \A a \in DOMAIN history : h[a] = history[a]
  BY <1>2
<1>8. h[n] = e
  BY <1>1, <1>2
<1>9. ASSUME NEW a \in DOMAIN h, h[a].op = "accept" PROVE Accepted(h[a].eg)'
  BY <1>5, <1>6, <1>7, <1>8, <1>9
<1>10. ASSUME NEW a \in DOMAIN h, NEW b \in DOMAIN h,
              h[a].op = "accept", h[b].op = "accept", h[a].eg = h[b].eg
       PROVE  a = b
  BY <1>5, <1>6, <1>7, <1>8, <1>10 DEF HistoryOK
<1>11. HistoryOK'
  <2> HIDE DEF HistoryEvent
  <2> QED
    BY <1>1, <1>2, <1>3, <1>9, <1>10 DEF HistoryOK
<1> QED
  BY <1>1, <1>2, <1>7, <1>11

\* Nothing but the editgroups and the bot moved.
LEMMA OthersKeepWeb ==
    ASSUME WebInv, EditgroupsTypeOK', LaterEditgroups, UNCHANGED <<entity, edit, tab, history>>
    PROVE  WebInv'
<1>1. LaterEntities /\ Len(history) \in Nat /\ Len(history') \in Nat /\ Len(history) <= Len(history')
  BY HistoryLength DEF WebInv, LaterEntities
<1>2. /\ \A t : TabOK(t) => TabOK(t)'
      /\ \A e : \A g \in Editgroup, i \in Ident : EditOK(e, g, i) => EditOK(e, g, i)'
  BY <1>1, Later
<1>3. EditsOK'
  BY <1>2 DEF WebInv, EditsOK
<1>4. TabsOK'
  BY <1>2 DEF WebInv, TabsOK
<1>5. HistoryOK'
  <2>1. Spent' = Spent
    BY DEF Spent
  <2>2. \A k \in DOMAIN history : history[k] \in HistoryEvent
    BY LenProperties DEF WebInv, HistoryOK
  <2>3. \A a \in DOMAIN history : history[a].op = "accept" => Accepted(history[a].eg)'
    BY <2>2 DEF WebInv, HistoryOK, LaterEditgroups, HistoryEvent
  <2> HIDE DEF HistoryEvent
  <2> QED
    BY <2>1, <2>3 DEF WebInv, HistoryOK
<1> QED
  BY <1>3, <1>4, <1>5 DEF WebInv, EntitiesOK

\* A page opened, closed or posted; the catalog is as it was.
LEMMA PageKeepsWeb ==
    ASSUME WebInv, NEW u \in User, NEW t \in Tab, TabOK(t), tab' = [tab EXCEPT ![u] = t],
           EditgroupsTypeOK', LaterEditgroups, UNCHANGED <<entity, edit, history>>
    PROVE  WebInv'
<1>1. LaterEntities /\ Len(history) \in Nat /\ Len(history') \in Nat /\ Len(history) <= Len(history')
  BY HistoryLength DEF WebInv, LaterEntities
<1>2. /\ \A x : TabOK(x) => TabOK(x)'
      /\ \A e : \A g \in Editgroup, i \in Ident : EditOK(e, g, i) => EditOK(e, g, i)'
  BY <1>1, Later
<1>3. EditsOK'
  BY <1>2 DEF WebInv, EditsOK
<1>4. TabsOK'
  <2>1. tab \in [User -> Tab] /\ \A v \in User : TabOK(tab[v])
    BY DEF WebInv, TabsOK
  <2>2. \A v \in User : tab'[v] = t \/ tab'[v] = tab[v]
    BY <2>1
  <2>3. PICK new : new = tab'
    OBVIOUS
  <2>4. \A v \in User : TabOK(new[v])'
    BY <1>2, <2>1, <2>2, <2>3
  <2>5. new \in [User -> Tab]
    <3> HIDE DEF Tab
    <3> QED
      BY <2>1, <2>3
  <2> QED
    BY <2>3, <2>4, <2>5 DEF TabsOK
<1>5. HistoryOK'
  <2>1. Spent' = Spent
    BY DEF Spent
  <2>2. \A k \in DOMAIN history : history[k] \in HistoryEvent
    BY LenProperties DEF WebInv, HistoryOK
  <2>3. \A a \in DOMAIN history : history[a].op = "accept" => Accepted(history[a].eg)'
    BY <2>2 DEF WebInv, HistoryOK, LaterEditgroups, HistoryEvent
  <2> HIDE DEF HistoryEvent
  <2> QED
    BY <2>1, <2>3 DEF WebInv, HistoryOK
<1> QED
  BY <1>3, <1>4, <1>5 DEF WebInv, EntitiesOK

LEMMA NoTabOK ==
    ASSUME Len(history) \in Nat
    PROVE  NoTab \in Tab /\ TabOK(NoTab)
BY DEF NoTab, Tab, TabOK, Kinds, Idents, Rev

\* A page filled from row for an entity, in an editgroup or not (0).
FilledFor(t, kind, row, since, g, i, pinned) ==
    \/ t = [Filled(kind, row, since) EXCEPT !.ident = i, !.pinned = pinned] /\ g = 0
    \/ t = [Filled(kind, row, since) EXCEPT !.url = g, !.group = g, !.ident = i,
                                            !.pinned = pinned]

\* What such a page knows: a deletion nothing.
Knows(t, kind, row, since) ==
    /\ t.at = "open" /\ t.kind = kind /\ t.fetched = 0
    /\ IF kind = "delete" THEN t.opened = 0 /\ t.shown = 0 /\ t.hidden = 0
       ELSE /\ t.opened = Len(history) /\ t.base = row.rev
            /\ t.shown = since.shown /\ t.hidden = since.hidden

LEMMA FilledIs ==
    ASSUME NEW kind \in Kinds, NEW row, row.rev \in Rev, NEW since,
           since.shown \in 0 .. Len(history), since.hidden \in 0 .. Len(history),
           Len(history) \in Nat,
           NEW g \in Editgroup \cup {0}, NEW i \in Ident, NEW pinned \in BOOLEAN,
           entity[i].state # "none",
           NEW t, FilledFor(t, kind, row, since, g, i, pinned)
    PROVE  /\ t \in Tab /\ TabOK(t)
           /\ t.ident = i /\ t.url = g /\ Knows(t, kind, row, since)
<1>1. /\ {} \in Rev /\ i \in Idents /\ 0 \in Nat
      /\ Len(history) \in Nat /\ since.shown \in Nat /\ since.hidden \in Nat
  BY DEF Rev, Idents
<1> HIDE DEF Rev
<1>2. CASE kind = "delete"
  <2>1. t = [at |-> "open", kind |-> "delete", url |-> g, ident |-> i, base |-> {},
             pinned |-> pinned, opened |-> 0, group |-> g, existing |-> 0,
             current |-> {}, fetched |-> 0, shown |-> 0, hidden |-> 0]
    <3>1. PICK f : f = Filled(kind, row, since)
      OBVIOUS
    <3>2. f = [at |-> "open", kind |-> "delete", url |-> 0, ident |-> 0, base |-> {},
               pinned |-> FALSE, opened |-> 0, group |-> 0, existing |-> 0,
               current |-> {}, fetched |-> 0, shown |-> 0, hidden |-> 0]
      BY <1>2, <3>1 DEF Filled, NoTab
    <3>3. \/ t = [f EXCEPT !.ident = i, !.pinned = pinned] /\ g = 0
          \/ t = [f EXCEPT !.url = g, !.group = g, !.ident = i, !.pinned = pinned]
      BY <3>1 DEF FilledFor
    <3>4. ASSUME t = [f EXCEPT !.ident = i, !.pinned = pinned]
          PROVE  t = [at |-> "open", kind |-> "delete", url |-> 0, ident |-> i, base |-> {},
                      pinned |-> pinned, opened |-> 0, group |-> 0, existing |-> 0,
                      current |-> {}, fetched |-> 0, shown |-> 0, hidden |-> 0]
      BY <3>2, <3>4, Zenon
    <3>5. CASE t = [f EXCEPT !.url = g, !.group = g, !.ident = i, !.pinned = pinned]
      BY <3>2, <3>5, Zenon
    <3> QED
      BY <3>3, <3>4, <3>5
  <2>2. t \in Tab
    BY <1>1, <2>1 DEF Tab, Kinds
  <2>3. TabOK(t)
    <3>1. /\ t.url = g /\ t.group = g /\ t.existing = 0 /\ t.at = "open" /\ t.kind = "delete"
          /\ t.ident = i /\ t.opened = 0 /\ t.fetched = 0 /\ t.shown = 0 /\ t.hidden = 0
      BY <2>1
    <3> QED
      BY <1>1, <3>1 DEF TabOK
  <2>4. t.ident = i /\ t.url = g /\ Knows(t, kind, row, since)
    BY <1>2, <2>1 DEF Knows
  <2> QED
    BY <2>2, <2>3, <2>4
<1>3. CASE kind # "delete"
  <2>1. t = [at |-> "open", kind |-> kind, url |-> g, ident |-> i, base |-> row.rev,
             pinned |-> pinned, opened |-> Len(history), group |-> g, existing |-> 0,
             current |-> {}, fetched |-> 0, shown |-> since.shown, hidden |-> since.hidden]
    <3>1. PICK f : f = Filled(kind, row, since)
      OBVIOUS
    <3>2. f = [at |-> "open", kind |-> kind, url |-> 0, ident |-> 0, base |-> row.rev,
               pinned |-> FALSE, opened |-> Len(history), group |-> 0, existing |-> 0,
               current |-> {}, fetched |-> 0, shown |-> since.shown, hidden |-> since.hidden]
      BY <1>3, <3>1 DEF Filled, NoTab, Moment
    <3>3. \/ t = [f EXCEPT !.ident = i, !.pinned = pinned] /\ g = 0
          \/ t = [f EXCEPT !.url = g, !.group = g, !.ident = i, !.pinned = pinned]
      BY <3>1 DEF FilledFor
    <3>4. ASSUME t = [f EXCEPT !.ident = i, !.pinned = pinned]
          PROVE  t = [at |-> "open", kind |-> kind, url |-> 0, ident |-> i, base |-> row.rev,
                      pinned |-> pinned, opened |-> Len(history), group |-> 0, existing |-> 0,
                      current |-> {}, fetched |-> 0, shown |-> since.shown, hidden |-> since.hidden]
      BY <3>2, <3>4, Zenon
    <3>5. CASE t = [f EXCEPT !.url = g, !.group = g, !.ident = i, !.pinned = pinned]
      BY <3>2, <3>5, Zenon
    <3> QED
      BY <3>3, <3>4, <3>5
  <2>2. t \in Tab
    BY <1>1, <2>1 DEF Tab
  <2>3. TabOK(t)
    <3>1. /\ t.url = g /\ t.group = g /\ t.existing = 0 /\ t.at = "open" /\ t.kind = kind
          /\ t.ident = i /\ t.opened = Len(history) /\ t.fetched = 0
          /\ t.shown = since.shown /\ t.hidden = since.hidden
      BY <2>1
    <3>2. kind \notin {"delete", "create"}
      BY <1>3 DEF Kinds
    <3> QED
      BY <1>1, <3>1, <3>2 DEF TabOK
  <2>4. t.ident = i /\ t.url = g /\ Knows(t, kind, row, since)
    BY <1>3, <2>1 DEF Knows
  <2> QED
    BY <2>2, <2>3, <2>4
<1> QED
  BY <1>2, <1>3

\* What stays of a page when it is posted, and what a form takes from row.
Posted(t, p, row, since) ==
    /\ t.at = "fetched" /\ t.kind = p.kind /\ t.ident = p.ident /\ t.url = p.url
    /\ t.pinned = p.pinned /\ t.base = p.base /\ t.opened = p.opened /\ t.shown = p.shown
    /\ IF p.kind = "form"
       THEN t.current = Hidden(row.rev) /\ t.fetched = Len(history) /\ t.hidden = since
       ELSE t.current = p.current /\ t.fetched = p.fetched /\ t.hidden = p.hidden

\* A page posted to an editgroup, with the edit that it is to replace (or 0).
PostedTo(t, p, row, since, g, old) ==
    LET x == IF p.kind = "create" THEN p ELSE Refetched(p, row, since)
    IN  \/ t = [x EXCEPT !.at = "fetched", !.existing = old] /\ p.url = g
        \/ t = [x EXCEPT !.at = "fetched", !.group = g] /\ p.url = 0 /\ old = 0

LEMMA PostedIs ==
    ASSUME NEW p \in Tab, TabOK(p), p.at = "open", Len(history) \in Nat,
           NEW row, p.kind # "create" => row.rev \in Rev, NEW since \in 0 .. Len(history),
           NEW g \in Editgroup, NEW old \in 0 .. Len(history),
           NEW t, PostedTo(t, p, row, since, g, old)
    PROVE  t \in Tab /\ TabOK(t) /\ Posted(t, p, row, since)
<1>1. /\ p.kind # "create" => Hidden(row.rev) \in Rev
      /\ Len(history) \in Nat /\ since \in Nat /\ old \in Nat
  BY DEF Rev, Hidden
<1>2. p.existing = 0 /\ g # 0
  BY EditgroupsAssumption DEF TabOK, Editgroup
<1> HIDE DEF Rev, Hidden
<1>3. PICK current, fetched, hidden :
         /\ IF p.kind = "form"
            THEN current = Hidden(row.rev) /\ fetched = Len(history) /\ hidden = since
            ELSE current = p.current /\ fetched = p.fetched /\ hidden = p.hidden
         /\ current \in Rev /\ fetched \in Nat /\ hidden \in Nat
  <2>1. p.current \in Rev /\ p.fetched \in Nat /\ p.hidden \in Nat
    BY DEF Tab
  <2> QED
    BY <1>1, <2>1
<1>4. PICK x : /\ x = IF p.kind = "create" THEN p ELSE Refetched(p, row, since)
               /\ x = [p EXCEPT !.current = current, !.fetched = fetched, !.hidden = hidden]
  BY <1>3 DEF Refetched, Moment, Tab
<1>5. t = [at |-> "fetched", kind |-> p.kind, url |-> p.url, ident |-> p.ident,
           base |-> p.base, pinned |-> p.pinned, opened |-> p.opened, group |-> g,
           existing |-> old, current |-> current, fetched |-> fetched,
           shown |-> p.shown, hidden |-> hidden]
  <2>1. CASE t = [x EXCEPT !.at = "fetched", !.existing = old] /\ p.url = g
    <3>1. p.group = g
      BY <1>2, <2>1 DEF TabOK
    <3> QED
      BY <1>4, <2>1, <3>1 DEF Tab
  <2>2. CASE t = [x EXCEPT !.at = "fetched", !.group = g] /\ p.url = 0 /\ old = 0
    BY <1>2, <1>4, <2>2 DEF Tab
  <2> QED
    BY <1>4, <2>1, <2>2 DEF PostedTo
<1>6. p.url \in {0, g} /\ (p.url = 0 => old = 0)
  BY <1>2 DEF PostedTo
<1>7. /\ t.at = "fetched" /\ t.kind = p.kind /\ t.ident = p.ident /\ t.url = p.url
      /\ t.group = g /\ t.existing = old /\ t.pinned = p.pinned
      /\ t.base = p.base /\ t.opened = p.opened /\ t.shown = p.shown
      /\ t.current = current /\ t.fetched = fetched /\ t.hidden = hidden
  BY <1>5 DEF Tab
<1>8. t \in Tab
  BY <1>1, <1>3, <1>5 DEF Tab
<1>9. TabOK(t)
  <2>1. fetched \in 0 .. Len(history) /\ hidden \in 0 .. Len(history)
    BY <1>3 DEF TabOK
  <2> QED
    BY <1>2, <1>3, <1>7, <1>6, <2>1 DEF TabOK
<1> QED
  BY <1>3, <1>7, <1>8, <1>9 DEF Posted

\* One row of the edit table changes.
LEMMA RowWritten ==
    ASSUME EditsOK, NEW g \in Editgroup, NEW i \in Ident, NEW row \in EditRow,
           edit' = [edit EXCEPT ![g][i] = row]
    PROVE  /\ edit'[g][i] = row
           /\ \A h \in Editgroup, j \in Ident : h # g \/ j # i => edit'[h][j] = edit[h][j]
           /\ edit' \in [Editgroup -> [Ident -> EditRow]]
<1>1. edit \in [Editgroup -> [Ident -> EditRow]]
  BY DEF EditsOK
<1> HIDE DEF EditRow
<1> QED
  BY <1>1

LEMMA RowKeepsEdits ==
    ASSUME EditsOK, NEW g \in Editgroup, NEW i \in Ident, NEW row \in EditRow,
           edit' = [edit EXCEPT ![g][i] = row], EditOK(row, g, i)',
           \A e : \A h \in Editgroup, j \in Ident : EditOK(e, h, j) => EditOK(e, h, j)'
    PROVE  EditsOK'
<1>1. PICK new : new = edit'
  OBVIOUS
<1>2. /\ new[g][i] = row
      /\ \A h \in Editgroup, j \in Ident : h # g \/ j # i => new[h][j] = edit[h][j]
      /\ new \in [Editgroup -> [Ident -> EditRow]]
  <2>1. /\ edit'[g][i] = row
        /\ \A h \in Editgroup, j \in Ident : h # g \/ j # i => edit'[h][j] = edit[h][j]
        /\ edit' \in [Editgroup -> [Ident -> EditRow]]
    BY RowWritten
  <2> HIDE DEF EditRow
  <2> QED
    BY <1>1, <2>1
<1>3. \A h \in Editgroup, j \in Ident : EditOK(new[h][j], h, j)'
  BY <1>2 DEF EditsOK
<1> QED
  BY <1>1, <1>2, <1>3 DEF EditsOK

\* One page changes.
LEMMA TabWritten ==
    ASSUME TabsOK, NEW u \in User, NEW t \in Tab, tab' = [tab EXCEPT ![u] = t], TabOK(t)',
           \A x : TabOK(x) => TabOK(x)'
    PROVE  TabsOK'
<1>1. PICK new : new = tab'
  OBVIOUS
<1>2. tab \in [User -> Tab] /\ \A v \in User : TabOK(tab[v])
  BY DEF TabsOK
<1>3. \A v \in User : new[v] = t \/ new[v] = tab[v]
  BY <1>1, <1>2
<1>4. \A v \in User : TabOK(new[v])'
  BY <1>2, <1>3
<1>5. new \in [User -> Tab]
  <2> HIDE DEF Tab
  <2> QED
    BY <1>1, <1>2
<1> QED
  BY <1>1, <1>4, <1>5 DEF TabsOK

\* Back in the browser.
LEMMA BackIs ==
    ASSUME WebInv, NEW u \in User, tab[u].at \in {"fetched", "cleared"}, NEW new, new = Back(u)
    PROVE  \E t \in Tab :
              /\ new = [tab EXCEPT ![u] = t]
              /\ TabOK(t)
              /\ t.at = "open" /\ t.url = tab[u].url /\ t.ident = tab[u].ident
              /\ t.kind = tab[u].kind /\ t.base = tab[u].base /\ t.current = tab[u].current
              /\ t.opened = tab[u].opened /\ t.fetched = tab[u].fetched
              /\ t.shown = tab[u].shown /\ t.hidden = tab[u].hidden
<1>1. tab \in [User -> Tab] /\ TabOK(tab[u])
  BY DEF WebInv, TabsOK
<1>2. PICK p \in Tab : p = tab[u]
  BY <1>1
<1>3. PICK t : t = [p EXCEPT !.at = "open", !.group = p.url, !.existing = 0]
  OBVIOUS
<1>4. new = [tab EXCEPT ![u] = t]
  <2> HIDE DEF Tab
  <2> QED
    BY <1>1, <1>2, <1>3 DEF Back
<1>5. t \in Tab
  BY <1>3 DEF Tab
<1>6. /\ t.at = "open" /\ t.group = p.url /\ t.existing = 0 /\ t.kind = p.kind
      /\ t.url = p.url /\ t.ident = p.ident /\ t.base = p.base /\ t.pinned = p.pinned
      /\ t.opened = p.opened /\ t.current = p.current /\ t.fetched = p.fetched
      /\ t.shown = p.shown /\ t.hidden = p.hidden
  BY <1>3 DEF Tab
<1>7. TabOK(t)
  <2>1. Len(history) \in Nat
    BY HistoryLength DEF WebInv
  <2> QED
    BY <1>1, <1>2, <1>6, <2>1 DEF TabOK
<1> WITNESS t \in Tab
<1> QED
  BY <1>2, <1>4, <1>6, <1>7

\* What a page stores is of marks within the bound.
LEMMA SavedType ==
    ASSUME HistoryOK, NEW t \in Tab, Affordable(t.kind), NEW n, n = Moment + 1
    PROVE  /\ Saved(t, n) \in Rev
           /\ t.kind = "delete" => Saved(t, n) = {}
<1>1. /\ Len(history) \in Nat /\ Spent \in Nat
      /\ 2 * Len(history) <= Spent + 2 * MaxEditgroups
  BY HistoryLength
<1>2. Spent + 2 <= 3 * MaxSaves
  BY <1>1, WebAssumption DEF Affordable, Cost
<1>3. n \in 1 .. 2 * MaxSaves + MaxEditgroups
  <2>1. MaxSaves \in Nat /\ MaxEditgroups \in Nat
    BY WebAssumption, EditgroupsAssumption
  <2> QED
    BY <1>1, <1>2, <2>1 DEF Moment
<1>4. [n |-> n, hidden |-> FALSE] \in Mark /\ [n |-> n, hidden |-> TRUE] \in Mark
  BY <1>3 DEF Mark
<1>5. t.base \subseteq Mark /\ t.current \subseteq Mark
  BY DEF Tab, Rev
<1>6. CASE t.kind = "delete"
  BY <1>6 DEF Saved, Rev
<1>7. CASE t.kind = "create"
  BY <1>4, <1>7 DEF Saved, Rev
<1>8. CASE t.kind = "form"
  BY <1>4, <1>5, <1>8 DEF Saved, Rev, Shown
<1>9. CASE t.kind = "toml"
  BY <1>4, <1>5, <1>9 DEF Saved, Rev
<1> QED
  BY <1>6, <1>7, <1>8, <1>9 DEF Tab, Kinds

\* A handler deletes the edit that it replaces.
LEMMA ClearKeepsWeb ==
    ASSUME WebInv, NEW u \in User, ClearEdit(u)
    PROVE  /\ WebInv'
           /\ tab[u].group \in Editgroup /\ tab[u].ident \in Ident /\ tab[u].url = tab[u].group
           /\ \E t \in Tab : /\ tab' = [tab EXCEPT ![u] = t]
                             /\ t = [tab[u] EXCEPT !.at = "cleared"]
<1>1. /\ tab \in [User -> Tab] /\ tab[u] \in Tab /\ TabOK(tab[u]) /\ Len(history) \in Nat
  BY HistoryLength DEF WebInv, TabsOK
<1>2. PICK p \in Tab : p = tab[u]
  BY <1>1
<1>3. p.group \in Editgroup /\ p.ident \in Ident /\ p.url = p.group
  BY <1>1, <1>2 DEF ClearEdit, TabOK, Tab
<1>4. PICK t : t = [p EXCEPT !.at = "cleared"]
  OBVIOUS
<1>5. tab' = [tab EXCEPT ![u] = t]
  <2> HIDE DEF Tab
  <2> QED
    BY <1>1, <1>2, <1>4 DEF ClearEdit
<1>6. t \in Tab
  BY <1>4 DEF Tab
<1>7. TabOK(t)
  <2>1. /\ t.at = "cleared" /\ t.group = p.group /\ t.existing = p.existing /\ t.kind = p.kind
        /\ t.url = p.url /\ t.ident = p.ident /\ t.base = p.base /\ t.pinned = p.pinned
        /\ t.opened = p.opened /\ t.current = p.current /\ t.fetched = p.fetched
        /\ t.shown = p.shown /\ t.hidden = p.hidden
    BY <1>4 DEF Tab
  <2>2. p.at = "fetched" /\ p.existing # 0
    BY <1>2 DEF ClearEdit
  <2> QED
    BY <1>1, <1>2, <2>1, <2>2 DEF TabOK
<1>8. UNCHANGED <<now, editgroup, entity, history>>
  BY DEF ClearEdit
<1>9. LaterEditgroups /\ LaterEntities
  BY <1>8 DEF LaterEditgroups, LaterEntities, Exists, Accepted
<1>10. /\ \A x : TabOK(x) => TabOK(x)'
       /\ \A e : \A g \in Editgroup, i \in Ident : EditOK(e, g, i) => EditOK(e, g, i)'
  BY <1>1, <1>8, <1>9, Later
<1>11. TabsOK'
  BY <1>5, <1>6, <1>7, <1>10, TabWritten DEF WebInv
<1>12. EditsOK'
  <2>1. CASE UNCHANGED edit
    BY <1>10, <2>1 DEF WebInv, EditsOK
  <2>2. CASE edit' = [edit EXCEPT ![p.group][p.ident] = NoEdit]
    <3>1. NoEdit \in EditRow
      BY DEF NoEdit, EditRow, Rev
    <3>2. EditOK(NoEdit, p.group, p.ident)'
      BY <1>1, <1>8 DEF EditOK, NoEdit
    <3> QED
      BY <1>3, <1>10, <2>2, <3>1, <3>2, RowKeepsEdits DEF WebInv
  <2> QED
    BY <1>2, <2>1, <2>2 DEF ClearEdit
<1>13. HistoryOK' /\ EditgroupsTypeOK' /\ EntitiesOK'
  <2>1. Spent' = Spent
    BY <1>8 DEF Spent
  <2> QED
    BY <1>8, <2>1 DEF WebInv, HistoryOK, EditgroupsTypeOK, EntitiesOK, Accepted, Exists
<1> QED
  BY <1>2, <1>3, <1>4, <1>5, <1>6, <1>11, <1>12, <1>13 DEF WebInv

\* A handler writes the edit, which ends the request.
Written(u, t, i, n) ==
    /\ t \in Tab /\ TabOK(t) /\ t.group \in Editgroup /\ t.at \in {"fetched", "cleared"}
    /\ ~Accepted(t.group) /\ edit[t.group][i] = NoEdit
    /\ t.at = "cleared" => t.url = t.group /\ t.ident = i
    /\ t.kind = "create" => entity[i].state = "none"
    /\ t.kind # "create" => t.ident = i
    /\ \E row \in EditRow :
          /\ edit' = [edit EXCEPT ![t.group][i] = row]
          /\ row # NoEdit /\ row.rev = Saved(t, n)
          /\ row.shown = t.shown /\ row.hidden = t.hidden
    /\ tab' = [tab EXCEPT ![u] = NoTab]
    /\ history' = Append(history, Event("save", t, t.group, i))
    /\ Event("save", t, t.group, i) \in HistoryEvent
    /\ UNCHANGED <<now, editgroup>>
    /\ \A j \in Ident : entity'[j] = entity[j] \/ entity[j].state = "none"

LEMMA WriteIs ==
    ASSUME WebInv, NEW u \in User, NEW i \in Ident, WriteEdit(u, i),
           NEW t, t = tab[u], NEW n, n = Len(history) + 1
    PROVE  Written(u, t, i, n) /\ WebInv'
<1>1. /\ tab \in [User -> Tab] /\ t \in Tab /\ TabOK(t) /\ Len(history) \in Nat
      /\ n = Moment + 1
  BY HistoryLength DEF WebInv, TabsOK, Moment
<1>2. /\ Affordable(t.kind) /\ ReadyToWrite(t) /\ Takes(u, t, i)
      /\ IF t.kind = "create" THEN entity[i].state = "none" ELSE t.ident = i
      /\ edit' = [edit EXCEPT ![t.group][i] =
            [op |-> IF t.kind = "delete" THEN "delete" ELSE "update", id |-> n,
             rev |-> Saved(t, n), shown |-> t.shown, hidden |-> t.hidden]]
      /\ entity' = IF t.kind = "create"
                   THEN [entity EXCEPT ![i] = [state |-> "wip", rev |-> Saved(t, n)]]
                   ELSE entity
      /\ history' = Append(history, Event("save", t, t.group, i))
      /\ tab' = [tab EXCEPT ![u] = NoTab]
      /\ UNCHANGED <<now, editgroup>>
  BY <1>1 DEF WriteEdit
<1>3. /\ t.at \in {"fetched", "cleared"} /\ t.group \in Editgroup
      /\ ~Accepted(t.group) /\ edit[t.group][i] = NoEdit /\ Exists(t.group)
  BY <1>1, <1>2 DEF ReadyToWrite, TabOK, Takes, MayEdit, Tab
<1>4. t.at = "cleared" => t.url = t.group /\ t.ident = i
  BY <1>1, <1>2, <1>3 DEF TabOK
<1>5. Saved(t, n) \in Rev /\ (t.kind = "delete" => Saved(t, n) = {})
  BY <1>1, <1>2, SavedType DEF WebInv
<1>6. PICK row : row = [op |-> IF t.kind = "delete" THEN "delete" ELSE "update", id |-> n,
                        rev |-> Saved(t, n), shown |-> t.shown, hidden |-> t.hidden]
  OBVIOUS
<1>7. /\ row \in EditRow /\ row.op = (IF t.kind = "delete" THEN "delete" ELSE "update")
      /\ row.id = n /\ row.rev = Saved(t, n) /\ row.shown = t.shown /\ row.hidden = t.hidden
      /\ row # NoEdit
  BY <1>1, <1>5, <1>6 DEF EditRow, Tab, NoEdit
<1>8. edit' = [edit EXCEPT ![t.group][i] = row]
  BY <1>2, <1>6
<1>9. Event("save", t, t.group, i) \in HistoryEvent
  BY <1>1, <1>3 DEF Event, HistoryEvent, Tab, Idents
<1>10. LaterEditgroups
  BY <1>2 DEF LaterEditgroups, Exists, Accepted
<1>11. Event("save", t, t.group, i).op = "save" /\ Event("save", t, t.group, i).kind = t.kind
  BY DEF Event
<1>12. HistoryOK' /\ Len(history') = Len(history) + 1
  BY <1>2, <1>9, <1>10, <1>11, HistoryAppends DEF WebInv
<1>13. entity \in [Ident -> [state : {"none", "wip", "active", "deleted"}, rev : Rev]]
  BY DEF WebInv, EntitiesOK
<1>14. /\ EntitiesOK' /\ LaterEntities /\ entity'[i].state # "none"
       /\ \A j \in Ident : entity'[j] = entity[j] \/ entity[j].state = "none"
  <2>1. CASE t.kind = "create"
    <3>1. PICK made : made = [state |-> "wip", rev |-> Saved(t, n)]
      OBVIOUS
    <3>2. /\ made \in [state : {"none", "wip", "active", "deleted"}, rev : Rev]
          /\ made.state = "wip"
      BY <1>5, <3>1
    <3>3. entity' = [entity EXCEPT ![i] = made] /\ entity[i].state = "none"
      BY <1>2, <2>1, <3>1
    <3> HIDE DEF Rev
    <3> QED
      BY <1>13, <3>2, <3>3 DEF WebInv, EntitiesOK, LaterEntities
  <2>2. CASE t.kind # "create"
    <3>1. entity' = entity /\ t.ident = i
      BY <1>2, <2>2
    <3>2. entity[i].state # "none"
      BY <1>1, <1>3, <2>2, <3>1 DEF TabOK
    <3> QED
      BY <3>1, <3>2 DEF WebInv, EntitiesOK, LaterEntities
  <2> QED
    BY <2>1, <2>2
<1>15. /\ \A x : TabOK(x) => TabOK(x)'
       /\ \A e : \A g \in Editgroup, j \in Ident : EditOK(e, g, j) => EditOK(e, g, j)'
  BY <1>1, <1>10, <1>12, <1>14, Later
<1>16. EditsOK'
  <2>1. EditOK(row, t.group, i)'
    <3>1. {n, t.shown, t.hidden} \subseteq 0 .. Len(history')
      BY <1>1, <1>12 DEF TabOK
    <3>2. Exists(t.group)'
      BY <1>3, <1>10 DEF LaterEditgroups
    <3> QED
      BY <1>5, <1>7, <1>14, <3>1, <3>2 DEF EditOK, NoEdit
  <2> QED
    BY <1>3, <1>7, <1>8, <1>15, <2>1, RowKeepsEdits DEF WebInv
<1>17. TabsOK'
  BY <1>1, <1>2, <1>15, NoTabOK, TabWritten DEF WebInv
<1>18. EditgroupsTypeOK'
  BY <1>2 DEF WebInv, EditgroupsTypeOK, Exists
<1>19. WebInv'
  BY <1>12, <1>14, <1>16, <1>17, <1>18 DEF WebInv
<1>20. (t.kind = "create" => entity[i].state = "none") /\ (t.kind # "create" => t.ident = i)
  BY <1>2
<1>21. \E r \in EditRow : /\ edit' = [edit EXCEPT ![t.group][i] = r]
                          /\ r # NoEdit /\ r.rev = Saved(t, n)
                          /\ r.shown = t.shown /\ r.hidden = t.hidden
  BY <1>7, <1>8
<1> QED
  BY <1>1, <1>2, <1>3, <1>4, <1>9, <1>14, <1>19, <1>20, <1>21 DEF Written

\* A request fails between two calls; the page stays.
LEMMA FailKeepsWeb ==
    ASSUME WebInv, NEW u \in User, RequestFails(u)
    PROVE  /\ WebInv'
           /\ tab[u].at = "cleared" =>
                 /\ history' = Append(history, Event("wipe", tab[u], tab[u].group, tab[u].ident))
                 /\ Event("wipe", tab[u], tab[u].group, tab[u].ident) \in HistoryEvent
<1>1. PICK t : t = tab[u]
  OBVIOUS
<1>2. /\ t \in Tab /\ TabOK(t) /\ t.at \in {"fetched", "cleared"} /\ Len(history) \in Nat
      /\ UNCHANGED <<now, editgroup, entity, edit>> /\ tab' = Back(u)
  BY <1>1, HistoryLength DEF RequestFails, WebInv, TabsOK
<1>3. PICK s \in Tab : tab' = [tab EXCEPT ![u] = s] /\ TabOK(s)
  BY <1>1, <1>2, BackIs
<1>4. LaterEditgroups /\ EditgroupsTypeOK'
  BY <1>2 DEF LaterEditgroups, Exists, Accepted, EditgroupsTypeOK, WebInv
<1>5. CASE t.at # "cleared"
  BY <1>1, <1>2, <1>3, <1>4, <1>5, PageKeepsWeb DEF RequestFails
<1>6. CASE t.at = "cleared"
  <2>1. PICK e : e = Event("wipe", t, t.group, t.ident)
    OBVIOUS
  <2>2. t.group \in Editgroup /\ t.ident \in Ident
    BY <1>2, <1>6 DEF TabOK, Tab
  <2>3. e \in HistoryEvent /\ e.op = "wipe" /\ e.kind = t.kind
    BY <1>2, <2>1, <2>2 DEF Event, HistoryEvent, Tab, Idents
  <2>4. history' = Append(history, e) /\ Affordable(t.kind)
    BY <1>1, <1>6, <2>1 DEF RequestFails
  <2>5. HistoryOK' /\ Len(history') = Len(history) + 1
    BY <1>4, <2>3, <2>4, HistoryAppends DEF WebInv
  <2>6. LaterEntities /\ EntitiesOK'
    BY <1>2 DEF LaterEntities, EntitiesOK, WebInv
  <2>7. /\ \A x : TabOK(x) => TabOK(x)'
        /\ \A r : \A g \in Editgroup, j \in Ident : EditOK(r, g, j) => EditOK(r, g, j)'
    BY <1>2, <1>4, <2>5, <2>6, Later
  <2>8. TabsOK'
    BY <1>3, <2>7, TabWritten DEF WebInv
  <2>9. EditsOK'
    BY <1>2, <2>7 DEF WebInv, EditsOK
  <2> QED
    BY <1>1, <1>4, <2>1, <2>3, <2>4, <2>5, <2>6, <2>8, <2>9 DEF WebInv
<1> QED
  BY <1>5, <1>6

\* An edit is removed on the page of its editgroup.
LEMMA RemoveKeepsWeb ==
    ASSUME WebInv, NEW u \in User, NEW g \in Editgroup, NEW i \in Ident, RemoveEdit(u, g, i),
           NEW e, e = Event("remove", [NoTab EXCEPT !.kind = "remove"], g, i)
    PROVE  WebInv' /\ e \in HistoryEvent /\ history' = Append(history, e)
<1>1. /\ UNCHANGED <<now, editgroup, entity, tab>> /\ history' = Append(history, e)
      /\ edit' = [edit EXCEPT ![g][i] = NoEdit] /\ Affordable("remove")
  BY DEF RemoveEdit
<1>2. e \in HistoryEvent /\ e.op = "remove" /\ e.kind = "remove" /\ Len(history) \in Nat
  BY HistoryLength DEF Event, HistoryEvent, NoTab, Idents, WebInv
<1>3. LaterEditgroups /\ LaterEntities /\ EditgroupsTypeOK' /\ EntitiesOK'
  BY <1>1 DEF LaterEditgroups, LaterEntities, Exists, Accepted, EditgroupsTypeOK, EntitiesOK, WebInv
<1>4. HistoryOK' /\ Len(history') = Len(history) + 1
  BY <1>1, <1>2, <1>3, HistoryAppends DEF WebInv
<1>5. /\ \A x : TabOK(x) => TabOK(x)'
      /\ \A r : \A h \in Editgroup, j \in Ident : EditOK(r, h, j) => EditOK(r, h, j)'
  BY <1>2, <1>3, <1>4, Later
<1>6. TabsOK'
  BY <1>1, <1>5 DEF WebInv, TabsOK
<1>7. EditsOK'
  <2>1. NoEdit \in EditRow
    BY DEF NoEdit, EditRow, Rev
  <2>2. EditOK(NoEdit, g, i)'
    BY <1>2, <1>4 DEF EditOK, NoEdit
  <2> QED
    BY <1>1, <1>5, <2>1, <2>2, RowKeepsEdits DEF WebInv
<1> QED
  BY <1>1, <1>2, <1>3, <1>4, <1>6, <1>7 DEF WebInv

\* The edits of an editgroup become the entities.
LEMMA AcceptIs ==
    ASSUME WebInv, NEW u \in User, NEW g \in Editgroup, AcceptEdits(u, g),
           NEW e, e = Event("accept", NoTab, g, 0)
    PROVE  /\ WebInv'
           /\ e \in HistoryEvent /\ history' = Append(history, e) /\ UNCHANGED <<edit, tab>>
           /\ \A i \in Ident :
                 IF edit[g][i] = NoEdit THEN entity'[i] = entity[i]
                 ELSE entity'[i].rev = edit[g][i].rev
<1>1. /\ MarkAccepted(u, g) /\ UNCHANGED <<edit, tab>> /\ history' = Append(history, e)
      /\ entity' = [i \in Ident |->
            CASE edit[g][i].op = "none" -> entity[i]
              [] edit[g][i].op = "update" -> [state |-> "active", rev |-> edit[g][i].rev]
              [] edit[g][i].op = "delete" -> [state |-> "deleted", rev |-> {}]]
  BY DEF AcceptEdits
<1>2. /\ e \in HistoryEvent /\ e.op = "accept" /\ e.eg = g /\ Len(history) \in Nat
  BY HistoryLength DEF Event, HistoryEvent, NoTab, Idents, WebInv, Kinds
<1>3. LaterEditgroups /\ EditgroupsTypeOK'
  BY <1>1, EditgroupsTypeStep DEF EditgroupStep, WebInv
<1>4. ~Accepted(g) /\ Accepted(g)'
  BY <1>1 DEF MarkAccepted, Accepted, WebInv, EditgroupsTypeOK
<1>5. HistoryOK' /\ Len(history') = Len(history) + 1
  BY <1>1, <1>2, <1>3, <1>4, HistoryAppends DEF WebInv
<1>6. entity \in [Ident -> [state : {"none", "wip", "active", "deleted"}, rev : Rev]]
  BY DEF WebInv, EntitiesOK
<1>7. ASSUME NEW i \in Ident
      PROVE  /\ IF edit[g][i] = NoEdit THEN entity'[i] = entity[i]
                ELSE entity'[i].rev = edit[g][i].rev /\ entity'[i].state \in {"active", "deleted"}
             /\ entity'[i] \in [state : {"none", "wip", "active", "deleted"}, rev : Rev]
  <2>1. edit[g][i] \in EditRow /\ EditOK(edit[g][i], g, i)
    BY DEF WebInv, EditsOK
  <2>2. edit[g][i].op \in {"none", "update", "delete"} /\ edit[g][i].rev \in Rev
    BY <2>1 DEF EditRow
  <2>3. {} \in Rev
    BY DEF Rev
  <2> HIDE DEF Rev
  <2>4. CASE edit[g][i].op = "none"
    BY <1>1, <1>6, <2>1, <2>4 DEF EditOK
  <2>5. CASE edit[g][i].op = "update"
    <3>1. entity'[i] = [state |-> "active", rev |-> edit[g][i].rev] /\ edit[g][i] # NoEdit
      BY <1>1, <2>1, <2>5 DEF EditOK
    <3> QED
      BY <2>2, <3>1
  <2>6. CASE edit[g][i].op = "delete"
    <3>1. entity'[i] = [state |-> "deleted", rev |-> {}] /\ edit[g][i] # NoEdit /\ edit[g][i].rev = {}
      BY <1>1, <2>1, <2>6 DEF EditOK
    <3> QED
      BY <2>3, <3>1
  <2> QED
    BY <2>2, <2>4, <2>5, <2>6
<1>8. EntitiesOK' /\ LaterEntities
  <2>1. entity' \in [Ident -> [state : {"none", "wip", "active", "deleted"}, rev : Rev]]
    BY <1>1, <1>7
  <2> QED
    BY <1>7, <2>1 DEF WebInv, EntitiesOK, LaterEntities
<1>9. /\ \A x : TabOK(x) => TabOK(x)'
      /\ \A r : \A h \in Editgroup, j \in Ident : EditOK(r, h, j) => EditOK(r, h, j)'
  BY <1>2, <1>3, <1>5, <1>8, Later
<1>10. TabsOK' /\ EditsOK'
  BY <1>1, <1>9 DEF WebInv, TabsOK, EditsOK
<1>11. \A i \in Ident : IF edit[g][i] = NoEdit THEN entity'[i] = entity[i]
                        ELSE entity'[i].rev = edit[g][i].rev
  BY <1>7
<1> QED
  BY <1>1, <1>2, <1>3, <1>5, <1>8, <1>10, <1>11 DEF WebInv

\* What a page knows when it is opened, or posted.
LEMMA OpenEntityIs ==
    ASSUME WebInv, NEW u \in User, NEW kind \in Kinds, NEW i \in Ident, OpenEntity(u, kind, i)
    PROVE  \E t \in Tab :
              /\ tab' = [tab EXCEPT ![u] = t] /\ TabOK(t) /\ t.ident = i /\ t.url = 0
              /\ Knows(t, kind, entity[i], [shown |-> Len(history), hidden |-> Len(history)])
<1>1. PICK since : since = [shown |-> Len(history), hidden |-> Len(history)]
  OBVIOUS
<1>2. PICK pinned \in BOOLEAN : pinned = (kind = "toml" /\ entity[i].state = "wip")
  OBVIOUS
<1>3. PICK t : t = [Filled(kind, entity[i], since) EXCEPT !.ident = i, !.pinned = pinned]
  OBVIOUS
<1>4. tab' = [tab EXCEPT ![u] = t] /\ entity[i].state # "none"
  BY <1>1, <1>2, <1>3 DEF OpenEntity, Moment
<1>5. PICK row, g : row = entity[i] /\ g = 0
  OBVIOUS
<1>6. /\ row.rev \in Rev /\ Len(history) \in Nat
      /\ since.shown \in 0 .. Len(history) /\ since.hidden \in 0 .. Len(history)
      /\ g \in Editgroup \cup {0}
  BY <1>1, <1>5, HistoryLength DEF WebInv, EntitiesOK
<1>7. FilledFor(t, kind, row, since, g, i, pinned)
  BY <1>3, <1>5 DEF FilledFor
<1>8. t \in Tab /\ TabOK(t) /\ t.ident = i /\ t.url = g /\ Knows(t, kind, row, since)
  BY <1>4, <1>6, <1>7, FilledIs
<1> QED
  BY <1>1, <1>4, <1>5, <1>8

LEMMA OpenEditIs ==
    ASSUME WebInv, NEW u \in User, NEW kind \in Kinds, NEW g \in Editgroup, NEW i \in Ident,
           OpenEdit(u, kind, g, i)
    PROVE  /\ edit[g][i] # NoEdit
           /\ \E t \in Tab :
                 /\ tab' = [tab EXCEPT ![u] = t] /\ TabOK(t) /\ t.ident = i /\ t.url = g
                 /\ Knows(t, kind, edit[g][i], edit[g][i])
<1>1. PICK e : e = edit[g][i]
  OBVIOUS
<1>2. PICK pinned \in BOOLEAN : pinned = (kind = "toml" /\ edit[g][i].op = "update")
  OBVIOUS
<1>3. PICK t : t = [Filled(kind, e, e) EXCEPT !.url = g, !.group = g, !.ident = i,
                                              !.pinned = pinned]
  OBVIOUS
<1>4. tab' = [tab EXCEPT ![u] = t] /\ e # NoEdit
  BY <1>1, <1>2, <1>3 DEF OpenEdit
<1>5. e \in EditRow /\ EditOK(e, g, i)
  BY <1>1 DEF WebInv, EditsOK
<1>6. /\ e.rev \in Rev /\ Len(history) \in Nat
      /\ e.shown \in 0 .. Len(history) /\ e.hidden \in 0 .. Len(history)
      /\ entity[i].state # "none"
  BY <1>4, <1>5, HistoryLength DEF WebInv, EditOK, EditRow
<1>7. FilledFor(t, kind, e, e, g, i, pinned)
  BY <1>3 DEF FilledFor
<1>8. t \in Tab /\ TabOK(t) /\ t.ident = i /\ t.url = g /\ Knows(t, kind, e, e)
  BY <1>6, <1>7, FilledIs
<1> QED
  BY <1>1, <1>4, <1>8

LEMMA PostEditIs ==
    ASSUME WebInv, NEW u \in User, PostEdit(u)
    PROVE  /\ tab[u].url \in Editgroup /\ tab[u].ident \in Ident
           /\ edit[tab[u].url][tab[u].ident] # NoEdit
           /\ \E t \in Tab :
                 /\ tab' = [tab EXCEPT ![u] = t] /\ TabOK(t)
                 /\ LET e == edit[tab[u].url][tab[u].ident] IN Posted(t, tab[u], e, e.hidden)
<1>1. tab \in [User -> Tab] /\ tab[u] \in Tab /\ TabOK(tab[u]) /\ Len(history) \in Nat
  BY HistoryLength DEF WebInv, TabsOK
<1>2. PICK p, g, i, e : p = tab[u] /\ g = tab[u].url /\ i = tab[u].ident /\ e = edit[g][i]
  OBVIOUS
<1>3. p.at = "open" /\ p.url # 0 /\ e # NoEdit
  BY <1>2 DEF PostEdit
<1>4. g \in Editgroup /\ i \in Ident
  BY <1>1, <1>2, <1>3 DEF TabOK, Tab
<1>5. e \in EditRow /\ EditOK(e, g, i)
  BY <1>2, <1>4 DEF WebInv, EditsOK
<1>6. PICK old, since : old = e.id /\ since = e.hidden
  OBVIOUS
<1>7. e.rev \in Rev /\ since \in 0 .. Len(history) /\ old \in 0 .. Len(history)
  BY <1>5, <1>6 DEF EditRow, EditOK
<1>8. p.kind # "create"
  BY <1>1, <1>2, <1>3 DEF TabOK
<1>9. PICK t : t = [Refetched(p, e, since) EXCEPT !.at = "fetched", !.existing = old]
  OBVIOUS
<1>10. tab' = [tab EXCEPT ![u] = t]
  BY <1>2, <1>6, <1>9 DEF PostEdit
<1>11. PostedTo(t, p, e, since, g, old)
  BY <1>2, <1>8, <1>9 DEF PostedTo
<1>12. t \in Tab /\ TabOK(t) /\ Posted(t, p, e, since)
  <2>1. p \in Tab /\ TabOK(p)
    BY <1>1, <1>2
  <2> QED
    BY <1>1, <1>3, <1>4, <1>7, <1>11, <2>1, PostedIs
<1> QED
  BY <1>2, <1>3, <1>4, <1>6, <1>10, <1>12

LEMMA PostEntityIs ==
    ASSUME WebInv, NEW u \in User, NEW g \in Editgroup, PostEntity(u, g)
    PROVE  /\ tab[u].url = 0
           /\ tab[u].kind # "create" => tab[u].ident \in Ident
           /\ \E t \in Tab :
                 /\ tab' = [tab EXCEPT ![u] = t] /\ TabOK(t)
                 /\ Posted(t, tab[u], entity[tab[u].ident], Len(history))
           /\ EditgroupsTypeOK' /\ LaterEditgroups
           /\ \A h \in Editgroup : Accepted(h)' => Accepted(h)
<1>1. tab \in [User -> Tab] /\ tab[u] \in Tab /\ TabOK(tab[u]) /\ Len(history) \in Nat
  BY HistoryLength DEF WebInv, TabsOK
<1>2. PICK p, row, since : p = tab[u] /\ row = entity[tab[u].ident] /\ since = Len(history)
  OBVIOUS
<1>3. /\ p.at = "open" /\ p.url = 0 /\ UNCHANGED now
      /\ \/ UNCHANGED editgroup
         \/ FreshEditgroup(g) /\ editgroup' = Created(u, g)
  BY <1>2 DEF PostEntity
<1>4. p.kind # "create" => p.ident \in Ident
  BY <1>1, <1>2, <1>3 DEF TabOK
<1>5. PICK t : t = [IF p.kind = "create" THEN p ELSE Refetched(p, row, since)
                       EXCEPT !.at = "fetched", !.group = g]
  OBVIOUS
<1>6. tab' = [tab EXCEPT ![u] = t]
  BY <1>2, <1>5 DEF PostEntity, Moment
<1>7. t \in Tab /\ TabOK(t) /\ Posted(t, p, row, since)
  <2>1. p.kind # "create" => row.rev \in Rev
    BY <1>2, <1>4 DEF WebInv, EntitiesOK
  <2>2. p \in Tab /\ TabOK(p) /\ since \in 0 .. Len(history) /\ 0 \in 0 .. Len(history)
    BY <1>1, <1>2
  <2>3. PostedTo(t, p, row, since, g, 0)
    BY <1>3, <1>5 DEF PostedTo
  <2> QED
    BY <1>1, <1>3, <2>1, <2>2, <2>3, PostedIs
<1>8. EditgroupsTypeOK' /\ LaterEditgroups
  BY <1>3, EditgroupsTypeStep DEF WebInv
<1>9. \A h \in Editgroup : Accepted(h)' => Accepted(h)
  BY <1>3 DEF WebInv, EditgroupsTypeOK, Accepted, Created, NotCreated, FreshEditgroup
<1> QED
  BY <1>2, <1>3, <1>4, <1>6, <1>7, <1>8, <1>9

\* A page is opened, closed or posted: no edit, entity or event changes.
PageStep(u) ==
    \/ \E kind \in Kinds, i \in Ident :
          OpenEntity(u, kind, i) \/ \E g \in Editgroup : OpenEdit(u, kind, g, i)
    \/ OpenCreate(u) \/ ClosePage(u) \/ PostEdit(u)
    \/ \E g \in Editgroup : PostEntity(u, g)

LEMMA PageIs ==
    ASSUME WebInv, NEW u \in User, PageStep(u)
    PROVE  /\ WebInv'
           /\ UNCHANGED <<entity, edit, history>>
           /\ \A h \in Editgroup : Accepted(h)' => Accepted(h)
<1>1. UNCHANGED <<entity, edit, history>> /\ Len(history) \in Nat
  BY HistoryLength DEF PageStep, OpenEntity, OpenEdit, OpenCreate, ClosePage, PostEdit,
     PostEntity, WebInv
<1>2. ASSUME UNCHANGED <<now, editgroup>>
      PROVE  /\ EditgroupsTypeOK' /\ LaterEditgroups
             /\ \A h \in Editgroup : Accepted(h)' => Accepted(h)
  BY <1>2 DEF WebInv, EditgroupsTypeOK, LaterEditgroups, Exists, Accepted
<1>3. ASSUME NEW t \in Tab, tab' = [tab EXCEPT ![u] = t], TabOK(t), UNCHANGED <<now, editgroup>>
      PROVE  WebInv' /\ \A h \in Editgroup : Accepted(h)' => Accepted(h)
  BY <1>1, <1>2, <1>3, PageKeepsWeb
<1>4. ASSUME NEW kind \in Kinds, NEW i \in Ident, OpenEntity(u, kind, i)
      PROVE  WebInv' /\ \A h \in Editgroup : Accepted(h)' => Accepted(h)
  <2>1. UNCHANGED <<now, editgroup>>
    BY <1>4 DEF OpenEntity
  <2>2. PICK t \in Tab : tab' = [tab EXCEPT ![u] = t] /\ TabOK(t)
    BY <1>4, OpenEntityIs
  <2> QED
    BY <1>3, <2>1, <2>2
<1>5. ASSUME NEW kind \in Kinds, NEW i \in Ident, NEW g \in Editgroup, OpenEdit(u, kind, g, i)
      PROVE  WebInv' /\ \A h \in Editgroup : Accepted(h)' => Accepted(h)
  <2>1. UNCHANGED <<now, editgroup>>
    BY <1>5 DEF OpenEdit
  <2>2. PICK t \in Tab : tab' = [tab EXCEPT ![u] = t] /\ TabOK(t)
    BY <1>5, OpenEditIs
  <2> QED
    BY <1>3, <2>1, <2>2
<1>6. ASSUME OpenCreate(u)
      PROVE  WebInv' /\ \A h \in Editgroup : Accepted(h)' => Accepted(h)
  <2>1. UNCHANGED <<now, editgroup>>
    BY <1>6 DEF OpenCreate
  <2>2. PICK t : t = [NoTab EXCEPT !.at = "open", !.kind = "create"]
    OBVIOUS
  <2>3. t = [at |-> "open", kind |-> "create", url |-> 0, ident |-> 0, base |-> {},
             pinned |-> FALSE, opened |-> 0, group |-> 0, existing |-> 0,
             current |-> {}, fetched |-> 0, shown |-> 0, hidden |-> 0]
    BY <2>2 DEF NoTab
  <2>4. t \in Tab
    BY <2>3 DEF Tab, Idents, Rev
  <2>5. TabOK(t)
    BY <1>1, <2>3 DEF TabOK
  <2>6. tab' = [tab EXCEPT ![u] = t]
    BY <1>6, <2>2 DEF OpenCreate
  <2> QED
    BY <1>3, <2>1, <2>4, <2>5, <2>6
<1>7. ASSUME ClosePage(u)
      PROVE  WebInv' /\ \A h \in Editgroup : Accepted(h)' => Accepted(h)
  <2>1. UNCHANGED <<now, editgroup>> /\ tab' = [tab EXCEPT ![u] = NoTab]
    BY <1>7 DEF ClosePage
  <2> QED
    BY <1>1, <1>3, <2>1, NoTabOK
<1>8. ASSUME PostEdit(u)
      PROVE  WebInv' /\ \A h \in Editgroup : Accepted(h)' => Accepted(h)
  <2>1. UNCHANGED <<now, editgroup>>
    BY <1>8 DEF PostEdit
  <2>2. PICK t \in Tab : tab' = [tab EXCEPT ![u] = t] /\ TabOK(t)
    BY <1>8, PostEditIs
  <2> QED
    BY <1>3, <2>1, <2>2
<1>9. ASSUME NEW g \in Editgroup, PostEntity(u, g)
      PROVE  WebInv' /\ \A h \in Editgroup : Accepted(h)' => Accepted(h)
  <2>1. /\ EditgroupsTypeOK' /\ LaterEditgroups
        /\ \A h \in Editgroup : Accepted(h)' => Accepted(h)
    BY <1>9, PostEntityIs
  <2>2. PICK t \in Tab : tab' = [tab EXCEPT ![u] = t] /\ TabOK(t)
    BY <1>9, PostEntityIs
  <2> QED
    BY <1>1, <2>1, <2>2, PageKeepsWeb
<1> QED
  BY <1>1, <1>4, <1>5, <1>6, <1>7, <1>8, <1>9 DEF PageStep

LEMMA WebStepIs ==
    ASSUME NEW u \in User, WebStep(u)
    PROVE  \/ PageStep(u)
           \/ ClearEdit(u) \/ RequestFails(u)
           \/ \E i \in Ident : WriteEdit(u, i)
           \/ \E g \in Editgroup : AcceptEdits(u, g) \/ \E i \in Ident : RemoveEdit(u, g, i)
BY DEF WebStep, PageStep

LEMMA WebStepKeeps ==
    ASSUME WebInv, NEW u \in User, WebStep(u)
    PROVE  WebInv'
<1>1. CASE PageStep(u)
  BY <1>1, PageIs
<1>2. CASE ClearEdit(u)
  BY <1>2, ClearKeepsWeb
<1>3. CASE RequestFails(u)
  BY <1>3, FailKeepsWeb
<1>4. ASSUME NEW i \in Ident, WriteEdit(u, i) PROVE WebInv'
  BY <1>4, WriteIs
<1>5. ASSUME NEW g \in Editgroup, AcceptEdits(u, g) PROVE WebInv'
  BY <1>5, AcceptIs
<1>6. ASSUME NEW g \in Editgroup, NEW i \in Ident, RemoveEdit(u, g, i) PROVE WebInv'
  BY <1>6, RemoveKeepsWeb
<1> QED
  BY <1>1, <1>2, <1>3, <1>4, <1>5, <1>6, WebStepIs

\* Nothing has happened yet.
LEMMA WebInitOK ==
    ASSUME CurationInit
    PROVE  WebInv
<1>1. EditgroupsTypeOK
  <2>1. PICK owner \in User \cup {NoUser} :
           editgroup = [g \in Editgroup |-> [NotCreated EXCEPT !.owner = owner]]
    BY DEF CurationInit
  <2>2. PICK row : row = [NotCreated EXCEPT !.owner = owner]
    OBVIOUS
  <2>3. editgroup = [g \in Editgroup |-> row]
    BY <2>1, <2>2
  <2>4. row = [owner |-> owner, submitted |-> 0, accepted |-> FALSE]
    BY <2>2 DEF NotCreated
  <2>5. row \in [owner : User \cup {NoUser}, submitted : 0 .. LastTick, accepted : BOOLEAN]
    BY <2>1, <2>4, EditgroupsAssumption
  <2>6. row.owner = NoUser => row = NotCreated
    BY <2>4 DEF NotCreated
  <2>7. now \in 1 .. LastTick
    BY EditgroupsAssumption DEF CurationInit
  <2> QED
    BY <2>3, <2>5, <2>7, <2>6 DEF EditgroupsTypeOK, Exists
<1>2. /\ entity \in [Ident -> {[state |-> "none", rev |-> {}], [state |-> "active", rev |-> {}]}]
      /\ edit = [g \in Editgroup |-> [i \in Ident |-> NoEdit]]
      /\ tab = [u \in User |-> NoTab]
      /\ history = << >>
  BY DEF CurationInit, WebInit
<1>3. history \in Seq(HistoryEvent) /\ Len(history) = 0 /\ DOMAIN history = {}
  <2> HIDE DEF HistoryEvent
  <2> QED
    BY <1>2
<1>4. EntitiesOK
  <2>1. PICK none, active : /\ none = [state |-> "none", rev |-> {}]
                            /\ active = [state |-> "active", rev |-> {}]
    OBVIOUS
  <2>2. PICK Rows : Rows = [state : {"none", "wip", "active", "deleted"}, rev : Rev]
    OBVIOUS
  <2>3. none \in Rows /\ active \in Rows
    BY <2>1, <2>2 DEF Rev
  <2>4. entity \in [Ident -> {none, active}]
    BY <1>2, <2>1
  <2>5. entity \in [Ident -> Rows]
    BY <2>3, <2>4
  <2>6. none.rev = {} /\ active.rev = {}
    BY <2>1
  <2>7. \A i \in Ident : entity[i].rev = {}
    BY <2>4, <2>6
  <2> QED
    BY <2>2, <2>5, <2>7 DEF EntitiesOK
<1>5. EditsOK
  <2>1. NoEdit \in EditRow
    BY DEF NoEdit, EditRow, Rev
  <2>2. ASSUME NEW g \in Editgroup, NEW i \in Ident PROVE EditOK(NoEdit, g, i)
    BY <1>3 DEF EditOK, NoEdit
  <2> HIDE DEF NoEdit, EditRow
  <2> QED
    BY <1>2, <2>1, <2>2 DEF EditsOK
<1>6. TabsOK
  <2> HIDE DEF NoTab, Tab
  <2> QED
    BY <1>2, <1>3, NoTabOK DEF TabsOK
<1>7. HistoryOK
  <2>1. EventsOf({"form"}) = {} /\ EventsOf(Others) = {}
    BY <1>3 DEF EventsOf
  <2>2. Cardinality({}) = 0
    BY FS_EmptySet
  <2>3. Spent = 0
    BY <2>1, <2>2, SpentIs
  <2> QED
    BY <1>3, <2>3, WebAssumption DEF HistoryOK
<1> QED
  BY <1>1, <1>4, <1>5, <1>6, <1>7 DEF WebInv

\* The bound on the history comes from the count of what was spent.
LEMMA WebTypes ==
    ASSUME WebInv
    PROVE  WebTypeOK
<1>1. Len(history) <= 2 * MaxSaves + MaxEditgroups
  <2>1. /\ Len(history) \in Nat /\ Spent \in Nat /\ Spent <= 3 * MaxSaves
        /\ 2 * Len(history) <= Spent + 2 * MaxEditgroups
    BY HistoryLength DEF WebInv, HistoryOK
  <2> QED
    BY <2>1, WebAssumption, EditgroupsAssumption
<1>2. \A g \in Editgroup, i \in Ident : EditOK(edit[g][i], g, i)
  BY DEF WebInv, EditsOK
<1>3. \A u \in User : TabOK(tab[u])
  BY DEF WebInv, TabsOK
<1>4. entity \in [Ident -> [state : {"none", "wip", "active", "deleted"}, rev : Rev]]
  BY DEF WebInv, EntitiesOK
<1>5. edit \in [Editgroup -> [Ident -> EditRow]] /\ tab \in [User -> Tab]
  BY DEF WebInv, EditsOK, TabsOK
<1> HIDE DEF Tab, EditRow, HistoryEvent
<1>6. \A g \in Editgroup, i \in Ident :
         LET e == edit[g][i]
         IN  /\ {e.id, e.shown, e.hidden} \subseteq 0 .. Len(history)
             /\ e.op = "none" <=> e = NoEdit
             /\ e.op # "none" => Exists(g) /\ entity[i].state # "none"
             /\ e.op = "delete" => e.rev = {}
  BY <1>2 DEF EditOK
<1>7. \A u \in User : LET t == tab[u] IN t.url \in {0, t.group} /\ (t.at = "cleared" => t.existing # 0)
  BY <1>3 DEF TabOK
<1> QED
  BY <1>1, <1>4, <1>5, <1>6, <1>7 DEF WebInv, WebTypeOK, HistoryOK

-----------------------------------------------------------------------------
(* The listings of the bot. *)

LEMMA LeastOfNaturals ==
    ASSUME NEW S \in SUBSET Nat, S # {}
    PROVE  \E m \in S : \A n \in S : m <= n
<1> DEFINE Less == {pair \in Nat \X Nat : pair[1] < pair[2]}
<1>1. Less = OpToRel(<, Nat)
  BY DEF OpToRel
<1>2. IsWellFoundedOn(Less, Nat)
  BY <1>1, NatLessThanWellFounded
<1>3. \A m, n \in Nat : <<n, m>> \notin Less => m <= n
  OBVIOUS
<1> HIDE DEF Less
<1>4. PICK m \in S : \A n \in S : <<n, m>> \notin Less
  BY <1>2, WFMin, Zenon
<1> QED
  BY <1>3, <1>4

\* What does not fall from one place to the next does not fall at all.
LEMMA NeverFalls ==
    ASSUME NEW n \in Nat, NEW v \in [1 .. n -> Nat],
           \A p \in 1 .. n - 1 : v[p] <= v[p + 1],
           NEW p \in 1 .. n, NEW q \in 1 .. n, p <= q
    PROVE  v[p] <= v[q]
<1> DEFINE Below == {r \in 1 .. n : p <= r /\ v[r] < v[p]}
<1>1. ASSUME Below # {} PROVE FALSE
  <2>1. Below \in SUBSET Nat
    OBVIOUS
  <2>2. PICK m \in Below : \A r \in Below : m <= r
    BY <1>1, <2>1, LeastOfNaturals
  <2>3. m \in 1 .. n /\ p <= m /\ v[m] < v[p]
    BY <2>2
  <2>4. p < m
    BY <2>3
  <2>5. m - 1 \in 1 .. n - 1 /\ m - 1 \in 1 .. n /\ p <= m - 1 /\ (m - 1) + 1 = m
    BY <2>3, <2>4
  <2>6. m - 1 \notin Below
    BY <2>2, <2>5
  <2>7. v[p] <= v[m - 1] /\ v[m - 1] <= v[m]
    BY <2>5, <2>6
  <2> QED
    BY <2>3, <2>5, <2>7
<1>2. q \notin Below
  BY <1>1
<1> QED
  BY <1>2

\* A page holds submissions of the listed editgroups, each once, in order of
\* time, and what it leaves out is no earlier than what it holds.
LEMMA PageOf ==
    ASSUME EditgroupsTypeOK, NEW S \in SUBSET Editgroup, S # {}, NEW page \in Pages(S)
    PROVE  /\ Len(page) \in 1 .. PageLimit /\ DOMAIN page = 1 .. Len(page)
           /\ \A p \in DOMAIN page :
                 \E g \in S : page[p] = [eg |-> g, at |-> editgroup[g].submitted]
           /\ \A p, q \in DOMAIN page : p < q => page[p].at <= page[q].at /\ page[p] # page[q]
           /\ \A g \in S : \/ \E p \in DOMAIN page :
                                 page[p] = [eg |-> g, at |-> editgroup[g].submitted]
                           \/ editgroup[g].submitted >= page[Len(page)].at
<1>1. IsFiniteSet(S) /\ Cardinality(S) \in Nat /\ Cardinality(S) # 0
  <2>1. IsFiniteSet(1 .. MaxEditgroups)
    BY EditgroupsAssumption, FS_Interval
  <2>2. IsFiniteSet(S)
    BY <2>1, FS_Subset DEF Editgroup
  <2> QED
    BY <2>2, FS_CardinalityType, FS_EmptySet
<1>2. PICK c \in Nat \ {0} : c = Cardinality(S)
  BY <1>1
<1>3. PICK s \in SetToSeqs(S) :
         /\ \A p \in 1 .. Len(s) - 1 : editgroup[s[p]].submitted <= editgroup[s[p + 1]].submitted
         /\ page = [p \in 1 .. IF Len(s) < PageLimit THEN Len(s) ELSE PageLimit |->
                       [eg |-> s[p], at |-> editgroup[s[p]].submitted]]
  BY DEF Pages
<1>4. s \in [1 .. c -> S] /\ \A p, q \in 1 .. c : p # q => s[p] # s[q]
  BY <1>2, <1>3 DEF SetToSeqs
<1>5. s \in Seq(S) /\ Len(s) = c
  BY <1>4
<1>6. s \in Surjection(1 .. c, S)
  <2>1. IsFiniteSet(1 .. c) /\ Cardinality(1 .. c) = c
    BY FS_Interval
  <2>2. s \in Injection(1 .. c, S)
    BY <1>4 DEF Injection, IsInjective
  <2> QED
    BY <1>1, <1>2, <2>1, <2>2, FS_Injection
<1>7. \A g \in S : \E p \in 1 .. c : s[p] = g
  BY <1>6 DEF Surjection
<1> DEFINE v == [p \in 1 .. c |-> editgroup[s[p]].submitted]
<1>8. v \in [1 .. c -> Nat]
  BY <1>4 DEF EditgroupsTypeOK
<1>9. \A p, q \in 1 .. c : p <= q => v[p] <= v[q]
  <2>1. \A p \in 1 .. c - 1 : v[p] <= v[p + 1]
    BY <1>3, <1>5
  <2> HIDE DEF v
  <2> QED
    BY <1>8, <2>1, NeverFalls
<1>10. PICK n \in 1 .. PageLimit : n = (IF c < PageLimit THEN c ELSE PageLimit) /\ n <= c
  BY ReviewBotAssumption
<1>11. /\ page = [p \in 1 .. n |-> [eg |-> s[p], at |-> v[p]]]
       /\ DOMAIN page = 1 .. n /\ Len(page) = n
  <2>1. page = [p \in 1 .. n |-> [eg |-> s[p], at |-> editgroup[s[p]].submitted]]
    BY <1>3, <1>5, <1>10
  <2>2. 1 .. n \subseteq 1 .. c
    BY <1>10
  <2>3. page = [p \in 1 .. n |-> [eg |-> s[p], at |-> v[p]]]
    BY <2>1, <2>2
  <2>4. DOMAIN page = 1 .. n
    BY <2>3
  <2>5. page \in [1 .. n -> [eg : S, at : Nat]]
    BY <1>4, <1>8, <2>2, <2>3
  <2>6. Len(page) = n
    BY <2>4, <2>5
  <2> QED
    BY <2>3, <2>4, <2>6
<1>12. \A p \in 1 .. n : page[p] = [eg |-> s[p], at |-> v[p]] /\ s[p] \in S
  BY <1>4, <1>10, <1>11
<1>13. \A p \in 1 .. n : v[p] = editgroup[s[p]].submitted
  BY <1>10
<1> HIDE DEF v
<1>14. ASSUME NEW p \in 1 .. n PROVE page[p].eg = s[p] /\ page[p].at = v[p]
  <2>1. page[p] = [eg |-> s[p], at |-> v[p]]
    BY <1>12
  <2> QED
    BY <2>1
<1>15. ASSUME NEW p \in 1 .. n, NEW q \in 1 .. n, p < q
       PROVE  page[p].at <= page[q].at /\ page[p] # page[q]
  <2>1. s[p] # s[q] /\ v[p] <= v[q]
    BY <1>4, <1>9, <1>10, <1>15
  <2>2. page[p].eg # page[q].eg /\ page[p].at <= page[q].at
    BY <1>14, <2>1
  <2> QED
    BY <2>2
<1>16. ASSUME NEW g \in S
       PROVE  \/ \E p \in 1 .. n : page[p] = [eg |-> g, at |-> editgroup[g].submitted]
              \/ editgroup[g].submitted >= page[n].at
  <2>1. PICK p \in 1 .. c : s[p] = g
    BY <1>7
  <2>2. CASE p <= n
    BY <1>12, <1>13, <2>1, <2>2
  <2>3. CASE n <= p
    <3>1. v[n] <= v[p]
      BY <1>9, <1>10, <2>3
    <3>2. v[p] = editgroup[g].submitted
      BY <2>1 DEF v
    <3>3. page[n].at = v[n] /\ v[n] \in Nat /\ v[p] \in Nat
      BY <1>8, <1>10, <1>14
    <3> QED
      BY <3>1, <3>2, <3>3
  <2> QED
    BY <1>10, <2>2, <2>3
<1>17. \A p \in DOMAIN page : \E g \in S : page[p] = [eg |-> g, at |-> editgroup[g].submitted]
  BY <1>11, <1>12, <1>13
<1>18. \A p, q \in DOMAIN page : p < q => page[p].at <= page[q].at /\ page[p] # page[q]
  BY <1>11, <1>15
<1>19. \A g \in S : \/ \E p \in DOMAIN page :
                            page[p] = [eg |-> g, at |-> editgroup[g].submitted]
                      \/ editgroup[g].submitted >= page[Len(page)].at
  <2>1. DOMAIN page = 1 .. n /\ Len(page) = n
    BY <1>11
  <2> QED
    BY <1>16, <2>1
<1>20. Len(page) \in 1 .. PageLimit /\ DOMAIN page = 1 .. Len(page)
  BY <1>10, <1>11
<1> QED
  BY <1>17, <1>18, <1>19, <1>20

-----------------------------------------------------------------------------
(* The types of the bot. *)

\* Nothing is from the future.
BotInv ==
    /\ ReviewTypeOK
    /\ \A g \in Editgroup : editgroup[g].submitted <= now
    /\ \A p \in DOMAIN bot.todo : bot.todo[p].at <= now

\* What a step of the others may do to an editgroup: take its submission back,
\* or submit it now.
OthersMove ==
    /\ now' \in Nat /\ now <= now'
    /\ \A g \in Editgroup : /\ editgroup'[g].submitted \in {editgroup[g].submitted, 0, now}
                            /\ Accepted(g) => Accepted(g)'
    /\ UNCHANGED <<bot, annotations, botDeaths>>

LEMMA TodoIs ==
    ASSUME ReviewTypeOK
    PROVE  /\ bot.todo \in Seq(Submission) /\ Len(bot.todo) \in Nat
           /\ DOMAIN bot.todo = 1 .. Len(bot.todo)
           /\ \A p \in DOMAIN bot.todo : bot.todo[p] \in Submission
           /\ bot.at = "review" <=> Len(bot.todo) # 0
<1>1. bot.todo \in Seq(Submission)
  BY DEF ReviewTypeOK
<1> HIDE DEF Submission
<1>2. /\ Len(bot.todo) \in Nat /\ DOMAIN bot.todo = 1 .. Len(bot.todo)
      /\ \A p \in DOMAIN bot.todo : bot.todo[p] \in Submission
  BY <1>1, LenProperties
<1>3. Len(bot.todo) # 0 <=> bot.todo # << >>
  BY <1>1, EmptySeq
<1> QED
  BY <1>1, <1>2, <1>3 DEF ReviewTypeOK

LEMMA OthersKeepBot ==
    ASSUME BotInv, EditgroupsTypeOK', OthersMove
    PROVE  BotInv'
<1>1. /\ now \in Nat /\ now' \in 1 .. LastTick /\ now <= now'
      /\ \A g \in Editgroup : editgroup[g].submitted \in Nat
  BY DEF BotInv, ReviewTypeOK, EditgroupsTypeOK, OthersMove
<1>2. PICK b : b = bot
  OBVIOUS
<1>3. bot' = b /\ UNCHANGED <<annotations, botDeaths>>
  BY <1>2 DEF OthersMove
<1>4. b \in [at : {"down", "list", "review"}, start : 0 .. now',
             since : 0 .. now' + TicksPerSecond, todo : Seq(Submission)]
  <2>1. /\ b \in [at : {"down", "list", "review"}, start : 0 .. now,
                  since : 0 .. now + TicksPerSecond, todo : Seq(Submission)]
    BY <1>2 DEF BotInv, ReviewTypeOK
  <2>2. 0 .. now \subseteq 0 .. now' /\ 0 .. now + TicksPerSecond \subseteq 0 .. now' + TicksPerSecond
    BY <1>1, ReviewBotAssumption
  <2> HIDE DEF Submission
  <2> QED
    BY <2>1, <2>2
<1>5. ReviewTypeOK'
  BY <1>1, <1>2, <1>3, <1>4 DEF BotInv, ReviewTypeOK
<1>6. \A g \in Editgroup : editgroup'[g].submitted <= now'
  BY <1>1 DEF BotInv, OthersMove
<1>7. \A p \in DOMAIN b.todo : b.todo[p].at <= now'
  <2>1. \A p \in DOMAIN b.todo : b.todo[p].at \in Nat /\ b.todo[p].at <= now
    BY <1>2, TodoIs DEF BotInv, Submission
  <2> QED
    BY <1>1, <2>1
<1> QED
  BY <1>3, <1>5, <1>6, <1>7 DEF BotInv

LEMMA StartIs ==
    ASSUME BotInv, StartBot
    PROVE  /\ BotInv'
           /\ bot.at = "down" /\ bot'.at = "list" /\ bot'.start = now /\ bot'.since = now
           /\ UNCHANGED <<now, editgroup, annotations, botDeaths>>
<1>1. PICK b : b = bot'
  OBVIOUS
<1>2. /\ b = [at |-> "list", start |-> now, since |-> now, todo |-> << >>] /\ bot.at = "down"
      /\ UNCHANGED <<now, editgroup, annotations, botDeaths>>
  BY <1>1 DEF StartBot
<1>3. now \in 0 .. now /\ now \in 0 .. now + TicksPerSecond
  BY ReviewBotAssumption DEF BotInv, ReviewTypeOK, EditgroupsTypeOK
<1>4. << >> \in Seq(Submission) /\ Len(<< >>) = 0 /\ DOMAIN << >> = {}
  <2> HIDE DEF Submission
  <2> QED
    OBVIOUS
<1>5. b \in [at : {"down", "list", "review"}, start : 0 .. now,
             since : 0 .. now + TicksPerSecond, todo : Seq(Submission)]
  <2> HIDE DEF Submission
  <2> QED
    BY <1>2, <1>3, <1>4
<1>6. ReviewTypeOK'
  BY <1>1, <1>2, <1>4, <1>5, ReviewBotAssumption
     DEF BotInv, ReviewTypeOK, EditgroupsTypeOK, Exists, Accepted
<1>7. BotInv'
  BY <1>1, <1>2, <1>4, <1>6 DEF BotInv
<1> QED
  BY <1>1, <1>2, <1>7

LEMMA ListIs ==
    ASSUME BotInv, ListReviewable, NEW S, S = Reviewable(bot.since)
    PROVE  /\ BotInv'
           /\ bot.at = "list" /\ bot'.at = "review"
           /\ bot'.start = bot.start /\ bot'.since = bot.since
           /\ S \subseteq Editgroup /\ S # {} /\ bot'.todo \in Pages(S)
           /\ UNCHANGED <<now, editgroup, annotations, botDeaths>>
<1>1. PICK b, page : b = bot' /\ b = [bot EXCEPT !.at = "review", !.todo = page] /\ page \in Pages(S)
  BY DEF ListReviewable
<1>2. /\ bot.at = "list" /\ S # {} /\ S \subseteq Editgroup
      /\ UNCHANGED <<now, editgroup, annotations, botDeaths>>
  BY DEF ListReviewable, Reviewable
<1>3. /\ Len(page) \in 1 .. PageLimit /\ DOMAIN page = 1 .. Len(page)
      /\ \A p \in DOMAIN page : \E g \in S : page[p] = [eg |-> g, at |-> editgroup[g].submitted]
  BY <1>1, <1>2, PageOf DEF BotInv, ReviewTypeOK
<1>4. \A g \in S : /\ editgroup[g].submitted \in 1 .. LastTick
                   /\ editgroup[g].submitted <= now
  <2>1. ASSUME NEW g \in S PROVE editgroup[g].submitted \in 1 .. LastTick
    <3>1. editgroup[g].submitted \in 0 .. LastTick
      BY <1>2 DEF BotInv, ReviewTypeOK, EditgroupsTypeOK
    <3>2. bot.since \in Nat
      BY ReviewBotAssumption DEF BotInv, ReviewTypeOK, EditgroupsTypeOK
    <3>3. TicksPerSecond * Second(bot.since) \in Nat
      BY <3>2, ReviewBotAssumption DEF Second
    <3>4. editgroup[g].submitted > TicksPerSecond * Second(bot.since)
      BY DEF Reviewable
    <3> QED
      BY <3>1, <3>3, <3>4
  <2> QED
    BY <1>2, <2>1 DEF BotInv
<1>5. ASSUME NEW p \in DOMAIN page PROVE page[p] \in Submission /\ page[p].at <= now
  <2>1. PICK g \in S : page[p] = [eg |-> g, at |-> editgroup[g].submitted]
    BY <1>3
  <2> QED
    BY <1>2, <1>4, <2>1 DEF Submission
<1>6. page \in Seq(Submission)
  <2>1. page \in [1 .. Len(page) -> Submission]
    <3>1. page = [p \in DOMAIN page |-> page[p]]
      BY <1>1 DEF Pages
    <3> QED
      BY <1>3, <1>5, <3>1
  <2>2. Len(page) \in Nat
    BY <1>3, ReviewBotAssumption
  <2> HIDE DEF Submission
  <2> QED
    BY <2>1, <2>2, SeqDef
<1>7. bot \in [at : {"down", "list", "review"}, start : 0 .. now,
               since : 0 .. now + TicksPerSecond, todo : Seq(Submission)]
  BY DEF BotInv, ReviewTypeOK
<1>8. /\ b.at = "review" /\ b.start = bot.start /\ b.since = bot.since /\ b.todo = page
      /\ b \in [at : {"down", "list", "review"}, start : 0 .. now,
                since : 0 .. now + TicksPerSecond, todo : Seq(Submission)]
  <2> HIDE DEF Submission
  <2> QED
    BY <1>1, <1>6, <1>7
<1>9. page # << >> /\ Len(page) <= PageLimit
  BY <1>3, ReviewBotAssumption
<1>10. ReviewTypeOK'
  BY <1>1, <1>2, <1>8, <1>9 DEF BotInv, ReviewTypeOK, EditgroupsTypeOK, Exists, Accepted
<1>11. BotInv'
  BY <1>1, <1>2, <1>5, <1>8, <1>10 DEF BotInv
<1> QED
  BY <1>1, <1>2, <1>8, <1>11

\* The first of the n submissions of a page is annotated.
FirstOf(s, todo, n) ==
    /\ bot.at = "review" /\ n \in Nat \ {0} /\ s = todo[1] /\ s \in Submission
    /\ annotations' = annotations \cup {[eg |-> s.eg, at |-> s.at, by |-> botDeaths]}
    /\ UNCHANGED <<now, editgroup, botDeaths>> /\ bot'.start = bot.start
    /\ n = 1 => bot'.at = "list" /\ bot'.since = s.at + TicksPerSecond
    /\ n # 1 => /\ bot'.at = "review" /\ DOMAIN bot'.todo = 1 .. n - 1 /\ Len(bot'.todo) = n - 1
                /\ \A p \in 1 .. n - 1 : bot'.todo[p] = todo[p + 1]

LEMMA AnnotateIs ==
    ASSUME BotInv, Annotate, NEW s, s = Head(bot.todo), NEW todo, todo = bot.todo,
           NEW n, n = Len(bot.todo)
    PROVE  BotInv' /\ FirstOf(s, todo, n)
<1>1. PICK b : b = bot'
  OBVIOUS
<1>2. /\ bot.at = "review" /\ UNCHANGED <<now, editgroup, botDeaths>>
      /\ annotations' = annotations \cup {[eg |-> s.eg, at |-> s.at, by |-> botDeaths]}
      /\ b = IF n = 1 THEN [bot EXCEPT !.at = "list", !.todo = << >>, !.since = s.at + TicksPerSecond]
             ELSE [bot EXCEPT !.todo = Tail(bot.todo), !.since = s.at]
  BY <1>1 DEF Annotate
<1>3. /\ todo \in Seq(Submission) /\ n \in Nat /\ DOMAIN todo = 1 .. n
      /\ \A p \in DOMAIN todo : todo[p] \in Submission
      /\ n # 0 /\ todo # << >> /\ n <= PageLimit
  BY <1>2, TodoIs DEF BotInv, ReviewTypeOK
<1>4. s = todo[1] /\ s \in Submission /\ s.at <= now
  <2>1. s = todo[1]
    BY <1>3
  <2>2. 1 \in DOMAIN todo
    BY <1>3
  <2> QED
    BY <1>3, <2>1, <2>2 DEF BotInv
<1>5. /\ Tail(todo) \in Seq(Submission) /\ Len(Tail(todo)) = n - 1
      /\ \A p \in 1 .. n - 1 : Tail(todo)[p] = todo[p + 1]
  <2> HIDE DEF Submission
  <2> QED
    BY <1>3, HeadTailProperties
<1>6. now \in Nat /\ s.at \in 1 .. LastTick /\ s.eg \in Editgroup
  BY <1>4 DEF BotInv, ReviewTypeOK, EditgroupsTypeOK, Submission
<1>7. bot \in [at : {"down", "list", "review"}, start : 0 .. now,
               since : 0 .. now + TicksPerSecond, todo : Seq(Submission)]
  BY DEF BotInv, ReviewTypeOK
<1>8. s.at \in 0 .. now + TicksPerSecond /\ s.at + TicksPerSecond \in 0 .. now + TicksPerSecond
  BY <1>4, <1>6, ReviewBotAssumption
<1>9. annotations' \subseteq [eg : Editgroup, at : 1 .. LastTick, by : 0 .. MaxBotDeaths]
  BY <1>2, <1>6 DEF BotInv, ReviewTypeOK
<1>10. CASE n = 1
  <2>1. b = [bot EXCEPT !.at = "list", !.todo = << >>, !.since = s.at + TicksPerSecond]
    BY <1>2, <1>10
  <2>2. << >> \in Seq(Submission) /\ Len(<< >>) = 0 /\ DOMAIN << >> = {}
    <3> HIDE DEF Submission
    <3> QED
      OBVIOUS
  <2>3. /\ b.at = "list" /\ b.start = bot.start /\ b.since = s.at + TicksPerSecond /\ b.todo = << >>
        /\ b \in [at : {"down", "list", "review"}, start : 0 .. now,
                  since : 0 .. now + TicksPerSecond, todo : Seq(Submission)]
    <3> HIDE DEF Submission
    <3> QED
      BY <1>7, <1>8, <2>1, <2>2
  <2>4. ReviewTypeOK'
    BY <1>1, <1>2, <1>9, <2>2, <2>3, ReviewBotAssumption
       DEF BotInv, ReviewTypeOK, EditgroupsTypeOK, Exists, Accepted
  <2>5. BotInv'
    BY <1>1, <1>2, <2>2, <2>3, <2>4 DEF BotInv
  <2> QED
    BY <1>1, <1>2, <1>3, <1>4, <1>10, <2>3, <2>5 DEF FirstOf
<1>11. CASE n # 1
  <2>1. b = [bot EXCEPT !.todo = Tail(todo), !.since = s.at]
    BY <1>2, <1>11
  <2>2. /\ b.at = "review" /\ b.start = bot.start /\ b.since = s.at /\ b.todo = Tail(todo)
        /\ b \in [at : {"down", "list", "review"}, start : 0 .. now,
                  since : 0 .. now + TicksPerSecond, todo : Seq(Submission)]
    <3> HIDE DEF Submission
    <3> QED
      BY <1>2, <1>5, <1>7, <1>8, <2>1
  <2>3. DOMAIN b.todo = 1 .. n - 1 /\ Len(b.todo) = n - 1
    <3>1. DOMAIN Tail(todo) = 1 .. Len(Tail(todo))
      BY <1>5, LenProperties
    <3> QED
      BY <1>5, <2>2, <3>1
  <2>4. b.todo # << >> /\ Len(b.todo) <= PageLimit
    <3>1. n - 1 # 0 /\ n - 1 <= PageLimit /\ Len(<< >>) = 0
      BY <1>3, <1>11, ReviewBotAssumption
    <3> QED
      BY <2>3, <3>1
  <2>5. ReviewTypeOK'
    BY <1>1, <1>2, <1>9, <2>2, <2>4 DEF BotInv, ReviewTypeOK, EditgroupsTypeOK, Exists, Accepted
  <2>6. \A p \in DOMAIN b.todo : b.todo[p].at <= now
    <3>1. \A p \in 1 .. n - 1 : p + 1 \in DOMAIN todo /\ b.todo[p] = todo[p + 1]
      BY <1>3, <1>5, <2>2
    <3> QED
      BY <2>3, <3>1 DEF BotInv
  <2>7. BotInv'
    BY <1>1, <1>2, <2>5, <2>6 DEF BotInv
  <2> QED
    BY <1>1, <1>2, <1>3, <1>4, <1>5, <1>11, <2>2, <2>3, <2>7 DEF FirstOf
<1> QED
  BY <1>10, <1>11

LEMMA DiesIs ==
    ASSUME BotInv, BotDies
    PROVE  /\ BotInv'
           /\ bot'.at = "down" /\ botDeaths' = botDeaths + 1
           /\ UNCHANGED <<now, editgroup, annotations>>
<1>1. PICK b : b = bot'
  OBVIOUS
<1>2. /\ b = BotDown /\ botDeaths < MaxBotDeaths /\ botDeaths' = botDeaths + 1
      /\ UNCHANGED <<now, editgroup, annotations>>
  BY <1>1 DEF BotDies
<1>3. << >> \in Seq(Submission) /\ Len(<< >>) = 0 /\ DOMAIN << >> = {}
  <2> HIDE DEF Submission
  <2> QED
    OBVIOUS
<1>4. now \in Nat /\ 0 \in 0 .. now /\ 0 \in 0 .. now + TicksPerSecond
  BY ReviewBotAssumption DEF BotInv, ReviewTypeOK, EditgroupsTypeOK
<1>5. b \in [at : {"down", "list", "review"}, start : 0 .. now,
             since : 0 .. now + TicksPerSecond, todo : Seq(Submission)]
  <2> HIDE DEF Submission
  <2> QED
    BY <1>2, <1>3, <1>4 DEF BotDown
<1>6. b.at = "down" /\ b.todo = << >>
  BY <1>2 DEF BotDown
<1>7. botDeaths' \in 0 .. MaxBotDeaths
  BY <1>2, ReviewBotAssumption DEF BotInv, ReviewTypeOK
<1>8. ReviewTypeOK'
  BY <1>1, <1>2, <1>3, <1>5, <1>6, <1>7, ReviewBotAssumption
     DEF BotInv, ReviewTypeOK, EditgroupsTypeOK, Exists, Accepted
<1>9. BotInv'
  BY <1>1, <1>2, <1>3, <1>6, <1>8 DEF BotInv
<1> QED
  BY <1>1, <1>2, <1>6, <1>9

\* What the others do, on the pages and to the editgroups, in those terms.
OthersAct ==
    \/ EditgroupStep \/ Tick \/ UNCHANGED <<now, editgroup>>
    \/ \E u \in User, g \in Editgroup :
          FreshEditgroup(g) /\ editgroup' = Created(u, g) /\ UNCHANGED now

LEMMA PagesMove ==
    ASSUME NEW u \in User, WebStep(u)
    PROVE  OthersAct
BY DEF WebStep, OpenEntity, WriteEdit, PostEntity, AcceptEdits, RemoveEdit, OpenEdit, OpenCreate,
   ClosePage, PostEdit, ClearEdit, RequestFails, OthersAct, EditgroupStep

LEMMA OthersMoveSo ==
    ASSUME EditgroupsTypeOK, OthersAct, UNCHANGED <<bot, annotations, botDeaths>>
    PROVE  EditgroupsTypeOK' /\ OthersMove
<1>1. EditgroupsTypeOK' /\ LaterEditgroups
  BY EditgroupsTypeStep DEF OthersAct
<1>2. now' \in Nat /\ now <= now'
  <2>1. now \in Nat
    BY DEF EditgroupsTypeOK
  <2>2. now' = now \/ now' = now + 1
    BY DEF OthersAct, EditgroupStep, SubmitEditgroup, UnsubmitEditgroup, MarkAccepted, Tick
  <2> QED
    BY <2>1, <2>2
<1>3. ASSUME NEW h \in Editgroup
      PROVE  editgroup'[h].submitted \in {editgroup[h].submitted, 0, now}
  <2>0. editgroup \in [Editgroup -> [owner : User \cup {NoUser}, submitted : 0 .. LastTick,
                                     accepted : BOOLEAN]]
    BY DEF EditgroupsTypeOK
  <2>1. CASE UNCHANGED <<now, editgroup>> \/ Tick
    BY <2>1 DEF Tick
  <2>2. ASSUME NEW u \in User, NEW g \in Editgroup, SubmitEditgroup(u, g)
        PROVE  editgroup'[h].submitted \in {editgroup[h].submitted, 0, now}
    BY <2>0, <2>2 DEF SubmitEditgroup
  <2>3. ASSUME NEW u \in User, NEW g \in Editgroup, UnsubmitEditgroup(u, g)
        PROVE  editgroup'[h].submitted \in {editgroup[h].submitted, 0, now}
    BY <2>0, <2>3 DEF UnsubmitEditgroup
  <2>4. ASSUME NEW u \in User, NEW g \in Editgroup, MarkAccepted(u, g)
        PROVE  editgroup'[h].submitted \in {editgroup[h].submitted, 0, now}
    BY <2>0, <2>4 DEF MarkAccepted
  <2>5. ASSUME NEW u \in User, NEW g \in Editgroup, FreshEditgroup(g), editgroup' = Created(u, g)
        PROVE  editgroup'[h].submitted \in {editgroup[h].submitted, 0, now}
    <3>1. editgroup'[h] = editgroup[h] \/ editgroup'[h] = [NotCreated EXCEPT !.owner = u]
      BY <2>0, <2>5 DEF Created
    <3> QED
      BY <3>1 DEF NotCreated
  <2> QED
    BY <2>1, <2>2, <2>3, <2>4, <2>5 DEF OthersAct, EditgroupStep
<1> QED
  BY <1>1, <1>2, <1>3 DEF OthersMove, LaterEditgroups

-----------------------------------------------------------------------------
(* Type correctness. *)

CurationInv == WebInv /\ BotInv

LEMMA CurationStart == CurationInit => CurationInv
<1> SUFFICES ASSUME CurationInit PROVE BotInv
  BY WebInitOK DEF CurationInv
<1>1. EditgroupsTypeOK
  BY WebInitOK DEF WebInv
<1>2. bot = BotDown /\ annotations = {} /\ botDeaths = 0 /\ now = 1
  BY DEF CurationInit, BotInit
<1>3. << >> \in Seq(Submission) /\ Len(<< >>) = 0 /\ DOMAIN << >> = {}
  <2> HIDE DEF Submission
  <2> QED
    OBVIOUS
<1>4. 0 \in 0 .. now /\ 0 \in 0 .. now + TicksPerSecond
  BY <1>2, ReviewBotAssumption
<1>5. bot \in [at : {"down", "list", "review"}, start : 0 .. now,
               since : 0 .. now + TicksPerSecond, todo : Seq(Submission)]
  <2> HIDE DEF Submission
  <2> QED
    BY <1>2, <1>3, <1>4 DEF BotDown
<1>6. bot.at = "down" /\ bot.todo = << >>
  BY <1>2 DEF BotDown
<1>7. ReviewTypeOK
  BY <1>1, <1>2, <1>3, <1>5, <1>6, ReviewBotAssumption DEF ReviewTypeOK
<1>8. \A g \in Editgroup : editgroup[g].submitted <= now
  <2>1. PICK owner : editgroup = [g \in Editgroup |-> [NotCreated EXCEPT !.owner = owner]]
    BY DEF CurationInit
  <2>2. \A g \in Editgroup : editgroup[g].submitted = 0
    BY <2>1 DEF NotCreated
  <2> QED
    BY <1>2, <2>2
<1> QED
  BY <1>3, <1>6, <1>7, <1>8 DEF BotInv

LEMMA CurationStep ==
    ASSUME CurationInv, [EditingScene \/ ReviewScene]_curationVars
    PROVE  CurationInv'
<1>1. ASSUME NEW u \in User, WebStep(u), UNCHANGED <<bot, annotations, botDeaths>>
      PROVE  CurationInv'
  <2>1. WebInv'
    BY <1>1, WebStepKeeps DEF CurationInv
  <2>2. EditgroupsTypeOK' /\ OthersMove
    BY <1>1, PagesMove, OthersMoveSo DEF CurationInv, WebInv
  <2> QED
    BY <2>1, <2>2, OthersKeepBot DEF CurationInv
<1>2. ASSUME BotNext, UNCHANGED <<entity, edit, tab, history>>
      PROVE  CurationInv'
  <2>1. BotInv' /\ UNCHANGED <<now, editgroup>>
    BY <1>2, StartIs, ListIs, AnnotateIs, DiesIs DEF BotNext, BotStep, CurationInv, FirstOf
  <2>2. EditgroupsTypeOK' /\ LaterEditgroups
    BY <2>1, EditgroupsTypeStep DEF CurationInv, WebInv
  <2> QED
    BY <1>2, <2>1, <2>2, OthersKeepWeb DEF CurationInv
<1>3. ASSUME EditgroupStep \/ Tick \/ UNCHANGED <<now, editgroup>>,
             UNCHANGED <<bot, annotations, botDeaths, entity, edit, tab, history>>
      PROVE  CurationInv'
  <2>1. OthersAct
    BY <1>3 DEF OthersAct
  <2>2. EditgroupsTypeOK' /\ OthersMove
    BY <1>3, <2>1, OthersMoveSo DEF CurationInv, WebInv
  <2>3. LaterEditgroups
    BY <1>3, EditgroupsTypeStep DEF CurationInv, WebInv
  <2> QED
    BY <1>3, <2>2, <2>3, OthersKeepBot, OthersKeepWeb DEF CurationInv
<1> QED
  BY <1>1, <1>2, <1>3, StepIs

LEMMA AlwaysCurationInv == CurationSpec => []CurationInv
BY CurationStart, CurationStep, PTL DEF CurationSpec

\* The pages, the edits, the history and the bot are what their records say:
\* no page is being posted without an editgroup, no edit is of an entity or an
\* editgroup that is not there, and the bot holds a page exactly while it
\* works one off (fatcat_web/editing_routes.py and reviewers/review_common.py).
THEOREM CurationTypeCorrect == CurationSpec => []CurationTypeOK
<1>1. CurationInv => CurationTypeOK
  BY WebTypes DEF CurationInv, BotInv, CurationTypeOK
<1> QED
  BY <1>1, AlwaysCurationInv, PTL

-----------------------------------------------------------------------------
(* What the bot owes. *)

\* Where the second of t begins.
SecondStart(t) == TicksPerSecond * Second(t)

LEMMA SecondIs ==
    ASSUME NEW t \in Nat
    PROVE  /\ Second(t) \in Nat /\ SecondStart(t) \in Nat
           /\ SecondStart(t) <= t /\ t < SecondStart(t) + TicksPerSecond
           /\ t % TicksPerSecond = t - SecondStart(t)
           /\ SecondStart(t + TicksPerSecond) = SecondStart(t) + TicksPerSecond
<1> DEFINE d == TicksPerSecond
<1>1. d \in Nat \ {0}
  BY ReviewBotAssumption
<1>2. t \div d \in Nat /\ d * (t \div d) \in Nat
  BY <1>1
<1>3. d * (t \div d) <= t
  BY <1>1
<1>4. t < d * (t \div d) + d
  BY <1>1
<1>5. t % d = t - d * (t \div d)
  BY <1>1
<1>6. (t + d) \div d = t \div d + 1
  BY <1>1
<1>7. d * (t \div d + 1) = d * (t \div d) + d
  BY <1>1, <1>2
<1> QED
  BY <1>2, <1>3, <1>4, <1>5, <1>6, <1>7 DEF Second, SecondStart

LEMMA SecondOrder ==
    ASSUME NEW s \in Nat, NEW t \in Nat, s <= t
    PROVE  /\ SecondStart(s) <= SecondStart(t)
           /\ Second(s) # Second(t) => SecondStart(s) + TicksPerSecond <= SecondStart(t)
<1> DEFINE d == TicksPerSecond
<1>1. d \in Nat \ {0} /\ s \div d \in Nat /\ t \div d \in Nat
  BY ReviewBotAssumption
<1>2. s \div d <= t \div d
  BY <1>1
<1>3. PICK a \in Nat, b \in Nat : a = s \div d /\ b = t \div d /\ a <= b
  BY <1>1, <1>2
<1>4. d * a <= d * b
  BY <1>1, <1>3
<1>5. a < b => d * a + d <= d * b
  BY <1>1, <1>3
<1>6. a # b => a < b
  BY <1>3
<1> QED
  BY <1>3, <1>4, <1>5, <1>6 DEF Second, SecondStart

\* Past the second of s, and not on a whole one.
LEMMA PastSecond ==
    ASSUME NEW s \in Nat, NEW t \in Nat, s <= t, Second(s) # Second(t), t % TicksPerSecond # 0
    PROVE  t > SecondStart(s + TicksPerSecond)
<1>1. SecondStart(s) + TicksPerSecond <= SecondStart(t)
  BY SecondOrder
<1>2. SecondStart(t) < t
  BY SecondIs
<1>3. SecondStart(s + TicksPerSecond) = SecondStart(s) + TicksPerSecond
  BY SecondIs
<1> QED
  BY <1>1, <1>2, <1>3, SecondIs, ReviewBotAssumption

\* A submission of the time the process is running that waits for it.
Owed(g) ==
    LET t == editgroup[g].submitted
    IN  /\ ~Accepted(g) /\ t # 0 /\ bot.start <= t
        /\ ~Annotated(g, t) /\ ~CrowdedOut(t)

Own(a) == a.by = botDeaths

\* A process annotates nothing once it has ended.
Processes ==
    /\ bot.at # "down" => bot.start >= 1
    /\ \A a \in annotations : a.by <= botDeaths /\ (Own(a) => bot.at # "down")

\* Between two pages: since is the start of the process, or a second past an
\* annotation.  What the process annotated is not after it, and what it owes is.
Listing ==
    /\ \/ bot.since = bot.start
       \/ \E s \in Nat : /\ s <= now /\ bot.since = s + TicksPerSecond
                         /\ AnnotatedInSecond(s)
    /\ \A a \in annotations : Own(a) => a.at <= SecondStart(bot.since)
    /\ \A g \in Editgroup : Owed(g) => editgroup[g].submitted > SecondStart(bot.since)

\* Within a page: what the process annotated is in none of the places left, and
\* what it owes is in one of them or no earlier than the last.
Working ==
    LET last == bot.todo[Len(bot.todo)].at
    IN  /\ \A p, q \in DOMAIN bot.todo :
              p < q => bot.todo[p].at <= bot.todo[q].at /\ bot.todo[p] # bot.todo[q]
        /\ \A a \in annotations : Own(a) =>
              /\ a.at <= last
              /\ \A p \in DOMAIN bot.todo : bot.todo[p] # [eg |-> a.eg, at |-> a.at]
        /\ \A g \in Editgroup : Owed(g) =>
              \/ editgroup[g].submitted >= last
              \/ \E p \in DOMAIN bot.todo :
                    bot.todo[p] = [eg |-> g, at |-> editgroup[g].submitted]

ReviewInv ==
    /\ BotInv /\ Processes
    /\ bot.at = "list" => Listing
    /\ bot.at = "review" => Working

\* A listing goes on past what is owed: a submission of now is after since, or
\* crowded out.
LEMMA NowIsLater ==
    ASSUME BotInv, Listing, bot.start <= now, ~CrowdedOut(now)
    PROVE  now > SecondStart(bot.since)
<1>1. now \in Nat /\ bot.start \in Nat /\ now % TicksPerSecond # 0
  BY DEF BotInv, ReviewTypeOK, EditgroupsTypeOK, CrowdedOut
<1>2. SecondStart(now) < now
  BY <1>1, SecondIs
<1>3. CASE bot.since = bot.start
  <2>1. SecondStart(bot.since) <= SecondStart(now)
    BY <1>1, <1>3, SecondOrder
  <2> QED
    BY <1>1, <1>2, <1>3, <2>1, SecondIs
<1>4. ASSUME NEW s \in Nat, s <= now, bot.since = s + TicksPerSecond, AnnotatedInSecond(s)
      PROVE  now > SecondStart(bot.since)
  <2>1. Second(s) # Second(now)
    BY <1>4 DEF CrowdedOut, AnnotatedInSecond
  <2> QED
    BY <1>1, <1>4, <2>1, PastSecond
<1> QED
  BY <1>3, <1>4 DEF Listing

LEMMA ReviewInit ==
    ASSUME BotInv, BotInit
    PROVE  ReviewInv
BY DEF BotInit, BotDown, ReviewInv, Processes

LEMMA OthersKeepReview ==
    ASSUME ReviewInv, BotInv', OthersMove
    PROVE  ReviewInv'
<1>1. /\ now \in Nat /\ now' \in Nat /\ now <= now'
      /\ UNCHANGED <<bot, annotations, botDeaths>>
      /\ \A g \in Editgroup : /\ editgroup'[g].submitted \in {editgroup[g].submitted, 0, now}
                              /\ Accepted(g) => Accepted(g)'
  BY DEF ReviewInv, BotInv, ReviewTypeOK, EditgroupsTypeOK, OthersMove
<1>2. ASSUME NEW g \in Editgroup, Owed(g)'
      PROVE  \/ Owed(g) /\ editgroup'[g].submitted = editgroup[g].submitted
             \/ editgroup'[g].submitted = now /\ bot.start <= now /\ ~CrowdedOut(now)
  BY <1>1, <1>2 DEF Owed, Annotated, CrowdedOut, AnnotatedInSecond
<1>3. Processes'
  BY <1>1 DEF ReviewInv, Processes, Own
<1>4. ASSUME bot.at = "list" PROVE Listing'
  <2>1. Listing
    BY <1>4 DEF ReviewInv
  <2>2. \/ bot.since = bot.start
        \/ \E s \in Nat : s <= now' /\ bot.since = s + TicksPerSecond /\ AnnotatedInSecond(s)
    BY <1>1, <2>1 DEF Listing
  <2>3. ASSUME NEW g \in Editgroup, Owed(g)'
        PROVE  editgroup'[g].submitted > SecondStart(bot.since)
    BY <1>2, <2>1, <2>3, NowIsLater DEF ReviewInv, Listing
  <2> QED
    BY <1>1, <2>1, <2>2, <2>3 DEF Listing, AnnotatedInSecond, Own, SecondStart
<1>5. ASSUME bot.at = "review" PROVE Working'
  <2>1. Working
    BY <1>5 DEF ReviewInv
  <2>2. PICK last : last = bot.todo[Len(bot.todo)].at
    OBVIOUS
  <2>3. last \in Nat /\ last <= now
    <3>1. Len(bot.todo) \in DOMAIN bot.todo
      BY <1>5, TodoIs DEF ReviewInv, BotInv
    <3> QED
      BY <2>2, <3>1, TodoIs DEF ReviewInv, BotInv, Submission
  <2>4. ASSUME NEW g \in Editgroup, Owed(g)'
        PROVE  \/ editgroup'[g].submitted >= last
               \/ \E p \in DOMAIN bot.todo :
                     bot.todo[p] = [eg |-> g, at |-> editgroup'[g].submitted]
    BY <1>1, <1>2, <2>1, <2>2, <2>3, <2>4 DEF Working
  <2> QED
    BY <1>1, <2>1, <2>2, <2>4 DEF Working, Own
<1> QED
  BY <1>1, <1>3, <1>4, <1>5 DEF ReviewInv

LEMMA StartKeepsReview ==
    ASSUME ReviewInv, StartBot
    PROVE  ReviewInv'
<1>1. /\ BotInv' /\ bot.at = "down" /\ bot'.at = "list" /\ bot'.start = now /\ bot'.since = now
      /\ UNCHANGED <<now, editgroup, annotations, botDeaths>>
  BY StartIs DEF ReviewInv
<1>2. now \in Nat /\ now >= 1
  BY DEF ReviewInv, BotInv, ReviewTypeOK, EditgroupsTypeOK
<1>3. \A a \in annotations : ~Own(a)
  BY <1>1 DEF ReviewInv, Processes
<1>4. ASSUME NEW g \in Editgroup, Owed(g)'
      PROVE  editgroup[g].submitted > SecondStart(now)
  <2>1. PICK t : t = editgroup[g].submitted
    OBVIOUS
  <2>2. t \in Nat
    BY <2>1 DEF ReviewInv, BotInv, ReviewTypeOK, EditgroupsTypeOK
  <2>3. now <= t /\ t % TicksPerSecond # 0
    BY <1>1, <1>4, <2>1 DEF Owed, CrowdedOut
  <2>4. SecondStart(now) <= SecondStart(t) /\ SecondStart(t) < t
    BY <1>2, <2>2, <2>3, SecondIs, SecondOrder
  <2> QED
    BY <1>2, <2>1, <2>2, <2>4, SecondIs
<1>5. Listing'
  BY <1>1, <1>3, <1>4 DEF Listing, Own, SecondStart
<1>6. Processes'
  BY <1>1, <1>2, <1>3 DEF ReviewInv, Processes, Own
<1> QED
  BY <1>1, <1>5, <1>6 DEF ReviewInv

LEMMA ListKeepsReview ==
    ASSUME ReviewInv, ListReviewable
    PROVE  ReviewInv'
<1>1. PICK S : S = Reviewable(bot.since)
  OBVIOUS
<1>2. /\ BotInv' /\ bot.at = "list" /\ bot'.at = "review"
      /\ bot'.start = bot.start /\ bot'.since = bot.since
      /\ S \in SUBSET Editgroup /\ S # {} /\ bot'.todo \in Pages(S)
      /\ UNCHANGED <<now, editgroup, annotations, botDeaths>>
  BY <1>1, ListIs DEF ReviewInv
<1>3. Listing
  BY <1>2 DEF ReviewInv
<1>4. PICK page : page = bot'.todo
  OBVIOUS
<1>5. /\ Len(page) \in 1 .. PageLimit /\ DOMAIN page = 1 .. Len(page)
      /\ \A p \in DOMAIN page :
            \E g \in S : page[p] = [eg |-> g, at |-> editgroup[g].submitted]
      /\ \A p, q \in DOMAIN page : p < q => page[p].at <= page[q].at /\ page[p] # page[q]
      /\ \A g \in S : \/ \E p \in DOMAIN page :
                            page[p] = [eg |-> g, at |-> editgroup[g].submitted]
                      \/ editgroup[g].submitted >= page[Len(page)].at
  <2>1. page \in Pages(S)
    BY <1>2, <1>4
  <2> QED
    BY <1>2, <2>1, PageOf DEF ReviewInv, BotInv, ReviewTypeOK
<1>6. PICK from \in Nat : from = SecondStart(bot.since)
  <2>1. bot.since \in Nat
    BY ReviewBotAssumption DEF ReviewInv, BotInv, ReviewTypeOK, EditgroupsTypeOK
  <2> QED
    BY <2>1, SecondIs
<1>7. \A g \in Editgroup : g \in S <=> ~Accepted(g) /\ editgroup[g].submitted > from
  BY <1>1, <1>6 DEF Reviewable, SecondStart
<1>8. \A p \in DOMAIN page : page[p].at \in Nat /\ page[p].at > from
  <2>1. ASSUME NEW p \in DOMAIN page PROVE page[p].at \in Nat /\ page[p].at > from
    <3>1. PICK g \in S : page[p] = [eg |-> g, at |-> editgroup[g].submitted]
      BY <1>5
    <3>2. editgroup[g].submitted > from /\ editgroup[g].submitted \in Nat
      BY <1>2, <1>7 DEF ReviewInv, BotInv, ReviewTypeOK, EditgroupsTypeOK
    <3> QED
      BY <3>1, <3>2
  <2> QED
    BY <2>1
<1>9. PICK last \in Nat : last = page[Len(page)].at /\ last > from
  BY <1>5, <1>8
<1>10. ASSUME NEW a \in annotations, Own(a)
       PROVE  /\ a.at <= last
              /\ \A p \in DOMAIN page : page[p] # [eg |-> a.eg, at |-> a.at]
  <2>1. a.at <= from /\ a.at \in Nat
    BY <1>3, <1>6, <1>10 DEF Listing, ReviewInv, BotInv, ReviewTypeOK
  <2>2. \A p \in DOMAIN page : page[p].at # a.at
    BY <1>8, <2>1
  <2> QED
    BY <1>9, <2>1, <2>2
<1>11. ASSUME NEW g \in Editgroup, Owed(g)'
       PROVE  \/ editgroup[g].submitted >= last
              \/ \E p \in DOMAIN page : page[p] = [eg |-> g, at |-> editgroup[g].submitted]
  <2>1. Owed(g)
    BY <1>2, <1>11 DEF Owed, Annotated, CrowdedOut, AnnotatedInSecond, Accepted
  <2>2. g \in S
    BY <1>3, <1>6, <1>7, <2>1 DEF Listing, Owed
  <2> QED
    BY <1>5, <1>9, <2>2
<1>12. Working'
  BY <1>2, <1>4, <1>5, <1>9, <1>10, <1>11 DEF Working, Own
<1>13. Processes'
  BY <1>2 DEF ReviewInv, Processes, Own
<1> QED
  BY <1>2, <1>12, <1>13 DEF ReviewInv

\* The head of the page has not been annotated by this process.
LEMMA HeadIsNew ==
    ASSUME ReviewInv, bot.at = "review"
    PROVE  [eg |-> Head(bot.todo).eg, at |-> Head(bot.todo).at, by |-> botDeaths] \notin annotations
<1>1. PICK s : s = Head(bot.todo)
  OBVIOUS
<1>2. /\ bot.todo \in Seq(Submission) /\ Len(bot.todo) \in Nat \ {0}
      /\ DOMAIN bot.todo = 1 .. Len(bot.todo)
  BY TodoIs DEF ReviewInv, BotInv
<1>3. s = bot.todo[1] /\ 1 \in DOMAIN bot.todo
  BY <1>1, <1>2
<1>4. bot.todo[1] \in Submission
  BY <1>3, TodoIs DEF ReviewInv, BotInv
<1>5. s = [eg |-> s.eg, at |-> s.at]
  BY <1>3, <1>4 DEF Submission
<1>6. ASSUME [eg |-> s.eg, at |-> s.at, by |-> botDeaths] \in annotations PROVE FALSE
  <2>1. PICK a \in annotations : a = [eg |-> s.eg, at |-> s.at, by |-> botDeaths]
    BY <1>6
  <2>2. Own(a) /\ a.eg = s.eg /\ a.at = s.at
    BY <2>1 DEF Own
  <2>3. bot.todo[1] # [eg |-> a.eg, at |-> a.at]
    BY <1>3, <2>2 DEF ReviewInv, Working
  <2> QED
    BY <1>3, <1>5, <2>2, <2>3
<1> QED
  BY <1>1, <1>6

LEMMA AnnotateKeepsReview ==
    ASSUME ReviewInv, Annotate
    PROVE  ReviewInv'
<1>1. PICK s, todo, n : s = Head(bot.todo) /\ todo = bot.todo /\ n = Len(bot.todo)
  OBVIOUS
<1>2. PICK new : new = [eg |-> s.eg, at |-> s.at, by |-> botDeaths]
  OBVIOUS
<1>3. /\ BotInv' /\ bot.at = "review" /\ n \in Nat \ {0} /\ s = todo[1] /\ s \in Submission
      /\ annotations' = annotations \cup {new}
      /\ UNCHANGED <<now, editgroup, botDeaths>> /\ bot'.start = bot.start
      /\ n = 1 => bot'.at = "list" /\ bot'.since = s.at + TicksPerSecond
      /\ n # 1 => /\ bot'.at = "review" /\ DOMAIN bot'.todo = 1 .. n - 1 /\ Len(bot'.todo) = n - 1
                  /\ \A p \in 1 .. n - 1 : bot'.todo[p] = todo[p + 1]
  <2>1. BotInv' /\ FirstOf(s, todo, n)
    BY <1>1, AnnotateIs DEF ReviewInv
  <2> QED
    BY <1>2, <2>1 DEF FirstOf
<1>4. DOMAIN todo = 1 .. n /\ \A p \in 1 .. n : todo[p] \in Submission
  BY <1>1, TodoIs DEF ReviewInv, BotInv
<1>5. PICK last : last = todo[n].at
  OBVIOUS
<1>6. /\ \A p, q \in 1 .. n : p < q => todo[p].at <= todo[q].at /\ todo[p] # todo[q]
      /\ \A a \in annotations : Own(a) =>
            a.at <= last /\ \A p \in 1 .. n : todo[p] # [eg |-> a.eg, at |-> a.at]
      /\ \A g \in Editgroup : Owed(g) =>
            \/ editgroup[g].submitted >= last
            \/ \E p \in 1 .. n : todo[p] = [eg |-> g, at |-> editgroup[g].submitted]
  <2>1. Working
    BY <1>3 DEF ReviewInv
  <2>2. bot.todo = todo /\ DOMAIN bot.todo = 1 .. n /\ bot.todo[Len(bot.todo)].at = last
    BY <1>1, <1>4, <1>5
  <2>3. \A p, q \in 1 .. n : p < q => todo[p].at <= todo[q].at /\ todo[p] # todo[q]
    BY <2>1, <2>2 DEF Working
  <2>4. \A a \in annotations : Own(a) =>
           a.at <= last /\ \A p \in 1 .. n : todo[p] # [eg |-> a.eg, at |-> a.at]
    BY <2>1, <2>2 DEF Working
  <2>5. \A g \in Editgroup : Owed(g) =>
           \/ editgroup[g].submitted >= last
           \/ \E p \in 1 .. n : todo[p] = [eg |-> g, at |-> editgroup[g].submitted]
    BY <2>1, <2>2 DEF Working
  <2> QED
    BY <2>3, <2>4, <2>5
<1>7. /\ new.eg = s.eg /\ new.at = s.at /\ new.by = botDeaths /\ Own(new)
      /\ s.at \in Nat /\ s.at <= now /\ s = [eg |-> s.eg, at |-> s.at]
      /\ last \in Nat /\ s.at <= last
  <2>1. new.eg = s.eg /\ new.at = s.at /\ new.by = botDeaths
    BY <1>2
  <2>2. s.at \in Nat /\ s = [eg |-> s.eg, at |-> s.at] /\ last \in Nat
    BY <1>3, <1>4, <1>5 DEF Submission
  <2>3. s.at <= now
    BY <1>1, <1>3, <1>4 DEF ReviewInv, BotInv
  <2>4. s.at <= last
    BY <1>3, <1>5, <1>6, <2>2
  <2> QED
    BY <2>1, <2>2, <2>3, <2>4 DEF Own
<1>8. AnnotatedInSecond(s.at)'
  BY <1>3, <1>7 DEF AnnotatedInSecond
<1>9. ASSUME NEW g \in Editgroup, Owed(g)'
      PROVE  /\ Owed(g)
             /\ Second(s.at) # Second(editgroup[g].submitted)
             /\ editgroup[g].submitted % TicksPerSecond # 0
             /\ s # [eg |-> g, at |-> editgroup[g].submitted]
  <2>1. PICK t : t = editgroup[g].submitted
    OBVIOUS
  <2>2. /\ ~Accepted(g) /\ t # 0 /\ bot.start <= t /\ t % TicksPerSecond # 0
        /\ ~Annotated(g, t)' /\ ~AnnotatedInSecond(t)'
    BY <1>3, <1>9, <2>1 DEF Owed, CrowdedOut, Accepted
  <2>3. ~Annotated(g, t) /\ ~AnnotatedInSecond(t)
    BY <1>3, <2>2 DEF Annotated, AnnotatedInSecond
  <2>4. Second(s.at) # Second(t)
    BY <1>3, <1>7, <2>2 DEF AnnotatedInSecond
  <2>5. s.at # t
    BY <2>4
  <2>6. s # [eg |-> g, at |-> t]
    BY <2>5
  <2> QED
    BY <2>1, <2>2, <2>3, <2>4, <2>6 DEF Owed, CrowdedOut
<1>10. Processes'
  BY <1>3, <1>7 DEF ReviewInv, Processes, Own, BotInv, ReviewTypeOK
<1>11. CASE n = 1
  <2>1. bot'.at = "list" /\ bot'.since = s.at + TicksPerSecond /\ last = s.at
    BY <1>3, <1>5, <1>11
  <2>2. ASSUME NEW g \in Editgroup, Owed(g)'
        PROVE  editgroup[g].submitted > SecondStart(s.at + TicksPerSecond)
    <3>1. editgroup[g].submitted >= s.at
      <4>1. ASSUME NEW p \in 1 .. n, todo[p] = [eg |-> g, at |-> editgroup[g].submitted]
            PROVE  FALSE
        <5>1. p = 1
          BY <1>11
        <5> QED
          BY <1>3, <1>9, <2>2, <4>1, <5>1
      <4> QED
        BY <1>6, <1>9, <2>1, <2>2, <4>1
    <3>2. editgroup[g].submitted \in Nat
      BY DEF ReviewInv, BotInv, ReviewTypeOK, EditgroupsTypeOK
    <3> QED
      BY <1>7, <1>9, <2>2, <3>1, <3>2, PastSecond
  <2>3. PICK next \in Nat : next = SecondStart(s.at + TicksPerSecond) /\ s.at <= next
    BY <1>7, SecondIs, ReviewBotAssumption
  <2>4. ASSUME NEW a \in annotations', Own(a) PROVE a.at <= SecondStart(s.at + TicksPerSecond)
    <3>1. CASE a \in annotations
      <4>1. a.at <= s.at
        BY <1>6, <2>1, <2>4, <3>1
      <4>2. a.at \in Nat
        BY <3>1 DEF ReviewInv, BotInv, ReviewTypeOK
      <4> QED
        BY <1>7, <2>3, <4>1, <4>2
    <3>2. CASE a = new
      BY <1>7, <2>3, <3>2
    <3> QED
      BY <1>3, <3>1, <3>2
  <2>5. PICK since : since = bot'.since
    OBVIOUS
  <2>6. Listing'
    BY <1>3, <1>7, <1>8, <2>1, <2>2, <2>4, <2>5 DEF Listing, Own, SecondStart
  <2> QED
    BY <1>3, <1>10, <2>1, <2>6 DEF ReviewInv
<1>12. CASE n # 1
  <2>1. PICK rest : rest = bot'.todo
    OBVIOUS
  <2>2. /\ bot'.at = "review" /\ DOMAIN rest = 1 .. n - 1 /\ Len(rest) = n - 1
        /\ \A p \in 1 .. n - 1 : rest[p] = todo[p + 1]
    BY <1>3, <1>12, <2>1
  <2>3. \A p \in 1 .. n - 1 : p + 1 \in 1 .. n /\ 1 < p + 1
    BY <1>3
  <2>4. rest[Len(rest)].at = last
    <3>1. n - 1 \in 1 .. n - 1 /\ (n - 1) + 1 = n
      BY <1>3, <1>12
    <3> QED
      BY <1>5, <2>2, <3>1
  <2>5. \A p, q \in DOMAIN rest : p < q => rest[p].at <= rest[q].at /\ rest[p] # rest[q]
    <3>1. ASSUME NEW p \in 1 .. n - 1, NEW q \in 1 .. n - 1, p < q
          PROVE  rest[p].at <= rest[q].at /\ rest[p] # rest[q]
      <4>1. p + 1 < q + 1
        BY <3>1
      <4> QED
        BY <1>6, <2>2, <2>3, <4>1
    <3> QED
      BY <2>2, <3>1
  <2>6. ASSUME NEW a \in annotations', Own(a)
        PROVE  a.at <= last /\ \A p \in DOMAIN rest : rest[p] # [eg |-> a.eg, at |-> a.at]
    <3>1. CASE a \in annotations
      <4>1. a.at <= last /\ \A p \in 1 .. n : todo[p] # [eg |-> a.eg, at |-> a.at]
        BY <1>6, <2>6, <3>1
      <4> QED
        BY <2>2, <2>3, <4>1
    <3>2. CASE a = new
      <4>1. \A p \in 1 .. n - 1 : todo[p + 1] # s
        BY <1>3, <1>6, <2>3
      <4> QED
        BY <1>7, <2>2, <3>2, <4>1
    <3> QED
      BY <1>3, <3>1, <3>2
  <2>7. ASSUME NEW g \in Editgroup, Owed(g)'
        PROVE  \/ editgroup[g].submitted >= last
               \/ \E p \in DOMAIN rest : rest[p] = [eg |-> g, at |-> editgroup[g].submitted]
    <3>1. CASE editgroup[g].submitted >= last
      BY <3>1
    <3>2. ASSUME NEW p \in 1 .. n, todo[p] = [eg |-> g, at |-> editgroup[g].submitted]
          PROVE  \E q \in DOMAIN rest : rest[q] = [eg |-> g, at |-> editgroup[g].submitted]
      <4>1. p # 1
        BY <1>3, <1>9, <2>7, <3>2
      <4>2. p - 1 \in 1 .. n - 1 /\ (p - 1) + 1 = p
        BY <1>3, <4>1
      <4> QED
        BY <2>2, <3>2, <4>2
    <3> QED
      BY <1>6, <1>9, <2>7, <3>1, <3>2
  <2>8. Working'
    BY <1>3, <2>1, <2>4, <2>5, <2>6, <2>7 DEF Working, Own
  <2> QED
    BY <1>3, <1>10, <2>2, <2>8 DEF ReviewInv
<1> QED
  BY <1>11, <1>12

LEMMA DeathKeepsReview ==
    ASSUME ReviewInv, BotDies
    PROVE  ReviewInv'
<1>1. /\ BotInv' /\ bot'.at = "down" /\ botDeaths' = botDeaths + 1
      /\ UNCHANGED <<now, editgroup, annotations>>
  BY DiesIs DEF ReviewInv
<1>2. botDeaths \in Nat /\ \A a \in annotations : a.by \in Nat /\ a.by <= botDeaths
  BY ReviewBotAssumption DEF ReviewInv, Processes, BotInv, ReviewTypeOK
<1>3. \A a \in annotations : a.by <= botDeaths + 1 /\ a.by # botDeaths + 1
  BY <1>2
<1>4. Processes'
  BY <1>1, <1>3 DEF Processes, Own
<1> QED
  BY <1>1, <1>4 DEF ReviewInv

LEMMA ReviewStep ==
    ASSUME CurationInv, CurationInv', ReviewInv, [EditingScene \/ ReviewScene]_curationVars
    PROVE  ReviewInv'
<1>1. ASSUME OthersAct, UNCHANGED <<bot, annotations, botDeaths>> PROVE ReviewInv'
  BY <1>1, OthersMoveSo, OthersKeepReview DEF CurationInv, WebInv
<1>2. ASSUME NEW u \in User, WebStep(u), UNCHANGED <<bot, annotations, botDeaths>>
      PROVE  ReviewInv'
  BY <1>1, <1>2, PagesMove
<1>3. CASE BotNext
  BY <1>3, StartKeepsReview, ListKeepsReview, AnnotateKeepsReview, DeathKeepsReview
     DEF BotNext, BotStep
<1> QED
  BY <1>1, <1>2, <1>3, StepIs DEF OthersAct

LEMMA AlwaysReviewInv == CurationSpec => []ReviewInv
<1>1. CurationInit => ReviewInv
  BY CurationStart, ReviewInit DEF CurationInit, CurationInv
<1> QED
  BY <1>1, ReviewStep, AlwaysCurationInv, PTL DEF CurationSpec

\* However many editgroups are submitted, taken back and submitted again while
\* the bot works off a page, and whatever the size of a page, the time it goes
\* on from never passes a submission that it has not annotated, but for those
\* of a second that it has an annotation of, or on a whole second
\* (ReviewBot.run() in fatcat_tools/reviewers/review_common.py).
THEOREM NoneEverPassedOver == CurationSpec => []NonePassedOver
<1>1. ReviewInv => NonePassedOver
  <2> SUFFICES ASSUME ReviewInv, NEW g \in Editgroup, NEW t, t = editgroup[g].submitted,
                      bot.at = "list", ~Accepted(g), bot.start <= t,
                      t <= TicksPerSecond * Second(bot.since),
                      ~Annotated(g, t), ~CrowdedOut(t)
               PROVE  FALSE
    BY DEF NonePassedOver
  <2>1. t \in Nat /\ bot.start \in Nat /\ bot.start >= 1 /\ bot.since \in Nat
    BY ReviewBotAssumption
       DEF ReviewInv, Processes, BotInv, ReviewTypeOK, EditgroupsTypeOK
  <2>2. Owed(g)
    BY <2>1 DEF Owed
  <2>3. t > SecondStart(bot.since)
    BY <2>2 DEF ReviewInv, Listing
  <2> QED
    BY <2>1, <2>3, SecondIs DEF SecondStart
<1> QED
  BY <1>1, AlwaysReviewInv, PTL

\* A bot process never annotates a submission twice, though it never asks what
\* is annotated already: each page begins a second past the last of the one
\* before (ReviewBot.run(), and its TODO about annotations that are there).
THEOREM AlwaysAnnotatedOnce == CurationSpec => AnnotatedOnce
<1> DEFINE Once == bot.at = "review" /\ bot' # bot /\ bot'.at # "down" =>
                      [eg |-> Head(bot.todo).eg, at |-> Head(bot.todo).at, by |-> botDeaths]
                         \notin annotations
<1>1. ReviewInv => [Once]_reviewVars
  BY HeadIsNew
<1> QED
  BY <1>1, AlwaysReviewInv, PTL DEF AnnotatedOnce

-----------------------------------------------------------------------------
(* What a save leaves in the edit of an editgroup. *)

\* A page holds the mark m of a save, or was filled before it.
Holds(t, m) ==
    IF t.kind = "form" /\ m.hidden THEN t.fetched < m.n \/ m \in t.current
    ELSE t.opened < m.n \/ m \in t.base

\* Two editors are between their calls for the same edit, or one is and the edit
\* is there again: one of them must fail.
Crowded(g, i) ==
    \/ \E u, v \in User : u # v /\ BetweenCalls(u, g, i) /\ BetweenCalls(v, g, i)
    \/ edit[g][i] # NoEdit /\ \E u \in User : BetweenCalls(u, g, i)

\* The mark is in the edit, or in the page that will make it again; and in every
\* page that may replace it.
Held(g, i, m) ==
    /\ m \in edit[g][i].rev \/ \E u \in User : BetweenCalls(u, g, i)
    /\ \A u \in User : tab[u].url = g /\ tab[u].ident = i => Holds(tab[u], m)

\* The step is one of those that may lose it.
Before(e, m) ==
    /\ e.op = "save"
    /\ IF e.kind = "form" /\ m.hidden THEN e.fetched < m.n ELSE e.opened < m.n
Undone(g, i, m) ==
    \E e \in HistoryEvent : /\ history' = Append(history, e) /\ e.eg = g /\ e.ident = i
                            /\ e.op \in {"wipe", "remove"} \/ Before(e, m)

LEMMA PairFrame ==
    ASSUME NEW g, NEW i, NEW m, Crowded(g, i) \/ Held(g, i, m), edit'[g][i] = edit[g][i],
           \A v \in User : /\ BetweenCalls(v, g, i)' <=> BetweenCalls(v, g, i)
                           /\ tab'[v].url = g /\ tab'[v].ident = i /\ ~Crowded(g, i)
                                 => Holds(tab'[v], m)
    PROVE  Crowded(g, i)' \/ Held(g, i, m)'
<1>1. CASE Crowded(g, i)
  <2>1. Crowded(g, i)'
    BY <1>1 DEF Crowded
  <2> QED
    BY <2>1
<1>2. CASE ~Crowded(g, i)
  <2>1. Held(g, i, m)'
    BY <1>2 DEF Held
  <2> QED
    BY <2>1
<1> QED
  BY <1>1, <1>2

\* One page changes.
LEMMA OneTab ==
    ASSUME WebInv, NEW u \in User, NEW t, tab' = [tab EXCEPT ![u] = t]
    PROVE  tab'[u] = t /\ \A v \in User : v # u => tab'[v] = tab[v]
<1>1. tab \in [User -> Tab]
  BY DEF WebInv, TabsOK
<1> HIDE DEF Tab
<1> QED
  BY <1>1

LEMMA OnePage ==
    ASSUME WebInv, NEW u \in User, NEW t, tab' = [tab EXCEPT ![u] = t], UNCHANGED edit,
           NEW g, NEW i, NEW m, Crowded(g, i) \/ Held(g, i, m),
           ~BetweenCalls(u, g, i), t.at # "cleared",
           t.url = g /\ t.ident = i /\ ~Crowded(g, i) => Holds(t, m)
    PROVE  Crowded(g, i)' \/ Held(g, i, m)'
<1>1. PICK new : new = tab'
  OBVIOUS
<1>2. new[u] = t /\ \A v \in User : v # u => new[v] = tab[v]
  <2>1. tab' = [tab EXCEPT ![u] = t]
    BY <1>1
  <2>2. tab'[u] = t /\ \A v \in User : v # u => tab'[v] = tab[v]
    BY <2>1, OneTab
  <2>3. new = tab'
    BY <1>1
  <2> QED
    BY <2>2, <2>3
<1>3. ASSUME NEW v \in User
      PROVE  /\ BetweenCalls(v, g, i)' <=> BetweenCalls(v, g, i)
             /\ new[v].url = g /\ new[v].ident = i /\ ~Crowded(g, i) => Holds(new[v], m)
  <2>1. CASE v = u
    BY <1>1, <1>2, <2>1 DEF BetweenCalls
  <2>2. CASE v # u
    BY <1>1, <1>2, <2>2 DEF BetweenCalls, Held
  <2> QED
    BY <2>1, <2>2
<1> QED
  BY <1>1, <1>3, PairFrame

\* An edit that is there while the pair is not crowded holds the mark.
LEMMA EditHolds ==
    ASSUME NEW g, NEW i, NEW m, Held(g, i, m), ~Crowded(g, i), edit[g][i] # NoEdit
    PROVE  m \in edit[g][i].rev
BY DEF Held, Crowded

LEMMA PageKeepsPair ==
    ASSUME WebInv, NEW u \in User, PageStep(u), NEW g \in Editgroup, NEW i \in Ident,
           NEW m, m.n \in Nat \ {0}, Crowded(g, i) \/ Held(g, i, m)
    PROVE  Crowded(g, i)' \/ Held(g, i, m)'
<1>1. UNCHANGED edit /\ g # 0
  BY PageIs, EditgroupsAssumption DEF Editgroup
<1>2. ~BetweenCalls(u, g, i)
  BY DEF PageStep, OpenEntity, OpenEdit, OpenCreate, ClosePage, PostEdit, PostEntity, Opens,
     BetweenCalls
<1>3. ASSUME NEW t, tab' = [tab EXCEPT ![u] = t], t.at # "cleared",
             t.url = g /\ t.ident = i /\ ~Crowded(g, i) => Holds(t, m)
      PROVE  Crowded(g, i)' \/ Held(g, i, m)'
  BY <1>1, <1>2, <1>3, OnePage
<1>4. ASSUME NEW kind \in Kinds, NEW j \in Ident, OpenEntity(u, kind, j)
      PROVE  Crowded(g, i)' \/ Held(g, i, m)'
  <2>1. PICK t : tab' = [tab EXCEPT ![u] = t] /\ t.url = 0 /\ t.at = "open"
    BY <1>4, OpenEntityIs DEF Knows
  <2> QED
    BY <1>1, <1>3, <2>1
<1>5. ASSUME NEW kind \in Kinds, NEW h \in Editgroup, NEW j \in Ident, OpenEdit(u, kind, h, j)
      PROVE  Crowded(g, i)' \/ Held(g, i, m)'
  <2>1. /\ edit[h][j] # NoEdit
        /\ \E t : /\ tab' = [tab EXCEPT ![u] = t] /\ t.ident = j /\ t.url = h
                  /\ Knows(t, kind, edit[h][j], edit[h][j])
    BY <1>5, OpenEditIs
  <2>2. PICK t : /\ tab' = [tab EXCEPT ![u] = t] /\ t.ident = j /\ t.url = h
                 /\ Knows(t, kind, edit[h][j], edit[h][j])
    BY <2>1
  <2>3. ASSUME t.url = g, t.ident = i, ~Crowded(g, i) PROVE Holds(t, m)
    <3>1. m \in edit[g][i].rev
      BY <2>1, <2>2, <2>3, EditHolds
    <3> QED
      BY <2>2, <2>3, <3>1 DEF Knows, Holds
  <2> QED
    BY <1>3, <2>2, <2>3 DEF Knows
<1>6. ASSUME OpenCreate(u) \/ ClosePage(u)
      PROVE  Crowded(g, i)' \/ Held(g, i, m)'
  <2>1. PICK t : /\ tab' = [tab EXCEPT ![u] = t]
                 /\ t = [NoTab EXCEPT !.at = "open", !.kind = "create"] \/ t = NoTab
    BY <1>6 DEF OpenCreate, ClosePage
  <2>2. t.url = 0 /\ t.at # "cleared"
    <3>1. CASE t = [NoTab EXCEPT !.at = "open", !.kind = "create"]
      BY <3>1 DEF NoTab
    <3>2. CASE t = NoTab
      BY <3>2 DEF NoTab
    <3> QED
      BY <2>1, <3>1, <3>2
  <2> QED
    BY <1>1, <1>3, <2>1, <2>2
<1>7. ASSUME PostEdit(u)
      PROVE  Crowded(g, i)' \/ Held(g, i, m)'
  <2>1. PICK p, e : p = tab[u] /\ e = edit[tab[u].url][tab[u].ident]
    OBVIOUS
  <2>2. e # NoEdit /\ \E t : tab' = [tab EXCEPT ![u] = t] /\ Posted(t, p, e, e.hidden)
    BY <1>7, <2>1, PostEditIs
  <2>3. PICK t : tab' = [tab EXCEPT ![u] = t] /\ Posted(t, p, e, e.hidden)
    BY <2>2
  <2>4. ASSUME t.url = g, t.ident = i, ~Crowded(g, i) PROVE Holds(t, m)
    <3>1. p.url = g /\ p.ident = i /\ e = edit[g][i]
      BY <2>1, <2>3, <2>4 DEF Posted
    <3>2. m \in e.rev /\ Holds(p, m)
      BY <2>1, <2>2, <2>4, <3>1, EditHolds DEF Held
    <3> QED
      BY <2>3, <3>2 DEF Posted, Holds, Hidden
  <2> QED
    BY <1>3, <2>3, <2>4 DEF Posted
<1>8. ASSUME NEW h \in Editgroup, PostEntity(u, h)
      PROVE  Crowded(g, i)' \/ Held(g, i, m)'
  <2>1. PICK p, row : p = tab[u] /\ row = entity[tab[u].ident]
    OBVIOUS
  <2>2. p.url = 0 /\ \E t : tab' = [tab EXCEPT ![u] = t] /\ Posted(t, p, row, Len(history))
    BY <1>8, <2>1, PostEntityIs
  <2> QED
    BY <1>1, <1>3, <2>2 DEF Posted
<1> QED
  BY <1>4, <1>5, <1>6, <1>7, <1>8 DEF PageStep

LEMMA ClearKeepsPair ==
    ASSUME WebInv, NEW u \in User, ClearEdit(u), NEW g \in Editgroup, NEW i \in Ident,
           NEW m, Crowded(g, i) \/ Held(g, i, m)
    PROVE  Crowded(g, i)' \/ Held(g, i, m)'
<1>1. PICK p, new : p = tab[u] /\ new = tab'
  OBVIOUS
<1>2. p \in Tab /\ p.at = "fetched" /\ p.group \in Editgroup /\ p.ident \in Ident
  BY <1>1, ClearKeepsWeb DEF ClearEdit, WebInv, TabsOK
<1>3. PICK t : tab' = [tab EXCEPT ![u] = t] /\ t = [p EXCEPT !.at = "cleared"]
  BY <1>1, ClearKeepsWeb
<1>4. /\ t.at = "cleared" /\ t.url = p.url /\ t.ident = p.ident /\ t.group = p.group
      /\ t.kind = p.kind /\ t.opened = p.opened /\ t.base = p.base
      /\ t.fetched = p.fetched /\ t.current = p.current
  BY <1>2, <1>3 DEF Tab
<1>5. new[u] = t /\ \A v \in User : v # u => new[v] = tab[v]
  <2>1. tab' = [tab EXCEPT ![u] = t]
    BY <1>1, <1>3
  <2>2. tab'[u] = t /\ \A v \in User : v # u => tab'[v] = tab[v]
    BY <2>1, OneTab
  <2>3. new = tab'
    BY <1>1, <1>3
  <2> QED
    BY <2>2, <2>3
<1>6. \A v \in User : tab'[v].url = g /\ tab'[v].ident = i /\ ~Crowded(g, i) => Holds(tab'[v], m)
  BY <1>1, <1>4, <1>5 DEF Held, Holds
<1>7. \/ UNCHANGED edit
      \/ edit' = [edit EXCEPT ![p.group][p.ident] = NoEdit]
  BY <1>1 DEF ClearEdit
<1>8. CASE p.group = g /\ p.ident = i
  <2>1. BetweenCalls(u, g, i)' /\ ~BetweenCalls(u, g, i)
    BY <1>1, <1>2, <1>4, <1>5, <1>8 DEF BetweenCalls
  <2>2. \A v \in User : BetweenCalls(v, g, i) => v # u /\ BetweenCalls(v, g, i)'
    BY <1>1, <1>5, <2>1 DEF BetweenCalls
  <2>3. Crowded(g, i) => Crowded(g, i)'
    BY <2>1, <2>2 DEF Crowded
  <2>4. ~Crowded(g, i) => Held(g, i, m)'
    BY <1>6, <2>1 DEF Held
  <2> QED
    BY <2>3, <2>4
<1>9. CASE ~(p.group = g /\ p.ident = i)
  <2>1. \A v \in User : BetweenCalls(v, g, i)' <=> BetweenCalls(v, g, i)
    BY <1>1, <1>4, <1>5, <1>9 DEF BetweenCalls
  <2>2. edit'[g][i] = edit[g][i]
    <3>1. NoEdit \in EditRow
      BY DEF NoEdit, EditRow, Rev
    <3>2. CASE edit' = [edit EXCEPT ![p.group][p.ident] = NoEdit]
      BY <1>2, <1>9, <3>1, <3>2, RowWritten DEF WebInv
    <3> QED
      BY <1>7, <3>2
  <2> QED
    BY <1>6, <2>1, <2>2, PairFrame
<1> QED
  BY <1>8, <1>9

LEMMA EventIs ==
    ASSUME NEW op, NEW t, NEW g, NEW i, NEW e, e = Event(op, t, g, i)
    PROVE  /\ e.op = op /\ e.eg = g /\ e.ident = i /\ e.kind = t.kind /\ e.pinned = t.pinned
           /\ e.opened = t.opened /\ e.fetched = t.fetched
BY DEF Event

\* What a page holds goes into the edit that it makes, unless it was filled
\* before.
LEMMA SavedHolds ==
    ASSUME NEW t \in Tab, TabOK(t), NEW n, NEW m, m.hidden \in BOOLEAN, m.n \in Nat \ {0},
           Holds(t, m), NEW g, NEW i, NEW e, e = Event("save", t, g, i)
    PROVE  m \in Saved(t, n) \/ Before(e, m)
<1>1. /\ e.op = "save" /\ e.kind = t.kind /\ e.opened = t.opened /\ e.fetched = t.fetched
  BY EventIs
<1>2. CASE t.kind \in {"delete", "create"}
  BY <1>1, <1>2 DEF TabOK, Before
<1>3. CASE t.kind = "form"
  BY <1>1, <1>3 DEF Holds, Before, Saved, Shown
<1>4. CASE t.kind = "toml"
  BY <1>1, <1>4 DEF Holds, Before, Saved
<1> QED
  BY <1>2, <1>3, <1>4 DEF Tab, Kinds

LEMMA WriteKeepsPair ==
    ASSUME WebInv, NEW u \in User, NEW j \in Ident, WriteEdit(u, j),
           NEW g \in Editgroup, NEW i \in Ident,
           NEW m, m.hidden \in BOOLEAN, m.n \in Nat \ {0}, Crowded(g, i) \/ Held(g, i, m)
    PROVE  Crowded(g, i)' \/ Held(g, i, m)' \/ Undone(g, i, m)
<1>1. PICK t, n, e, new : /\ t = tab[u] /\ n = Len(history) + 1
                          /\ e = Event("save", t, t.group, j) /\ new = tab'
  OBVIOUS
<1>2. /\ t \in Tab /\ TabOK(t) /\ t.group \in Editgroup /\ t.at \in {"fetched", "cleared"}
      /\ edit[t.group][j] = NoEdit
      /\ t.at = "cleared" => t.url = t.group /\ t.ident = j
      /\ tab' = [tab EXCEPT ![u] = NoTab]
      /\ history' = Append(history, e) /\ e \in HistoryEvent
      /\ \E row \in EditRow : /\ edit' = [edit EXCEPT ![t.group][j] = row]
                              /\ row # NoEdit /\ row.rev = Saved(t, n)
  <2>1. Written(u, t, j, n)
    BY <1>1, WriteIs
  <2> QED
    BY <1>1, <2>1 DEF Written
<1>3. PICK row \in EditRow : /\ edit' = [edit EXCEPT ![t.group][j] = row]
                             /\ row # NoEdit /\ row.rev = Saved(t, n)
  BY <1>2
<1>4. /\ edit'[t.group][j] = row
      /\ \A h \in Editgroup, k \in Ident : h # t.group \/ k # j => edit'[h][k] = edit[h][k]
  <2>1. PICK f \in Editgroup : f = t.group
    BY <1>2
  <2>2. edit' = [edit EXCEPT ![f][j] = row] /\ edit \in [Editgroup -> [Ident -> EditRow]]
    BY <1>3, <2>1 DEF WebInv, EditsOK
  <2> HIDE DEF EditRow
  <2>3. /\ edit'[f][j] = row
        /\ \A h \in Editgroup, k \in Ident : h # f \/ k # j => edit'[h][k] = edit[h][k]
    BY <2>1, <2>2
  <2> QED
    BY <2>1, <2>3
<1>5. new[u] = NoTab /\ \A v \in User : v # u => new[v] = tab[v]
  <2>1. tab' = [tab EXCEPT ![u] = NoTab]
    BY <1>1, <1>2
  <2>2. tab'[u] = NoTab /\ \A v \in User : v # u => tab'[v] = tab[v]
    BY <2>1, OneTab
  <2>3. new = tab'
    BY <1>1, <1>2
  <2> QED
    BY <2>2, <2>3
<1>6. NoTab.url = 0 /\ NoTab.at = "closed" /\ g # 0
  BY EditgroupsAssumption DEF NoTab, Editgroup
<1>7. \A v \in User : new[v].url = g /\ new[v].ident = i /\ ~Crowded(g, i) => Holds(new[v], m)
  BY <1>5, <1>6 DEF Held
<1>8. CASE t.group = g /\ j = i
  <2>1. edit[g][i] = NoEdit /\ edit'[g][i] # NoEdit /\ edit'[g][i].rev = Saved(t, n)
    BY <1>2, <1>3, <1>4, <1>8
  <2>2. CASE \E v \in User : v # u /\ BetweenCalls(v, g, i)
    <3>1. \E v \in User : BetweenCalls(v, g, i)'
      BY <1>1, <1>5, <2>2 DEF BetweenCalls
    <3>2. Crowded(g, i)'
      BY <2>1, <3>1 DEF Crowded
    <3> QED
      BY <3>2
  <2>3. CASE ~\E v \in User : v # u /\ BetweenCalls(v, g, i)
    <3>1. ~Crowded(g, i)
      BY <2>1, <2>3 DEF Crowded
    <3>2. m \notin NoEdit.rev
      BY DEF NoEdit
    <3>3. BetweenCalls(u, g, i) /\ Held(g, i, m)
      BY <2>1, <2>3, <3>1, <3>2 DEF Held
    <3>4. Holds(t, m)
      BY <1>1, <1>2, <1>8, <3>3 DEF Held, BetweenCalls
    <3>5. m \in Saved(t, n) \/ Before(e, m)
      BY <1>1, <1>2, <3>4, SavedHolds
    <3>6. CASE m \in Saved(t, n)
      <4>1. Held(g, i, m)'
        BY <1>1, <1>7, <2>1, <3>1, <3>6 DEF Held
      <4> QED
        BY <4>1
    <3>7. CASE Before(e, m)
      <4>1. e.eg = g /\ e.ident = i
        BY <1>1, <1>8, EventIs
      <4>2. Undone(g, i, m)
        BY <1>2, <3>7, <4>1 DEF Undone
      <4> QED
        BY <4>2
    <3> QED
      BY <3>5, <3>6, <3>7
  <2> QED
    BY <2>2, <2>3
<1>9. CASE ~(t.group = g /\ j = i)
  <2>1. edit'[g][i] = edit[g][i]
    BY <1>4, <1>9
  <2>2. ~BetweenCalls(u, g, i)
    BY <1>1, <1>2, <1>9 DEF BetweenCalls
  <2>3. \A v \in User : BetweenCalls(v, g, i)' <=> BetweenCalls(v, g, i)
    BY <1>1, <1>5, <1>6, <2>2 DEF BetweenCalls
  <2> QED
    BY <1>1, <1>7, <2>1, <2>3, PairFrame
<1> QED
  BY <1>8, <1>9

LEMMA FailKeepsPair ==
    ASSUME WebInv, NEW u \in User, RequestFails(u), NEW g \in Editgroup, NEW i \in Ident,
           NEW m, Crowded(g, i) \/ Held(g, i, m)
    PROVE  Crowded(g, i)' \/ Held(g, i, m)' \/ Undone(g, i, m)
<1>1. PICK p, e : p = tab[u] /\ e = Event("wipe", p, p.group, p.ident)
  OBVIOUS
<1>2. p.at \in {"fetched", "cleared"} /\ tab' = Back(u) /\ UNCHANGED edit
  BY <1>1 DEF RequestFails
<1>3. PICK t \in Tab : /\ tab' = [tab EXCEPT ![u] = t]
                       /\ t.at = "open" /\ t.url = p.url /\ t.ident = p.ident
                       /\ t.kind = p.kind /\ t.base = p.base /\ t.current = p.current
                       /\ t.opened = p.opened /\ t.fetched = p.fetched
  BY <1>1, <1>2, BackIs
<1>4. t.url = g /\ t.ident = i /\ ~Crowded(g, i) => Holds(t, m)
  BY <1>1, <1>3 DEF Held, Holds
<1>5. CASE ~BetweenCalls(u, g, i)
  <2>1. t.at # "cleared"
    BY <1>3
  <2> QED
    BY <1>2, <1>3, <1>4, <1>5, <2>1, OnePage
<1>6. CASE BetweenCalls(u, g, i)
  <2>1. p.at = "cleared" /\ p.group = g /\ p.ident = i
    BY <1>1, <1>6 DEF BetweenCalls
  <2>2. history' = Append(history, e) /\ e \in HistoryEvent
    BY <1>1, <2>1, FailKeepsWeb
  <2>3. e.op = "wipe" /\ e.eg = g /\ e.ident = i
    BY <1>1, <2>1, EventIs
  <2> QED
    BY <2>2, <2>3 DEF Undone
<1> QED
  BY <1>5, <1>6

LEMMA RemoveKeepsPair ==
    ASSUME WebInv, NEW u \in User, NEW h \in Editgroup, NEW j \in Ident, RemoveEdit(u, h, j),
           NEW g \in Editgroup, NEW i \in Ident, NEW m, Crowded(g, i) \/ Held(g, i, m)
    PROVE  Crowded(g, i)' \/ Held(g, i, m)' \/ Undone(g, i, m)
<1>1. PICK e : e = Event("remove", [NoTab EXCEPT !.kind = "remove"], h, j)
  OBVIOUS
<1>2. UNCHANGED tab /\ edit' = [edit EXCEPT ![h][j] = NoEdit]
  BY DEF RemoveEdit
<1>3. CASE h = g /\ j = i
  <2>1. e \in HistoryEvent /\ history' = Append(history, e)
    BY <1>1, RemoveKeepsWeb
  <2>2. e.op = "remove" /\ e.eg = g /\ e.ident = i
    BY <1>1, <1>3, EventIs
  <2> QED
    BY <2>1, <2>2 DEF Undone
<1>4. CASE ~(h = g /\ j = i)
  <2>1. edit'[g][i] = edit[g][i]
    <3>1. NoEdit \in EditRow
      BY DEF NoEdit, EditRow, Rev
    <3> QED
      BY <1>2, <1>4, <3>1, RowWritten DEF WebInv
  <2>2. \A v \in User : /\ BetweenCalls(v, g, i)' <=> BetweenCalls(v, g, i)
                        /\ tab'[v].url = g /\ tab'[v].ident = i /\ ~Crowded(g, i)
                              => Holds(tab'[v], m)
    BY <1>2 DEF BetweenCalls, Held
  <2> QED
    BY <2>1, <2>2, PairFrame
<1> QED
  BY <1>3, <1>4

LEMMA SameKeepsPair ==
    ASSUME UNCHANGED <<edit, tab>>, NEW g, NEW i, NEW m, Crowded(g, i) \/ Held(g, i, m)
    PROVE  Crowded(g, i)' \/ Held(g, i, m)'
<1>1. \A v \in User : /\ BetweenCalls(v, g, i)' <=> BetweenCalls(v, g, i)
                      /\ tab'[v].url = g /\ tab'[v].ident = i /\ ~Crowded(g, i)
                            => Holds(tab'[v], m)
  BY DEF BetweenCalls, Held
<1> QED
  BY <1>1, PairFrame

\* Every step of the pages keeps a mark, or is one of those that may lose it.
LEMMA PairStep ==
    ASSUME WebInv, NEW u \in User, WebStep(u), NEW g \in Editgroup, NEW i \in Ident,
           NEW m, m.hidden \in BOOLEAN, m.n \in Nat \ {0}, Crowded(g, i) \/ Held(g, i, m)
    PROVE  Crowded(g, i)' \/ Held(g, i, m)' \/ Undone(g, i, m)
<1>1. CASE PageStep(u)
  BY <1>1, PageKeepsPair
<1>2. CASE ClearEdit(u)
  BY <1>2, ClearKeepsPair
<1>3. CASE RequestFails(u)
  BY <1>3, FailKeepsPair
<1>4. ASSUME NEW j \in Ident, WriteEdit(u, j)
      PROVE  Crowded(g, i)' \/ Held(g, i, m)' \/ Undone(g, i, m)
  BY <1>4, WriteKeepsPair
<1>5. ASSUME NEW h \in Editgroup, AcceptEdits(u, h)
      PROVE  Crowded(g, i)' \/ Held(g, i, m)'
  <2>1. UNCHANGED <<edit, tab>>
    BY <1>5 DEF AcceptEdits
  <2> QED
    BY <2>1, SameKeepsPair
<1>6. ASSUME NEW h \in Editgroup, NEW j \in Ident, RemoveEdit(u, h, j)
      PROVE  Crowded(g, i)' \/ Held(g, i, m)' \/ Undone(g, i, m)
  BY <1>6, RemoveKeepsPair
<1> QED
  BY <1>1, <1>2, <1>3, <1>4, <1>5, <1>6, WebStepIs

\* A new save is in its edit, and every other page was filled before it.
LEMMA SaveIsHeld ==
    ASSUME WebInv, NEW u \in User, NEW i \in Ident, WriteEdit(u, i),
           NEW t, t = tab[u], NEW n, n = Len(history) + 1,
           t.kind # "delete", ~t.pinned,
           NEW m, m = [n |-> n, hidden |-> t.kind = "toml"]
    PROVE  Held(t.group, i, m)'
<1>1. Written(u, t, i, n)
  BY WriteIs
<1>2. /\ t \in Tab /\ t.group \in Editgroup /\ tab' = [tab EXCEPT ![u] = NoTab]
      /\ \E row \in EditRow : edit' = [edit EXCEPT ![t.group][i] = row] /\ row.rev = Saved(t, n)
  BY <1>1 DEF Written
<1>3. PICK row \in EditRow : edit' = [edit EXCEPT ![t.group][i] = row] /\ row.rev = Saved(t, n)
  BY <1>2
<1>4. edit'[t.group][i] = row
  <2>1. edit \in [Editgroup -> [Ident -> EditRow]]
    BY DEF WebInv, EditsOK
  <2> HIDE DEF EditRow
  <2> QED
    BY <1>2, <1>3, <2>1
<1>5. m \in Saved(t, n)
  BY <1>2 DEF Saved, Tab, Kinds
<1>6. PICK new : new = tab'
  OBVIOUS
<1>7. new[u] = NoTab /\ \A v \in User : v # u => new[v] = tab[v]
  <2>1. tab' = [tab EXCEPT ![u] = NoTab]
    BY <1>2, <1>6
  <2>2. tab'[u] = NoTab /\ \A v \in User : v # u => tab'[v] = tab[v]
    BY <2>1, OneTab
  <2>3. new = tab'
    BY <1>2, <1>6
  <2> QED
    BY <2>2, <2>3
<1>8. ASSUME NEW v \in User, new[v].url = t.group PROVE Holds(new[v], m)
  <2>1. v # u
    BY <1>2, <1>7, <1>8, EditgroupsAssumption DEF NoTab, Editgroup
  <2>2. TabOK(tab[v]) /\ Len(history) \in Nat
    BY HistoryLength DEF WebInv, TabsOK
  <2>3. tab[v].opened < n /\ tab[v].fetched < n
    BY <2>2 DEF TabOK
  <2>4. m.n = n
    OBVIOUS
  <2> QED
    BY <1>7, <2>1, <2>3, <2>4 DEF Holds
<1> QED
  BY <1>3, <1>4, <1>5, <1>6, <1>8 DEF Held

\* A later event of the edit undoes the save.
Gone(k) ==
    \E l \in k + 1 .. Len(history) :
       /\ history[l].eg = history[k].eg /\ history[l].ident = history[k].ident
       /\ history[l].op \in {"wipe", "remove"} \/ ReadBefore(history[l], k)

SaveKept(k) ==
    LET s == history[k]
    IN  Stores(s) =>
           /\ s.ident \in Ident
           /\ Gone(k) \/ Crowded(s.eg, s.ident) \/ Held(s.eg, s.ident, MarkOf(k))

SavesInv == \A k \in DOMAIN history : SaveKept(k)

\* An event is told by the step that makes it.
ToldBy(u, e) ==
    /\ e.op = "save" =>
          \E i \in Ident : WriteEdit(u, i) /\ e = Event("save", tab[u], tab[u].group, i)
    /\ e.op = "accept" => \E g \in Editgroup : AcceptEdits(u, g) /\ e = Event("accept", NoTab, g, 0)

\* The history stays, or has one more event.
LEMMA HistoryGrows ==
    ASSUME WebInv, NEW u \in User, WebStep(u)
    PROVE  UNCHANGED history \/ \E e \in HistoryEvent : history' = Append(history, e) /\ ToldBy(u, e)
<1>1. CASE PageStep(u)
  BY <1>1, PageIs
<1>2. CASE ClearEdit(u)
  BY <1>2 DEF ClearEdit
<1>3. CASE RequestFails(u)
  <2>1. PICK e : e = Event("wipe", tab[u], tab[u].group, tab[u].ident)
    OBVIOUS
  <2>2. ToldBy(u, e)
    BY <2>1, EventIs DEF ToldBy
  <2>3. CASE tab[u].at = "cleared"
    BY <1>3, <2>1, <2>2, <2>3, FailKeepsWeb
  <2>4. CASE tab[u].at # "cleared"
    BY <1>3, <2>4 DEF RequestFails
  <2> QED
    BY <2>3, <2>4
<1>4. ASSUME NEW i \in Ident, WriteEdit(u, i)
      PROVE  \E e \in HistoryEvent : history' = Append(history, e) /\ ToldBy(u, e)
  <2>1. PICK t, n, e : t = tab[u] /\ n = Len(history) + 1 /\ e = Event("save", t, t.group, i)
    OBVIOUS
  <2>2. Written(u, t, i, n)
    BY <1>4, <2>1, WriteIs
  <2>3. e \in HistoryEvent /\ history' = Append(history, e)
    BY <2>1, <2>2 DEF Written
  <2>4. e.op = "save"
    BY <2>1, EventIs
  <2>5. ToldBy(u, e)
    BY <1>4, <2>1, <2>4 DEF ToldBy
  <2> QED
    BY <2>3, <2>5
<1>5. ASSUME NEW g \in Editgroup, AcceptEdits(u, g)
      PROVE  \E e \in HistoryEvent : history' = Append(history, e) /\ ToldBy(u, e)
  <2>1. PICK e : e = Event("accept", NoTab, g, 0)
    OBVIOUS
  <2>2. e \in HistoryEvent /\ history' = Append(history, e)
    BY <1>5, <2>1, AcceptIs
  <2>3. e.op = "accept"
    BY <2>1, EventIs
  <2>4. ToldBy(u, e)
    BY <1>5, <2>1, <2>3 DEF ToldBy
  <2> QED
    BY <2>2, <2>4
<1>6. ASSUME NEW g \in Editgroup, NEW i \in Ident, RemoveEdit(u, g, i)
      PROVE  \E e \in HistoryEvent : history' = Append(history, e) /\ ToldBy(u, e)
  <2>1. PICK e : e = Event("remove", [NoTab EXCEPT !.kind = "remove"], g, i)
    OBVIOUS
  <2>2. e \in HistoryEvent /\ history' = Append(history, e)
    BY <1>6, <2>1, RemoveKeepsWeb
  <2>3. ToldBy(u, e)
    BY <2>1, EventIs DEF ToldBy
  <2> QED
    BY <2>2, <2>3
<1> QED
  BY <1>1, <1>2, <1>3, <1>4, <1>5, <1>6, WebStepIs

\* What one more event leaves of the older ones.
LEMMA OneEvent ==
    ASSUME WebInv, NEW h, h = history', history' = history \/ \E e \in HistoryEvent : history' = Append(history, e)
    PROVE  /\ Len(history) \in Nat /\ DOMAIN history = 1 .. Len(history)
           /\ Len(h) \in Nat /\ DOMAIN h = 1 .. Len(h)
           /\ Len(h) \in {Len(history), Len(history) + 1}
           /\ \A k \in 1 .. Len(history) : h[k] = history[k]
           /\ \A e \in HistoryEvent : history' = Append(history, e) =>
                 Len(h) = Len(history) + 1 /\ h[Len(history) + 1] = e
<1>1. history \in Seq(HistoryEvent)
  BY DEF WebInv, HistoryOK
<1> HIDE DEF HistoryEvent
<1>2. Len(history) \in Nat /\ DOMAIN history = 1 .. Len(history)
  BY <1>1, LenProperties
<1>3. ASSUME NEW e \in HistoryEvent, history' = Append(history, e)
      PROVE  /\ Len(h) = Len(history) + 1 /\ DOMAIN h = 1 .. Len(history) + 1
             /\ \A k \in 1 .. Len(history) : h[k] = history[k]
             /\ h[Len(history) + 1] = e
  BY <1>1, <1>3, Appended
<1>4. \A e \in HistoryEvent : history' = Append(history, e) =>
         Len(h) = Len(history) + 1 /\ h[Len(history) + 1] = e
  BY <1>3
<1>5. /\ Len(h) \in Nat /\ DOMAIN h = 1 .. Len(h) /\ Len(h) \in {Len(history), Len(history) + 1}
      /\ \A k \in 1 .. Len(history) : h[k] = history[k]
  <2>1. CASE history' = history
    BY <1>2, <2>1
  <2>2. CASE \E e \in HistoryEvent : history' = Append(history, e)
    <3>1. /\ Len(h) = Len(history) + 1 /\ DOMAIN h = 1 .. Len(history) + 1
          /\ \A k \in 1 .. Len(history) : h[k] = history[k]
      BY <1>3, <2>2
    <3> QED
      BY <1>2, <3>1
  <2> QED
    BY <2>1, <2>2
<1> QED
  BY <1>2, <1>4, <1>5

LEMMA GoneStays ==
    ASSUME WebInv, history' = history \/ \E e \in HistoryEvent : history' = Append(history, e),
           NEW k \in DOMAIN history
    PROVE  /\ k \in DOMAIN history' /\ history'[k] = history[k] /\ MarkOf(k)' = MarkOf(k)
           /\ Gone(k) => Gone(k)'
           /\ Undone(history[k].eg, history[k].ident, MarkOf(k)) => Gone(k)'
<1>1. PICK h, m : h = history' /\ m = MarkOf(k)
  OBVIOUS
<1>2. /\ Len(history) \in Nat /\ DOMAIN history = 1 .. Len(history)
      /\ Len(h) \in Nat /\ DOMAIN h = 1 .. Len(h)
      /\ Len(h) \in {Len(history), Len(history) + 1}
      /\ \A l \in 1 .. Len(history) : h[l] = history[l]
      /\ \A e \in HistoryEvent : history' = Append(history, e) =>
            Len(h) = Len(history) + 1 /\ h[Len(history) + 1] = e
  BY <1>1, OneEvent
<1>3. /\ k \in DOMAIN h /\ h[k] = history[k] /\ k \in 1 .. Len(history)
      /\ Len(history) \in Nat /\ Len(h) \in Nat /\ Len(history) <= Len(h)
  <2>1. /\ Len(history) \in Nat /\ DOMAIN history = 1 .. Len(history) /\ Len(h) \in Nat
        /\ Len(h) \in {Len(history), Len(history) + 1} /\ DOMAIN h = 1 .. Len(h)
    BY <1>2
  <2>2. PICK a \in Nat, b \in Nat : a = Len(history) /\ b = Len(h)
    BY <2>1
  <2>3. a <= b
    <3>1. b = a \/ b = a + 1
      BY <2>1, <2>2
    <3> QED
      BY <3>1
  <2>4. k \in 1 .. a
    BY <2>1, <2>2
  <2>5. k \in 1 .. b
    BY <2>2, <2>3, <2>4
  <2> QED
    BY <1>2, <2>1, <2>2, <2>3, <2>4, <2>5
<1>4. m = [n |-> k, hidden |-> history[k].kind = "toml"] /\ MarkOf(k)' = m
  BY <1>1, <1>3 DEF MarkOf
<1>5. \A e : /\ ReadBefore(e, k)' <=> ReadBefore(e, k)
             /\ ReadBefore(e, k) <=> Before(e, m)
  BY <1>1, <1>4 DEF ReadBefore, Before
<1>6. Gone(k)' <=> \E l \in k + 1 .. Len(h) :
                      /\ h[l].eg = h[k].eg /\ h[l].ident = h[k].ident
                      /\ h[l].op \in {"wipe", "remove"} \/ Before(h[l], m)
  BY <1>1, <1>5 DEF Gone
<1>7. ASSUME Gone(k) PROVE Gone(k)'
  <2>1. PICK l \in k + 1 .. Len(history) :
           /\ history[l].eg = history[k].eg /\ history[l].ident = history[k].ident
           /\ history[l].op \in {"wipe", "remove"} \/ Before(history[l], m)
    BY <1>5, <1>7 DEF Gone
  <2>2. l \in k + 1 .. Len(h) /\ l \in 1 .. Len(history)
    BY <1>3, <2>1
  <2>3. h[l] = history[l]
    BY <1>2, <2>2
  <2> QED
    BY <1>3, <1>6, <2>1, <2>2, <2>3
<1>8. ASSUME Undone(history[k].eg, history[k].ident, m) PROVE Gone(k)'
  <2>1. PICK e \in HistoryEvent :
           /\ history' = Append(history, e) /\ e.eg = history[k].eg /\ e.ident = history[k].ident
           /\ e.op \in {"wipe", "remove"} \/ Before(e, m)
    BY <1>8 DEF Undone
  <2>2. PICK l : l = Len(history) + 1
    OBVIOUS
  <2>3. Len(h) = Len(history) + 1 /\ h[l] = e
    BY <1>2, <2>1, <2>2
  <2>4. l \in k + 1 .. Len(h)
    BY <1>3, <2>2, <2>3
  <2> QED
    BY <1>3, <1>6, <2>1, <2>3, <2>4
<1> QED
  BY <1>1, <1>3, <1>4, <1>7, <1>8

LEMMA SavesStep ==
    ASSUME WebInv, SavesInv, NEW u \in User, WebStep(u)
    PROVE  SavesInv'
<1>1. PICK h : h = history'
  OBVIOUS
<1>2. \/ history' = history
      \/ \E e \in HistoryEvent : history' = Append(history, e) /\ ToldBy(u, e)
  BY HistoryGrows
<1>3. history' = history \/ \E e \in HistoryEvent : history' = Append(history, e)
  BY <1>2
<1>4. ASSUME NEW k \in DOMAIN history PROVE SaveKept(k)'
  <2>1. PICK s, m : s = history[k] /\ m = MarkOf(k)
    OBVIOUS
  <2>2. /\ history'[k] = s /\ MarkOf(k)' = m
        /\ Gone(k) => Gone(k)'
        /\ Undone(s.eg, s.ident, m) => Gone(k)'
    BY <1>3, <2>1, GoneStays
  <2>3. ASSUME Stores(s)
        PROVE  s.ident \in Ident /\ (Gone(k)' \/ Crowded(s.eg, s.ident)' \/ Held(s.eg, s.ident, m)')
    <3>1. s.ident \in Ident /\ (Gone(k) \/ Crowded(s.eg, s.ident) \/ Held(s.eg, s.ident, m))
      BY <2>1, <2>3 DEF SavesInv, SaveKept
    <3>2. s \in HistoryEvent /\ k \in Nat \ {0}
      <4>1. history \in Seq(HistoryEvent)
        BY DEF WebInv, HistoryOK
      <4> HIDE DEF HistoryEvent
      <4> QED
        BY <2>1, <4>1, LenProperties
    <3>3. m.n \in Nat \ {0} /\ m.hidden \in BOOLEAN
      BY <2>1, <3>2 DEF MarkOf
    <3>4. PICK g \in Editgroup, i \in Ident : g = s.eg /\ i = s.ident
      BY <3>1, <3>2 DEF HistoryEvent
    <3>5. CASE Crowded(g, i) \/ Held(g, i, m)
      <4>1. Crowded(g, i)' \/ Held(g, i, m)' \/ Undone(g, i, m)
        BY <3>3, <3>5, PairStep
      <4> QED
        BY <2>2, <3>1, <3>4, <4>1
    <3> QED
      BY <2>2, <3>1, <3>4, <3>5
  <2> QED
    BY <2>2, <2>3 DEF SaveKept, Stores
<1>5. ASSUME NEW e \in HistoryEvent, history' = Append(history, e), ToldBy(u, e),
             NEW n, n = Len(history) + 1
      PROVE  SaveKept(n)'
  <2>1. h[n] = e
    BY <1>1, <1>5, OneEvent
  <2>2. PICK m : m = [n |-> n, hidden |-> e.kind = "toml"]
    OBVIOUS
  <2>3. MarkOf(n)' = m
    BY <1>1, <2>1, <2>2 DEF MarkOf
  <2>4. ASSUME Stores(e) PROVE e.ident \in Ident /\ Held(e.eg, e.ident, m)'
    <3>1. e.op = "save" /\ e.kind # "delete" /\ ~e.pinned
      BY <2>4 DEF Stores
    <3>2. PICK i \in Ident : WriteEdit(u, i) /\ e = Event("save", tab[u], tab[u].group, i)
      BY <1>5, <3>1 DEF ToldBy
    <3>3. PICK t : t = tab[u]
      OBVIOUS
    <3>4. e.eg = t.group /\ e.ident = i /\ e.kind = t.kind /\ e.pinned = t.pinned
      BY <3>2, <3>3, EventIs
    <3>5. t.kind # "delete" /\ ~t.pinned /\ m = [n |-> n, hidden |-> t.kind = "toml"]
      BY <2>2, <3>1, <3>4
    <3>6. Held(t.group, i, m)'
      BY <1>5, <3>2, <3>3, <3>5, SaveIsHeld
    <3> QED
      BY <3>2, <3>4, <3>6
  <2> QED
    BY <1>1, <2>1, <2>3, <2>4 DEF SaveKept
<1>6. CASE history' = history
  BY <1>4, <1>6 DEF SavesInv
<1>7. ASSUME NEW e \in HistoryEvent, history' = Append(history, e), ToldBy(u, e)
      PROVE  SavesInv'
  <2>1. PICK n : n = Len(history) + 1
    OBVIOUS
  <2>2. SaveKept(n)'
    BY <1>5, <1>7, <2>1
  <2>3. \A k \in DOMAIN h : k \in DOMAIN history \/ k = n
    BY <1>1, <1>7, <2>1, OneEvent
  <2>4. \A k \in DOMAIN h : SaveKept(k)'
    BY <1>4, <2>2, <2>3
  <2> QED
    BY <1>1, <2>4 DEF SavesInv
<1> QED
  BY <1>2, <1>6, <1>7

LEMMA SavesSame ==
    ASSUME SavesInv, UNCHANGED <<edit, tab, history>>
    PROVE  SavesInv'
<1>1. ASSUME NEW k \in DOMAIN history PROVE SaveKept(k)'
  <2>1. SaveKept(k)
    BY DEF SavesInv
  <2>2. Gone(k)' <=> Gone(k)
    BY DEF Gone, ReadBefore, MarkOf
  <2>3. PICK s, m : s = history[k] /\ m = MarkOf(k)
    OBVIOUS
  <2>4. MarkOf(k)' = m /\ history'[k] = s
    BY <2>3 DEF MarkOf
  <2>5. Crowded(s.eg, s.ident)' <=> Crowded(s.eg, s.ident)
    BY DEF Crowded, BetweenCalls
  <2>6. Held(s.eg, s.ident, m)' <=> Held(s.eg, s.ident, m)
    BY DEF Held, BetweenCalls
  <2> QED
    BY <2>1, <2>2, <2>3, <2>4, <2>5, <2>6 DEF SaveKept
<1> QED
  BY <1>1 DEF SavesInv

LEMMA AlwaysSavesInv == CurationSpec => []SavesInv
<1>1. CurationInit => SavesInv
  BY DEF CurationInit, WebInit, SavesInv
<1>2. CurationInv /\ SavesInv /\ [EditingScene \/ ReviewScene]_curationVars => SavesInv'
  <2> SUFFICES ASSUME CurationInv, SavesInv, [EditingScene \/ ReviewScene]_curationVars
               PROVE  SavesInv'
    OBVIOUS
  <2> QED
    BY StepIs, SavesStep, SavesSame DEF CurationInv
<1> QED
  BY <1>1, <1>2, AlwaysCurationInv, PTL DEF CurationSpec

\* What an editor saves stays in the edit of the editgroup, over any number of
\* saves by any number of editors in forms, TOML and deletions, until a page
\* opened before it is saved over it, the edit is removed, or a request fails
\* between the call that deletes the edit and the one that makes it again
\* (the handlers of fatcat_web/editing_routes.py).
THEOREM SavesAlwaysKept == CurationSpec => []SavesKept
<1>1. SavesInv => SavesKept
  BY DEF SavesInv, SaveKept, SavesKept, Gone, Crowded, Held
<1> QED
  BY <1>1, AlwaysSavesInv, PTL

-----------------------------------------------------------------------------
(* What an accept leaves in the entities. *)

\* When the fields of a mark were read that an edit or a page has.
ReadAt(e, m) == IF m.hidden THEN e.hidden ELSE e.shown

\* A page would bring the mark along, or was filled before moment a.
Brings(t, m, a) ==
    \/ ReadAt(t, m) < a
    \/ IF t.kind = "form" /\ m.hidden THEN t.at = "open" \/ m \in t.current
       ELSE m \in t.base

\* The mark is in the entity, and what may replace it brings it along.
Spread(i, m, a) ==
    /\ m \in entity[i].rev
    /\ \A g \in Editgroup : edit[g][i] # NoEdit =>
          ReadAt(edit[g][i], m) < a \/ m \in edit[g][i].rev
    /\ \A u \in User : tab[u].ident = i => Brings(tab[u], m, a)

LEMMA SpreadFrame ==
    ASSUME NEW i, NEW m, NEW a, Spread(i, m, a), UNCHANGED <<entity, edit>>,
           \A u \in User : tab'[u].ident = i => Brings(tab'[u], m, a)
    PROVE  Spread(i, m, a)'
BY DEF Spread

\* A page changes.
LEMMA OnePageSpread ==
    ASSUME WebInv, NEW u \in User, NEW t, tab' = [tab EXCEPT ![u] = t],
           UNCHANGED <<entity, edit>>, NEW i, NEW m, NEW a, Spread(i, m, a),
           t.ident = i => Brings(t, m, a)
    PROVE  Spread(i, m, a)'
<1>1. PICK new : new = tab'
  OBVIOUS
<1>2. new[u] = t /\ \A v \in User : v # u => new[v] = tab[v]
  <2>1. tab' = [tab EXCEPT ![u] = t]
    BY <1>1
  <2>2. tab'[u] = t /\ \A v \in User : v # u => tab'[v] = tab[v]
    BY <2>1, OneTab
  <2>3. new = tab'
    BY <1>1
  <2> QED
    BY <2>2, <2>3
<1>3. \A v \in User : new[v].ident = i => Brings(new[v], m, a)
  BY <1>2 DEF Spread
<1> QED
  BY <1>1, <1>3, SpreadFrame

LEMMA PageSpreads ==
    ASSUME WebInv, NEW u \in User, PageStep(u), NEW i \in Ident, NEW m, NEW a \in Nat \ {0},
           Spread(i, m, a)
    PROVE  Spread(i, m, a)'
<1>1. UNCHANGED <<entity, edit>>
  BY PageIs
<1>2. ASSUME NEW t, tab' = [tab EXCEPT ![u] = t], t.ident = i => Brings(t, m, a)
      PROVE  Spread(i, m, a)'
  BY <1>1, <1>2, OnePageSpread
<1>3. ASSUME NEW kind \in Kinds, NEW j \in Ident, OpenEntity(u, kind, j)
      PROVE  Spread(i, m, a)'
  <2>1. PICK since : since = [shown |-> Len(history), hidden |-> Len(history)]
    OBVIOUS
  <2>2. PICK t : /\ tab' = [tab EXCEPT ![u] = t] /\ t.ident = j
                 /\ Knows(t, kind, entity[j], since)
    BY <1>3, <2>1, OpenEntityIs
  <2>3. t.ident = i => Brings(t, m, a)
    BY <2>2 DEF Knows, Spread, Brings, ReadAt
  <2> QED
    BY <1>2, <2>2, <2>3
<1>4. ASSUME NEW kind \in Kinds, NEW g \in Editgroup, NEW j \in Ident, OpenEdit(u, kind, g, j)
      PROVE  Spread(i, m, a)'
  <2>1. PICK t : /\ edit[g][j] # NoEdit
                 /\ tab' = [tab EXCEPT ![u] = t] /\ t.ident = j
                 /\ Knows(t, kind, edit[g][j], edit[g][j])
    BY <1>4, OpenEditIs
  <2>2. t.ident = i => Brings(t, m, a)
    BY <2>1 DEF Knows, Spread, Brings, ReadAt
  <2> QED
    BY <1>2, <2>1, <2>2
<1>5. ASSUME OpenCreate(u) \/ ClosePage(u)
      PROVE  Spread(i, m, a)'
  <2>1. PICK t : /\ tab' = [tab EXCEPT ![u] = t]
                 /\ t = [NoTab EXCEPT !.at = "open", !.kind = "create"] \/ t = NoTab
    BY <1>5 DEF OpenCreate, ClosePage
  <2>2. t.ident = 0
    <3>1. CASE t = [NoTab EXCEPT !.at = "open", !.kind = "create"]
      BY <3>1 DEF NoTab
    <3>2. CASE t = NoTab
      BY <3>2 DEF NoTab
    <3> QED
      BY <2>1, <3>1, <3>2
  <2> QED
    BY <1>2, <2>1, <2>2, WebAssumption
<1>6. ASSUME PostEdit(u)
      PROVE  Spread(i, m, a)'
  <2>1. PICK p, g, j, e : p = tab[u] /\ g = tab[u].url /\ j = tab[u].ident /\ e = edit[g][j]
    OBVIOUS
  <2>2. /\ g \in Editgroup /\ e # NoEdit
        /\ \E t : tab' = [tab EXCEPT ![u] = t] /\ Posted(t, p, e, e.hidden)
    BY <1>6, <2>1, PostEditIs
  <2>3. PICK t : tab' = [tab EXCEPT ![u] = t] /\ Posted(t, p, e, e.hidden)
    BY <2>2
  <2>4. ASSUME t.ident = i PROVE Brings(t, m, a)
    <3>1. j = i
      BY <2>1, <2>3, <2>4 DEF Posted
    <3>2. Brings(p, m, a) /\ (ReadAt(e, m) < a \/ m \in e.rev)
      BY <2>1, <2>2, <3>1 DEF Spread
    <3> QED
      BY <2>3, <3>2 DEF Posted, Brings, ReadAt, Hidden
  <2> QED
    BY <1>2, <2>3, <2>4
<1>7. ASSUME NEW g \in Editgroup, PostEntity(u, g)
      PROVE  Spread(i, m, a)'
  <2>1. PICK p, row : p = tab[u] /\ row = entity[tab[u].ident]
    OBVIOUS
  <2>2. PICK t : tab' = [tab EXCEPT ![u] = t] /\ Posted(t, p, row, Len(history))
    BY <1>7, <2>1, PostEntityIs
  <2>3. ASSUME t.ident = i PROVE Brings(t, m, a)
    <3>1. p.ident = i
      BY <2>2, <2>3 DEF Posted
    <3>2. Brings(p, m, a) /\ m \in row.rev
      BY <2>1, <3>1 DEF Spread
    <3> QED
      BY <2>2, <3>2 DEF Posted, Brings, ReadAt, Hidden
  <2> QED
    BY <1>2, <2>2, <2>3
<1> QED
  BY <1>3, <1>4, <1>5, <1>6, <1>7 DEF PageStep

LEMMA ClearSpreads ==
    ASSUME WebInv, NEW u \in User, ClearEdit(u), NEW i \in Ident, NEW m, NEW a \in Nat \ {0},
           Spread(i, m, a)
    PROVE  Spread(i, m, a)'
<1>1. PICK p, new : p = tab[u] /\ new = tab'
  OBVIOUS
<1>2. p \in Tab /\ p.at = "fetched" /\ p.group \in Editgroup /\ p.ident \in Ident
  BY <1>1, ClearKeepsWeb DEF ClearEdit, WebInv, TabsOK
<1>3. PICK t : tab' = [tab EXCEPT ![u] = t] /\ t = [p EXCEPT !.at = "cleared"]
  BY <1>1, ClearKeepsWeb
<1>4. /\ t.ident = p.ident /\ t.kind = p.kind /\ t.base = p.base /\ t.current = p.current
      /\ t.shown = p.shown /\ t.hidden = p.hidden
  BY <1>2, <1>3 DEF Tab
<1>5. new[u] = t /\ \A v \in User : v # u => new[v] = tab[v]
  <2>1. tab' = [tab EXCEPT ![u] = t]
    BY <1>1, <1>3
  <2>2. tab'[u] = t /\ \A v \in User : v # u => tab'[v] = tab[v]
    BY <2>1, OneTab
  <2>3. new = tab'
    BY <1>1, <1>3
  <2> QED
    BY <2>2, <2>3
<1>6. \A v \in User : new[v].ident = i => Brings(new[v], m, a)
  BY <1>1, <1>2, <1>4, <1>5 DEF Spread, Brings, ReadAt
<1>7. UNCHANGED entity
  BY DEF ClearEdit
<1>8. PICK edits : edits = edit'
  OBVIOUS
<1>9. \A g \in Editgroup : edits[g][i] = edit[g][i] \/ edits[g][i] = NoEdit
  <2>1. CASE UNCHANGED edit
    BY <1>8, <2>1
  <2>2. CASE edit' = [edit EXCEPT ![p.group][p.ident] = NoEdit]
    <3>1. edit \in [Editgroup -> [Ident -> EditRow]]
      BY DEF WebInv, EditsOK
    <3> HIDE DEF EditRow, NoEdit
    <3> QED
      BY <1>2, <1>8, <2>2, <3>1
  <2> QED
    BY <1>1, <2>1, <2>2 DEF ClearEdit
<1> QED
  BY <1>1, <1>6, <1>7, <1>8, <1>9 DEF Spread

\* The edit that a page makes brings along what the page does.
LEMMA SavedBrings ==
    ASSUME NEW t \in Tab, TabOK(t), t.kind # "create", t.at # "open", NEW n,
           NEW m, NEW a \in Nat \ {0}, Brings(t, m, a),
           NEW row, row.rev = Saved(t, n), row.shown = t.shown, row.hidden = t.hidden
    PROVE  ReadAt(row, m) < a \/ m \in row.rev
<1>1. CASE ReadAt(t, m) < a
  BY <1>1 DEF ReadAt
<1>2. CASE t.kind = "delete"
  BY <1>2 DEF TabOK, ReadAt
<1>3. CASE t.kind = "form" /\ ~(ReadAt(t, m) < a)
  <2>1. row.rev = Shown(t.base) \cup t.current \cup {[n |-> n, hidden |-> FALSE]}
    BY <1>3 DEF Saved
  <2>2. IF m.hidden THEN m \in t.current ELSE m \in t.base
    BY <1>3 DEF Brings
  <2>3. m.hidden \/ m \in Shown(t.base)
    BY <2>2 DEF Shown
  <2> QED
    BY <2>1, <2>2, <2>3
<1>4. CASE t.kind = "toml" /\ ~(ReadAt(t, m) < a)
  <2>1. m \in t.base
    BY <1>4 DEF Brings
  <2>2. t.base \subseteq Saved(t, n)
    BY <1>4 DEF Saved
  <2> QED
    BY <2>1, <2>2
<1>5. t.kind \in {"delete", "form", "toml"}
  BY DEF Tab, Kinds
<1> QED
  BY <1>1, <1>2, <1>3, <1>4, <1>5

LEMMA WriteSpreads ==
    ASSUME WebInv, NEW u \in User, NEW j \in Ident, WriteEdit(u, j),
           NEW i \in Ident, NEW m, m.hidden \in BOOLEAN, NEW a \in Nat \ {0}, Spread(i, m, a)
    PROVE  Spread(i, m, a)'
<1>1. PICK t, n, new, edits : t = tab[u] /\ n = Len(history) + 1 /\ new = tab' /\ edits = edit'
  OBVIOUS
<1>2. Written(u, t, j, n)
  BY <1>1, WriteIs
<1>3. /\ t \in Tab /\ TabOK(t) /\ t.group \in Editgroup /\ t.at # "open"
      /\ t.kind = "create" => entity[j].state = "none"
      /\ t.kind # "create" => t.ident = j
      /\ tab' = [tab EXCEPT ![u] = NoTab]
      /\ \E row \in EditRow : /\ edit' = [edit EXCEPT ![t.group][j] = row] /\ row.rev = Saved(t, n)
                              /\ row.shown = t.shown /\ row.hidden = t.hidden
      /\ \A k \in Ident : entity'[k] = entity[k] \/ entity[k].state = "none"
  BY <1>2 DEF Written
<1>4. PICK row \in EditRow : /\ edit' = [edit EXCEPT ![t.group][j] = row] /\ row.rev = Saved(t, n)
                             /\ row.shown = t.shown /\ row.hidden = t.hidden
  BY <1>3
<1>5. new[u] = NoTab /\ \A v \in User : v # u => new[v] = tab[v]
  <2>1. tab' = [tab EXCEPT ![u] = NoTab]
    BY <1>1, <1>3
  <2>2. tab'[u] = NoTab /\ \A v \in User : v # u => tab'[v] = tab[v]
    BY <2>1, OneTab
  <2>3. new = tab'
    BY <1>1, <1>3
  <2> QED
    BY <2>2, <2>3
<1>6. entity[i].state # "none"
  BY DEF Spread, WebInv, EntitiesOK
<1>7. m \in entity'[i].rev
  BY <1>3, <1>6 DEF Spread
<1>8. \A v \in User : new[v].ident = i => Brings(new[v], m, a)
  BY <1>5, WebAssumption DEF Spread, NoTab
<1>9. \A g \in Editgroup : edits[g][i] = edit[g][i] \/ (j = i /\ edits[g][i] = row)
  <2>1. edit \in [Editgroup -> [Ident -> EditRow]]
    BY DEF WebInv, EditsOK
  <2> HIDE DEF EditRow
  <2> QED
    BY <1>1, <1>3, <1>4, <2>1
<1>10. j = i => ReadAt(row, m) < a \/ m \in row.rev
  <2> SUFFICES ASSUME j = i PROVE ReadAt(row, m) < a \/ m \in row.rev
    OBVIOUS
  <2>1. t.kind # "create" /\ t.ident = i
    BY <1>3, <1>6
  <2>2. Brings(t, m, a)
    BY <1>1, <2>1 DEF Spread
  <2> QED
    BY <1>3, <1>4, <2>1, <2>2, SavedBrings
<1> QED
  BY <1>1, <1>7, <1>8, <1>9, <1>10 DEF Spread

LEMMA FailSpreads ==
    ASSUME WebInv, NEW u \in User, RequestFails(u), NEW i \in Ident, NEW m, NEW a \in Nat \ {0},
           Spread(i, m, a)
    PROVE  Spread(i, m, a)'
<1>1. PICK p : p = tab[u]
  OBVIOUS
<1>2. p.at \in {"fetched", "cleared"} /\ tab' = Back(u) /\ UNCHANGED <<entity, edit>>
  BY <1>1 DEF RequestFails
<1>3. PICK t \in Tab : /\ tab' = [tab EXCEPT ![u] = t]
                       /\ t.at = "open" /\ t.ident = p.ident
                       /\ t.kind = p.kind /\ t.base = p.base /\ t.current = p.current
                       /\ t.shown = p.shown /\ t.hidden = p.hidden
  BY <1>1, <1>2, BackIs
<1>4. t.ident = i => Brings(t, m, a)
  BY <1>1, <1>2, <1>3 DEF Spread, Brings, ReadAt
<1> QED
  BY <1>2, <1>3, <1>4, OnePageSpread

LEMMA RemoveSpreads ==
    ASSUME WebInv, NEW u \in User, NEW h \in Editgroup, NEW j \in Ident, RemoveEdit(u, h, j),
           NEW i \in Ident, NEW m, NEW a, Spread(i, m, a)
    PROVE  Spread(i, m, a)'
<1>1. UNCHANGED <<entity, tab>> /\ edit' = [edit EXCEPT ![h][j] = NoEdit]
  BY DEF RemoveEdit
<1>2. PICK edits : edits = edit'
  OBVIOUS
<1>3. \A g \in Editgroup : edits[g][i] = edit[g][i] \/ edits[g][i] = NoEdit
  <2>1. edit \in [Editgroup -> [Ident -> EditRow]]
    BY DEF WebInv, EditsOK
  <2> HIDE DEF EditRow, NoEdit
  <2> QED
    BY <1>1, <1>2, <2>1
<1> QED
  BY <1>1, <1>2, <1>3 DEF Spread

\* Every step of the pages leaves the mark where it is, but an accept of an edit
\* that was filled before it.
Overwrites(u, i, m, a) ==
    \E g \in Editgroup : AcceptEdits(u, g) /\ edit[g][i] # NoEdit /\ ReadAt(edit[g][i], m) < a

LEMMA SpreadStep ==
    ASSUME WebInv, NEW u \in User, WebStep(u), NEW i \in Ident, NEW m, m.hidden \in BOOLEAN,
           NEW a \in Nat \ {0}, Spread(i, m, a)
    PROVE  Spread(i, m, a)' \/ Overwrites(u, i, m, a)
<1>1. CASE PageStep(u)
  BY <1>1, PageSpreads
<1>2. CASE ClearEdit(u)
  BY <1>2, ClearSpreads
<1>3. CASE RequestFails(u)
  BY <1>3, FailSpreads
<1>4. ASSUME NEW j \in Ident, WriteEdit(u, j) PROVE Spread(i, m, a)'
  BY <1>4, WriteSpreads
<1>5. ASSUME NEW g \in Editgroup, AcceptEdits(u, g)
      PROVE  Spread(i, m, a)' \/ Overwrites(u, i, m, a)
  <2>1. /\ UNCHANGED <<edit, tab>>
        /\ IF edit[g][i] = NoEdit THEN entity'[i] = entity[i]
           ELSE entity'[i].rev = edit[g][i].rev
    BY <1>5, AcceptIs
  <2>2. CASE m \in entity'[i].rev
    BY <2>1, <2>2 DEF Spread
  <2>3. CASE m \notin entity'[i].rev
    BY <1>5, <2>1, <2>3 DEF Spread, Overwrites
  <2> QED
    BY <2>2, <2>3
<1>6. ASSUME NEW h \in Editgroup, NEW j \in Ident, RemoveEdit(u, h, j) PROVE Spread(i, m, a)'
  BY <1>6, RemoveSpreads
<1> QED
  BY <1>1, <1>2, <1>3, <1>4, <1>5, <1>6, WebStepIs

-----------------------------------------------------------------------------
(* What is published stays published. *)

\* An editgroup accepted after a had an edit of i that was filled before a.
Replaced(i, m, a) ==
    \E b \in a + 1 .. Len(history) :
       /\ history[b].op = "accept" /\ edit[history[b].eg][i] # NoEdit
       /\ ReadAt(edit[history[b].eg][i], m) < a

\* Save k, published by accept a.
Publication(k, a) ==
    LET s == history[k]
        m == MarkOf(k)
    IN  Stores(s) /\ history[a].op = "accept" /\ history[a].eg = s.eg /\ m \in edit[s.eg][s.ident].rev
           => Replaced(s.ident, m, a) \/ Spread(s.ident, m, a)

PublishedInv == \A k, a \in DOMAIN history : Publication(k, a)

\* The edits of an accepted editgroup are left alone.
LEMMA Frozen ==
    ASSUME WebInv, NEW u \in User, WebStep(u), NEW g \in Editgroup, Accepted(g), NEW i \in Ident,
           NEW edits, edits = edit'
    PROVE  edits[g][i] = edit[g][i]
<1>1. edit \in [Editgroup -> [Ident -> EditRow]]
  BY DEF WebInv, EditsOK
<1> HIDE DEF EditRow, NoEdit
<1>2. ASSUME NEW h \in Editgroup, h # g, NEW j \in Ident, NEW row, edit' = [edit EXCEPT ![h][j] = row]
      PROVE  edits[g][i] = edit[g][i]
  BY <1>1, <1>2
<1>3. CASE PageStep(u) \/ RequestFails(u) \/ \E h \in Editgroup : AcceptEdits(u, h)
  BY <1>3, PageIs DEF RequestFails, AcceptEdits
<1>4. CASE ClearEdit(u)
  <2>1. PICK p : p = tab[u]
    OBVIOUS
  <2>2. p.group \in Editgroup /\ p.ident \in Ident
    BY <1>4, <2>1, ClearKeepsWeb
  <2>3. \/ UNCHANGED edit
        \/ edit' = [edit EXCEPT ![p.group][p.ident] = NoEdit] /\ ~Accepted(p.group)
    BY <1>4, <2>1 DEF ClearEdit
  <2> QED
    BY <1>2, <2>2, <2>3
<1>5. ASSUME NEW j \in Ident, WriteEdit(u, j) PROVE edits[g][i] = edit[g][i]
  <2>1. PICK t, n : t = tab[u] /\ n = Len(history) + 1
    OBVIOUS
  <2>2. Written(u, t, j, n)
    BY <1>5, <2>1, WriteIs
  <2>3. /\ t.group \in Editgroup /\ ~Accepted(t.group)
        /\ \E row : edit' = [edit EXCEPT ![t.group][j] = row]
    BY <2>2 DEF Written
  <2> QED
    BY <1>2, <2>3
<1>6. ASSUME NEW h \in Editgroup, NEW j \in Ident, RemoveEdit(u, h, j)
      PROVE  edits[g][i] = edit[g][i]
  BY <1>2, <1>6 DEF RemoveEdit
<1> QED
  BY <1>3, <1>4, <1>5, <1>6, WebStepIs

\* An older event, after the step; an accept's editgroup is accepted.
LEMMA OldEvent ==
    ASSUME WebInv, NEW u \in User, WebStep(u), NEW k \in DOMAIN history, NEW h, h = history'
    PROVE  /\ k \in Nat \ {0} /\ k \in 1 .. Len(history) /\ h[k] = history[k]
           /\ Len(history) \in Nat /\ Len(h) \in Nat /\ Len(history) <= Len(h)
           /\ history[k] \in HistoryEvent /\ history[k].eg \in Editgroup
           /\ history[k].op = "accept" => Accepted(history[k].eg)
<1>1. history' = history \/ \E e \in HistoryEvent : history' = Append(history, e)
  BY HistoryGrows
<1>2. /\ Len(history) \in Nat /\ DOMAIN history = 1 .. Len(history) /\ Len(h) \in Nat
      /\ Len(h) \in {Len(history), Len(history) + 1}
      /\ \A l \in 1 .. Len(history) : h[l] = history[l]
  BY <1>1, OneEvent
<1>3. history[k] \in HistoryEvent
  <2>1. history \in Seq(HistoryEvent)
    BY DEF WebInv, HistoryOK
  <2> HIDE DEF HistoryEvent
  <2> QED
    BY <2>1, LenProperties
<1>4. history[k].eg \in Editgroup
  BY <1>3 DEF HistoryEvent
<1>5. history[k].op = "accept" => Accepted(history[k].eg)
  BY DEF WebInv, HistoryOK
<1>6. Len(history) <= Len(h)
  <2>1. PICK x \in Nat, y \in Nat : x = Len(history) /\ y = Len(h)
    BY <1>2
  <2>2. y = x \/ y = x + 1
    BY <1>2, <2>1
  <2> QED
    BY <2>1, <2>2
<1> HIDE DEF HistoryEvent
<1> QED
  BY <1>2, <1>3, <1>4, <1>5, <1>6

LEMMA ReplacedStays ==
    ASSUME WebInv, NEW u \in User, WebStep(u), NEW i \in Ident, NEW m, NEW a \in DOMAIN history,
           Replaced(i, m, a)
    PROVE  Replaced(i, m, a)'
<1>1. PICK h, edits : h = history' /\ edits = edit'
  OBVIOUS
<1>2. PICK b \in a + 1 .. Len(history) :
         /\ history[b].op = "accept" /\ edit[history[b].eg][i] # NoEdit
         /\ ReadAt(edit[history[b].eg][i], m) < a
  BY DEF Replaced
<1>3. a \in 1 .. Len(history) /\ Len(history) \in Nat /\ Len(h) \in Nat /\ Len(history) <= Len(h)
  BY <1>1, OldEvent
<1>4. b \in 1 .. Len(history) /\ b \in a + 1 .. Len(h)
  BY <1>2, <1>3
<1>5. b \in DOMAIN history
  BY <1>4, LenProperties DEF WebInv, HistoryOK
<1>6. h[b] = history[b] /\ history[b].eg \in Editgroup /\ Accepted(history[b].eg)
  BY <1>1, <1>2, <1>5, OldEvent
<1>7. PICK g : g = history[b].eg
  OBVIOUS
<1>8. edits[g][i] = edit[g][i]
  BY <1>1, <1>6, <1>7, Frozen
<1>9. edits[h[b].eg][i] # NoEdit /\ ReadAt(edits[h[b].eg][i], m) < a /\ h[b].op = "accept"
  BY <1>2, <1>6, <1>7, <1>8
<1> QED
  BY <1>1, <1>4, <1>9 DEF Replaced, ReadAt

\* A publication of before the step.
LEMMA OldPublication ==
    ASSUME WebInv, SavesInv, PublishedInv, NEW u \in User, WebStep(u),
           NEW k \in DOMAIN history, NEW a \in DOMAIN history
    PROVE  Publication(k, a)'
<1>1. PICK s, m, h, edits : s = history[k] /\ m = MarkOf(k) /\ h = history' /\ edits = edit'
  OBVIOUS
<1>2. history' = history \/ \E e \in HistoryEvent : history' = Append(history, e)
  BY HistoryGrows
<1>3. h[k] = s /\ h[a] = history[a] /\ MarkOf(k)' = m
  BY <1>1, <1>2, GoneStays
<1>4. /\ a \in Nat \ {0} /\ a \in 1 .. Len(history) /\ Len(history) \in Nat
      /\ history[a].op = "accept" => Accepted(history[a].eg)
  BY <1>1, OldEvent
<1>5. s \in HistoryEvent /\ s.eg \in Editgroup
  BY <1>1, OldEvent
<1>6. m.hidden \in BOOLEAN
  BY <1>1 DEF MarkOf
<1>7. ASSUME Stores(s), history[a].op = "accept", history[a].eg = s.eg,
             m \in edits[s.eg][s.ident].rev
      PROVE  Replaced(s.ident, m, a)' \/ Spread(s.ident, m, a)'
  <2>1. s.ident \in Ident
    BY <1>1, <1>7 DEF SavesInv, SaveKept
  <2>2. PICK g \in Editgroup, i \in Ident : g = s.eg /\ i = s.ident
    BY <1>5, <2>1
  <2>3. edits[g][i] = edit[g][i]
    BY <1>1, <1>4, <1>7, <2>2, Frozen
  <2>4. Replaced(i, m, a) \/ Spread(i, m, a)
    BY <1>1, <1>7, <2>2, <2>3 DEF PublishedInv, Publication
  <2>5. CASE Replaced(i, m, a)
    BY <2>2, <2>5, ReplacedStays
  <2>6. CASE Overwrites(u, i, m, a)
    <3>1. PICK f \in Editgroup : AcceptEdits(u, f) /\ edit[f][i] # NoEdit /\ ReadAt(edit[f][i], m) < a
      BY <2>6 DEF Overwrites
    <3>2. PICK e, n : e = Event("accept", NoTab, f, 0) /\ n = Len(history) + 1
      OBVIOUS
    <3>3. e \in HistoryEvent /\ history' = Append(history, e) /\ UNCHANGED edit
      BY <3>1, <3>2, AcceptIs
    <3>4. e.op = "accept" /\ e.eg = f
      BY <3>2, EventIs
    <3>5. Len(h) = n /\ h[n] = e
      BY <1>1, <3>2, <3>3, OneEvent
    <3>6. n \in a + 1 .. Len(h)
      BY <1>4, <3>2, <3>5
    <3>7. edits[h[n].eg][i] # NoEdit /\ ReadAt(edits[h[n].eg][i], m) < a /\ h[n].op = "accept"
      BY <1>1, <3>1, <3>3, <3>4, <3>5
    <3> QED
      BY <1>1, <2>2, <3>6, <3>7 DEF Replaced, ReadAt
  <2>7. CASE Spread(i, m, a)
    BY <1>4, <1>6, <2>2, <2>6, <2>7, SpreadStep
  <2> QED
    BY <2>4, <2>5, <2>7
<1> QED
  BY <1>1, <1>3, <1>7 DEF Publication, Stores

\* A save goes to an editgroup that nobody has accepted yet.
LEMMA SavedLater ==
    ASSUME WebInv, NEW u \in User, WebStep(u), NEW e \in HistoryEvent,
           history' = Append(history, e), ToldBy(u, e), NEW n, n = Len(history) + 1,
           NEW a \in DOMAIN history \cup {n}
    PROVE  Publication(n, a)'
<1>1. PICK h : h = history'
  OBVIOUS
<1>2. h[n] = e
  BY <1>1, OneEvent
<1>3. ASSUME e.op = "save", h[a].op = "accept", h[a].eg = e.eg PROVE FALSE
  <2>1. a \in DOMAIN history
    BY <1>2, <1>3
  <2>2. h[a] = history[a] /\ Accepted(history[a].eg)
    <3>1. h[a] = history[a]
      BY <1>1, <2>1, OldEvent
    <3> QED
      BY <1>1, <1>3, <2>1, <3>1, OldEvent
  <2>3. PICK i \in Ident : WriteEdit(u, i) /\ e = Event("save", tab[u], tab[u].group, i)
    BY <1>3 DEF ToldBy
  <2>4. PICK t : t = tab[u]
    OBVIOUS
  <2>5. e.eg = t.group /\ ~Accepted(t.group)
    BY <2>3, <2>4, EventIs DEF WriteEdit, Takes
  <2> QED
    BY <1>3, <2>2, <2>5
<1> QED
  BY <1>1, <1>2, <1>3 DEF Publication, Stores

\* What is accepted now is in the entities, and all else was read before.
LEMMA NewPublication ==
    ASSUME WebInv, SavesInv, NEW u \in User, WebStep(u), NEW e \in HistoryEvent,
           history' = Append(history, e), ToldBy(u, e), NEW n, n = Len(history) + 1,
           NEW k \in DOMAIN history
    PROVE  Publication(k, n)'
<1>1. PICK s, m, h, edits, rows : /\ s = history[k] /\ m = MarkOf(k) /\ h = history'
                                  /\ edits = edit' /\ rows = entity'
  OBVIOUS
<1>2. h[k] = s /\ MarkOf(k)' = m
  BY <1>1, GoneStays
<1>3. h[n] = e
  BY <1>1, OneEvent
<1>4. s \in HistoryEvent /\ s.eg \in Editgroup
  BY <1>1, OldEvent
<1>5. Len(history) \in Nat
  BY OneEvent
<1>6. ASSUME Stores(s), e.op = "accept", e.eg = s.eg, m \in edits[s.eg][s.ident].rev
      PROVE  Spread(s.ident, m, n)'
  <2>1. s.ident \in Ident
    BY <1>1, <1>6 DEF SavesInv, SaveKept
  <2>2. PICK f \in Editgroup : AcceptEdits(u, f) /\ e = Event("accept", NoTab, f, 0)
    BY <1>6 DEF ToldBy
  <2>3. PICK g \in Editgroup, i \in Ident : g = s.eg /\ i = s.ident
    BY <1>4, <2>1
  <2>4. f = g
    BY <1>6, <2>2, <2>3, EventIs
  <2>5. /\ UNCHANGED <<edit, tab>>
        /\ IF edit[g][i] = NoEdit THEN rows[i] = entity[i] ELSE rows[i].rev = edit[g][i].rev
    BY <1>1, <2>2, <2>4, AcceptIs
  <2>6. m \in edit[g][i].rev /\ edit[g][i] # NoEdit
    BY <1>1, <1>6, <2>3, <2>5 DEF NoEdit
  <2>7. m \in rows[i].rev
    BY <2>5, <2>6
  <2>8. \A d \in Editgroup : ReadAt(edit[d][i], m) < n
    BY <1>5 DEF WebInv, EditsOK, EditOK, ReadAt
  <2>9. \A v \in User : ReadAt(tab[v], m) < n
    BY <1>5 DEF WebInv, TabsOK, TabOK, ReadAt
  <2> QED
    BY <1>1, <2>3, <2>5, <2>7, <2>8, <2>9 DEF Spread, Brings, ReadAt
<1> QED
  BY <1>1, <1>2, <1>3, <1>6 DEF Publication, Stores

LEMMA PublishedStep ==
    ASSUME WebInv, SavesInv, PublishedInv, NEW u \in User, WebStep(u)
    PROVE  PublishedInv'
<1>1. PICK h : h = history'
  OBVIOUS
<1>2. CASE UNCHANGED history
  BY <1>2, OldPublication DEF PublishedInv
<1>3. ASSUME NEW e \in HistoryEvent, history' = Append(history, e), ToldBy(u, e)
      PROVE  PublishedInv'
  <2>1. PICK n : n = Len(history) + 1
    OBVIOUS
  <2>2. \A k \in DOMAIN h : k \in DOMAIN history \/ k = n
    BY <1>1, <1>3, <2>1, OneEvent
  <2>3. \A k, a \in DOMAIN history : Publication(k, a)'
    BY OldPublication
  <2>4. \A a \in DOMAIN history \cup {n} : Publication(n, a)'
    BY <1>3, <2>1, SavedLater
  <2>5. \A k \in DOMAIN history : Publication(k, n)'
    BY <1>3, <2>1, NewPublication
  <2>6. \A k, a \in DOMAIN h : Publication(k, a)'
    BY <2>2, <2>3, <2>4, <2>5
  <2> QED
    BY <1>1, <2>6 DEF PublishedInv
<1> QED
  BY <1>2, <1>3, HistoryGrows

LEMMA PublishedSame ==
    ASSUME PublishedInv, UNCHANGED <<entity, edit, tab, history>>
    PROVE  PublishedInv'
<1>1. ASSUME NEW k \in DOMAIN history, NEW a \in DOMAIN history PROVE Publication(k, a)'
  <2>1. Publication(k, a)
    BY DEF PublishedInv
  <2>2. PICK s, m : s = history[k] /\ m = MarkOf(k)
    OBVIOUS
  <2>3. MarkOf(k)' = m /\ history'[k] = s
    BY <2>2 DEF MarkOf
  <2>4. Replaced(s.ident, m, a)' <=> Replaced(s.ident, m, a)
    BY DEF Replaced
  <2>5. Spread(s.ident, m, a)' <=> Spread(s.ident, m, a)
    BY DEF Spread
  <2> QED
    BY <2>1, <2>2, <2>3, <2>4, <2>5 DEF Publication
<1> QED
  BY <1>1 DEF PublishedInv

\* What an accepted editgroup published stays in the entity, through editgroups
\* edited side by side and accepted in any order, until an edit is accepted
\* whose page was filled before that, or that deletes (editing_routes.py posts
\* what its page was filled with, and accept_editgroup compares nothing).
THEOREM PublishedAlwaysKept == CurationSpec => []PublishedKept
<1>1. CurationInit => PublishedInv
  BY DEF CurationInit, WebInit, PublishedInv
<1>2. /\ CurationInv /\ SavesInv /\ PublishedInv
      /\ [EditingScene \/ ReviewScene]_curationVars
      => PublishedInv'
  <2> SUFFICES ASSUME CurationInv, SavesInv, PublishedInv, [EditingScene \/ ReviewScene]_curationVars
               PROVE  PublishedInv'
    OBVIOUS
  <2> QED
    BY StepIs, PublishedStep, PublishedSame DEF CurationInv
<1>3. PublishedInv => PublishedKept
  <2> SUFFICES ASSUME PublishedInv, NEW k \in DOMAIN history, NEW a \in DOMAIN history,
                      Stores(history[k]), history[a].op = "accept",
                      history[a].eg = history[k].eg,
                      MarkOf(k) \in edit[history[k].eg][history[k].ident].rev
               PROVE  Replaced(history[k].ident, MarkOf(k), a) \/ Spread(history[k].ident, MarkOf(k), a)
    BY DEF PublishedKept, Replaced, ReadAt, Spread
  <2> QED
    BY DEF PublishedInv, Publication
<1> QED
  BY <1>1, <1>2, <1>3, AlwaysCurationInv, AlwaysSavesInv, PTL DEF CurationSpec

=============================================================================
