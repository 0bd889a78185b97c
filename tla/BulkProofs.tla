----------------------------- MODULE BulkProofs -----------------------------
(***************************************************************************)
(* Proofs about BulkJobs, for any catalog without chains of redirects, any *)
(* files, editgroups of any size, and any number of deaths and of edits by *)
(* others: what the jobs publish is whole, makes no chain, and takes       *)
(* nothing back.                                                           *)
(***************************************************************************)
EXTENDS BulkJobs, FiniteSetTheorems, SequenceTheorems, WellFoundedInduction, TLAPS

-----------------------------------------------------------------------------
(* Functions, sequences, least elements. *)

LEMMA JoinedIs ==
    ASSUME NEW eg, NEW edits, NEW all, all = Joined(eg, edits)
    PROVE  /\ DOMAIN all = DOMAIN eg \cup DOMAIN edits
           /\ \A i \in DOMAIN eg : all[i] = eg[i]
           /\ \A i \in DOMAIN edits \ DOMAIN eg : all[i] = edits[i]
           /\ \A S : (\A i \in DOMAIN all : all[i] \in S) => all \in [DOMAIN all -> S]
BY DEF Joined

LEMMA EmptyIs == DOMAIN << >> = {}
OBVIOUS

LEMMA LeastOfNaturals ==
    ASSUME NEW S \in SUBSET Nat, S # {}
    PROVE  \E m \in S : \A n \in S : m <= n
<1> DEFINE Less == {pair \in Nat \X Nat : pair[1] < pair[2]}
<1>1. Less = OpToRel(<, Nat)
  BY DEF OpToRel
<1>2. IsWellFoundedOn(Less, Nat)
  BY <1>1, NatLessThanWellFounded
<1>3. \A m, n \in Nat : <<n, m>> \notin Less => m <= n
  OBVIOUS
<1> HIDE DEF Less
<1>4. PICK m \in S : \A n \in S : <<n, m>> \notin Less
  BY <1>2, WFMin, Zenon
<1> QED
  BY <1>3, <1>4

\* A lookup answers 0 or an active entity that has one of the identifiers.
LEMMA LookupIs ==
    ASSUME entities \in Seq(Body), NEW ids, NEW i, i = Lookup(ids), i # 0
    PROVE  i \in DOMAIN entities /\ Active(i) /\ entities[i].ids \cap ids # {}
<1>1. PICK found : found = {j \in DOMAIN entities : Active(j) /\ entities[j].ids \cap ids # {}}
  OBVIOUS
<1>2. found # {} /\ i = Min(found)
  BY <1>1 DEF Lookup
<1>3. found \subseteq Nat
  <2>1. DOMAIN entities = 1 .. Len(entities) /\ Len(entities) \in Nat
    BY LenProperties
  <2> QED
    BY <1>1, <2>1
<1>4. PICK m \in found : \A j \in found : m <= j
  BY <1>2, <1>3, LeastOfNaturals
<1>5. Min(found) \in found
  BY <1>4 DEF Min
<1> QED
  BY <1>1, <1>2, <1>5

-----------------------------------------------------------------------------
(* What an importer decides on a row. *)

\* An update of entity i, found by row k, to that body.
Fits(k, i, body) ==
    /\ Active(i)
    /\ job # "chocula" => entities[i].ids \cap About(rows[k]) # {}
    /\ body \in Body /\ body.to = 0
    /\ body.ids \subseteq entities[i].ids \cup About(rows[k])
    /\ Replaces \/ Keeps(Assigned, entities[i], body)
    /\ job \in Guarded => i \notin run.inflight

Decision(k, d) ==
    \/ d = Skip \/ d = Insert \/ d = End
    \/ \E i \in DOMAIN entities, body \in Body : d = Update(i, body) /\ Fits(k, i, body)

\* The entity is found by an identifier of the row, and gains something.
LEMMA UpdateFits ==
    ASSUME entities \in Seq(Body), job \in Importers, NEW k \in DOMAIN rows,
           NEW i, NEW ids \in SUBSET About(rows[k]), i = Lookup(ids), i # 0,
           job \in Guarded => i \notin run.inflight,
           NEW body \in Body, body.to = entities[i].to,
           body.ids \subseteq entities[i].ids \cup About(rows[k]),
           Replaces \/ Keeps(Assigned, entities[i], body)
    PROVE  Decision(k, Update(i, body))
<1>1. i \in DOMAIN entities /\ Active(i) /\ entities[i].ids \cap ids # {}
  BY LookupIs
<1>2. entities[i].ids \cap About(rows[k]) # {} /\ entities[i].to = 0
  BY <1>1 DEF Active
<1>3. Fits(k, i, body)
  BY <1>1, <1>2 DEF Fits
<1> QED
  BY <1>1, <1>3 DEF Decision

\* One that a lookup finds is a body.
LEMMA FoundIs ==
    ASSUME entities \in Seq(Body), NEW ids, NEW i, i = Lookup(ids), i # 0
    PROVE  entities[i] \in Body /\ i \in DOMAIN entities
<1>1. i \in DOMAIN entities
  BY LookupIs
<1>2. DOMAIN entities = 1 .. Len(entities)
  BY LenProperties
<1> HIDE DEF Body
<1> QED
  BY <1>1, <1>2

LEMMA FilesDecide ==
    ASSUME entities \in Seq(Body), job \in FileImporters,
           NEW k \in DOMAIN rows, rows[k] \in ImportRow, NEW chance \in BOOLEAN
    PROVE  Decision(k, Decide(rows[k], chance))
<1>1. PICK r, i : r = rows[k] /\ i = Lookup({r.own})
  OBVIOUS
<1>2. job \in Importers /\ r \in ImportRow /\ {r.own} \in SUBSET About(r)
  BY <1>1 DEF About, Importers
<1>3. i # 0 => entities[i] \in Body
  BY <1>1, FoundIs
<1>4. ASSUME NEW body, i # 0, body \in Body, body.to = entities[i].to,
             body.ids = entities[i].ids, Replaces \/ Keeps(Assigned, entities[i], body),
             job \in Guarded => i \notin run.inflight
      PROVE  Decision(k, Update(i, body))
  BY <1>1, <1>2, <1>4, UpdateFits
<1>5. Decision(k, Skip) /\ Decision(k, Insert) /\ Decision(k, End)
  BY DEF Decision
<1>6. CASE job = "matched"
  <2>1. Decide(r, chance) = Matched(r)
    BY <1>6 DEF Decide
  <2>2. CASE i = 0
    BY <1>1, <1>5, <2>1, <2>2 DEF Matched
  <2>3. CASE i # 0
    <3>1. PICK old, links, body :
             /\ old = entities[i]
             /\ links = IF r.urls \cap ArxivUrl # {} /\ r.links # {} THEN r.links ELSE old.links \cup r.links
             /\ body = [old EXCEPT !.urls = (@ \ BrokenUrl) \cup r.urls, !.links = links,
                                   !.marks = @ \cup r.marks]
      OBVIOUS
    <3>2. body = [to |-> old.to, ids |-> old.ids, urls |-> (old.urls \ BrokenUrl) \cup r.urls,
                  links |-> links, marks |-> old.marks \cup r.marks]
      BY <1>3, <2>3, <3>1 DEF Body
    <3>3. body \in Body
      <4>1. /\ old.to \in Nat /\ old.ids \subseteq ExtId /\ old.urls \subseteq Url
            /\ old.links \subseteq Link /\ old.marks \subseteq Mark
        BY <1>3, <2>3, <3>1 DEF Body
      <4>2. r.urls \subseteq Url /\ r.links \subseteq Link /\ r.marks \subseteq Mark
        BY <1>2 DEF ImportRow
      <4>3. links \subseteq Link
        BY <3>1, <4>1, <4>2
      <4> QED
        BY <3>2, <4>1, <4>2, <4>3 DEF Body
    <3>4. Replaces \/ Keeps(Assigned, old, body)
      <4>1. CASE r.urls \cap ArxivUrl # {}
        BY <1>1, <1>6, <4>1 DEF Replaces
      <4>2. CASE r.urls \cap ArxivUrl = {}
        <5>1. links = old.links \cup r.links
          BY <3>1, <4>2
        <5> QED
          BY <3>2, <5>1 DEF Keeps
      <4> QED
        BY <4>1, <4>2
    <3>5. i \notin run.inflight => Decision(k, Update(i, body))
      BY <1>4, <2>3, <3>1, <3>2, <3>3, <3>4
    <3>6. \/ Matched(r) = Skip
          \/ i \notin run.inflight /\ Matched(r) = Update(i, body)
      BY <1>1, <2>3, <3>1 DEF Matched, Inflight
    <3> QED
      BY <1>1, <1>5, <2>1, <3>5, <3>6
  <2> QED
    BY <2>2, <2>3
<1>7. CASE job = "arabesque"
  <2>1. Decide(r, chance) = Arabesque(r)
    BY <1>7 DEF Decide
  <2>2. CASE i = 0
    BY <1>1, <1>5, <2>1, <2>2 DEF Arabesque
  <2>3. CASE i # 0
    <3>1. PICK old, body : /\ old = entities[i]
                           /\ body = [old EXCEPT !.urls = @ \cup r.urls, !.links = @ \cup r.links,
                                                 !.marks = @ \cup r.marks]
      OBVIOUS
    <3>2. body = [to |-> old.to, ids |-> old.ids, urls |-> old.urls \cup r.urls,
                  links |-> old.links \cup r.links, marks |-> old.marks \cup r.marks]
      BY <1>3, <2>3, <3>1 DEF Body
    <3>3. body \in Body
      <4>1. /\ old.to \in Nat /\ old.ids \subseteq ExtId /\ old.urls \subseteq Url
            /\ old.links \subseteq Link /\ old.marks \subseteq Mark
        BY <1>3, <2>3, <3>1 DEF Body
      <4>2. r.urls \subseteq Url /\ r.links \subseteq Link /\ r.marks \subseteq Mark
        BY <1>2 DEF ImportRow
      <4> QED
        BY <3>2, <4>1, <4>2 DEF Body
    <3>4. Keeps(Assigned, old, body)
      BY <3>2 DEF Keeps
    <3>5. i \notin run.inflight => Decision(k, Update(i, body))
      BY <1>4, <2>3, <3>1, <3>2, <3>3, <3>4
    <3>6. \/ Arabesque(r) = Skip
          \/ i \notin run.inflight /\ Arabesque(r) = Update(i, body)
      BY <1>1, <2>3, <3>1 DEF Arabesque, Inflight
    <3> QED
      BY <1>1, <1>5, <2>1, <3>5, <3>6
  <2> QED
    BY <2>2, <2>3
<1>8. CASE job = "shadow"
  <2>1. Decide(r, chance) = Shadow(r)
    BY <1>8 DEF Decide
  <2>2. CASE i = 0
    BY <1>1, <1>5, <2>1, <2>2 DEF Shadow
  <2>3. CASE i # 0
    <3>1. PICK old, body : /\ old = entities[i]
                           /\ body = [old EXCEPT !.urls = (@ \ BrokenUrl) \cup r.urls,
                                                 !.links = @ \cup r.links, !.marks = @ \cup r.marks]
      OBVIOUS
    <3>2. body = [to |-> old.to, ids |-> old.ids, urls |-> (old.urls \ BrokenUrl) \cup r.urls,
                  links |-> old.links \cup r.links, marks |-> old.marks \cup r.marks]
      BY <1>3, <2>3, <3>1 DEF Body
    <3>3. body \in Body
      <4>1. /\ old.to \in Nat /\ old.ids \subseteq ExtId /\ old.urls \subseteq Url
            /\ old.links \subseteq Link /\ old.marks \subseteq Mark
        BY <1>3, <2>3, <3>1 DEF Body
      <4>2. r.urls \subseteq Url /\ r.links \subseteq Link /\ r.marks \subseteq Mark
        BY <1>2 DEF ImportRow
      <4> QED
        BY <3>2, <4>1, <4>2 DEF Body
    <3>4. Keeps(Assigned, old, body)
      BY <3>2 DEF Keeps
    <3>5. i \notin run.inflight => Decision(k, Update(i, body))
      BY <1>4, <2>3, <3>1, <3>2, <3>3, <3>4
    <3>6. \/ Shadow(r) = Skip
          \/ i \notin run.inflight /\ Shadow(r) = Update(i, body)
      BY <1>1, <2>3, <3>1 DEF Shadow, Inflight
    <3> QED
      BY <1>1, <1>5, <2>1, <3>5, <3>6
  <2> QED
    BY <2>2, <2>3
<1>9. CASE job = "file_meta"
  <2>1. Decide(r, chance) = FileMeta(r)
    BY <1>9 DEF Decide
  <2>2. CASE i = 0
    BY <1>1, <1>5, <2>1, <2>2 DEF FileMeta
  <2>3. CASE i # 0
    <3>1. PICK old, body : /\ old = entities[i]
                           /\ body = [old EXCEPT !.marks = @ \cup Fields, !.urls = @ \ BrokenUrl]
      OBVIOUS
    <3>2. body = [to |-> old.to, ids |-> old.ids, urls |-> old.urls \ BrokenUrl,
                  links |-> old.links, marks |-> old.marks \cup Fields]
      BY <1>3, <2>3, <3>1 DEF Body
    <3>3. body \in Body
      <4>1. /\ old.to \in Nat /\ old.ids \subseteq ExtId /\ old.urls \subseteq Url
            /\ old.links \subseteq Link /\ old.marks \subseteq Mark
        BY <1>3, <2>3, <3>1 DEF Body
      <4>2. /\ old.urls \ BrokenUrl \subseteq Url
            /\ old.marks \cup Fields \subseteq Mark
        BY <4>1, BulkAssumption
      <4> QED
        BY <3>2, <4>1, <4>2 DEF Body
    <3>4. Keeps(Assigned, old, body) /\ job \notin Guarded
      BY <1>9, <3>2 DEF Keeps, Guarded
    <3>5. Decision(k, Update(i, body))
      BY <1>4, <2>3, <3>1, <3>2, <3>3, <3>4
    <3>6. FileMeta(r) = Skip \/ FileMeta(r) = Update(i, body)
      BY <1>1, <2>3, <3>1 DEF FileMeta
    <3> QED
      BY <1>1, <1>5, <2>1, <3>5, <3>6
  <2> QED
    BY <2>2, <2>3
<1>10. CASE job = "fileset"
  BY <1>1, <1>5, <1>10 DEF Decide, Fileset, InsertUnless
<1> QED
  BY <1>6, <1>7, <1>8, <1>9, <1>10 DEF FileImporters

\* Assigning an entry leaves what is no entry.
LEMMA AssignIs ==
    ASSUME NEW marks \in SUBSET Mark, NEW new \in SUBSET Mark
    PROVE  /\ Assign(marks, new) \subseteq Mark /\ new \subseteq Assign(marks, new)
           /\ marks \ UNION Entry \subseteq Assign(marks, new)
<1>1. ASSUME NEW m \in marks \ UNION Entry PROVE m \in Assign(marks, new)
  <2>1. \A e \in Entry : m \notin e
    BY <1>1
  <2> QED
    BY <1>1, <2>1 DEF Assign
<1> QED
  BY <1>1 DEF Assign

\* The release is found by an identifier of the row; what the job does not assign stays.
LEMMA AssigningFits ==
    ASSUME entities \in Seq(Body), job \in ReleaseImporters,
           NEW k \in DOMAIN rows, rows[k] \in ImportRow, NEW i, i = Find(rows[k]), i # 0,
           NEW ids, entities[i].ids \subseteq ids, ids \subseteq entities[i].ids \cup About(rows[k]),
           NEW marks \in SUBSET Mark, entities[i].marks \ Assigned \subseteq marks,
           NEW body, body = [entities[i] EXCEPT !.ids = ids, !.marks = marks]
    PROVE  Decision(k, UpdateAssigning(i, rows[k], body))
<1>1. PICK r, old : r = rows[k] /\ old = entities[i]
  OBVIOUS
<1>2. PICK keys \in SUBSET About(r) : i = Lookup(keys)
  BY <1>1 DEF Find, About, ReleaseImporters, Importers
<1>3. old \in Body
  BY <1>1, <1>2, FoundIs
<1>4. body = [to |-> old.to, ids |-> ids, urls |-> old.urls, links |-> old.links, marks |-> marks]
  BY <1>1, <1>3 DEF Body
<1>5. ids \in SUBSET ExtId
  BY <1>1, <1>3 DEF About, ReleaseImporters, Importers, ImportRow, Body
<1>6. body \in Body
  <2>1. old.to \in Nat /\ old.urls \subseteq Url /\ old.links \subseteq Link
    BY <1>3 DEF Body
  <2> QED
    BY <1>4, <1>5, <2>1 DEF Body
<1>7. Keeps(Assigned, old, body) /\ job \notin Guarded /\ job \in Importers
  BY <1>1, <1>4 DEF Keeps, Guarded, ReleaseImporters, Importers
<1>8. Decision(k, Update(i, body))
  <2> HIDE DEF Body
  <2>1. body.ids \subseteq old.ids \cup About(r)
    BY <1>1, <1>4
  <2> QED
    BY <1>1, <1>2, <1>4, <1>6, <1>7, <2>1, UpdateFits
<1> QED
  BY <1>8 DEF UpdateAssigning, Decision

LEMMA ReleasesDecide ==
    ASSUME entities \in Seq(Body), job \in ReleaseImporters,
           NEW k \in DOMAIN rows, rows[k] \in ImportRow, NEW chance \in BOOLEAN
    PROVE  Decision(k, Decide(rows[k], chance))
<1>1. PICK r, i : r = rows[k] /\ i = Find(r)
  OBVIOUS
<1>2. Decision(k, Skip) /\ Decision(k, Insert)
  BY DEF Decision
<1>3. CASE i = 0
  BY <1>1, <1>2, <1>3 DEF Decide, Jstor, Doaj, Dblp, Pubmed, InsertUnless, ReleaseImporters
<1>4. CASE i # 0
  <2>1. PICK old : old = entities[i]
    OBVIOUS
  <2>2. old \in Body
    <3>1. \E keys : i = Lookup(keys)
      BY <1>1 DEF Find
    <3> QED
      BY <1>4, <2>1, <3>1, FoundIs
  <2>3. PICK marks : marks = Assign(old.marks, r.marks)
    OBVIOUS
  <2>4. /\ r.own \in About(r) /\ r.ids \subseteq About(r) /\ r.marks \subseteq Mark
        /\ old.marks \subseteq Mark /\ UNION Entry \subseteq Assigned
    BY <1>1, <2>2 DEF About, ReleaseImporters, Importers, ImportRow, Body, Assigned
  <2>5. marks \in SUBSET Mark /\ r.marks \subseteq marks /\ old.marks \ UNION Entry \subseteq marks
    BY <2>3, <2>4, AssignIs
  <2>6. PICK own : own = WithOwn(i, r)
    OBVIOUS
  <2>7. own = [old EXCEPT !.ids = old.ids \cup {r.own}, !.marks = marks]
    BY <2>1, <2>3, <2>6 DEF WithOwn
  <2>8. Decision(k, UpdateAssigning(i, r, own))
    BY <1>1, <1>4, <2>1, <2>4, <2>5, <2>7, AssigningFits
  <2>9. CASE job = "jstor"
    <3>1. PICK left, brought : /\ left = old.marks \ JstorValue
                               /\ brought = r.marks \cap (JstorValue \cup UNION Entry)
      OBVIOUS
    <3>2. PICK kept, body : /\ kept = Assign(left, brought)
                            /\ body = [old EXCEPT !.ids = old.ids \cup {r.own}, !.marks = kept]
      OBVIOUS
    <3>3. kept \in SUBSET Mark /\ old.marks \ Assigned \subseteq kept
      <4>1. PICK entries : entries = UNION Entry /\ Assigned = entries \cup JstorValue
        BY <2>9 DEF Assigned, ReleaseImporters
      <4>2. left \in SUBSET Mark /\ brought \in SUBSET Mark
        BY <2>4, <3>1
      <4>3. kept \subseteq Mark /\ left \ entries \subseteq kept
        BY <3>2, <4>1, <4>2, AssignIs
      <4> QED
        BY <3>1, <4>1, <4>3
    <3>4. Decision(k, UpdateAssigning(i, r, body))
      BY <1>1, <1>4, <2>1, <2>4, <3>2, <3>3, AssigningFits
    <3>5. Jstor(r) = Skip \/ Jstor(r) = UpdateAssigning(i, r, body)
      BY <1>1, <1>4, <2>1, <3>1, <3>2 DEF Jstor
    <3> QED
      BY <1>1, <1>2, <2>9, <3>4, <3>5 DEF Decide
  <2>10. CASE job = "doaj"
    BY <1>1, <1>2, <1>4, <2>6, <2>8, <2>10 DEF Decide, Doaj
  <2>11. CASE job = "dblp"
    BY <1>1, <1>2, <1>4, <2>6, <2>8, <2>11 DEF Decide, Dblp
  <2>12. CASE job = "pubmed"
    <3>1. PICK ids, body :
             /\ ids = old.ids \cup (IF HasOwn(i) THEN {} ELSE {r.own})
                              \cup (IF old.ids \subseteq OwnId THEN r.ids ELSE {})
             /\ body = [old EXCEPT !.ids = ids, !.marks = marks]
      OBVIOUS
    <3>2. old.ids \subseteq ids /\ ids \subseteq old.ids \cup About(r)
      BY <2>4, <3>1
    <3>3. old.marks \ Assigned \subseteq marks
      BY <2>4, <2>5
    <3>4. Decision(k, UpdateAssigning(i, r, body))
      BY <1>1, <1>4, <2>1, <2>5, <3>1, <3>2, <3>3, AssigningFits
    <3>5. Pubmed(r) = Skip \/ Pubmed(r) = UpdateAssigning(i, r, body)
      BY <1>1, <1>4, <2>1, <2>3, <3>1 DEF Pubmed
    <3> QED
      BY <1>1, <1>2, <2>12, <3>4, <3>5 DEF Decide
  <2> QED
    BY <2>9, <2>10, <2>11, <2>12 DEF ReleaseImporters
<1> QED
  BY <1>3, <1>4

LEMMA ContainersDecide ==
    ASSUME entities \in Seq(Body), job \in ContainerImporters,
           NEW k \in DOMAIN rows, rows[k] \in ImportRow, NEW chance \in BOOLEAN
    PROVE  Decision(k, Decide(rows[k], chance))
<1>1. PICK r : r = rows[k]
  OBVIOUS
<1>2. Decision(k, Skip) /\ Decision(k, Insert)
  BY DEF Decision
<1>3. CASE job = "chocula"
  <2>1. Decide(r, chance) = Chocula(r)
    BY <1>3 DEF Decide
  <2>2. CASE \/ r.ident = 0 \/ ~Active(r.ident) \/ ~DoUpdates
             \/ r.marks \subseteq entities[r.ident].marks
    BY <1>1, <1>2, <2>1, <2>2 DEF Chocula, InsertUnless
  <2>3. CASE /\ r.ident # 0 /\ Active(r.ident) /\ DoUpdates
             /\ ~(r.marks \subseteq entities[r.ident].marks)
    <3>1. PICK i, old, marks, body : /\ i = r.ident /\ old = entities[i]
                                     /\ marks = Assign(old.marks, r.marks)
                                     /\ body = [old EXCEPT !.marks = marks]
      OBVIOUS
    <3>2. i \in DOMAIN entities /\ old \in Body /\ old.to = 0
      <4>1. DOMAIN entities = 1 .. Len(entities) /\ i \in DOMAIN entities /\ old.to = 0
        BY <2>3, <3>1, LenProperties DEF Active
      <4> HIDE DEF Body
      <4> QED
        BY <3>1, <4>1
    <3>3. body = [to |-> old.to, ids |-> old.ids, urls |-> old.urls, links |-> old.links,
                  marks |-> marks]
      BY <3>1, <3>2 DEF Body
    <3>4. body \in Body
      <4>1. old.marks \in SUBSET Mark /\ r.marks \in SUBSET Mark
        BY <1>1, <3>2 DEF Body, ImportRow
      <4>2. marks \in SUBSET Mark
        BY <3>1, <4>1, AssignIs
      <4> QED
        BY <3>2, <3>3, <4>2 DEF Body
    <3>5. Replaces /\ job \notin Guarded
      BY <1>3 DEF Replaces, Guarded
    <3>6. Fits(k, i, body)
      BY <1>3, <2>3, <3>1, <3>2, <3>3, <3>4, <3>5 DEF Fits
    <3>7. Chocula(r) = Update(i, body)
      BY <2>3, <3>1 DEF Chocula
    <3> QED
      BY <1>1, <2>1, <3>2, <3>4, <3>6, <3>7 DEF Decision
  <2> QED
    BY <2>2, <2>3
<1>4. CASE job = "dblp_container"
  BY <1>1, <1>2, <1>4 DEF Decide, DblpContainer, InsertUnless
<1>5. CASE job = "journal_metadata"
  <2>1. Decide(r, chance) = JournalMetadata(r)
    BY <1>5 DEF Decide
  <2>2. PICK i : i = Lookup({r.own})
    OBVIOUS
  <2>3. CASE i = 0
    BY <1>1, <1>2, <2>1, <2>2, <2>3 DEF JournalMetadata
  <2>4. CASE i # 0
    <3>1. PICK old, kbart, marks, body :
             /\ old = entities[i] /\ kbart = r.marks \cap UNION Entry
             /\ marks = Assign(old.marks, kbart) /\ body = [old EXCEPT !.marks = marks]
      OBVIOUS
    <3>2. old \in Body
      BY <2>2, <2>4, <3>1, FoundIs
    <3>3. body = [to |-> old.to, ids |-> old.ids, urls |-> old.urls, links |-> old.links,
                  marks |-> marks]
      BY <3>1, <3>2 DEF Body
    <3>4. /\ marks \in SUBSET Mark /\ old.marks \ UNION Entry \subseteq marks
          /\ body \in Body
      <4>1. old.marks \in SUBSET Mark /\ kbart \in SUBSET Mark
        BY <1>1, <3>1, <3>2 DEF Body, ImportRow
      <4>2. marks \in SUBSET Mark /\ old.marks \ UNION Entry \subseteq marks
        BY <3>1, <4>1, AssignIs
      <4> QED
        BY <3>2, <3>3, <4>2 DEF Body
    <3>5. /\ Keeps(Assigned, old, body) /\ job \notin Guarded /\ job \in Importers
          /\ {r.own} \in SUBSET About(r)
      <4>1. UNION Entry \subseteq Assigned
        BY <1>5 DEF Assigned
      <4>2. Keeps(Assigned, old, body)
        BY <3>3, <3>4, <4>1 DEF Keeps
      <4> QED
        BY <1>5, <4>2 DEF Guarded, ContainerImporters, Importers, About
    <3>6. Decision(k, Update(i, body))
      BY <1>1, <2>2, <2>4, <3>1, <3>3, <3>4, <3>5, UpdateFits
    <3>7. JournalMetadata(r) = Skip \/ JournalMetadata(r) = Update(i, body)
      BY <2>2, <2>4, <3>1 DEF JournalMetadata
    <3> QED
      BY <1>1, <1>2, <2>1, <3>6, <3>7
  <2> QED
    BY <2>3, <2>4
<1> QED
  BY <1>3, <1>4, <1>5 DEF ContainerImporters

LEMMA Decides ==
    ASSUME entities \in Seq(Body), job \in Importers,
           NEW k \in DOMAIN rows, rows[k] \in ImportRow, NEW chance \in BOOLEAN
    PROVE  Decision(k, Decide(rows[k], chance))
BY FilesDecide, ReleasesDecide, ContainersDecide DEF Importers

-----------------------------------------------------------------------------
(* Types. *)

GroupOK(eg) == eg \in [DOMAIN eg -> Body] /\ DOMAIN eg \subseteq DOMAIN entities

LEMMA AcceptedIs ==
    ASSUME entities \in Seq(Body), NEW eg, GroupOK(eg), NEW new, new = Accepted(eg)
    PROVE  /\ new \in Seq(Body) /\ DOMAIN new = DOMAIN entities
           /\ \A i \in DOMAIN eg : new[i] = eg[i]
           /\ \A i \in DOMAIN entities \ DOMAIN eg : new[i] = entities[i]
<1>1. DOMAIN entities = 1 .. Len(entities) /\ Len(entities) \in Nat
  BY LenProperties
<1> HIDE DEF Body
<1>2. new = [i \in 1 .. Len(entities) |-> IF i \in DOMAIN eg THEN eg[i] ELSE entities[i]]
  BY <1>1 DEF Accepted
<1>3. \A i \in 1 .. Len(entities) : new[i] \in Body
  BY <1>1, <1>2 DEF GroupOK
<1>4. new \in Seq(Body)
  BY <1>1, <1>2, <1>3, IsASeq
<1> QED
  BY <1>1, <1>2, <1>4 DEF GroupOK

LEMMA InsertedIs ==
    ASSUME entities \in Seq(Body), NEW queue \in Seq(Body), NEW new, new = Inserted(entities, queue)
    PROVE  /\ new \in Seq(Body) /\ DOMAIN entities \subseteq DOMAIN new
           /\ \A i \in DOMAIN entities : new[i] = entities[i]
           /\ \A i \in DOMAIN new \ DOMAIN entities : \E k \in DOMAIN queue : new[i] = queue[k]
<1> HIDE DEF Body
<1>1. /\ new \in Seq(Body) /\ Len(new) = Len(entities) + Len(queue)
      /\ \A i \in 1 .. Len(entities) + Len(queue) :
            new[i] = IF i <= Len(entities) THEN entities[i] ELSE queue[i - Len(entities)]
  BY ConcatProperties DEF Inserted
<1>2. /\ DOMAIN entities = 1 .. Len(entities) /\ DOMAIN queue = 1 .. Len(queue)
      /\ DOMAIN new = 1 .. Len(entities) + Len(queue)
      /\ Len(entities) \in Nat /\ Len(queue) \in Nat
  BY <1>1, LenProperties
<1>3. ASSUME NEW i \in DOMAIN new \ DOMAIN entities PROVE \E k \in DOMAIN queue : new[i] = queue[k]
  <2>1. i - Len(entities) \in DOMAIN queue /\ ~(i <= Len(entities))
    BY <1>2, <1>3
  <2> QED
    BY <1>1, <1>2, <1>3, <2>1
<1> QED
  BY <1>1, <1>2, <1>3

\* The row at hand.
LEMMA RowIs ==
    ASSUME BulkTypeOK, AtRow
    PROVE  /\ run.next \in DOMAIN rows /\ run.next + 1 \in 1 .. Len(rows) + 1
           /\ job \in Importers => Row \in ImportRow
           /\ job \in Mergers => Row \in MergeRow
           /\ job = "clean_files" => Row \in CleanRow
<1>1. PICK S : /\ rows \in Seq(S)
               /\ S = IF job \in Importers THEN ImportRow ELSE IF job \in Mergers THEN MergeRow ELSE CleanRow
  BY DEF BulkTypeOK, RowsOf
<1>2. Len(rows) \in Nat /\ DOMAIN rows = 1 .. Len(rows)
  BY <1>1, LenProperties
<1>3. run.next \in 1 .. Len(rows) + 1
  BY DEF BulkTypeOK
<1>4. run.next \in DOMAIN rows /\ run.next + 1 \in 1 .. Len(rows) + 1
  BY <1>2, <1>3 DEF AtRow
<1> HIDE DEF ImportRow, MergeRow, CleanRow
<1>5. Row \in S
  BY <1>1, <1>4 DEF Row
<1> QED
  BY <1>1, <1>4, <1>5 DEF Mergers, Importers, FileImporters, ReleaseImporters, ContainerImporters

\* The batch is finite; it is empty when nothing was counted.
LEMMA BatchFinite ==
    ASSUME BulkTypeOK
    PROVE  /\ IsFiniteSet(DOMAIN entities)
           /\ \A S \in SUBSET DOMAIN entities : IsFiniteSet(S) /\ Cardinality(S) \in Nat
           /\ run.count = 0 => DOMAIN editgroup = {}
           /\ DOMAIN rows = 1 .. Len(rows) /\ Len(rows) \in Nat
<1>1. DOMAIN entities = 1 .. Len(entities) /\ Len(entities) \in Nat
  BY LenProperties DEF BulkTypeOK
<1>2. IsFiniteSet(DOMAIN entities)
  BY <1>1, FS_Interval
<1>3. \A S \in SUBSET DOMAIN entities : IsFiniteSet(S) /\ Cardinality(S) \in Nat
  BY <1>2, FS_Subset, FS_CardinalityType
<1>4. ASSUME run.count = 0 PROVE DOMAIN editgroup = {}
  <2>1. Cardinality(DOMAIN editgroup) = 0 /\ IsFiniteSet(DOMAIN editgroup)
    BY <1>3, <1>4 DEF BulkTypeOK, BatchOK
  <2> QED
    BY <2>1, FS_EmptySet
<1>5. DOMAIN rows = 1 .. Len(rows) /\ Len(rows) \in Nat
  BY LenProperties DEF BulkTypeOK, RowsOf
<1> QED
  BY <1>2, <1>3, <1>4, <1>5

\* Of a run and a batch that are of their types.
LEMMA TypeStep ==
    ASSUME BulkTypeOK, UNCHANGED <<job, rows, deaths>>, others' \in 0 .. MaxOthers,
           entities' \in Seq(Body), NEW next \in 1 .. Len(rows) + 1,
           NEW count \in 0 .. EditBatchSize, NEW inflight \in SUBSET Ident,
           NEW queue \in Seq(Body), Len(queue) < EditBatchSize, NEW made \in SUBSET ExtId,
           run' = [next |-> next, count |-> count, inflight |-> inflight, queue |-> queue,
                   made |-> made],
           BatchOK', raced' \subseteq DOMAIN editgroup', changed' \subseteq DOMAIN entities'
    PROVE  BulkTypeOK'
BY DEF BulkTypeOK

LEMMA RunIs ==
    ASSUME BulkTypeOK
    PROVE  /\ run.next \in 1 .. Len(rows) + 1 /\ run.count \in 0 .. EditBatchSize
           /\ run.inflight \in SUBSET Ident /\ run.queue \in Seq(Body)
           /\ Len(run.queue) < EditBatchSize /\ run.made \in SUBSET ExtId
           /\ run = [next |-> run.next, count |-> run.count, inflight |-> run.inflight,
                     queue |-> run.queue, made |-> run.made]
BY DEF BulkTypeOK

LEMMA NewRunIs ==
    /\ NewRun = [next |-> 1, count |-> 0, inflight |-> {}, queue |-> << >>, made |-> {}]
    /\ << >> \in Seq(Body) /\ Len(<< >>) = 0 /\ Len(<< >>) < EditBatchSize
    /\ 0 \in 0 .. EditBatchSize /\ {} \in SUBSET ExtId
BY BulkAssumption DEF NewRun

\* A process that ends leaves the catalog.
LEMMA EndsKeepsTypes ==
    ASSUME BulkTypeOK, UNCHANGED <<job, rows, entities, changed>>, ProcessEnds,
           others' = others, deaths' \in 0 .. MaxDeaths
    PROVE  BulkTypeOK'
<1>1. /\ run' = [next |-> 1, count |-> 0, inflight |-> {}, queue |-> << >>, made |-> {}]
      /\ editgroup' = << >> /\ raced' = {}
  BY NewRunIs DEF ProcessEnds
<1>2. 1 \in 1 .. Len(rows) + 1
  BY BatchFinite
<1>3. DOMAIN editgroup' = {} /\ Cardinality(DOMAIN editgroup') = 0
  BY <1>1, EmptyIs, FS_EmptySet
<1>4. editgroup' \in [DOMAIN editgroup' -> Body]
  BY <1>1, <1>3
<1>5. BatchOK'
  BY <1>1, <1>3, <1>4 DEF BatchOK
<1> QED
  BY <1>1, <1>2, <1>3, <1>5, NewRunIs DEF BulkTypeOK

LEMMA EndRowKeepsTypes ==
    ASSUME BulkTypeOK, AtRow, job \notin Importers, UNCHANGED <<job, rows, others, deaths>>,
           NEW eg, GroupOK(eg), NEW n \in Nat, NEW idents \in SUBSET Ident,
           Cardinality(DOMAIN eg) <= run.count + n, DOMAIN eg \subseteq run.inflight \cup idents,
           DOMAIN editgroup \subseteq DOMAIN eg, EndRow(eg, n, idents)
    PROVE  BulkTypeOK'
<1>1. job \notin Guarded
  BY DEF Importers, FileImporters, Guarded
<1>2. PICK next, count, inflight, queue, made :
         /\ run.next = next /\ run.count = count /\ run.inflight = inflight /\ run.queue = queue
         /\ run.made = made
  OBVIOUS
<1>3. /\ next + 1 \in 1 .. Len(rows) + 1 /\ count \in 0 .. EditBatchSize
      /\ inflight \in SUBSET Ident /\ queue \in Seq(Body) /\ Len(queue) < EditBatchSize
      /\ made \in SUBSET ExtId
      /\ run = [next |-> next, count |-> count, inflight |-> inflight, queue |-> queue,
                made |-> made]
      /\ EditBatchSize \in Nat
  BY <1>2, RowIs, RunIs, BulkAssumption
<1> HIDE DEF Body
<1>4. CASE count + n < EditBatchSize
  <2>1. /\ editgroup' = eg /\ UNCHANGED <<entities, changed, raced>>
        /\ run' = [run EXCEPT !.next = @ + 1, !.count = @ + n, !.inflight = @ \cup idents]
    BY <1>2, <1>4 DEF EndRow
  <2>2. run' = [next |-> next + 1, count |-> count + n, inflight |-> inflight \cup idents,
                queue |-> queue, made |-> made]
    BY <1>3, <2>1
  <2>3. BatchOK'
    BY <1>1, <1>2, <2>1, <2>2 DEF BatchOK, GroupOK
  <2>4. count + n \in 0 .. EditBatchSize
    BY <1>3, <1>4
  <2> QED
    BY <1>3, <2>1, <2>2, <2>3, <2>4, TypeStep DEF BulkTypeOK
<1>5. CASE ~(count + n < EditBatchSize) /\ Refused(eg)
  BY <1>2, <1>5, EndsKeepsTypes DEF EndRow, BulkTypeOK
<1>6. CASE ~(count + n < EditBatchSize) /\ ~Refused(eg)
  <2>1. /\ entities' = Accepted(eg) /\ changed' = changed \cup DOMAIN eg
        /\ run' = [run EXCEPT !.next = @ + 1, !.count = 0, !.inflight = {}]
        /\ editgroup' = << >> /\ raced' = {}
    BY <1>2, <1>6 DEF EndRow
  <2>2. run' = [next |-> next + 1, count |-> 0, inflight |-> {}, queue |-> queue, made |-> made]
    BY <1>3, <2>1
  <2>3. entities' \in Seq(Body) /\ DOMAIN entities' = DOMAIN entities
    BY <2>1, AcceptedIs DEF BulkTypeOK
  <2>4. DOMAIN editgroup' = {} /\ Cardinality(DOMAIN editgroup') = 0
    BY <2>1, EmptyIs, FS_EmptySet
  <2>5. editgroup' \in [DOMAIN editgroup' -> Body]
    BY <2>1, <2>4
  <2>6. BatchOK'
    BY <2>2, <2>4, <2>5 DEF BatchOK
  <2>7. changed' \subseteq DOMAIN entities' /\ 0 \in 0 .. EditBatchSize /\ {} \in SUBSET Ident
    BY <1>3, <2>1, <2>3 DEF GroupOK, BulkTypeOK
  <2> QED
    BY <1>3, <2>1, <2>2, <2>3, <2>4, <2>6, <2>7, TypeStep DEF BulkTypeOK
<1> QED
  BY <1>4, <1>5, <1>6

-----------------------------------------------------------------------------
(* The edits of a merge. *)

Carries(old, new) ==
    old.urls \subseteq new.urls /\ old.links \subseteq new.links /\ old.marks \subseteq new.marks

Bodies == \A i \in DOMAIN entities : i \in Ident /\ entities[i] \in Body

LEMMA BodiesOK ==
    ASSUME BulkTypeOK
    PROVE  Bodies
<1>1. entities \in Seq(Body)
  BY DEF BulkTypeOK
<1>2. DOMAIN entities = 1 .. Len(entities) /\ Len(entities) \in Nat
  BY <1>1, LenProperties
<1> HIDE DEF Body
<1> QED
  BY <1>1, <1>2 DEF Ident, Bodies

LEMMA RedirectsAre ==
    ASSUME Bodies, NEW p \in Ident, NEW dupes \in SUBSET DOMAIN entities,
           NEW new, new = Redirects(p, dupes)
    PROVE  /\ DOMAIN new = dupes
           /\ \A i \in dupes : new[i] \in Body /\ new[i].to = p
<1>1. new = [i \in dupes |-> [entities[i] EXCEPT !.to = p]]
  BY DEF Redirects
<1>2. ASSUME NEW i \in dupes PROVE new[i] \in Body /\ new[i].to = p
  <2>1. PICK old \in Body : old = entities[i]
    BY DEF Bodies
  <2>2. new[i] = [to |-> p, ids |-> old.ids, urls |-> old.urls, links |-> old.links,
                  marks |-> old.marks]
    BY <1>1, <2>1 DEF Body
  <2> QED
    BY <2>1, <2>2 DEF Body, Ident
<1> QED
  BY <1>1, <1>2

LEMMA MergedFileIs ==
    ASSUME Bodies, NEW p \in DOMAIN entities, NEW dupes \in SUBSET DOMAIN entities,
           NEW new, new = MergedFile(p, dupes)
    PROVE  /\ new \in Body /\ new.to = entities[p].to /\ Keeps(Assigned, entities[p], new)
           /\ \A j \in dupes : Carries(entities[j], new)
<1>1. PICK old, urls, links, marks :
         /\ old = entities[p]
         /\ urls = UNION {entities[i].urls : i \in dupes}
         /\ links = UNION {entities[i].links : i \in dupes}
         /\ marks = UNION {entities[i].marks : i \in dupes}
  OBVIOUS
<1>2. old \in Body /\ urls \subseteq Url /\ links \subseteq Link /\ marks \subseteq Mark
  BY <1>1 DEF Bodies, Body
<1>3. new = [old EXCEPT !.urls = @ \cup urls, !.links = @ \cup links, !.marks = @ \cup marks]
  BY <1>1 DEF MergedFile
<1>4. new = [to |-> old.to, ids |-> old.ids, urls |-> old.urls \cup urls,
             links |-> old.links \cup links, marks |-> old.marks \cup marks]
  BY <1>2, <1>3 DEF Body
<1>5. \A j \in dupes : /\ entities[j].urls \subseteq urls /\ entities[j].links \subseteq links
                       /\ entities[j].marks \subseteq marks
  BY <1>1
<1>6. new \in Body
  <2>1. /\ old.to \in Nat /\ old.ids \subseteq ExtId /\ old.urls \subseteq Url
        /\ old.links \subseteq Link /\ old.marks \subseteq Mark
    BY <1>2 DEF Body
  <2> QED
    BY <1>2, <1>4, <2>1 DEF Body
<1>7. Keeps(Assigned, old, new)
  BY <1>4 DEF Keeps
<1>8. \A j \in dupes : Carries(entities[j], new)
  BY <1>4, <1>5 DEF Carries
<1> QED
  BY <1>1, <1>4, <1>6, <1>7, <1>8

\* The edits of a merge: to the primary, which carries what the others have.
Merging(new, p, idents) ==
    /\ p \in idents /\ GroupOK(new) /\ DOMAIN new \subseteq idents
    /\ \A i \in DOMAIN new \ {p} : new[i].to = p
    /\ p \in DOMAIN new => new[p].to = 0 /\ Keeps(Assigned, entities[p], new[p])
    /\ DOMAIN new = {} \/ idents \ {p} \subseteq DOMAIN new
    /\ job = "merge_files" =>
          \A j \in idents \ {p} :
             Carries(entities[j], IF p \in DOMAIN new THEN new[p] ELSE entities[p])

LEMMA MergeIs ==
    ASSUME Bodies, job \in Mergers, NEW idents, NEW r, Mergeable(r, idents),
           NEW p \in Primaries(idents), NEW new, new = MergeEdits(p, idents \ {p})
    PROVE  Merging(new, p, idents) /\ idents \subseteq DOMAIN entities
<1>1. PICK dupes : dupes = idents \ {p}
  OBVIOUS
<1>2. /\ p \in idents /\ idents \subseteq DOMAIN entities /\ dupes \subseteq DOMAIN entities
      /\ p \in Ident /\ p \in DOMAIN entities
  BY <1>1 DEF Primaries, Mergeable, Active, Bodies
<1>3. entities[p].to = 0
  BY <1>2 DEF Mergeable, Active
<1>4. PICK redirects : redirects = Redirects(p, dupes)
  OBVIOUS
<1>5. /\ DOMAIN redirects = dupes
      /\ \A i \in dupes : redirects[i] \in Body /\ redirects[i].to = p
  BY <1>2, <1>4, RedirectsAre
<1>6. redirects \in [dupes -> Body]
  <2>1. redirects = [i \in dupes |-> [entities[i] EXCEPT !.to = p]]
    BY <1>4 DEF Redirects
  <2> HIDE DEF Body
  <2> QED
    BY <1>5, <2>1
<1> HIDE DEF Body
<1>7. CASE job = "merge_containers"
  <2>1. new = << >> \/ new = redirects
    BY <1>1, <1>4, <1>7 DEF MergeEdits, ContainerEdits
  <2>2. CASE new = << >>
    <3>1. DOMAIN new = {} /\ new \in [DOMAIN new -> Body]
      <4>1. DOMAIN new = {}
        BY <2>2, EmptyIs
      <4>2. new = [i \in {} |-> new[i]]
        BY <2>2
      <4> QED
        BY <4>1, <4>2
    <3> QED
      BY <1>2, <1>7, <3>1 DEF Merging, GroupOK
  <2>3. CASE new = redirects
    BY <1>1, <1>2, <1>5, <1>6, <1>7, <2>3 DEF Merging, GroupOK
  <2> QED
    BY <1>2, <2>1, <2>2, <2>3
<1>8. CASE job = "merge_files"
  <2>1. PICK merged, edits : /\ merged = MergedFile(p, dupes)
                             /\ edits = [i \in IF merged = entities[p] THEN {} ELSE {p} |-> merged]
    OBVIOUS
  <2>2. new = Joined(redirects, edits)
    BY <1>1, <1>4, <1>8, <2>1 DEF MergeEdits, FileEdits
  <2>3. /\ merged \in Body /\ merged.to = entities[p].to /\ Keeps(Assigned, entities[p], merged)
        /\ \A j \in dupes : Carries(entities[j], merged)
    BY <1>2, <2>1, MergedFileIs
  <2>4. /\ DOMAIN new = dupes \cup DOMAIN edits
        /\ \A i \in dupes : new[i] = redirects[i]
        /\ \A i \in DOMAIN edits \ dupes : new[i] = edits[i]
        /\ (\A i \in DOMAIN new : new[i] \in Body) => new \in [DOMAIN new -> Body]
    <3>1. /\ DOMAIN new = DOMAIN redirects \cup DOMAIN edits
          /\ \A i \in DOMAIN redirects : new[i] = redirects[i]
          /\ \A i \in DOMAIN edits \ DOMAIN redirects : new[i] = edits[i]
          /\ \A S : (\A i \in DOMAIN new : new[i] \in S) => new \in [DOMAIN new -> S]
      BY <2>2, JoinedIs
    <3> QED
      BY <1>5, <3>1
  <2>5. p \notin dupes
    BY <1>1
  <2>6. CASE merged = entities[p]
    <3>1. DOMAIN new = dupes /\ \A i \in dupes : new[i] = redirects[i]
      BY <2>1, <2>4, <2>6
    <3>2. new \in [DOMAIN new -> Body]
      BY <1>5, <2>4, <3>1
    <3> QED
      BY <1>1, <1>2, <1>5, <2>3, <2>5, <2>6, <3>1, <3>2 DEF Merging, GroupOK
  <2>7. CASE merged # entities[p]
    <3>1. DOMAIN edits = {p} /\ edits[p] = merged
      BY <2>1, <2>7
    <3>2. DOMAIN new = dupes \cup {p} /\ new[p] = merged
      BY <2>4, <2>5, <3>1
    <3>3. new \in [DOMAIN new -> Body]
      BY <1>5, <2>3, <2>4, <3>2
    <3> QED
      BY <1>1, <1>2, <1>3, <1>5, <2>3, <2>4, <2>5, <3>2, <3>3 DEF Merging, GroupOK
  <2> QED
    BY <2>6, <2>7
<1> QED
  BY <1>7, <1>8 DEF Mergers

-----------------------------------------------------------------------------
(* What a step does with a row. *)

LEMMA PushRowIs ==
    ASSUME BulkTypeOK, PushRow
    PROVE  /\ job \in Importers /\ AtRow /\ UNCHANGED <<job, rows, others, deaths>>
           /\ \/ SkipRow
              \/ QueueEntity(Row)
              \/ ProcessEnds /\ UNCHANGED <<entities, changed>>
              \/ \E i \in DOMAIN entities, body \in Body :
                    Fits(run.next, i, body) /\ UpdateEntity(i, body)
<1>1. job \in Importers /\ AtRow /\ UNCHANGED <<job, rows, others, deaths>>
  BY DEF PushRow
<1>2. PICK chance \in BOOLEAN :
         LET d == Decide(Row, chance)
         IN  \/ d.do = "skip" /\ SkipRow
             \/ d.do = "insert" /\ QueueEntity(Row)
             \/ d.do = "update" /\ UpdateEntity(d.ident, d.body)
             \/ d.do = "end" /\ ProcessEnds /\ UNCHANGED <<entities, changed>>
  BY DEF PushRow
<1>3. PICK d, k : d = Decide(Row, chance) /\ k = run.next
  OBVIOUS
<1>4. k \in DOMAIN rows /\ Row = rows[k] /\ rows[k] \in ImportRow
  BY <1>1, <1>3, RowIs DEF Row
<1>5. Decision(k, d)
  BY <1>1, <1>3, <1>4, Decides DEF BulkTypeOK
<1>6. \/ d.do = "skip" /\ SkipRow
      \/ d.do = "insert" /\ QueueEntity(Row)
      \/ d.do = "update" /\ UpdateEntity(d.ident, d.body)
      \/ d.do = "end" /\ ProcessEnds /\ UNCHANGED <<entities, changed>>
  BY <1>2, <1>3
<1>7. CASE d = Skip
  <2>1. d.do = "skip"
    BY <1>7 DEF Skip
  <2> QED
    BY <1>1, <1>6, <2>1
<1>8. CASE d = Insert
  <2>1. d.do = "insert"
    BY <1>8 DEF Insert
  <2> QED
    BY <1>1, <1>6, <2>1
<1>9. ASSUME NEW i \in DOMAIN entities, NEW body \in Body, d = Update(i, body), Fits(k, i, body)
      PROVE  Fits(k, i, body) /\ UpdateEntity(i, body)
  <2>1. d.do = "update" /\ d.ident = i /\ d.body = body
    BY <1>9 DEF Update
  <2> QED
    BY <1>6, <1>9, <2>1
<1>10. CASE d = End
  <2>1. d.do = "end"
    BY <1>10 DEF End
  <2> QED
    BY <1>1, <1>6, <2>1
<1> QED
  BY <1>1, <1>3, <1>5, <1>7, <1>8, <1>9, <1>10 DEF Decision

\* A row that is merged: its idents, the primary and the edits.
Merged(idents, p, new) ==
    /\ idents = Row.idents /\ idents \in SUBSET Ident /\ idents \subseteq DOMAIN entities
    /\ idents \cap run.inflight = {} /\ Merging(new, p, idents)
    /\ EndRow(Joined(editgroup, new), Cardinality(DOMAIN new), idents)

LEMMA MergeRowIs ==
    ASSUME BulkTypeOK, MergeRowStep
    PROVE  /\ job \in Mergers /\ AtRow /\ UNCHANGED <<job, rows, others, deaths>>
           /\ \/ SkipRow
              \/ ProcessEnds /\ UNCHANGED <<entities, changed>>
              \/ \E idents \in SUBSET Ident : EndRow(editgroup, 0, idents)
              \/ \E idents, p, new : Merged(idents, p, new)
<1>1. job \in Mergers /\ AtRow /\ UNCHANGED <<job, rows, others, deaths>>
  BY DEF MergeRowStep
<1>2. PICK r : r = Row
  OBVIOUS
<1>3. r.idents \in SUBSET Ident /\ r.primary \in Nat
  BY <1>1, <1>2, RowIs DEF MergeRow
<1>4. PICK dupes, idents, fresh :
         /\ dupes = r.idents \ {r.primary}
         /\ idents = dupes \cup ({r.primary} \ {0})
         /\ fresh = (Cardinality(idents) >= 2 /\ ~InFlight(idents))
  OBVIOUS
<1>5. \/ SkipRow
      \/ ProcessEnds /\ UNCHANGED <<entities, changed>>
      \/ fresh /\ EndRow(editgroup, 0, idents)
      \/ /\ fresh /\ Mergeable(r, idents) /\ r.primary = 0
         /\ \E p \in Primaries(idents) :
               LET new == MergeEdits(p, idents \ {p})
               IN  EndRow(Joined(editgroup, new), Cardinality(DOMAIN new), idents)
  BY <1>2, <1>4 DEF MergeRowStep
<1>6. idents \in SUBSET Ident
  BY <1>3, <1>4 DEF Ident
<1>7. ASSUME fresh, Mergeable(r, idents), r.primary = 0, NEW p \in Primaries(idents),
             NEW new, new = MergeEdits(p, idents \ {p}),
             EndRow(Joined(editgroup, new), Cardinality(DOMAIN new), idents)
      PROVE  Merged(idents, p, new)
  <2>1. idents = r.idents
    BY <1>3, <1>4, <1>7 DEF Ident
  <2>2. idents \cap run.inflight = {}
    BY <1>4, <1>7 DEF InFlight
  <2>3. Merging(new, p, idents) /\ idents \subseteq DOMAIN entities
    BY <1>1, <1>7, BodiesOK, MergeIs
  <2> QED
    BY <1>2, <1>6, <1>7, <2>1, <2>2, <2>3 DEF Merged
<1> QED
  BY <1>1, <1>5, <1>6, <1>7

\* A file that is cleaned.
CleanedRow(i, body) ==
    /\ i = Row.ident /\ i \in Ident /\ Active(i) /\ i \notin changed /\ i \notin run.inflight
    /\ Row.body.to = 0 /\ body = Cleaned(Row.body) /\ body \in Body /\ body.to = 0
    /\ Keeps(Assigned, Row.body, body)
    /\ EndRow(Joined(editgroup, OneEdit(i, body)), 1, {i})

LEMMA CleanRowIs ==
    ASSUME BulkTypeOK, CleanRowStep
    PROVE  /\ job = "clean_files" /\ AtRow /\ UNCHANGED <<job, rows, others, deaths>>
           /\ \/ SkipRow
              \/ ProcessEnds /\ UNCHANGED <<entities, changed>>
              \/ \E i, body : CleanedRow(i, body)
<1>1. job = "clean_files" /\ AtRow /\ UNCHANGED <<job, rows, others, deaths>>
  BY DEF CleanRowStep
<1>2. PICK i, old, body : i = Row.ident /\ old = Row.body /\ body = Cleaned(old)
  OBVIOUS
<1>3. i \in Ident /\ old \in Body
  BY <1>1, <1>2, RowIs DEF CleanRow
<1>4. \/ SkipRow
      \/ ProcessEnds /\ UNCHANGED <<entities, changed>>
      \/ /\ old.to = 0 /\ ~InFlight({i}) /\ Active(i) /\ i \notin changed
         /\ EndRow(Joined(editgroup, OneEdit(i, body)), 1, {i})
  BY <1>2 DEF CleanRowStep
<1>5. body = [to |-> old.to, ids |-> old.ids, urls |-> old.urls \ BrokenUrl, links |-> old.links,
              marks |-> old.marks]
  BY <1>2, <1>3 DEF Body, Cleaned
<1>6. body \in Body /\ body.to = old.to /\ Keeps(Assigned, old, body)
  <2>1. /\ old.to \in Nat /\ old.ids \subseteq ExtId /\ old.urls \subseteq Url
        /\ old.links \subseteq Link /\ old.marks \subseteq Mark
    BY <1>3 DEF Body
  <2>2. body \in Body
    BY <1>5, <2>1 DEF Body
  <2> QED
    BY <1>5, <2>2 DEF Keeps
<1>7. ~InFlight({i}) => i \notin run.inflight
  BY DEF InFlight
<1> QED
  BY <1>1, <1>2, <1>3, <1>4, <1>6, <1>7 DEF CleanedRow

\* Edits of other idents join those of the batch.
LEMMA JoinedGroup ==
    ASSUME BulkTypeOK, NEW new, GroupOK(new), DOMAIN editgroup \cap DOMAIN new = {},
           NEW all, all = Joined(editgroup, new), NEW n, n = Cardinality(DOMAIN new)
    PROVE  /\ GroupOK(all) /\ n \in Nat /\ Cardinality(DOMAIN all) <= run.count + n
           /\ DOMAIN all = DOMAIN editgroup \cup DOMAIN new
           /\ \A i \in DOMAIN editgroup : all[i] = editgroup[i]
           /\ \A i \in DOMAIN new : all[i] = new[i]
<1>1. /\ GroupOK(editgroup)
      /\ Cardinality(DOMAIN editgroup) <= run.count /\ run.count \in Nat
  BY BulkAssumption DEF BulkTypeOK, BatchOK, GroupOK
<1>2. /\ DOMAIN all = DOMAIN editgroup \cup DOMAIN new
      /\ \A i \in DOMAIN editgroup : all[i] = editgroup[i]
      /\ \A i \in DOMAIN new \ DOMAIN editgroup : all[i] = new[i]
      /\ (\A i \in DOMAIN all : all[i] \in Body) => all \in [DOMAIN all -> Body]
  <2>1. PICK eg, S : eg = editgroup /\ S = Body
    OBVIOUS
  <2>2. all = Joined(eg, new)
    BY <2>1
  <2>3. /\ DOMAIN all = DOMAIN eg \cup DOMAIN new
        /\ \A i \in DOMAIN eg : all[i] = eg[i]
        /\ \A i \in DOMAIN new \ DOMAIN eg : all[i] = new[i]
        /\ (\A i \in DOMAIN all : all[i] \in S) => all \in [DOMAIN all -> S]
    <3>1. \A T : (\A i \in DOMAIN all : all[i] \in T) => all \in [DOMAIN all -> T]
      BY <2>2, JoinedIs, Zenon
    <3>2. /\ DOMAIN all = DOMAIN eg \cup DOMAIN new
          /\ \A i \in DOMAIN eg : all[i] = eg[i]
          /\ \A i \in DOMAIN new \ DOMAIN eg : all[i] = new[i]
      BY <2>2 DEF Joined
    <3>3. (\A i \in DOMAIN all : all[i] \in S) => all \in [DOMAIN all -> S]
      BY <3>1, Zenon
    <3> QED
      BY <3>2, <3>3
  <2> HIDE DEF Body
  <2> QED
    BY <2>1, <2>3
<1>3. \A i \in DOMAIN new : all[i] = new[i]
  BY <1>2
<1>4. \A i \in DOMAIN all : all[i] \in Body
  <2> HIDE DEF Body
  <2> QED
    BY <1>1, <1>2, <1>3 DEF GroupOK
<1>5. GroupOK(all)
  BY <1>1, <1>2, <1>4 DEF GroupOK
<1>6. /\ IsFiniteSet(DOMAIN editgroup) /\ IsFiniteSet(DOMAIN new)
      /\ Cardinality(DOMAIN editgroup) \in Nat /\ n \in Nat
  BY <1>1, BatchFinite DEF GroupOK
<1>7. Cardinality(DOMAIN all) = Cardinality(DOMAIN editgroup) + n
  <2>1. PICK a, b : a = DOMAIN editgroup /\ b = DOMAIN new
    OBVIOUS
  <2>2. IsFiniteSet(a) /\ IsFiniteSet(b) /\ a \cap b = {}
    BY <1>6, <2>1
  <2>3. Cardinality(a \cup b) = Cardinality(a) + Cardinality(b) - Cardinality(a \cap b)
    BY <2>2, FS_Union
  <2>4. Cardinality(a \cap b) = 0 /\ Cardinality(a) \in Nat /\ Cardinality(b) \in Nat
    BY <2>2, FS_EmptySet, FS_CardinalityType
  <2> QED
    BY <1>2, <2>1, <2>3, <2>4
<1> QED
  BY <1>1, <1>2, <1>3, <1>5, <1>6, <1>7

\* The idents of a row that is merged or cleaned are not in the batch.
LEMMA RowApart ==
    ASSUME BulkTypeOK, job \notin Importers, NEW idents, idents \cap run.inflight = {}
    PROVE  DOMAIN editgroup \cap idents = {} /\ DOMAIN editgroup \subseteq run.inflight
BY DEF BulkTypeOK, BatchOK

LEMMA OneEditIs ==
    ASSUME NEW i \in DOMAIN entities, NEW body \in Body, NEW e, e = OneEdit(i, body)
    PROVE  DOMAIN e = {i} /\ e[i] = body /\ GroupOK(e) /\ Cardinality(DOMAIN e) = 1
<1> HIDE DEF Body
<1>1. DOMAIN e = {i} /\ e[i] = body /\ e \in [{i} -> Body]
  BY DEF OneEdit
<1>2. Cardinality({i}) = 1
  BY FS_Singleton
<1> QED
  BY <1>1, <1>2 DEF GroupOK

-----------------------------------------------------------------------------
(* Every step keeps the types. *)

LEMMA SkipRowKeepsTypes ==
    ASSUME BulkTypeOK, AtRow, UNCHANGED <<job, rows, others, deaths>>, SkipRow
    PROVE  BulkTypeOK'
<1>1. PICK next, count, inflight, queue, made :
         /\ run.next = next /\ run.count = count /\ run.inflight = inflight /\ run.queue = queue
         /\ run.made = made
  OBVIOUS
<1>2. /\ next + 1 \in 1 .. Len(rows) + 1 /\ count \in 0 .. EditBatchSize
      /\ inflight \in SUBSET Ident /\ queue \in Seq(Body) /\ Len(queue) < EditBatchSize
      /\ made \in SUBSET ExtId
      /\ run = [next |-> next, count |-> count, inflight |-> inflight, queue |-> queue,
                made |-> made]
  BY <1>1, RowIs, RunIs
<1> HIDE DEF Body
<1>3. /\ run' = [next |-> next + 1, count |-> count, inflight |-> inflight, queue |-> queue,
                 made |-> made]
      /\ UNCHANGED <<entities, editgroup, changed, raced>>
  BY <1>2 DEF SkipRow
<1>4. BatchOK'
  BY <1>1, <1>3 DEF BatchOK, BulkTypeOK
<1> QED
  BY <1>2, <1>3, <1>4, TypeStep DEF BulkTypeOK

\* An entity is queued, and inserted with the others when the queue is full.
Queued(body, queue) ==
    /\ body \in Body /\ body.to = 0 /\ body.ids = About(Row)
    /\ queue \in Seq(Body) /\ Len(queue) = Len(run.queue) + 1
    /\ \A k \in DOMAIN queue : queue[k] = body \/ \E l \in DOMAIN run.queue : queue[k] = run.queue[l]
    /\ UNCHANGED <<editgroup, changed, raced>>
    /\ \/ /\ entities' = Inserted(entities, queue)
          /\ run' = [next |-> run.next + 1, count |-> run.count, inflight |-> run.inflight,
                     queue |-> << >>, made |-> run.made]
       \/ /\ Len(queue) < EditBatchSize /\ entities' = entities
          /\ run' = [next |-> run.next + 1, count |-> run.count, inflight |-> run.inflight,
                     queue |-> queue, made |-> run.made]

LEMMA QueueIs ==
    ASSUME BulkTypeOK, AtRow, job \in Importers, QueueEntity(Row)
    PROVE  \E body, queue : Queued(body, queue)
<1>1. PICK r, old, E : r = Row /\ old = run.queue /\ E = EditBatchSize
  OBVIOUS
<1>2. r \in ImportRow /\ old \in Seq(Body) /\ Len(old) \in Nat /\ Len(old) < E /\ E \in Nat
  BY <1>1, RowIs, RunIs, LenProperties, BulkAssumption
<1>3. PICK body : body = [to |-> 0, ids |-> r.ids \cup {r.own}, urls |-> r.urls,
                          links |-> r.links, marks |-> r.marks]
  OBVIOUS
<1>4. body \in Body /\ body.to = 0 /\ body.ids = About(Row)
  <2>1. /\ r.ids \cup {r.own} \subseteq ExtId /\ r.urls \subseteq Url
        /\ r.links \subseteq Link /\ r.marks \subseteq Mark
    BY <1>2 DEF ImportRow
  <2> QED
    BY <1>1, <1>3, <2>1 DEF Body, About
<1>5. PICK queue : queue = Append(old, body)
  OBVIOUS
<1>6. /\ UNCHANGED <<editgroup, changed, raced>>
      /\ entities' = (IF Len(queue) >= E THEN Inserted(entities, queue) ELSE entities)
      /\ run' = [run EXCEPT !.next = @ + 1, !.queue = IF Len(queue) >= E THEN << >> ELSE queue]
  BY <1>1, <1>3, <1>5 DEF QueueEntity
<1> HIDE DEF Body
<1>7. /\ queue \in Seq(Body) /\ Len(queue) = Len(old) + 1
      /\ \A k \in 1 .. Len(old) : queue[k] = old[k]
      /\ queue[Len(old) + 1] = body
  BY <1>2, <1>4, <1>5, AppendProperties
<1>8. \A k \in DOMAIN queue : queue[k] = body \/ \E l \in DOMAIN old : queue[k] = old[l]
  <2>1. DOMAIN queue = 1 .. Len(old) + 1 /\ DOMAIN old = 1 .. Len(old)
    BY <1>2, <1>7, LenProperties
  <2>2. ASSUME NEW k \in DOMAIN queue, k # Len(old) + 1 PROVE k \in 1 .. Len(old)
    BY <1>2, <2>1, <2>2
  <2> QED
    BY <1>7, <2>1, <2>2
<1>9. run' = [next |-> run.next + 1, count |-> run.count, inflight |-> run.inflight,
              queue |-> IF Len(queue) >= E THEN << >> ELSE queue, made |-> run.made]
  BY <1>6, RunIs
<1>10. Queued(body, queue)
  <2>1. CASE Len(queue) >= E
    BY <1>1, <1>4, <1>6, <1>7, <1>8, <1>9, <2>1 DEF Queued
  <2>2. CASE ~(Len(queue) >= E)
    <3>1. Len(queue) < EditBatchSize
      BY <1>1, <1>2, <1>7, <2>2
    <3> QED
      BY <1>1, <1>4, <1>6, <1>7, <1>8, <1>9, <2>2, <3>1 DEF Queued
  <2> QED
    BY <2>1, <2>2
<1> QED
  BY <1>10

LEMMA QueuedKeepsTypes ==
    ASSUME BulkTypeOK, AtRow, job \in Importers, UNCHANGED <<job, rows, others, deaths>>,
           NEW body, NEW queue, Queued(body, queue)
    PROVE  BulkTypeOK'
<1>1. PICK next, count, inflight :
         run.next = next /\ run.count = count /\ run.inflight = inflight
  OBVIOUS
<1>2. /\ next + 1 \in 1 .. Len(rows) + 1 /\ count \in 0 .. EditBatchSize
      /\ inflight \in SUBSET Ident
  BY <1>1, RowIs, RunIs
<1> HIDE DEF Body
<1>3. queue \in Seq(Body) /\ UNCHANGED <<editgroup, changed, raced>>
  BY DEF Queued
<1>4. CASE /\ entities' = Inserted(entities, queue)
           /\ run' = [next |-> next + 1, count |-> count, inflight |-> inflight, queue |-> << >>,
                      made |-> run.made]
  <2>1. PICK new : new = entities'
    OBVIOUS
  <2>2. new \in Seq(Body) /\ DOMAIN entities \subseteq DOMAIN new
    BY <1>3, <1>4, <2>1, InsertedIs DEF BulkTypeOK
  <2>3. BatchOK'
    BY <1>1, <1>3, <1>4, <2>1, <2>2 DEF BatchOK, BulkTypeOK
  <2>4. << >> \in Seq(Body) /\ Len(<< >>) < EditBatchSize
    BY NewRunIs
  <2> QED
    BY <1>2, <1>3, <1>4, <2>1, <2>2, <2>3, <2>4, TypeStep DEF BulkTypeOK
<1>5. CASE /\ Len(queue) < EditBatchSize /\ entities' = entities
           /\ run' = [next |-> next + 1, count |-> count, inflight |-> inflight, queue |-> queue,
                      made |-> run.made]
  <2>1. BatchOK'
    BY <1>1, <1>3, <1>5 DEF BatchOK, BulkTypeOK
  <2> QED
    BY <1>2, <1>3, <1>5, <2>1, TypeStep DEF BulkTypeOK
<1> QED
  BY <1>1, <1>4, <1>5 DEF Queued

\* An update is made: in a new editgroup, in the open one, or it is refused.
NewBatch(i, body) ==
    /\ entities' = Accepted(editgroup) /\ changed' = changed \cup DOMAIN editgroup
    /\ editgroup' = OneEdit(i, body) /\ raced' = {}
    /\ run' = [next |-> run.next + 1, count |-> 1,
               inflight |-> IF job \in Guarded THEN {i} ELSE {}, queue |-> run.queue,
               made |-> run.made]
JoinsBatch(i, body) ==
    /\ UNCHANGED <<entities, changed, raced>>
    /\ i \notin DOMAIN editgroup /\ run.count < EditBatchSize
    /\ editgroup' = Joined(editgroup, OneEdit(i, body))
    /\ run' = [next |-> run.next + 1, count |-> run.count + 1,
               inflight |-> run.inflight \cup (IF job \in Guarded THEN {i} ELSE {}),
               queue |-> run.queue, made |-> run.made]
NotTaken ==
    /\ UNCHANGED <<entities, editgroup, changed, raced>>
    /\ run.count < EditBatchSize
    /\ run' = [next |-> run.next + 1, count |-> run.count + 1, inflight |-> run.inflight,
               queue |-> run.queue, made |-> run.made]

LEMMA UpdateIs ==
    ASSUME BulkTypeOK, NEW i, NEW body, UpdateEntity(i, body)
    PROVE  \/ NewBatch(i, body) \/ JoinsBatch(i, body) \/ NotTaken
           \/ ProcessEnds /\ UNCHANGED <<entities, changed>>
<1>1. PICK next, count, inflight, queue, made :
         /\ run.next = next /\ run.count = count /\ run.inflight = inflight /\ run.queue = queue
         /\ run.made = made
  OBVIOUS
<1>2. /\ run = [next |-> next, count |-> count, inflight |-> inflight, queue |-> queue,
                made |-> made]
      /\ count \in Nat /\ EditBatchSize \in Nat
  BY <1>1, RunIs, BulkAssumption
<1>3. CASE count >= EditBatchSize
  <2>1. DOMAIN << >> = {}
    BY EmptyIs
  <2>2. PICK e : e = OneEdit(i, body)
    OBVIOUS
  <2>3. e = [j \in {i} |-> body]
    BY <2>2 DEF OneEdit
  <2>4. Joined(<< >>, e) = e
    <3>1. Joined(<< >>, e) = [j \in {i} |-> IF j \in {} THEN << >>[j] ELSE e[j]]
      BY <2>1, <2>3 DEF Joined
    <3> QED
      BY <2>3, <3>1
  <2>5. /\ entities' = Accepted(editgroup) /\ changed' = changed \cup DOMAIN editgroup
        /\ \/ /\ editgroup' = Joined(<< >>, e) /\ raced' = {}
              /\ run' = IF job \in Guarded
                        THEN [[run EXCEPT !.next = @ + 1, !.count = 1, !.inflight = {}]
                                 EXCEPT !.inflight = {} \cup {i}]
                        ELSE [run EXCEPT !.next = @ + 1, !.count = 1, !.inflight = {}]
           \/ i \in DOMAIN << >>
    BY <1>1, <1>3, <2>2 DEF UpdateEntity
  <2>6. run' = [next |-> next + 1, count |-> 1, inflight |-> IF job \in Guarded THEN {i} ELSE {},
                queue |-> queue, made |-> made]
    <3>1. CASE job \in Guarded
      <4>1. run' = [[run EXCEPT !.next = @ + 1, !.count = 1, !.inflight = {}]
                       EXCEPT !.inflight = {} \cup {i}]
        BY <2>1, <2>5, <3>1
      <4> QED
        BY <1>2, <3>1, <4>1
    <3>2. CASE job \notin Guarded
      <4>1. run' = [run EXCEPT !.next = @ + 1, !.count = 1, !.inflight = {}]
        BY <2>1, <2>5, <3>2
      <4> QED
        BY <1>2, <3>2, <4>1
    <3> QED
      BY <3>1, <3>2
  <2> QED
    BY <1>1, <2>1, <2>2, <2>4, <2>5, <2>6 DEF NewBatch
<1>4. CASE ~(count >= EditBatchSize)
  <2>1. /\ UNCHANGED <<entities, changed>>
        /\ \/ /\ i \notin DOMAIN editgroup
              /\ editgroup' = Joined(editgroup, OneEdit(i, body)) /\ raced' = raced
              /\ run' = IF job \in Guarded
                        THEN [[run EXCEPT !.next = @ + 1, !.count = @ + 1, !.inflight = inflight]
                                 EXCEPT !.inflight = inflight \cup {i}]
                        ELSE [run EXCEPT !.next = @ + 1, !.count = @ + 1, !.inflight = inflight]
           \/ /\ run' = [run EXCEPT !.next = @ + 1, !.count = @ + 1, !.inflight = inflight]
              /\ UNCHANGED <<editgroup, raced>>
           \/ ProcessEnds
    BY <1>1, <1>4 DEF UpdateEntity
  <2>2. count < EditBatchSize
    BY <1>2, <1>4
  <2>3. CASE /\ i \notin DOMAIN editgroup
             /\ editgroup' = Joined(editgroup, OneEdit(i, body)) /\ raced' = raced
             /\ run' = IF job \in Guarded
                       THEN [[run EXCEPT !.next = @ + 1, !.count = @ + 1, !.inflight = inflight]
                                EXCEPT !.inflight = inflight \cup {i}]
                       ELSE [run EXCEPT !.next = @ + 1, !.count = @ + 1, !.inflight = inflight]
    <3>1. run' = [next |-> next + 1, count |-> count + 1,
                  inflight |-> inflight \cup (IF job \in Guarded THEN {i} ELSE {}),
                  queue |-> queue, made |-> made]
      BY <1>2, <2>3
    <3> QED
      BY <1>1, <2>1, <2>2, <2>3, <3>1 DEF JoinsBatch
  <2>4. CASE /\ run' = [run EXCEPT !.next = @ + 1, !.count = @ + 1, !.inflight = inflight]
             /\ UNCHANGED <<editgroup, raced>>
    BY <1>1, <1>2, <2>1, <2>2, <2>4 DEF NotTaken
  <2> QED
    BY <2>1, <2>3, <2>4
<1> QED
  BY <1>3, <1>4

LEMMA UpdateKeepsTypes ==
    ASSUME BulkTypeOK, AtRow, job \in Importers, UNCHANGED <<job, rows, others, deaths>>,
           NEW i \in DOMAIN entities, NEW body \in Body, UpdateEntity(i, body)
    PROVE  BulkTypeOK'
<1>1. PICK next, count, inflight, queue, made :
         /\ run.next = next /\ run.count = count /\ run.inflight = inflight /\ run.queue = queue
         /\ run.made = made
  OBVIOUS
<1>2. /\ next + 1 \in 1 .. Len(rows) + 1 /\ count \in Nat /\ EditBatchSize \in Nat \ {0}
      /\ inflight \in SUBSET Ident /\ queue \in Seq(Body) /\ Len(queue) < EditBatchSize
      /\ made \in SUBSET ExtId
      /\ {i} \in SUBSET Ident
  BY <1>1, RowIs, RunIs, BodiesOK, BulkAssumption DEF Bodies
<1> HIDE DEF Body
<1>3. PICK e : e = OneEdit(i, body)
  OBVIOUS
<1>4. DOMAIN e = {i} /\ GroupOK(e) /\ Cardinality(DOMAIN e) = 1
  <2>1. DOMAIN e = {i}
    BY <1>3, OneEditIs
  <2>2. GroupOK(e)
    BY <1>3, OneEditIs
  <2>3. Cardinality({i}) = 1
    BY FS_Singleton
  <2> QED
    BY <2>1, <2>2, <2>3
<1>5. CASE NewBatch(i, body)
  <2>1. PICK new : new = Accepted(editgroup)
    OBVIOUS
  <2>2. new \in Seq(Body) /\ DOMAIN new = DOMAIN entities /\ DOMAIN editgroup \subseteq DOMAIN entities
    BY <2>1, AcceptedIs DEF BulkTypeOK, BatchOK, GroupOK
  <2>3. /\ entities' = new /\ changed' = changed \cup DOMAIN editgroup
        /\ editgroup' = e /\ raced' = {}
        /\ run' = [next |-> next + 1, count |-> 1,
                   inflight |-> IF job \in Guarded THEN {i} ELSE {}, queue |-> queue,
                   made |-> made]
    BY <1>1, <1>3, <1>5, <2>1 DEF NewBatch
  <2>4. BatchOK'
    BY <1>4, <2>2, <2>3 DEF BatchOK, GroupOK
  <2>5. changed' \subseteq DOMAIN entities' /\ raced' \subseteq DOMAIN editgroup'
    BY <2>2, <2>3 DEF BulkTypeOK
  <2>6. 1 \in 0 .. EditBatchSize /\ (IF job \in Guarded THEN {i} ELSE {}) \in SUBSET Ident
    BY <1>2
  <2> QED
    BY <1>2, <2>2, <2>3, <2>4, <2>5, <2>6, TypeStep DEF BulkTypeOK
<1>6. CASE JoinsBatch(i, body)
  <2>1. PICK all : all = Joined(editgroup, e)
    OBVIOUS
  <2>2. /\ UNCHANGED <<entities, changed, raced>> /\ i \notin DOMAIN editgroup
        /\ count < EditBatchSize /\ editgroup' = all
        /\ run' = [next |-> next + 1, count |-> count + 1,
                   inflight |-> inflight \cup (IF job \in Guarded THEN {i} ELSE {}),
                   queue |-> queue, made |-> made]
    BY <1>1, <1>3, <1>6, <2>1 DEF JoinsBatch
  <2>3. /\ GroupOK(all) /\ Cardinality(DOMAIN all) <= count + 1
        /\ DOMAIN all = DOMAIN editgroup \cup {i}
    <3>1. DOMAIN editgroup \cap DOMAIN e = {}
      BY <1>4, <2>2
    <3> QED
      BY <1>1, <1>4, <2>1, <3>1, JoinedGroup
  <2>4. BatchOK'
    <3>1. job \in Guarded => inflight = DOMAIN editgroup
      BY <1>1 DEF BulkTypeOK, BatchOK
    <3> QED
      BY <2>2, <2>3, <3>1 DEF BatchOK, GroupOK
  <2>5. changed' \subseteq DOMAIN entities' /\ raced' \subseteq DOMAIN editgroup'
    BY <2>2, <2>3 DEF BulkTypeOK
  <2>6. /\ count + 1 \in 0 .. EditBatchSize
        /\ inflight \cup (IF job \in Guarded THEN {i} ELSE {}) \in SUBSET Ident
    BY <1>2, <2>2
  <2> QED
    BY <1>2, <2>2, <2>4, <2>5, <2>6, TypeStep DEF BulkTypeOK
<1>7. CASE NotTaken
  <2>1. /\ UNCHANGED <<entities, editgroup, changed, raced>> /\ count < EditBatchSize
        /\ run' = [next |-> next + 1, count |-> count + 1, inflight |-> inflight,
                   queue |-> queue, made |-> made]
    BY <1>1, <1>7 DEF NotTaken
  <2>2. Cardinality(DOMAIN editgroup) \in Nat /\ Cardinality(DOMAIN editgroup) <= count
    BY <1>1, BatchFinite DEF BulkTypeOK, BatchOK
  <2>3. Cardinality(DOMAIN editgroup) <= count + 1
    BY <1>2, <2>2
  <2>4. BatchOK'
    BY <1>1, <2>1, <2>3 DEF BatchOK, BulkTypeOK
  <2>5. count + 1 \in 0 .. EditBatchSize
    BY <1>2, <2>1
  <2> QED
    BY <1>2, <2>1, <2>4, <2>5, TypeStep DEF BulkTypeOK
<1>8. CASE ProcessEnds /\ UNCHANGED <<entities, changed>>
  BY <1>8, EndsKeepsTypes DEF BulkTypeOK
<1> QED
  BY <1>5, <1>6, <1>7, <1>8, UpdateIs

\* A container is counted; a full editgroup is accepted before.
LEMMA ContainerKeepsTypes ==
    ASSUME BulkTypeOK, MakeContainer
    PROVE  BulkTypeOK'
<1>1. PICK next, count, inflight, queue, made :
         /\ run.next = next /\ run.count = count /\ run.inflight = inflight /\ run.queue = queue
         /\ run.made = made
  OBVIOUS
<1>2. /\ next \in 1 .. Len(rows) + 1 /\ count \in 0 .. EditBatchSize
      /\ inflight \in SUBSET Ident /\ queue \in Seq(Body) /\ Len(queue) < EditBatchSize
      /\ made \in SUBSET ExtId /\ EditBatchSize \in Nat \ {0}
      /\ run = [next |-> next, count |-> count, inflight |-> inflight, queue |-> queue,
                made |-> made]
  BY <1>1, RunIs, BulkAssumption
<1>3. UNCHANGED <<job, rows, others, deaths>> /\ AtRow /\ job \in Importers
  BY DEF MakeContainer, MakesContainers, Importers, ReleaseImporters
<1>4. PICK journal : journal = Row.journal
  OBVIOUS
<1>5. made \cup journal \in SUBSET ExtId
  <2>1. Row \in ImportRow
    BY <1>3, RowIs
  <2> QED
    BY <1>2, <1>4, <2>1 DEF ImportRow
<1> HIDE DEF Body
<1>6. CASE count >= EditBatchSize
  <2>1. /\ entities' = Accepted(editgroup) /\ changed' = changed \cup DOMAIN editgroup
        /\ run' = [run EXCEPT !.count = 1, !.inflight = {}, !.made = made \cup journal]
        /\ editgroup' = << >> /\ raced' = {}
    BY <1>1, <1>2, <1>4, <1>6 DEF MakeContainer
  <2>2. run' = [next |-> next, count |-> 1, inflight |-> {}, queue |-> queue,
                made |-> made \cup journal]
    BY <1>2, <2>1
  <2>3. /\ entities' \in Seq(Body) /\ DOMAIN entities' = DOMAIN entities
        /\ DOMAIN editgroup \subseteq DOMAIN entities
    BY <2>1, AcceptedIs DEF BulkTypeOK, BatchOK, GroupOK
  <2>4. DOMAIN editgroup' = {} /\ Cardinality(DOMAIN editgroup') = 0
    BY <2>1, EmptyIs, FS_EmptySet
  <2>5. editgroup' \in [DOMAIN editgroup' -> Body]
    BY <2>1, <2>4
  <2>6. BatchOK'
    BY <2>2, <2>4, <2>5 DEF BatchOK
  <2>7. changed' \subseteq DOMAIN entities' /\ {} \in SUBSET Ident /\ 1 \in 0 .. EditBatchSize
    BY <1>2, <2>1, <2>3 DEF BulkTypeOK
  <2> QED
    BY <1>2, <1>3, <1>5, <2>1, <2>2, <2>3, <2>4, <2>6, <2>7, TypeStep DEF BulkTypeOK
<1>7. CASE ~(count >= EditBatchSize)
  <2>1. /\ UNCHANGED <<entities, changed, editgroup, raced>>
        /\ run' = [run EXCEPT !.count = count + 1, !.made = made \cup journal]
    BY <1>1, <1>2, <1>4, <1>7 DEF MakeContainer
  <2>2. run' = [next |-> next, count |-> count + 1, inflight |-> inflight, queue |-> queue,
                made |-> made \cup journal]
    BY <1>2, <2>1
  <2>3. BatchOK'
    <3>1. Cardinality(DOMAIN editgroup) \in Nat /\ Cardinality(DOMAIN editgroup) <= count
      BY <1>1, BatchFinite DEF BulkTypeOK, BatchOK
    <3>2. Cardinality(DOMAIN editgroup) <= count + 1
      BY <1>2, <3>1
    <3> QED
      BY <1>1, <1>3, <2>1, <2>2, <3>2 DEF BatchOK, BulkTypeOK
  <2>4. count + 1 \in 0 .. EditBatchSize
    BY <1>2, <1>7
  <2> QED
    BY <1>2, <1>3, <1>5, <2>1, <2>2, <2>3, <2>4, TypeStep DEF BulkTypeOK
<1> QED
  BY <1>6, <1>7

\* finish().
LEMMA FinishEditsKeepsTypes ==
    ASSUME BulkTypeOK, FinishEdits
    PROVE  BulkTypeOK'
<1>1. PICK next, count, inflight, queue, made :
         /\ run.next = next /\ run.count = count /\ run.inflight = inflight /\ run.queue = queue
         /\ run.made = made
  OBVIOUS
<1>2. /\ next \in 1 .. Len(rows) + 1
      /\ queue \in Seq(Body) /\ Len(queue) < EditBatchSize
      /\ made \in SUBSET ExtId
      /\ run = [next |-> next, count |-> count, inflight |-> inflight, queue |-> queue,
                made |-> made]
      /\ 0 \in 0 .. EditBatchSize
  BY <1>1, RunIs, NewRunIs
<1> HIDE DEF Body
<1>3. UNCHANGED <<job, rows, others, deaths>>
  BY DEF FinishEdits
<1>4. CASE Refused(editgroup)
  BY <1>3, <1>4, EndsKeepsTypes DEF FinishEdits, BulkTypeOK
<1>5. CASE ~Refused(editgroup)
  <2>1. /\ entities' = Accepted(editgroup) /\ changed' = changed \cup DOMAIN editgroup
        /\ run' = [run EXCEPT !.count = 0, !.inflight = {}]
        /\ editgroup' = << >> /\ raced' = {}
    BY <1>5 DEF FinishEdits
  <2>2. run' = [next |-> next, count |-> 0, inflight |-> {}, queue |-> queue, made |-> made]
    BY <1>2, <2>1
  <2>3. /\ entities' \in Seq(Body) /\ DOMAIN entities' = DOMAIN entities
        /\ DOMAIN editgroup \subseteq DOMAIN entities
    BY <2>1, AcceptedIs DEF BulkTypeOK, BatchOK, GroupOK
  <2>4. DOMAIN editgroup' = {} /\ Cardinality(DOMAIN editgroup') = 0
    BY <2>1, EmptyIs, FS_EmptySet
  <2>5. editgroup' \in [DOMAIN editgroup' -> Body]
    BY <2>1, <2>4
  <2>6. BatchOK'
    BY <2>2, <2>4, <2>5 DEF BatchOK
  <2>7. changed' \subseteq DOMAIN entities' /\ {} \in SUBSET Ident
    BY <2>1, <2>3 DEF BulkTypeOK
  <2> QED
    BY <1>2, <1>3, <2>1, <2>2, <2>3, <2>4, <2>6, <2>7, TypeStep DEF BulkTypeOK
<1> QED
  BY <1>4, <1>5

LEMMA FinishQueueKeepsTypes ==
    ASSUME BulkTypeOK, FinishQueue
    PROVE  BulkTypeOK'
<1>1. PICK queue, new : queue = run.queue /\ new = Inserted(entities, queue)
  OBVIOUS
<1> HIDE DEF Body
<1>2. new \in Seq(Body) /\ DOMAIN entities \subseteq DOMAIN new
  BY <1>1, RunIs, InsertedIs DEF BulkTypeOK
<1>3. /\ UNCHANGED <<job, rows, editgroup, changed, raced, others, deaths>>
      /\ entities' = new
      /\ run' = [next |-> 1, count |-> 0, inflight |-> {}, queue |-> << >>, made |-> {}]
  BY <1>1, NewRunIs DEF FinishQueue
<1>4. DOMAIN editgroup = {}
  BY BatchFinite DEF FinishQueue
<1>5. BatchOK'
  <2>1. Cardinality(DOMAIN editgroup) = 0
    BY <1>4, FS_EmptySet
  <2> QED
    BY <1>3, <1>4, <2>1 DEF BatchOK, BulkTypeOK
<1>6. 1 \in 1 .. Len(rows) + 1 /\ {} \in SUBSET Ident
  BY BatchFinite
<1> QED
  BY <1>2, <1>3, <1>5, <1>6, NewRunIs, TypeStep DEF BulkTypeOK

LEMMA KilledKeepsTypes ==
    ASSUME BulkTypeOK, Killed
    PROVE  BulkTypeOK'
<1>1. deaths' \in 0 .. MaxDeaths
  BY BulkAssumption DEF Killed, BulkTypeOK
<1> QED
  BY <1>1, EndsKeepsTypes DEF Killed

\* Others write an entity that is active.
OthersWrite(i, body) ==
    /\ i \in DOMAIN entities /\ Active(i) /\ body \in Body /\ OthersDo(i, body)
    /\ Carries(entities[i], body) /\ body.ids = entities[i].ids
    /\ \/ body.to = 0 /\ Keeps(Assigned, entities[i], body)
       \/ /\ body.to \in DOMAIN entities /\ body.to # i /\ Active(body.to)
          /\ \A k \in DOMAIN entities : entities[k].to # i

LEMMA OthersIs ==
    ASSUME BulkTypeOK, OthersStep
    PROVE  \E i, body : OthersWrite(i, body)
<1>1. Bodies
  BY BodiesOK
<1>2. ASSUME NEW i \in DOMAIN entities, NEW u \in Url, OthersAddUrl(i, u)
      PROVE  \E b : OthersWrite(i, b)
  <2>1. PICK old, body : old = entities[i] /\ body = [old EXCEPT !.urls = @ \cup {u}]
    OBVIOUS
  <2>2. body = [to |-> old.to, ids |-> old.ids, urls |-> old.urls \cup {u}, links |-> old.links,
                marks |-> old.marks]
    BY <1>1, <1>2, <2>1 DEF Body, Bodies
  <2>3. body \in Body
    BY <1>1, <1>2, <2>1, <2>2 DEF Body, Bodies
  <2>4. OthersDo(i, body) /\ Active(i)
    BY <1>2, <2>1 DEF OthersAddUrl, OthersDo
  <2>5. Keeps(Assigned, old, body) /\ Carries(old, body) /\ body.ids = old.ids
    BY <2>2 DEF Keeps, Carries
  <2>6. body.to = 0
    BY <2>1, <2>2, <2>4 DEF Active
  <2>7. OthersWrite(i, body)
    <3> HIDE DEF Body
    <3> QED
      BY <1>2, <2>1, <2>3, <2>4, <2>5, <2>6 DEF OthersWrite
  <2> QED
    BY <2>7
<1>3. ASSUME NEW i \in DOMAIN entities, NEW j \in DOMAIN entities, OthersRedirect(i, j)
      PROVE  \E b : OthersWrite(i, b)
  <2>1. PICK old, body : old = entities[i] /\ body = [old EXCEPT !.to = j]
    OBVIOUS
  <2>2. body = [to |-> j, ids |-> old.ids, urls |-> old.urls, links |-> old.links,
                marks |-> old.marks]
    BY <1>1, <1>3, <2>1 DEF Body, Bodies
  <2>3. body \in Body
    BY <1>1, <1>3, <2>1, <2>2 DEF Body, Bodies, Ident
  <2>4. /\ OthersDo(i, body) /\ Active(i) /\ i # j /\ Active(j)
        /\ \A k \in DOMAIN entities : entities[k].to # i
    BY <1>3, <2>1 DEF OthersRedirect, OthersDo
  <2>5. Carries(old, body) /\ body.ids = old.ids /\ body.to = j
    BY <2>2 DEF Carries
  <2>6. OthersWrite(i, body)
    <3> HIDE DEF Body
    <3>1. /\ i \in DOMAIN entities /\ Active(i) /\ body \in Body /\ OthersDo(i, body)
          /\ Carries(entities[i], body) /\ body.ids = entities[i].ids
      BY <1>3, <2>1, <2>3, <2>4, <2>5
    <3>2. /\ body.to \in DOMAIN entities /\ body.to # i /\ Active(body.to)
          /\ \A k \in DOMAIN entities : entities[k].to # i
      BY <1>3, <2>4, <2>5
    <3> QED
      BY <3>1, <3>2 DEF OthersWrite
  <2> QED
    BY <2>6
<1> QED
  BY <1>2, <1>3 DEF OthersStep

\* One entity of the catalog is written.
LEMMA WrittenIs ==
    ASSUME entities \in Seq(Body), NEW i \in DOMAIN entities, NEW body \in Body,
           NEW new, new = [entities EXCEPT ![i] = body]
    PROVE  /\ new \in Seq(Body) /\ DOMAIN new = DOMAIN entities
           /\ new[i] = body /\ \A j \in DOMAIN entities \ {i} : new[j] = entities[j]
<1> HIDE DEF Body
<1>1. new \in Seq(Body) /\ Len(new) = Len(entities) /\ i \in 1 .. Len(entities)
  BY LenProperties, ExceptSeq
<1> QED
  BY <1>1, LenProperties

LEMMA OthersKeepsTypes ==
    ASSUME BulkTypeOK, OthersStep
    PROVE  BulkTypeOK'
<1> HIDE DEF Body
<1>1. PICK i, body : OthersWrite(i, body)
  BY OthersIs
<1>2. PICK new : new = [entities EXCEPT ![i] = body]
  OBVIOUS
<1>3. new \in Seq(Body) /\ DOMAIN new = DOMAIN entities /\ i \in DOMAIN entities
  BY <1>1, <1>2, WrittenIs DEF BulkTypeOK, OthersWrite
<1>4. /\ UNCHANGED <<job, rows, editgroup, run, deaths>> /\ others' = others + 1
      /\ others < MaxOthers /\ entities' = new /\ changed' = changed \cup {i}
      /\ raced' = raced \cup ({i} \cap DOMAIN editgroup)
  BY <1>1, <1>2 DEF OthersWrite, OthersDo
<1>5. others' \in 0 .. MaxOthers
  BY <1>4, BulkAssumption DEF BulkTypeOK
<1>6. BatchOK'
  BY <1>3, <1>4 DEF BatchOK, BulkTypeOK
<1>7. raced' \subseteq DOMAIN editgroup' /\ changed' \subseteq DOMAIN entities'
  BY <1>3, <1>4 DEF BulkTypeOK
<1>8. /\ RowsOf(job)' = RowsOf(job) /\ run' = run
  BY <1>4 DEF RowsOf
<1> QED
  BY <1>3, <1>4, <1>5, <1>6, <1>7, RunIs, TypeStep

LEMMA MergedKeepsTypes ==
    ASSUME BulkTypeOK, AtRow, job \in Mergers, UNCHANGED <<job, rows, others, deaths>>,
           NEW idents, NEW p, NEW new, Merged(idents, p, new)
    PROVE  BulkTypeOK'
<1>1. job \notin Importers
  BY DEF Mergers, Importers, FileImporters, ReleaseImporters, ContainerImporters
<1>2. /\ idents \in SUBSET Ident /\ idents \cap run.inflight = {} /\ GroupOK(new)
      /\ DOMAIN new \subseteq idents
      /\ EndRow(Joined(editgroup, new), Cardinality(DOMAIN new), idents)
  BY DEF Merged, Merging
<1>3. DOMAIN editgroup \cap idents = {} /\ DOMAIN editgroup \subseteq run.inflight
  BY <1>1, <1>2, RowApart
<1>4. PICK all, n : all = Joined(editgroup, new) /\ n = Cardinality(DOMAIN new)
  OBVIOUS
<1>5. DOMAIN editgroup \cap DOMAIN new = {}
  BY <1>2, <1>3
<1>6. /\ GroupOK(all) /\ n \in Nat /\ Cardinality(DOMAIN all) <= run.count + n
      /\ DOMAIN all = DOMAIN editgroup \cup DOMAIN new
  BY <1>2, <1>4, <1>5, JoinedGroup
<1>7. DOMAIN all \subseteq run.inflight \cup idents /\ EndRow(all, n, idents)
  BY <1>2, <1>3, <1>4, <1>6
<1> QED
  BY <1>1, <1>2, <1>6, <1>7, EndRowKeepsTypes

LEMMA UneditedKeepsTypes ==
    ASSUME BulkTypeOK, AtRow, job \in Mergers, UNCHANGED <<job, rows, others, deaths>>,
           NEW idents \in SUBSET Ident, EndRow(editgroup, 0, idents)
    PROVE  BulkTypeOK'
<1>1. job \notin Importers
  BY DEF Mergers, Importers, FileImporters, ReleaseImporters, ContainerImporters
<1>2. PICK eg : eg = editgroup
  OBVIOUS
<1>3. /\ GroupOK(eg) /\ Cardinality(DOMAIN eg) <= run.count + 0
      /\ DOMAIN eg \subseteq run.inflight \cup idents
  BY <1>1, <1>2, RunIs DEF BulkTypeOK, BatchOK, GroupOK
<1> QED
  BY <1>1, <1>2, <1>3, EndRowKeepsTypes

LEMMA CleanedKeepsTypes ==
    ASSUME BulkTypeOK, AtRow, job = "clean_files", UNCHANGED <<job, rows, others, deaths>>,
           NEW i, NEW body, CleanedRow(i, body)
    PROVE  BulkTypeOK'
<1>1. job \notin Importers
  BY DEF Importers, FileImporters, ReleaseImporters, ContainerImporters
<1>2. /\ {i} \in SUBSET Ident /\ {i} \cap run.inflight = {} /\ i \in DOMAIN entities
      /\ body \in Body /\ EndRow(Joined(editgroup, OneEdit(i, body)), 1, {i})
  BY DEF CleanedRow, Active
<1>3. PICK e, all : e = OneEdit(i, body) /\ all = Joined(editgroup, e)
  OBVIOUS
<1> HIDE DEF Body
<1>4. DOMAIN e = {i} /\ GroupOK(e) /\ Cardinality(DOMAIN e) = 1
  <2>1. i \in DOMAIN entities /\ body \in Body /\ e = OneEdit(i, body)
    BY <1>2, <1>3
  <2> QED
    BY <2>1, OneEditIs
<1>5. DOMAIN editgroup \cap {i} = {} /\ DOMAIN editgroup \subseteq run.inflight
  BY <1>1, <1>2, RowApart
<1>6. /\ GroupOK(all) /\ Cardinality(DOMAIN all) <= run.count + 1
      /\ DOMAIN all = DOMAIN editgroup \cup {i}
  BY <1>3, <1>4, <1>5, JoinedGroup
<1>7. DOMAIN all \subseteq run.inflight \cup {i} /\ EndRow(all, 1, {i})
  BY <1>2, <1>3, <1>5, <1>6
<1> QED
  BY <1>1, <1>2, <1>6, <1>7, EndRowKeepsTypes

LEMMA BulkInitTypes == BulkInit => BulkTypeOK
<1> SUFFICES ASSUME BulkInit PROVE BulkTypeOK
  OBVIOUS
<1>1. PICK file \in Files : job = file.job /\ rows = file.rows
  BY DEF BulkInit
<1>2. job \in Jobs /\ rows \in RowsOf(job) /\ entities \in Seq(Body)
  BY <1>1, FilesAssumption DEF BulkInit
<1>3. Len(rows) \in Nat
  BY <1>2, LenProperties DEF RowsOf
<1>4. /\ run = [next |-> 1, count |-> 0, inflight |-> {}, queue |-> << >>, made |-> {}]
      /\ editgroup = << >> /\ changed = {} /\ raced = {} /\ others = 0 /\ deaths = 0
  BY NewRunIs DEF BulkInit
<1>5. DOMAIN editgroup = {} /\ Cardinality(DOMAIN editgroup) = 0
  BY <1>4, EmptyIs, FS_EmptySet
<1>6. editgroup \in [DOMAIN editgroup -> Body]
  BY <1>4, <1>5
<1>7. BatchOK
  BY <1>4, <1>5, <1>6 DEF BatchOK
<1>8. 1 \in 1 .. Len(rows) + 1 /\ 0 \in 0 .. MaxOthers /\ 0 \in 0 .. MaxDeaths
  BY <1>3, BulkAssumption
<1> HIDE DEF Body
<1> QED
  BY <1>2, <1>4, <1>7, <1>8, NewRunIs DEF BulkTypeOK

LEMMA BulkNextTypes == BulkTypeOK /\ [BulkNext]_bulkVars => BulkTypeOK'
<1> SUFFICES ASSUME BulkTypeOK, [BulkNext]_bulkVars PROVE BulkTypeOK'
  OBVIOUS
<1>1. CASE PushRow
  <2>1. job \in Importers /\ AtRow /\ UNCHANGED <<job, rows, others, deaths>>
    BY <1>1, PushRowIs
  <2>2. CASE SkipRow
    BY <2>1, <2>2, SkipRowKeepsTypes
  <2>3. CASE QueueEntity(Row)
    BY <2>1, <2>3, QueueIs, QueuedKeepsTypes
  <2>4. ASSUME NEW i \in DOMAIN entities, NEW body \in Body, UpdateEntity(i, body)
        PROVE  BulkTypeOK'
    BY <2>1, <2>4, UpdateKeepsTypes
  <2>5. CASE ProcessEnds /\ UNCHANGED <<entities, changed>>
    BY <2>1, <2>5, EndsKeepsTypes DEF BulkTypeOK
  <2> QED
    BY <1>1, <2>2, <2>3, <2>4, <2>5, PushRowIs
<1>2. CASE MergeRowStep
  <2>1. job \in Mergers /\ AtRow /\ UNCHANGED <<job, rows, others, deaths>>
    BY <1>2, MergeRowIs
  <2>2. CASE SkipRow
    BY <2>1, <2>2, SkipRowKeepsTypes
  <2>3. CASE ProcessEnds /\ UNCHANGED <<entities, changed>>
    BY <2>1, <2>3, EndsKeepsTypes DEF BulkTypeOK
  <2>4. CASE \E idents \in SUBSET Ident : EndRow(editgroup, 0, idents)
    BY <2>1, <2>4, UneditedKeepsTypes
  <2>5. CASE \E idents, p, new : Merged(idents, p, new)
    BY <2>1, <2>5, MergedKeepsTypes
  <2> QED
    BY <1>2, <2>2, <2>3, <2>4, <2>5, MergeRowIs
<1>3. CASE CleanRowStep
  <2>1. job = "clean_files" /\ AtRow /\ UNCHANGED <<job, rows, others, deaths>>
    BY <1>3, CleanRowIs
  <2>2. CASE SkipRow
    BY <2>1, <2>2, SkipRowKeepsTypes
  <2>3. CASE ProcessEnds /\ UNCHANGED <<entities, changed>>
    BY <2>1, <2>3, EndsKeepsTypes DEF BulkTypeOK
  <2>4. CASE \E i, body : CleanedRow(i, body)
    BY <2>1, <2>4, CleanedKeepsTypes
  <2> QED
    BY <1>3, <2>2, <2>3, <2>4, CleanRowIs
<1>4. CASE FinishEdits
  BY <1>4, FinishEditsKeepsTypes
<1>5. CASE FinishQueue
  BY <1>5, FinishQueueKeepsTypes
<1>6. CASE Killed
  BY <1>6, KilledKeepsTypes
<1>7. CASE OthersStep
  BY <1>7, OthersKeepsTypes
<1>8. CASE UNCHANGED bulkVars
  BY <1>8 DEF bulkVars, BulkTypeOK, BatchOK, RowsOf
<1>9. CASE MakeContainer
  BY <1>9, ContainerKeepsTypes
<1> QED
  BY <1>1, <1>2, <1>3, <1>4, <1>5, <1>6, <1>7, <1>8, <1>9 DEF BulkNext, JobStep

\* The state stays of its type: a batch holds no more edits than are counted, the
\* importers and jobs that look at the idents in flight know all that they edit.
THEOREM BulkTypeCorrect == BulkSpec => []BulkTypeOK
BY BulkInitTypes, BulkNextTypes, PTL DEF BulkSpec

-----------------------------------------------------------------------------
(* What a step does. *)

Joins(all, new) ==
    /\ GroupOK(new) /\ GroupOK(all)
    /\ DOMAIN all = DOMAIN editgroup \cup DOMAIN new
    /\ \A i \in DOMAIN editgroup : all[i] = editgroup[i]
    /\ \A i \in DOMAIN new : all[i] = new[i]

\* The batch with the edits of the row at hand.
MergedBatch(all, idents, p, new) ==
    /\ job \in Mergers /\ AtRow /\ Joins(all, new) /\ Merging(new, p, idents)
    /\ idents = Row.idents /\ idents \subseteq DOMAIN entities /\ idents \cap run.inflight = {}
    /\ DOMAIN editgroup \cap idents = {} /\ DOMAIN editgroup \subseteq run.inflight

CleanedBatch(all, i, body) ==
    /\ job = "clean_files" /\ AtRow /\ Joins(all, OneEdit(i, body))
    /\ i = Row.ident /\ Active(i) /\ i \notin changed /\ i \notin DOMAIN editgroup
    /\ body \in Body /\ body.to = 0 /\ Keeps(Assigned, Row.body, body)

Batch(all, idents) ==
    /\ GroupOK(all)
    /\ \/ all = editgroup
       \/ \E p, new : MergedBatch(all, idents, p, new)
       \/ \E i, body : CleanedBatch(all, i, body)

\* The batch waits for more rows, or is accepted.
Waits(all, idents) ==
    /\ editgroup' = all /\ UNCHANGED <<entities, changed, raced>>
    /\ run'.next = run.next + 1 /\ run'.inflight = run.inflight \cup idents
    /\ run'.queue = run.queue
Accepts(all) ==
    /\ job \in Importers \/ ~Refused(all)
    /\ entities' = Accepted(all) /\ changed' = changed \cup DOMAIN all
    /\ editgroup' = << >> /\ raced' = {} /\ run'.queue = run.queue

Still ==
    /\ UNCHANGED <<entities, editgroup, changed, raced>>
    /\ run'.next \in {run.next, run.next + 1}
    /\ run'.inflight = run.inflight /\ run'.queue = run.queue
Ends == ProcessEnds /\ UNCHANGED <<entities, changed>>

Does ==
    \/ Still
    \/ Ends
    \/ job \in Importers /\ AtRow /\ \E body, queue : Queued(body, queue)
    \/ /\ job \in Importers /\ AtRow
       /\ \E i \in DOMAIN entities, body \in Body :
             Fits(run.next, i, body) /\ (NewBatch(i, body) \/ JoinsBatch(i, body))
    \/ \E all, idents : Batch(all, idents) /\ (Waits(all, idents) \/ Accepts(all))
    \/ FinishQueue
    \/ \E i, body : OthersWrite(i, body)

LEMMA EndRowIs ==
    ASSUME BulkTypeOK, NEW all, NEW n, NEW idents, EndRow(all, n, idents)
    PROVE  Waits(all, idents) \/ Ends \/ Accepts(all)
<1>1. PICK next, count, inflight, queue, made :
         run = [next |-> next, count |-> count, inflight |-> inflight, queue |-> queue,
                made |-> made]
  BY RunIs
<1>2. CASE run.count + n < EditBatchSize
  <2>1. /\ editgroup' = all /\ UNCHANGED <<entities, changed, raced>>
        /\ run' = [run EXCEPT !.next = @ + 1, !.count = @ + n, !.inflight = @ \cup idents]
    BY <1>2 DEF EndRow
  <2>2. /\ run'.next = run.next + 1 /\ run'.inflight = run.inflight \cup idents
        /\ run'.queue = run.queue
    BY <1>1, <2>1
  <2> QED
    BY <2>1, <2>2 DEF Waits
<1>3. CASE ~(run.count + n < EditBatchSize) /\ Refused(all)
  BY <1>3 DEF EndRow, Ends
<1>4. CASE ~(run.count + n < EditBatchSize) /\ ~Refused(all)
  <2>1. /\ entities' = Accepted(all) /\ changed' = changed \cup DOMAIN all
        /\ run' = [run EXCEPT !.next = @ + 1, !.count = 0, !.inflight = {}]
        /\ editgroup' = << >> /\ raced' = {}
    BY <1>4 DEF EndRow
  <2>2. run'.queue = run.queue
    BY <1>1, <2>1
  <2> QED
    BY <1>4, <2>1, <2>2 DEF Accepts
<1> QED
  BY <1>2, <1>3, <1>4

LEMMA SkipIsStill ==
    ASSUME BulkTypeOK, SkipRow
    PROVE  Still
<1>1. PICK next, count, inflight, queue, made :
         run = [next |-> next, count |-> count, inflight |-> inflight, queue |-> queue,
                made |-> made]
  BY RunIs
<1>2. run' = [run EXCEPT !.next = @ + 1] /\ UNCHANGED <<entities, editgroup, changed, raced>>
  BY DEF SkipRow
<1>3. run'.next = run.next + 1 /\ run'.inflight = run.inflight /\ run'.queue = run.queue
  BY <1>1, <1>2
<1> QED
  BY <1>2, <1>3 DEF Still

\* The batch as it is.
LEMMA SameBatch ==
    ASSUME BulkTypeOK, NEW all, all = editgroup, NEW idents
    PROVE  Batch(all, idents)
BY DEF Batch, BulkTypeOK, BatchOK, GroupOK

LEMMA PushRowDoes ==
    ASSUME BulkTypeOK, PushRow
    PROVE  Does
<1>1. job \in Importers /\ AtRow
  BY PushRowIs
<1>2. CASE SkipRow
  BY <1>2, SkipIsStill DEF Does
<1>3. CASE QueueEntity(Row)
  <2>1. \E body, queue : Queued(body, queue)
    BY <1>1, <1>3, QueueIs
  <2> QED
    BY <1>1, <2>1 DEF Does
<1>4. ASSUME NEW i \in DOMAIN entities, NEW body \in Body,
             Fits(run.next, i, body), UpdateEntity(i, body)
      PROVE  Does
  <2>1. CASE NewBatch(i, body)
    BY <1>1, <1>4, <2>1 DEF Does
  <2>2. CASE JoinsBatch(i, body)
    BY <1>1, <1>4, <2>2 DEF Does
  <2>3. CASE NotTaken
    <3>1. Still
      BY <2>3 DEF NotTaken, Still
    <3> QED
      BY <3>1 DEF Does
  <2>4. CASE ProcessEnds /\ UNCHANGED <<entities, changed>>
    BY <2>4 DEF Does, Ends
  <2> QED
    BY <1>4, <2>1, <2>2, <2>3, <2>4, UpdateIs
<1>5. CASE ProcessEnds /\ UNCHANGED <<entities, changed>>
  BY <1>5 DEF Does, Ends
<1> QED
  BY <1>2, <1>3, <1>4, <1>5, PushRowIs

LEMMA ContainerDoes ==
    ASSUME BulkTypeOK, MakeContainer
    PROVE  Does
<1>1. PICK next, count, inflight, queue, made :
         /\ run.next = next /\ run.count = count /\ run.inflight = inflight /\ run.queue = queue
         /\ run.made = made
         /\ run = [next |-> next, count |-> count, inflight |-> inflight, queue |-> queue,
                   made |-> made]
  BY RunIs
<1>2. CASE run.count >= EditBatchSize
  <2>1. /\ entities' = Accepted(editgroup) /\ changed' = changed \cup DOMAIN editgroup
        /\ run' = [run EXCEPT !.count = 1, !.inflight = {}, !.made = @ \cup Row.journal]
        /\ editgroup' = << >> /\ raced' = {} /\ job \in Importers
    BY <1>2 DEF MakeContainer, MakesContainers, Importers, ReleaseImporters
  <2>2. run'.queue = run.queue
    BY <1>1, <2>1
  <2>3. PICK all : all = editgroup
    OBVIOUS
  <2>4. Accepts(all) /\ Batch(all, {})
    BY <2>1, <2>2, <2>3, SameBatch DEF Accepts
  <2> QED
    BY <2>4 DEF Does
<1>3. CASE ~(run.count >= EditBatchSize)
  <2>1. /\ UNCHANGED <<entities, changed, editgroup, raced>>
        /\ run' = [run EXCEPT !.count = count + 1, !.made = made \cup Row.journal]
    BY <1>1, <1>3 DEF MakeContainer
  <2>2. run'.next = run.next /\ run'.inflight = run.inflight /\ run'.queue = run.queue
    BY <1>1, <2>1
  <2> QED
    BY <2>1, <2>2 DEF Does, Still
<1> QED
  BY <1>2, <1>3

LEMMA MergeRowDoes ==
    ASSUME BulkTypeOK, MergeRowStep
    PROVE  Does
<1>1. job \in Mergers /\ AtRow
  BY MergeRowIs
<1>2. CASE SkipRow
  BY <1>2, SkipIsStill DEF Does
<1>3. CASE ProcessEnds /\ UNCHANGED <<entities, changed>>
  BY <1>3 DEF Does, Ends
<1>4. ASSUME NEW idents \in SUBSET Ident, EndRow(editgroup, 0, idents) PROVE Does
  <2>1. PICK all : all = editgroup
    OBVIOUS
  <2>2. Batch(all, idents)
    BY <2>1, SameBatch
  <2>3. Waits(all, idents) \/ Ends \/ Accepts(all)
    BY <1>4, <2>1, EndRowIs
  <2> QED
    BY <2>2, <2>3 DEF Does
<1>5. ASSUME NEW idents, NEW p, NEW new, Merged(idents, p, new) PROVE Does
  <2>1. PICK all, n : all = Joined(editgroup, new) /\ n = Cardinality(DOMAIN new)
    OBVIOUS
  <2>2. /\ idents = Row.idents /\ idents \subseteq DOMAIN entities
        /\ idents \cap run.inflight = {} /\ Merging(new, p, idents) /\ GroupOK(new)
        /\ DOMAIN new \subseteq idents /\ EndRow(all, n, idents)
    BY <1>5, <2>1 DEF Merged, Merging
  <2>3. DOMAIN editgroup \cap idents = {} /\ DOMAIN editgroup \subseteq run.inflight
    <3>1. job \notin Importers
      BY <1>1 DEF Mergers, Importers, FileImporters, ReleaseImporters, ContainerImporters
    <3> QED
      BY <2>2, <3>1, RowApart
  <2>4. DOMAIN editgroup \cap DOMAIN new = {}
    BY <2>2, <2>3
  <2>5. Joins(all, new)
    <3>1. /\ GroupOK(all) /\ DOMAIN all = DOMAIN editgroup \cup DOMAIN new
          /\ \A i \in DOMAIN editgroup : all[i] = editgroup[i]
          /\ \A i \in DOMAIN new : all[i] = new[i]
      <4>1. BulkTypeOK /\ GroupOK(new) /\ all = Joined(editgroup, new)
        BY <2>1, <2>2
      <4>2. DOMAIN editgroup \cap DOMAIN new = {} /\ n = Cardinality(DOMAIN new)
        BY <2>1, <2>4
      <4>3. GroupOK(all)
        BY <4>1, <4>2, JoinedGroup
      <4>4. DOMAIN all = DOMAIN editgroup \cup DOMAIN new
        BY <4>1, <4>2, JoinedGroup
      <4>5. \A i \in DOMAIN editgroup : all[i] = editgroup[i]
        BY <4>1, <4>2, JoinedGroup
      <4>6. \A i \in DOMAIN new : all[i] = new[i]
        <5>1. PICK eg : eg = editgroup
          OBVIOUS
        <5>2. all = Joined(eg, new) /\ DOMAIN eg \cap DOMAIN new = {}
          BY <4>1, <4>2, <5>1
        <5>3. \A k \in DOMAIN new \ DOMAIN eg : all[k] = new[k]
          BY <5>2 DEF Joined
        <5> QED
          BY <5>2, <5>3
      <4> QED
        BY <4>3, <4>4, <4>5, <4>6
    <3> QED
      BY <2>2, <3>1 DEF Joins
  <2>6. Batch(all, idents)
    BY <1>1, <2>2, <2>3, <2>5 DEF Batch, MergedBatch, Joins
  <2>7. Waits(all, idents) \/ Ends \/ Accepts(all)
    BY <2>2, EndRowIs
  <2> QED
    BY <2>6, <2>7 DEF Does
<1> QED
  BY <1>2, <1>3, <1>4, <1>5, MergeRowIs

LEMMA CleanRowDoes ==
    ASSUME BulkTypeOK, CleanRowStep
    PROVE  Does
<1>1. job = "clean_files" /\ AtRow
  BY CleanRowIs
<1>2. CASE SkipRow
  BY <1>2, SkipIsStill DEF Does
<1>3. CASE ProcessEnds /\ UNCHANGED <<entities, changed>>
  BY <1>3 DEF Does, Ends
<1>4. ASSUME NEW i, NEW body, CleanedRow(i, body) PROVE Does
  <2>1. PICK e, all : e = OneEdit(i, body) /\ all = Joined(editgroup, e)
    OBVIOUS
  <2>2. /\ i = Row.ident /\ Active(i) /\ i \in DOMAIN entities /\ i \notin changed
        /\ i \notin run.inflight /\ body \in Body /\ body.to = 0 /\ Keeps(Assigned, Row.body, body)
        /\ EndRow(all, 1, {i})
    BY <1>4, <2>1 DEF CleanedRow, Active
  <2>3. DOMAIN e = {i} /\ GroupOK(e)
    <3>1. i \in DOMAIN entities /\ body \in Body /\ e = OneEdit(i, body)
      BY <2>1, <2>2
    <3>2. DOMAIN e = {i}
      BY <3>1, OneEditIs
    <3>3. GroupOK(e)
      BY <3>1, OneEditIs
    <3> QED
      BY <3>2, <3>3
  <2>4. i \notin DOMAIN editgroup
    <3>1. job \notin Importers
      BY <1>1 DEF Importers, FileImporters, ReleaseImporters, ContainerImporters
    <3> QED
      BY <2>2, <3>1 DEF BulkTypeOK, BatchOK
  <2>5. DOMAIN editgroup \cap DOMAIN e = {}
    BY <2>3, <2>4
  <2>6. Joins(all, e)
    <3>1. PICK n : n = Cardinality(DOMAIN e)
      OBVIOUS
    <3>2. /\ GroupOK(all) /\ DOMAIN all = DOMAIN editgroup \cup DOMAIN e
          /\ \A j \in DOMAIN editgroup : all[j] = editgroup[j]
          /\ \A j \in DOMAIN e : all[j] = e[j]
      <4>1. BulkTypeOK /\ GroupOK(e) /\ all = Joined(editgroup, e)
        BY <2>1, <2>3
      <4>2. DOMAIN editgroup \cap DOMAIN e = {} /\ n = Cardinality(DOMAIN e)
        BY <2>5, <3>1
      <4>3. GroupOK(all)
        BY <4>1, <4>2, JoinedGroup
      <4>4. DOMAIN all = DOMAIN editgroup \cup DOMAIN e
        BY <4>1, <4>2, JoinedGroup
      <4>5. \A j \in DOMAIN editgroup : all[j] = editgroup[j]
        BY <4>1, <4>2, JoinedGroup
      <4>6. \A j \in DOMAIN e : all[j] = e[j]
        <5>1. PICK eg : eg = editgroup
          OBVIOUS
        <5>2. all = Joined(eg, e) /\ DOMAIN eg \cap DOMAIN e = {}
          BY <4>1, <4>2, <5>1
        <5>3. \A k \in DOMAIN e \ DOMAIN eg : all[k] = e[k]
          BY <5>2 DEF Joined
        <5> QED
          BY <5>2, <5>3
      <4> QED
        BY <4>3, <4>4, <4>5, <4>6
    <3> QED
      BY <2>3, <3>2 DEF Joins
  <2>7. CleanedBatch(all, i, body)
    BY <1>1, <2>1, <2>2, <2>4, <2>6 DEF CleanedBatch
  <2>8. Batch(all, {i})
    BY <2>6, <2>7 DEF Batch, Joins
  <2>9. Waits(all, {i}) \/ Ends \/ Accepts(all)
    BY <2>2, EndRowIs
  <2> QED
    BY <2>8, <2>9 DEF Does
<1> QED
  BY <1>2, <1>3, <1>4, CleanRowIs

LEMMA FinishEditsDoes ==
    ASSUME BulkTypeOK, FinishEdits
    PROVE  Does
<1>1. CASE Refused(editgroup)
  BY <1>1 DEF FinishEdits, Does, Ends
<1>2. CASE ~Refused(editgroup)
  <2>1. PICK all : all = editgroup
    OBVIOUS
  <2>2. /\ entities' = Accepted(all) /\ changed' = changed \cup DOMAIN all
        /\ run' = [run EXCEPT !.count = 0, !.inflight = {}]
        /\ editgroup' = << >> /\ raced' = {}
    BY <1>2, <2>1 DEF FinishEdits
  <2>3. run'.queue = run.queue
    <3>1. PICK next, count, inflight, queue, made :
             run = [next |-> next, count |-> count, inflight |-> inflight, queue |-> queue,
                    made |-> made]
      BY RunIs
    <3> QED
      BY <2>2, <3>1
  <2>4. Accepts(all)
    BY <1>2, <2>1, <2>2, <2>3 DEF Accepts
  <2>5. Batch(all, {})
    BY <2>1, SameBatch
  <2> QED
    BY <2>4, <2>5 DEF Does
<1> QED
  BY <1>1, <1>2

LEMMA StepDoes ==
    ASSUME BulkTypeOK, [BulkNext]_bulkVars
    PROVE  Does /\ UNCHANGED <<job, rows>>
<1>1. CASE PushRow
  BY <1>1, PushRowDoes DEF PushRow
<1>2. CASE MergeRowStep
  BY <1>2, MergeRowDoes DEF MergeRowStep
<1>3. CASE CleanRowStep
  BY <1>3, CleanRowDoes DEF CleanRowStep
<1>4. CASE FinishEdits
  BY <1>4, FinishEditsDoes DEF FinishEdits
<1>5. CASE FinishQueue
  BY <1>5 DEF Does, FinishQueue
<1>6. CASE Killed
  BY <1>6 DEF Killed, Does, Ends
<1>7. CASE OthersStep
  <2>1. PICK i, body : OthersWrite(i, body)
    BY <1>7, OthersIs
  <2>2. UNCHANGED <<job, rows>>
    BY <2>1 DEF OthersWrite, OthersDo
  <2> QED
    BY <2>1, <2>2 DEF Does
<1>8. CASE UNCHANGED bulkVars
  BY <1>8 DEF bulkVars, Does, Still
<1>9. CASE MakeContainer
  BY <1>9, ContainerDoes DEF MakeContainer
<1> QED
  BY <1>1, <1>2, <1>3, <1>4, <1>5, <1>6, <1>7, <1>8, <1>9 DEF BulkNext, JobStep

-----------------------------------------------------------------------------
(* No chains of redirects.  An accept refuses a redirect to a redirect, but  *)
(* not two that meet in one editgroup: these are kept apart by the idents in *)
(* flight, to which every redirect of the batch points.                      *)

Unchained ==
    \A i \in DOMAIN entities :
        LET to == entities[i].to
        IN  to # 0 => to \in DOMAIN entities /\ entities[to].to = 0

Pointing(eg, known) ==
    \A i \in DOMAIN eg :
        LET to == eg[i].to
        IN  to # 0 => /\ job \in Mergers /\ to \in DOMAIN entities /\ to \in known
                      /\ to \in DOMAIN eg => eg[to].to = 0

QueueFresh == \A q \in DOMAIN run.queue : run.queue[q].to = 0

ChainInv == BulkTypeOK /\ Unchained /\ Pointing(editgroup, run.inflight) /\ QueueFresh

LEMMA BatchPoints ==
    ASSUME ChainInv, NEW all, NEW idents, Batch(all, idents)
    PROVE  Pointing(all, run.inflight \cup idents)
<1>1. CASE all = editgroup
  BY <1>1 DEF ChainInv, Pointing
<1>2. ASSUME NEW p, NEW new, MergedBatch(all, idents, p, new)
      PROVE  Pointing(all, run.inflight \cup idents)
  <2>1. /\ job \in Mergers /\ Joins(all, new) /\ Merging(new, p, idents)
        /\ idents \subseteq DOMAIN entities /\ idents \cap run.inflight = {}
        /\ DOMAIN editgroup \cap idents = {}
    BY <1>2 DEF MergedBatch
  <2>2. /\ p \in idents /\ DOMAIN new \subseteq idents
        /\ \A i \in DOMAIN new \ {p} : new[i].to = p
        /\ p \in DOMAIN new => new[p].to = 0
    BY <2>1 DEF Merging
  <2>3. /\ DOMAIN all = DOMAIN editgroup \cup DOMAIN new
        /\ \A i \in DOMAIN editgroup : all[i] = editgroup[i]
        /\ \A i \in DOMAIN new : all[i] = new[i]
    BY <2>1 DEF Joins
  <2>4. ASSUME NEW i \in DOMAIN editgroup, NEW to, to = editgroup[i].to, to # 0
        PROVE  /\ to \in DOMAIN entities /\ to \in run.inflight
               /\ to \in DOMAIN all => all[to].to = 0
    <3>1. /\ to \in DOMAIN entities /\ to \in run.inflight
          /\ to \in DOMAIN editgroup => editgroup[to].to = 0
      BY <2>4 DEF ChainInv, Pointing
    <3>2. to \notin DOMAIN new
      BY <2>1, <2>2, <3>1
    <3> QED
      BY <2>3, <3>1, <3>2
  <2>5. ASSUME NEW i \in DOMAIN new, NEW to, to = new[i].to, to # 0
        PROVE  /\ to \in DOMAIN entities /\ to \in idents
               /\ to \in DOMAIN all => all[to].to = 0
    <3>1. to = p
      BY <2>2, <2>5
    <3> QED
      BY <2>1, <2>2, <2>3, <3>1
  <2> QED
    BY <2>1, <2>3, <2>4, <2>5 DEF Pointing
<1>3. ASSUME NEW j, NEW body, CleanedBatch(all, j, body)
      PROVE  Pointing(all, run.inflight \cup idents)
  <2>1. PICK e : e = OneEdit(j, body)
    OBVIOUS
  <2>2. /\ job = "clean_files" /\ Joins(all, e) /\ body.to = 0 /\ job \notin Mergers
    BY <1>3, <2>1 DEF CleanedBatch, Mergers
  <2>3. DOMAIN e = {j} /\ e[j] = body
    BY <2>1 DEF OneEdit
  <2>4. /\ DOMAIN all = DOMAIN editgroup \cup {j}
        /\ \A i \in DOMAIN editgroup : all[i] = editgroup[i]
        /\ all[j] = body
    BY <2>2, <2>3 DEF Joins
  <2>5. \A i \in DOMAIN editgroup : editgroup[i].to = 0
    BY <2>2 DEF ChainInv, Pointing
  <2> QED
    BY <2>2, <2>4, <2>5 DEF Pointing
<1> QED
  BY <1>1, <1>2, <1>3 DEF Batch

LEMMA AcceptUnchained ==
    ASSUME BulkTypeOK, Unchained, NEW eg, GroupOK(eg), NEW known, Pointing(eg, known),
           ~Refused(eg), entities' = Accepted(eg)
    PROVE  Unchained'
<1>1. PICK new : new = Accepted(eg)
  OBVIOUS
<1>2. /\ DOMAIN new = DOMAIN entities
      /\ \A i \in DOMAIN eg : new[i] = eg[i]
      /\ \A i \in DOMAIN entities \ DOMAIN eg : new[i] = entities[i]
  BY <1>1, AcceptedIs DEF BulkTypeOK
<1>3. ASSUME NEW i \in DOMAIN new, NEW to, to = new[i].to, to # 0
      PROVE  to \in DOMAIN new /\ new[to].to = 0
  <2>1. CASE i \in DOMAIN eg
    <3>1. /\ eg[i].to = to /\ to \in DOMAIN entities
          /\ to \in DOMAIN eg => eg[to].to = 0
      BY <1>2, <1>3, <2>1 DEF Pointing
    <3>2. entities[to].to = 0
      BY <1>3, <2>1, <3>1 DEF Refused
    <3> QED
      BY <1>2, <3>1, <3>2
  <2>2. CASE i \notin DOMAIN eg
    <3>1. i \in DOMAIN entities /\ entities[i].to = to
      BY <1>2, <1>3, <2>2
    <3>2. to \in DOMAIN entities /\ entities[to].to = 0
      BY <1>3, <3>1 DEF Unchained
    <3>3. to \in DOMAIN eg => eg[to].to = 0
      BY <3>1 DEF Refused
    <3> QED
      BY <1>2, <3>2, <3>3
  <2> QED
    BY <2>1, <2>2
<1>4. entities' = new
  BY <1>1
<1> QED
  BY <1>3, <1>4 DEF Unchained

\* The catalog grows by entities that are not redirects.
LEMMA InsertUnchained ==
    ASSUME BulkTypeOK, Unchained, NEW queue \in Seq(Body), \A q \in DOMAIN queue : queue[q].to = 0,
           entities' = Inserted(entities, queue)
    PROVE  Unchained'
<1>1. PICK new : new = Inserted(entities, queue)
  OBVIOUS
<1>2. /\ DOMAIN entities \subseteq DOMAIN new
      /\ \A i \in DOMAIN entities : new[i] = entities[i]
      /\ \A i \in DOMAIN new \ DOMAIN entities : \E k \in DOMAIN queue : new[i] = queue[k]
  <2> HIDE DEF Body
  <2> QED
    BY <1>1, InsertedIs DEF BulkTypeOK
<1>3. ASSUME NEW i \in DOMAIN new, NEW to, to = new[i].to, to # 0
      PROVE  to \in DOMAIN new /\ new[to].to = 0
  <2>1. i \in DOMAIN entities
    BY <1>2, <1>3
  <2>2. to \in DOMAIN entities /\ entities[to].to = 0
    BY <1>2, <1>3, <2>1 DEF Unchained
  <2> QED
    BY <1>2, <2>2
<1>4. entities' = new
  BY <1>1
<1> QED
  BY <1>3, <1>4 DEF Unchained

LEMMA ChainStep == ChainInv /\ [BulkNext]_bulkVars => ChainInv'
<1> SUFFICES ASSUME ChainInv, [BulkNext]_bulkVars PROVE ChainInv'
  OBVIOUS
<1>1. BulkTypeOK /\ BulkTypeOK' /\ Unchained /\ QueueFresh /\ Pointing(editgroup, run.inflight)
  BY BulkNextTypes DEF ChainInv
<1>2. Does /\ UNCHANGED <<job, rows>>
  BY <1>1, StepDoes
<1>3. \A known : /\ (editgroup' = << >>) => Pointing(editgroup', known)
                 /\ (run' = NewRun) => QueueFresh'
  <2>1. ASSUME NEW known, editgroup' = << >> PROVE Pointing(editgroup', known)
    <3>1. PICK eg : eg = editgroup'
      OBVIOUS
    <3> QED
      BY <2>1, <3>1, EmptyIs DEF Pointing
  <2>2. (run' = NewRun) => QueueFresh'
    BY EmptyIs DEF NewRun, QueueFresh
  <2> QED
    BY <2>1, <2>2
<1>4. CASE Still
  BY <1>1, <1>2, <1>4 DEF Still, ChainInv, Unchained, Pointing, QueueFresh
<1>5. CASE Ends
  <2>1. UNCHANGED entities /\ editgroup' = << >> /\ run' = NewRun
    BY <1>5 DEF Ends, ProcessEnds
  <2>2. Unchained'
    BY <1>1, <2>1 DEF Unchained
  <2>3. DOMAIN editgroup' = {}
    BY <2>1, EmptyIs
  <2> QED
    BY <1>1, <1>3, <2>1, <2>2, <2>3 DEF ChainInv, Pointing
<1>6. ASSUME NEW body, NEW queue, Queued(body, queue), job \in Importers PROVE ChainInv'
  <2>1. /\ body.to = 0 /\ queue \in Seq(Body) /\ UNCHANGED editgroup
        /\ \A k \in DOMAIN queue : queue[k] = body \/ \E l \in DOMAIN run.queue : queue[k] = run.queue[l]
        /\ \/ entities' = Inserted(entities, queue) /\ run'.queue = << >>
           \/ entities' = entities /\ run'.queue = queue
        /\ run'.inflight = run.inflight
    BY <1>6 DEF Queued
  <2>2. \A k \in DOMAIN queue : queue[k].to = 0
    BY <1>1, <2>1 DEF QueueFresh
  <2>3. Unchained'
    <3>1. CASE entities' = Inserted(entities, queue)
      BY <1>1, <2>1, <2>2, <3>1, InsertUnchained
    <3>2. CASE entities' = entities
      BY <1>1, <3>2 DEF Unchained
    <3> QED
      BY <2>1, <3>1, <3>2
  <2>4. QueueFresh'
    BY <2>1, <2>2, EmptyIs DEF QueueFresh
  <2>5. \A i \in DOMAIN editgroup : editgroup[i].to = 0
    BY <1>1, <1>6 DEF Pointing, Mergers, Importers, FileImporters, ReleaseImporters, ContainerImporters
  <2>6. Pointing(editgroup, run.inflight)'
    BY <2>1, <2>5 DEF Pointing
  <2> QED
    BY <1>1, <2>3, <2>4, <2>6 DEF ChainInv
<1>7. ASSUME NEW i \in DOMAIN entities, NEW body \in Body, Fits(run.next, i, body),
             NewBatch(i, body) \/ JoinsBatch(i, body), job \in Importers
      PROVE  ChainInv'
  <2>1. body.to = 0
    BY <1>7 DEF Fits
  <2>2. \A j \in DOMAIN editgroup : editgroup[j].to = 0
    BY <1>1, <1>7 DEF Pointing, Mergers, Importers, FileImporters, ReleaseImporters, ContainerImporters
  <2>3. PICK e : e = OneEdit(i, body) /\ DOMAIN e = {i} /\ e[i] = body
    BY OneEditIs
  <2>4. CASE NewBatch(i, body)
    <3>1. entities' = Accepted(editgroup) /\ editgroup' = e /\ run'.queue = run.queue
      BY <2>3, <2>4 DEF NewBatch
    <3>2. PICK eg : eg = editgroup /\ GroupOK(eg) /\ Pointing(eg, run.inflight)
      BY <1>1 DEF BulkTypeOK, BatchOK, GroupOK
    <3>3. ~Refused(eg) /\ entities' = Accepted(eg)
      BY <2>2, <3>1, <3>2 DEF Refused
    <3>4. Unchained'
      BY <1>1, <3>2, <3>3, AcceptUnchained
    <3>5. Pointing(editgroup, run.inflight)' /\ QueueFresh'
      BY <1>1, <2>1, <2>3, <3>1 DEF Pointing, QueueFresh
    <3> QED
      BY <1>1, <3>4, <3>5 DEF ChainInv
  <2>5. CASE JoinsBatch(i, body)
    <3>1. PICK all : all = Joined(editgroup, e)
      OBVIOUS
    <3>2. UNCHANGED entities /\ editgroup' = all /\ run'.queue = run.queue /\ i \notin DOMAIN editgroup
      BY <2>3, <2>5, <3>1 DEF JoinsBatch
    <3>3. /\ DOMAIN all = DOMAIN editgroup \cup {i}
          /\ \A j \in DOMAIN editgroup : all[j] = editgroup[j]
          /\ all[i] = body
      BY <2>3, <3>1, <3>2 DEF Joined
    <3>4. \A j \in DOMAIN all : all[j].to = 0
      BY <2>1, <2>2, <3>3
    <3>5. Pointing(editgroup, run.inflight)' /\ QueueFresh' /\ Unchained'
      BY <1>1, <3>2, <3>4 DEF Pointing, QueueFresh, Unchained
    <3> QED
      BY <1>1, <3>5 DEF ChainInv
  <2> QED
    BY <1>7, <2>4, <2>5
<1>8. ASSUME NEW all, NEW idents, Batch(all, idents), Waits(all, idents) \/ Accepts(all)
      PROVE  ChainInv'
  <2>1. Pointing(all, run.inflight \cup idents) /\ GroupOK(all)
    BY <1>8, BatchPoints DEF Batch
  <2>2. CASE Waits(all, idents)
    <3>1. /\ editgroup' = all /\ UNCHANGED entities /\ run'.inflight = run.inflight \cup idents
          /\ run'.queue = run.queue
      BY <2>2 DEF Waits
    <3> QED
      BY <1>1, <1>2, <2>1, <3>1 DEF ChainInv, Pointing, QueueFresh, Unchained
  <2>3. CASE Accepts(all)
    <3>1. /\ entities' = Accepted(all) /\ editgroup' = << >> /\ run'.queue = run.queue
          /\ ~Refused(all)
      <4>1. CASE job \in Importers
        <5>1. \A i \in DOMAIN all : all[i].to = 0
          BY <2>1, <4>1 DEF Pointing, Mergers, Importers, FileImporters, ReleaseImporters,
                            ContainerImporters
        <5> QED
          BY <2>3, <5>1 DEF Accepts, Refused
      <4> QED
        BY <2>3, <4>1 DEF Accepts
    <3>2. Unchained'
      BY <1>1, <2>1, <3>1, AcceptUnchained
    <3>3. QueueFresh' /\ DOMAIN editgroup' = {}
      BY <1>1, <3>1, EmptyIs DEF QueueFresh
    <3> QED
      BY <1>1, <3>2, <3>3 DEF ChainInv, Pointing
  <2> QED
    BY <1>8, <2>2, <2>3
<1>9. CASE FinishQueue
  <2>1. PICK queue : queue = run.queue
    OBVIOUS
  <2>2. queue \in Seq(Body) /\ \A q \in DOMAIN queue : queue[q].to = 0
    BY <1>1, <2>1, RunIs DEF QueueFresh
  <2>3. entities' = Inserted(entities, queue) /\ UNCHANGED editgroup /\ run' = NewRun
    BY <1>9, <2>1 DEF FinishQueue
  <2>4. Unchained'
    BY <1>1, <2>2, <2>3, InsertUnchained
  <2>5. DOMAIN editgroup = {}
    BY <1>1, <1>9, BatchFinite DEF FinishQueue
  <2> QED
    BY <1>1, <1>3, <2>3, <2>4, <2>5 DEF ChainInv, Pointing
<1>10. ASSUME NEW i, NEW body, OthersWrite(i, body) PROVE ChainInv'
  <2>1. PICK new : new = [entities EXCEPT ![i] = body]
    OBVIOUS
  <2>2. /\ i \in DOMAIN entities /\ body \in Body /\ entities[i].to = 0
        /\ \/ body.to = 0
           \/ /\ body.to \in DOMAIN entities /\ body.to # i /\ entities[body.to].to = 0
              /\ \A k \in DOMAIN entities : entities[k].to # i
        /\ entities' = new /\ UNCHANGED <<editgroup, run>>
    BY <1>10, <2>1 DEF OthersWrite, OthersDo, Active
  <2>3. /\ DOMAIN new = DOMAIN entities
        /\ new[i] = body /\ \A j \in DOMAIN entities \ {i} : new[j] = entities[j]
    BY <1>1, <2>1, <2>2, WrittenIs DEF BulkTypeOK
  <2>4. ASSUME NEW j \in DOMAIN new, NEW to, to = new[j].to, to # 0
        PROVE  to \in DOMAIN new /\ new[to].to = 0
    <3>1. CASE j = i
      BY <2>2, <2>3, <2>4, <3>1
    <3>2. CASE j # i
      <4>1. to \in DOMAIN entities /\ entities[to].to = 0 /\ entities[j].to = to
        BY <1>1, <2>3, <2>4, <3>2 DEF Unchained
      <4>2. CASE to = i
        BY <2>2, <2>3, <2>4, <4>1, <4>2
      <4>3. CASE to # i
        BY <2>3, <4>1, <4>3
      <4> QED
        BY <4>2, <4>3
    <3> QED
      BY <3>1, <3>2
  <2>5. Unchained'
    BY <2>2, <2>4 DEF Unchained
  <2>6. Pointing(editgroup, run.inflight)' /\ QueueFresh'
    BY <1>1, <1>2, <2>2, <2>3 DEF Pointing, QueueFresh
  <2> QED
    BY <1>1, <2>5, <2>6 DEF ChainInv
<1> QED
  BY <1>2, <1>4, <1>5, <1>6, <1>7, <1>8, <1>9, <1>10 DEF Does

LEMMA ChainInit == BulkInit => ChainInv
<1> SUFFICES ASSUME BulkInit PROVE ChainInv
  OBVIOUS
<1>1. entities = Seed /\ editgroup = << >> /\ run = NewRun
  BY DEF BulkInit
<1>2. Unchained
  BY <1>1, FilesAssumption DEF Unchained
<1>3. QueueFresh /\ DOMAIN editgroup = {}
  BY <1>1, EmptyIs DEF QueueFresh, NewRun
<1> QED
  BY <1>2, <1>3, BulkInitTypes DEF ChainInv, Pointing

\* No accept of any job makes a chain of redirects.
THEOREM MergesNeverChain == BulkSpec => []MergesUnchained
<1>1. ChainInv => MergesUnchained
  BY DEF ChainInv, Unchained, MergesUnchained
<1> QED
  BY <1>1, ChainInit, ChainStep, PTL DEF BulkSpec

-----------------------------------------------------------------------------
(* Merges are whole: in the batch, an edit that redirects comes with those   *)
(* of its row, and what they redirect to has all that they have.             *)

MergedBy(eg, p, k) ==
    /\ p \in rows[k].idents
    /\ \A j \in rows[k].idents \ {p} :
          /\ j \in DOMAIN eg /\ eg[j].to = p
          /\ job = "merge_files" /\ raced \cap {j, p} = {} =>
                Carries(entities[j], IF p \in DOMAIN eg THEN eg[p] ELSE entities[p])

Whole(eg) ==
    \A i \in DOMAIN eg :
        eg[i].to # 0 =>
            \E k \in DOMAIN rows : i \in rows[k].idents /\ MergedBy(eg, eg[i].to, k)

WholeInv == ChainInv /\ Whole(editgroup)

LEMMA NoRedirects ==
    ASSUME ChainInv, job \notin Mergers
    PROVE  \A i \in DOMAIN editgroup : editgroup[i].to = 0
BY DEF ChainInv, Pointing

LEMMA BatchWhole ==
    ASSUME WholeInv, NEW all, NEW idents, Batch(all, idents)
    PROVE  Whole(all)
<1>1. CASE all = editgroup
  BY <1>1 DEF WholeInv
<1>2. ASSUME NEW p, NEW new, MergedBatch(all, idents, p, new)
      PROVE  Whole(all)
  <2>1. /\ job \in Mergers /\ AtRow /\ Joins(all, new) /\ Merging(new, p, idents)
        /\ idents = Row.idents /\ idents \cap run.inflight = {}
        /\ DOMAIN editgroup \cap idents = {}
    BY <1>2 DEF MergedBatch
  <2>2. PICK k \in DOMAIN rows : rows[k].idents = idents
    BY <2>1, RowIs DEF WholeInv, ChainInv, Row
  <2>3. /\ p \in idents /\ DOMAIN new \subseteq idents
        /\ \A i \in DOMAIN new \ {p} : new[i].to = p
        /\ p \in DOMAIN new => new[p].to = 0
        /\ DOMAIN new = {} \/ idents \ {p} \subseteq DOMAIN new
        /\ job = "merge_files" =>
              \A j \in idents \ {p} :
                 Carries(entities[j], IF p \in DOMAIN new THEN new[p] ELSE entities[p])
    BY <2>1 DEF Merging
  <2>4. /\ DOMAIN all = DOMAIN editgroup \cup DOMAIN new
        /\ \A i \in DOMAIN editgroup : all[i] = editgroup[i]
        /\ \A i \in DOMAIN new : all[i] = new[i]
    BY <2>1 DEF Joins
  <2>5. ASSUME NEW i \in DOMAIN editgroup, NEW to, to = editgroup[i].to, to # 0
        PROVE  \E l \in DOMAIN rows : i \in rows[l].idents /\ MergedBy(all, to, l)
    <3>1. to \in run.inflight
      BY <2>5 DEF WholeInv, ChainInv, Pointing
    <3>2. to \notin DOMAIN new
      BY <2>1, <2>3, <3>1
    <3>3. PICK l \in DOMAIN rows : i \in rows[l].idents /\ MergedBy(editgroup, to, l)
      BY <2>5 DEF WholeInv, Whole
    <3>4. (IF to \in DOMAIN all THEN all[to] ELSE entities[to])
             = IF to \in DOMAIN editgroup THEN editgroup[to] ELSE entities[to]
      BY <2>4, <3>2
    <3>5. MergedBy(all, to, l)
      BY <2>4, <3>3, <3>4 DEF MergedBy
    <3> QED
      BY <3>3, <3>5
  <2>6. ASSUME NEW i \in DOMAIN new, new[i].to # 0
        PROVE  i \in rows[k].idents /\ new[i].to = p /\ MergedBy(all, p, k)
    <3>1. i # p /\ new[i].to = p /\ i \in idents
      BY <2>3, <2>6
    <3>2. idents \ {p} \subseteq DOMAIN new
      BY <2>3, <2>6
    <3>3. p \notin DOMAIN editgroup
      BY <2>1, <2>3
    <3>4. (IF p \in DOMAIN all THEN all[p] ELSE entities[p])
             = IF p \in DOMAIN new THEN new[p] ELSE entities[p]
      BY <2>4, <3>3
    <3>5. MergedBy(all, p, k)
      BY <2>2, <2>3, <2>4, <3>2, <3>4 DEF MergedBy
    <3> QED
      BY <2>2, <3>1, <3>5
  <2>7. ASSUME NEW i \in DOMAIN all, all[i].to # 0
        PROVE  \E l \in DOMAIN rows : i \in rows[l].idents /\ MergedBy(all, all[i].to, l)
    BY <2>4, <2>5, <2>6, <2>7
  <2> QED
    BY <2>7 DEF Whole
<1>3. ASSUME NEW j, NEW body, CleanedBatch(all, j, body)
      PROVE  Whole(all)
  <2>1. /\ job = "clean_files" /\ body.to = 0 /\ Joins(all, OneEdit(j, body)) /\ job \notin Mergers
    BY <1>3 DEF CleanedBatch, Mergers
  <2>2. \A i \in DOMAIN editgroup : editgroup[i].to = 0
    BY <2>1, NoRedirects DEF WholeInv
  <2>3. \A i \in DOMAIN all : all[i].to = 0
    BY <2>1, <2>2 DEF Joins, OneEdit
  <2> QED
    BY <2>3 DEF Whole
<1> QED
  BY <1>1, <1>2, <1>3 DEF Batch

\* Others only add to the entities; what they change of the batch has raced.
LEMMA OthersKeepWhole ==
    ASSUME WholeInv, UNCHANGED <<job, rows>>, NEW i, NEW body, OthersWrite(i, body)
    PROVE  Whole(editgroup)'
<1>1. PICK new : new = [entities EXCEPT ![i] = body]
  OBVIOUS
<1>2. /\ i \in DOMAIN entities /\ body \in Body /\ Carries(entities[i], body)
      /\ entities' = new /\ UNCHANGED editgroup
      /\ raced' = raced \cup ({i} \cap DOMAIN editgroup)
  BY <1>1 DEF OthersWrite, OthersDo
<1>3. /\ DOMAIN new = DOMAIN entities
      /\ new[i] = body /\ \A j \in DOMAIN entities \ {i} : new[j] = entities[j]
  BY <1>1, <1>2, WrittenIs DEF WholeInv, ChainInv, BulkTypeOK
<1>4. DOMAIN editgroup \subseteq DOMAIN entities
  BY DEF WholeInv, ChainInv, BulkTypeOK, BatchOK
<1>5. ASSUME NEW m \in DOMAIN editgroup, editgroup[m].to # 0
      PROVE  \E k \in DOMAIN rows : /\ m \in rows[k].idents
                                    /\ MergedBy(editgroup, editgroup[m].to, k)'
  <2>1. PICK p : p = editgroup[m].to
    OBVIOUS
  <2>2. p \in DOMAIN entities
    BY <1>5, <2>1 DEF WholeInv, ChainInv, Pointing
  <2>3. PICK k \in DOMAIN rows : m \in rows[k].idents /\ MergedBy(editgroup, p, k)
    BY <1>5, <2>1 DEF WholeInv, Whole
  <2>4. ASSUME NEW j \in rows[k].idents \ {p}
        PROVE  /\ j \in DOMAIN editgroup /\ editgroup[j].to = p
               /\ job = "merge_files" /\ raced' \cap {j, p} = {} =>
                     Carries(new[j], IF p \in DOMAIN editgroup THEN editgroup[p] ELSE new[p])
    <3>1. /\ j \in DOMAIN editgroup /\ editgroup[j].to = p
          /\ job = "merge_files" /\ raced \cap {j, p} = {} =>
                Carries(entities[j], IF p \in DOMAIN editgroup THEN editgroup[p] ELSE entities[p])
      BY <2>3, <2>4 DEF MergedBy
    <3>2. ASSUME job = "merge_files", raced' \cap {j, p} = {}
          PROVE  Carries(new[j], IF p \in DOMAIN editgroup THEN editgroup[p] ELSE new[p])
      <4>1. raced \cap {j, p} = {} /\ j # i
        BY <1>2, <3>1, <3>2
      <4>2. new[j] = entities[j]
        BY <1>3, <1>4, <3>1, <4>1
      <4>3. CASE p \in DOMAIN editgroup
        BY <3>1, <3>2, <4>1, <4>2, <4>3
      <4>4. CASE p \notin DOMAIN editgroup
        <5>1. Carries(entities[j], entities[p])
          BY <3>1, <3>2, <4>1, <4>4
        <5>2. Carries(entities[p], new[p])
          BY <1>2, <1>3, <2>2 DEF Carries
        <5> QED
          BY <4>2, <4>4, <5>1, <5>2 DEF Carries
      <4> QED
        BY <4>3, <4>4
    <3> QED
      BY <3>1, <3>2
  <2>5. p \in rows[k].idents
    BY <2>3 DEF MergedBy
  <2>6. MergedBy(editgroup, p, k)'
    BY <1>2, <2>4, <2>5 DEF MergedBy
  <2> QED
    BY <1>2, <2>1, <2>3, <2>6 DEF MergedBy
<1>6. \A m \in DOMAIN editgroup :
         editgroup[m].to # 0 =>
            \E k \in DOMAIN rows : m \in rows[k].idents /\ MergedBy(editgroup, editgroup[m].to, k)'
  BY <1>5
<1> QED
  BY <1>2, <1>6 DEF Whole

LEMMA WholeStep == WholeInv /\ [BulkNext]_bulkVars => WholeInv'
<1> SUFFICES ASSUME WholeInv, [BulkNext]_bulkVars PROVE Whole(editgroup)'
  BY ChainStep DEF WholeInv
<1>1. BulkTypeOK /\ ChainInv /\ Whole(editgroup)
  BY DEF WholeInv, ChainInv
<1>2. Does /\ UNCHANGED <<job, rows>>
  BY <1>1, StepDoes
<1>3. ASSUME DOMAIN editgroup' = {} PROVE Whole(editgroup)'
  BY <1>3 DEF Whole
<1>4. ASSUME job \in Importers PROVE Whole(editgroup)'
  <2>1. ChainInv' /\ (job \notin Mergers)'
    BY <1>1, <1>2, <1>4, ChainStep DEF Mergers, Importers, FileImporters, ReleaseImporters, ContainerImporters
  <2>2. \A i \in DOMAIN editgroup' : editgroup'[i].to = 0
    BY <2>1 DEF ChainInv, Pointing
  <2> QED
    BY <2>2 DEF Whole
<1>5. CASE Still
  BY <1>1, <1>2, <1>5 DEF Still, Whole, MergedBy
<1>6. CASE Ends
  BY <1>3, <1>6, EmptyIs DEF Ends, ProcessEnds
<1>7. ASSUME NEW all, NEW idents, Batch(all, idents), Waits(all, idents) \/ Accepts(all)
      PROVE  Whole(editgroup)'
  <2>1. Whole(all)
    BY <1>7, BatchWhole
  <2>2. CASE Waits(all, idents)
    BY <1>2, <2>1, <2>2 DEF Waits, Whole, MergedBy
  <2>3. CASE Accepts(all)
    BY <1>3, <2>3, EmptyIs DEF Accepts
  <2> QED
    BY <1>7, <2>2, <2>3
<1>8. CASE FinishQueue
  <2>1. DOMAIN editgroup' = {}
    BY <1>1, <1>8, BatchFinite DEF FinishQueue
  <2> QED
    BY <1>3, <2>1
<1>9. ASSUME NEW i, NEW body, OthersWrite(i, body) PROVE Whole(editgroup)'
  BY <1>2, <1>9, OthersKeepWhole
<1> QED
  BY <1>2, <1>4, <1>5, <1>6, <1>7, <1>8, <1>9 DEF Does

\* What a step does to an entity of the catalog.
LEMMA EntityStep ==
    ASSUME ChainInv, [BulkNext]_bulkVars, NEW i \in DOMAIN entities
    PROVE  \/ entities'[i] = entities[i]
           \/ /\ job \in Importers /\ AtRow /\ i \in DOMAIN editgroup
              /\ entities' = Accepted(editgroup) /\ entities'[i] = editgroup[i]
           \/ \E all, idents : /\ Batch(all, idents) /\ Accepts(all)
                               /\ i \in DOMAIN all /\ entities'[i] = all[i]
           \/ \E body : OthersWrite(i, body) /\ entities'[i] = body
<1>1. BulkTypeOK /\ Does
  BY StepDoes DEF ChainInv
<1>2. PICK new : new = entities'
  OBVIOUS
<1>3. GroupOK(editgroup) /\ entities \in Seq(Body)
  BY <1>1 DEF BulkTypeOK, BatchOK, GroupOK
<1> HIDE DEF Body
<1>4. \A queue \in Seq(Body) : new = Inserted(entities, queue) => new[i] = entities[i]
  BY <1>3, InsertedIs
<1>5. \A eg : GroupOK(eg) /\ new = Accepted(eg) =>
                 \/ i \in DOMAIN eg /\ new[i] = eg[i]
                 \/ new[i] = entities[i]
  BY <1>3, AcceptedIs
<1>6. CASE Still \/ Ends
  BY <1>6 DEF Still, Ends
<1>7. ASSUME NEW body, NEW queue, Queued(body, queue) PROVE new[i] = entities[i]
  <2>1. queue \in Seq(Body) /\ (new = Inserted(entities, queue) \/ new = entities)
    BY <1>2, <1>7 DEF Queued
  <2> QED
    BY <1>4, <2>1
<1>8. ASSUME NEW j, NEW body, NewBatch(j, body) \/ JoinsBatch(j, body)
      PROVE  \/ new[i] = entities[i]
             \/ i \in DOMAIN editgroup /\ new = Accepted(editgroup) /\ new[i] = editgroup[i]
  <2>1. CASE NewBatch(j, body)
    <3>1. PICK eg : eg = editgroup
      OBVIOUS
    <3>2. new = Accepted(eg) /\ GroupOK(eg)
      BY <1>2, <1>3, <2>1, <3>1 DEF NewBatch
    <3> QED
      BY <1>5, <3>1, <3>2
  <2>2. CASE JoinsBatch(j, body)
    BY <1>2, <2>2 DEF JoinsBatch
  <2> QED
    BY <1>8, <2>1, <2>2
<1>9. ASSUME NEW all, NEW idents, Batch(all, idents), Waits(all, idents) \/ Accepts(all)
      PROVE  \/ new[i] = entities[i]
             \/ Batch(all, idents) /\ Accepts(all) /\ i \in DOMAIN all /\ new[i] = all[i]
  <2>1. CASE Waits(all, idents)
    BY <1>2, <2>1 DEF Waits
  <2>2. CASE Accepts(all)
    <3>1. new = Accepted(all) /\ GroupOK(all)
      BY <1>2, <1>9, <2>2 DEF Accepts, Batch
    <3> QED
      BY <1>5, <1>9, <2>2, <3>1
  <2> QED
    BY <1>9, <2>1, <2>2
<1>10. CASE FinishQueue
  <2>1. PICK queue : queue = run.queue
    OBVIOUS
  <2>2. queue \in Seq(Body) /\ new = Inserted(entities, queue)
    BY <1>1, <1>2, <1>10, <2>1, RunIs DEF FinishQueue
  <2>3. entities'[i] = entities[i]
    BY <1>2, <1>4, <2>2
  <2> QED
    BY <2>3
<1>11. ASSUME NEW j, NEW body, OthersWrite(j, body)
       PROVE  new[i] = entities[i] \/ (OthersWrite(i, body) /\ new[i] = body)
  <2>1. j \in DOMAIN entities /\ body \in Body /\ new = [entities EXCEPT ![j] = body]
    BY <1>2, <1>11 DEF OthersWrite, OthersDo
  <2>2. /\ new[j] = body /\ \A k \in DOMAIN entities \ {j} : new[k] = entities[k]
    BY <1>3, <2>1, WrittenIs
  <2> QED
    BY <1>11, <2>2
<1> QED
  BY <1>1, <1>2, <1>6, <1>7, <1>8, <1>9, <1>10, <1>11 DEF Does

LEMMA MergeStepWhole ==
    ASSUME WholeInv, [BulkNext]_bulkVars, NEW i \in DOMAIN entities, NEW p, p = entities'[i].to,
           Active(i), p # 0, others' = others
    PROVE  \E k \in DOMAIN rows :
              /\ {i, p} \subseteq rows[k].idents
              /\ \A j \in rows[k].idents \ {p} :
                    /\ entities'[j].to = p
                    /\ job = "merge_files" /\ raced \cap {j, p} = {} =>
                          Carries(entities[j], entities'[p])
<1>1. ChainInv /\ BulkTypeOK
  BY DEF WholeInv, ChainInv
<1>2. entities'[i] # entities[i]
  BY DEF Active
<1>3. CASE job \in Importers /\ i \in DOMAIN editgroup /\ entities'[i] = editgroup[i]
  <2>1. job \notin Mergers
    BY <1>3 DEF Mergers, Importers, FileImporters, ReleaseImporters, ContainerImporters
  <2> QED
    BY <1>1, <1>3, <2>1, NoRedirects
<1>4. ASSUME NEW body, OthersWrite(i, body) PROVE FALSE
  BY <1>1, <1>4, BulkAssumption DEF OthersWrite, OthersDo, BulkTypeOK
<1>5. ASSUME NEW all, NEW idents, Batch(all, idents), Accepts(all),
             i \in DOMAIN all, entities'[i] = all[i]
      PROVE  \E k \in DOMAIN rows :
                /\ {i, p} \subseteq rows[k].idents
                /\ \A j \in rows[k].idents \ {p} :
                      /\ entities'[j].to = p
                      /\ job = "merge_files" /\ raced \cap {j, p} = {} =>
                            Carries(entities[j], entities'[p])
  <2>1. PICK k \in DOMAIN rows : i \in rows[k].idents /\ MergedBy(all, p, k)
    BY <1>5, BatchWhole DEF Whole
  <2>2. p \in DOMAIN entities
    BY <1>1, <1>5, BatchPoints DEF Pointing
  <2>3. PICK new : new = entities'
    OBVIOUS
  <2>4. new = Accepted(all) /\ GroupOK(all) /\ entities \in Seq(Body)
    BY <1>1, <1>5, <2>3 DEF Accepts, Batch, BulkTypeOK
  <2>5. /\ \A j \in DOMAIN all : new[j] = all[j]
        /\ \A j \in DOMAIN entities \ DOMAIN all : new[j] = entities[j]
    BY <2>4, AcceptedIs
  <2>6. new[p] = IF p \in DOMAIN all THEN all[p] ELSE entities[p]
    BY <2>2, <2>5
  <2>7. ASSUME NEW j \in rows[k].idents \ {p}
        PROVE  /\ new[j].to = p
               /\ job = "merge_files" /\ raced \cap {j, p} = {} => Carries(entities[j], new[p])
    BY <2>1, <2>5, <2>6, <2>7 DEF MergedBy
  <2>8. {i, p} \subseteq rows[k].idents
    BY <2>1 DEF MergedBy
  <2> QED
    BY <2>3, <2>7, <2>8
<1> QED
  BY <1>1, <1>2, <1>3, <1>4, <1>5, EntityStep

\* A merge is published whole, and what replaces the files has all that they had.
THEOREM AlwaysMergedWhole == BulkSpec => MergesWhole
<1>1. BulkInit => WholeInv
  <2>1. BulkInit => DOMAIN editgroup = {}
    BY EmptyIs DEF BulkInit
  <2> QED
    BY <2>1, ChainInit DEF WholeInv, Whole
<1>2. WholeInv /\ [BulkNext]_bulkVars =>
         [\A i \in DOMAIN entities :
             LET p == entities'[i].to
             IN  Active(i) /\ p # 0 /\ others' = others =>
                    \E k \in DOMAIN rows :
                       /\ {i, p} \subseteq rows[k].idents
                       /\ \A j \in rows[k].idents \ {p} :
                             /\ entities'[j].to = p
                             /\ job = "merge_files" /\ raced \cap {j, p} = {} =>
                                   /\ entities[j].urls \subseteq entities'[p].urls
                                   /\ entities[j].links \subseteq entities'[p].links
                                   /\ entities[j].marks \subseteq entities'[p].marks]_bulkVars
  BY MergeStepWhole DEF Carries
<1> QED
  BY <1>1, <1>2, WholeStep, PTL DEF BulkSpec, MergesWhole

-----------------------------------------------------------------------------
(* Nothing is taken back: an edit of the batch keeps what its entity has now,*)
(* or people changed that entity since.  Importers that do not look at the   *)
(* idents in flight edit an entity that no other row finds; the cleaner      *)
(* edits entities that are still as in the dump.                             *)

Exempt == Replaces \/ (job \in Importers \ Guarded /\ ~FindsApart)

Kept(eg) ==
    \A i \in DOMAIN eg : i \in raced \/ eg[i].to # 0 \/ Keeps(Assigned, entities[i], eg[i])

Meets(ids, k) == ids \cap About(rows[k]) # {}
OneRow(ids) == \A k, l \in DOMAIN rows : Meets(ids, k) /\ Meets(ids, l) => k = l

FoundBefore(ids, next) == \E l \in DOMAIN rows : l < next /\ Meets(ids, l)

FoundApart ==
    /\ \A i \in DOMAIN entities : OneRow(entities[i].ids)
    /\ \A q \in DOMAIN run.queue : OneRow(run.queue[q].ids)
    /\ \A i \in DOMAIN editgroup :
          OneRow(editgroup[i].ids) /\ FoundBefore(entities[i].ids, run.next)

Dumped ==
    /\ \A k \in DOMAIN rows : rows[k].ident \in DOMAIN Seed /\ rows[k].body = Seed[rows[k].ident]
    /\ \A i \in DOMAIN Seed : i \in DOMAIN entities /\ (i \notin changed => entities[i] = Seed[i])

KeptInv ==
    /\ ChainInv
    /\ \/ Exempt
       \/ /\ Kept(editgroup)
          /\ job \in Importers \ Guarded => FoundApart
          /\ job = "clean_files" => Dumped

LEMMA BatchKept ==
    ASSUME KeptInv, ~Exempt, NEW all, NEW idents, Batch(all, idents)
    PROVE  Kept(all)
<1>1. Kept(editgroup) /\ BulkTypeOK
  BY DEF KeptInv, ChainInv
<1>2. CASE all = editgroup
  BY <1>1, <1>2
<1>3. ASSUME NEW p, NEW new, MergedBatch(all, idents, p, new) PROVE Kept(all)
  <2>1. /\ Joins(all, new) /\ Merging(new, p, idents) /\ idents \subseteq DOMAIN entities
    BY <1>3 DEF MergedBatch
  <2>2. /\ \A i \in DOMAIN new \ {p} : new[i].to = p
        /\ p \in DOMAIN new => Keeps(Assigned, entities[p], new[p])
        /\ p \in DOMAIN entities
    BY <2>1 DEF Merging
  <2>3. p # 0
    BY <1>1, <2>2, BodiesOK DEF Bodies, Ident
  <2>4. \A i \in DOMAIN new : new[i].to # 0 \/ Keeps(Assigned, entities[i], new[i])
    BY <2>2, <2>3
  <2>5. /\ DOMAIN all = DOMAIN editgroup \cup DOMAIN new
        /\ \A i \in DOMAIN editgroup : all[i] = editgroup[i]
        /\ \A i \in DOMAIN new : all[i] = new[i]
    BY <2>1 DEF Joins
  <2> QED
    BY <1>1, <2>4, <2>5 DEF Kept
<1>4. ASSUME NEW i, NEW body, CleanedBatch(all, i, body) PROVE Kept(all)
  <2>1. /\ job = "clean_files" /\ AtRow /\ i = Row.ident /\ i \notin changed
        /\ Keeps(Assigned, Row.body, body) /\ Joins(all, OneEdit(i, body))
    BY <1>4 DEF CleanedBatch
  <2>2. Dumped /\ run.next \in DOMAIN rows
    BY <1>1, <2>1, RowIs DEF KeptInv
  <2>3. Row.body = Seed[i] /\ entities[i] = Seed[i]
    BY <2>1, <2>2 DEF Dumped, Row
  <2>4. PICK e : e = OneEdit(i, body)
    OBVIOUS
  <2>5. DOMAIN e = {i} /\ e[i] = body
    BY <2>4 DEF OneEdit
  <2>6. /\ DOMAIN all = DOMAIN editgroup \cup {i}
        /\ \A j \in DOMAIN editgroup : all[j] = editgroup[j]
        /\ all[i] = body
    BY <2>1, <2>4, <2>5 DEF Joins
  <2> QED
    BY <1>1, <2>1, <2>3, <2>6 DEF Kept
<1> QED
  BY <1>2, <1>3, <1>4 DEF Batch

\* What one row is about, and what it adds to an entity that it finds.
LEMMA RowFinds ==
    ASSUME FindsApart, NEW k \in DOMAIN rows, About(rows[k]) # {}
    PROVE  /\ OneRow(About(rows[k]))
           /\ \A old, ids : OneRow(old) /\ Meets(old, k) /\ ids \subseteq old \cup About(rows[k])
                               => OneRow(ids)
<1>1. \A m \in DOMAIN rows : Meets(About(rows[k]), m) => m = k
  BY DEF FindsApart, RowsApart, Meets
<1>2. ASSUME NEW old, NEW ids, OneRow(old), Meets(old, k), ids \subseteq old \cup About(rows[k]),
             NEW m \in DOMAIN rows, Meets(ids, m)
      PROVE  m = k
  <2>1. Meets(old, m) \/ Meets(About(rows[k]), m)
    BY <1>2 DEF Meets
  <2> QED
    BY <1>1, <1>2, <2>1 DEF OneRow
<1> QED
  BY <1>1, <1>2 DEF OneRow

LEMMA FoundFrom ==
    ASSUME UNCHANGED <<job, rows>>,
           \A i \in DOMAIN entities' : OneRow(entities'[i].ids),
           \A q \in DOMAIN run'.queue : OneRow(run'.queue[q].ids),
           \A i \in DOMAIN editgroup' :
              OneRow(editgroup'[i].ids) /\ FoundBefore(entities'[i].ids, run'.next)
    PROVE  FoundApart'
BY DEF FoundApart, OneRow, FoundBefore, Meets, About

\* An entity that the row finds has no edit in the batch.
LEMMA FoundOnce ==
    ASSUME FoundApart, NEW i \in DOMAIN entities, run.next \in DOMAIN rows, run.next \in Nat,
           Meets(entities[i].ids, run.next)
    PROVE  i \notin DOMAIN editgroup
<1> SUFFICES ASSUME i \in DOMAIN editgroup PROVE FALSE
  OBVIOUS
<1>1. PICK l \in DOMAIN rows : l < run.next /\ Meets(entities[i].ids, l)
  BY DEF FoundApart, FoundBefore
<1>2. l = run.next
  BY <1>1 DEF FoundApart, OneRow
<1> QED
  BY <1>1, <1>2

LEMMA AtRowIs ==
    ASSUME BulkTypeOK, AtRow, job \in Importers
    PROVE  /\ run.next \in DOMAIN rows /\ run.next \in Nat /\ Row = rows[run.next]
           /\ About(Row) # {}
BY RowIs, RunIs DEF Row, About

LEMMA FoundStep ==
    ASSUME ChainInv, [BulkNext]_bulkVars, job \in Importers \ Guarded, FindsApart, ~Replaces,
           FoundApart
    PROVE  FoundApart'
<1>1. BulkTypeOK /\ Does /\ UNCHANGED <<job, rows>>
  BY StepDoes DEF ChainInv
<1>2. /\ \A i \in DOMAIN entities : OneRow(entities[i].ids)
      /\ \A q \in DOMAIN run.queue : OneRow(run.queue[q].ids)
      /\ \A i \in DOMAIN editgroup :
            OneRow(editgroup[i].ids) /\ FoundBefore(entities[i].ids, run.next)
  BY DEF FoundApart
<1>3. /\ entities \in Seq(Body) /\ GroupOK(editgroup) /\ run.next \in Nat
      /\ DOMAIN editgroup \subseteq DOMAIN entities
  BY <1>1, RunIs DEF BulkTypeOK, BatchOK, GroupOK
<1>4. \A ids : FoundBefore(ids, run.next) => FoundBefore(ids, run.next + 1)
  <2>1. \A l \in DOMAIN rows : l < run.next => l < run.next + 1
    BY <1>1, <1>3, BatchFinite
  <2> QED
    BY <2>1 DEF FoundBefore
<1> HIDE DEF Body
<1>5. ASSUME NEW queue \in Seq(Body), \A q \in DOMAIN queue : OneRow(queue[q].ids),
             NEW new, new = Inserted(entities, queue)
      PROVE  /\ \A i \in DOMAIN new : OneRow(new[i].ids)
             /\ \A i \in DOMAIN entities : new[i] = entities[i]
  <2>1. /\ \A i \in DOMAIN entities : new[i] = entities[i]
        /\ \A i \in DOMAIN new \ DOMAIN entities : \E k \in DOMAIN queue : new[i] = queue[k]
    BY <1>3, <1>5, InsertedIs
  <2> QED
    BY <1>2, <1>5, <2>1
<1>6. \A i \in DOMAIN Accepted(editgroup) : OneRow(Accepted(editgroup)[i].ids)
  BY <1>2 DEF Accepted
<1>7. CASE Still
  <2>1. /\ UNCHANGED <<entities, editgroup>> /\ run'.queue = run.queue
        /\ run'.next \in {run.next, run.next + 1}
    BY <1>7 DEF Still
  <2> QED
    BY <1>1, <1>2, <1>4, <2>1, FoundFrom
<1>8. CASE Ends
  <2>1. UNCHANGED entities /\ DOMAIN editgroup' = {} /\ DOMAIN run'.queue = {}
    BY <1>8, EmptyIs DEF Ends, ProcessEnds, NewRun
  <2> QED
    BY <1>1, <1>2, <2>1, FoundFrom
<1>9. ASSUME NEW body, NEW queue, AtRow, Queued(body, queue) PROVE FoundApart'
  <2>1. OneRow(About(Row))
    BY <1>1, <1>9, AtRowIs, RowFinds
  <2>2. /\ body.ids = About(Row) /\ queue \in Seq(Body) /\ UNCHANGED editgroup
        /\ \A k \in DOMAIN queue : queue[k] = body \/ \E l \in DOMAIN run.queue : queue[k] = run.queue[l]
        /\ \/ entities' = Inserted(entities, queue) /\ run'.queue = << >>
           \/ entities' = entities /\ run'.queue = queue
        /\ run'.next = run.next + 1
    BY <1>9 DEF Queued
  <2>3. \A k \in DOMAIN queue : OneRow(queue[k].ids)
    BY <1>2, <2>1, <2>2
  <2>4. \A q \in DOMAIN run'.queue : OneRow(run'.queue[q].ids)
    BY <2>2, <2>3, EmptyIs
  <2>5. /\ \A i \in DOMAIN entities' : OneRow(entities'[i].ids)
        /\ \A i \in DOMAIN entities : entities'[i] = entities[i]
    <3>1. PICK new : new = entities'
      OBVIOUS
    <3>2. CASE new = Inserted(entities, queue)
      BY <1>5, <2>2, <2>3, <3>1, <3>2
    <3>3. CASE new = entities
      BY <1>2, <3>1, <3>3
    <3> QED
      BY <2>2, <3>1, <3>2, <3>3
  <2>6. \A i \in DOMAIN editgroup' :
           OneRow(editgroup'[i].ids) /\ FoundBefore(entities'[i].ids, run'.next)
    BY <1>2, <1>3, <1>4, <2>2, <2>5
  <2> QED
    BY <1>1, <2>4, <2>5, <2>6, FoundFrom
<1>10. ASSUME NEW i \in DOMAIN entities, NEW body \in Body, Fits(run.next, i, body), AtRow,
              NewBatch(i, body) \/ JoinsBatch(i, body)
       PROVE  FoundApart'
  <2>1. run.next \in DOMAIN rows /\ About(rows[run.next]) # {}
    BY <1>1, <1>10, AtRowIs
  <2>2. Meets(entities[i].ids, run.next) /\ body.ids \subseteq entities[i].ids \cup About(rows[run.next])
    BY <1>10 DEF Fits, Replaces, Meets
  <2>3. OneRow(body.ids)
    BY <1>2, <2>1, <2>2, RowFinds
  <2>4. FoundBefore(entities[i].ids, run.next + 1)
    BY <1>3, <2>1, <2>2 DEF FoundBefore
  <2>5. i \notin DOMAIN editgroup
    BY <1>3, <2>1, <2>2, FoundOnce
  <2>6. PICK e : e = OneEdit(i, body) /\ DOMAIN e = {i} /\ e[i] = body
    BY OneEditIs
  <2>7. CASE NewBatch(i, body)
    <3>1. PICK new : new = Accepted(editgroup)
      OBVIOUS
    <3>2. /\ entities' = new /\ editgroup' = e /\ run'.queue = run.queue
          /\ run'.next = run.next + 1
      BY <2>6, <2>7, <3>1 DEF NewBatch
    <3>3. new[i] = entities[i] /\ \A j \in DOMAIN new : OneRow(new[j].ids)
      BY <1>6, <2>5, <3>1 DEF Accepted
    <3> QED
      BY <1>1, <1>2, <2>3, <2>4, <2>6, <3>2, <3>3, FoundFrom
  <2>8. CASE JoinsBatch(i, body)
    <3>1. PICK all : all = Joined(editgroup, e)
      OBVIOUS
    <3>2. /\ UNCHANGED entities /\ editgroup' = all /\ run'.queue = run.queue
          /\ run'.next = run.next + 1
      BY <2>6, <2>8, <3>1 DEF JoinsBatch
    <3>3. /\ DOMAIN all = DOMAIN editgroup \cup {i}
          /\ \A j \in DOMAIN editgroup : all[j] = editgroup[j]
          /\ all[i] = body
      BY <2>5, <2>6, <3>1 DEF Joined
    <3>4. \A j \in DOMAIN all : OneRow(all[j].ids) /\ FoundBefore(entities[j].ids, run.next + 1)
      BY <1>2, <1>4, <2>3, <2>4, <3>3
    <3> QED
      BY <1>1, <1>2, <3>2, <3>4, FoundFrom
  <2> QED
    BY <1>10, <2>7, <2>8
<1>11. ASSUME NEW all, NEW idents, Batch(all, idents), Waits(all, idents) \/ Accepts(all)
       PROVE  FoundApart'
  <2>1. all = editgroup
    BY <1>11 DEF Batch, MergedBatch, CleanedBatch, Mergers, Importers, FileImporters,
                 ReleaseImporters, ContainerImporters
  <2>2. CASE Waits(all, idents)
    <3>1. /\ UNCHANGED <<entities, editgroup>> /\ run'.queue = run.queue
          /\ run'.next = run.next + 1
      BY <2>1, <2>2 DEF Waits
    <3> QED
      BY <1>1, <1>2, <1>4, <3>1, FoundFrom
  <2>3. CASE Accepts(all)
    <3>1. /\ entities' = Accepted(editgroup) /\ DOMAIN editgroup' = {} /\ run'.queue = run.queue
      BY <2>1, <2>3, EmptyIs DEF Accepts
    <3> QED
      BY <1>1, <1>2, <1>6, <3>1, FoundFrom
  <2> QED
    BY <1>11, <2>2, <2>3
<1>12. CASE FinishQueue
  <2>1. PICK queue, new : queue = run.queue /\ new = Inserted(entities, queue)
    OBVIOUS
  <2>2. queue \in Seq(Body) /\ \A q \in DOMAIN queue : OneRow(queue[q].ids)
    BY <1>1, <1>2, <2>1, RunIs
  <2>3. entities' = new /\ DOMAIN editgroup' = {} /\ DOMAIN run'.queue = {}
    <3>1. DOMAIN editgroup = {}
      BY <1>1, <1>12, BatchFinite DEF FinishQueue
    <3> QED
      BY <1>12, <2>1, <3>1, EmptyIs DEF FinishQueue, NewRun
  <2>4. \A i \in DOMAIN new : OneRow(new[i].ids)
    BY <1>5, <2>1, <2>2
  <2> QED
    BY <1>1, <2>3, <2>4, FoundFrom
<1>13. ASSUME NEW i, NEW body, OthersWrite(i, body) PROVE FoundApart'
  <2>1. PICK new : new = [entities EXCEPT ![i] = body]
    OBVIOUS
  <2>2. /\ i \in DOMAIN entities /\ body \in Body /\ body.ids = entities[i].ids
        /\ entities' = new /\ UNCHANGED <<editgroup, run>>
    BY <1>13, <2>1 DEF OthersWrite, OthersDo
  <2>3. /\ DOMAIN new = DOMAIN entities
        /\ new[i] = body /\ \A j \in DOMAIN entities \ {i} : new[j] = entities[j]
    BY <1>3, <2>1, <2>2, WrittenIs
  <2>4. \A j \in DOMAIN entities : new[j].ids = entities[j].ids
    BY <2>2, <2>3
  <2>5. /\ \A j \in DOMAIN new : OneRow(new[j].ids)
        /\ \A j \in DOMAIN editgroup : FoundBefore(new[j].ids, run.next)
    BY <1>2, <1>3, <2>3, <2>4
  <2> QED
    BY <1>1, <1>2, <2>2, <2>5, FoundFrom
<1> QED
  BY <1>1, <1>7, <1>8, <1>9, <1>10, <1>11, <1>12, <1>13 DEF Does

\* What is not among the changed is as in the dump.
LEMMA DumpedStep ==
    ASSUME ChainInv, [BulkNext]_bulkVars, job = "clean_files", Dumped
    PROVE  Dumped'
<1>1. BulkTypeOK /\ Does /\ UNCHANGED <<job, rows>>
  BY StepDoes DEF ChainInv
<1>2. ASSUME NEW i \in DOMAIN entities, i \notin changed'
      PROVE  entities'[i] = entities[i] /\ i \notin changed
  <2>1. job \notin Importers
    BY DEF Importers, FileImporters, ReleaseImporters, ContainerImporters
  <2>2. ASSUME NEW all, NEW idents, Accepts(all), i \in DOMAIN all PROVE FALSE
    BY <1>2, <2>2 DEF Accepts
  <2>3. ASSUME NEW body, OthersWrite(i, body) PROVE FALSE
    BY <1>2, <2>3 DEF OthersWrite, OthersDo
  <2>4. entities'[i] = entities[i]
    BY <2>1, <2>2, <2>3, EntityStep
  <2>5. changed \subseteq changed'
    BY <1>1, <2>1 DEF Does, Still, Ends, Waits, Accepts, FinishQueue, OthersWrite, OthersDo
  <2> QED
    BY <1>2, <2>4, <2>5
<1>3. DOMAIN entities \subseteq DOMAIN entities'
  <2>1. PICK new : new = entities'
    OBVIOUS
  <2>2. entities \in Seq(Body)
    BY <1>1 DEF BulkTypeOK
  <2> HIDE DEF Body
  <2>3. CASE Still \/ Ends
    BY <2>3 DEF Still, Ends
  <2>4. ASSUME NEW all, NEW idents, Waits(all, idents) \/ Accepts(all)
        PROVE  DOMAIN entities \subseteq DOMAIN entities'
    BY <2>4 DEF Waits, Accepts, Accepted
  <2>5. CASE FinishQueue
    <3>1. PICK queue : queue = run.queue
      OBVIOUS
    <3>2. queue \in Seq(Body) /\ new = Inserted(entities, queue)
      BY <1>1, <2>1, <2>5, <3>1, RunIs DEF FinishQueue
    <3> QED
      BY <2>1, <2>2, <3>2, InsertedIs
  <2>6. ASSUME NEW i, NEW body, OthersWrite(i, body)
        PROVE  DOMAIN entities \subseteq DOMAIN entities'
    <3>1. entities' = [entities EXCEPT ![i] = body]
      BY <2>6 DEF OthersWrite, OthersDo
    <3> QED
      BY <3>1
  <2>7. job \notin Importers
    BY DEF Importers, FileImporters, ReleaseImporters, ContainerImporters
  <2> QED
    BY <1>1, <2>3, <2>4, <2>5, <2>6, <2>7 DEF Does
<1>4. \A i \in DOMAIN Seed : i \in DOMAIN entities' /\ (i \notin changed' => entities'[i] = Seed[i])
  BY <1>2, <1>3 DEF Dumped
<1>5. \A k \in DOMAIN rows : rows[k].ident \in DOMAIN Seed /\ rows[k].body = Seed[rows[k].ident]
  BY DEF Dumped
<1> QED
  BY <1>1, <1>4, <1>5 DEF Dumped

LEMMA KeptBatchStep ==
    ASSUME KeptInv, ~Exempt, [BulkNext]_bulkVars
    PROVE  Kept(editgroup)'
<1>1. /\ ChainInv /\ BulkTypeOK /\ Kept(editgroup) /\ Does /\ UNCHANGED <<job, rows>>
      /\ DOMAIN editgroup \subseteq DOMAIN entities /\ entities \in Seq(Body)
  BY StepDoes DEF KeptInv, ChainInv, BulkTypeOK, BatchOK
<1> HIDE DEF Body
<1>11. Assigned' = Assigned
  BY <1>1 DEF Assigned
<1>2. ASSUME DOMAIN editgroup' = {} PROVE Kept(editgroup)'
  BY <1>2 DEF Kept
<1>3. ASSUME UNCHANGED <<editgroup, raced>>, \A i \in DOMAIN entities : entities'[i] = entities[i]
      PROVE  Kept(editgroup)'
  BY <1>11, <1>1, <1>3 DEF Kept
<1>4. CASE Still
  BY <1>3, <1>4 DEF Still
<1>5. CASE Ends
  BY <1>2, <1>5, EmptyIs DEF Ends, ProcessEnds
<1>6. ASSUME NEW body, NEW queue, Queued(body, queue) PROVE Kept(editgroup)'
  <2>1. PICK new : new = entities'
    OBVIOUS
  <2>2. /\ UNCHANGED <<editgroup, raced>> /\ queue \in Seq(Body)
        /\ new = Inserted(entities, queue) \/ new = entities
    BY <1>6, <2>1 DEF Queued
  <2>3. \A i \in DOMAIN entities : new[i] = entities[i]
    BY <1>1, <2>2, InsertedIs
  <2> QED
    BY <1>3, <2>1, <2>2, <2>3
<1>7. ASSUME NEW i \in DOMAIN entities, NEW body \in Body, Fits(run.next, i, body), AtRow,
             job \in Importers, NewBatch(i, body) \/ JoinsBatch(i, body)
      PROVE  Kept(editgroup)'
  <2>1. Keeps(Assigned, entities[i], body) /\ ~Replaces
    BY <1>7 DEF Fits, Exempt
  <2>2. i \notin DOMAIN editgroup
    <3>1. CASE job \in Guarded
      BY <1>1, <1>7, <3>1 DEF Fits, BulkTypeOK, BatchOK
    <3>2. CASE job \notin Guarded
      <4>1. FoundApart
        BY <1>7, <3>2 DEF KeptInv
      <4>2. run.next \in DOMAIN rows /\ run.next \in Nat
        BY <1>1, <1>7, AtRowIs
      <4>3. Meets(entities[i].ids, run.next)
        BY <1>7, <2>1 DEF Fits, Replaces, Meets
      <4> QED
        BY <4>1, <4>2, <4>3, FoundOnce
    <3> QED
      BY <3>1, <3>2
  <2>3. PICK e : e = OneEdit(i, body) /\ DOMAIN e = {i} /\ e[i] = body
    BY OneEditIs
  <2>4. CASE NewBatch(i, body)
    <3>1. entities' = Accepted(editgroup) /\ editgroup' = e
      BY <2>3, <2>4 DEF NewBatch
    <3>2. entities'[i] = entities[i]
      BY <2>2, <3>1 DEF Accepted
    <3> QED
      BY <1>11, <2>1, <2>3, <3>1, <3>2 DEF Kept
  <2>5. CASE JoinsBatch(i, body)
    <3>1. PICK all : all = Joined(editgroup, e)
      OBVIOUS
    <3>2. UNCHANGED <<entities, raced>> /\ editgroup' = all
      BY <2>3, <2>5, <3>1 DEF JoinsBatch
    <3>3. /\ DOMAIN all = DOMAIN editgroup \cup {i}
          /\ \A j \in DOMAIN editgroup : all[j] = editgroup[j]
          /\ all[i] = body
      BY <2>2, <2>3, <3>1 DEF Joined
    <3>4. Kept(all)
      BY <1>1, <2>1, <3>3 DEF Kept
    <3> QED
      BY <1>11, <3>2, <3>4 DEF Kept
  <2> QED
    BY <1>7, <2>4, <2>5
<1>8. ASSUME NEW all, NEW idents, Batch(all, idents), Waits(all, idents) \/ Accepts(all)
      PROVE  Kept(editgroup)'
  <2>1. Kept(all)
    BY <1>8, BatchKept
  <2>2. CASE Waits(all, idents)
    BY <1>11, <2>1, <2>2 DEF Waits, Kept
  <2>3. CASE Accepts(all)
    BY <1>2, <2>3, EmptyIs DEF Accepts
  <2> QED
    BY <1>8, <2>2, <2>3
<1>9. CASE FinishQueue
  <2>1. DOMAIN editgroup' = {}
    BY <1>1, <1>9, BatchFinite DEF FinishQueue
  <2> QED
    BY <1>2, <2>1
<1>10. ASSUME NEW i, NEW body, OthersWrite(i, body) PROVE Kept(editgroup)'
  <2>1. PICK new : new = [entities EXCEPT ![i] = body]
    OBVIOUS
  <2>2. /\ i \in DOMAIN entities /\ body \in Body /\ entities' = new /\ UNCHANGED editgroup
        /\ raced' = raced \cup ({i} \cap DOMAIN editgroup)
    BY <1>10, <2>1 DEF OthersWrite, OthersDo
  <2>3. \A j \in DOMAIN entities \ {i} : new[j] = entities[j]
    BY <1>1, <2>1, <2>2, WrittenIs
  <2> QED
    BY <1>11, <1>1, <2>2, <2>3 DEF Kept
<1> QED
  BY <1>1, <1>4, <1>5, <1>6, <1>7, <1>8, <1>9, <1>10 DEF Does

LEMMA KeptStep == KeptInv /\ [BulkNext]_bulkVars => KeptInv'
<1> SUFFICES ASSUME KeptInv, [BulkNext]_bulkVars PROVE KeptInv'
  OBVIOUS
<1>1. ChainInv /\ ChainInv' /\ UNCHANGED <<job, rows>>
  BY ChainStep, StepDoes DEF KeptInv, ChainInv
<1>2. CASE Exempt
  <2>1. Exempt'
    BY <1>1, <1>2 DEF Exempt, Replaces, FindsApart, RowsApart, About
  <2> QED
    BY <1>1, <2>1 DEF KeptInv
<1>3. CASE ~Exempt
  <2>1. Kept(editgroup)'
    BY <1>3, KeptBatchStep
  <2>2. ASSUME job \in Importers \ Guarded PROVE FoundApart'
    <3>1. FindsApart /\ ~Replaces /\ FoundApart
      BY <1>3, <2>2 DEF Exempt, KeptInv
    <3> QED
      BY <1>1, <2>2, <3>1, FoundStep
  <2>3. ASSUME job = "clean_files" PROVE Dumped'
    <3>1. Dumped
      BY <1>3, <2>3 DEF KeptInv
    <3> QED
      BY <1>1, <2>3, <3>1, DumpedStep
  <2> QED
    BY <1>1, <2>1, <2>2, <2>3 DEF KeptInv
<1> QED
  BY <1>2, <1>3

LEMMA KeptInit == BulkInit => KeptInv
<1> SUFFICES ASSUME BulkInit PROVE KeptInv
  OBVIOUS
<1>1. entities = Seed /\ editgroup = << >> /\ run = NewRun /\ changed = {} /\ ChainInv
  BY ChainInit DEF BulkInit
<1>2. PICK file \in Files : job = file.job /\ rows = file.rows
  BY DEF BulkInit
<1>3. DOMAIN editgroup = {} /\ DOMAIN run.queue = {}
  BY <1>1, EmptyIs DEF NewRun
<1>4. Kept(editgroup)
  BY <1>3 DEF Kept
<1>5. FindsApart => FoundApart
  <2>1. FindsApart => \A i \in DOMAIN entities : OneRow(entities[i].ids)
    BY <1>1 DEF FindsApart, OneRow, Meets
  <2> QED
    BY <1>3, <2>1 DEF FoundApart
<1>6. job = "clean_files" => Dumped
  BY <1>1, <1>2, FilesAssumption DEF Dumped
<1> QED
  BY <1>1, <1>4, <1>5, <1>6 DEF KeptInv, Exempt

LEMMA KeptEntity ==
    ASSUME KeptInv, [BulkNext]_bulkVars, ~Exempt, NEW i \in DOMAIN entities
    PROVE  entities'[i].to # 0 \/ i \in raced \/ Keeps(Assigned, entities[i], entities'[i])
<1>1. ChainInv /\ BulkTypeOK /\ Kept(editgroup)
  BY DEF KeptInv, ChainInv
<1>2. CASE entities'[i] = entities[i]
  BY <1>2 DEF Keeps
<1>3. CASE i \in DOMAIN editgroup /\ entities'[i] = editgroup[i]
  BY <1>1, <1>3 DEF Kept
<1>4. ASSUME NEW all, NEW idents, Batch(all, idents), i \in DOMAIN all, entities'[i] = all[i]
      PROVE  entities'[i].to # 0 \/ i \in raced \/ Keeps(Assigned, entities[i], entities'[i])
  BY <1>4, BatchKept DEF Kept
<1>5. ASSUME NEW body, OthersWrite(i, body), entities'[i] = body
      PROVE  body.to # 0 \/ Keeps(Assigned, entities[i], body)
  BY <1>1, <1>5, BodiesOK DEF OthersWrite, Bodies, Ident
<1> QED
  BY <1>1, <1>2, <1>3, <1>4, <1>5, EntityStep

\* No job takes back what an entity has, but for the values that it assigns
\* (an entry of "extra", and what JSTOR overwrites), except where it replaces.
THEOREM NothingEverTakenBack == BulkSpec => NothingTakenBack
<1>1. KeptInv /\ [BulkNext]_bulkVars =>
         [\A i \in DOMAIN entities :
             LET old == entities[i]  new == entities'[i]
             IN  \/ old.to # 0 \/ new.to # 0
                 \/ i \in raced \/ Replaces
                 \/ job \in Importers \ Guarded /\ ~FindsApart
                 \/ Keeps(Assigned, old, new)]_bulkVars
  BY KeptEntity DEF Exempt
<1> QED
  BY <1>1, KeptInit, KeptStep, PTL DEF BulkSpec, NothingTakenBack

=============================================================================
