----------------------------- MODULE BulkImport -----------------------------
(***************************************************************************)
(* The importers that are run over files and update what they find:        *)
(* EntityImporter of fatcat_tools/importers/common.py with the try_update()*)
(* of each.  A row names its identifier ("own"), others ("ids"), or an     *)
(* ident, and brings URLs, links and marks, and the ISSN-L of a journal.   *)
(* Of the options, do_updates is modelled; the others have their defaults. *)
(*                                                                         *)
(* Some importers look whether an ident has an edit in the open editgroup  *)
(* before they update it (Guarded); some take the refusal of a second edit *)
(* as a reason to skip (TakesConflict); the others die of it.              *)
(***************************************************************************)
EXTENDS BulkEdits

CONSTANT Updating   \* the jobs and files that are run with do_updates

DoUpdates == [job |-> job, rows |-> rows] \in Updating

FileImporters == {"matched", "arabesque", "shadow", "file_meta", "fileset"}
ReleaseImporters == {"jstor", "doaj", "dblp", "pubmed"}
ContainerImporters == {"chocula", "dblp_container", "journal_metadata"}
Importers == FileImporters \cup ReleaseImporters \cup ContainerImporters

Guarded == {"matched", "arabesque", "shadow"}
TakesConflict == {"doaj", "dblp", "pubmed"}
MakesContainers == {"jstor", "pubmed"}

ImportRow == [own : ExtId, ids : SUBSET ExtId, ident : Nat,
              urls : SUBSET Url, links : SUBSET Link, marks : SUBSET Mark,
              journal : SUBSET ExtId]

\* What try_update() decides; an exception ends the process.
Skip == [do |-> "skip"]
Insert == [do |-> "insert"]
End == [do |-> "end"]
Update(i, body) == [do |-> "update", ident |-> i, body |-> body]
InsertUnless(exists) == IF exists THEN Skip ELSE Insert

Inflight(i) == i \in run.inflight
TooMany(body, extra) ==
    Cardinality(body.urls) > MaxUrls + extra \/ Cardinality(body.links) > MaxLinks + extra

-----------------------------------------------------------------------------
(* Files and filesets. *)

\* Mutant of Matched: that there is nothing new is not noticed.
MatchedAgain(r) ==
    LET i == Lookup({r.own})
    IN  IF i = 0 THEN Insert
        ELSE LET old == entities[i]
                 body == [old EXCEPT !.urls = (@ \ BrokenUrl) \cup r.urls,
                                     !.links = @ \cup r.links, !.marks = @ \cup r.marks]
             IN  IF Inflight(i) \/ TooMany(body, 0) THEN Skip ELSE Update(i, body)

\* A direct match from arXiv replaces the links; others are merged.
Matched(r) ==
    LET i == Lookup({r.own})
        direct == r.urls \cap ArxivUrl # {} /\ r.links # {}
    IN  IF i = 0 THEN Insert
        ELSE LET old == entities[i]
                 body == [old EXCEPT !.urls = (@ \ BrokenUrl) \cup r.urls,
                                     !.links = IF direct THEN r.links ELSE @ \cup r.links,
                                     !.marks = @ \cup r.marks]
             IN  IF \/ r.links \subseteq old.links /\ old.urls # {}
                    \/ Inflight(i)
                    \/ TooMany(body, 0)
                 THEN Skip ELSE Update(i, body)

\* The row has one link, the release its identifier was resolved to.
Arabesque(r) ==
    LET i == Lookup({r.own})
    IN  IF i = 0 THEN Insert
        ELSE LET old == entities[i]
                 body == [old EXCEPT !.urls = @ \cup r.urls, !.links = @ \cup r.links,
                                     !.marks = @ \cup r.marks]
             IN  IF \/ r.links \subseteq old.links /\ old.urls # {}
                    \/ ~DoUpdates
                    \/ Inflight(i)
                    \/ r.links = old.links /\ r.urls \subseteq old.urls
                    \/ TooMany(body, 0)
                 THEN Skip ELSE Update(i, body)

\* The mark of the row is its shadow library.
Shadow(r) ==
    LET i == Lookup({r.own})
    IN  IF i = 0 THEN Insert
        ELSE LET old == entities[i]
                 body == [old EXCEPT !.urls = (@ \ BrokenUrl) \cup r.urls,
                                     !.links = @ \cup r.links, !.marks = @ \cup r.marks]
             IN  IF r.marks \subseteq old.marks \/ Inflight(i) \/ TooMany(body, 1)
                 THEN Skip ELSE Update(i, body)

\* want() takes rows with all fields; no entity is created.
FileMeta(r) ==
    LET i == Lookup({r.own})
    IN  IF i = 0 \/ ~(Fields \subseteq r.marks) THEN Skip
        ELSE IF Fields \subseteq entities[i].marks THEN Skip
        ELSE Update(i, [entities[i] EXCEPT !.marks = @ \cup Fields, !.urls = @ \ BrokenUrl])

\* No second fileset for a release.  The releases of the row are asked for one
\* after the other (which is chance), and one that is gone ends the process.
Fileset(r, chance) ==
    LET active == r.links \ Gone
        has == \E i \in DOMAIN entities : Active(i) /\ entities[i].links \cap active # {}
    IN  IF active = r.links THEN InsertUnless(has)
        ELSE IF has /\ chance THEN Skip ELSE End

-----------------------------------------------------------------------------
(* Releases.  First by the importer's own kind of identifier, then by others. *)

Find(r) == IF Lookup({r.own}) # 0 THEN Lookup({r.own}) ELSE Lookup(r.ids)
HasOwn(i) == entities[i].ids \cap OwnId # {}

\* existing.extra["..."] = re.extra["..."]: the entry that is there is replaced,
\* whatever else is in "extra" stays.  An entity without "extra", or a row
\* without the entry, raises.
Assign(marks, new) == {m \in marks : \A e \in Entry : m \in e => e \cap new = {}} \cup new
AssignRaises(i, r) ==
    entities[i].marks \cap Extra = {} \/ r.marks \cap UNION Entry = {}

UpdateAssigning(i, r, body) == IF AssignRaises(i, r) THEN End ELSE Update(i, body)

\* Fields are completed ("x or y"), the entry is assigned.  (That DBLP may bring
\* a Wikidata QID too is left out.)
WithOwn(i, r) == [entities[i] EXCEPT !.ids = @ \cup {r.own}, !.marks = Assign(@, r.marks)]

\* The type, publisher, contribs and language are overwritten, be it by None, and
\* the entry assigned; nothing else is taken from the row.
Jstor(r) ==
    LET i == Find(r)
        brought == r.marks \cap (JstorValue \cup UNION Entry)
        body == [entities[i] EXCEPT !.ids = @ \cup {r.own},
                                    !.marks = Assign(@ \ JstorValue, brought)]
    IN  IF i = 0 THEN Insert
        ELSE IF HasOwn(i) THEN Skip ELSE UpdateAssigning(i, r, body)

\* A fuzzy match in the search index (external) stands for the release.
Doaj(r, fuzzy) ==
    LET i == Find(r)
    IN  IF i = 0 THEN InsertUnless(fuzzy)
        ELSE IF ~DoUpdates \/ HasOwn(i) THEN Skip ELSE UpdateAssigning(i, r, WithOwn(i, r))

\* Rows with an arXiv id are left alone, and releases with all the fields.
Dblp(r, fuzzy) ==
    LET i == Find(r)
    IN  IF r.ids \cap ArxivId # {} THEN Skip
        ELSE IF i = 0 THEN InsertUnless(fuzzy)
        ELSE IF \/ ~DoUpdates \/ HasOwn(i)
                \/ Fields \subseteq entities[i].marks
                \/ entities[i].ids \cap ArxivId # {}
        THEN Skip ELSE UpdateAssigning(i, r, WithOwn(i, r))

\* A release that is found by its DOI but has another PMID is the one that is
\* completed, "group together" or not: the article of the row is not inserted.
\* Its own identifiers stay; extra["pubmed"] becomes that of the row.  PMCID and
\* references are the fields that make a row worth an update.
Pubmed(r) ==
    LET i == Find(r)
    IN  IF i = 0 THEN Insert
        ELSE IF ~DoUpdates \/ (HasOwn(i) /\ r.marks \cap Fields \subseteq entities[i].marks)
        THEN Skip
        ELSE UpdateAssigning(i, r,
                [entities[i] EXCEPT
                    !.ids = @ \cup (IF HasOwn(i) THEN {} ELSE {r.own})
                              \cup (IF @ \subseteq OwnId THEN r.ids ELSE {}),
                    !.marks = Assign(@, r.marks)])

-----------------------------------------------------------------------------
(* Containers. *)

\* With an ident, its values override; without, only the ISSN-L is looked up.
Chocula(r) ==
    IF r.ident = 0 THEN InsertUnless(Lookup({r.own}) # 0)
    ELSE IF \/ ~Active(r.ident) \/ ~DoUpdates
            \/ r.marks \subseteq entities[r.ident].marks
    THEN Skip
    ELSE Update(r.ident, [entities[r.ident] EXCEPT !.marks = Assign(@, r.marks)])

\* By the prefix (a file gives its ident), ISSN-L or Wikidata QID.
DblpContainer(r) == InsertUnless(r.ident # 0 \/ Lookup({r.own} \cup r.ids) # 0)

\* The KBART holdings, an entry for each library, are compared whole, but joined.
JournalMetadata(r) ==
    LET i == Lookup({r.own})
        kbart == r.marks \cap UNION Entry
    IN  IF i = 0 THEN Insert
        ELSE IF kbart = {} \/ kbart = entities[i].marks \cap UNION Entry THEN Skip
        ELSE Update(i, [entities[i] EXCEPT !.marks = Assign(@, kbart)])

-----------------------------------------------------------------------------
\* Chance is what the catalog does not say: a fuzzy match, the order of releases.
Decide(r, chance) ==
    CASE job = "matched" -> Matched(r)
      [] job = "arabesque" -> Arabesque(r)
      [] job = "shadow" -> Shadow(r)
      [] job = "file_meta" -> FileMeta(r)
      [] job = "fileset" -> Fileset(r, chance)
      [] job = "jstor" -> Jstor(r)
      [] job = "doaj" -> Doaj(r, chance)
      [] job = "dblp" -> Dblp(r, chance)
      [] job = "pubmed" -> Pubmed(r)
      [] job = "chocula" -> Chocula(r)
      [] job = "dblp_container" -> DblpContainer(r)
      [] job = "journal_metadata" -> JournalMetadata(r)

\* Mutant of QueueEntity: the queue is inserted one entity late.
QueueEntityLate(r) ==
    LET queue == Append(run.queue, [to |-> 0, ids |-> r.ids \cup {r.own}, urls |-> r.urls,
                                    links |-> r.links, marks |-> r.marks])
        full == Len(queue) > EditBatchSize
    IN  /\ entities' = IF full THEN Inserted(entities, queue) ELSE entities
        /\ run' = [run EXCEPT !.next = @ + 1, !.queue = IF full THEN << >> ELSE queue]
        /\ UNCHANGED <<editgroup, changed, raced>>

\* push_entity(), as a file-fed job uses it.
QueueEntity(r) ==
    LET queue == Append(run.queue, [to |-> 0, ids |-> r.ids \cup {r.own}, urls |-> r.urls,
                                    links |-> r.links, marks |-> r.marks])
        full == Len(queue) >= EditBatchSize
    IN  /\ entities' = IF full THEN Inserted(entities, queue) ELSE entities
        /\ run' = [run EXCEPT !.next = @ + 1, !.queue = IF full THEN << >> ELSE queue]
        /\ UNCHANGED <<editgroup, changed, raced>>

\* get_editgroup_id() accepts an editgroup that is full, forgets its idents and
\* counts one more edit; then the update is made, of the entity as it was read
\* before.  A second edit of an ident is refused.
UpdateEntity(i, body) ==
    LET full == run.count >= EditBatchSize
        open == IF full THEN << >> ELSE editgroup
        inflight == IF full THEN {} ELSE run.inflight
        counted == [run EXCEPT !.next = @ + 1, !.count = IF full THEN 1 ELSE @ + 1,
                               !.inflight = inflight]
    IN  /\ entities' = IF full THEN Accepted(editgroup) ELSE entities
        /\ changed' = IF full THEN changed \cup DOMAIN editgroup ELSE changed
        /\ \/ /\ i \notin DOMAIN open
              /\ editgroup' = Joined(open, OneEdit(i, body))
              /\ run' = IF job \in Guarded
                        THEN [counted EXCEPT !.inflight = inflight \cup {i}] ELSE counted
              /\ raced' = IF full THEN {} ELSE raced
           \/ /\ i \in DOMAIN open /\ job \in TakesConflict
              /\ run' = counted
              /\ UNCHANGED <<editgroup, raced>>
           \/ /\ i \in DOMAIN open /\ job \notin TakesConflict
              /\ ProcessEnds

\* parse_record() makes a container for a journal that has none, once in a process:
\* one more edit of the editgroup that get_editgroup_id() gives.  Whether the
\* catalog has the container is external (Importer follows the containers).
MakeContainer ==
    LET full == run.count >= EditBatchSize
    IN  /\ job \in MakesContainers
        /\ AtRow
        /\ Row.journal \ run.made # {}
        /\ entities' = IF full THEN Accepted(editgroup) ELSE entities
        /\ changed' = IF full THEN changed \cup DOMAIN editgroup ELSE changed
        /\ editgroup' = IF full THEN << >> ELSE editgroup
        /\ raced' = IF full THEN {} ELSE raced
        /\ run' = [run EXCEPT !.count = IF full THEN 1 ELSE @ + 1,
                              !.inflight = IF full THEN {} ELSE @,
                              !.made = @ \cup Row.journal]
        /\ UNCHANGED <<job, rows, others, deaths>>

\* push_record(): what try_update() decides is done.
PushRow ==
    /\ job \in Importers
    /\ AtRow
    /\ \E chance \in BOOLEAN :
          LET d == Decide(Row, chance)
          IN  \/ d.do = "skip" /\ SkipRow
              \/ d.do = "insert" /\ QueueEntity(Row)
              \/ d.do = "update" /\ UpdateEntity(d.ident, d.body)
              \/ d.do = "end" /\ ProcessEnds /\ UNCHANGED <<entities, changed>>
    /\ UNCHANGED <<job, rows, others, deaths>>

=============================================================================
