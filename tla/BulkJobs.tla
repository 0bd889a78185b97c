------------------------------ MODULE BulkJobs ------------------------------
(***************************************************************************)
(* The bulk jobs: importers over files, mergers, the cleaner.  One job is  *)
(* run, again and again, over one file.                                    *)
(***************************************************************************)
EXTENDS BulkImport, BulkFixes

CONSTANTS
    Seed,   \* the entities at the start
    Files   \* the jobs and their files: records of job and rows

Jobs == Importers \cup Mergers \cup {"clean_files"}
RowsOf(name) ==
    Seq(IF name \in Importers THEN ImportRow ELSE IF name \in Mergers THEN MergeRow ELSE CleanRow)

\* No redirect to a redirect at the start; the cleaner's file is a dump of that.
ASSUME FilesAssumption ==
    /\ Seed \in Seq(Body)
    /\ \A i \in DOMAIN Seed :
          Seed[i].to # 0 => Seed[i].to \in DOMAIN Seed /\ Seed[Seed[i].to].to = 0
    /\ \A file \in Files :
          /\ file.job \in Jobs /\ file.rows \in RowsOf(file.job)
          /\ file.job = "clean_files" =>
                \A k \in DOMAIN file.rows : /\ file.rows[k].ident \in DOMAIN Seed
                                            /\ file.rows[k].body = Seed[file.rows[k].ident]

\* The batch: importers that look at the idents in flight, mergers and the
\* cleaner know what they have edited.
BatchOK ==
    /\ editgroup \in [DOMAIN editgroup -> Body] /\ DOMAIN editgroup \subseteq DOMAIN entities
    /\ Cardinality(DOMAIN editgroup) <= run.count
    /\ job \in Guarded => run.inflight = DOMAIN editgroup
    /\ job \notin Importers => DOMAIN editgroup \subseteq run.inflight

BulkTypeOK ==
    /\ job \in Jobs /\ rows \in RowsOf(job)
    /\ entities \in Seq(Body)
    /\ run \in [next : 1 .. Len(rows) + 1, count : 0 .. EditBatchSize,
                inflight : SUBSET Ident, queue : Seq(Body), made : SUBSET ExtId]
    /\ Len(run.queue) < EditBatchSize
    /\ BatchOK
    /\ raced \subseteq DOMAIN editgroup /\ changed \subseteq DOMAIN entities
    /\ others \in 0 .. MaxOthers /\ deaths \in 0 .. MaxDeaths

BulkInit ==
    /\ \E file \in Files : job = file.job /\ rows = file.rows
    /\ entities = Seed
    /\ editgroup = << >>
    /\ run = NewRun
    /\ changed = {} /\ raced = {}
    /\ others = 0 /\ deaths = 0

JobStep ==
    MakeContainer \/ PushRow \/ MergeRowStep \/ CleanRowStep \/ FinishEdits \/ FinishQueue

BulkNext == JobStep \/ Killed \/ OthersStep

\* A job that was started goes on, and its operator runs it again.
BulkSpec == BulkInit /\ [][BulkNext]_bulkVars /\ WF_bulkVars(JobStep)

-----------------------------------------------------------------------------
\* What rows are about: rows that meet can be decided on before the edit that
\* the other made is published.
About(r) ==
    IF job \in Importers THEN {r.own} \cup r.ids
    ELSE IF job \in Mergers THEN r.idents \cup ({r.primary} \ {0})
    ELSE {r.ident}

RowsApart ==
    \A k, l \in DOMAIN rows : k # l => About(rows[k]) \cap About(rows[l]) = {}

\* No two rows of an importer find the same entity.
FindsApart ==
    /\ RowsApart
    /\ \A i \in DOMAIN Seed, k, l \in DOMAIN rows :
          Seed[i].ids \cap About(rows[k]) # {} /\ Seed[i].ids \cap About(rows[l]) # {} => k = l

\* Idents in flight raise ValueError when they come again in a batch: this is
\* what keeps a merger from redirecting, in one editgroup, a to b and b to c,
\* which accepting does not notice (ChainsWithinOneEditgroup of Catalog).
MergesUnchained ==
    \A i \in DOMAIN entities :
        entities[i].to # 0 => entities[entities[i].to].to = 0

\* A merge is published whole: the step that redirects an entity redirects the
\* others of its row to the same one, and (of files) that one then has every
\* URL, release and field of those it replaces, unless people changed them
\* after they were read.
MergesWhole ==
    [][\A i \in DOMAIN entities :
          LET p == entities'[i].to
          IN  Active(i) /\ p # 0 /\ others' = others =>
                 \E k \in DOMAIN rows :
                    /\ {i, p} \subseteq rows[k].idents
                    /\ \A j \in rows[k].idents \ {p} :
                          /\ entities'[j].to = p
                          /\ job = "merge_files" /\ raced \cap {j, p} = {} =>
                                /\ entities[j].urls \subseteq entities'[p].urls
                                /\ entities[j].links \subseteq entities'[p].links
                                /\ entities[j].marks \subseteq entities'[p].marks
      ]_bulkVars

\* The jobs that replace what they may: Chocula's fields, and the links of a file
\* that arXiv gives directly.
Replaces ==
    \/ job = "chocula"
    \/ job = "matched" /\ \E k \in DOMAIN rows : rows[k].urls \cap ArxivUrl # {}

\* The values that a job assigns, whatever was there: the entry of "extra" that
\* is its own (the KBART holdings of a library), and what JSTOR overwrites.
Assigned ==
    IF job \in ReleaseImporters \cup {"journal_metadata"}
    THEN (UNION Entry) \cup (IF job = "jstor" THEN JstorValue ELSE {}) ELSE {}

Keeps(assigned, old, new) ==
    /\ old.ids \subseteq new.ids /\ old.urls \ BrokenUrl \subseteq new.urls
    /\ old.links \subseteq new.links /\ old.marks \ assigned \subseteq new.marks

\* No job takes back what an entity has, but for the values it assigns, whoever
\* wrote it and whatever is pending: editgroups are accepted between reading an
\* entity and writing it, and the cleaner writes entities of an old dump.
\* Importers that do not look at the idents in flight need rows that find
\* different entities; an edit that people made after the entity was read is lost.
NothingTakenBack ==
    [][\A i \in DOMAIN entities :
          LET old == entities[i]  new == entities'[i]
          IN  \/ old.to # 0 \/ new.to # 0
              \/ i \in raced \/ Replaces
              \/ job \in Importers \ Guarded /\ ~FindsApart
              \/ Keeps(Assigned, old, new)
      ]_bulkVars

\* Two rows that replace values undo each other.  KBART holdings that the catalog
\* has more of are joined again in every run.
NeverSettles == job = "journal_metadata" \/ (Replaces /\ ~RowsApart)

\* The row at hand ends the process: a release that is gone, an entry of "extra"
\* that cannot be assigned, a second edit of an ident where that is not taken as
\* a reason to skip, an ident in flight, a primary that is given.
RowEnds ==
    /\ AtRow
    /\ \/ /\ job \in Importers
          /\ \E chance \in BOOLEAN :
                LET d == Decide(Row, chance)
                IN  \/ d.do = "end"
                    \/ /\ d.do = "update" /\ job \notin TakesConflict
                       /\ run.count < EditBatchSize /\ d.ident \in DOMAIN editgroup
       \/ /\ job \in Mergers /\ Cardinality(About(Row)) >= 2
          /\ InFlight(About(Row)) \/ (Row.primary # 0 /\ Mergeable(Row, About(Row)))
       \/ job = "clean_files" /\ InFlight({Row.ident})

\* Something else redirects to an entity of a row: choose_primary_file() does not
\* ask, and when it takes another as the primary the editgroup is refused.
Blocked ==
    \E i \in DOMAIN entities, k \in DOMAIN rows :
        i \notin rows[k].idents /\ entities[i].to \in rows[k].idents

\* Run again over the same file, a job finds nothing left to do after some
\* runs, through crashes and the edits of others (the jobs are "idempotent"), or
\* some row ends it for ever: its batch is then not accepted in any run.
RerunsSettle ==
    ~NeverSettles =>
        \/ <>[](\/ DOMAIN editgroup = {} /\ run.queue = << >>
                \/ job \in Mergers /\ Blocked)
        \/ []<>RowEnds

=============================================================================
