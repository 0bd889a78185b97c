----------------------------- MODULE BulkEdits -----------------------------
(***************************************************************************)
(* What the bulk jobs share: an operator runs one over a file of rows and, *)
(* when it ends or dies, may run it over the same file again.  A job keeps *)
(* its state in memory only: an editgroup that it fills and accepts, a     *)
(* count of its edits, the idents that have edits in it, a queue of        *)
(* entities to insert, and the journals that it made containers for.       *)
(*                                                                         *)
(* The calls a job makes for one row are one step: their effects on the    *)
(* catalog wait in the open editgroup, so a death between two of them      *)
(* leaves what a death after the last leaves.  Other editors act between   *)
(* the steps.  The catalog is that of Catalog, with less detail.           *)
(***************************************************************************)
EXTENDS Naturals, Sequences, FiniteSets, FiniteSetsExt

CONSTANTS
    ExtId,          \* external identifiers, file hashes included
    OwnId,          \* those of the kind a release importer brings (PMID, DOAJ, ...)
    ArxivId,
    Url,
    BrokenUrl,      \* URLs that the cleanups remove
    ArxivUrl,
    Link,           \* releases (of a file), or other entities
    Gone,           \* releases that are missing or not active
    Mark,           \* fields set, or values of fields
    Fields,         \* the fields that make a record complete
    Extra,          \* what can be in the "extra" of an entity
    Entry,          \* the entries of "extra" that a job assigns: sets of values
    JstorValue,     \* values of what JSTOR overwrites: type, publisher, contribs, language
    Protected,      \* containers edited by people, or with many releases
    MaxUrls,        \* SANE_MAX_URLS
    MaxLinks,       \* SANE_MAX_RELEASES
    EditBatchSize,  \* edit_batch_size
    MaxOthers, MaxDeaths  \* bounds

Ident == Nat \ {0}
Body == [to : Nat, ids : SUBSET ExtId, urls : SUBSET Url,
         links : SUBSET Link, marks : SUBSET Mark]

ASSUME BulkAssumption ==
    /\ EditBatchSize \in Nat \ {0}
    /\ {MaxUrls, MaxLinks, MaxOthers, MaxDeaths} \subseteq Nat
    /\ OwnId \subseteq ExtId /\ ArxivId \subseteq ExtId
    /\ BrokenUrl \subseteq Url /\ ArxivUrl \subseteq Url /\ Gone \subseteq Link
    /\ Fields \subseteq Mark /\ JstorValue \subseteq Mark
    /\ Extra \subseteq Mark /\ UNION Entry \subseteq Extra

VARIABLES
    job,        \* which job
    rows,       \* its file
    entities,   \* the published entities; "to" is the ident redirected to, or 0
    editgroup,  \* the open editgroup: the edits, by ident
    run,        \* the process: row at hand, edits, idents, queue, containers
    changed,    \* idents that got a new revision since the file was made
    raced,      \* auxiliary: idents edited here that others changed meanwhile
    others, deaths  \* auxiliary: counts up to MaxOthers, MaxDeaths

bulkVars == <<job, rows, entities, editgroup, run, changed, raced, others, deaths>>

NewRun == [next |-> 1, count |-> 0, inflight |-> {}, queue |-> << >>, made |-> {}]

AtRow == run.next <= Len(rows)
Row == rows[run.next]

Active(i) == i \in DOMAIN entities /\ entities[i].to = 0

\* A lookup by an identifier finds active entities only.
Lookup(ids) ==
    LET found == {i \in DOMAIN entities : Active(i) /\ entities[i].ids \cap ids # {}}
    IN  IF found = {} THEN 0 ELSE Min(found)

\* Edits join the editgroup; one of them by itself.
Joined(eg, edits) ==
    [i \in DOMAIN eg \cup DOMAIN edits |-> IF i \in DOMAIN eg THEN eg[i] ELSE edits[i]]
OneEdit(i, body) == [j \in {i} |-> body]

\* What accept_editgroup() makes of the catalog.
Accepted(eg) == [i \in DOMAIN entities |-> IF i \in DOMAIN eg THEN eg[i] ELSE entities[i]]

\* ... and what it refuses: a redirect to a redirect, or of what is redirected to.
Refused(eg) ==
    \E i \in DOMAIN eg :
        /\ eg[i].to # 0
        /\ \/ entities[eg[i].to].to # 0
           \/ \E j \in DOMAIN entities : entities[j].to = i

\* An exception ends the process: its editgroup stays open for ever.
ProcessEnds ==
    /\ run' = NewRun
    /\ editgroup' = << >>
    /\ raced' = {}

SkipRow ==
    /\ run' = [run EXCEPT !.next = @ + 1]
    /\ UNCHANGED <<entities, editgroup, changed, raced>>

\* *_auto_batch: the queue becomes entities.
Inserted(table, queue) == table \o queue

-----------------------------------------------------------------------------
\* finish(): the editgroup is accepted if there are edits ...
FinishEdits ==
    /\ ~AtRow
    /\ run.count > 0
    /\ IF Refused(editgroup)
       THEN ProcessEnds /\ UNCHANGED <<entities, changed>>
       ELSE /\ entities' = Accepted(editgroup)
            /\ changed' = changed \cup DOMAIN editgroup
            /\ run' = [run EXCEPT !.count = 0, !.inflight = {}]
            /\ editgroup' = << >> /\ raced' = {}
    /\ UNCHANGED <<job, rows, others, deaths>>

\* ... and the queue inserted; then the operator runs the job again.
FinishQueue ==
    /\ ~AtRow
    /\ run.count = 0
    /\ entities' = Inserted(entities, run.queue)
    /\ run' = NewRun
    /\ UNCHANGED <<job, rows, editgroup, changed, raced, others, deaths>>

Killed ==
    /\ deaths < MaxDeaths
    /\ deaths' = deaths + 1
    /\ run # NewRun
    /\ ProcessEnds
    /\ UNCHANGED <<job, rows, entities, changed, others>>

-----------------------------------------------------------------------------
(* Other editors (external): their editgroups are made and accepted at once. *)

OthersDo(i, body) ==
    /\ others < MaxOthers
    /\ others' = others + 1
    /\ Active(i)
    /\ entities' = [entities EXCEPT ![i] = body]
    /\ changed' = changed \cup {i}
    /\ raced' = raced \cup ({i} \cap DOMAIN editgroup)
    /\ UNCHANGED <<job, rows, editgroup, run, deaths>>

OthersAddUrl(i, u) ==
    /\ u \notin entities[i].urls
    /\ OthersDo(i, [entities[i] EXCEPT !.urls = @ \cup {u}])

OthersRedirect(i, j) ==
    /\ i # j /\ Active(j)
    /\ \A k \in DOMAIN entities : entities[k].to # i
    /\ OthersDo(i, [entities[i] EXCEPT !.to = j])

OthersStep ==
    \E i \in DOMAIN entities :
        \/ \E u \in Url \ BrokenUrl : OthersAddUrl(i, u)
        \/ \E j \in DOMAIN entities : OthersRedirect(i, j)

=============================================================================
