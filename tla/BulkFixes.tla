----------------------------- MODULE BulkFixes -----------------------------
(***************************************************************************)
(* The mergers and the cleaner of files: fatcat_tools/mergers, cleanups.   *)
(* They differ from the importers in when the editgroup is accepted: after *)
(* a row, never before one, so that the edits of a row stay together.      *)
(***************************************************************************)
EXTENDS BulkEdits

Mergers == {"merge_files", "merge_containers"}

MergeRow == [idents : SUBSET Ident, primary : Nat, ext : ExtId]
CleanRow == [ident : Ident, body : Body]

\* The end of push_record(): n edits made, the editgroup now eg.
EndRow(eg, n, idents) ==
    IF run.count + n < EditBatchSize
    THEN /\ editgroup' = eg
         /\ run' = [run EXCEPT !.next = @ + 1, !.count = @ + n,
                               !.inflight = @ \cup idents]
         /\ UNCHANGED <<entities, changed, raced>>
    ELSE IF Refused(eg) THEN ProcessEnds /\ UNCHANGED <<entities, changed>>
    ELSE /\ entities' = Accepted(eg)
         /\ changed' = changed \cup DOMAIN eg
         /\ run' = [run EXCEPT !.next = @ + 1, !.count = 0, !.inflight = {}]
         /\ editgroup' = << >> /\ raced' = {}

-----------------------------------------------------------------------------
(* Mergers. *)

\* The keys that choose_primary_file() sorts by, most significant first.
Worth(i) ==
    LET Bit(b) == IF b THEN 1 ELSE 0
    IN  Cardinality(entities[i].links)
        + 10 * (Bit(entities[i].marks \cap Extra # {})
                + 2 * Bit(entities[i].urls # {}) + 4 * Bit(entities[i].links # {})
                + 8 * Bit(Fields \subseteq entities[i].marks))

\* Ties are in the order of a Python set; choose_primary_container() asks the
\* statistics of the web site (external), so any may be chosen.
Primaries(idents) ==
    IF job = "merge_containers" THEN idents
    ELSE {i \in idents : \A j \in idents : Worth(j) <= Worth(i)}

\* merge_file_metadata_from(), over all the others; a mark is a field that is set.
MergedFile(p, dupes) ==
    [entities[p] EXCEPT
        !.urls = @ \cup UNION {entities[i].urls : i \in dupes},
        !.links = @ \cup UNION {entities[i].links : i \in dupes},
        !.marks = @ \cup UNION {entities[i].marks : i \in dupes}]

Redirects(p, dupes) == [i \in dupes |-> [entities[i] EXCEPT !.to = p]]

\* Mutant of FileEdits: what the others had is not carried over.
FileEditsBare(p, dupes) == Redirects(p, dupes)

\* try_merge() of files: the others redirect to the primary, which is updated
\* if it gained something.
FileEdits(p, dupes) ==
    Joined(Redirects(p, dupes),
           [i \in IF MergedFile(p, dupes) = entities[p] THEN {} ELSE {p} |->
                MergedFile(p, dupes)])

\* try_merge() of containers: not if one of the others was edited by a human or
\* has too many releases; the primary is left as it is.
ContainerEdits(p, dupes) ==
    IF dupes \cap Protected # {} THEN << >> ELSE Redirects(p, dupes)

MergeEdits(p, dupes) ==
    IF job = "merge_files" THEN FileEdits(p, dupes) ELSE ContainerEdits(p, dupes)

\* Every entity must be active and have the identifier that is the evidence.
Mergeable(r, idents) ==
    \A i \in idents : Active(i) /\ r.ext \in entities[i].ids

\* Mutant of InFlight: the idents are not remembered.
ForgetsIdents(idents) == FALSE

\* Some of the idents are in a row that came before in this batch.
InFlight(idents) == idents \cap run.inflight # {}

\* push_record() of EntityMerger, and try_merge().  A row that meets an ident
\* in flight raises ValueError.  With a primary given, all_ids is the list of
\* duplicates itself, the primary is appended to it, and the assertion that it
\* is not among them fails.  The idents of a row that is skipped stay in flight.
MergeRowStep ==
    /\ job \in Mergers
    /\ AtRow
    /\ LET dupes == Row.idents \ {Row.primary}
           idents == dupes \cup ({Row.primary} \ {0})
           fresh == Cardinality(idents) >= 2 /\ ~InFlight(idents)
       IN  \/ /\ Cardinality(idents) < 2
              /\ SkipRow
           \/ /\ Cardinality(idents) >= 2 /\ ~fresh
              /\ ProcessEnds /\ UNCHANGED <<entities, changed>>
           \/ /\ fresh /\ ~Mergeable(Row, idents)
              /\ EndRow(editgroup, 0, idents)
           \/ /\ fresh /\ Mergeable(Row, idents) /\ Row.primary # 0
              /\ ProcessEnds /\ UNCHANGED <<entities, changed>>
           \/ /\ fresh /\ Mergeable(Row, idents) /\ Row.primary = 0
              /\ \E p \in Primaries(idents) :
                    LET new == MergeEdits(p, idents \ {p})
                    IN  EndRow(Joined(editgroup, new), Cardinality(DOMAIN new), idents)
    /\ UNCHANGED <<job, rows, others, deaths>>

-----------------------------------------------------------------------------
(* The cleaner of files; its rows are a dump of entities. *)

Cleaned(body) == [body EXCEPT !.urls = @ \ BrokenUrl]

\* Mutant of CleanRowStep: the revision is not compared.
CleanRowStale ==
    /\ job = "clean_files"
    /\ AtRow
    /\ IF Row.body.to # 0 \/ Cleaned(Row.body) = Row.body THEN SkipRow
       ELSE IF InFlight({Row.ident})
       THEN ProcessEnds /\ UNCHANGED <<entities, changed>>
       ELSE IF ~Active(Row.ident) THEN SkipRow
       ELSE EndRow(Joined(editgroup, OneEdit(Row.ident, Cleaned(Row.body))), 1, {Row.ident})
    /\ UNCHANGED <<job, rows, others, deaths>>

\* push_record() of EntityCleaner, and try_update() of FileCleaner: what is
\* written is the entity of the dump, so its revision must be the current one.
CleanRowStep ==
    /\ job = "clean_files"
    /\ AtRow
    /\ IF Row.body.to # 0 \/ Cleaned(Row.body) = Row.body THEN SkipRow
       ELSE IF InFlight({Row.ident})
       THEN ProcessEnds /\ UNCHANGED <<entities, changed>>
       ELSE IF ~Active(Row.ident) \/ Row.ident \in changed THEN SkipRow
       ELSE EndRow(Joined(editgroup, OneEdit(Row.ident, Cleaned(Row.body))), 1, {Row.ident})
    /\ UNCHANGED <<job, rows, others, deaths>>

=============================================================================
