-------------------------- MODULE MCIngestPipeline --------------------------
(***************************************************************************)
(* IngestPipeline over two days: a and b are updated on the first, a again *)
(* on the second; they name different journals.                            *)
(***************************************************************************)
EXTENDS IngestPipeline

CONSTANTS a, b, i, j

MCKey == {a, b}
MCJournal == {i, j}

A == [key |-> a, journal |-> i]
B == [key |-> b, journal |-> j]
MCRecordsOf == [d \in Day |-> CASE d = 0 -> << A, B >> [] d = 1 -> << A >> [] OTHER -> << >>]

MCCrawled == {<< A, B, A >>, << A, A, B >>}

=============================================================================
