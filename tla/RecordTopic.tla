---------------------------- MODULE RecordTopic -----------------------------
(***************************************************************************)
(* The Kafka topic between a harvester (or a crawler) and an importer, and *)
(* what of a record decides anything: the identifier it is looked up by,   *)
(* and the journal it is in.                                               *)
(***************************************************************************)
EXTENDS Naturals, Sequences

CONSTANTS
    Key,       \* external identifiers (or file hashes)
    Journal,   \* ISSN-Ls
    NoJournal

Record == [key : Key, journal : Journal \cup {NoJournal}]

ASSUME RecordAssumption == NoJournal \notin Journal

VARIABLE topic

=============================================================================
