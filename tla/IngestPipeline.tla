--------------------------- MODULE IngestPipeline ---------------------------
(***************************************************************************)
(* A harvester and the importer that reads its topic.  Ingest results come *)
(* from a crawler outside of this repository: then no harvester runs and   *)
(* the topic holds some Crawled sequence of records.                       *)
(***************************************************************************)
EXTENDS Harvest, Importer

CONSTANT Crawled  \* sequences of ingest results

ASSUME PipelineAssumption == Crawled \subseteq Seq(Record)

pipelineVars == <<harvestVars, importerVars>>

PipelineInit ==
    /\ today = 1
    /\ harvester = HarvesterDown /\ stateTopic = {} /\ missed = {} /\ harvestDeaths = 0
    /\ \/ /\ source \in Sources
          /\ topic = << >>
          /\ job = [ingest |-> FALSE, submit |-> FALSE]
       \/ /\ source = "none"
          /\ topic \in Crawled
          /\ job \in [ingest : {TRUE}, submit : BOOLEAN]
    /\ consumer = ConsumerAt(1)
    /\ importer = NewProcess
    /\ containers = << >> /\ named = {} /\ forgotten = {} /\ orphans = {}
    /\ copies = [k \in Key |-> 0] /\ review = [k \in Key |-> 0]
    /\ importDeaths = 0

HarvestSide ==
    /\ source # "none"
    /\ HarvestNext
    /\ UNCHANGED <<job, consumer, importer, cat, forgotten, orphans, importDeaths>>

ImportSide ==
    /\ ImporterNext
    /\ UNCHANGED <<source, today, harvester, stateTopic, missed, harvestDeaths>>

PipelineSpec ==
    /\ PipelineInit
    /\ [][HarvestSide \/ ImportSide]_pipelineVars
    /\ HarvestFairness /\ ImporterFairness

\* What harvester and importer keep, and the topic between them.
PipelineTypeOK == HarvestTypeOK /\ ImporterTypeOK

=============================================================================
