---------------------------- MODULE IngestProofs ----------------------------
(***************************************************************************)
(* The safety of the harvesters and of the importers fed by Kafka: for any *)
(* days, records and catch-up window, any topic, any sizes of batch and    *)
(* editgroup and any number of deaths, each beside any steps of the other. *)
(***************************************************************************)
EXTENDS IngestPipeline, SequenceTheorems, FiniteSetTheorems, WellFoundedInduction, TLAPS

-----------------------------------------------------------------------------
(* The harvesters. *)

ProcessType ==
    [at : {"down", "idle", "fetching", "fetched"}, date : Day,
     todo : SUBSET Day, completed : SUBSET Day]

\* The importer only reads.
LEMMA ImporterReads == ImportSide => UNCHANGED harvestVars
<1> SUFFICES ASSUME ImporterNext PROVE UNCHANGED topic
  BY DEF ImportSide, harvestVars
<1> QED
  BY DEF ImporterNext, ImporterStep, AcceptFullEditgroup, ParseRecord, PushEntity,
         ConsumeMessages, StoreOffsets, FinishEditgroup, FinishQueue, ImporterDies,
         ReviewerAccepts

\* What is in the topic stays there.
LEMMA TopicGrows ==
    ASSUME HarvestTypeOK, HarvestNext
    PROVE  \E more \in Seq(Record) : topic' = topic \o more
<1> USE DEF HarvestTypeOK
<1>1. RecordsOf[harvester.date] \in Seq(Record)
  BY HarvestAssumption
<1>2. CASE StartHarvester \/ NextSpan \/ Complete \/ DayPasses
  <2>1. topic' = topic
    BY <1>2 DEF StartHarvester, NextSpan, Complete, DayPasses
  <2> QED BY <2>1, ConcatEmptySeq, EmptySeq
<1>3. CASE FetchRegistrar \/ FetchOai
  BY <1>1, <1>3 DEF FetchRegistrar, FetchOai, Deliver
<1>4. CASE FetchPubmed
  <2>1. CASE Deliver(RecordsOf[harvester.date])
    BY <1>1, <2>1 DEF Deliver
  <2>2. ASSUME NEW n \in 0 .. Len(RecordsOf[harvester.date]) - 1,
               NEW at \in [1 .. n -> DOMAIN RecordsOf[harvester.date]],
               Deliver([k \in 1 .. n |-> RecordsOf[harvester.date][at[k]]])
        PROVE  \E more \in Seq(Record) : topic' = topic \o more
    <3>1. n \in Nat
      BY <1>1
    <3>2. \A k \in 1 .. n : RecordsOf[harvester.date][at[k]] \in Record
      BY <1>1
    <3>3. [k \in 1 .. n |-> RecordsOf[harvester.date][at[k]]] \in Seq(Record)
      BY <3>1, <3>2, IsASeq
    <3> QED BY <2>2, <3>3 DEF Deliver
  <2> QED BY <1>4, <2>1, <2>2 DEF FetchPubmed
<1>5. CASE HarvesterDies
  <2>1. CASE harvester.at = "fetching"
    <3>1. PICK n \in 0 .. Len(RecordsOf[harvester.date]) :
             topic' = topic \o SubSeq(RecordsOf[harvester.date], 1, n)
      BY <1>5, <2>1 DEF HarvesterDies
    <3>2. SubSeq(RecordsOf[harvester.date], 1, n) \in Seq(Record)
      BY <1>1, <3>1
    <3> QED BY <3>1, <3>2
  <2>2. CASE harvester.at # "fetching"
    <3>1. topic' = topic
      BY <1>5, <2>2 DEF HarvesterDies
    <3> QED BY <3>1, ConcatEmptySeq, EmptySeq
  <2> QED BY <2>1, <2>2
<1> QED BY <1>2, <1>3, <1>4, <1>5 DEF HarvestNext, HarvestStep

-----------------------------------------------------------------------------
(* Type correctness. *)

LEMMA HarvestTypeInit == PipelineInit => HarvestTypeOK
<1> SUFFICES ASSUME PipelineInit PROVE HarvestTypeOK
  OBVIOUS
<1>1. topic \in Seq(Record)
  BY PipelineAssumption, EmptySeq DEF PipelineInit
<1>2. harvester \in ProcessType /\ harvester.at = "down" /\ harvester.todo = {}
  BY HarvestAssumption DEF PipelineInit, HarvesterDown, ProcessType, Day
<1>3. today \in Day /\ stateTopic = {} /\ missed = {}
  BY HarvestAssumption DEF PipelineInit, Day
<1> QED BY <1>1, <1>2, <1>3 DEF HarvestTypeOK, ProcessType

LEMMA HarvestTypeStep ==
    ASSUME HarvestTypeOK, HarvestNext
    PROVE  HarvestTypeOK'
<1>1. topic' \in Seq(Record)
  <2>1. PICK more \in Seq(Record) : topic' = topic \o more
    BY TopicGrows
  <2> QED BY <2>1 DEF HarvestTypeOK
<1>2. CASE StartHarvester
  BY <1>1, <1>2, HarvestAssumption DEF HarvestTypeOK, StartHarvester, Period, Day
<1>3. CASE NextSpan
  <2> DEFINE todo == harvester.todo \cup Period(today - 1, harvester.completed)
  <2>1. todo \cap harvester.completed = {} \/ harvester.at = "down"
    BY DEF HarvestTypeOK, Period
  <2>2. todo \in SUBSET Day /\ \A d \in todo : d < today
    BY DEF HarvestTypeOK, Period
  <2>3. PICK d \in todo :
           harvester' = [harvester EXCEPT !.at = "fetching", !.todo = todo, !.date = d]
    BY <1>3 DEF NextSpan
  <2>4. harvester.at = "idle" /\ UNCHANGED <<today, stateTopic, missed>>
    BY <1>3 DEF NextSpan
  <2>5. /\ harvester' \in ProcessType
        /\ harvester'.todo = todo /\ harvester'.completed = harvester.completed
        /\ harvester'.date = d
    BY <2>2, <2>3 DEF HarvestTypeOK, ProcessType
  <2> HIDE DEF todo
  <2> QED BY <1>1, <2>1, <2>2, <2>4, <2>5 DEF HarvestTypeOK, ProcessType
<1>4. CASE Complete
  BY <1>1, <1>4 DEF HarvestTypeOK, Complete
<1>5. CASE FetchRegistrar \/ FetchOai \/ FetchPubmed
  <2>1. /\ harvester.at = "fetching"
        /\ harvester' = [harvester EXCEPT !.at = "fetched"]
        /\ UNCHANGED <<today, stateTopic>>
    BY <1>5 DEF FetchRegistrar, FetchOai, FetchPubmed, Deliver
  <2>2. missed' \in {missed, missed \cup {harvester.date}}
    BY <1>5 DEF FetchRegistrar, FetchOai, FetchPubmed
  <2> QED BY <1>1, <2>1, <2>2 DEF HarvestTypeOK
<1>6. CASE HarvesterDies
  <2>1. /\ harvester' = HarvesterDown
        /\ UNCHANGED <<today, stateTopic, missed>>
    BY <1>6 DEF HarvesterDies
  <2> QED BY <1>1, <2>1, HarvestAssumption DEF HarvestTypeOK, HarvesterDown, Day
<1>7. CASE DayPasses
  BY <1>1, <1>7, HarvestAssumption DEF HarvestTypeOK, DayPasses, Day
<1> QED BY <1>2, <1>3, <1>4, <1>5, <1>6, <1>7 DEF HarvestNext, HarvestStep

\* Harvester and topic stay well-formed: a date at hand is one that is due, no
\* date is both due and done, and none is done before it is over.
LEMMA HarvestTypeCorrect == PipelineSpec => []HarvestTypeOK
<1>1. HarvestTypeOK /\ [HarvestSide \/ ImportSide]_pipelineVars => HarvestTypeOK'
  <2> SUFFICES ASSUME HarvestTypeOK, [HarvestSide \/ ImportSide]_pipelineVars
               PROVE  HarvestTypeOK'
    OBVIOUS
  <2>1. CASE HarvestSide
    BY <2>1, HarvestTypeStep DEF HarvestSide
  <2>2. CASE ImportSide \/ UNCHANGED pipelineVars
    <3>1. UNCHANGED harvestVars
      BY <2>2, ImporterReads DEF pipelineVars
    <3> QED BY <3>1 DEF HarvestTypeOK, harvestVars
  <2> QED BY <2>1, <2>2
<1> QED BY <1>1, HarvestTypeInit, PTL DEF PipelineSpec

-----------------------------------------------------------------------------
(* Dates are delivered. *)

InTopic(d) == \A k \in DOMAIN RecordsOf[d] : Contains(topic, RecordsOf[d][k])

\* Between fetch_date() and complete() the records of the date at hand are in
\* the topic already, which the process knows and the state topic does not.
DeliveredInv ==
    /\ HarvestTypeOK
    /\ DatesDelivered
    /\ harvester.at = "fetched" /\ harvester.date \notin missed => InTopic(harvester.date)

\* Records in the topic stay in it.
LEMMA StaysInTopic ==
    ASSUME HarvestTypeOK, HarvestNext, NEW d \in Day, InTopic(d)
    PROVE  InTopic(d)'
<1>1. PICK more \in Seq(Record) : topic' = topic \o more
  BY TopicGrows
<1>2. /\ Len(topic) \in Nat /\ Len(topic') \in Nat /\ Len(topic) <= Len(topic')
      /\ \A i \in 1 .. Len(topic) : topic'[i] = topic[i]
  BY <1>1 DEF HarvestTypeOK
<1>3. ASSUME NEW record, Contains(topic, record) PROVE Contains(topic', record)
  BY <1>2, <1>3 DEF Contains
<1> QED BY <1>3 DEF InTopic

\* A fetch that leaves nothing out puts all the records of its date there.
LEMMA FetchDelivers ==
    ASSUME HarvestTypeOK, Deliver(RecordsOf[harvester.date])
    PROVE  InTopic(harvester.date)'
<1> DEFINE records == RecordsOf[harvester.date]
<1>1. records \in Seq(Record) /\ topic \in Seq(Record)
  BY HarvestAssumption DEF HarvestTypeOK
<1>2. topic' = topic \o records /\ harvester'.date = harvester.date
  BY DEF Deliver, HarvestTypeOK
<1>3. ASSUME NEW k \in DOMAIN records PROVE Contains(topic', records[k])
  <2>1. /\ Len(topic) + k \in 1 .. Len(topic')
        /\ topic'[Len(topic) + k] = records[k]
    BY <1>1, <1>2
  <2> QED BY <2>1 DEF Contains
<1> QED BY <1>2, <1>3 DEF InTopic

LEMMA DeliveredStep ==
    ASSUME DeliveredInv, HarvestNext
    PROVE  DeliveredInv'
<1> USE DEF DeliveredInv
<1>1. HarvestTypeOK'
  BY HarvestTypeStep
<1>2. ASSUME NEW d \in stateTopic \ missed PROVE InTopic(d)'
  BY StaysInTopic DEF DatesDelivered, InTopic, HarvestTypeOK
<1>3. CASE StartHarvester \/ NextSpan \/ HarvesterDies \/ DayPasses
  <2>1. UNCHANGED <<stateTopic, missed>>
    BY <1>3 DEF StartHarvester, NextSpan, HarvesterDies, DayPasses
  <2>2. DatesDelivered'
    BY <1>2, <2>1 DEF DatesDelivered, InTopic
  <2>3. harvester'.at # "fetched" \/ harvester' = harvester
    <3>1. CASE NextSpan
      <4>1. PICK todo, d :
               harvester' = [harvester EXCEPT !.at = "fetching", !.todo = todo, !.date = d]
        BY <3>1 DEF NextSpan
      <4> QED BY <4>1 DEF HarvestTypeOK
    <3>2. CASE StartHarvester \/ HarvesterDies \/ DayPasses
      BY <3>2 DEF StartHarvester, HarvesterDies, DayPasses, HarvesterDown
    <3> QED BY <1>3, <3>1, <3>2
  <2>4. harvester'.at = "fetched" /\ harvester'.date \notin missed'
           => InTopic(harvester.date)' /\ harvester' = harvester
    BY <2>1, <2>3, StaysInTopic DEF HarvestTypeOK
  <2> QED BY <1>1, <2>2, <2>4 DEF InTopic
<1>4. CASE Complete
  <2>1. /\ stateTopic' = stateTopic \cup {harvester.date} /\ missed' = missed
        /\ harvester.at = "fetched" /\ harvester'.at = "idle"
    BY <1>4 DEF Complete, HarvestTypeOK
  <2>2. harvester.date \notin missed => InTopic(harvester.date) /\ harvester.date \in Day
    BY <2>1 DEF HarvestTypeOK
  <2>3. ASSUME harvester.date \notin missed
        PROVE  \A k \in DOMAIN RecordsOf[harvester.date] :
                  Contains(topic', RecordsOf[harvester.date][k])
    BY <1>4, <2>2, <2>3 DEF Complete, InTopic
  <2>4. DatesDelivered'
    BY <1>2, <2>1, <2>3 DEF DatesDelivered, InTopic
  <2> QED BY <1>1, <2>1, <2>4
<1>5. CASE FetchRegistrar \/ FetchOai \/ FetchPubmed
  <2>1. stateTopic' = stateTopic /\ harvester'.date = harvester.date
    BY <1>5 DEF FetchRegistrar, FetchOai, FetchPubmed, Deliver, HarvestTypeOK
  <2>2. \/ missed' = missed /\ Deliver(RecordsOf[harvester.date])
        \/ missed' = missed \cup {harvester.date}
    BY <1>5 DEF FetchRegistrar, FetchOai, FetchPubmed
  <2>3. DatesDelivered'
    BY <1>2, <2>1, <2>2 DEF DatesDelivered, InTopic
  <2>4. harvester'.date \notin missed' => InTopic(harvester.date)'
    BY <2>1, <2>2, FetchDelivers
  <2> QED BY <1>1, <2>1, <2>3, <2>4 DEF InTopic
<1> QED BY <1>3, <1>4, <1>5 DEF HarvestNext, HarvestStep

\* What the state topic says is done is in the topic: a successor that trusts
\* it, as initialize_from_kafka() does, skips nothing.
THEOREM DatesAlwaysDelivered == PipelineSpec => []DatesDelivered
<1>1. PipelineInit => DeliveredInv
  <2> SUFFICES ASSUME PipelineInit PROVE DeliveredInv
    OBVIOUS
  <2>1. stateTopic = {} /\ harvester.at = "down"
    BY DEF PipelineInit, HarvesterDown
  <2> QED BY <2>1, HarvestTypeInit DEF DeliveredInv, DatesDelivered
<1>2. DeliveredInv /\ [HarvestSide \/ ImportSide]_pipelineVars => DeliveredInv'
  <2> SUFFICES ASSUME DeliveredInv, [HarvestSide \/ ImportSide]_pipelineVars
               PROVE  DeliveredInv'
    OBVIOUS
  <2>1. CASE HarvestSide
    BY <2>1, DeliveredStep DEF HarvestSide
  <2>2. CASE ImportSide \/ UNCHANGED pipelineVars
    <3>1. UNCHANGED harvestVars
      BY <2>2, ImporterReads DEF pipelineVars
    <3> QED BY <3>1 DEF DeliveredInv, HarvestTypeOK, DatesDelivered, InTopic, harvestVars
  <2> QED BY <2>1, <2>2
<1>3. DeliveredInv => DatesDelivered
  BY DEF DeliveredInv
<1> QED BY <1>1, <1>2, <1>3, PTL DEF PipelineSpec

-----------------------------------------------------------------------------
(* The importers. *)

Entity == [key : Key, container : Nat]
Row == [journal : Journal, live : BOOLEAN]

ConsumerType == [next : Nat \ {0}, end : Nat, stored : Nat \ {0}, committed : Nat \ {0}]
ProcessOfImporter ==
    [at : {"push", "update", "finishing"}, container : Nat, queue : Seq(Entity),
     editgroup : SUBSET Nat, cache : [Journal -> Nat]]

\* ImporterTypeOK, with the sets the records are in, and where in the batch the
\* process is.
ImporterInv ==
    /\ ImporterTypeOK
    /\ consumer \in ConsumerType
    /\ importer \in ProcessOfImporter
    /\ copies \in [Key -> Nat] /\ review \in [Key -> Nat]
    /\ job.ingest \in BOOLEAN /\ job.submit \in BOOLEAN
    /\ importer.at = "update" => consumer.next < consumer.end

\* A set of naturals has a least member (for Min).
LEMMA LeastOfNaturals ==
    ASSUME NEW S \in SUBSET Nat, S # {}
    PROVE  \E m \in S : \A n \in S : m <= n
<1> DEFINE Less == {pair \in Nat \X Nat : pair[1] < pair[2]}
<1>1. Less = OpToRel(<, Nat)
  BY DEF OpToRel
<1>2. IsWellFoundedOn(Less, Nat)
  BY <1>1, NatLessThanWellFounded
<1>3. \A m, n \in Nat : <<n, m>> \notin Less => m <= n
  OBVIOUS
<1> HIDE DEF Less
<1>4. PICK m \in S : \A n \in S : <<n, m>> \notin Less
  BY <1>2, WFMin, Zenon
<1> QED BY <1>3, <1>4

\* The table of containers.
LEMMA ContainerRows ==
    ASSUME ImporterTypeOK
    PROVE  /\ containers \in Seq(Row) /\ Len(containers) \in Nat
           /\ DOMAIN containers = 1 .. Len(containers)
           /\ \A c \in DOMAIN containers : containers[c] \in Row
<1>1. containers \in Seq(Row)
  BY DEF ImporterTypeOK, Row
<1> QED BY <1>1

LEMMA TypeInit == PipelineInit => ImporterInv
<1> SUFFICES ASSUME PipelineInit PROVE ImporterInv
  OBVIOUS
<1> USE ImporterAssumption, EmptySeq
<1>1. topic \in Seq(Record)
  BY HarvestTypeInit DEF HarvestTypeOK
<1>2. job \in [ingest : BOOLEAN, submit : BOOLEAN]
  <2>1. CASE job = [ingest |-> FALSE, submit |-> FALSE]
    BY <2>1
  <2>2. CASE job \in [ingest : {TRUE}, submit : BOOLEAN]
    BY <2>2, Zenon
  <2> QED BY <2>1, <2>2 DEF PipelineInit
<1>3. consumer \in ConsumerType /\ consumer = ConsumerAt(1)
  BY DEF PipelineInit, ConsumerAt, ConsumerType
<1>4. importer \in ProcessOfImporter /\ importer = NewProcess
  BY DEF PipelineInit, NewProcess, ProcessOfImporter
<1>5. containers = << >> /\ Len(containers) = 0 /\ containers \in Seq(Row)
  BY DEF PipelineInit, Row
<1>6. /\ importer.at = "push" /\ importer.container = 0 /\ importer.queue = << >>
      /\ importer.editgroup = {} /\ importer.cache = [j \in Journal |-> 0]
  BY <1>4 DEF NewProcess
<1>7. Cardinality(importer.editgroup) <= EditBatchSize
  BY <1>6, FS_EmptySet
<1> QED
  BY <1>1, <1>2, <1>3, <1>4, <1>5, <1>6, <1>7
  DEF PipelineInit, ImporterInv, ImporterTypeOK, ConsumerAt, Row, Entity

-----------------------------------------------------------------------------
(* What the calls of the API do. *)

\* A batch of pending entities is added to what is live or under review.
LEMMA InsertBatchAdds ==
    ASSUME ImporterInv, NEW batch \in Seq(Entity), InsertBatch(batch)
    PROVE  /\ Count(batch) \in [Key -> Nat]
           /\ copies' \in [Key -> Nat] /\ review' \in [Key -> Nat]
           /\ \A n \in DOMAIN batch : copies'[batch[n].key] > 0 \/ review'[batch[n].key] > 0
           /\ \A k \in Key : copies'[k] >= copies[k] /\ review'[k] >= review[k]
           /\ ~job.submit => /\ review' = review
                             /\ \A k \in Key : copies'[k] = copies[k] + Count(batch)[k]
           /\ named' \subseteq named \cup ({batch[n].container : n \in DOMAIN batch} \ {0})
<1>1. \A k \in Key : IsFiniteSet({n \in DOMAIN batch : batch[n].key = k})
  BY FS_Interval, FS_Subset DEF ImporterInv
<1>2. Count(batch) \in [Key -> Nat]
  BY <1>1, FS_CardinalityType DEF Count
<1>3. ASSUME NEW n \in DOMAIN batch PROVE batch[n].key \in Key /\ Count(batch)[batch[n].key] > 0
  <2>0. batch[n] \in Entity
    OBVIOUS
  <2>1. batch[n].key \in Key
    BY <2>0 DEF Entity
  <2> DEFINE same == {m \in DOMAIN batch : batch[m].key = batch[n].key}
  <2>2. same # {} /\ IsFiniteSet(same)
    BY <1>1, <2>1
  <2>3. Cardinality(same) \in Nat \ {0}
    <3> HIDE DEF same
    <3> QED BY <2>2, FS_EmptySet, FS_CardinalityType
  <2> QED BY <2>1, <2>3 DEF Count
<1> HIDE DEF Count
<1>4. CASE job.submit
  BY <1>2, <1>3, <1>4 DEF InsertBatch, ImporterInv
<1>5. CASE ~job.submit
  BY <1>2, <1>3, <1>5 DEF InsertBatch, ImporterInv
<1> QED BY <1>2, <1>4, <1>5

\* Accepting an editgroup makes its containers live and changes nothing else.
LEMMA AcceptedRows ==
    ASSUME ImporterInv, NEW eg \in SUBSET (DOMAIN containers)
    PROVE  /\ Accepted(eg) \in Seq(Row)
           /\ Len(Accepted(eg)) = Len(containers)
           /\ DOMAIN Accepted(eg) = DOMAIN containers
           /\ \A c \in DOMAIN containers :
                 /\ Accepted(eg)[c].journal = containers[c].journal
                 /\ Accepted(eg)[c].live <=> containers[c].live \/ c \in eg
<1>1. /\ DOMAIN containers = 1 .. Len(containers) /\ Len(containers) \in Nat
      /\ \A c \in DOMAIN containers : containers[c] \in Row
  BY ContainerRows DEF ImporterInv
<1>2. ASSUME NEW c \in DOMAIN containers
      PROVE  /\ Accepted(eg)[c] \in Row
             /\ Accepted(eg)[c].journal = containers[c].journal
             /\ Accepted(eg)[c].live <=> containers[c].live \/ c \in eg
  <2> DEFINE live == containers[c].live \/ c \in eg
  <2>1. live \in BOOLEAN
    OBVIOUS
  <2>2. Accepted(eg)[c] = [containers[c] EXCEPT !.live = live]
    BY DEF Accepted
  <2> HIDE DEF live
  <2>3. [containers[c] EXCEPT !.live = live] \in Row /\
        [containers[c] EXCEPT !.live = live].live = live /\
        [containers[c] EXCEPT !.live = live].journal = containers[c].journal
    BY <1>1, <2>1 DEF Row
  <2> QED BY <2>2, <2>3 DEF live
<1>3. Accepted(eg) = [c \in 1 .. Len(containers) |-> Accepted(eg)[c]]
  BY <1>1 DEF Accepted
<1>4. Accepted(eg) \in [1 .. Len(containers) -> Row]
  BY <1>1, <1>2, <1>3
<1> QED BY <1>1, <1>2, <1>4

\* The ident that is looked up is that of a container that is live or pending.
LEMMA LookupType ==
    ASSUME ImporterInv, NEW j \in Journal
    PROVE  /\ Lookup(j) \in 0 .. Len(containers)
           /\ Lookup(j) = 0 => /\ importer.cache[j] = 0
                               /\ \A c \in DOMAIN containers :
                                     containers[c].live => containers[c].journal # j
<1> DEFINE found == {c \in DOMAIN containers :
                       containers[c].live /\ containers[c].journal = j}
<1>1. importer.cache[j] \in 0 .. Len(containers)
  BY DEF ImporterInv, ImporterTypeOK
<1>2. CASE importer.cache[j] # 0
  BY <1>1, <1>2 DEF Lookup
<1>3. CASE importer.cache[j] = 0 /\ found = {}
  BY <1>1, <1>3 DEF Lookup
<1>4. CASE importer.cache[j] = 0 /\ found # {}
  <2>1. found \subseteq 1 .. Len(containers) /\ Len(containers) \in Nat
    BY DEF ImporterInv, ImporterTypeOK
  <2>2. Lookup(j) = Min(found)
    BY <1>4 DEF Lookup
  <2>3. Min(found) \in found
    <3> HIDE DEF found
    <3>1. \E m \in found : \A c \in found : m <= c
      BY <1>4, <2>1, LeastOfNaturals
    <3> QED BY <3>1 DEF Min
  <2> QED BY <2>1, <2>2, <2>3
<1> QED BY <1>2, <1>3, <1>4

-----------------------------------------------------------------------------
(* Type correctness. *)

\* The message at hand is in the topic.
LEMMA MessageAtHand ==
    ASSUME ImporterInv, consumer.next < consumer.end
    PROVE  /\ consumer.next \in DOMAIN topic
           /\ Message = topic[consumer.next] /\ Message \in Record /\ Message.key \in Key
           /\ Message.journal # NoJournal => Message.journal \in Journal
<1>1. topic \in Seq(Record) /\ consumer.next \in 1 .. Len(topic)
  BY DEF ImporterInv, ImporterTypeOK, ConsumerType
<1>2. Message \in Record
  BY <1>1 DEF Message
<1> QED BY <1>1, <1>2 DEF Message, Record

\* What a step of the importer that keeps the containers has to show.
LEMMA TypeByParts ==
    ASSUME ImporterInv,
           UNCHANGED <<job, topic, containers>>,
           consumer' \in ConsumerType,
           consumer'.committed <= consumer'.stored, consumer'.stored <= consumer'.next,
           consumer'.next <= consumer'.end, consumer'.end <= Len(topic) + 1,
           importer' \in ProcessOfImporter,
           importer'.at = "update" => consumer'.next < consumer'.end,
           importer'.container \in 0 .. Len(containers),
           importer'.queue \in Seq([key : Key, container : 0 .. Len(containers)]),
           Len(importer'.queue) < EditBatchSize,
           importer'.editgroup \in {{}, importer.editgroup},
           importer'.cache \in [Journal -> 0 .. Len(containers)],
           copies' \in [Key -> Nat], review' \in [Key -> Nat],
           named' \in SUBSET (DOMAIN containers), orphans' \in SUBSET (DOMAIN containers),
           forgotten' \in SUBSET Key
    PROVE  ImporterInv'
<1>1. Cardinality(importer'.editgroup) <= EditBatchSize
  <2>1. CASE importer'.editgroup = {}
    BY <2>1, FS_EmptySet, ImporterAssumption
  <2>2. CASE importer'.editgroup = importer.editgroup
    BY <2>2 DEF ImporterInv, ImporterTypeOK
  <2> QED BY <2>1, <2>2
<1> QED BY <1>1 DEF ImporterInv, ImporterTypeOK, ProcessOfImporter

\* The entity made of the message at hand joins the queue.
LEMMA LongerQueue ==
    ASSUME ImporterInv, importer.at = "update"
    PROVE  LET entity == [key |-> Message.key, container |-> importer.container]
               queue == Append(importer.queue, entity)
               Pending == [key : Key, container : 0 .. Len(containers)]
           IN  /\ entity \in Pending /\ queue \in Seq(Pending) /\ queue \in Seq(Entity)
               /\ Len(queue) = Len(importer.queue) + 1 /\ Len(importer.queue) \in Nat
               /\ DOMAIN queue = 1 .. Len(queue)
               /\ DOMAIN importer.queue = 1 .. Len(importer.queue)
               /\ queue[Len(queue)] = entity
               /\ \A n \in DOMAIN importer.queue : queue[n] = importer.queue[n]
<1> DEFINE Pending == [key : Key, container : 0 .. Len(containers)]
           entity == [key |-> Message.key, container |-> importer.container]
<1>1. entity \in Pending /\ importer.queue \in Seq(Pending)
  BY MessageAtHand DEF ImporterInv, ImporterTypeOK
<1>2. entity \in Entity /\ importer.queue \in Seq(Entity)
  BY <1>1 DEF ImporterInv, ImporterTypeOK, Entity, ProcessOfImporter
<1> HIDE DEF Pending, entity
<1>3. /\ Append(importer.queue, entity) \in Seq(Pending)
      /\ Append(importer.queue, entity) \in Seq(Entity)
      /\ Len(Append(importer.queue, entity)) = Len(importer.queue) + 1
      /\ Len(importer.queue) \in Nat
      /\ DOMAIN Append(importer.queue, entity) = 1 .. Len(importer.queue) + 1
      /\ DOMAIN importer.queue = 1 .. Len(importer.queue)
      /\ Append(importer.queue, entity)[Len(importer.queue) + 1] = entity
      /\ \A n \in 1 .. Len(importer.queue) :
            Append(importer.queue, entity)[n] = importer.queue[n]
  BY <1>1, <1>2
<1> QED BY <1>1, <1>3 DEF Pending, entity

\* Publishing the editgroup, full or at the end.
LEMMA TypePublish ==
    ASSUME ImporterInv, NEW at \in {"push", "finishing"},
           containers' = Accepted(importer.editgroup),
           importer' = [importer EXCEPT !.at = at, !.editgroup = {}],
           UNCHANGED <<job, topic, consumer, copies, named, review, forgotten, orphans>>
    PROVE  ImporterInv'
<1>1. /\ containers' \in Seq(Row) /\ Len(containers') = Len(containers)
      /\ DOMAIN containers' = DOMAIN containers
  BY AcceptedRows DEF ImporterInv, ImporterTypeOK
<1>2. /\ importer' \in ProcessOfImporter
      /\ importer'.at = at /\ importer'.editgroup = {}
      /\ importer'.container = importer.container /\ importer'.queue = importer.queue
      /\ importer'.cache = importer.cache
  BY DEF ImporterInv, ProcessOfImporter
<1>3. Cardinality(importer'.editgroup) <= EditBatchSize
  BY <1>2, FS_EmptySet, ImporterAssumption
<1> QED BY <1>1, <1>2, <1>3 DEF ImporterInv, ImporterTypeOK, Row

\* The process after a container was found or created for the message.
LEMMA ProcessWithContainer ==
    ASSUME ImporterInv, NEW c \in Nat, NEW eg \in SUBSET Nat, NEW cache \in [Journal -> Nat],
           importer' = [importer EXCEPT !.at = "update", !.container = c,
                                        !.editgroup = eg, !.cache = cache]
    PROVE  /\ importer' \in ProcessOfImporter
           /\ importer'.at = "update" /\ importer'.container = c
           /\ importer'.queue = importer.queue
           /\ importer'.editgroup = eg /\ importer'.cache = cache
<1>1. importer' = [at |-> "update", container |-> c, queue |-> importer.queue,
                   editgroup |-> eg, cache |-> cache]
  BY DEF ImporterInv, ProcessOfImporter
<1> QED BY <1>1 DEF ImporterInv, ProcessOfImporter

LEMMA TypeParse ==
    ASSUME ImporterInv, ParseRecord
    PROVE  ImporterInv'
<1>1. Pushing /\ UNCHANGED <<job, topic, consumer, copies, named, review, forgotten, orphans>>
  BY DEF ParseRecord
<1>2. consumer.next < consumer.end
  BY <1>1 DEF Pushing
<1>3. ASSUME importer' = [importer EXCEPT !.at = "update", !.container = 0], UNCHANGED containers
      PROVE  ImporterInv'
  <2>1. importer' \in ProcessOfImporter
    BY <1>3 DEF ImporterInv, ProcessOfImporter
  <2> QED BY <1>1, <1>2, <1>3, <2>1, TypeByParts DEF ImporterInv, ImporterTypeOK
<1> DEFINE j == Message.journal
<1>4. NeedsContainer => j \in Journal
  BY <1>2, MessageAtHand DEF NeedsContainer
<1>5. ASSUME NeedsContainer, NEW c \in 0 .. Len(containers),
             importer' = [importer EXCEPT !.at = "update", !.container = c, !.cache[j] = c],
             UNCHANGED containers
      PROVE  ImporterInv'
  <2>1. importer.cache \in [Journal -> 0 .. Len(containers)] /\ Len(containers) \in Nat
    BY ContainerRows DEF ImporterInv, ImporterTypeOK
  <2> DEFINE cache == [importer.cache EXCEPT ![j] = c]
  <2>2. cache \in [Journal -> 0 .. Len(containers)] /\ cache \in [Journal -> Nat]
    BY <1>4, <1>5, <2>1
  <2>3. importer' = [importer EXCEPT !.at = "update", !.container = c,
                               !.editgroup = importer.editgroup, !.cache = cache]
    BY <1>5 DEF ImporterInv, ProcessOfImporter
  <2> HIDE DEF cache
  <2>4. /\ importer' \in ProcessOfImporter
        /\ importer'.cache = cache /\ importer'.container = c
        /\ importer'.queue = importer.queue /\ importer'.editgroup = importer.editgroup
    <3>1. c \in Nat /\ importer.editgroup \in SUBSET Nat
      BY <2>1 DEF ImporterInv, ProcessOfImporter
    <3> QED BY <2>2, <2>3, <3>1, ProcessWithContainer
  <2> QED BY <1>1, <1>2, <1>5, <2>2, <2>4, TypeByParts DEF ImporterInv, ImporterTypeOK
<1>6. ASSUME NeedsContainer,
             Cardinality(importer.editgroup) < EditBatchSize,
             containers' = Append(containers, [journal |-> j, live |-> FALSE]),
             importer' = [importer EXCEPT !.at = "update", !.container = Len(containers'),
                               !.editgroup = @ \cup {Len(containers')},
                               !.cache[j] = Len(containers')]
      PROVE  ImporterInv'
  <2>1. [journal |-> j, live |-> FALSE] \in Row
    BY <1>4, <1>6 DEF Row
  <2>2. /\ containers' \in Seq(Row) /\ Len(containers') = Len(containers) + 1
        /\ Len(containers) \in Nat
        /\ DOMAIN containers = 1 .. Len(containers)
        /\ DOMAIN containers' = 1 .. Len(containers')
    BY <1>6, <2>1, ContainerRows DEF ImporterInv
  <2>3. importer.cache \in [Journal -> 0 .. Len(containers)]
    BY DEF ImporterInv, ImporterTypeOK
  <2> DEFINE cache == [importer.cache EXCEPT ![j] = Len(containers')]
             eg == importer.editgroup \cup {Len(containers')}
  <2>4. cache \in [Journal -> 0 .. Len(containers')] /\ cache \in [Journal -> Nat]
    BY <1>4, <1>6, <2>2, <2>3
  <2>5. eg \subseteq DOMAIN containers' /\ eg \in SUBSET Nat
    BY <2>2 DEF ImporterInv, ImporterTypeOK
  <2>6. Cardinality(eg) <= EditBatchSize
    <3>1. IsFiniteSet(importer.editgroup)
      <4>1. importer.editgroup \in SUBSET (1 .. Len(containers))
        BY <2>2 DEF ImporterInv, ImporterTypeOK
      <4>2. IsFiniteSet(1 .. Len(containers))
        BY <2>2, FS_Interval
      <4> QED BY <4>1, <4>2, FS_Subset
    <3>2. Cardinality(importer.editgroup) \in Nat
      BY <3>1, FS_CardinalityType
    <3>3. \/ Cardinality(eg) = Cardinality(importer.editgroup)
          \/ Cardinality(eg) = Cardinality(importer.editgroup) + 1
      BY <3>1, FS_AddElement
    <3> QED BY <1>6, <3>2, <3>3, ImporterAssumption
  <2>7. importer' = [importer EXCEPT !.at = "update", !.container = Len(containers'),
                               !.editgroup = eg, !.cache = cache]
    BY <1>6 DEF ImporterInv, ProcessOfImporter
  <2> HIDE DEF cache, eg
  <2>8. /\ importer' \in ProcessOfImporter
        /\ importer'.cache = cache /\ importer'.container = Len(containers')
        /\ importer'.queue = importer.queue /\ importer'.editgroup = eg
        /\ importer'.at = "update"
    <3>1. Len(containers') \in Nat /\ eg \in SUBSET Nat /\ cache \in [Journal -> Nat]
      BY <2>2, <2>4, <2>5
    <3> QED BY <2>7, <3>1, ProcessWithContainer
  <2>9. importer'.queue \in Seq([key : Key, container : 0 .. Len(containers')])
    <3>1. [key : Key, container : 0 .. Len(containers)]
             \subseteq [key : Key, container : 0 .. Len(containers')]
      BY <2>2
    <3>2. importer.queue \in Seq([key : Key, container : 0 .. Len(containers)])
      BY DEF ImporterInv, ImporterTypeOK
    <3> HIDE DEF cache
    <3>3. importer.queue \in Seq([key : Key, container : 0 .. Len(containers')])
      BY <3>1, <3>2, SeqMonotonic, Zenon
    <3> QED BY <2>8, <3>3
  <2>10. Len(importer'.queue) < EditBatchSize
    BY <2>8 DEF ImporterInv, ImporterTypeOK
  <2>11. named' \subseteq DOMAIN containers' /\ orphans' \subseteq DOMAIN containers'
    BY <1>1, <2>2 DEF ImporterInv, ImporterTypeOK
  <2>12. ImporterTypeOK'
    BY <1>1, <1>2, <2>2, <2>4, <2>5, <2>6, <2>8, <2>9, <2>10, <2>11
    DEF ImporterInv, ImporterTypeOK, Row
  <2> QED
    BY <1>1, <1>2, <2>8, <2>12 DEF ImporterInv
<1>7. NeedsContainer => Lookup(j) \in 0 .. Len(containers)
  BY <1>4, LookupType
<1> QED BY <1>3, <1>5, <1>6, <1>7 DEF ParseRecord

\* What an inserted batch names are containers that were created.
LEMMA InsertBatchType ==
    ASSUME ImporterInv, NEW batch \in Seq([key : Key, container : 0 .. Len(containers)]),
           InsertBatch(batch)
    PROVE  /\ copies' \in [Key -> Nat] /\ review' \in [Key -> Nat]
           /\ named' \in SUBSET (DOMAIN containers)
<1> DEFINE Pending == [key : Key, container : 0 .. Len(containers)]
<1>1. /\ DOMAIN containers = 1 .. Len(containers) /\ Len(containers) \in Nat
      /\ named \subseteq DOMAIN containers
  BY ContainerRows DEF ImporterInv, ImporterTypeOK
<1>2. Pending \subseteq Entity
  BY <1>1 DEF Entity
<1>3. batch \in Seq(Entity)
  BY <1>2, SeqMonotonic, Zenon
<1>4. ASSUME NEW n \in DOMAIN batch PROVE batch[n].container \in 0 .. Len(containers)
  <2>1. batch \in Seq(Pending)
    OBVIOUS
  <2> HIDE DEF Pending
  <2>2. batch[n] \in Pending
    BY <2>1
  <2> QED BY <2>2 DEF Pending
<1>5. /\ copies' \in [Key -> Nat] /\ review' \in [Key -> Nat]
      /\ named' \subseteq named \cup ({batch[n].container : n \in DOMAIN batch} \ {0})
  BY <1>3, InsertBatchAdds
<1>6. \A n \in DOMAIN batch :
         batch[n].container = 0 \/ batch[n].container \in DOMAIN containers
  BY <1>1, <1>4
<1>7. named' \subseteq DOMAIN containers
  BY <1>1, <1>5, <1>6
<1> QED BY <1>5, <1>7

LEMMA TypePush ==
    ASSUME ImporterInv, PushEntity
    PROVE  ImporterInv'
<1> DEFINE queue == Append(importer.queue, [key |-> Message.key, container |-> importer.container])
           Pending == [key : Key, container : 0 .. Len(containers)]
<1>1. importer.at = "update" /\ UNCHANGED <<job, topic, containers, forgotten, orphans>>
  BY DEF PushEntity
<1>2. /\ queue \in Seq(Pending) /\ queue \in Seq(Entity) /\ DOMAIN queue = 1 .. Len(queue)
      /\ << >> \in Seq(Pending) /\ << >> \in Seq(Entity) /\ Len(<< >>) = 0
  BY <1>1, LongerQueue, EmptySeq
<1>3. /\ consumer' \in ConsumerType
      /\ consumer'.committed <= consumer'.stored /\ consumer'.stored <= consumer'.next
      /\ consumer'.next <= consumer'.end /\ consumer'.end <= Len(topic) + 1
  <2>1. consumer.next + 1 \in Nat \ {0} /\ consumer.next + 1 <= consumer.end
    BY <1>1 DEF ImporterInv, ConsumerType
  <2>2. consumer' = [next |-> consumer.next + 1, end |-> consumer.end,
                     stored |-> consumer.stored, committed |-> consumer.committed]
    BY DEF PushEntity, ImporterInv, ConsumerType
  <2> QED BY <2>1, <2>2 DEF ImporterInv, ImporterTypeOK, ConsumerType
<1>4. ASSUME NEW q \in {importer.queue, queue, << >>}, Len(q) < EditBatchSize,
             importer' = [importer EXCEPT !.at = "push", !.queue = q],
             copies' \in [Key -> Nat], review' \in [Key -> Nat],
             named' \in SUBSET (DOMAIN containers)
      PROVE  ImporterInv'
  <2>1. importer.queue \in Seq(Pending) /\ importer.queue \in Seq(Entity)
    BY DEF ImporterInv, ImporterTypeOK, ProcessOfImporter
  <2>2. q \in Seq(Pending) /\ q \in Seq(Entity)
    BY <1>2, <1>4, <2>1
  <2> HIDE DEF Pending, queue
  <2>3. importer' = [at |-> "push", container |-> importer.container, queue |-> q,
                     editgroup |-> importer.editgroup, cache |-> importer.cache]
    BY <1>4 DEF ImporterInv, ProcessOfImporter
  <2>4. /\ importer' \in ProcessOfImporter
        /\ importer'.at = "push" /\ importer'.queue = q
        /\ importer'.container = importer.container
        /\ importer'.editgroup = importer.editgroup /\ importer'.cache = importer.cache
    BY <2>2, <2>3 DEF ImporterInv, ProcessOfImporter
  <2>5. importer'.queue \in Seq([key : Key, container : 0 .. Len(containers)])
    BY <2>2, <2>4 DEF Pending
  <2> QED BY <1>1, <1>3, <1>4, <2>4, <2>5, TypeByParts DEF ImporterInv, ImporterTypeOK
<1>5. UNCHANGED <<copies, named, review>> =>
         /\ copies' \in [Key -> Nat] /\ review' \in [Key -> Nat]
         /\ named' \in SUBSET (DOMAIN containers)
  BY DEF ImporterInv, ImporterTypeOK
<1>6. InsertBatch(queue) =>
         /\ copies' \in [Key -> Nat] /\ review' \in [Key -> Nat]
         /\ named' \in SUBSET (DOMAIN containers)
  BY <1>2, InsertBatchType
<1>7. CASE ~WantsInsert(Message.key)
  <2>1. importer' = [importer EXCEPT !.at = "push", !.queue = importer.queue]
    BY <1>7 DEF PushEntity, ImporterInv, ProcessOfImporter
  <2>2. Len(importer.queue) < EditBatchSize
    BY DEF ImporterInv, ImporterTypeOK
  <2>3. UNCHANGED <<copies, named, review>>
    BY <1>7 DEF PushEntity
  <2> QED BY <1>4, <1>5, <2>1, <2>2, <2>3
<1>8. CASE WantsInsert(Message.key) /\ Len(queue) < EditBatchSize
  <2>1. /\ importer' = [importer EXCEPT !.at = "push", !.queue = queue]
        /\ UNCHANGED <<copies, named, review>>
    BY <1>8 DEF PushEntity
  <2> QED BY <1>4, <1>5, <1>8, <2>1
<1>9. CASE WantsInsert(Message.key) /\ ~(Len(queue) < EditBatchSize)
  <2>1. importer' = [importer EXCEPT !.at = "push", !.queue = << >>] /\ InsertBatch(queue)
    BY <1>9 DEF PushEntity
  <2> QED BY <1>2, <1>4, <1>6, <2>1, ImporterAssumption
<1> QED BY <1>7, <1>8, <1>9

LEMMA TypeConsume ==
    ASSUME ImporterInv, ConsumeMessages \/ StoreOffsets
    PROVE  ImporterInv'
<1>1. /\ UNCHANGED <<job, topic, importer, copies, named, review, containers, forgotten, orphans>>
      /\ importer.at = "push"
  BY DEF ConsumeMessages, StoreOffsets, BetweenBatches, cat
<1>2. /\ consumer' \in ConsumerType
      /\ consumer'.committed <= consumer'.stored /\ consumer'.stored <= consumer'.next
      /\ consumer'.next <= consumer'.end /\ consumer'.end <= Len(topic) + 1
  <2>1. CASE ConsumeMessages
    <3>1. PICK n \in 1 .. ConsumeBatch : /\ consumer.end + n <= Len(topic) + 1
                                        /\ consumer' = [consumer EXCEPT !.end = @ + n]
      BY <2>1 DEF ConsumeMessages
    <3>2. n \in Nat
      BY ImporterAssumption
    <3>3. consumer' = [next |-> consumer.next, end |-> consumer.end + n,
                       stored |-> consumer.stored, committed |-> consumer.committed]
      BY <3>1 DEF ImporterInv, ConsumerType
    <3>4. /\ consumer.committed <= consumer.stored /\ consumer.stored <= consumer.next
          /\ consumer.next <= consumer.end
      BY DEF ImporterInv, ImporterTypeOK
    <3>5. /\ consumer.end \in Nat /\ consumer.next \in Nat \ {0}
          /\ consumer.stored \in Nat \ {0} /\ consumer.committed \in Nat \ {0}
      BY DEF ImporterInv, ConsumerType
    <3>6. consumer.next <= consumer.end + n
      BY <3>2, <3>4, <3>5
    <3>7. consumer.end + n \in Nat
      BY <3>2, <3>5
    <3>8. consumer' \in ConsumerType
      BY <3>3, <3>5, <3>7 DEF ConsumerType
    <3> QED BY <3>1, <3>3, <3>4, <3>6, <3>8
  <2>2. CASE StoreOffsets
    <3>1. consumer' = [next |-> consumer.next, end |-> consumer.end,
                       stored |-> consumer.end, committed |-> consumer.committed]
      BY <2>2 DEF StoreOffsets, ImporterInv, ConsumerType
    <3>2. /\ consumer.next = consumer.end
          /\ consumer.committed <= consumer.stored /\ consumer.stored < consumer.end
          /\ consumer.end <= Len(topic) + 1
      BY <2>2 DEF StoreOffsets, ImporterInv, ImporterTypeOK
    <3>3. consumer'.committed <= consumer'.stored
      BY <3>1, <3>2 DEF ImporterInv, ConsumerType
    <3> QED BY <3>1, <3>2, <3>3 DEF ImporterInv, ConsumerType
  <2> QED BY <2>1, <2>2
<1> QED BY <1>1, <1>2, TypeByParts DEF ImporterInv, ImporterTypeOK

LEMMA TypeFinishQueue ==
    ASSUME ImporterInv, FinishQueue
    PROVE  ImporterInv'
<1>1. /\ UNCHANGED <<job, topic, consumer, containers, forgotten, orphans>>
      /\ importer' = [importer EXCEPT !.at = "push", !.queue = << >>]
      /\ InsertBatch(importer.queue)
  BY DEF FinishQueue
<1>2. importer.queue \in Seq([key : Key, container : 0 .. Len(containers)])
  BY DEF ImporterInv, ImporterTypeOK
<1>3. /\ copies' \in [Key -> Nat] /\ review' \in [Key -> Nat]
      /\ named' \in SUBSET (DOMAIN containers)
  BY <1>1, <1>2, InsertBatchType
<1>4. importer' = [at |-> "push", container |-> importer.container, queue |-> << >>,
                   editgroup |-> importer.editgroup, cache |-> importer.cache]
  BY <1>1 DEF ImporterInv, ProcessOfImporter
<1>5. importer' \in ProcessOfImporter
  BY <1>4, EmptySeq DEF ImporterInv, ProcessOfImporter
<1>6. << >> \in Seq([key : Key, container : 0 .. Len(containers)]) /\ Len(<< >>) < EditBatchSize
  BY EmptySeq, ImporterAssumption
<1> QED BY <1>1, <1>3, <1>4, <1>5, <1>6, TypeByParts DEF ImporterInv, ImporterTypeOK

LEMMA TypeDies ==
    ASSUME ImporterInv, ImporterDies
    PROVE  ImporterInv'
<1>1. /\ UNCHANGED <<job, topic, copies, named, review, containers>>
      /\ orphans' = orphans \cup importer.editgroup
      /\ importer' = NewProcess
      /\ forgotten' \in SUBSET Key
  <2>1. forgotten \in SUBSET Key
    BY DEF ImporterInv, ImporterTypeOK
  <2> QED BY <2>1 DEF ImporterDies, cat
<1>2. PICK k \in consumer.committed .. consumer.stored : consumer' = ConsumerAt(k)
  BY DEF ImporterDies
<1>3. /\ k \in Nat \ {0} /\ k <= Len(topic) + 1
      /\ consumer' = [next |-> k, end |-> k, stored |-> k, committed |-> k]
  BY <1>2 DEF ConsumerAt, ImporterInv, ImporterTypeOK, ConsumerType
<1>4. consumer' \in ConsumerType
  BY <1>3 DEF ConsumerType
<1>5. importer' \in ProcessOfImporter
  BY <1>1, EmptySeq DEF NewProcess, ProcessOfImporter
<1>6. Len(containers) \in Nat
  BY ContainerRows DEF ImporterInv
<1>7. << >> \in Seq([key : Key, container : 0 .. Len(containers)]) /\ Len(<< >>) < EditBatchSize
  BY EmptySeq, ImporterAssumption
<1>8. [j \in Journal |-> 0] \in [Journal -> 0 .. Len(containers)] /\ 0 \in 0 .. Len(containers)
  BY <1>6
<1>9. /\ importer'.at = "push" /\ importer'.container = 0 /\ importer'.queue = << >>
      /\ importer'.editgroup = {} /\ importer'.cache = [j \in Journal |-> 0]
  BY <1>1 DEF NewProcess
<1>10. /\ consumer'.committed <= consumer'.stored /\ consumer'.stored <= consumer'.next
       /\ consumer'.next <= consumer'.end /\ consumer'.end <= Len(topic) + 1
  BY <1>3
<1>11. /\ importer'.at = "update" => consumer'.next < consumer'.end
       /\ importer'.container \in 0 .. Len(containers)
       /\ importer'.queue \in Seq([key : Key, container : 0 .. Len(containers)])
       /\ Len(importer'.queue) < EditBatchSize
       /\ importer'.editgroup \in {{}, importer.editgroup}
       /\ importer'.cache \in [Journal -> 0 .. Len(containers)]
  BY <1>7, <1>8, <1>9
<1> QED
  BY <1>1, <1>4, <1>5, <1>10, <1>11, TypeByParts DEF ImporterInv, ImporterTypeOK

LEMMA TypeReview ==
    ASSUME ImporterInv, NEW k \in Key, ReviewerAccepts(k)
    PROVE  ImporterInv'
<1>1. copies' \in [Key -> Nat] /\ review' \in [Key -> Nat]
  BY DEF ImporterInv, ReviewerAccepts
<1> QED BY <1>1 DEF ReviewerAccepts, ImporterInv, ImporterTypeOK

LEMMA TypeImporterStep ==
    ASSUME ImporterInv, ImporterNext
    PROVE  ImporterInv'
<1>1. CASE AcceptFullEditgroup
  <2>1. importer' = [importer EXCEPT !.at = "push", !.editgroup = {}]
    BY <1>1 DEF AcceptFullEditgroup, Pushing, ImporterInv, ProcessOfImporter
  <2> QED BY <1>1, <2>1, TypePublish DEF AcceptFullEditgroup
<1>2. CASE FinishEditgroup
  BY <1>2, TypePublish DEF FinishEditgroup
<1> QED
  BY <1>1, <1>2, TypeParse, TypePush, TypeConsume, TypeFinishQueue, TypeDies, TypeReview
  DEF ImporterNext, ImporterStep

\* A longer topic disturbs nothing.
LEMMA ImporterLags ==
    ASSUME ImporterInv, HarvestTypeOK, HarvestSide
    PROVE  /\ ImporterInv'
           /\ UNCHANGED <<job, consumer, importer, containers, copies, named, review,
                          forgotten, orphans>>
           /\ Len(topic) \in Nat /\ Len(topic') \in Nat /\ Len(topic) <= Len(topic')
           /\ DOMAIN topic = 1 .. Len(topic) /\ DOMAIN topic' = 1 .. Len(topic')
           /\ \A p \in DOMAIN topic : topic'[p] = topic[p]
<1>1. PICK more \in Seq(Record) : topic' = topic \o more
  BY TopicGrows DEF HarvestSide
<1>2. /\ topic' \in Seq(Record)
      /\ Len(topic) \in Nat /\ Len(topic') \in Nat /\ Len(topic) <= Len(topic')
      /\ DOMAIN topic = 1 .. Len(topic) /\ DOMAIN topic' = 1 .. Len(topic')
      /\ \A p \in DOMAIN topic : topic'[p] = topic[p]
  BY <1>1 DEF HarvestTypeOK
<1>3. UNCHANGED <<job, consumer, importer, containers, copies, named, review, forgotten, orphans>>
  BY DEF HarvestSide, cat
<1>4. consumer \in ConsumerType /\ consumer.end <= Len(topic) + 1
  BY DEF ImporterInv, ImporterTypeOK
<1>5. consumer.end <= Len(topic') + 1
  BY <1>2, <1>4 DEF ConsumerType
<1>6. ImporterTypeOK'
  BY <1>2, <1>3, <1>5 DEF ImporterInv, ImporterTypeOK
<1>7. ImporterInv'
  BY <1>3, <1>6 DEF ImporterInv
<1> QED BY <1>2, <1>3, <1>7

LEMMA ImporterInvStep ==
    ASSUME ImporterInv, HarvestTypeOK, [HarvestSide \/ ImportSide]_pipelineVars
    PROVE  ImporterInv'
<1>1. CASE UNCHANGED pipelineVars
  BY <1>1 DEF pipelineVars, harvestVars, importerVars, cat, ImporterInv, ImporterTypeOK
<1> QED BY <1>1, ImporterLags, TypeImporterStep DEF ImportSide

\* The importer stays well-formed: the offset never passes the messages that were
\* worked off, neither queue nor editgroup grows past its limit, and what is
\* cached, queued or named are containers that were created.
LEMMA ImporterTypeCorrect == PipelineSpec => []ImporterTypeOK
<1>1. PipelineInit => ImporterInv
  BY TypeInit
<1>2. ImporterInv /\ HarvestTypeOK /\ [HarvestSide \/ ImportSide]_pipelineVars => ImporterInv'
  BY ImporterInvStep
<1>3. ImporterInv => ImporterTypeOK
  BY DEF ImporterInv
<1> QED BY <1>1, <1>2, <1>3, HarvestTypeCorrect, PTL DEF PipelineSpec

\* Both stay well-formed, whoever moves.
THEOREM PipelineTypeCorrect == PipelineSpec => []PipelineTypeOK
<1>1. HarvestTypeOK /\ ImporterTypeOK => PipelineTypeOK
  BY DEF PipelineTypeOK
<1> QED BY <1>1, HarvestTypeCorrect, ImporterTypeCorrect, PTL

-----------------------------------------------------------------------------
(* Records are kept. *)

InQueue(k) == \E n \in DOMAIN importer.queue : importer.queue[n].key = k

Kept(k) == copies[k] > 0 \/ review[k] > 0 \/ k \in forgotten \/ InQueue(k)

\* RecordsKept for every message that was worked off, stored or not, since it is
\* at the offset of any of them that a successor may begin.
KeptInv ==
    /\ ImporterInv
    /\ \A p \in 1 .. consumer.next - 1 :
          \/ Kept(topic[p].key)
          \/ \E q \in consumer.next .. Len(topic) : topic[q].key = topic[p].key

LEMMA TopicKeys ==
    ASSUME ImporterInv
    PROVE  /\ Len(topic) \in Nat /\ DOMAIN topic = 1 .. Len(topic)
           /\ \A p \in 1 .. Len(topic) : topic[p].key \in Key
           /\ consumer.next \in Nat \ {0} /\ consumer.next <= Len(topic) + 1
<1>1. topic \in Seq(Record) /\ consumer \in ConsumerType
  BY DEF ImporterInv, ImporterTypeOK
<1>2. \A p \in 1 .. Len(topic) : topic[p] \in Record
  BY <1>1
<1>3. \A record \in Record : record.key \in Key
  BY DEF Record
<1> QED BY <1>1, <1>2, <1>3 DEF ImporterInv, ImporterTypeOK, ConsumerType

\* What is in the queue is inserted before it leaves the queue.
LEMMA InsertedIsKept ==
    ASSUME ImporterInv, NEW batch \in Seq(Entity), InsertBatch(batch),
           UNCHANGED forgotten, NEW k \in Key,
           \/ copies[k] > 0 \/ review[k] > 0 \/ k \in forgotten
           \/ \E n \in DOMAIN batch : batch[n].key = k
    PROVE  Kept(k)'
<1>1. copies[k] \in Nat /\ review[k] \in Nat
  BY DEF ImporterInv
<1> QED BY <1>1, InsertBatchAdds DEF Kept

\* The message at hand is kept by the time the consumer is past it, and so is
\* all that was kept.
LEMMA PushKeeps ==
    ASSUME ImporterInv, PushEntity, NEW k \in Key, Kept(k) \/ k = Message.key
    PROVE  Kept(k)'
<1> DEFINE queue == Append(importer.queue, [key |-> Message.key, container |-> importer.container])
<1>1. importer.at = "update" /\ UNCHANGED forgotten
  BY DEF PushEntity
<1>2. /\ queue \in Seq(Entity)
      /\ DOMAIN queue = 1 .. Len(queue) /\ Len(queue) = Len(importer.queue) + 1
      /\ Len(importer.queue) \in Nat
      /\ DOMAIN importer.queue = 1 .. Len(importer.queue)
      /\ queue[Len(queue)].key = Message.key
      /\ \A n \in DOMAIN importer.queue : queue[n] = importer.queue[n]
  BY <1>1, LongerQueue
<1>3. \/ copies[k] > 0 \/ review[k] > 0 \/ k \in forgotten
      \/ \E n \in DOMAIN queue : queue[n].key = k
  BY <1>2 DEF Kept, InQueue
<1>4. CASE ~WantsInsert(Message.key)
  <2>1. importer'.queue = importer.queue /\ UNCHANGED <<copies, review>>
    BY <1>4 DEF PushEntity, ImporterInv, ProcessOfImporter
  <2>2. copies[Message.key] > 0 \/ InQueue(Message.key)
    <3>1. Message.key \in Key
      BY <1>1, MessageAtHand DEF ImporterInv
    <3>2. copies[Message.key] \in Nat
      BY <3>1 DEF ImporterInv
    <3> QED BY <1>4, <3>2 DEF WantsInsert, InQueue
  <2> QED BY <1>1, <2>1, <2>2 DEF Kept, InQueue
<1>5. CASE WantsInsert(Message.key) /\ Len(queue) < EditBatchSize
  <2>1. importer'.queue = queue /\ UNCHANGED <<copies, review>>
    BY <1>5 DEF PushEntity, ImporterInv, ProcessOfImporter
  <2> HIDE DEF queue
  <2> QED BY <1>1, <1>3, <2>1 DEF Kept, InQueue
<1>6. CASE WantsInsert(Message.key) /\ ~(Len(queue) < EditBatchSize)
  <2>1. InsertBatch(queue)
    BY <1>6 DEF PushEntity
  <2> HIDE DEF queue
  <2> QED BY <1>1, <1>2, <1>3, <2>1, InsertedIsKept
<1> QED BY <1>4, <1>5, <1>6

\* No other step loses anything, but the death of a process.
LEMMA OthersKeep ==
    ASSUME ImporterInv, ImporterStep, ~PushEntity, NEW k \in Key, Kept(k)
    PROVE  Kept(k)' /\ consumer'.next = consumer.next
<1>1. CASE AcceptFullEditgroup \/ FinishEditgroup
  BY <1>1 DEF AcceptFullEditgroup, FinishEditgroup, Kept, InQueue, ImporterInv, ProcessOfImporter
<1>2. CASE ParseRecord
  BY <1>2 DEF ParseRecord, Kept, InQueue, ImporterInv, ProcessOfImporter
<1>3. CASE ConsumeMessages \/ StoreOffsets
  BY <1>3 DEF ConsumeMessages, StoreOffsets, cat, Kept, InQueue, ImporterInv, ConsumerType
<1>4. CASE FinishQueue
  <2>1. InsertBatch(importer.queue) /\ UNCHANGED <<forgotten, consumer>>
    BY <1>4 DEF FinishQueue
  <2>2. importer.queue \in Seq(Entity)
    BY DEF ImporterInv, ProcessOfImporter
  <2> QED BY <2>1, <2>2, InsertedIsKept DEF Kept, InQueue
<1> QED BY <1>1, <1>2, <1>3, <1>4 DEF ImporterStep

LEMMA KeptStep ==
    ASSUME KeptInv, ImporterNext
    PROVE  KeptInv'
<1>1. ImporterInv /\ ImporterInv'
  BY TypeImporterStep DEF KeptInv
<1>2. topic' = topic
  BY DEF ImporterNext, ImporterStep, AcceptFullEditgroup, ParseRecord, PushEntity,
     ConsumeMessages, StoreOffsets, FinishEditgroup, FinishQueue, ImporterDies, ReviewerAccepts
<1>3. consumer'.next \in Nat /\ consumer'.next - 1 <= Len(topic)
  BY <1>1, <1>2 DEF ImporterInv, ImporterTypeOK, ConsumerType
<1> SUFFICES ASSUME NEW p \in 1 .. consumer'.next - 1, NEW k \in Key, k = topic[p].key
             PROVE  Kept(k)' \/ \E q \in consumer'.next .. Len(topic) : topic[q].key = k
  BY <1>1, <1>2, <1>3, TopicKeys DEF KeptInv
<1>4. CASE PushEntity
  <2>1. consumer'.next = consumer.next + 1 /\ Message = topic[consumer.next]
    BY <1>4 DEF PushEntity, Message, ImporterInv, ConsumerType, KeptInv
  <2>2. \/ p = consumer.next
        \/ Kept(k)
        \/ \E q \in consumer.next .. Len(topic) : topic[q].key = k
    BY <1>1, <2>1, TopicKeys DEF KeptInv
  <2>3. CASE Kept(k) \/ k = Message.key
    BY <1>1, <1>3, <1>4, <2>3, PushKeeps
  <2>4. CASE \E q \in consumer.next .. Len(topic) : q # consumer.next /\ topic[q].key = k
    BY <1>1, <2>1, <2>4, TopicKeys
  <2> QED BY <2>1, <2>2, <2>3, <2>4
<1>5. CASE ImporterStep /\ ~PushEntity
  <2>1. consumer'.next = consumer.next
    BY <1>5 DEF ImporterStep, AcceptFullEditgroup, ParseRecord, ConsumeMessages, StoreOffsets,
                FinishEditgroup, FinishQueue, KeptInv, ImporterInv, ConsumerType
  <2>2. \/ Kept(k)
        \/ \E q \in consumer.next .. Len(topic) : topic[q].key = k
    BY <2>1 DEF KeptInv
  <2> QED BY <1>1, <1>3, <1>5, <2>1, <2>2, OthersKeep
<1>6. CASE ImporterDies
  <2>1. PICK m \in consumer.committed .. consumer.stored :
           /\ consumer' = ConsumerAt(m)
           /\ forgotten' = forgotten \cup
                 {q \in Key : /\ \E n \in DOMAIN importer.queue : importer.queue[n].key = q
                              /\ \A l \in m .. Len(topic) : topic[l].key # q}
    BY <1>6 DEF ImporterDies
  <2>2. UNCHANGED <<copies, review>>
    BY <1>6 DEF ImporterDies, cat
  <2>3. consumer'.next = m /\ m \in Nat /\ m <= consumer.next
    BY <2>1 DEF ConsumerAt, KeptInv, ImporterInv, ImporterTypeOK, ConsumerType
  <2>4. \/ Kept(k)
        \/ \E q \in consumer.next .. Len(topic) : topic[q].key = k
    BY <1>1, <2>3, TopicKeys DEF KeptInv
  <2>5. CASE \E q \in m .. Len(topic) : topic[q].key = k
    BY <2>3, <2>5
  <2>6. CASE Kept(k) /\ \A q \in m .. Len(topic) : topic[q].key # k
    BY <1>3, <2>1, <2>2, <2>6 DEF Kept, InQueue
  <2> QED BY <1>1, <2>3, <2>4, <2>5, <2>6, TopicKeys
<1>7. CASE \E key \in Key : ReviewerAccepts(key)
  <2>1. PICK key \in Key : ReviewerAccepts(key)
    BY <1>7
  <2>2. UNCHANGED <<consumer, importer, forgotten>>
    BY <2>1 DEF ReviewerAccepts
  <2>3. Kept(k) => Kept(k)'
    BY <1>1, <1>3, <2>1, <2>2 DEF Kept, InQueue, ReviewerAccepts, ImporterInv
  <2> QED BY <2>2, <2>3 DEF KeptInv
<1> QED BY <1>4, <1>5, <1>6, <1>7 DEF ImporterNext

\* A record whose offset is stored is not lost, whatever dies when, but for the
\* keys that died in a queue (forgotten).
THEOREM RecordsAlwaysKept == PipelineSpec => []RecordsKept
<1>1. PipelineInit => KeptInv
  <2> SUFFICES ASSUME PipelineInit PROVE KeptInv
    OBVIOUS
  <2>1. consumer.next = 1
    BY DEF PipelineInit, ConsumerAt
  <2> QED BY <2>1, TypeInit DEF KeptInv
<1>2. KeptInv /\ HarvestTypeOK /\ [HarvestSide \/ ImportSide]_pipelineVars => KeptInv'
  <2> SUFFICES ASSUME KeptInv, HarvestTypeOK, [HarvestSide \/ ImportSide]_pipelineVars
               PROVE  KeptInv'
    OBVIOUS
  <2>1. CASE ImportSide
    BY <2>1, KeptStep DEF ImportSide
  <2>2. CASE HarvestSide
    <3>1. ImporterInv /\ consumer.next \in Nat \ {0} /\ consumer.next <= Len(topic) + 1
      BY TopicKeys DEF KeptInv
    <3> QED BY <2>2, <3>1, ImporterLags DEF KeptInv, Kept, InQueue
  <2>3. CASE UNCHANGED pipelineVars
    <3>1. ImporterInv'
      BY <2>3, ImporterInvStep DEF KeptInv
    <3> QED BY <2>3, <3>1 DEF KeptInv, Kept, InQueue, pipelineVars, harvestVars, importerVars, cat
  <2> QED BY <2>1, <2>2, <2>3
<1>3. KeptInv => RecordsKept
  <2> SUFFICES ASSUME KeptInv, NEW p \in 1 .. consumer.stored - 1
               PROVE  \/ Kept(topic[p].key)
                      \/ \E q \in consumer.stored .. Len(topic) : topic[q].key = topic[p].key
    BY DEF RecordsKept, Kept, InQueue
  <2>1. consumer.stored <= consumer.next /\ consumer.stored \in Nat /\ consumer.next \in Nat
    BY DEF KeptInv, ImporterInv, ImporterTypeOK, ConsumerType
  <2> QED BY <2>1, TopicKeys DEF KeptInv
<1> QED BY <1>1, <1>2, <1>3, HarvestTypeCorrect, PTL DEF PipelineSpec

-----------------------------------------------------------------------------
(* Containers. *)

\* Live, or to be live when the editgroup is accepted.
Due(c) == containers[c].live \/ c \in importer.editgroup

\* Every container that was created is due, or was left by a dead process.  A
\* journal has one container that is due: the process remembers those of its
\* editgroup, which a lookup does not find, for as long as it lives.
ContainersInv ==
    /\ ImporterInv
    /\ \A c \in DOMAIN containers : Due(c) \/ c \in orphans
    /\ \A c \in importer.editgroup : importer.cache[containers[c].journal] # 0
    /\ \A c, d \in DOMAIN containers :
          Due(c) /\ Due(d) /\ containers[c].journal = containers[d].journal => c = d

\* Accepting the editgroup leaves the same containers due.
LEMMA PublishKeepsDue ==
    ASSUME ContainersInv, ImporterInv',
           containers' = Accepted(importer.editgroup),
           importer'.editgroup = {}, UNCHANGED orphans
    PROVE  ContainersInv'
<1>1. importer.editgroup \in SUBSET (DOMAIN containers)
  BY DEF ContainersInv, ImporterInv, ImporterTypeOK
<1>2. /\ DOMAIN containers' = DOMAIN containers
      /\ \A c \in DOMAIN containers : /\ containers'[c].journal = containers[c].journal
                                      /\ containers'[c].live <=> Due(c)
  BY <1>1, AcceptedRows DEF ContainersInv, Due
<1>3. \A c \in DOMAIN containers : Due(c)' <=> Due(c)
  BY <1>2 DEF Due
<1> QED BY <1>2, <1>3 DEF ContainersInv

\* Steps that look up and create nothing.
LEMMA ContainersApart ==
    ASSUME ContainersInv, ImporterInv',
           UNCHANGED <<containers, orphans>>,
           importer'.editgroup = importer.editgroup,
           \A j \in Journal : importer.cache[j] # 0 => importer'.cache[j] # 0
    PROVE  ContainersInv'
<1>1. \A c \in DOMAIN containers : /\ Due(c)' <=> Due(c)
                                   /\ containers[c].journal \in Journal
  BY ContainerRows DEF Due, Row, ContainersInv, ImporterInv
<1>2. importer.editgroup \subseteq DOMAIN containers
  BY DEF ContainersInv, ImporterInv, ImporterTypeOK
<1> QED BY <1>1, <1>2 DEF ContainersInv

\* A container is created only for a journal that has none due.
LEMMA ContainersParse ==
    ASSUME ContainersInv, ImporterInv', ParseRecord
    PROVE  ContainersInv'
<1>1. importer \in ProcessOfImporter /\ ImporterInv /\ UNCHANGED orphans
  BY DEF ContainersInv, ImporterInv, ParseRecord
<1> DEFINE j == Message.journal
<1>2. NeedsContainer => j \in Journal
  BY <1>1, MessageAtHand DEF NeedsContainer, ParseRecord, Pushing
<1>3. CASE ~NeedsContainer
  <2>1. /\ importer'.editgroup = importer.editgroup /\ importer'.cache = importer.cache
        /\ UNCHANGED containers
    BY <1>1, <1>3 DEF ParseRecord, ProcessOfImporter
  <2> QED BY <1>1, <2>1, ContainersApart
<1>4. CASE NeedsContainer /\ Lookup(j) # 0
  <2>1. /\ importer'.editgroup = importer.editgroup
        /\ importer'.cache = [importer.cache EXCEPT ![j] = Lookup(j)]
        /\ UNCHANGED containers
    BY <1>1, <1>4 DEF ParseRecord, ProcessOfImporter
  <2>2. \A i \in Journal : importer.cache[i] # 0 => importer'.cache[i] # 0
    BY <1>1, <1>4, <2>1 DEF ProcessOfImporter
  <2> QED BY <1>1, <2>1, <2>2, ContainersApart
<1>5. CASE NeedsContainer /\ Lookup(j) = 0
  <2>0. /\ containers \in Seq(Row) /\ Len(containers) \in Nat
        /\ DOMAIN containers = 1 .. Len(containers)
        /\ [journal |-> j, live |-> FALSE] \in Row
    BY <1>1, <1>2, <1>5, ContainerRows DEF ImporterInv, Row
  <2> PICK n \in Nat \ {0} : n = Len(containers) + 1
    BY <2>0
  <2>1. /\ containers' = Append(containers, [journal |-> j, live |-> FALSE])
        /\ importer'.editgroup = importer.editgroup \cup {n}
        /\ importer'.cache = [importer.cache EXCEPT ![j] = n]
    <3>1. containers' = Append(containers, [journal |-> j, live |-> FALSE])
      BY <1>5 DEF ParseRecord
    <3>2. Len(containers') = n
      BY <2>0, <3>1
    <3>3. importer' = [importer EXCEPT !.at = "update", !.container = n,
                          !.editgroup = @ \cup {n}, !.cache[j] = n]
      BY <1>5, <3>2 DEF ParseRecord
    <3> HIDE DEF j
    <3> QED BY <1>1, <3>1, <3>3 DEF ProcessOfImporter
  <2>2. /\ n \notin DOMAIN containers
        /\ DOMAIN containers' = DOMAIN containers \cup {n}
        /\ containers'[n] = [journal |-> j, live |-> FALSE]
        /\ \A c \in DOMAIN containers : containers'[c] = containers[c]
    BY <2>0, <2>1
  <2>3. \A c \in DOMAIN containers : containers[c].journal \in Journal
    BY <1>1, ContainerRows DEF Row, ImporterInv
  <2>4. importer.cache[j] = 0 /\ \A c \in DOMAIN containers :
                                    containers[c].live => containers[c].journal # j
    BY <1>1, <1>2, <1>5, LookupType
  <2>5. importer.editgroup \subseteq DOMAIN containers
    BY DEF ContainersInv, ImporterInv, ImporterTypeOK
  <2>6. \A c \in DOMAIN containers : Due(c) => containers[c].journal # j
    BY <2>4 DEF ContainersInv, Due
  <2> HIDE DEF j
  <2>7. Due(n)' /\ \A c \in DOMAIN containers : Due(c)' <=> Due(c)
    BY <2>1, <2>2 DEF Due
  <2>8. \A c \in importer'.editgroup : importer'.cache[containers'[c].journal] # 0
    <3>1. importer.cache \in [Journal -> Nat]
      BY <1>1 DEF ProcessOfImporter
    <3>2. containers'[n].journal = j
      BY <2>2
    <3> QED BY <1>2, <1>5, <2>1, <2>2, <2>3, <2>5, <3>1, <3>2 DEF ContainersInv
  <2>9. \A c, d \in DOMAIN containers' :
           Due(c)' /\ Due(d)' /\ containers'[c].journal = containers'[d].journal => c = d
    <3>1. containers'[n].journal = j
      BY <2>2
    <3> QED BY <2>2, <2>6, <2>7, <3>1 DEF ContainersInv
  <2>10. \A c \in DOMAIN containers' : Due(c)' \/ c \in orphans'
    BY <1>1, <2>2, <2>7 DEF ContainersInv
  <2> QED BY <2>8, <2>9, <2>10 DEF ContainersInv
<1> QED BY <1>3, <1>4, <1>5

LEMMA ContainersStep ==
    ASSUME ContainersInv, ImporterNext
    PROVE  ContainersInv'
<1>1. ImporterInv' /\ importer \in ProcessOfImporter
  BY TypeImporterStep DEF ContainersInv, ImporterInv
<1>2. CASE AcceptFullEditgroup \/ FinishEditgroup
  <2>1. /\ containers' = Accepted(importer.editgroup)
        /\ importer'.editgroup = {} /\ UNCHANGED orphans
    BY <1>1, <1>2 DEF AcceptFullEditgroup, FinishEditgroup, ProcessOfImporter
  <2> QED BY <1>1, <2>1, PublishKeepsDue
<1>3. CASE ParseRecord
  BY <1>1, <1>3, ContainersParse
<1>4. CASE PushEntity \/ ConsumeMessages \/ StoreOffsets \/ FinishQueue
  <2>1. /\ UNCHANGED <<containers, orphans>>
        /\ importer'.editgroup = importer.editgroup /\ importer'.cache = importer.cache
    BY <1>1, <1>4 DEF PushEntity, ConsumeMessages, StoreOffsets, FinishQueue, cat, ProcessOfImporter
  <2> QED BY <1>1, <2>1, ContainersApart
<1>5. CASE ImporterDies
  <2>1. /\ UNCHANGED containers
        /\ importer'.editgroup = {} /\ orphans' = orphans \cup importer.editgroup
    BY <1>5 DEF ImporterDies, NewProcess, cat
  <2>2. \A c \in DOMAIN containers : Due(c)' => Due(c)
    BY <2>1 DEF Due
  <2>3. \A c \in DOMAIN containers : Due(c)' \/ c \in orphans'
    BY <2>1 DEF Due, ContainersInv
  <2> QED BY <1>1, <2>1, <2>2, <2>3 DEF ContainersInv
<1>6. CASE \E k \in Key : ReviewerAccepts(k)
  <2>1. UNCHANGED <<containers, orphans, importer>>
    BY <1>6 DEF ReviewerAccepts
  <2> QED BY <1>1, <2>1, ContainersApart
<1> QED BY <1>2, <1>3, <1>4, <1>5, <1>6 DEF ImporterNext, ImporterStep

\* The same argument, for every step of the pipeline.
LEMMA ContainersAlways == PipelineSpec => []ContainersInv
<1>1. PipelineInit => ContainersInv
  <2> SUFFICES ASSUME PipelineInit PROVE ContainersInv
    OBVIOUS
  <2>1. DOMAIN containers = {} /\ importer.editgroup = {}
    BY DEF PipelineInit, NewProcess
  <2> QED BY <2>1, TypeInit DEF ContainersInv
<1>2. ContainersInv /\ HarvestTypeOK /\ [HarvestSide \/ ImportSide]_pipelineVars => ContainersInv'
  <2> SUFFICES ASSUME ContainersInv, HarvestTypeOK, [HarvestSide \/ ImportSide]_pipelineVars
               PROVE  ContainersInv'
    OBVIOUS
  <2>1. CASE ImportSide
    BY <2>1, ContainersStep DEF ImportSide
  <2>2. CASE HarvestSide \/ UNCHANGED pipelineVars
    <3>1. ImporterInv' /\ UNCHANGED <<containers, importer, orphans>>
      BY <2>2, ImporterInvStep, ImporterLags DEF ContainersInv, pipelineVars, importerVars, cat
    <3> QED BY <3>1, ContainersApart
  <2> QED BY <2>1, <2>2
<1> QED BY <1>1, <1>2, HarvestTypeCorrect, PTL DEF PipelineSpec

\* A release never names a container that nobody will publish, unless the
\* process that created the container died.
THEOREM ContainersAlwaysPublished == PipelineSpec => []ContainersPublished
<1>1. ContainersInv => ContainersPublished
  BY DEF ContainersInv, ContainersPublished, Due, Live, ImporterInv, ImporterTypeOK
<1> QED BY <1>1, ContainersAlways, PTL

\* However many processes create containers for a journal and die, one is
\* published.
THEOREM OneContainerPublished == PipelineSpec => []OneContainerPerJournal
<1>1. ContainersInv => OneContainerPerJournal
  BY DEF ContainersInv, OneContainerPerJournal, Due, Live
<1> QED BY <1>1, ContainersAlways, PTL

-----------------------------------------------------------------------------
(* Records are inserted once. *)

Repeated(k) ==
    \E p, q \in DOMAIN topic : p # q /\ topic[p].key = k /\ topic[q].key = k

\* The importer can tell that it has k: it looks into its queue, or k does not
\* come twice between two insertions.
Once(k) == ~job.submit /\ (job.ingest \/ ~Repeated(k))

\* A key waits in the queue once, and only while the catalog lacks it.  What is
\* queued was consumed by this process, so an offset that went back to it
\* implies an empty queue.
OnceInv ==
    /\ ImporterInv
    /\ ~job.submit => \A k \in Key : review[k] = 0
    /\ \A n \in DOMAIN importer.queue :
          \E p \in 1 .. consumer.next - 1 : topic[p].key = importer.queue[n].key
    /\ \A k \in Key : Once(k) =>
          /\ copies[k] <= 1
          /\ InQueue(k) => copies[k] = 0
          /\ \A m, n \in DOMAIN importer.queue :
                importer.queue[m].key = k /\ importer.queue[n].key = k => m = n

LEMMA CountOnce ==
    ASSUME NEW batch \in Seq(Entity), NEW k \in Key
    PROVE  /\ (\A n \in DOMAIN batch : batch[n].key # k) => Count(batch)[k] = 0
           /\ (\A m, n \in DOMAIN batch : batch[m].key = k /\ batch[n].key = k => m = n)
                 => Count(batch)[k] \in {0, 1}
<1> DEFINE same == {n \in DOMAIN batch : batch[n].key = k}
<1>1. Count(batch)[k] = Cardinality(same)
  BY DEF Count
<1>2. (\A n \in DOMAIN batch : batch[n].key # k) => same = {}
  OBVIOUS
<1>3. (\A m, n \in DOMAIN batch : batch[m].key = k /\ batch[n].key = k => m = n)
         => same = {} \/ \E n : same = {n}
  <2> SUFFICES ASSUME \A m, n \in DOMAIN batch : batch[m].key = k /\ batch[n].key = k => m = n,
                      same # {}
               PROVE  \E n : same = {n}
    OBVIOUS
  <2>1. PICK n : n \in same
    OBVIOUS
  <2>2. same = {n}
    BY <2>1
  <2> QED
    BY <2>2
<1> HIDE DEF same
<1>4. /\ same = {} => Cardinality(same) = 0
      /\ (\E n : same = {n}) => Cardinality(same) = 1
  BY FS_EmptySet, FS_Singleton
<1> QED BY <1>1, <1>2, <1>3, <1>4

\* Inserting a queue in which a key waits once.
LEMMA InsertKeepsOnce ==
    ASSUME ImporterInv, ~job.submit, NEW batch \in Seq(Entity), InsertBatch(batch), NEW k \in Key,
           copies[k] <= 1,
           (\E n \in DOMAIN batch : batch[n].key = k) => copies[k] = 0,
           \A m, n \in DOMAIN batch : batch[m].key = k /\ batch[n].key = k => m = n
    PROVE  copies'[k] <= 1
<1>1. copies'[k] = copies[k] + Count(batch)[k] /\ copies[k] \in Nat
  BY InsertBatchAdds DEF ImporterInv
<1> QED BY <1>1, CountOnce

LEMMA OncePush ==
    ASSUME OnceInv, ImporterInv', PushEntity
    PROVE  OnceInv'
<1> DEFINE queue == Append(importer.queue, [key |-> Message.key, container |-> importer.container])
<1>1. /\ importer.at = "update" /\ UNCHANGED <<job, topic>>
      /\ ImporterInv /\ importer \in ProcessOfImporter
  BY DEF PushEntity, OnceInv, ImporterInv
<1>2. /\ queue \in Seq(Entity)
      /\ DOMAIN queue = 1 .. Len(queue) /\ Len(queue) = Len(importer.queue) + 1
      /\ Len(importer.queue) \in Nat
      /\ DOMAIN importer.queue = 1 .. Len(importer.queue)
      /\ queue[Len(queue)].key = Message.key
      /\ \A n \in DOMAIN importer.queue : queue[n] = importer.queue[n]
  BY <1>1, LongerQueue
<1>3. /\ consumer.next \in DOMAIN topic /\ Message = topic[consumer.next] /\ Message.key \in Key
      /\ consumer'.next = consumer.next + 1 /\ consumer.next \in Nat
      /\ DOMAIN topic = 1 .. Len(topic) /\ Len(topic) \in Nat
  <2>1. consumer.next < consumer.end
    BY <1>1 DEF ImporterInv
  <2>2. consumer'.next = consumer.next + 1
    BY <1>1 DEF PushEntity, ImporterInv, ConsumerType
  <2> QED BY <1>1, <2>1, <2>2, MessageAtHand, TopicKeys
<1>4. CASE ~WantsInsert(Message.key)
  <2>1. importer'.queue = importer.queue /\ UNCHANGED <<copies, review>>
    BY <1>1, <1>4 DEF PushEntity, ProcessOfImporter
  <2> QED BY <1>1, <1>3, <2>1 DEF OnceInv, InQueue, Once, Repeated
<1>5. WantsInsert(Message.key) /\ Once(Message.key) => ~InQueue(Message.key)
  <2> SUFFICES ASSUME Once(Message.key), InQueue(Message.key), ~job.ingest
               PROVE  Repeated(Message.key)
    BY DEF WantsInsert, Once, InQueue
  <2>1. PICK p \in 1 .. consumer.next - 1 : topic[p].key = Message.key
    BY DEF OnceInv, InQueue
  <2>2. p \in DOMAIN topic /\ p # consumer.next
    BY <1>3
  <2> QED BY <1>3, <2>1, <2>2 DEF Repeated
<1>6. ASSUME WantsInsert(Message.key), NEW k \in Key, Once(k)
      PROVE  /\ copies[k] <= 1
             /\ (\E n \in DOMAIN queue : queue[n].key = k) => copies[k] = 0
             /\ \A m, n \in DOMAIN queue : queue[m].key = k /\ queue[n].key = k => m = n
  <2>1. CASE k = Message.key
    <3>1. copies[k] = 0 /\ \A n \in DOMAIN importer.queue : queue[n].key # k
      BY <1>2, <1>5, <1>6, <2>1 DEF WantsInsert, InQueue
    <3> HIDE DEF queue
    <3>2. \A n \in DOMAIN queue : queue[n].key = k => n = Len(queue)
      BY <1>2, <3>1
    <3> QED BY <3>1, <3>2
  <2>2. CASE k # Message.key
    <3> HIDE DEF queue
    <3>1. \A n \in DOMAIN queue : queue[n].key = k => n \in DOMAIN importer.queue
      BY <1>2, <2>2
    <3>2. /\ copies[k] <= 1
          /\ InQueue(k) => copies[k] = 0
          /\ \A m, n \in DOMAIN importer.queue :
                importer.queue[m].key = k /\ importer.queue[n].key = k => m = n
      BY <1>6 DEF OnceInv
    <3>3. (\E n \in DOMAIN queue : queue[n].key = k) => InQueue(k)
      BY <1>2, <3>1 DEF InQueue
    <3>4. \A m, n \in DOMAIN queue : queue[m].key = k /\ queue[n].key = k => m = n
      BY <1>2, <3>1, <3>2
    <3> QED BY <3>2, <3>3, <3>4
  <2> QED BY <2>1, <2>2
<1>7. \A n \in DOMAIN queue : \E p \in 1 .. consumer'.next - 1 : topic[p].key = queue[n].key
  <2> HIDE DEF queue
  <2>1. ASSUME NEW n \in DOMAIN importer.queue
        PROVE  \E p \in 1 .. consumer'.next - 1 : topic[p].key = queue[n].key
    <3>1. PICK p \in 1 .. consumer.next - 1 : topic[p].key = importer.queue[n].key
      BY <2>1 DEF OnceInv
    <3>2. queue[n] = importer.queue[n]
      BY <1>2, <2>1
    <3> QED BY <1>3, <3>1, <3>2
  <2>2. queue[Len(queue)].key = topic[consumer.next].key /\ consumer.next \in 1 .. consumer'.next - 1
    BY <1>2, <1>3
  <2>3. \A n \in DOMAIN queue : n \in DOMAIN importer.queue \/ n = Len(queue)
    BY <1>2
  <2> QED BY <2>1, <2>2, <2>3
<1>8. CASE WantsInsert(Message.key) /\ Len(queue) < EditBatchSize
  <2>1. importer'.queue = queue /\ UNCHANGED <<copies, review>>
    BY <1>1, <1>8 DEF PushEntity, ProcessOfImporter
  <2> HIDE DEF queue
  <2> QED BY <1>1, <1>6, <1>7, <1>8, <2>1 DEF OnceInv, InQueue, Once, Repeated
<1>9. CASE WantsInsert(Message.key) /\ ~(Len(queue) < EditBatchSize)
  <2>1. InsertBatch(queue) /\ importer'.queue = << >>
    BY <1>1, <1>9 DEF PushEntity, ProcessOfImporter
  <2> HIDE DEF queue
  <2>2. \A k \in Key : Once(k)' => Once(k) /\ ~job.submit
    BY <1>1 DEF Once, Repeated
  <2>3. \A k \in Key : Once(k)' => copies'[k] <= 1
    BY <1>1, <1>2, <1>6, <1>9, <2>1, <2>2, InsertKeepsOnce
  <2>4. ~job.submit' => review' = review /\ ~job.submit
    BY <1>1, <1>2, <2>1, InsertBatchAdds
  <2>5. DOMAIN importer'.queue = {}
    BY <2>1
  <2> QED BY <2>3, <2>4, <2>5 DEF OnceInv, InQueue
<1> QED BY <1>4, <1>8, <1>9

LEMMA OnceStep ==
    ASSUME OnceInv, ImporterNext
    PROVE  OnceInv'
<1>1. ImporterInv /\ ImporterInv' /\ importer \in ProcessOfImporter /\ consumer \in ConsumerType
  BY TypeImporterStep DEF OnceInv, ImporterInv
<1>2. CASE PushEntity
  BY <1>1, <1>2, OncePush
<1>3. CASE \/ AcceptFullEditgroup \/ FinishEditgroup \/ ParseRecord
           \/ ConsumeMessages \/ StoreOffsets
  <2>1. /\ UNCHANGED <<job, topic, copies, review>>
        /\ importer'.queue = importer.queue /\ consumer'.next = consumer.next
    BY <1>1, <1>3 DEF AcceptFullEditgroup, FinishEditgroup, ParseRecord, ConsumeMessages,
                      StoreOffsets, cat, ProcessOfImporter, ConsumerType
  <2> QED BY <1>1, <2>1 DEF OnceInv, InQueue, Once, Repeated
<1>4. CASE FinishQueue
  <2>1. /\ InsertBatch(importer.queue) /\ importer'.queue = << >>
        /\ UNCHANGED <<job, topic, consumer>> /\ importer.queue \in Seq(Entity)
    BY <1>1, <1>4 DEF FinishQueue, ProcessOfImporter
  <2>2. \A k \in Key : Once(k)' => Once(k) /\ ~job.submit
    BY <2>1 DEF Once, Repeated
  <2>3. \A k \in Key : Once(k)' => copies'[k] <= 1
    BY <1>1, <2>1, <2>2, InsertKeepsOnce DEF OnceInv, InQueue
  <2>4. ~job.submit' => review' = review /\ ~job.submit
    BY <1>1, <2>1, InsertBatchAdds
  <2>5. DOMAIN importer'.queue = {}
    BY <2>1
  <2> QED BY <1>1, <2>3, <2>4, <2>5 DEF OnceInv, InQueue
<1>5. CASE ImporterDies
  <2>1. UNCHANGED <<job, topic, copies, review>> /\ DOMAIN importer'.queue = {}
    BY <1>5 DEF ImporterDies, cat, NewProcess
  <2>2. \A k \in Key : Once(k)' => Once(k)
    BY <2>1 DEF Once, Repeated
  <2> QED BY <1>1, <2>1, <2>2 DEF OnceInv, InQueue
<1>6. CASE \E k \in Key : ReviewerAccepts(k)
  <2>1. PICK k \in Key : review[k] > 0 /\ ReviewerAccepts(k)
    BY <1>6 DEF ReviewerAccepts
  <2>2. job.submit
    BY <2>1 DEF OnceInv
  <2>3. UNCHANGED <<job, topic, importer, consumer>>
    BY <2>1 DEF ReviewerAccepts
  <2> QED BY <1>1, <2>2, <2>3 DEF OnceInv, Once
<1> QED BY <1>2, <1>3, <1>4, <1>5, <1>6 DEF ImporterNext, ImporterStep

\* A key that comes twice is in the topic more than once.
LEMMA RepeatedCounts ==
    ASSUME ImporterInv, NEW k \in Key, Repeated(k)
    PROVE  Cardinality({p \in DOMAIN topic : topic[p].key = k}) > 1
<1> DEFINE same == {p \in DOMAIN topic : topic[p].key = k}
<1>1. IsFiniteSet(same)
  <2>1. IsFiniteSet(1 .. Len(topic)) /\ same \in SUBSET (1 .. Len(topic))
    BY TopicKeys, FS_Interval
  <2> QED BY <2>1, FS_Subset
<1>2. PICK p, q \in same : p # q
  BY DEF Repeated
<1> HIDE DEF same
<1>3. Cardinality(same) \in Nat /\ Cardinality(same) # 0 /\ Cardinality(same) # 1
  BY <1>1, <1>2, FS_CardinalityType, FS_EmptySet, FS_Singleton
<1> QED BY <1>3 DEF same

\* Messages that are delivered again insert nothing twice.
THEOREM AlwaysInsertedOnce == PipelineSpec => []InsertedOnce
<1>1. PipelineInit => OnceInv
  <2> SUFFICES ASSUME PipelineInit PROVE OnceInv
    OBVIOUS
  <2>1. /\ DOMAIN importer.queue = {}
        /\ copies = [k \in Key |-> 0] /\ review = [k \in Key |-> 0]
    BY DEF PipelineInit, NewProcess
  <2> QED BY <2>1, TypeInit DEF OnceInv
<1>2. OnceInv /\ HarvestTypeOK /\ [HarvestSide \/ ImportSide]_pipelineVars => OnceInv'
  <2> SUFFICES ASSUME OnceInv, HarvestTypeOK, [HarvestSide \/ ImportSide]_pipelineVars
               PROVE  OnceInv'
    OBVIOUS
  <2>1. CASE ImportSide
    BY <2>1, OnceStep DEF ImportSide
  <2>2. CASE HarvestSide
    <3>1. ImporterInv /\ consumer.next \in Nat \ {0} /\ consumer.next <= Len(topic) + 1
      BY TopicKeys DEF OnceInv
    <3>2. /\ ImporterInv' /\ UNCHANGED <<job, consumer, importer, copies, review>>
          /\ Len(topic) \in Nat /\ DOMAIN topic = 1 .. Len(topic)
          /\ DOMAIN topic \subseteq DOMAIN topic'
          /\ \A p \in DOMAIN topic : topic'[p] = topic[p]
      BY <2>2, <3>1, ImporterLags
    <3>3. \A k \in Key : Once(k)' => Once(k)
      BY <3>2 DEF Once, Repeated
    <3>4. \A p \in 1 .. consumer.next - 1 : p \in DOMAIN topic
      BY <3>1, <3>2
    <3> QED BY <3>2, <3>3, <3>4 DEF OnceInv, InQueue
  <2>3. CASE UNCHANGED pipelineVars
    <3>1. ImporterInv'
      BY <2>3, ImporterInvStep DEF OnceInv
    <3> QED BY <2>3, <3>1 DEF OnceInv, InQueue, Once, Repeated, pipelineVars, importerVars, cat
  <2> QED BY <2>1, <2>2, <2>3
<1>3. OnceInv => InsertedOnce
  <2> SUFFICES ASSUME OnceInv, NEW k \in Key, ~(copies[k] <= 1), ~job.submit
               PROVE  ~job.ingest /\ Cardinality({p \in DOMAIN topic : topic[p].key = k}) > 1
    BY DEF InsertedOnce
  <2>1. ~Once(k)
    BY DEF OnceInv
  <2> QED BY <2>1, RepeatedCounts DEF Once, OnceInv
<1> QED BY <1>1, <1>2, <1>3, HarvestTypeCorrect, PTL DEF PipelineSpec

=============================================================================
