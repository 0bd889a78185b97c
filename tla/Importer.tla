------------------------------ MODULE Importer ------------------------------
(***************************************************************************)
(* An importer fed by Kafka: EntityImporter and KafkaJsonPusher of         *)
(* fatcat_tools/importers/common.py, with the importers that only insert   *)
(* (Crossref, Datacite, ingest results), and what they do to the catalog.  *)
(*                                                                         *)
(* There are two kinds of pending work: edits in the open editgroup (the   *)
(* containers a record names and the catalog lacks), published when enough *)
(* have gathered, and the queue of parsed entities, inserted as one batch. *)
(* Offsets of messages are stored while their entities are still pending.  *)
(*                                                                         *)
(* The API calls are atomic here; Catalog models them.  Nobody else edits  *)
(* these entities.                                                         *)
(***************************************************************************)
EXTENDS RecordTopic, FiniteSets, FiniteSetsExt, SequencesExt

CONSTANTS
    EditBatchSize,  \* edit_batch_size
    ConsumeBatch,   \* consume_batch_size
    MaxContainers,  \* bound on the containers created
    MaxImportDeaths

Ident == 1 .. MaxContainers

ASSUME ImporterAssumption ==
    /\ EditBatchSize \in Nat \ {0} /\ ConsumeBatch \in Nat \ {0}
    /\ MaxContainers \in Nat /\ MaxImportDeaths \in Nat

VARIABLES
    job,          \* which importer: ingest or not, submit_mode or not
    consumer,     \* message at hand, end of the batch, stored offset, offset
                  \* committed at the start
    importer,     \* the process: where it is, queue, editgroup, ISSN-L cache
    containers,   \* the containers created: journal, live or not
    copies,       \* how many live entities there are of a key
    named,        \* the containers that live entities name
    review,       \* entities in submitted editgroups
    forgotten,    \* auxiliary: keys that died in a queue, offset committed
    orphans,      \* auxiliary: containers left in the editgroup of a dead process
    importDeaths  \* auxiliary: counts up to MaxImportDeaths

cat == <<containers, copies, named, review>>
importerVars == <<job, topic, consumer, importer, cat, forgotten, orphans, importDeaths>>

NewProcess ==
    [at |-> "push", container |-> 0, queue |-> << >>, editgroup |-> {},
     cache |-> [j \in Journal |-> 0]]
ConsumerAt(k) == [next |-> k, end |-> k, stored |-> k, committed |-> k]

Live(c) == c \in DOMAIN containers /\ containers[c].live

ImporterTypeOK ==
    /\ job \in [ingest : BOOLEAN, submit : BOOLEAN]
    /\ topic \in Seq(Record)
    /\ consumer.committed <= consumer.stored /\ consumer.stored <= consumer.next
    /\ consumer.next <= consumer.end /\ consumer.end <= Len(topic) + 1
    /\ importer.at \in {"push", "update", "finishing"}
    /\ importer.container \in 0 .. Len(containers)
    /\ importer.queue \in Seq([key : Key, container : 0 .. Len(containers)])
    /\ Len(importer.queue) < EditBatchSize
    /\ importer.editgroup \in SUBSET (DOMAIN containers)
    /\ Cardinality(importer.editgroup) <= EditBatchSize
    /\ importer.cache \in [Journal -> 0 .. Len(containers)]
    /\ containers \in Seq([journal : Journal, live : BOOLEAN])
    /\ \A k \in Key : copies[k] \in Nat /\ review[k] \in Nat
    /\ named \in SUBSET (DOMAIN containers) /\ orphans \in SUBSET (DOMAIN containers)
    /\ forgotten \in SUBSET Key

ImporterInit ==
    /\ job \in {[ingest |-> FALSE, submit |-> FALSE], [ingest |-> TRUE, submit |-> FALSE],
                [ingest |-> TRUE, submit |-> TRUE]}
    /\ topic = << >>
    /\ consumer = ConsumerAt(1)
    /\ importer = NewProcess
    /\ containers = << >>
    /\ copies = [k \in Key |-> 0]
    /\ named = {}
    /\ review = [k \in Key |-> 0]
    /\ forgotten = {}
    /\ orphans = {}
    /\ importDeaths = 0

-----------------------------------------------------------------------------
(* Calls to the API. *)

\* accept_editgroup().
Accepted(editgroup) ==
    [c \in DOMAIN containers |->
        [containers[c] EXCEPT !.live = @ \/ c \in editgroup]]

\* How many entities of each key a batch holds.
Count(batch) ==
    [k \in Key |-> Cardinality({n \in DOMAIN batch : batch[n].key = k})]

\* insert_batch(): an auto-batch, accepted at once; or an editgroup that is
\* submitted for review.
InsertBatch(batch) ==
    /\ IF job.submit
       THEN /\ review' = [k \in Key |-> review[k] + Count(batch)[k]]
            /\ UNCHANGED <<copies, named>>
       ELSE /\ copies' = [k \in Key |-> copies[k] + Count(batch)[k]]
            /\ named' = (named \cup {batch[n].container : n \in DOMAIN batch}) \ {0}
            /\ UNCHANGED review

-----------------------------------------------------------------------------
(* push_record(), for the message at hand. *)

Pushing == importer.at = "push" /\ consumer.next < consumer.end
Message == topic[consumer.next]

\* The ident lookup_issnl() gives: cached, or of a live container.
Lookup(j) ==
    IF importer.cache[j] # 0 THEN importer.cache[j]
    ELSE LET found == {c \in DOMAIN containers :
                         containers[c].live /\ containers[c].journal = j}
         IN  IF found = {} THEN 0 ELSE Min(found)

\* Ingest results are of files; other records name a container.
NeedsContainer == ~job.ingest /\ Message.journal # NoJournal

\* get_editgroup_id() accepts the editgroup that is full before it opens one.
AcceptFullEditgroup ==
    /\ Pushing /\ NeedsContainer
    /\ Lookup(Message.journal) = 0
    /\ Cardinality(importer.editgroup) >= EditBatchSize
    /\ containers' = Accepted(importer.editgroup)
    /\ importer' = [importer EXCEPT !.editgroup = {}]
    /\ UNCHANGED <<job, topic, consumer, copies, named, review, forgotten,
                   orphans, importDeaths>>

\* Mutant of ParseRecord: the container created is not cached.
ParseUncached ==
    /\ Pushing
    /\ IF ~NeedsContainer
       THEN /\ importer' = [importer EXCEPT !.at = "update", !.container = 0]
            /\ UNCHANGED containers
       ELSE IF Lookup(Message.journal) # 0
       THEN /\ importer' = [importer EXCEPT !.at = "update",
                               !.container = Lookup(Message.journal)]
            /\ UNCHANGED containers
       ELSE /\ Cardinality(importer.editgroup) < EditBatchSize
            /\ Len(containers) < MaxContainers
            /\ containers' = Append(containers, [journal |-> Message.journal, live |-> FALSE])
            /\ importer' = [importer EXCEPT !.at = "update", !.container = Len(containers'),
                               !.editgroup = @ \cup {Len(containers')}]
    /\ UNCHANGED <<job, topic, consumer, copies, named, review, forgotten,
                   orphans, importDeaths>>

\* parse_record(): a container that is unknown is created in the editgroup.
ParseRecord ==
    /\ Pushing
    /\ IF ~NeedsContainer
       THEN /\ importer' = [importer EXCEPT !.at = "update", !.container = 0]
            /\ UNCHANGED containers
       ELSE IF Lookup(Message.journal) # 0
       THEN /\ importer' = [importer EXCEPT !.at = "update",
                               !.container = Lookup(Message.journal),
                               !.cache[Message.journal] = Lookup(Message.journal)]
            /\ UNCHANGED containers
       ELSE /\ Cardinality(importer.editgroup) < EditBatchSize
            /\ Len(containers) < MaxContainers
            /\ containers' = Append(containers, [journal |-> Message.journal, live |-> FALSE])
            /\ importer' = [importer EXCEPT !.at = "update", !.container = Len(containers'),
                               !.editgroup = @ \cup {Len(containers')},
                               !.cache[Message.journal] = Len(containers')]
    /\ UNCHANGED <<job, topic, consumer, copies, named, review, forgotten,
                   orphans, importDeaths>>

\* Mutant of WantsInsert: the queue is not looked into.
WantsUnqueued(k) == copies[k] = 0

\* try_update(): what exists is left alone; the ingest importers alone look
\* into the queue.
WantsInsert(k) ==
    /\ copies[k] = 0
    /\ job.ingest => \A n \in DOMAIN importer.queue : importer.queue[n].key # k

\* push_entity(): the queue is inserted when it is long enough.
PushEntity ==
    /\ importer.at = "update"
    /\ LET queue == Append(importer.queue,
                           [key |-> Message.key, container |-> importer.container])
       IN  IF ~WantsInsert(Message.key)
           THEN /\ importer' = [importer EXCEPT !.at = "push"]
                /\ UNCHANGED <<copies, named, review>>
           ELSE IF Len(queue) < EditBatchSize
           THEN /\ importer' = [importer EXCEPT !.at = "push", !.queue = queue]
                /\ UNCHANGED <<copies, named, review>>
           ELSE /\ importer' = [importer EXCEPT !.at = "push", !.queue = << >>]
                /\ InsertBatch(queue)
    /\ consumer' = [consumer EXCEPT !.next = @ + 1]
    /\ UNCHANGED <<job, topic, containers, forgotten, orphans, importDeaths>>

-----------------------------------------------------------------------------
(* KafkaJsonPusher.run *)

BetweenBatches == importer.at = "push" /\ consumer.stored = consumer.end

ConsumeMessages ==
    /\ BetweenBatches
    /\ \E n \in 1 .. ConsumeBatch :
          /\ consumer.end + n <= Len(topic) + 1
          /\ consumer' = [consumer EXCEPT !.end = @ + n]
    /\ UNCHANGED <<job, topic, importer, cat, forgotten, orphans, importDeaths>>

StoreOffsets ==
    /\ importer.at = "push"
    /\ consumer.next = consumer.end /\ consumer.stored < consumer.end
    /\ consumer' = [consumer EXCEPT !.stored = consumer.end]
    /\ UNCHANGED <<job, topic, importer, cat, forgotten, orphans, importDeaths>>

\* Five minutes with nothing to consume, or force_flush.
TimeToFlush == BetweenBatches /\ (consumer.stored = Len(topic) + 1 \/ job.ingest)

\* Mutant of FinishEditgroup: the editgroup is left open.
FinishUnaccepted ==
    /\ TimeToFlush
    /\ importer.editgroup # {}
    /\ importer' = [importer EXCEPT !.at = "finishing", !.editgroup = {}]
    /\ UNCHANGED <<job, topic, consumer, cat, forgotten, orphans, importDeaths>>

\* finish(): the editgroup first ...
FinishEditgroup ==
    /\ TimeToFlush
    /\ importer.editgroup # {}
    /\ containers' = Accepted(importer.editgroup)
    /\ importer' = [importer EXCEPT !.at = "finishing", !.editgroup = {}]
    /\ UNCHANGED <<job, topic, consumer, copies, named, review, forgotten,
                   orphans, importDeaths>>

\* Mutant of FinishQueue: the queue waits for an editgroup to finish.
FinishQueueAfterEdits ==
    /\ importer.at = "finishing"
    /\ importer' = [importer EXCEPT !.at = "push", !.queue = << >>]
    /\ InsertBatch(importer.queue)
    /\ UNCHANGED <<job, topic, consumer, containers, forgotten, orphans, importDeaths>>

\* ... then the queue.
FinishQueue ==
    /\ \/ importer.at = "finishing"
       \/ TimeToFlush /\ importer.editgroup = {} /\ importer.queue # << >>
    /\ importer' = [importer EXCEPT !.at = "push", !.queue = << >>]
    /\ InsertBatch(importer.queue)
    /\ UNCHANGED <<job, topic, consumer, containers, forgotten, orphans, importDeaths>>

\* Mutant of ImporterDies: the consumer committed what it has consumed.
DiesCommitted ==
    /\ importDeaths < MaxImportDeaths
    /\ importDeaths' = importDeaths + 1
    /\ consumer' = ConsumerAt(consumer.end)
    /\ orphans' = orphans \cup importer.editgroup
    /\ importer' = NewProcess
    /\ UNCHANGED <<job, topic, cat, forgotten>>

\* An API error raises out of run(), or a kill.  The queue is gone, and the
\* open editgroup is never accepted; the next process starts at the offset
\* the consumer's thread had committed.
ImporterDies ==
    /\ importDeaths < MaxImportDeaths
    /\ importDeaths' = importDeaths + 1
    /\ \E k \in consumer.committed .. consumer.stored :
          /\ consumer' = ConsumerAt(k)
          /\ forgotten' = forgotten \cup
                {q \in Key : /\ \E n \in DOMAIN importer.queue : importer.queue[n].key = q
                             /\ \A p \in k .. Len(topic) : topic[p].key # q}
    /\ orphans' = orphans \cup importer.editgroup
    /\ importer' = NewProcess
    /\ UNCHANGED <<job, topic, cat>>

\* A reviewer accepts a submitted editgroup (external).
ReviewerAccepts(k) ==
    /\ review[k] > 0
    /\ review' = [review EXCEPT ![k] = @ - 1]
    /\ copies' = [copies EXCEPT ![k] = @ + 1]
    /\ UNCHANGED <<job, topic, consumer, importer, containers, named, forgotten,
                   orphans, importDeaths>>

ImporterStep ==
    \/ AcceptFullEditgroup \/ ParseRecord \/ PushEntity
    \/ ConsumeMessages \/ StoreOffsets
    \/ FinishEditgroup \/ FinishQueue

ImporterNext ==
    \/ ImporterStep \/ ImporterDies
    \/ \E k \in Key : ReviewerAccepts(k)

\* The pusher's loop goes on, and is started again when it died.
ImporterFairness == WF_importerVars(ImporterStep)

-----------------------------------------------------------------------------
\* A record whose offset is stored is live, under review, still in the queue
\* or in a later message, or was in the queue of a process that died (the comment at common.py:766).
RecordsKept ==
    \A p \in 1 .. consumer.stored - 1 :
        LET k == topic[p].key
        IN  \/ copies[k] > 0 \/ review[k] > 0 \/ k \in forgotten
            \/ \E n \in DOMAIN importer.queue : importer.queue[n].key = k
            \/ \E q \in consumer.stored .. Len(topic) : topic[q].key = k

\* Messages delivered again insert nothing twice.  The importers that do not
\* look into their queue rely on the topic not to repeat a key.
InsertedOnce ==
    \A k \in Key :
        \/ copies[k] <= 1
        \/ job.submit
        \/ ~job.ingest /\ Cardinality({p \in DOMAIN topic : topic[p].key = k}) > 1

\* A live release is published before the container it names; that container
\* is in the open editgroup until then, or was left by a process that died.
ContainersPublished ==
    \A c \in named : Live(c) \/ c \in importer.editgroup \/ c \in orphans

\* However often processes die between creating a container and accepting it,
\* a journal is published once.
OneContainerPerJournal ==
    \A c, d \in DOMAIN containers :
        Live(c) /\ Live(d) /\ containers[c].journal = containers[d].journal => c = d

\* Every record is eventually live or before a reviewer, unless a process died
\* with it in its queue.
RecordsImported ==
    \A k \in Key :
        (\E p \in DOMAIN topic : topic[p].key = k)
            ~> (copies[k] > 0 \/ review[k] > 0 \/ k \in forgotten)

=============================================================================
