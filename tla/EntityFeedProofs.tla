-------------------------- MODULE EntityFeedProofs --------------------------
(***************************************************************************)
(* Theorems about EntityFeed, for any entities, entries, batches and       *)
(* deaths of the workers.                                                  *)
(***************************************************************************)
EXTENDS EntityFeed, SequenceTheorems, TLAPS

-----------------------------------------------------------------------------
(* Type correctness. *)

\* The worker is at the entry its consumer is at, or it has nothing at hand.
WorkerOK ==
    /\ worker.entry = 0 => worker = Idle /\ buffer = NoMessages
    /\ worker.entry # 0 => /\ worker.entry = offset.stored
                           /\ worker.entry <= Len(log)
                           /\ worker.holders \subseteq log[worker.entry].edits

\* A sequence put after another.
LEMMA Concatenated ==
    ASSUME NEW S, NEW a \in Seq(S), NEW b \in Seq(S), NEW c, c = a \o b
    PROVE  /\ c \in Seq(S)
           /\ Len(c) = Len(a) + Len(b)
           /\ Len(a) <= Len(c)
           /\ \A p \in 1 .. Len(a) : c[p] = a[p]
           /\ \A p \in 1 .. Len(b) : c[Len(a) + p] = b[p]
<1>1. Len(a) \in Nat /\ Len(b) \in Nat
  BY LenProperties
<1>2. c \in Seq(S) /\ Len(c) = Len(a) + Len(b)
  BY ConcatProperties
<1>3. \A p \in 1 .. Len(c) : c[p] = IF p <= Len(a) THEN a[p] ELSE b[p - Len(a)]
  BY <1>2, ConcatProperties
<1>4. Len(a) <= Len(c)
  BY <1>1, <1>2
<1>5. \A p \in 1 .. Len(a) : c[p] = a[p]
  BY <1>1, <1>2, <1>3
<1>6. ASSUME NEW p \in 1 .. Len(b) PROVE c[Len(a) + p] = b[p]
  <2>1. Len(a) + p \in 1 .. Len(c) /\ ~(Len(a) + p <= Len(a)) /\ (Len(a) + p) - Len(a) = p
    BY <1>1, <1>2
  <2> QED
    BY <1>3, <2>1
<1> QED
  BY <1>2, <1>4, <1>5, <1>6

\* What the API shows of an entity is a document.
LEMMA DocumentType ==
    ASSUME EntityTypeOK, NEW e \in Entity
    PROVE  Document(e) \in Documents
BY DEF EntityTypeOK, Document, Documents, Holders, Links, Holder

\* A message produced is one more at the end of its topic's queue.
LEMMA ProducedType ==
    ASSUME EntityTypeOK, NEW e \in Entity
    PROVE  Produced(e) \in [Indexed -> Seq(Documents)]
<1>1. Document(e) \in Documents
  BY DocumentType
<1>2. buffer.docs \in [Indexed -> Seq(Documents)]
  BY DEF EntityTypeOK, Messages
<1> HIDE DEF Documents
<1> QED
  BY <1>1, <1>2 DEF Produced

\* Nothing delivered or everything delivered, the topics are well-formed.
LEMMA DeliverType ==
    ASSUME EntityTypeOK, NEW sent \in Messages, Deliver(sent)
    PROVE  /\ topic' \in [Indexed -> Seq(Documents)]
           /\ requested' \subseteq Release
           /\ \A t \in Indexed : Len(topic'[t]) = Len(topic[t]) + Len(sent.docs[t])
           /\ \A t \in Indexed : Len(topic[t]) <= Len(topic'[t])
<1>1. /\ topic \in [Indexed -> Seq(Documents)] /\ sent.docs \in [Indexed -> Seq(Documents)]
      /\ requested \subseteq Release /\ sent.ingest \subseteq Release
  BY DEF EntityTypeOK, Messages
<1> HIDE DEF Documents
<1>2. ASSUME NEW t \in Indexed
      PROVE  /\ topic'[t] \in Seq(Documents)
             /\ Len(topic'[t]) = Len(topic[t]) + Len(sent.docs[t])
             /\ Len(topic[t]) <= Len(topic'[t])
  <2>1. topic[t] \in Seq(Documents) /\ sent.docs[t] \in Seq(Documents)
    BY <1>1
  <2>2. topic'[t] = topic[t] \o sent.docs[t]
    BY DEF Deliver
  <2>3. PICK a, b, c : a = topic[t] /\ b = sent.docs[t] /\ c = topic'[t]
    OBVIOUS
  <2>4. a \in Seq(Documents) /\ b \in Seq(Documents) /\ c = a \o b
    BY <2>1, <2>2, <2>3
  <2>5. c \in Seq(Documents) /\ Len(c) = Len(a) + Len(b) /\ Len(a) <= Len(c)
    BY <2>4, Concatenated
  <2> QED
    BY <2>3, <2>5
<1> QED
  BY <1>1, <1>2 DEF Deliver

\* What had reached the topics when the worker died is of what it had produced.
LEMMA DeliverSomeIs ==
    ASSUME EntityTypeOK, DeliverSome
    PROVE  \E sent \in Messages :
              /\ Deliver(sent)
              /\ \A t \in Indexed : \E n \in 0 .. Len(buffer.docs[t]) :
                    sent.docs[t] = SubSeq(buffer.docs[t], 1, n)
<1>1. PICK n \in [Indexed -> 0 .. Cardinality(Entity)],
           ingest \in SUBSET buffer.ingest, done \in SUBSET buffer.works :
          /\ \A t \in Indexed : n[t] <= Len(buffer.docs[t])
          /\ Deliver([docs   |-> [t \in Indexed |-> SubSeq(buffer.docs[t], 1, n[t])],
                      ingest |-> ingest,
                      works  |-> done])
  BY DEF DeliverSome
<1> DEFINE docs == [t \in Indexed |-> SubSeq(buffer.docs[t], 1, n[t])]
<1>2. /\ buffer.docs \in [Indexed -> Seq(Documents)]
      /\ buffer.ingest \subseteq Release /\ buffer.works \subseteq Release
  BY DEF EntityTypeOK, Messages
<1>3. \A t \in Indexed : n[t] \in 0 .. Len(buffer.docs[t])
  BY <1>1, <1>2, LenProperties
<1>4. docs \in [Indexed -> Seq(Documents)]
  <2> HIDE DEF Documents
  <2>1. ASSUME NEW t \in Indexed PROVE SubSeq(buffer.docs[t], 1, n[t]) \in Seq(Documents)
    BY <1>2, <1>3, SubSeqProperties
  <2> QED
    BY <2>1
<1>5. [docs |-> docs, ingest |-> ingest, works |-> done] \in Messages
  BY <1>2, <1>4 DEF Messages
<1> QED
  BY <1>1, <1>3, <1>5

\* Everything starts well-formed.
LEMMA EntityTypeInit == EntityInit => EntityTypeOK /\ WorkerOK
<1> SUFFICES ASSUME EntityInit PROVE EntityTypeOK /\ WorkerOK
  OBVIOUS
<1> USE EntityFeedAssumption
<1>1. catalog \in [Entity -> [state : {"wip", "active", "gone"}, rev : 0 .. MaxEntries,
                              links : SUBSET Release]]
  BY DEF EntityInit
<1>2. NoMessages \in Messages /\ [t \in Indexed |-> << >>] \in [Indexed -> Seq(Documents)]
  BY DEF NoMessages, Messages
<1>3. Fresh \in Offsets
  BY DEF Fresh, Offsets
<1>4. log \in Seq(Entries) /\ Len(log) = 0
  BY DEF EntityInit
<1>5. worker \in [entry : 0 .. Len(log), holders : SUBSET Holder,
                  containers : SUBSET Container, releases : SUBSET Release]
  BY <1>4 DEF EntityInit, Idle
<1>6. \A t \in Indexed : es[t].committed <= es[t].stored /\ es[t].stored <= Len(topic[t]) + 1
  BY DEF EntityInit, Fresh
<1>7. offset.committed <= offset.stored /\ offset.stored <= Len(log) + 1
  BY <1>4 DEF EntityInit, Fresh
<1>8. es \in [Indexed -> Offsets] /\ offset \in Offsets
  BY <1>3 DEF EntityInit
<1> HIDE DEF Offsets, Messages, Documents
<1>9. EntityTypeOK
  BY <1>1, <1>2, <1>4, <1>5, <1>6, <1>7, <1>8 DEF EntityInit, EntityTypeOK
<1>10. WorkerOK
  BY DEF EntityInit, WorkerOK, Idle
<1> QED
  BY <1>9, <1>10

\* An accept appends a well-formed entry and leaves the older ones.
LEMMA AcceptType ==
    ASSUME EntityTypeOK, WorkerOK, Accept
    PROVE  EntityTypeOK' /\ WorkerOK'
<1> USE EntityFeedAssumption
<1>1. PICK changed \in SUBSET Entity : \E edits \in [changed -> UNION {Edit(e) : e \in changed}],
                                          byOther \in BOOLEAN :
          /\ \A e \in changed : edits[e] \in Edit(e)
          /\ Publish(edits, byOther)
  BY DEF Accept
<1>2. PICK edits \in [changed -> UNION {Edit(e) : e \in changed}], byOther \in BOOLEAN :
          /\ \A e \in changed : edits[e] \in Edit(e)
          /\ Publish(edits, byOther)
  BY <1>1
<1>3. Len(log) \in Nat /\ Len(log) < MaxEntries
  BY <1>2 DEF EntityTypeOK, Publish
<1>4. ASSUME NEW e \in changed
      PROVE  edits[e].state \in {"active", "gone"} /\ edits[e].links \in SUBSET Release
  BY <1>2 DEF Edit
<1>5. catalog' \in [Entity -> [state : {"wip", "active", "gone"}, rev : 0 .. MaxEntries,
                               links : SUBSET Release]]
  BY <1>2, <1>3, <1>4 DEF Publish, EntityTypeOK
<1>6. PICK entry : log' = Append(log, entry) /\ entry \in Entries
  <2>1. \E new : new \subseteq Release /\ log' = Append(log, [edits |-> changed, new |-> new])
    BY <1>2 DEF Publish
  <2>2. PICK new : new \subseteq Release /\ log' = Append(log, [edits |-> changed, new |-> new])
    BY <2>1
  <2>3. [edits |-> changed, new |-> new] \in Entries
    BY <2>2 DEF Entries
  <2> QED
    BY <2>2, <2>3
<1>7. /\ log \in Seq(Entries) /\ log' \in Seq(Entries) /\ Len(log') = Len(log) + 1
      /\ \A i \in 1 .. Len(log) : log'[i] = log[i]
  <2> HIDE DEF Entries
  <2> QED
    BY <1>6 DEF EntityTypeOK
<1>8. unlinked' \subseteq Release
  <2>1. \A h \in changed : Links(h) \subseteq Release
    BY DEF Links, EntityTypeOK
  <2> QED
    BY <1>2, <2>1 DEF Publish, EntityTypeOK
<1>9. UNCHANGED <<meta, updates, es, index, crashes>>
  BY <1>2 DEF Publish
<1>10. worker \in [entry : 0 .. Len(log'), holders : SUBSET Holder,
                   containers : SUBSET Container, releases : SUBSET Release]
  BY <1>3, <1>7 DEF EntityTypeOK
<1>11. offset.stored <= Len(log') + 1
  BY <1>3, <1>7 DEF EntityTypeOK, Offsets
<1> HIDE DEF Entries, Documents, Messages, Offsets
<1>12. EntityTypeOK'
  BY <1>3, <1>5, <1>7, <1>8, <1>9, <1>10, <1>11 DEF EntityTypeOK, updates
<1>13. WorkerOK'
  <2>1. worker.entry \in 0 .. Len(log)
    BY DEF EntityTypeOK
  <2>2. worker.entry # 0 => worker.entry \in 1 .. Len(log) /\ log'[worker.entry] = log[worker.entry]
    BY <1>3, <1>7, <2>1
  <2> QED
    BY <1>3, <1>7, <1>9, <2>1, <2>2 DEF WorkerOK, updates
<1> QED
  BY <1>12, <1>13

\* The worker's handling of an entry, one fetch at a time, is well-formed.
LEMMA UpdatesStepType ==
    ASSUME EntityTypeOK, WorkerOK, UpdatesStep
    PROVE  EntityTypeOK' /\ WorkerOK'
<1> DEFINE WorkerType == [entry : 0 .. Len(log), holders : SUBSET Holder,
                          containers : SUBSET Container, releases : SUBSET Release]
<1>1. worker \in WorkerType /\ Len(log) \in Nat
  BY DEF EntityTypeOK
<1>2. ASSUME UNCHANGED <<catalog, meta, log, offset, topic, requested, works, es,
                         index, unlinked, crashes>>,
             worker' \in WorkerType, buffer' \in Messages, worker'.entry = worker.entry,
             worker.entry # 0, worker'.holders \subseteq worker.holders
      PROVE  EntityTypeOK' /\ WorkerOK'
  <2>1. EntityTypeOK'
    <3> HIDE DEF Messages, Offsets, Documents, Entries
    <3> QED
      BY <1>2 DEF EntityTypeOK
  <2> QED
    BY <1>2, <2>1 DEF WorkerOK
<1>3. ASSUME NEW e \in Entity PROVE [buffer EXCEPT !.docs = Produced(e)] \in Messages
  <2>1. Produced(e) \in [Indexed -> Seq(Documents)] /\ buffer \in Messages
    BY ProducedType DEF EntityTypeOK
  <2> HIDE DEF Documents
  <2> QED
    BY <2>1 DEF Messages
<1>4. CASE PollEntry
  <2>1. offset.stored \in 1 .. Len(log)
    BY <1>1, <1>4 DEF PollEntry, EntityTypeOK, Offsets
  <2>2. worker' = [entry |-> offset.stored, holders |-> log[offset.stored].edits \cap Holder,
                   containers |-> log[offset.stored].edits \cap Container,
                   releases |-> log[offset.stored].edits \cap Release]
    BY <1>4 DEF PollEntry
  <2>3. worker' \in WorkerType
    BY <1>1, <2>1, <2>2
  <2>4. /\ UNCHANGED <<catalog, meta, log, offset, buffer, topic, requested, works, es,
                       index, unlinked, crashes>>
    BY <1>4 DEF PollEntry
  <2>5. EntityTypeOK'
    <3> HIDE DEF Messages, Offsets, Documents, Entries
    <3> QED
      BY <2>3, <2>4 DEF EntityTypeOK
  <2>6. WorkerOK'
    BY <2>1, <2>2, <2>4 DEF WorkerOK
  <2> QED
    BY <2>5, <2>6
<1>5. ASSUME NEW h \in Holder, FetchHolder(h) PROVE EntityTypeOK' /\ WorkerOK'
  <2>1. worker.entry # 0
    BY <1>5 DEF FetchHolder, WorkerOK, Idle
  <2>2. worker' = [worker EXCEPT !.holders = @ \ {h}, !.releases = @ \cup catalog[h].links]
    BY <1>5 DEF FetchHolder
  <2>3. catalog[h].links \subseteq Release
    BY DEF EntityTypeOK, Entity
  <2>4. /\ worker' \in WorkerType /\ worker'.entry = worker.entry
        /\ worker'.holders \subseteq worker.holders
    BY <1>1, <2>2, <2>3
  <2>5. buffer' \in Messages
    BY <1>3, <1>5 DEF FetchHolder, EntityTypeOK, Entity
  <2> HIDE DEF WorkerType
  <2> QED
    BY <1>2, <1>5, <2>1, <2>4, <2>5 DEF FetchHolder
<1>6. ASSUME NEW c \in Container, FetchContainer(c) PROVE EntityTypeOK' /\ WorkerOK'
  <2>1. worker.entry # 0
    BY <1>6 DEF FetchContainer, WorkerOK, Idle
  <2>2. worker' = [worker EXCEPT !.containers = @ \ {c}]
    BY <1>6 DEF FetchContainer
  <2>3. /\ worker' \in WorkerType /\ worker'.entry = worker.entry
        /\ worker'.holders \subseteq worker.holders
    BY <1>1, <2>2
  <2>4. buffer' \in Messages
    BY <1>3, <1>6 DEF FetchContainer, Entity
  <2> HIDE DEF WorkerType
  <2> QED
    BY <1>2, <1>6, <2>1, <2>3, <2>4 DEF FetchContainer
<1>7. ASSUME NEW r \in Release, FetchRelease(r) PROVE EntityTypeOK' /\ WorkerOK'
  <2>1. worker.entry # 0
    BY <1>7 DEF FetchRelease, WorkerOK, Idle
  <2>2. worker' = [worker EXCEPT !.releases = @ \ {r}]
    BY <1>7 DEF FetchRelease
  <2>3. /\ worker' \in WorkerType /\ worker'.entry = worker.entry
        /\ worker'.holders \subseteq worker.holders
    BY <1>1, <2>2
  <2>4. buffer' \in Messages
    <3>1. \E ingest, done : /\ buffer' = [docs |-> Produced(r), ingest |-> ingest, works |-> done]
                            /\ ingest \in {buffer.ingest, buffer.ingest \cup {r}}
                            /\ done \in {buffer.works, buffer.works \cup {r}}
      BY <1>7 DEF FetchRelease
    <3>2. Produced(r) \in [Indexed -> Seq(Documents)]
      BY ProducedType DEF Entity
    <3>3. buffer.ingest \subseteq Release /\ buffer.works \subseteq Release
      BY DEF EntityTypeOK, Messages
    <3> HIDE DEF Documents
    <3> QED
      BY <3>1, <3>2, <3>3 DEF Messages
  <2> HIDE DEF WorkerType
  <2> QED
    BY <1>2, <1>7, <2>1, <2>3, <2>4 DEF FetchRelease
<1>8. CASE FlushAndStore
  <2>1. buffer \in Messages /\ Deliver(buffer)
    BY <1>8 DEF FlushAndStore, EntityTypeOK
  <2>2. /\ topic' \in [Indexed -> Seq(Documents)] /\ requested' \subseteq Release
        /\ \A t \in Indexed : Len(topic[t]) <= Len(topic'[t])
    BY <2>1, DeliverType
  <2>3. worker' = Idle /\ buffer' = NoMessages /\ UNCHANGED <<catalog, meta, log, es, unlinked, crashes>>
    BY <1>8 DEF FlushAndStore
  <2>4. Idle \in WorkerType /\ NoMessages \in Messages
    BY <1>1 DEF Idle, NoMessages, Messages
  <2>5. offset' \in Offsets /\ offset'.committed <= offset'.stored /\ offset'.stored <= Len(log) + 1
    <3>1. offset.stored <= Len(log) /\ offset \in Offsets /\ offset.committed <= offset.stored
      BY <1>8 DEF FlushAndStore, WorkerOK, EntityTypeOK
    <3>2. offset' = [offset EXCEPT !.stored = @ + 1]
      BY <1>8 DEF FlushAndStore
    <3> QED
      BY <1>1, <3>1, <3>2 DEF Offsets
  <2>6. \A t \in Indexed : es[t].committed <= es[t].stored /\ es[t].stored <= Len(topic'[t]) + 1
    <3>1. ASSUME NEW t \in Indexed PROVE es[t].stored <= Len(topic'[t]) + 1
      <4>1. es[t].stored \in Nat /\ es[t].stored <= Len(topic[t]) + 1
        BY DEF EntityTypeOK, Offsets
      <4>2. Len(topic[t]) \in Nat /\ Len(topic'[t]) \in Nat
        BY <2>2, LenProperties DEF EntityTypeOK
      <4> QED
        BY <2>2, <4>1, <4>2
    <3> QED
      BY <3>1 DEF EntityTypeOK
  <2> HIDE DEF Messages, Offsets, Documents, Entries
  <2>7. EntityTypeOK'
    BY <2>2, <2>3, <2>4, <2>5, <2>6 DEF EntityTypeOK
  <2>8. WorkerOK'
    BY <2>3 DEF WorkerOK, Idle
  <2> QED
    BY <2>7, <2>8
<1> QED
  BY <1>4, <1>5, <1>6, <1>7, <1>8 DEF UpdatesStep

\* A death of the updates worker takes it back to an offset it had stored.
LEMMA DieType ==
    ASSUME EntityTypeOK, WorkerOK, Die
    PROVE  EntityTypeOK' /\ WorkerOK'
<1>1. PICK sent \in Messages : Deliver(sent)
  BY DeliverSomeIs DEF Die
<1>2. /\ topic' \in [Indexed -> Seq(Documents)] /\ requested' \subseteq Release
      /\ \A t \in Indexed : Len(topic[t]) <= Len(topic'[t])
  BY <1>1, DeliverType
<1>3. PICK k \in offset.committed .. offset.stored : offset' = [stored |-> k, committed |-> k]
  BY DEF Die
<1>4. /\ worker' = Idle /\ buffer' = NoMessages /\ crashes' = crashes + 1 /\ crashes < MaxCrashes
      /\ UNCHANGED <<catalog, meta, log, es, index, unlinked>>
  BY DEF Die
<1>5. /\ Idle \in [entry : 0 .. Len(log), holders : SUBSET Holder,
                   containers : SUBSET Container, releases : SUBSET Release]
      /\ NoMessages \in Messages
  BY DEF Idle, NoMessages, Messages, EntityTypeOK
<1>6. offset' \in Offsets /\ offset'.committed <= offset'.stored /\ offset'.stored <= Len(log) + 1
  <2>1. /\ offset.committed \in Nat \ {0} /\ offset.stored \in Nat \ {0}
        /\ offset.stored <= Len(log) + 1 /\ Len(log) \in Nat
    BY DEF EntityTypeOK, Offsets
  <2>2. k \in Nat \ {0} /\ k <= Len(log) + 1
    BY <2>1
  <2> QED
    BY <1>3, <2>2 DEF Offsets
<1>7. ASSUME NEW t \in Indexed PROVE es[t].stored <= Len(topic'[t]) + 1
  <2>1. es[t].stored \in Nat /\ es[t].stored <= Len(topic[t]) + 1
    BY DEF EntityTypeOK, Offsets
  <2>2. Len(topic[t]) \in Nat /\ Len(topic'[t]) \in Nat
    BY <1>2, LenProperties DEF EntityTypeOK
  <2> QED
    BY <1>2, <2>1, <2>2
<1>8. crashes' \in 0 .. MaxCrashes
  BY <1>4, EntityFeedAssumption DEF EntityTypeOK
<1> HIDE DEF Messages, Offsets, Documents, Entries
<1>9. EntityTypeOK'
  BY <1>2, <1>4, <1>5, <1>6, <1>7, <1>8 DEF EntityTypeOK
<1>10. WorkerOK'
  BY <1>4 DEF WorkerOK, Idle
<1> QED
  BY <1>9, <1>10

\* A batch indexed, or a death of the indexer, moves its offset within its topic.
LEMMA IndexerType ==
    ASSUME EntityTypeOK, WorkerOK, NEW t \in Indexed, IndexBatch(t) \/ EsDie(t)
    PROVE  EntityTypeOK' /\ WorkerOK'
<1>1. /\ es[t].stored \in Nat \ {0} /\ es[t].committed \in Nat \ {0}
      /\ es[t].committed <= es[t].stored
      /\ es[t].stored <= Len(topic[t]) + 1 /\ Len(topic[t]) \in Nat
      /\ es \in [Indexed -> Offsets]
  <2>1. topic[t] \in Seq(Documents) /\ es[t] \in Offsets
    BY DEF EntityTypeOK
  <2>2. Len(topic[t]) \in Nat
    BY <2>1, LenProperties
  <2> QED
    BY <2>1, <2>2 DEF EntityTypeOK, Offsets
<1>2. ASSUME NEW o \in Offsets, es' = [es EXCEPT ![t] = o], crashes' \in 0 .. MaxCrashes,
             o.committed <= o.stored, o.stored <= Len(topic[t]) + 1
      PROVE  EntityTypeOK' /\ WorkerOK'
  <2>1. UNCHANGED <<catalog, meta, log, updates, unlinked>>
    BY DEF IndexBatch, EsDie
  <2>2. es' \in [Indexed -> Offsets]
    BY <1>1, <1>2
  <2>3. ASSUME NEW u \in Indexed
        PROVE  es'[u].committed <= es'[u].stored /\ es'[u].stored <= Len(topic[u]) + 1
    <3>1. CASE u = t
      BY <1>1, <1>2, <3>1
    <3>2. CASE u # t
      BY <1>1, <1>2, <3>2 DEF EntityTypeOK
    <3> QED
      BY <3>1, <3>2
  <2> HIDE DEF Messages, Offsets, Documents, Entries
  <2>4. EntityTypeOK'
    BY <1>2, <2>1, <2>2, <2>3 DEF EntityTypeOK, updates
  <2> QED
    BY <2>1, <2>4 DEF WorkerOK, updates
<1>3. CASE IndexBatch(t)
  <2>1. PICK n \in Batch(t) : es' = [es EXCEPT ![t].stored = @ + n]
    BY <1>3 DEF IndexBatch
  <2>2. n \in Nat /\ es[t].stored + n <= Len(topic[t]) + 1
    BY <2>1, EntityFeedAssumption DEF Batch
  <2> DEFINE o == [stored |-> es[t].stored + n, committed |-> es[t].committed]
  <2>3. o \in Offsets /\ o.committed <= o.stored /\ o.stored <= Len(topic[t]) + 1
    BY <1>1, <2>2 DEF Offsets
  <2>4. es' = [es EXCEPT ![t] = o]
    <3>1. [es[t] EXCEPT !.stored = @ + n] = o
      BY <1>1 DEF Offsets
    <3> QED
      BY <2>1, <3>1
  <2>5. crashes' \in 0 .. MaxCrashes
    BY <1>3 DEF IndexBatch, EntityTypeOK
  <2> HIDE DEF o
  <2> QED
    BY <1>2, <2>3, <2>4, <2>5
<1>4. CASE EsDie(t)
  <2>1. PICK k \in es[t].committed .. es[t].stored :
           es' = [es EXCEPT ![t] = [stored |-> k, committed |-> k]]
    BY <1>4 DEF EsDie
  <2>2. k \in Nat \ {0} /\ k <= Len(topic[t]) + 1
    BY <1>1, <2>1
  <2> DEFINE o == [stored |-> k, committed |-> k]
  <2>3. o \in Offsets /\ o.committed <= o.stored /\ o.stored <= Len(topic[t]) + 1
    BY <2>2 DEF Offsets
  <2>4. crashes' \in 0 .. MaxCrashes
    BY <1>4, EntityFeedAssumption DEF EsDie, EntityTypeOK
  <2> HIDE DEF o
  <2> QED
    BY <1>2, <2>1, <2>3, <2>4 DEF o
<1> QED
  BY <1>3, <1>4

\* Every step keeps the feed well-formed.
LEMMA EntityTypeNext ==
    ASSUME EntityTypeOK, WorkerOK, [EntityNext]_entityVars
    PROVE  EntityTypeOK' /\ WorkerOK'
<1>1. CASE UNCHANGED entityVars
  BY <1>1 DEF entityVars, updates, EntityTypeOK, WorkerOK
<1> QED
  BY <1>1, AcceptType, UpdatesStepType, DieType, IndexerType DEF EntityNext

\* They hold of every reachable state.
LEMMA EntityTypeAlways == EntitySpec => [](EntityTypeOK /\ WorkerOK)
BY EntityTypeInit, EntityTypeNext, PTL DEF EntitySpec

\* Whatever is published and whichever worker dies, the workers' offsets stay
\* within their topics and what they produce and index is well-formed.
THEOREM EntityTypeCorrect == EntitySpec => []EntityTypeOK
BY EntityTypeAlways, PTL

-----------------------------------------------------------------------------
(* No update of a release is lost. *)

\* What the producer still has to send to the indexed topic of releases.
Queue == buffer.docs["release"]

\* The newest document of its entity in s is d, at p.
NewestAt(s, p, d) ==
    /\ p \in DOMAIN s /\ s[p] = d
    /\ \A q \in p + 1 .. Len(s) : s[q].ident # d.ident

\* A release that the entry at hand makes the worker produce is still to be
\* fetched, or was fetched as it is now, or is the matter of a later entry too.
AtHand(r) ==
    worker.entry # 0 /\ Covers(worker.entry, r) =>
        \/ r \in worker.releases
        \/ \E h \in worker.holders : r \in catalog[h].links
        \/ \E p \in DOMAIN Queue : NewestAt(Queue, p, Document(r))
        \/ \E i \in worker.entry + 1 .. Len(log) : Covers(i, r)
        \/ r \in unlinked

\* The worker fetches and sends no release without an entry it would do it
\* again for: what it sends before a death makes nothing out of date for good.
Justified(r) ==
    (r \in worker.releases \/ \E p \in DOMAIN Queue : Queue[p].ident = r)
        => r \in unlinked \/ RedoneByUpdates(r)

\* The document of r in the index is right or will be.
UpToDate(r) ==
    \/ catalog[r].state = "wip"
    \/ r \in unlinked
    \/ RedoneByUpdates(r)
    \/ RedoneByIndexer(r)
    \/ Untouched(r)

UpdatesInv ==
    "release" \in Indexed => \A r \in Release : UpToDate(r) /\ AtHand(r) /\ Justified(r)

\* A topic of another type says nothing of a release.
Routed ==
    \A t \in Indexed \ {"release"} :
        /\ \A p \in DOMAIN topic[t] : topic[t][p].ident \notin Release
        /\ \A p \in DOMAIN buffer.docs[t] : buffer.docs[t][p].ident \notin Release

\* One more message: the older ones stay where they are.
LEMMA OneMore ==
    ASSUME NEW S, NEW a \in Seq(S), NEW d \in S, NEW c, c = Append(a, d)
    PROVE  /\ Len(a) \in Nat /\ Len(c) = Len(a) + 1
           /\ DOMAIN a = 1 .. Len(a) /\ DOMAIN c = 1 .. Len(a) + 1
           /\ \A p \in 1 .. Len(a) : c[p] = a[p]
           /\ c[Len(a) + 1] = d
<1>1. Len(a) \in Nat /\ DOMAIN a = 1 .. Len(a)
  BY LenProperties
<1>2. /\ c \in Seq(S) /\ Len(c) = Len(a) + 1
      /\ \A p \in 1 .. Len(a) : c[p] = a[p]
      /\ c[Len(a) + 1] = d
  BY AppendProperties
<1> QED
  BY <1>1, <1>2, LenProperties

\* The types of idents decide the topics.
LEMMA TopicOfs ==
    /\ \A r \in Release : r \in Entity /\ TopicOf(r) = "release"
    /\ \A h \in Holder : h \in Entity /\ h \notin Release /\ TopicOf(h) = "file"
    /\ \A c \in Container : c \in Entity /\ c \notin Release /\ TopicOf(c) = "container"
BY EntityFeedAssumption DEF TopicOf, Entity

\* What is produced is about its own entity.
LEMMA RoutedProduced ==
    ASSUME EntityTypeOK, Routed, NEW e \in Entity,
           NEW t \in Indexed \ {"release"}, NEW p \in DOMAIN Produced(e)[t]
    PROVE  Produced(e)[t][p].ident \notin Release
<1>1. buffer.docs[t] \in Seq(Documents) /\ Document(e) \in Documents
  BY DocumentType DEF EntityTypeOK, Messages
<1>2. CASE t = TopicOf(e)
  <2>1. PICK a, d, c : a = buffer.docs[t] /\ d = Document(e) /\ c = Produced(e)[t]
    OBVIOUS
  <2>2. c = Append(a, d)
    BY <1>2, <2>1 DEF Produced
  <2>3. d.ident \notin Release
    BY <1>2, <2>1, TopicOfs DEF Document
  <2>4. a \in Seq(Documents) /\ d \in Documents
    BY <1>1, <2>1
  <2>5. /\ Len(a) \in Nat /\ DOMAIN a = 1 .. Len(a) /\ DOMAIN c = 1 .. Len(a) + 1
        /\ \A q \in 1 .. Len(a) : c[q] = a[q]
        /\ c[Len(a) + 1] = d
    BY <2>2, <2>4, OneMore
  <2>6. \A q \in DOMAIN a : a[q].ident \notin Release
    BY <2>1 DEF Routed
  <2>7. p \in DOMAIN c
    BY <2>1
  <2>8. p \in DOMAIN a \/ p = Len(a) + 1
    BY <2>5, <2>7
  <2>9. c[p].ident \notin Release
    BY <2>3, <2>5, <2>6, <2>8
  <2> QED
    BY <2>1, <2>9
<1>3. CASE t # TopicOf(e)
  BY <1>3 DEF Produced, Routed
<1> QED
  BY <1>2, <1>3

\* Nor is what is delivered, of what was produced.
LEMMA RoutedDelivered ==
    ASSUME EntityTypeOK, Routed, NEW sent \in Messages, Deliver(sent),
           \A t \in Indexed : \A p \in DOMAIN sent.docs[t] :
              p \in DOMAIN buffer.docs[t] /\ sent.docs[t][p] = buffer.docs[t][p],
           NEW t \in Indexed \ {"release"}, NEW p \in DOMAIN topic'[t]
    PROVE  topic'[t][p].ident \notin Release
<1>1. topic[t] \in Seq(Documents) /\ sent.docs[t] \in Seq(Documents)
  BY DEF EntityTypeOK, Messages
<1>2. PICK a, b, c : a = topic[t] /\ b = sent.docs[t] /\ c = topic'[t]
  OBVIOUS
<1>3. a \in Seq(Documents) /\ b \in Seq(Documents) /\ c = a \o b
  BY <1>1, <1>2 DEF Deliver
<1>4. /\ c \in Seq(Documents) /\ Len(c) = Len(a) + Len(b)
      /\ \A q \in 1 .. Len(a) : c[q] = a[q]
      /\ \A q \in 1 .. Len(b) : c[Len(a) + q] = b[q]
  BY <1>3, Concatenated
<1>5. /\ Len(a) \in Nat /\ Len(b) \in Nat /\ DOMAIN a = 1 .. Len(a)
      /\ DOMAIN b = 1 .. Len(b) /\ DOMAIN c = 1 .. Len(c)
  BY <1>3, <1>4, LenProperties
<1>6. \A q \in DOMAIN a : a[q].ident \notin Release
  BY <1>2 DEF Routed
<1>7. \A q \in DOMAIN b : b[q].ident \notin Release
  BY <1>2 DEF Routed
<1>8. p \in DOMAIN c
  BY <1>2
<1>9. CASE p \in DOMAIN a
  BY <1>2, <1>4, <1>5, <1>6, <1>9
<1>10. CASE p \notin DOMAIN a
  <2>1. p - Len(a) \in 1 .. Len(b) /\ Len(a) + (p - Len(a)) = p
    BY <1>4, <1>5, <1>8, <1>10
  <2>2. c[p] = b[p - Len(a)]
    BY <1>4, <2>1
  <2> QED
    BY <1>2, <1>5, <1>7, <2>1, <2>2
<1> QED
  BY <1>9, <1>10

\* A prefix of what was produced.
LEMMA PrefixIs ==
    ASSUME NEW S, NEW b \in Seq(S), NEW n \in 0 .. Len(b), NEW a, a = SubSeq(b, 1, n)
    PROVE  \A p \in DOMAIN a : p \in DOMAIN b /\ a[p] = b[p]
<1>1. Len(b) \in Nat /\ DOMAIN b = 1 .. Len(b)
  BY LenProperties
<1>2. n \in Int /\ n <= Len(b)
  BY <1>1
<1>3. a = [p \in 1 .. n |-> b[p]]
  BY <1>1, <1>2
<1> QED
  BY <1>1, <1>2, <1>3

\* No message is ever put into the topic of another type.
LEMMA RoutedNext ==
    ASSUME EntityTypeOK, WorkerOK, Routed, [EntityNext]_entityVars
    PROVE  Routed'
<1>1. CASE UNCHANGED <<topic, buffer>>
  BY <1>1 DEF Routed
<1>2. ASSUME NEW e \in Entity, UNCHANGED topic, buffer'.docs = Produced(e) PROVE Routed'
  BY <1>2, RoutedProduced DEF Routed
<1>3. ASSUME NEW sent \in Messages, Deliver(sent), buffer' = NoMessages,
             \A t \in Indexed : \A p \in DOMAIN sent.docs[t] :
                p \in DOMAIN buffer.docs[t] /\ sent.docs[t][p] = buffer.docs[t][p]
      PROVE  Routed'
  <2>1. \A t \in Indexed : DOMAIN buffer'.docs[t] = {}
    BY <1>3 DEF NoMessages
  <2> QED
    BY <1>3, <2>1, RoutedDelivered DEF Routed
<1>4. CASE UNCHANGED entityVars
  BY <1>1, <1>4 DEF entityVars, updates
<1>5. CASE Accept
  BY <1>1, <1>5 DEF Accept, Publish, updates
<1>6. CASE PollEntry
  BY <1>1, <1>6 DEF PollEntry
<1>7. ASSUME NEW h \in Holder, FetchHolder(h) PROVE Routed'
  <2>1. UNCHANGED topic /\ (UNCHANGED buffer \/ buffer' = [buffer EXCEPT !.docs = Produced(h)])
    BY <1>7 DEF FetchHolder
  <2>2. buffer \in [docs : [Indexed -> Seq(Documents)], ingest : SUBSET Release, works : SUBSET Release]
    BY DEF EntityTypeOK, Messages
  <2> HIDE DEF Documents
  <2>3. UNCHANGED buffer \/ buffer'.docs = Produced(h)
    BY <2>1, <2>2
  <2> QED
    BY <1>1, <1>2, <2>1, <2>3, TopicOfs
<1>8. ASSUME NEW c \in Container, FetchContainer(c) PROVE Routed'
  <2>1. UNCHANGED topic /\ buffer' = [buffer EXCEPT !.docs = Produced(c)]
    BY <1>8 DEF FetchContainer
  <2>2. buffer \in [docs : [Indexed -> Seq(Documents)], ingest : SUBSET Release, works : SUBSET Release]
    BY DEF EntityTypeOK, Messages
  <2> HIDE DEF Documents
  <2>3. buffer'.docs = Produced(c)
    BY <2>1, <2>2
  <2> QED
    BY <1>2, <2>1, <2>3, TopicOfs
<1>9. ASSUME NEW r \in Release, FetchRelease(r) PROVE Routed'
  <2>1. UNCHANGED topic /\ buffer'.docs = Produced(r)
    BY <1>9 DEF FetchRelease
  <2> QED
    BY <1>2, <2>1, TopicOfs
<1>10. CASE FlushAndStore
  BY <1>3, <1>10 DEF FlushAndStore, EntityTypeOK
<1>11. CASE Die
  <2>1. PICK sent \in Messages :
           /\ Deliver(sent)
           /\ \A t \in Indexed : \E n \in 0 .. Len(buffer.docs[t]) :
                 sent.docs[t] = SubSeq(buffer.docs[t], 1, n)
    BY <1>11, DeliverSomeIs DEF Die
  <2>2. \A t \in Indexed : buffer.docs[t] \in Seq(Documents)
    BY DEF EntityTypeOK, Messages
  <2>3. \A t \in Indexed : \A p \in DOMAIN sent.docs[t] :
           p \in DOMAIN buffer.docs[t] /\ sent.docs[t][p] = buffer.docs[t][p]
    BY <2>1, <2>2, PrefixIs
  <2> QED
    BY <1>3, <1>11, <2>1, <2>3 DEF Die
<1>12. ASSUME NEW t \in Indexed, IndexBatch(t) \/ EsDie(t) PROVE Routed'
  BY <1>1, <1>12 DEF IndexBatch, EsDie, updates
<1> QED
  BY <1>4, <1>5, <1>6, <1>7, <1>8, <1>9, <1>10, <1>11, <1>12 DEF EntityNext, UpdatesStep

\* A release the new entry does not make the worker produce, and which no holder
\* lost, is as it was.
LEMMA AcceptLeaves ==
    ASSUME EntityTypeOK, Accept, NEW r \in Release, r \notin unlinked',
           NEW n, n = Len(log'), ~Covers(n, r)'
    PROVE  /\ n = Len(log) + 1 /\ Len(log) \in Nat
           /\ r \notin unlinked
           /\ Document(r)' = Document(r) /\ catalog'[r] = catalog[r]
           /\ \A h \in Holder : r \in catalog'[h].links <=> r \in catalog[h].links
           /\ \A i \in 1 .. Len(log) : Covers(i, r)' <=> Covers(i, r)
<1>1. PICK changed \in SUBSET Entity : \E edits \in [changed -> UNION {Edit(e) : e \in changed}],
                                          byOther \in BOOLEAN :
          /\ \A e \in changed : edits[e] \in Edit(e)
          /\ Publish(edits, byOther)
  BY DEF Accept
<1>2. PICK edits \in [changed -> UNION {Edit(e) : e \in changed}], byOther \in BOOLEAN :
          /\ \A e \in changed : edits[e] \in Edit(e)
          /\ Publish(edits, byOther)
  BY <1>1
<1>3. PICK new : new \subseteq Release /\ log' = Append(log, [edits |-> changed, new |-> new])
  <2>1. \E new : new \subseteq Release /\ log' = Append(log, [edits |-> changed, new |-> new])
    BY <1>2 DEF Publish
  <2> QED
    BY <2>1
<1>4. [edits |-> changed, new |-> new] \in Entries
  BY <1>3 DEF Entries
<1>5. /\ Len(log) \in Nat /\ Len(log') = Len(log) + 1
      /\ \A i \in 1 .. Len(log) : log'[i] = log[i]
      /\ log'[Len(log) + 1] = [edits |-> changed, new |-> new]
  <2>1. log \in Seq(Entries)
    BY DEF EntityTypeOK
  <2> HIDE DEF Entries
  <2> QED
    BY <1>3, <1>4, <2>1, OneMore
<1>6. log'[n].edits = changed
  BY <1>5
<1>7. r \notin changed /\ \A h \in changed \cap Holder : r \notin catalog'[h].links
  BY <1>6 DEF Covers
<1>8. \A e \in Entity : e \in changed => /\ catalog'[e].links = edits[e].links
  BY <1>2 DEF Publish
<1>9. \A e \in Entity : e \notin changed => catalog'[e] = catalog[e]
  BY <1>2 DEF Publish
<1>10. /\ r \notin unlinked
       /\ \A h \in changed : r \notin Links(h)
  <2>1. r \notin (changed \cap Release) \cup UNION {edits[h].links : h \in changed \cap Holder}
    BY <1>7, <1>8 DEF Entity
  <2>2. unlinked' = (unlinked \cup UNION {Links(h) : h \in changed})
                    \ ((changed \cap Release) \cup UNION {edits[h].links : h \in changed \cap Holder})
    BY <1>2 DEF Publish
  <2> QED
    BY <2>1, <2>2
<1>11. \A h \in Holder : r \in catalog'[h].links <=> r \in catalog[h].links
  BY <1>7, <1>9, <1>10 DEF Links, Entity
<1>12. Holders(r)' = Holders(r)
  BY <1>9, <1>10, <1>11, <1>7 DEF Holders, Links, Entity
<1>13. catalog'[r] = catalog[r]
  BY <1>7, <1>9 DEF Entity
<1>14. Document(r)' = Document(r)
  BY <1>12, <1>13 DEF Document
<1>15. \A i \in 1 .. Len(log) : Covers(i, r)' <=> Covers(i, r)
  BY <1>5, <1>11 DEF Covers
<1> QED
  BY <1>5, <1>10, <1>11, <1>13, <1>14, <1>15

\* An accept loses no update, whatever the worker is doing.
LEMMA AcceptKeeps ==
    ASSUME EntityTypeOK, WorkerOK, NEW r \in Release, UpToDate(r), AtHand(r), Justified(r),
           Accept, "release" \in Indexed
    PROVE  UpToDate(r)' /\ AtHand(r)' /\ Justified(r)'
<1>1. UNCHANGED <<worker, offset, buffer, topic, es, index>>
  BY DEF Accept, Publish, updates
<1>2. PICK n : n = Len(log')
  OBVIOUS
<1>3. /\ Len(log) \in Nat /\ n = Len(log) + 1
  <2>1. \E entry : log' = Append(log, entry)
    BY DEF Accept, Publish
  <2>2. log \in Seq(Entries)
    BY DEF EntityTypeOK
  <2> HIDE DEF Entries
  <2> QED
    BY <1>2, <2>1, <2>2, LenProperties, AppendProperties
<1>4. /\ offset.stored \in Nat \ {0} /\ offset.stored <= n
      /\ worker.entry \in 0 .. Len(log)
  BY <1>3 DEF EntityTypeOK, Offsets
<1>5. CASE r \in unlinked'
  BY <1>5 DEF UpToDate, AtHand, Justified
<1>6. CASE Covers(n, r)'
  <2>1. RedoneByUpdates(r)'
    BY <1>1, <1>2, <1>3, <1>4, <1>6 DEF RedoneByUpdates
  <2>2. AtHand(r)'
    BY <1>1, <1>2, <1>3, <1>4, <1>6 DEF AtHand
  <2> QED
    BY <2>1, <2>2 DEF UpToDate, Justified
<1>7. CASE r \notin unlinked' /\ ~Covers(n, r)'
  <2>1. /\ r \notin unlinked
        /\ Document(r)' = Document(r) /\ catalog'[r] = catalog[r]
        /\ \A h \in Holder : r \in catalog'[h].links <=> r \in catalog[h].links
        /\ \A i \in 1 .. Len(log) : Covers(i, r)' <=> Covers(i, r)
    BY <1>2, <1>7, AcceptLeaves
  <2>2. RedoneByUpdates(r) => RedoneByUpdates(r)'
    BY <1>1, <1>2, <1>3, <1>4, <2>1 DEF RedoneByUpdates
  <2>3. /\ RedoneByIndexer(r) => RedoneByIndexer(r)'
        /\ Untouched(r) => Untouched(r)'
    BY <1>1, <2>1 DEF RedoneByIndexer, Untouched
  <2>4. UpToDate(r)'
    BY <2>1, <2>2, <2>3 DEF UpToDate
  <2>5. Justified(r)'
    BY <1>1, <2>1, <2>2 DEF Justified, Queue
  <2>6. AtHand(r)'
    <3> SUFFICES ASSUME worker.entry # 0, Covers(worker.entry, r)
                 PROVE  \/ r \in worker.releases
                        \/ \E h \in worker.holders : r \in catalog'[h].links
                        \/ \E p \in DOMAIN Queue : NewestAt(Queue, p, Document(r))
                        \/ \E i \in worker.entry + 1 .. Len(log') : Covers(i, r)'
      <4>1. /\ worker' = worker /\ Queue' = Queue /\ Document(r)' = Document(r)
        BY <1>1, <2>1 DEF Queue
      <4>2. PICK w \in 0 .. Len(log) : w = worker.entry
        BY <1>4
      <4>3. w # 0 => (Covers(w, r)' <=> Covers(w, r))
        BY <1>3, <2>1
      <4>4. \A p : NewestAt(Queue, p, Document(r))' <=> NewestAt(Queue, p, Document(r))
        BY <4>1 DEF NewestAt
      <4> QED
        BY <4>1, <4>2, <4>3, <4>4 DEF AtHand
    <3>1. \A h \in worker.holders : h \in Holder
      BY DEF EntityTypeOK
    <3>2. ASSUME NEW i \in worker.entry + 1 .. Len(log), Covers(i, r)
          PROVE  i \in worker.entry + 1 .. Len(log') /\ Covers(i, r)'
      BY <1>2, <1>3, <1>4, <2>1, <3>2
    <3> QED
      BY <2>1, <3>1, <3>2 DEF AtHand
  <2> QED
    BY <2>4, <2>5, <2>6
<1> QED
  BY <1>5, <1>6, <1>7

\* What no fetch changes.
LEMMA FetchLeaves ==
    ASSUME NEW r \in Release,
           UNCHANGED <<catalog, log, offset, topic, es, index, unlinked>>
    PROVE  /\ UpToDate(r) => UpToDate(r)'
           /\ RedoneByUpdates(r)' <=> RedoneByUpdates(r)
           /\ Document(r)' = Document(r)
           /\ \A i : Covers(i, r)' <=> Covers(i, r)
<1>1. Document(r)' = Document(r)
  BY DEF Document, Holders, Links
<1>2. \A i : Covers(i, r)' <=> Covers(i, r)
  BY DEF Covers
<1>3. RedoneByUpdates(r)' <=> RedoneByUpdates(r)
  BY <1>2 DEF RedoneByUpdates
<1> QED
  BY <1>1, <1>2, <1>3 DEF UpToDate, RedoneByIndexer, Untouched

\* The worker takes up an entry, or fetches what it names: nothing is lost.
LEMMA FetchKeeps ==
    ASSUME EntityTypeOK, WorkerOK, NEW r \in Release, UpToDate(r), AtHand(r), Justified(r),
           "release" \in Indexed,
           \/ PollEntry
           \/ \E h \in Holder : FetchHolder(h)
           \/ \E c \in Container : FetchContainer(c)
           \/ \E s \in Release : FetchRelease(s)
    PROVE  UpToDate(r)' /\ AtHand(r)' /\ Justified(r)'
<1>1. UNCHANGED <<catalog, log, offset, topic, es, index, unlinked>>
  BY DEF PollEntry, FetchHolder, FetchContainer, FetchRelease
<1>2. /\ UpToDate(r)'
      /\ RedoneByUpdates(r)' <=> RedoneByUpdates(r)
      /\ \A s \in Release : Document(s)' = Document(s)
      /\ \A i : Covers(i, r)' <=> Covers(i, r)
  BY <1>1, FetchLeaves
<1>3. /\ Len(log) \in Nat /\ offset.stored \in Nat \ {0}
      /\ buffer.docs \in [Indexed -> Seq(Documents)]
      /\ buffer \in [docs : [Indexed -> Seq(Documents)], ingest : SUBSET Release,
                     works : SUBSET Release]
  BY DEF EntityTypeOK, Offsets, Messages
<1> HIDE DEF Documents
<1>4. CASE PollEntry
  <2>1. /\ worker' = [entry |-> offset.stored, holders |-> log[offset.stored].edits \cap Holder,
                      containers |-> log[offset.stored].edits \cap Container,
                      releases |-> log[offset.stored].edits \cap Release]
        /\ worker = Idle /\ buffer' = buffer /\ offset.stored <= Len(log)
    BY <1>4 DEF PollEntry
  <2>2. buffer = NoMessages
    BY <2>1 DEF WorkerOK, Idle
  <2>3. AtHand(r)'
    BY <1>1, <1>2, <2>1 DEF AtHand, Covers
  <2>4. Justified(r)'
    <3>1. ~\E p \in DOMAIN Queue' : TRUE
      BY <2>1, <2>2 DEF Queue, NoMessages
    <3>2. r \in worker'.releases => RedoneByUpdates(r)
      BY <1>3, <2>1 DEF RedoneByUpdates, Covers
    <3> QED
      BY <1>2, <3>1, <3>2 DEF Justified
  <2> QED
    BY <1>2, <2>3, <2>4
<1>5. ASSUME NEW h \in Holder, FetchHolder(h) PROVE AtHand(r)' /\ Justified(r)'
  <2>1. /\ worker' = [worker EXCEPT !.holders = @ \ {h}, !.releases = @ \cup catalog[h].links]
        /\ UNCHANGED buffer \/ buffer' = [buffer EXCEPT !.docs = Produced(h)]
        /\ h \in worker.holders
    BY <1>5 DEF FetchHolder
  <2>2. /\ worker'.entry = worker.entry /\ worker'.holders = worker.holders \ {h}
        /\ worker'.releases = worker.releases \cup catalog[h].links
    BY <2>1 DEF EntityTypeOK
  <2>3. UNCHANGED Queue
    <3>1. Produced(h)["release"] = buffer.docs["release"]
      BY TopicOfs DEF Produced
    <3> QED
      BY <1>3, <2>1, <3>1 DEF Queue
  <2>4. AtHand(r)'
    BY <1>1, <1>2, <2>2, <2>3 DEF AtHand, NewestAt
  <2>5. r \in catalog[h].links => RedoneByUpdates(r)
    <3>1. worker.entry # 0
      BY <2>1 DEF WorkerOK, Idle
    <3>2. /\ h \in log[offset.stored].edits /\ offset.stored <= Len(log)
      BY <2>1, <3>1 DEF WorkerOK
    <3>3. r \in catalog[h].links => Covers(offset.stored, r)
      BY <3>2 DEF Covers
    <3>4. offset.stored \in offset.stored .. Len(log)
      BY <1>3, <3>2
    <3> QED
      BY <3>3, <3>4 DEF RedoneByUpdates
  <2>6. Justified(r)'
    BY <1>1, <1>2, <2>2, <2>3, <2>5 DEF Justified
  <2> QED
    BY <2>4, <2>6
<1>6. ASSUME NEW c \in Container, FetchContainer(c) PROVE AtHand(r)' /\ Justified(r)'
  <2>1. /\ worker' = [worker EXCEPT !.containers = @ \ {c}]
        /\ buffer' = [buffer EXCEPT !.docs = Produced(c)]
    BY <1>6 DEF FetchContainer
  <2>2. /\ worker'.entry = worker.entry /\ worker'.holders = worker.holders
        /\ worker'.releases = worker.releases
    BY <2>1 DEF EntityTypeOK
  <2>3. UNCHANGED Queue
    <3>1. Produced(c)["release"] = buffer.docs["release"]
      BY TopicOfs DEF Produced
    <3> QED
      BY <1>3, <2>1, <3>1 DEF Queue
  <2> QED
    BY <1>1, <1>2, <2>2, <2>3 DEF AtHand, Justified, NewestAt
<1>7. ASSUME NEW s \in Release, FetchRelease(s) PROVE AtHand(r)' /\ Justified(r)'
  <2>1. /\ worker' = [worker EXCEPT !.releases = @ \ {s}]
        /\ buffer'.docs = Produced(s)
        /\ s \in worker.releases
    BY <1>7 DEF FetchRelease
  <2>2. /\ worker'.entry = worker.entry /\ worker'.holders = worker.holders
        /\ worker'.releases = worker.releases \ {s}
    BY <2>1 DEF EntityTypeOK
  <2>3. PICK a, d, c : a = Queue /\ d = Document(s) /\ c = Queue'
    OBVIOUS
  <2>4. c = Append(a, d)
    BY <2>1, <2>3, TopicOfs DEF Produced, Queue
  <2>5. a \in Seq(Documents) /\ d \in Documents
    BY <1>3, <2>3, DocumentType, TopicOfs DEF Queue
  <2>6. /\ Len(a) \in Nat /\ Len(c) = Len(a) + 1
        /\ DOMAIN a = 1 .. Len(a) /\ DOMAIN c = 1 .. Len(a) + 1
        /\ \A p \in 1 .. Len(a) : c[p] = a[p]
        /\ c[Len(a) + 1] = d
    BY <2>4, <2>5, OneMore
  <2>7. d.ident = s
    BY <2>3 DEF Document
  <2>8. s = r => NewestAt(c, Len(a) + 1, Document(r))
    BY <2>3, <2>6 DEF NewestAt
  <2>9. ASSUME s # r, NEW p \in DOMAIN a, NewestAt(a, p, Document(r))
        PROVE  p \in DOMAIN c /\ NewestAt(c, p, Document(r))
    <3>1. Document(r).ident = r
      BY DEF Document
    <3>2. c[p] = Document(r) /\ p \in DOMAIN c
      BY <2>6, <2>9 DEF NewestAt
    <3>3. ASSUME NEW q \in p + 1 .. Len(c) PROVE c[q].ident # r
      <4>1. q \in p + 1 .. Len(a) \/ q = Len(a) + 1
        BY <2>6
      <4>2. CASE q = Len(a) + 1
        BY <2>6, <2>7, <2>9, <4>2
      <4>3. CASE q \in p + 1 .. Len(a)
        <5>1. q \in 1 .. Len(a)
          BY <2>6, <4>3
        <5> QED
          BY <2>6, <2>9, <3>1, <4>3, <5>1 DEF NewestAt
      <4> QED
        BY <4>1, <4>2, <4>3
    <3> QED
      BY <3>1, <3>2, <3>3 DEF NewestAt
  <2>10. (\E p \in DOMAIN a : NewestAt(a, p, Document(r))) \/ s = r
            => \E p \in DOMAIN c : NewestAt(c, p, Document(r))
    BY <2>6, <2>8, <2>9
  <2>11. AtHand(r)'
    <3>1. (\E p \in DOMAIN Queue : NewestAt(Queue, p, Document(r))) \/ s = r
              => (\E p \in DOMAIN Queue : NewestAt(Queue, p, Document(r)))'
      BY <1>2, <2>3, <2>10 DEF NewestAt
    <3>2. r \in worker.releases => r \in worker'.releases \/ s = r
      BY <2>2
    <3> QED
      BY <1>1, <1>2, <2>2, <3>1, <3>2 DEF AtHand
  <2>12. Justified(r)'
    <3>1. ASSUME NEW p \in DOMAIN c, c[p].ident = r
          PROVE  r \in worker.releases \/ \E q \in DOMAIN a : a[q].ident = r
      BY <2>1, <2>6, <2>7, <3>1
    <3> QED
      BY <1>1, <1>2, <2>2, <2>3, <3>1 DEF Justified
  <2> QED
    BY <2>11, <2>12
<1> QED
  BY <1>2, <1>4, <1>5, <1>6, <1>7

\* RedoneByIndexer, by the position of the document.
LEMMA RedoneAt ==
    ASSUME NEW r \in Release
    PROVE  RedoneByIndexer(r) <=>
              \E p \in DOMAIN topic["release"] :
                 /\ NewestAt(topic["release"], p, Document(r))
                 /\ p < es["release"].stored => index[r] = Indexable(Document(r))
BY DEF RedoneByIndexer, NewestAt, Document

\* Documents of others leave what the indexer will do for a release.
LEMMA DeliveredOthers ==
    ASSUME EntityTypeOK, "release" \in Indexed, NEW r \in Release,
           NEW sent \in Messages, Deliver(sent), UNCHANGED <<catalog, es, index>>,
           \A p \in DOMAIN sent.docs["release"] : sent.docs["release"][p].ident # r
    PROVE  /\ RedoneByIndexer(r) => RedoneByIndexer(r)'
           /\ Untouched(r) => Untouched(r)'
<1>1. topic["release"] \in Seq(Documents) /\ sent.docs["release"] \in Seq(Documents)
  BY DEF EntityTypeOK, Messages
<1>2. PICK a, b, c : a = topic["release"] /\ b = sent.docs["release"] /\ c = topic'["release"]
  OBVIOUS
<1>3. a \in Seq(Documents) /\ b \in Seq(Documents) /\ c = a \o b
  BY <1>1, <1>2 DEF Deliver
<1>4. /\ Len(c) = Len(a) + Len(b) /\ c \in Seq(Documents)
      /\ \A q \in 1 .. Len(a) : c[q] = a[q]
      /\ \A q \in 1 .. Len(b) : c[Len(a) + q] = b[q]
  BY <1>3, Concatenated
<1>5. /\ Len(a) \in Nat /\ Len(b) \in Nat /\ DOMAIN a = 1 .. Len(a)
      /\ DOMAIN b = 1 .. Len(b) /\ DOMAIN c = 1 .. Len(c)
  BY <1>3, <1>4, LenProperties
<1>6. ASSUME NEW q \in Len(a) + 1 .. Len(c) PROVE c[q].ident # r
  <2>1. q - Len(a) \in 1 .. Len(b) /\ Len(a) + (q - Len(a)) = q
    BY <1>4, <1>5
  <2>2. c[q] = b[q - Len(a)]
    BY <1>4, <2>1
  <2> QED
    BY <1>2, <1>5, <2>1, <2>2
<1>7. Document(r)' = Document(r) /\ Document(r).ident = r
  BY DEF Document, Holders, Links
<1>8. ASSUME NEW p \in DOMAIN a, NewestAt(a, p, Document(r))
      PROVE  p \in DOMAIN c /\ NewestAt(c, p, Document(r))
  <2>1. p \in DOMAIN c /\ c[p] = Document(r)
    BY <1>4, <1>5, <1>8 DEF NewestAt
  <2>2. ASSUME NEW q \in p + 1 .. Len(c) PROVE c[q].ident # r
    <3>1. CASE q \in Len(a) + 1 .. Len(c)
      BY <1>6, <3>1
    <3>2. CASE q \notin Len(a) + 1 .. Len(c)
      <4>1. q \in p + 1 .. Len(a) /\ q \in 1 .. Len(a)
        BY <1>4, <1>5, <3>2
      <4> QED
        BY <1>4, <1>7, <1>8, <4>1 DEF NewestAt
    <3> QED
      BY <3>1, <3>2
  <2> QED
    BY <1>7, <2>1, <2>2 DEF NewestAt
<1>9. RedoneByIndexer(r) => RedoneByIndexer(r)'
  <2> SUFFICES ASSUME RedoneByIndexer(r) PROVE RedoneByIndexer(r)'
    OBVIOUS
  <2>1. PICK p \in DOMAIN a :
           /\ NewestAt(a, p, Document(r))
           /\ p < es["release"].stored => index[r] = Indexable(Document(r))
    BY <1>2, RedoneAt
  <2>2. p \in DOMAIN c /\ NewestAt(c, p, Document(r))
    BY <1>8, <2>1
  <2>3. /\ c[p] = Document(r)
        /\ \A q \in p + 1 .. Len(c) : c[q].ident # r
    BY <1>7, <2>2 DEF NewestAt
  <2> QED
    BY <1>2, <1>7, <2>1, <2>2, <2>3 DEF RedoneByIndexer
<1>10. Untouched(r) => Untouched(r)'
  <2> SUFFICES ASSUME Untouched(r) PROVE Untouched(r)'
    OBVIOUS
  <2>1. \A p \in DOMAIN a : a[p].ident # r
    BY <1>2 DEF Untouched
  <2>2. ASSUME NEW p \in DOMAIN c PROVE c[p].ident # r
    <3>1. p \in DOMAIN a \/ p \in Len(a) + 1 .. Len(c)
      BY <1>4, <1>5
    <3> QED
      BY <1>4, <1>5, <1>6, <2>1, <3>1
  <2> QED
    BY <1>2, <1>7, <2>2 DEF Untouched
<1> QED
  BY <1>9, <1>10

\* Delivered as it is now, a release will be indexed as it is now.
LEMMA DeliveredNewest ==
    ASSUME EntityTypeOK, "release" \in Indexed, NEW r \in Release,
           NEW sent \in Messages, Deliver(sent), UNCHANGED <<catalog, es, index>>,
           NEW p \in DOMAIN sent.docs["release"],
           NewestAt(sent.docs["release"], p, Document(r))
    PROVE  RedoneByIndexer(r)'
<1>1. /\ topic["release"] \in Seq(Documents) /\ sent.docs["release"] \in Seq(Documents)
      /\ es["release"].stored \in Nat /\ es["release"].stored <= Len(topic["release"]) + 1
  BY DEF EntityTypeOK, Messages, Offsets
<1>2. PICK a, b, c : a = topic["release"] /\ b = sent.docs["release"] /\ c = topic'["release"]
  OBVIOUS
<1>3. a \in Seq(Documents) /\ b \in Seq(Documents) /\ c = a \o b
  BY <1>1, <1>2 DEF Deliver
<1>4. /\ Len(c) = Len(a) + Len(b) /\ c \in Seq(Documents)
      /\ \A q \in 1 .. Len(b) : c[Len(a) + q] = b[q]
  BY <1>3, Concatenated
<1>5. /\ Len(a) \in Nat /\ Len(b) \in Nat
      /\ DOMAIN b = 1 .. Len(b) /\ DOMAIN c = 1 .. Len(c)
  BY <1>3, <1>4, LenProperties
<1>6. Document(r)' = Document(r) /\ Document(r).ident = r
  BY DEF Document, Holders, Links
<1>7. p \in 1 .. Len(b) /\ b[p] = Document(r) /\ \A q \in p + 1 .. Len(b) : b[q].ident # r
  BY <1>2, <1>5, <1>6 DEF NewestAt
<1>8. Len(a) + p \in DOMAIN c /\ c[Len(a) + p] = Document(r)
  BY <1>4, <1>5, <1>7
<1>9. ASSUME NEW q \in Len(a) + p + 1 .. Len(c) PROVE c[q].ident # r
  <2>1. q - Len(a) \in p + 1 .. Len(b) /\ q - Len(a) \in 1 .. Len(b) /\ Len(a) + (q - Len(a)) = q
    BY <1>4, <1>5, <1>7
  <2>2. c[q] = b[q - Len(a)]
    BY <1>4, <2>1
  <2> QED
    BY <1>7, <2>1, <2>2
<1>10. ~(Len(a) + p < es["release"].stored)
  BY <1>1, <1>2, <1>5, <1>7
<1>11. PICK k : k = Len(a) + p
  OBVIOUS
<1> QED
  BY <1>2, <1>6, <1>8, <1>9, <1>10, <1>11 DEF RedoneByIndexer

\* The worker is done with an entry: every release it was about is up to date.
LEMMA FlushKeeps ==
    ASSUME EntityTypeOK, WorkerOK, NEW r \in Release, UpToDate(r), AtHand(r), Justified(r),
           "release" \in Indexed, FlushAndStore
    PROVE  UpToDate(r)' /\ AtHand(r)' /\ Justified(r)'
<1>1. /\ worker.entry # 0 /\ worker.holders = {} /\ worker.releases = {}
      /\ Deliver(buffer) /\ worker' = Idle /\ buffer' = NoMessages
      /\ offset' = [offset EXCEPT !.stored = @ + 1]
      /\ UNCHANGED <<catalog, log, es, index, unlinked>>
  BY DEF FlushAndStore, AllFetched
<1>2. /\ Len(log) \in Nat /\ offset.stored \in Nat \ {0} /\ buffer \in Messages
      /\ worker.entry = offset.stored /\ offset'.stored = offset.stored + 1
  BY <1>1 DEF EntityTypeOK, Offsets, WorkerOK
<1>3. AtHand(r)' /\ Justified(r)'
  BY <1>1 DEF AtHand, Justified, Idle, Queue, NoMessages
<1>4. \A i : Covers(i, r)' <=> Covers(i, r)
  BY <1>1 DEF Covers
<1>5. CASE catalog[r].state = "wip" \/ r \in unlinked
  BY <1>3, <1>1, <1>5 DEF UpToDate
<1>6. CASE \E i \in offset.stored + 1 .. Len(log) : Covers(i, r)
  BY <1>3, <1>1, <1>2, <1>4, <1>6 DEF UpToDate, RedoneByUpdates
<1>7. CASE /\ r \notin unlinked /\ Covers(offset.stored, r)
           /\ ~\E i \in offset.stored + 1 .. Len(log) : Covers(i, r)
  <2>1. PICK p \in DOMAIN Queue : NewestAt(Queue, p, Document(r))
    BY <1>1, <1>2, <1>7 DEF AtHand
  <2>2. RedoneByIndexer(r)'
    BY <1>1, <1>2, <2>1, DeliveredNewest DEF Queue
  <2> QED
    BY <1>3, <2>2 DEF UpToDate
<1>8. CASE /\ catalog[r].state # "wip" /\ r \notin unlinked /\ ~Covers(offset.stored, r)
           /\ ~\E i \in offset.stored + 1 .. Len(log) : Covers(i, r)
  <2>1. ~RedoneByUpdates(r)
    <3>1. \A i \in offset.stored .. Len(log) : i = offset.stored \/ i \in offset.stored + 1 .. Len(log)
      BY <1>2
    <3> QED
      BY <1>8, <3>1 DEF RedoneByUpdates
  <2>2. \A p \in DOMAIN buffer.docs["release"] : buffer.docs["release"][p].ident # r
    BY <1>8, <2>1 DEF Justified, Queue
  <2>3. RedoneByIndexer(r)' \/ Untouched(r)'
    BY <1>1, <1>2, <1>8, <2>1, <2>2, DeliveredOthers DEF UpToDate
  <2> QED
    BY <1>3, <2>3 DEF UpToDate
<1> QED
  BY <1>5, <1>6, <1>7, <1>8

\* The worker dies: what it had sent it had to send, and does again.
LEMMA DieKeeps ==
    ASSUME EntityTypeOK, WorkerOK, NEW r \in Release, UpToDate(r), AtHand(r), Justified(r),
           "release" \in Indexed, Die
    PROVE  UpToDate(r)' /\ AtHand(r)' /\ Justified(r)'
<1>1. PICK sent \in Messages :
         /\ Deliver(sent)
         /\ \A t \in Indexed : \E n \in 0 .. Len(buffer.docs[t]) :
               sent.docs[t] = SubSeq(buffer.docs[t], 1, n)
  BY DeliverSomeIs DEF Die
<1>2. PICK k \in offset.committed .. offset.stored : offset' = [stored |-> k, committed |-> k]
  BY DEF Die
<1>3. /\ worker' = Idle /\ buffer' = NoMessages /\ UNCHANGED <<catalog, log, es, index, unlinked>>
  BY DEF Die
<1>4. /\ Len(log) \in Nat /\ offset.stored \in Nat /\ offset.committed \in Nat
      /\ offset'.stored = k
  BY <1>2 DEF EntityTypeOK, Offsets
<1>5. AtHand(r)' /\ Justified(r)'
  BY <1>3 DEF AtHand, Justified, Idle, Queue, NoMessages
<1>6. \A i : Covers(i, r)' <=> Covers(i, r)
  BY <1>3 DEF Covers
<1>7. RedoneByUpdates(r) => RedoneByUpdates(r)'
  <2>1. k \in Int /\ k <= offset.stored
    BY <1>4
  <2> QED
    BY <1>3, <1>4, <1>6, <2>1 DEF RedoneByUpdates
<1>8. CASE catalog[r].state = "wip" \/ r \in unlinked \/ RedoneByUpdates(r)
  BY <1>3, <1>5, <1>7, <1>8 DEF UpToDate
<1>9. CASE catalog[r].state # "wip" /\ r \notin unlinked /\ ~RedoneByUpdates(r)
  <2>1. \A p \in DOMAIN Queue : Queue[p].ident # r
    BY <1>9 DEF Justified
  <2>2. Queue \in Seq(Documents)
    BY DEF Queue, EntityTypeOK, Messages
  <2>3. PICK n \in 0 .. Len(Queue) : sent.docs["release"] = SubSeq(Queue, 1, n)
    BY <1>1 DEF Queue
  <2>4. \A p \in DOMAIN sent.docs["release"] : sent.docs["release"][p].ident # r
    BY <2>1, <2>2, <2>3, PrefixIs
  <2>5. RedoneByIndexer(r)' \/ Untouched(r)'
    BY <1>1, <1>3, <1>9, <2>4, DeliveredOthers DEF UpToDate
  <2> QED
    BY <1>5, <2>5 DEF UpToDate
<1> QED
  BY <1>8, <1>9

\* What a batch, or a part of it, makes of the document of a release.
LEMMA Written ==
    ASSUME EntityTypeOK, "release" \in Indexed, NEW r \in Release,
           NEW positions, positions \subseteq DOMAIN topic["release"],
           index' = Indexing("release", positions)
    PROVE  /\ (\A q \in positions : topic["release"][q].ident # r) => index'[r] = index[r]
           /\ \A p \in positions :
                 NewestAt(topic["release"], p, Document(r)) /\ catalog[r].state # "wip"
                    => index'[r] = Indexable(Document(r))
<1> DEFINE written == {p \in positions : /\ topic["release"][p].ident = r
                                         /\ topic["release"][p].state # "wip"}
<1>1. index'[r] = IF written = {} THEN index[r]
                  ELSE Indexable(topic["release"][CHOOSE p \in written :
                                    \A q \in written : q <= p])
  BY TopicOfs DEF Indexing
<1>2. (\A q \in positions : topic["release"][q].ident # r) => index'[r] = index[r]
  BY <1>1
<1>3. ASSUME NEW p \in positions, NewestAt(topic["release"], p, Document(r)),
             catalog[r].state # "wip"
      PROVE  index'[r] = Indexable(Document(r))
  <2>1. Document(r).ident = r /\ Document(r).state = catalog[r].state
    BY DEF Document
  <2>2. p \in written
    BY <1>3, <2>1 DEF NewestAt
  <2>3. DOMAIN topic["release"] = 1 .. Len(topic["release"]) /\ Len(topic["release"]) \in Nat
    BY LenProperties DEF EntityTypeOK
  <2>4. ASSUME NEW q \in written PROVE q <= p
    <3>1. q \notin p + 1 .. Len(topic["release"])
      BY <1>3, <2>1 DEF NewestAt
    <3>2. q \in 1 .. Len(topic["release"]) /\ p \in 1 .. Len(topic["release"])
      BY <2>3
    <3> QED
      BY <2>3, <3>1, <3>2
  <2>5. \A s \in written : (\A q \in written : q <= s) => s = p
    BY <2>2, <2>3, <2>4
  <2> HIDE DEF written
  <2>6. (CHOOSE s \in written : \A q \in written : q <= s) = p
    BY <2>2, <2>4, <2>5
  <2>7. index'[r] = Indexable(topic["release"][p])
    BY <1>1, <2>2, <2>6
  <2> QED
    BY <1>3, <2>7 DEF NewestAt
<1> QED
  BY <1>2, <1>3

\* The indexer writes a batch or dies while writing it: what it repeats of older
\* documents, it repeats before the newest.
LEMMA IndexerKeeps ==
    ASSUME EntityTypeOK, WorkerOK, Routed, NEW r \in Release, UpToDate(r), AtHand(r), Justified(r),
           "release" \in Indexed, NEW t \in Indexed, IndexBatch(t) \/ EsDie(t)
    PROVE  UpToDate(r)' /\ AtHand(r)' /\ Justified(r)'
<1> DEFINE T == topic["release"]
<1> DEFINE S == es["release"].stored
<1>1. UNCHANGED <<catalog, log, worker, offset, buffer, topic, unlinked>>
  BY DEF IndexBatch, EsDie, updates
<1>2. /\ Document(r)' = Document(r) /\ Document(r).ident = r
      /\ \A i : Covers(i, r)' <=> Covers(i, r)
      /\ RedoneByUpdates(r)' <=> RedoneByUpdates(r)
  BY <1>1 DEF Document, Holders, Links, Covers, RedoneByUpdates
<1>3. AtHand(r)' /\ Justified(r)'
  BY <1>1, <1>2 DEF AtHand, Justified, Queue, NewestAt
<1>4. /\ es \in [Indexed -> Offsets] /\ \A u \in Indexed : es[u].stored \in Nat \ {0}
      /\ \A u \in Indexed : es[u].committed \in Nat \ {0} /\ topic[u] \in Seq(Documents)
      /\ \A u \in Indexed : Len(topic[u]) \in Nat /\ DOMAIN topic[u] = 1 .. Len(topic[u])
  BY LenProperties DEF EntityTypeOK, Offsets
<1>5. PICK n, positions, new :
         /\ n \in Nat
         /\ positions \subseteq es[t].stored .. es[t].stored + n - 1
         /\ es[t].stored + n <= Len(topic[t]) + 1
         /\ index' = Indexing(t, positions)
         /\ es' = [es EXCEPT ![t] = new] /\ new \in Offsets
         /\ \/ positions = es[t].stored .. es[t].stored + n - 1 /\ new.stored = es[t].stored + n
            \/ new.stored <= es[t].stored
  <2>1. CASE IndexBatch(t)
    <3>1. PICK n \in Batch(t) : /\ es' = [es EXCEPT ![t].stored = @ + n]
                                /\ index' = Indexing(t, es[t].stored .. es[t].stored + n - 1)
      BY <2>1 DEF IndexBatch
    <3>2. n \in Nat /\ es[t].stored + n <= Len(topic[t]) + 1
      BY <3>1, EntityFeedAssumption DEF Batch
    <3>3. PICK new : new = [es[t] EXCEPT !.stored = @ + n]
      OBVIOUS
    <3>4. es[t] \in Offsets
      BY <1>4
    <3>5. new \in Offsets /\ new.stored = es[t].stored + n
      BY <3>2, <3>3, <3>4 DEF Offsets
    <3>6. es' = [es EXCEPT ![t] = new]
      BY <3>1, <3>3
    <3> QED
      BY <3>1, <3>2, <3>5, <3>6
  <2>2. CASE EsDie(t)
    <3>1. PICK n \in Batch(t) \cup {0} :
             \E positions \in SUBSET (es[t].stored .. es[t].stored + n - 1) :
                index' = Indexing(t, positions)
      BY <2>2 DEF EsDie
    <3>2. PICK positions \in SUBSET (es[t].stored .. es[t].stored + n - 1) :
             index' = Indexing(t, positions)
      BY <3>1
    <3>3. PICK k \in es[t].committed .. es[t].stored :
             es' = [es EXCEPT ![t] = [stored |-> k, committed |-> k]]
      BY <2>2 DEF EsDie
    <3>4. n \in Nat /\ es[t].stored + n <= Len(topic[t]) + 1
      BY <1>4, EntityFeedAssumption DEF Batch, EntityTypeOK
    <3>5. k \in Nat \ {0} /\ k <= es[t].stored
      BY <1>4
    <3>6. PICK new : new = [stored |-> k, committed |-> k]
      OBVIOUS
    <3>7. new \in Offsets /\ new.stored <= es[t].stored
      BY <3>5, <3>6 DEF Offsets
    <3> QED
      BY <3>2, <3>3, <3>4, <3>6, <3>7
  <2> QED
    BY <2>1, <2>2
<1>6. positions \subseteq DOMAIN topic[t]
  BY <1>4, <1>5
<1>7. CASE catalog[r].state = "wip" \/ r \in unlinked \/ RedoneByUpdates(r)
  BY <1>1, <1>2, <1>3, <1>7 DEF UpToDate
<1>8. CASE t # "release"
  <2>1. \A q \in positions : topic[t][q].ident # r
    BY <1>6, <1>8 DEF Routed
  <2>2. index'[r] = index[r]
    BY <1>5, <2>1, TopicOfs DEF Indexing
  <2>3. es'["release"] = es["release"]
    BY <1>4, <1>5, <1>8
  <2> QED
    BY <1>1, <1>2, <1>3, <2>2, <2>3 DEF UpToDate, RedoneByIndexer, Untouched
<1>9. CASE t = "release" /\ catalog[r].state # "wip" /\ Untouched(r)
  <2>1. index'[r] = index[r]
    BY <1>5, <1>6, <1>9, Written DEF Untouched
  <2> QED
    BY <1>1, <1>2, <1>3, <1>9, <2>1 DEF UpToDate, Untouched
<1>10. CASE t = "release" /\ catalog[r].state # "wip" /\ RedoneByIndexer(r)
  <2>1. PICK p \in DOMAIN T : /\ NewestAt(T, p, Document(r))
                              /\ p < S => index[r] = Indexable(Document(r))
    BY <1>10, RedoneAt
  <2>2. es'["release"].stored = new.stored /\ new.stored \in Nat
    BY <1>4, <1>5, <1>10 DEF Offsets
  <2>3. p \in Nat /\ p <= Len(T) /\ S \in Nat /\ Len(T) \in Nat /\ DOMAIN T = 1 .. Len(T)
    BY <1>4, <2>1
  <2>4. ASSUME p < new.stored PROVE index'[r] = Indexable(Document(r))
    <3>1. CASE p \in positions
      BY <1>5, <1>6, <1>10, <2>1, <3>1, Written
    <3>2. CASE p < S
      <4>1. \A q \in positions : q \in p + 1 .. Len(T)
        BY <1>5, <1>6, <1>10, <2>3, <3>2
      <4>2. \A q \in positions : T[q].ident # r
        BY <1>2, <2>1, <4>1 DEF NewestAt
      <4>3. index'[r] = index[r]
        BY <1>5, <1>6, <1>10, <4>2, Written
      <4> QED
        BY <2>1, <3>2, <4>3
    <3>3. CASE p \notin positions /\ ~(p < S)
      BY <1>5, <1>10, <2>2, <2>3, <2>4, <3>3
    <3> QED
      BY <3>1, <3>2, <3>3
  <2>5. RedoneByIndexer(r)'
    <3>1. /\ p \in DOMAIN topic'["release"] /\ topic'["release"][p] = Document(r)
          /\ \A q \in p + 1 .. Len(topic'["release"]) : topic'["release"][q].ident # r
      BY <1>1, <1>2, <2>1 DEF NewestAt
    <3> QED
      BY <1>2, <2>2, <2>4, <3>1 DEF RedoneByIndexer
  <2> QED
    BY <1>3, <2>5 DEF UpToDate
<1> QED
  BY <1>7, <1>8, <1>9, <1>10 DEF UpToDate

\* At the start the index is as the catalog.
LEMMA UpdatesInit == EntityInit => Routed /\ UpdatesInv
<1> SUFFICES ASSUME EntityInit PROVE Routed /\ UpdatesInv
  OBVIOUS
<1>1. Routed
  BY DEF EntityInit, Routed, NoMessages
<1>2. ASSUME "release" \in Indexed, NEW r \in Release
      PROVE  UpToDate(r) /\ AtHand(r) /\ Justified(r)
  <2>1. AtHand(r) /\ Justified(r)
    BY <1>2 DEF EntityInit, AtHand, Justified, Idle, Queue, NoMessages
  <2>2. catalog[r].state \in {"wip", "active"}
    BY TopicOfs DEF EntityInit
  <2>3. index[r] = IF catalog[r].state = "active" THEN Document(r) ELSE None
    BY <1>2, TopicOfs DEF EntityInit
  <2>4. Document(r).state = catalog[r].state
    BY DEF Document
  <2>5. catalog[r].state = "active" => index[r] = Indexable(Document(r))
    BY <2>3, <2>4 DEF Indexable
  <2>6. \A p \in DOMAIN topic["release"] : topic["release"][p].ident # r
    BY <1>2 DEF EntityInit
  <2> QED
    BY <2>1, <2>2, <2>5, <2>6 DEF UpToDate, Untouched
<1> QED
  BY <1>1, <1>2 DEF UpdatesInv

\* No step loses an update.
LEMMA UpdatesNext ==
    ASSUME EntityTypeOK, WorkerOK, Routed, UpdatesInv, [EntityNext]_entityVars
    PROVE  UpdatesInv'
<1> SUFFICES ASSUME "release" \in Indexed, NEW r \in Release
             PROVE  UpToDate(r)' /\ AtHand(r)' /\ Justified(r)'
  BY DEF UpdatesInv
<1>1. UpToDate(r) /\ AtHand(r) /\ Justified(r)
  BY DEF UpdatesInv
<1>2. CASE UNCHANGED entityVars
  <2>1. /\ UpToDate(r)'
        /\ RedoneByUpdates(r)' <=> RedoneByUpdates(r)
        /\ Document(r)' = Document(r)
        /\ \A i : Covers(i, r)' <=> Covers(i, r)
    BY <1>1, <1>2, FetchLeaves DEF entityVars, updates
  <2>2. UNCHANGED <<worker, buffer, catalog, log, unlinked>>
    BY <1>2 DEF entityVars, updates
  <2> QED
    BY <1>1, <2>1, <2>2 DEF AtHand, Justified, Queue, NewestAt
<1>3. CASE Accept
  BY <1>1, <1>3, AcceptKeeps
<1>4. CASE UpdatesStep
  BY <1>1, <1>4, FetchKeeps, FlushKeeps DEF UpdatesStep
<1>5. CASE Die
  BY <1>1, <1>5, DieKeeps
<1>6. CASE \E t \in Indexed : IndexBatch(t) \/ EsDie(t)
  BY <1>1, <1>6, IndexerKeeps
<1> QED
  BY <1>2, <1>3, <1>4, <1>5, <1>6 DEF EntityNext

\* Whatever is published, fetched, delivered and indexed meanwhile, and wherever
\* the workers die: a release that is out of date in the index is still to be
\* fetched or indexed, unless its last change only took it out of a holder.
THEOREM NoUpdateLost == EntitySpec => []UpdatesNotLost
<1>1. UpdatesInv => UpdatesNotLost
  BY DEF UpdatesInv, UpdatesNotLost, UpToDate
<1> QED
  BY <1>1, UpdatesInit, UpdatesNext, RoutedNext, EntityTypeAlways, PTL DEF EntitySpec

=============================================================================
