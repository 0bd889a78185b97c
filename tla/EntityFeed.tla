----------------------------- MODULE EntityFeed -----------------------------
(***************************************************************************)
(* From the changelog topic to the search index: EntityUpdatesWorker of    *)
(* fatcat_tools/workers/changelog.py and the Elasticsearch workers of      *)
(* fatcat_tools/workers/elasticsearch.py.                                  *)
(*                                                                         *)
(* The updates worker reads which entities a changelog entry edited,       *)
(* fetches them as they are *now*, and produces them to one topic per      *)
(* type; an Elasticsearch worker writes such a topic to an index.  Both    *)
(* take messages again after a crash, from the last offset the broker was  *)
(* told of.                                                                *)
(*                                                                         *)
(* The catalog is external here (Catalog models it): the entities as the   *)
(* API shows them.  The changelog topic holds the changelog in order, as   *)
(* ChangelogFeed shows.  Consumer groups have committed an offset before.  *)
(* A release document also shows names of its container and creators,      *)
(* which no change of those refreshes: left out of Document.               *)
(***************************************************************************)
EXTENDS Naturals, Sequences, FiniteSets

CONSTANTS
    Release, File, Capture, Container,
                \* idents by type; a Capture is a fileset or a webcapture
    Seed,       \* the entities that may be there at the start
    Metadata,   \* the metadata a release may have
    Indexed,    \* the types whose topic has an Elasticsearch worker
    MaxEntries, \* bound on the changelog
    EntrySize,  \* bound on the edits of one editgroup
    BatchSize,  \* ElasticsearchReleaseWorker.batch_size
    MaxCrashes  \* bound on the deaths of workers

Holder == File \cup Capture
Entity == Release \cup Holder \cup Container
Topics == {"release", "file", "container"}

ASSUME EntityFeedAssumption ==
    /\ MaxEntries \in Nat /\ EntrySize \in Nat /\ MaxCrashes \in Nat
    /\ BatchSize \in Nat \ {0}
    /\ Indexed \subseteq Topics
    /\ Seed \subseteq Entity /\ IsFiniteSet(Entity)
    /\ Release \cap (Holder \cup Container) = {} /\ Holder \cap Container = {}
    /\ File \cap Capture = {}

VARIABLES
    catalog,   \* each entity as the API shows it
    meta,      \* metadata of each release
    log,       \* the changelog topic
    worker,    \* EntityUpdatesWorker: the entry at hand, what is left of it
    offset,    \* its consumer: the offset stored, and the one committed when
               \* the process started
    buffer,    \* its producer: the messages not yet delivered, by topic
    topic,     \* the update topics that are indexed
    requested, \* releases for which an ingest request was delivered
    works,     \* per release, the index last sent for its work
    es,        \* per type, the consumer of the Elasticsearch worker
    index,     \* the Elasticsearch documents
    unlinked,  \* auxiliary: releases a holder was made not to name, and no
               \* entry since has edited or named
    crashes    \* auxiliary: counts up to MaxCrashes

updates == <<worker, offset, buffer, topic, requested, works>>
entityVars == <<catalog, meta, log, updates, es, index, unlinked, crashes>>

None == [state |-> "none"]
Idle == [entry |-> 0, holders |-> {}, containers |-> {}, releases |-> {}]
Fresh == [stored |-> 1, committed |-> 1]

TopicOf(e) == CASE e \in Release -> "release"
                [] e \in Holder -> "file"
                [] e \in Container -> "container"

\* release_ids of the entities that hold a release.
Links(e) == IF e \in Holder THEN catalog[e].links ELSE {}

\* expand=files,filesets,webcaptures: live entities that name the release.
Holders(r) == {h \in Holder : catalog[h].state = "active" /\ r \in Links(h)}

\* What the worker produces for e, and the transform turns into a document.
Document(e) ==
    [state |-> catalog[e].state, ident |-> e, rev |-> catalog[e].rev,
     holders |-> IF e \in Release THEN Holders(e) ELSE {}]

\* A document of an entity that is not active has its ident and state only.
Indexable(d) ==
    IF d.state = "active" THEN d ELSE [state |-> d.state, ident |-> d.ident]

Documents ==
    [state : {"wip", "active", "gone"}, ident : Entity, rev : 0 .. MaxEntries,
     holders : SUBSET Holder]
Entries == [edits : SUBSET Entity, new : SUBSET Release]
Messages == [docs : [Indexed -> Seq(Documents)], ingest : SUBSET Release,
             works : SUBSET Release]
NoMessages == [docs |-> [t \in Indexed |-> << >>], ingest |-> {}, works |-> {}]
Offsets == [stored : Nat \ {0}, committed : Nat \ {0}]

EntityTypeOK ==
    /\ catalog \in [Entity -> [state : {"wip", "active", "gone"}, rev : 0 .. MaxEntries,
                               links : SUBSET Release]]
    /\ meta \in [Release -> Metadata]
    /\ log \in Seq(Entries) /\ Len(log) <= MaxEntries
    /\ worker \in [entry : 0 .. Len(log), holders : SUBSET Holder,
                   containers : SUBSET Container, releases : SUBSET Release]
    /\ buffer \in Messages
    /\ topic \in [Indexed -> Seq(Documents)]
    /\ es \in [Indexed -> Offsets]
    /\ \A t \in Indexed : es[t].committed <= es[t].stored /\ es[t].stored <= Len(topic[t]) + 1
    /\ offset \in Offsets
    /\ offset.committed <= offset.stored /\ offset.stored <= Len(log) + 1
    /\ requested \subseteq Release /\ unlinked \subseteq Release
    /\ crashes \in 0 .. MaxCrashes

\* Some entities are published and indexed; the rest are in open editgroups.
EntityInit ==
    /\ \E published \in {{}, Seed}, links \in [Holder -> SUBSET Release] :
          /\ \A h \in Holder \ published : links[h] = {}
          /\ catalog = [e \in Entity |->
                [state |-> IF e \in published THEN "active" ELSE "wip", rev |-> 0,
                 links |-> IF e \in Holder THEN links[e] ELSE {}]]
    /\ meta \in [Release -> Metadata]
    /\ log = << >>
    /\ worker = Idle
    /\ offset = Fresh
    /\ buffer = NoMessages
    /\ topic = [t \in Indexed |-> << >>]
    /\ requested = {}
    /\ works = [r \in Release |-> 0]
    /\ es = [t \in Indexed |-> Fresh]
    /\ index = [e \in Entity |-> IF TopicOf(e) \in Indexed /\ catalog[e].state = "active"
                                 THEN Document(e) ELSE None]
    /\ unlinked = {}
    /\ crashes = 0

-----------------------------------------------------------------------------
(* The catalog: an editgroup is accepted and its entry reaches the topic. *)

\* edits gives the new state and links of each entity the editgroup edits.
\* byOther: the release was created by an editgroup that is still open, and
\* this one updates it, so that its edit has a prev_revision.
Publish(edits, byOther) ==
    LET changed == DOMAIN edits
        covered == (changed \cap Release)
                   \cup UNION {edits[h].links : h \in changed \cap Holder}
        rev == Len(log) + 1
    IN  /\ Len(log) < MaxEntries
        /\ catalog' = [e \in Entity |-> IF e \in changed
                                        THEN [state |-> edits[e].state, rev |-> rev,
                                              links |-> edits[e].links]
                                        ELSE catalog[e]]
        /\ log' = Append(log,
               [edits |-> changed,
                new |-> {r \in changed \cap Release :
                           /\ edits[r].state = "active"
                           /\ catalog[r].state # "active"
                           /\ ~(byOther /\ catalog[r].state = "wip")}])
        /\ unlinked' = (unlinked \cup UNION {Links(h) : h \in changed}) \ covered
        /\ UNCHANGED <<meta, updates, es, index, crashes>>

\* A deleted or redirected holder: the API shows no links, or the target's.
Edit(e) ==
    [state : IF catalog[e].state = "wip" THEN {"active"} ELSE {"active", "gone"},
     links : IF e \in Holder THEN SUBSET Release ELSE {{}}]

Accept ==
    \E changed \in SUBSET Entity :
        /\ Cardinality(changed) \in 1 .. EntrySize
        /\ \E edits \in [changed -> UNION {Edit(e) : e \in changed}], byOther \in BOOLEAN :
              /\ \A e \in changed : edits[e] \in Edit(e)
              /\ Publish(edits, byOther)

-----------------------------------------------------------------------------
(* What is worth an ingest request. *)

\* release_type and container decide what kind of content is looked for.
IngestType(m) ==
    CASE m.htmlContainer -> "html"
      [] m.type \in {"component", "graphic"} -> "component"
      [] m.type \in {"dataset", "software"} -> m.type
      [] m.type = "post-weblog" -> "html"
      [] OTHER -> "pdf"

\* release_ingest_request() of an active release makes a request: there is a
\* URL to look at.
HasIngestRequest(m) ==
    /\ m.type = "stub" => m.htmlContainer
    /\ m.doi # "none" \/ (IngestType(m) = "pdf" /\ m.openId)

\* want_live_ingest(), with ingest_oa_only off as the worker sets it.
WantLiveIngest(m) ==
    /\ m.big5 /\ m.preserved => m.oa \/ m.doi = "acceptlist"
    /\ IngestType(m) = "pdf" =>
          /\ m.type \notin {"component", "dataset", "figure", "graphic",
                            "software", "stub"}
          /\ m.doi # "blocklist"
    /\ m.doi = "figshare" => m.version
    /\ m.doi = "zenodo" => ~m.hasVersion

Wanted(m) == HasIngestRequest(m) /\ WantLiveIngest(m)

-----------------------------------------------------------------------------
(* EntityUpdatesWorker.run, one fetch at a time. *)

PollEntry ==
    /\ worker = Idle
    /\ offset.stored <= Len(log)
    /\ LET edits == log[offset.stored].edits
       IN  worker' = [entry |-> offset.stored, holders |-> edits \cap Holder,
                      containers |-> edits \cap Container,
                      releases |-> edits \cap Release]
    /\ UNCHANGED <<catalog, meta, log, offset, buffer, topic, requested, works, es,
                   index, unlinked, crashes>>

\* producer.produce() to the topic of e, if somebody indexes that.
Produced(e) ==
    [t \in Indexed |-> IF t = TopicOf(e) THEN Append(buffer.docs[t], Document(e))
                                       ELSE buffer.docs[t]]

\* Mutant of FetchHolder: the releases of a file are not produced again.
FetchHolderAlone(h) ==
    /\ h \in worker.holders
    /\ worker' = [worker EXCEPT !.holders = @ \ {h}]
    /\ buffer' = IF h \in File THEN [buffer EXCEPT !.docs = Produced(h)] ELSE buffer
    /\ UNCHANGED <<catalog, meta, log, offset, topic, requested, works, es,
                   index, unlinked, crashes>>

FetchHolder(h) ==
    /\ h \in worker.holders
    /\ h \in Capture => worker.holders \subseteq Capture
    /\ worker' = [worker EXCEPT !.holders = @ \ {h},
                                !.releases = @ \cup catalog[h].links]
    /\ buffer' = IF h \in File THEN [buffer EXCEPT !.docs = Produced(h)] ELSE buffer
    /\ UNCHANGED <<catalog, meta, log, offset, topic, requested, works, es,
                   index, unlinked, crashes>>

FetchContainer(c) ==
    /\ worker.holders = {}
    /\ c \in worker.containers
    /\ worker' = [worker EXCEPT !.containers = @ \ {c}]
    /\ buffer' = [buffer EXCEPT !.docs = Produced(c)]
    /\ UNCHANGED <<catalog, meta, log, offset, topic, requested, works, es,
                   index, unlinked, crashes>>

\* A new release that no file holds is also sent to the ingest topic, and
\* its work to the work topic.
FetchRelease(r) ==
    /\ worker.holders = {} /\ worker.containers = {}
    /\ r \in worker.releases
    /\ worker' = [worker EXCEPT !.releases = @ \ {r}]
    /\ LET ingest == /\ r \in log[worker.entry].new
                     /\ catalog[r].state = "active"
                     /\ Wanted(meta[r])
                     /\ Holders(r) \cap File = {}
           work == catalog[r].state # "gone"
       IN  buffer' = [docs   |-> Produced(r),
                      ingest |-> IF ingest THEN buffer.ingest \cup {r} ELSE buffer.ingest,
                      works  |-> IF work THEN buffer.works \cup {r} ELSE buffer.works]
    /\ UNCHANGED <<catalog, meta, log, offset, topic, requested, works, es,
                   index, unlinked, crashes>>

AllFetched == worker.holders = {} /\ worker.containers = {} /\ worker.releases = {}

\* Messages reach their topics.
Deliver(sent) ==
    /\ topic' = [t \in Indexed |-> topic[t] \o sent.docs[t]]
    /\ requested' = requested \cup sent.ingest
    /\ works' = [r \in Release |-> IF r \in sent.works THEN worker.entry ELSE works[r]]

\* The producer's thread has sent the first so many messages for each topic.
\* Those for the works are produced last, when all is fetched.
DeliverSome ==
    \E sent \in [Indexed -> 0 .. Cardinality(Entity)],
       ingest \in SUBSET buffer.ingest, done \in SUBSET buffer.works :
        /\ \A t \in Indexed : sent[t] <= Len(buffer.docs[t])
        /\ done # {} => AllFetched
        /\ Deliver([docs   |-> [t \in Indexed |-> SubSeq(buffer.docs[t], 1, sent[t])],
                    ingest |-> ingest,
                    works  |-> done])

\* flush() returns once everything is delivered; then the offset is stored.
FlushAndStore ==
    /\ worker.entry # 0
    /\ AllFetched
    /\ Deliver(buffer)
    /\ worker' = Idle
    /\ buffer' = NoMessages
    /\ offset' = [offset EXCEPT !.stored = @ + 1]
    /\ UNCHANGED <<catalog, meta, log, es, index, unlinked, crashes>>

\* Mutant of Die: the offset is stored before the entry is handled.
DieStoredEarly ==
    /\ crashes < MaxCrashes
    /\ crashes' = crashes + 1
    /\ DeliverSome
    /\ worker' = Idle
    /\ buffer' = NoMessages
    /\ offset' = [stored |-> offset.stored + 1, committed |-> offset.stored + 1]
    /\ UNCHANGED <<catalog, meta, log, es, index, unlinked>>

\* An API error, a delivery error raised by flush(), a rebalance or a kill:
\* the producer had sent some of what was produced.  (Delivery before
\* flush() has no other effect than this: only the indexer sees it.)  The
\* consumer's thread had committed some offset stored since the start.
Die ==
    /\ crashes < MaxCrashes
    /\ crashes' = crashes + 1
    /\ DeliverSome
    /\ worker' = Idle
    /\ buffer' = NoMessages
    /\ \E k \in offset.committed .. offset.stored :
          offset' = [stored |-> k, committed |-> k]
    /\ UNCHANGED <<catalog, meta, log, es, index, unlinked>>

-----------------------------------------------------------------------------
(* ElasticsearchReleaseWorker.run and its subclasses. *)

Batch(t) == {n \in 1 .. BatchSize : es[t].stored + n <= Len(topic[t]) + 1}

\* Mutant of Indexing: of two documents of one entity the first one stays.
IndexingFirst(t, positions) ==
    [e \in Entity |->
        LET written == {p \in positions : /\ topic[t][p].ident = e
                                          /\ topic[t][p].state # "wip"}
        IN  IF written = {} THEN index[e]
            ELSE Indexable(topic[t][CHOOSE p \in written :
                                       \A q \in written : q >= p])]

\* The index once the chosen positions of the topic are written in order.
Indexing(t, positions) ==
    [e \in Entity |->
        LET written == {p \in positions : /\ topic[t][p].ident = e
                                          /\ topic[t][p].state # "wip"}
        IN  IF written = {} THEN index[e]
            ELSE Indexable(topic[t][CHOOSE p \in written :
                                       \A q \in written : q <= p])]

\* A batch is consumed, posted to _bulk and its offsets stored.
IndexBatch(t) ==
    /\ \E n \in Batch(t) :
          /\ index' = Indexing(t, es[t].stored .. es[t].stored + n - 1)
          /\ es' = [es EXCEPT ![t].stored = @ + n]
    /\ UNCHANGED <<catalog, meta, log, updates, unlinked, crashes>>

\* The worker dies; the _bulk request it had sent wrote some of its documents.
EsDie(t) ==
    /\ crashes < MaxCrashes
    /\ crashes' = crashes + 1
    /\ \E n \in Batch(t) \cup {0} :
          \E positions \in SUBSET (es[t].stored .. es[t].stored + n - 1) :
             index' = Indexing(t, positions)
    /\ \E k \in es[t].committed .. es[t].stored :
          es' = [es EXCEPT ![t] = [stored |-> k, committed |-> k]]
    /\ UNCHANGED <<catalog, meta, log, updates, unlinked>>

-----------------------------------------------------------------------------
UpdatesStep ==
    \/ PollEntry \/ FlushAndStore
    \/ \E h \in Holder : FetchHolder(h)
    \/ \E c \in Container : FetchContainer(c)
    \/ \E r \in Release : FetchRelease(r)

EntityNext ==
    \/ Accept
    \/ UpdatesStep \/ Die
    \/ \E t \in Indexed : IndexBatch(t) \/ EsDie(t)

\* Each worker goes on, and is started again when it died.  Accepts
\* and deaths are not fair.
EntitySpec ==
    /\ EntityInit /\ [][EntityNext]_entityVars
    /\ WF_entityVars(UpdatesStep)
    /\ \A t \in Indexed : WF_entityVars(IndexBatch(t))
-----------------------------------------------------------------------------
(* What the workers promise. *)

\* Entry i makes the worker produce r.
Covers(i, r) ==
    \/ r \in log[i].edits
    \/ \E h \in log[i].edits \cap Holder : r \in catalog[h].links

\* Such an entry is still to be handled.
RedoneByUpdates(r) == \E i \in offset.stored .. Len(log) : Covers(i, r)

\* The newest document of r in the topic: it is right, and is indexed or will
\* be (again).
RedoneByIndexer(r) ==
    \E p \in DOMAIN topic["release"] :
        /\ topic["release"][p] = Document(r)
        /\ \A q \in p + 1 .. Len(topic["release"]) : topic["release"][q].ident # r
        /\ p < es["release"].stored => index[r] = Indexable(Document(r))

Untouched(r) ==
    /\ \A p \in DOMAIN topic["release"] : topic["release"][p].ident # r
    /\ index[r] = Indexable(Document(r))

\* No update is lost: wherever the workers died and whatever they repeat, a
\* release whose document in the index is out of date is still to be fetched
\* or indexed, unless its last change only took it out of a file, fileset or
\* web capture (the TODO at changelog.py:386).
UpdatesNotLost ==
    "release" \in Indexed =>
        \A r \in Release : \/ catalog[r].state = "wip"
                           \/ r \in unlinked
                           \/ RedoneByUpdates(r)
                           \/ RedoneByIndexer(r)
                           \/ Untouched(r)

\* Once editing stops, the index shows the catalog: redelivered batches, which
\* write older documents again, end with the newest.
IndexConverges ==
    \A e \in Entity :
        TopicOf(e) \in Indexed /\ e \notin Capture =>
            <>[](\/ catalog[e].state = "wip"
                 \/ e \in unlinked
                 \/ index[e] = Indexable(Document(e)))

\* A new release that is worth it, and that no file holds from the time the
\* worker takes up its entry, is sent to the ingest topic, whatever else is
\* published or dies meanwhile.  (One that loses its only file later never is.)
NewReleasesIngested ==
    \A r \in Release :
        [](( /\ \E i \in offset.stored .. Len(log) :
                    r \in log[i].new /\ worker.entry # i
             /\ Wanted(meta[r])
             /\ [](catalog[r].state = "active" /\ Holders(r) \cap File = {}))
           => <>(r \in requested))

=============================================================================
