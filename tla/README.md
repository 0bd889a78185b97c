# Fatcat in TLA+

Specifications of [fatcat](../src/README.md), the versioned bibliographic catalog
of the Internet Archive: the editing core of its API server (`rust/`), the Python
workers, harvesters, importers and bulk jobs around it (`python/fatcat_tools/`),
the editing pages of its web interface (`python/fatcat_web/`), and the exporter. TLC checks
small instances; TLAPS checks theorems, in the modules named `*Proofs`, that hold
for any number of editgroups, entities, connections, changelog indices, records,
editors, files, threads and deaths. Every safety property of a passing run is a theorem.

Paths below are relative to `src/`.

## The system

Clients talk to one HTTP API server in front of one Postgres database. An
*entity* (release, work, file, ...) is a row of `<entity>_ident` that points to
an immutable row of `<entity>_rev`. Clients open an *editgroup*, add at most one
*edit* per entity to it, and somebody with the right role *accepts* it: the
server copies the edits to the ident rows and appends a row to the *changelog*.
Everything else in the system follows the changelog.

| Component | State it keeps | Operations | Hard part | What makes it correct | Modelled by |
|---|---|---|---|---|---|
| Editing core (`rust/src/entity_crud.rs`, `editing.rs`, `editing_crud.rs`, `endpoint_handlers.rs`) | ident, rev, edit, editgroup, changelog tables | create, update, redirect, revert, delete, delete edit, create editgroup, accept, auto-batch | checks made at edit time and trusted at accept time; redirects; two records of "accepted" | published entities are the replay of the changelog; redirects stay sound | `Catalog`, `PublishedLog`, `CatalogProofs` |
| Transactions (`server.rs`, `endpoints.rs`) | one transaction per pooled connection | the same calls, statement by statement | READ COMMITTED: check-then-act without locks, statements that wait for each other's rows | overlapping accepts neither lose nor mix edits | `CatalogTxn`, `CatalogTxnProofs` |
| Changelog and `ChangelogWorker` (`workers/changelog.py:13-81`) | the index sequence; the offset, recovered from Kafka | poll, fetch by index, produce, flush | out-of-order commits, gaps, restarts, delivery errors | the topic is the changelog, in order | `ChangelogFeed`, `ChangelogFeedProofs` |
| `EntityUpdatesWorker`, Elasticsearch workers (`workers/`) | consumer offsets, messages in the producer, a batch | fetch entities again, fan out, ask for ingest, bulk index | redelivery; entities newer than the entry; batches out of date | the newest state reaches the index | `EntityFeed`, `EntityFeedProofs` |
| Harvesters (`harvest/`) | `HarvestState`: dates to do and done, replayed from Kafka | next date, fetch, complete | restart between fetch and complete; sliding window | a date reported complete is in the topic | `Harvest`, `IngestPipeline`, `IngestProofs` |
| Importers on Kafka (`importers/common.py`, `crossref.py`, `ingest.py`) | open editgroup, edit counter, entity queue, ISSN-L cache, consumer offset | push record, accept every `edit_batch_size` edits, insert the queue | offsets stored before entities are inserted; a crash half-way | no record lost, none inserted twice, containers published | `Importer`, `IngestPipeline`, `IngestProofs` |
| Bulk jobs: importers on files, mergers, cleaners | the same, and the idents in flight | decide on a row, edit, accept | entities read before an accept; rows that meet; reruns | nothing taken back, merges whole, reruns settle | `BulkEdits`, `BulkImport`, `BulkFixes`, `BulkJobs`, `BulkProofs` |
| Editgroup submission (`editing_crud.rs:203-291`) and review bots (`reviewers/`) | `submitted`, annotations; a `since` cursor | submit, retract, annotate, poll | a cursor in whole seconds | submissions reviewed, once | `Editgroups`, `ReviewBot`, `Curation`, `CurationProofs` |
| Editing pages (`fatcat_web/editing_routes.py`, `forms.py`) | the pages editors have open | open, post, delete and update an edit, accept | two API calls per save; stale pages; the back button | what was saved stays saved | `WebEditing`, `Curation`, `CurationProofs` |
| Bulk export (`rust/src/bin/fatcat-export.rs`) | the batch being read, two bounded channels, what each thread has at hand | read, send, fetch, print, end | workers that answer in any order, panics, full channels | rows printed once, works contiguous, only a dead worker's rows missing | `Export`, `ExportProofs` |
| Authentication (`auth.rs`) | tokens, `auth_epoch` | check, issue, revoke | clock granularity | - | not modelled |
| Search and other pages, transforms, normalisation, generated client | none of their own | - | - | - | not modelled: formats and pages, no shared state |

`PROJECT.json` lists the same components with their files, and under `hazards`
what in this code is hard to test, line by line, with the property that guards
against it.

## Modules

### `Catalog`: the API calls as atomic steps

The five variables are the five tables, for one entity type: the seven types
are instances of the same macros, and a redirect cannot leave its type.
`ident[i]` and `edit[g][i]` are rows, or `NULL` if there is none; the latter is
keyed as its `UNIQUE (editgroup_id, ident_id)` is. Revisions are opaque.

Each action is an API call that succeeds. `CreateEntity`, `UpdateEntity`,
`RedirectEntity`, `RevertEntity`, `DeleteEntity` are `db_create`, the three arms
of `db_update`, and `db_delete`; `DeleteEdit` is `db_delete_edit`;
`AcceptEditgroup` is `accept_editgroup`: the changelog check, the two redirect
checks (`ForwardRecursive`, `BackwardRecursive`), the two UPDATEs of
`db_accept_edits` (`ApplyEdits`, `UpdateRedirects`), the changelog row and
`is_accepted`. `AutoBatch` is the auto-batch endpoint, whose rows are born live.
A refused call rolls back, so it is no step.

Details taken as they are in the code: `db_update` accepts any existing row,
a WIP one of another editgroup included; `prev_rev` is `NULL` behind a redirect
in `db_update` but the raw column in `db_delete`; a redirect edit copies the
target's revision when it is made; deleting an edit leaves the ident and the
revision it made.

### `PublishedLog`: what the catalog promises

The published entities are the replay of an append-only log of changesets.
`Catalog` implements it (`ImplementsLog`, with `PublishedHead` and
`PublishedChangesets` as refinement mapping). A `head` is the plain revision or
the redirect target, since which revision a redirect *shows* follows the target.
So the log says at once: only accepts publish, an accept publishes all the
edits of its editgroup and nothing else, and the edits of an accepted editgroup
never change.

### `CatalogTxn`: the same calls, statement by statement

Every handler takes a pooled connection and opens a transaction; nothing sets
an isolation level, so Postgres runs them READ COMMITTED. `conn[c]` is where a
connection is in its call and what it has read. Each SELECT is a step on the
committed tables. An `UPDATE ... FROM` is two steps: its snapshot (`PlanApply`,
`PlanRedirects`), and its writes (`Apply`, `FinishRedirects`) once no other
transaction holds the rows, when Postgres looks at each row again as it now is
(`StillRedirects`). A row written and not committed is `Locked`; a transaction
sees its own writes (`Overlay`). `Rollback` at any point stands for refusals,
errors, deadlock victims and a stopped server. The rows an edit inserts are
invisible until COMMIT, so INSERT and COMMIT are one step. `applied` is a
history variable: which edits each changelog row stood for.

### `ChangelogFeed`: from the changelog table to Kafka

`issued`, `open`, `changelog` are the sequence behind the `BIGSERIAL` index, the
rows inserted and not committed, and the committed rows; a rollback leaves a
gap. `worker` is the loop of `ChangelogWorker.run`: `Start` reads the last
message of the topic, `Poll` asks for the newest index, `FetchEntry` fetches and
produces one entry, `FetchFails` is the uncaught 404 or `BufferError`, `Flush`
and `FlushFails` end the round. `Die` loses what the producer had queued. The
producer is external, modelled from how the worker configures and calls it: a
bounded queue delivered in order by a thread of its own (`Deliver`), requests
that fail for good (`GiveUp`, reported at the next flush, as `fail_fast` is only
called there) or are sent again behind later ones (`Retry`).

### `EntityFeed`: from the changelog topic to the search index

`catalog`, `meta` and `log` are what the API and the changelog topic show;
`Edit` and `Accept` publish an entry. `worker`, `offset`, `buffer` are
`EntityUpdatesWorker.run`: `PollEntry` reads which entities an entry edited,
`FetchHolder`, `FetchContainer`, `FetchRelease` fetch them one API call at a
time, *as they are now*, in the order of the code (holders, which add the
releases they hold, then containers, then releases with their ingest request
and work), `FlushAndStore` ends the entry. `buffer` has the messages the producer
was given and has not delivered, by topic: `flush()` delivers all of them, in
order, and before a death some of the first of each topic got through
(`DeliverSome`). `IndexBatch(t)` is a round of an
Elasticsearch worker: a batch is written as one bulk request, WIP documents left
out, and its offsets are stored; `EsDie` is an error after any part of it. What is
stored and what the broker was told of (`stored`, `committed`) are kept apart: a
process that dies starts again anywhere between. `HasIngestRequest` and
`WantLiveIngest` are the two functions that decide on an ingest request.

### `Harvest`, `Importer`, `IngestPipeline`: from the registrars to the catalog

`Harvest` is `HarvestState` (`Period`, `NextSpan`, `Complete`, and
`StartHarvester`, the replay of the state topic) and `fetch_date()` of the three
kinds of harvester, record by record where they differ: the registrars' and
OAI-PMH's end by flushing, PubMed's may give the date up (`missed`).

`Importer` is `EntityImporter` under a `KafkaJsonPusher`. There are two kinds of
pending work, which the model keeps apart as the code does: edits in the open
editgroup (`importer.editgroup`, the containers that records need), and
`importer.queue`, inserted as an auto-batch. `ParseRecord` is the part of
`parse_record()` that calls the API, `PushEntity` is `push_entity()` and a full
queue, `StoreOffsets` the end of a batch, `FinishEditgroup` and `FinishQueue`
the two halves of `finish()`. `job` tells the Crossref kind from the ingest kind
(which looks into its own queue) and direct acceptance from `submit_mode`.

`IngestPipeline` puts the two on one topic, which `RecordTopic` declares.

### `Editgroups`, `WebEditing`, `ReviewBot`, `Curation`: editors and reviewers

`Editgroups` has the rows of `editgroup` and the calls that submit, retract and
accept. `WebEditing` gives each editor one open page (`tab`). Opening it, posting
it (`PostEdit` fetches entity and edit again), deleting the old edit
(`ClearEdit`) and writing the new one (`WriteEdit`) are separate steps, as they
are separate API calls; `RequestFails` may take the place of the last, and the
editor may go `Back` and post again. A save adds a mark of its own to what the
page changes, so a revision tells which saves it holds; a form passes on the
fields it does not show as they are when it is *posted*, the TOML page as they
were when it was *opened*. `history` records saves, losses and accepts.

`ReviewBot` is `run()`: list a page of submissions after `since`, annotate each,
move `since` to the last. Time is in ticks, several to a second; `since` and the
request are in whole seconds, as `isoformat(timespec="seconds")` makes them.

`Curation` composes them. A submitted editgroup takes edits like any other and
the bot's listing has none, so the two halves do not meet except in the rows of
`Editgroups`: a behaviour plays one of two scenes.

### `BulkEdits`, `BulkImport`, `BulkFixes`, `BulkJobs`: jobs over files

`BulkEdits` has what the jobs share: a process (`run`: row, count, idents in
flight, queue, journals made), an open editgroup that is published by an accept, the catalog as
entities with identifiers, URLs, links and marks (fields), others who edit it,
and the end of a process, after which the job is run again over the same file.
`BulkImport` has `push_record()` (`PushRow`) and `try_update()` of twelve
importers, one operator each, which says: skip, insert, update this entity to
that body, or end the process. A mark is a field that is set, or a value of one
that may be assigned: `Assign` replaces an entry of "extra" (`Entry`) and raises
where the entity has no "extra" or the row no such entry (`AssignRaises`); what
JSTOR overwrites besides is `JstorValue`. `Updating` has the jobs that are run with
`do_updates`, `Gone` the releases `Fileset` cannot have. `MakeContainer` is the
container that JSTOR and PubMed make while they parse a row, which counts in the
same editgroup. Where an importer reads the entity and only then calls
`get_editgroup_id()`, which may accept the full editgroup, `UpdateEntity` keeps
that order; a second edit of an entity in the editgroup is refused
by the `UNIQUE` constraint, so edits only ever join it (`Joined`). `BulkFixes` has the mergers of files and containers and the cleaner
of files, which accept after a row instead. A row's API calls are one step.
`BulkJobs` says what file a job may be given: the rows of its kind, over a
catalog without chains of redirects, and for the cleaner a dump of that catalog
(`FilesAssumption`).

### `Export`: threads and channels

`do_export()` and `do_export_batch()` (`job.by_work`), from the spawning of the
threads to the return of the main one. A row is the number of its line; `batch`
and `last` are the group being read, `parcel` is what main is about to send. A
`send` is a step of its own, enabled when the channel has room, and nothing else
ends it: crossbeam's `send` of this version returns nothing, and main keeps a
receiver of the row channel anyway. `worker[w]` and `printer` are where a thread
is and the rows it has at hand. `FetchFails` is any error in `db_get_rev`,
`db_expand` or the serialization, which `result.unwrap()` turns into a panic;
`PrintFails` is a write or flush that fails, before any of the rows at hand. `Quit` is
`done_receiver.recv()`, which ends when the printer has dropped its sender. After
`ok` and `err` nothing moves, as the process is over: `err` is a line that cannot be
read or parsed, or the assertion that there is a worker.

## Runs

All are started as `tlc -config X.cfg M`. Safety-only runs say
`CHECK_DEADLOCK FALSE`: clients may stop calling, and the bounded identifiers
run out.

| Run | Question | Bounds | States |
|---|---|---|---|
| `catalog` (`MCCatalog.cfg`) | Do the tables stay consistent, and do they implement `PublishedLog`? | 3 editgroups, 3 entities, 3 revisions, 5 edits | 173,024 |
| `catalog_chains` (`MCCatalogChains.cfg`) | Can a redirect to a redirect be published? (It can.) | 2 of each, 4 edits | violated |
| `catalog_txn` (`MCCatalogTxn.cfg`) | Do overlapping transactions publish what they read? | 2 connections, 2 open editgroups over a catalog with 2 published entities (one redirected), 5 edits, 3 log rows | 1,717,636 |
| `catalog_serial` (`MCCatalogSerial.cfg`) | Do the statements add up to the calls of `Catalog`? | 1 connection, 3 editgroups, 2 entities, 3 revisions, 4 edits | 135,215 |
| `double_accept` (`MCCatalogDoubleAccept.cfg`) | Is an editgroup logged once? (Not if two accepts overlap.) | as `catalog_txn` | violated |
| `late_edit` (`MCCatalogLateEdit.cfg`) | Do the edits of an accepted editgroup stay as applied? (Not if an edit overlaps the accept.) | as `catalog_txn` | violated |
| `changelog_feed` (`MCChangelogFeed.cfg`) | Does the topic follow the changelog? | 4 indices, queue of 2, 2 crashes, 2 failed requests | 41,672 |
| `entity_feed` (`MCEntityFeed.cfg`) | Does the index end as the catalog, and is every release worth it sent for ingest? | 1 release, file, web capture, container; 2 entries of up to 2 edits, batches of 2, 1 crash | 672,893 |
| `ingest_pipeline` (`MCIngestPipeline.cfg`) | Which harvested records reach the catalog, and how often? | 3 kinds of harvester or ingest results, days 0 to 3, window of 2, 2 keys, 2 journals, editgroups and batches of 2, 1 death of each process | 345,186 |
| `curation` (`MCCuration.cfg`) | Which saves survive, which submissions are reviewed? | an editor and an admin, 1 entity, 2 editgroups, 2 saves (3 of forms); 5 ticks, 3 to the second, pages of 1, 1 death of the bot | 2,349,277 |
| `bulk_jobs` (`MCBulkJobs.cfg`) | Do jobs take nothing back, merge whole, and settle? | 70 pairs of job and file, files of 1 to 3 rows over 4 entities, editgroups of 2, 2 edits by others, 1 kill | 580,604 |
| `export` (`MCExport.cfg`) | Is each row printed once, are works contiguous, what can be missing, and does it end? | 2 workers, channels of 1, tables of 5 or 6 lines, both functions, redirects or not | 60,914 |

Why the bounds suffice to meet the interesting cases. The redirect properties
relate at most three rows (a source, its target, the target's target) and three
editgroups (one to publish in a batch, two pending at once); five edits are the
batch of three and one edit in each other editgroup, or smaller batches and
more edits. A race in `CatalogTxn` is between two transactions; the seeded
start (`SeededInit`) is a state reached by a batch accept and a redirect accept,
and lets the bound go to what happens afterwards. Four indices give the worker
a committed, an open and a rolled-back index in every order, with a queue
smaller than the backlog.

`EntityFeed` handles releases one by one, so one release suffices; two entries
give an older and a newer state of it and a redelivery of the older, two holders
the difference between a file (which stops an ingest request) and another
holder. In `IngestPipeline` the same key comes on two dates and, for ingest
results, within one batch and across two; four containers are those of two
journals, created once more after a death. In `Curation` a lost save needs two
pages and one editgroup, a lost publication two editgroups; a third save (of
forms) opens on what the second did. Five ticks at three to the second have two
submissions in one second, one on a whole second, and one in the next; pages of
one make the bot list while more is waiting. The files of `MCBulkJobs` have for
every job rows that meet in one editgroup (of two edits), rows that meet across
the accept between two, and rows that do not meet, on entities that are there
and on new ones, rows that end the process in every run (a release that is gone, an
entity without "extra", a row without the entry), files with and without
`do_updates`, and a journal without container; two edits by others are one that races a row and one that
redirects an entity. The tables of `export` have groups of one to three rows,
rows without one, skipped lines inside a group and at its end, a group that
comes again later, and a line that ends the run; with channels of one place and
two workers both channels fill up, and parcels overtake each other. `bulk_jobs` is checked for deadlock: a job can always
be run again.

### What holds

- `WipIsPlain`, `RedirectTargetsLive`: what `db_update` checks once stays true,
  through accepts, reverts and deleted edits of any editgroup.
- `AcceptedOnce`: `is_accepted` and the changelog agree (no constraint says so).
- `ChainsWithinOneEditgroup`: exactly what the two redirect checks buy.
- `RedirectsFollowTarget`: what the second UPDATE buys.
- `ImplementsLog`; under concurrency `CommitsPublish`, its action part, with the
  edits an accept *read* as the changeset.
- `ImplementsCatalog`: `CatalogTxn` with one connection refines `Catalog`.
- `FeedComplete`, `FeedInOrder`, `EntriesReachTopic`: the worker's recovered
  position can be trusted, nothing is repeated, entries before a gap arrive.
- `UpdatesNotLost`, `IndexConverges`, `NewReleasesIngested`: fetching an entity
  *now* instead of as of its entry, and writing redelivered batches, do no lasting
  harm, as the last message of an entity is always the newest.
- `DatesDelivered`, `EnqueuedHarvested`: a date is complete only when its records
  are in the topic; an enqueued date is harvested unless it falls out of the
  window.
- `RecordsKept`, `RecordsImported`: records get to the
  catalog, except those in the queue of a process that died after their offsets
  were committed (`forgotten`). `InsertedOnce`, `OneContainerPerJournal`: redelivery
  alone duplicates nothing. `ContainersPublished`: containers
  become live, except those in the editgroup of a process that died (`orphans`).
- `SavesKept`, `PublishedKept`: how a save, or a publication, can be lost, and that
  there is no other way.
- `NonePassedOver`, `AnnotatedOnce`, `SubmittedReviewed`: what the bot's cursor
  does and does not pass over.
- `MergesUnchained`, `MergesWhole`, `NothingTakenBack`, `RerunsSettle`: the order
  in which jobs read, accept and write.
- `PrintedOnce`, `GroupsContiguous`: what the exporter prints, whoever answers
  first. `MissingIsTheDeads`: an exit of 0 still means that only rows of panicked
  workers are missing, as long as the printer did not panic. `ExportEnds`: it
  returns, but for two cases: all workers have panicked, or the printer has and
  everybody waits for it.

Type invariants are checked by the runs of `Catalog`, `EntityFeed`, `IngestPipeline`,
`Curation`, `BulkJobs` and `Export`; those of `CatalogTxn` and `ChangelogFeed` are
left to their theorems (`TxnTypeCorrect`, `FeedTypeCorrect`).

Several of these say "unless", since the code does lose records, saves or
submissions in the cases named. No exemption is idle:
TLC finds a violation when any one of them is left out.

Every property has a mutant next to the definition it mutates (the comment says
"Mutant of"): a plausible bug TLC finds with that property. They are used by
nothing else.

### Where the code and what is said of it disagree

- **Redirect chains and cycles.** `notes/UNSORTED.txt:9` says redirects to
  redirects are refused at accept. The checks compare an edit with the ident
  table before the accept, never with the other edits of the editgroup: one that
  redirects a to b and b to a is accepted.
- **Double accept.** `rust/src/editing.rs:55` "check that we haven't accepted
  already". Two overlapping accepts both pass; the changelog gets two rows for
  the editgroup (`NB: could leave this to a UNIQUE constraint`, line 56: that
  would close it).
- **Late edits.** `fatcat-openapi2.yml:1573` "must be open for updates", and
  `entity_crud.rs:577` "ensure that edit hasn't been accepted": both checks
  lock nothing. An edit can join, or leave, an editgroup while it is accepted.

Met while modelling, and given no run: no text promises otherwise, or another
property names the case as its exception, or the point is not behaviour over time:

- A redirect shows the revision its target had when the redirect *edit* was
  made (`RedirectsCurrent` in `Catalog` does not hold): the second UPDATE only
  serves redirects that are in place before the accept.
- In `CatalogTxn`, a redirect committed while another accept is between the
  snapshot of its second UPDATE and its commit keeps the old revision, so
  `RedirectsFollowTarget` is a property of `Catalog` only; likewise two
  overlapping accepts can make a chain out of two editgroups.
- `prev_rev` is never compared at accept, so updates can be lost
  (`notes/UNSORTED.txt:37` says so too).
- `fatcat-openapi2.yml:1578` says an update call can replace an edit of the same
  editgroup; the `UNIQUE` constraint refuses it.
- `guide/src/roadmap.md:34` knows that the changelog index has gaps; the worker, whose
  docstring promises all changelogs, dies at the first one each time it is started.
  `EntriesReachTopic` therefore speaks of the entries before it.
- A delivery error makes the worker lose the entry: later ones of the batch
  are delivered before `flush()` raises, and the restart begins after them.
  `FeedComplete` therefore exempts the entries a request failed for.
- A release that only *left* a file, fileset or web capture is not fetched again
  (the TODO at `workers/changelog.py:386`), so its document keeps the old counts.
- `next_span()` looks back one day only, though its docstring
  (`harvest_common.py:106`) has it find new timespans: with `continuous`, a
  process that slept for two days leaves one out until it is started again.
- The docstring of the PubMed harvester's `fetch_date()` (`pubmed.py:115`) says a
  missing mapping fails; it returns `False`, and `run()` completes the date.
- Crossref's importer asks the catalog and not its queue whether a DOI is new:
  two records of one DOI in one batch become two releases.
- The Kafka pusher stores offsets of records that are still queued, as the comment
  at `importers/common.py:803` says; containers created for them are
  orphaned likewise, while a release inserted from the queue already names one.
- The TOML page of an edit in progress has the field `revision` (`forms.py:525`
  removes it for active entities only), so posting it points the edit to the old
  revision; the comment at `editing_routes.py:425`, "need to clear revision",
  clears it on an object that is then not used.
- "If not editor can hit back and try again" (`editing_routes.py:263`): after the
  old edit was deleted, the page of that edit answers 404.
- The bot leaves out a submission in the same second as one it has annotated, and
  one exactly on a whole second (the TODO in `run()`). Its listing carries no
  edits, so the checks of single entities never run; `run_checks()`
  would call `get_<type>_rev`, which the client does not have.
- `mergers/common.py:95`: `all_ids` is the list of duplicates itself, so a row with
  `primary_id` always ends the process at the assertion that it is not among them;
  all edits of its batch stay unpublished in every run.
- Idents of a merge row that was skipped stay in flight until the batch ends.
- `choose_primary_file()` does not ask what redirects to an entity: an editgroup
  that redirects a redirect's target is refused, in every run (`Blocked`; the TODO
  at `mergers/files.py:38`).
- The journal metadata importer joins the KBART holdings the catalog has more of
  again in every run.
- JSTOR's importer overwrites type, publisher, contribs, language and
  `extra["jstor"]`, be it by None (`jstor.py:315-324`; "over-writing for now", the
  TODO there); `pubmed.py:488`, `doaj_article.py:254` and `dblp_release.py:396`
  replace their entry of "extra". `NothingTakenBack` exempts these values
  (`Assigned`), nothing else of these jobs.
- Those four assignments raise when the release has no "extra", or the row lacks
  the entry; `fileset_generic.py:68-72` raises for a release that is missing or not
  active. Such a row ends the process in every run, and the edits of its batch, rows
  before it included, are not accepted by any (`RowEnds`).
- PubMed's importer can complete another article when PMID and
  DOI disagree, and its `finally: return False` swallows errors.
- The importers that do not look at the idents in flight lose an update when two
  rows about one entity stand on either side of an accept. Rows that share no
  identifier may still find one entity, so `NothingTakenBack` asks of them that no
  two rows find the same one (`FindsApart`), and exempts them otherwise.
- Some edit views (`*_edit_delete` and deletion of creators, filesets, web
  captures and works) lack the `@login_required` the others have; the API refuses
  the call later.
- `rust/src/bin/fatcat-export.rs:217`, "wait for all channels to finish, and quit":
  main waits for the end of the printer, a panic of it included, and then returns `Ok`
  with rows left in the channels (`MissingIsTheDeads` has the conditions). When every
  worker has panicked nobody takes rows from the full channel, and main's `send`
  never returns (`ExportEnds`).
- `fatcat-export.rs:207`, "Use num_cpus/2": line 385 has `min` for `max`, so there is
  one worker on any machine, and none on one of a single processor (`NumWorkers`).

## Fairness

What the processes do in their loops is fair; what people, crashes and other
processes do never is. In each module crashes of no cause in the model are
bounded by a constant, so that a process gets to run to its end at last.

- `EntitySpec`: `WF(UpdatesStep)` and `WF(IndexBatch(t))`, the loops of the two
  workers, started again by the operator after a crash. Delivery in the background
  (`Deliver`) needs none: `flush()` waits for it.
- `PipelineSpec`: `WF(HarvestStep)` and `WF(ImporterStep)`, the loops of harvester
  and importer. Days pass, and reviewers accept, or do not.
- `CurationSpec`: `WF(InReview(BotStep))`, the bot's loop. Editors and the clock
  are under no obligation.
- `BulkSpec`: `WF(JobStep)`: a job goes on, and is run again when it ended.
- `ExportSpec`: weak fairness of main, of each worker and of the printer, which is
  what a scheduler gives a thread that is not blocked; each fetch and each write
  ends, one way or the other.

`FeedSpec` assumes:

- `WF(EndEntry)`: a transaction that inserted a changelog row commits or rolls
  back; requests do not hang forever.
- `WF(WorkerStep)`: the worker's loop goes on, and the worker is started again
  when it ends. The code does not restart it, the operator does
  (`fail_fast`: "Bailing out..."). Crashes of no cause in the model are bounded
  (`MaxCrashes`); the deaths the code brings on itself are not.
- `SF(Deliver)`: the producer's own thread delivers in the background. Strong,
  since the queue is lost each time the worker dies; a worker dying over and
  over at the same index lets that thread run for the length of an HTTP call
  each time. Without it, one can have a worker that never gets a message out.

Also assumed: one worker runs, and a process that died has no request left
with the broker by the time its successor reads the topic.

## Proofs

`CatalogProofs` proves the properties of the `catalog` run for arbitrary sets
`Editgroup`, `Ident`, `Rev`, from one assumption, `NullAssumption` (`NULL` is no
identifier and no row; TLC evaluates it in every run of `Catalog`).

- `TypeCorrect`: `TypeOK` is inductive alone.
- `IInv == TypeOK /\ WipIsPlain /\ RedirectTargetsLive /\ AcceptedOnce /\
  ChainsWithinOneEditgroup` is inductive: `IInvInit`, `IInvNext`, `IInvAlways`.
  The parts need each other. Only `AcceptedOnce` tells that a new batch is not
  in the changelog already and that an editgroup accepted now is its last entry;
  only `RedirectTargetsLive` tells that the row a pending redirect names exists
  at accept, that an auto-batch cannot create it anew, and that a live row stays
  live (`LiveIsOneWay`), which is the argument of the comment at
  `entity_crud.rs:435`.
- `ChainsOnlyWithinOneEditgroup` goes by the accept step: a new chain i to j has
  either both rows edited by the editgroup (then it is its witness), or one, and
  then the forward or the backward check refuses it; an old chain keeps its
  witness (`LastEditKept`) unless an edit breaks it up.
- `RedirectsAlwaysFollowTarget`: an action property, from `IInv` and the
  definition of the second UPDATE.
- `CatalogImplementsLog`: the initial states map, and each step is a `Publish`
  (`AcceptPublishes`, `AutoBatchPublishes`) or leaves head and log alone
  (`UnpublishedStep`); `AcceptedEditsClosed` is why old changesets never change.

`ChangelogFeedProofs` proves the safety of the `changelog_feed` run for any
number of indices, crashes and failed requests and any queue length, from
`FeedAssumption` (the bounds are naturals, and the queue holds a message).

- `FeedTypeCorrect`: `FeedTypeOK` is inductive alone.
- `FeedAlwaysComplete`: `FeedComplete` speaks of the topic only, and a message is
  in the queue long before. `CompleteInv` adds what makes it inductive:
  `QueueComplete` (all that precedes a queued message is in the topic, faulted,
  or queued *before* it, so whichever message happens to be delivered last before
  a crash leaves a complete topic; `Retry` keeps it because what it moves to the
  back is faulted) and `OffsetComplete` (a running worker has produced all up to
  its offset; a stopped one has nothing queued, so the next may trust the topic).
- `FeedAlwaysInOrder`: `OrderInv` says that, as long as nothing faulted, the topic
  and then the queue are one increasing sequence that ends at or before the
  offset. `Start` re-establishes it from the last message, which is the greatest.

`IngestProofs` first proves the safety of the harvesters in `ingest_pipeline`, with
the importer beside them, for any number of days, any window, any records and any
number of deaths, from `HarvestAssumption`, `PipelineAssumption` and
`RecordAssumption` (the bounds are naturals, the topics hold records).

- `HarvestTypeCorrect` (half of `PipelineTypeCorrect`): `HarvestTypeOK` is inductive alone, dates at hand included.
- `DatesAlwaysDelivered`: `DeliveredInv` adds to `DatesDelivered` what a process
  knows and the state topic does not: after `fetch_date()` and before `complete()`
  the records of the date at hand are in the topic. `StaysInTopic` (a topic only
  grows, `TopicGrows`) and `FetchDelivers` do the rest; the importer only reads
  (`ImporterReads`).

It then proves the safety of the importers, under
`PipelineSpec`, from `ImporterAssumption` beside the three above (bounds are
naturals, batches and editgroups hold something).

- `ImporterTypeCorrect` (the other half): `ImporterInv` adds to the type what each place of the
  loop implies: a record to be updated lies within the batch at hand.
- `RecordsAlwaysKept`: `RecordsKept` speaks of stored offsets, which follow the
  record at hand. `KeptInv` says it of every record before that one: kept
  (catalog, review, queue, or `forgotten` with a process) or to come again.
- `ContainersAlwaysPublished`, `OneContainerPublished`: `ContainersInv`. Every
  container is `Due` (live, or in the open editgroup) or an orphan, and a journal
  has one that is due. This needs the cache: a container of the open editgroup is
  in no lookup, and only the cache keeps the process from creating another.
- `AlwaysInsertedOnce`: `OnceInv`. A key is queued once, and only while the
  catalog lacks it; what is queued was consumed by this process, so when offsets
  go back, the queue is empty.

`CatalogTxnProofs` is about any number of connections, from `NullAssumption` and
`FoundAssumption`.

- `TxnTypeCorrect`: `TxnTypeOK` is inductive with `RowsExist` (idents that a
  statement is to write have a row, as no row is ever deleted).
- `CommitsAlwaysPublish`: `TxnInv` adds `WritesEdits`, which says what an accept
  has written and not committed (each row its edits name, to what they say, and
  of other rows the revision only), and `RowsLocked` (two accepts never hold the
  same row). The second is what lets the first survive the commit of another.
- `SerialImplementsCatalog`: `Serial => (TxnSpec => ImplementsCatalog)`, where
  `Serial` is "at most one connection", as in `catalog_serial`. `SerialInv` says
  that whatever the call has checked and read is still so (`Current`): true
  because nobody else edits meanwhile, and false with two connections, as
  `double_accept` and `late_edit` show. `IInv` of `CatalogProofs` is used again.
- `SerialLogsOnce`, `SerialFreezesEdits`: what `double_accept` and `late_edit` refute holds with one
  connection, batches in between included. `FrozenInv` adds that an accept under
  way still writes what its editgroup holds, and that the two logs, `changelog`
  and `applied`, are of one length; `AcceptedEditsKept` says that no call touches
  the edits of an editgroup in the changelog. So both faults need two connections.

`EntityFeedProofs`, from `EntityFeedAssumption` (types of entities are disjoint
and finite, bounds are naturals, a batch holds a message).

- `EntityTypeCorrect`: with `WorkerOK`, the entry at hand is the one at the offset.
- `NoUpdateLost`: `UpdatesNotLost` (here per release, `UpToDate`) is not inductive:
  a crash loses what was fetched, and the indexer may have older messages before
  it. `AtHand` says that a release of the entry at hand is still to be fetched, has
  its newest document in the producer as it is now, or is the matter of a later
  entry; `Justified`, that nothing is sent without an entry which would send it again:
  part of a buffer, delivered before a death, cannot make an older document the
  last. `Routed`: the other topics say nothing of releases.

`CurationProofs`, from `EditgroupsAssumption`, `WebAssumption`,
`ReviewBotAssumption` (bounds are naturals, a second and a page have a length,
admins are users). A step is one of a page, of the bot, or of others (`StepIs`).

- `CurationTypeCorrect`: `CurationTypeOK` with what its parts leave open: pages are
  over entities and editgroups that are there, no submission lies in the future.
- `NoneEverPassedOver`, `AlwaysAnnotatedOnce`: `ReviewInv`. Between two pages
  (`Listing`), what the process annotated is not after `since`, and what it owes is;
  within a page (`Working`), what it annotated is in none of the places left, and
  what it owes is in one of them or no earlier than the last. The exempt
  submissions (same second, whole second) are just those for which this fails.
- `SavesAlwaysKept`: of every save in the history, `SaveKept`: a later event undid
  it (`Gone`), or two editors are between deleting and making the same edit
  (`Crowded`: one of them must fail, and the save with it), or it is `Held`: in the
  edit and in every page that might replace it, or that page was filled before it.
- `PublishedAlwaysKept`: likewise of every save and the accept that published it:
  a stale edit was accepted since (`Replaced`), or the entity, each pending edit and
  each page have the save or are older than the accept (`Spread`). Edits of an
  accepted editgroup are `Frozen`, so what `Replaced` says stays true.

`BulkProofs` is about any catalog, files and sizes, from `BulkAssumption` and
`FilesAssumption` (see above). `StepDoes` reduces the steps of the fifteen jobs to
what they do to the batch: leave it, add to it, accept it, start the next, lose
it; three invariants then go by those cases.

- `BulkTypeCorrect`: counts bound the batch, and jobs that look at the idents in
  flight have all that they edit there.
- `MergesNeverChain`: the server does not compare the edits of one editgroup, so
  `ChainInv` has to: all that a batch redirects to is in flight (`Pointing`), and a
  row with an ident in flight is refused.
- `AlwaysMergedWhole`: `WholeInv` says of a batch what `MergesWhole` says of its
  accept: an edit that redirects comes with those of its row, and their target has
  all that they have *now*, `raced` ones aside.
- `NothingEverTakenBack`: `KeptInv`. Edits of the batch keep what their entities
  have now, but for the values the job assigns (`Assigned`; `AssigningFits` has what
  an assignment leaves). For importers that ignore the idents in flight this
  takes `FoundApart` (an entity edited in the batch is found by rows already
  read only), for the cleaner `Dumped` (what was not changed is as in the dump).

TLC found no violation of `ChainInv`, `WholeInv` and `KeptInv` on the instance of `bulk_jobs`.

`ExportProofs` is about any table, any number of workers, any length of the
channels and any panics, from `ExportAssumption` (a channel has a place, `-j` and
the processors are naturals, lines are lines). `StepMoves` reduces the steps of the
threads to ten ways rows move (`Move`), in which panics and ends, that leave rows
where they are, are one; the invariants go by those.

- `ExportTypesCorrect`: `ExportInv` adds to the type that nothing empty is passed
  on (`AtHand`) and who can have ended when (`EndsInOrder`): a worker that ended in
  order saw an empty channel that stays so, the printer ended after all workers.
- `RowsPrintedOnce`, `MissingRowsAreTheDeads`: `DeliveryInv`. A wanted row that
  was read is in exactly one of seven places, in one sequence of it, once
  (`InPlace`, `AllDistinct`), and no other row is in any; when main returns,
  `EndsInOrder` empties all places but three.
- `WorksPrintedTogether`: `GroupsContiguous` speaks of the output only. `WholeInv`
  says of every parcel on its way that it has, with a row, all rows together
  with it and no other (`Whole`), and of the batch the same up to the line that was
  read (`Open`; its last row tells where the group goes on, `NothingBefore` that
  a new group is new). `PrintInv` then says that what is being printed is one group
  and that no row of it is printed before another's rows begin. It needs `InPlace`:
  a parcel that arrives has no row in the output yet.

TLC found no violation of these invariants on the instance of `export`.

Only model-checked: what is under fairness (`EntriesReachTopic`, `IndexConverges`,
`NewReleasesIngested`, `EnqueuedHarvested`, `RecordsImported`, `SubmittedReviewed`, `RerunsSettle`, `ExportEnds`), as liveness is
out of the prover's reach; and the violations, which are single behaviours.

## Not modelled

- The sample rows that `migrations/*_init/up.sql` inserts for tests; the contents
  of revisions and their links to other entities except in `EntityFeed` and
  `BulkEdits`; the work a release creates; tokens and roles other than owner and
  admin of an editgroup.
- In `ChangelogFeed`: an initial offset given by hand, and a broker that is down
  when the worker starts (a `Crash`). In `EntityFeed`: the first start of a
  consumer group (`auto.offset.reset` is `latest`, so a committed offset is
  assumed), names of containers and creators copied into release documents (not
  refreshed by anything), and the work topic, of which only the last index is kept.
- `update_editgroup` checks `is_accepted` and writes in one step of `Editgroups`.
- In `WebEditing` the fetch of an edit and the request that follows are one step,
  and so are the checks of a page that is opened; redirects are left to `Catalog`.
- In `BulkJobs` a row's API calls are one step, options other than `do_updates` have their defaults, and
  the ORCID, Datacite, JALC and Crossref importers, which only insert, are
  `Importer`'s; the arXiv importer, which creates versions in its editgroup, and
  `ReleaseMerger`, whose `try_merge()` raises `NotImplementedError`, are left out.
- In `Export` the rows of a batch are fetched in one step, since an error loses all
  of them; a row counts as printed when it is written, and a failing flush is a
  failing write of what it loses; a connection pool that has none to give at the
  start is left out. `redirects` is the parameter, true or false: `main()` asks
  clap for `include_redirects` where the option is `--include-redirects`.
- By far the most lines of the repository are none of the above: the generated
  API client, the conversion of twenty source formats into entities
  (`parse_record()`), the conversion of entities into search documents, search and
  browsing pages, command lines. They keep no state and interleave with nothing;
  a model of them would repeat them. So the definitions here translate a small
  part of the lines and, we think, most of the behaviour over time.

## Plan

Done: the modules and runs above, and a theorem for every safety property they
check.

Left:

1. Lemmas about the mutual order of the topics in `EntityFeed`, should the work
   topic be modelled message by message.
2. The token epochs of `auth.rs`: revoking and issuing tokens within the one second
   by which they are compared.
