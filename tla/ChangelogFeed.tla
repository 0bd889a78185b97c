--------------------------- MODULE ChangelogFeed ---------------------------
(***************************************************************************)
(* From the changelog table to the Kafka topic that every consumer of the  *)
(* catalog reads: ChangelogWorker of fatcat_tools/workers/changelog.py,    *)
(* the two API calls it makes, and the accepts that write the table.       *)
(*                                                                         *)
(* A changelog index is drawn from a Postgres sequence when an accept      *)
(* inserts its row.  Rows appear at COMMIT, in any order, and an accept    *)
(* that rolls back keeps the index it drew: a gap.  The worker walks the   *)
(* indices one by one, and knows where it stopped only from the last       *)
(* message of the topic.                                                   *)
(*                                                                         *)
(* The Kafka producer (librdkafka) is external: a bounded queue that its   *)
(* own thread empties into the topic, retrying or giving up on a request   *)
(* that fails.  A process that died is taken to have no request left with  *)
(* the broker when its successor reads the topic, and one worker runs.     *)
(***************************************************************************)
EXTENDS Naturals, Sequences

CONSTANTS
    MaxIndex,   \* bound on the changelog indices drawn
    QueueLimit, \* queue.buffering.max.messages of the producer
    MaxCrashes, \* bound on the times the worker dies for no reason of its own
    MaxFaults   \* bound on the produce requests that fail

ASSUME FeedAssumption ==
    /\ MaxIndex \in Nat /\ MaxCrashes \in Nat /\ MaxFaults \in Nat
    /\ QueueLimit \in Nat \ {0}

Index == 1 .. MaxIndex

VARIABLES
    issued,     \* the last index the sequence gave
    open,       \* the indices inserted by transactions that still run
    changelog,  \* the indices of the committed rows
    worker,     \* the worker process: where it is, self.offset, latest
    queue,      \* messages produced and not yet accepted by the broker
    failing,    \* a delivery error waits for flush() to raise it
    topic,      \* the messages of the (single-partition) topic
    faulted,    \* auxiliary: the indices some produce request failed for
    crashes,    \* auxiliary: counts up to MaxCrashes
    faults      \* auxiliary: counts up to MaxFaults

table == <<issued, open, changelog>>
producer == <<queue, failing, topic, faulted, faults>>
feedVars == <<table, worker, producer, crashes>>

Down == [at |-> "down", offset |-> 0, latest |-> 0]

FeedTypeOK ==
    /\ issued \in 0 .. MaxIndex
    /\ open \in SUBSET (1 .. issued)
    /\ changelog \in SUBSET (1 .. issued)
    /\ worker \in [at : {"down", "polling", "fetching", "flushing"},
                   offset : 0 .. issued, latest : 0 .. issued]
    /\ queue \in Seq(changelog) /\ Len(queue) <= QueueLimit
    /\ failing \in BOOLEAN
    /\ topic \in Seq(changelog)
    /\ faulted \in SUBSET changelog
    /\ crashes \in 0 .. MaxCrashes
    /\ faults \in 0 .. MaxFaults

FeedInit ==
    /\ issued = 0
    /\ open = {}
    /\ changelog = {}
    /\ worker = Down
    /\ queue = << >>
    /\ failing = FALSE
    /\ topic = << >>
    /\ faulted = {}
    /\ crashes = 0
    /\ faults = 0

-----------------------------------------------------------------------------
(* The accepts: their INSERT into the changelog, and how they end. *)

InsertEntry ==
    /\ issued < MaxIndex
    /\ issued' = issued + 1
    /\ open' = open \cup {issued'}
    /\ UNCHANGED <<changelog, worker, producer, crashes>>

CommitEntry(k) ==
    /\ k \in open
    /\ open' = open \ {k}
    /\ changelog' = changelog \cup {k}
    /\ UNCHANGED <<issued, worker, producer, crashes>>

RollbackEntry(k) ==
    /\ k \in open
    /\ open' = open \ {k}
    /\ UNCHANGED <<issued, changelog, worker, producer, crashes>>

-----------------------------------------------------------------------------
(* The worker. *)

\* The process ends, and what the producer still held is lost with it.
Die ==
    /\ worker' = Down
    /\ queue' = << >>
    /\ failing' = FALSE
    /\ UNCHANGED <<table, topic, faulted, faults>>

\* Mutant of LastIndex: the worker starts over from the first entry.
FromTheStart == 0

\* most_recent_message(): the index in the last message, 0 for a new topic.
LastIndex == IF topic = << >> THEN 0 ELSE topic[Len(topic)]

Start ==
    /\ worker.at = "down"
    /\ worker' = [at |-> "polling", offset |-> LastIndex, latest |-> 0]
    /\ UNCHANGED <<table, producer, crashes>>

\* Mutant of Poll: get_changelog lists the oldest entry first.
PollOldest ==
    /\ worker.at = "polling"
    /\ \E k \in changelog :
          /\ \A l \in changelog : k <= l
          /\ worker' = [worker EXCEPT !.at = "fetching", !.latest = k]
    /\ UNCHANGED <<table, producer, crashes>>

\* latest = get_changelog(limit=1)[0].index
Poll ==
    /\ worker.at = "polling"
    /\ \E k \in changelog :
          /\ \A l \in changelog : l <= k
          /\ worker' = [worker EXCEPT !.at = "fetching", !.latest = k]
    /\ UNCHANGED <<table, producer, crashes>>

\* The same call on an empty changelog: IndexError.
PollEmpty ==
    /\ worker.at = "polling"
    /\ changelog = {}
    /\ Die
    /\ UNCHANGED crashes

\* Mutant of FetchEntry: an entry that is not there is passed over.
FetchOrSkip ==
    /\ worker.at = "fetching"
    /\ worker.offset + 1 <= worker.latest
    /\ Len(queue) < QueueLimit
    /\ worker' = [worker EXCEPT !.offset = @ + 1]
    /\ queue' = IF worker.offset + 1 \in changelog
                THEN Append(queue, worker.offset + 1) ELSE queue
    /\ UNCHANGED <<table, failing, topic, faulted, faults, crashes>>

\* get_changelog_entry(i) and producer.produce(), for i = offset + 1.
FetchEntry ==
    /\ worker.at = "fetching"
    /\ worker.offset + 1 <= worker.latest
    /\ worker.offset + 1 \in changelog
    /\ Len(queue) < QueueLimit
    /\ worker' = [worker EXCEPT !.offset = @ + 1]
    /\ queue' = Append(queue, worker.offset + 1)
    /\ UNCHANGED <<table, failing, topic, faulted, faults, crashes>>

\* No row has that index, a gap or a row not committed yet: the API answers
\* 404, which nothing catches.  Or produce() finds its queue full: BufferError.
FetchFails ==
    /\ worker.at = "fetching"
    /\ worker.offset + 1 <= worker.latest
    /\ worker.offset + 1 \notin changelog \/ Len(queue) = QueueLimit
    /\ Die
    /\ UNCHANGED crashes

FetchedAll ==
    /\ worker.at = "fetching"
    /\ worker.offset >= worker.latest
    /\ worker' = [worker EXCEPT !.at = "flushing"]
    /\ UNCHANGED <<table, producer, crashes>>

\* flush() returns once nothing is queued; then the worker sleeps and polls.
Flush ==
    /\ worker.at = "flushing"
    /\ queue = << >>
    /\ ~failing
    /\ worker' = [worker EXCEPT !.at = "polling"]
    /\ UNCHANGED <<table, producer, crashes>>

\* Delivery reports are served in flush() only: fail_fast() raises there.
FlushFails ==
    /\ worker.at = "flushing"
    /\ failing
    /\ Die
    /\ UNCHANGED crashes

\* A signal, an exhausted host, an API or a broker that does not answer.
Crash ==
    /\ worker.at # "down"
    /\ crashes < MaxCrashes
    /\ crashes' = crashes + 1
    /\ Die

-----------------------------------------------------------------------------
(* The producer's thread and the broker. *)

Deliver ==
    /\ queue # << >>
    /\ topic' = Append(topic, Head(queue))
    /\ queue' = Tail(queue)
    /\ UNCHANGED <<table, worker, failing, faulted, crashes, faults>>

Fault ==
    /\ queue # << >>
    /\ faults < MaxFaults
    /\ faults' = faults + 1
    /\ faulted' = faulted \cup {Head(queue)}
    /\ UNCHANGED <<table, worker, crashes>>

\* The request fails for good.  What was queued behind it is still sent.
GiveUp ==
    /\ Fault
    /\ queue' = Tail(queue)
    /\ failing' = TRUE
    /\ UNCHANGED topic

\* The request is sent again, behind those already under way; the broker may
\* have kept the message although its answer was lost.
Retry ==
    /\ Fault
    /\ queue' = Append(Tail(queue), Head(queue))
    /\ topic' \in {topic, Append(topic, Head(queue))}
    /\ UNCHANGED failing

-----------------------------------------------------------------------------

WorkerStep ==
    \/ Start
    \/ Poll
    \/ PollEmpty
    \/ FetchEntry
    \/ FetchFails
    \/ FetchedAll
    \/ Flush
    \/ FlushFails

EndEntry == \E k \in open : CommitEntry(k) \/ RollbackEntry(k)

FeedNext ==
    \/ InsertEntry
    \/ EndEntry
    \/ WorkerStep
    \/ Crash
    \/ Deliver
    \/ GiveUp
    \/ Retry

\* Transactions end, one way or the other.  The worker runs, and whoever
\* operates it starts it again whenever it ends.  The producer's thread runs
\* beside it: a worker that keeps dying between produce() and flush() does not
\* die before every single delivery.
FeedSpec ==
    /\ FeedInit
    /\ [][FeedNext]_feedVars
    /\ WF_feedVars(EndEntry)
    /\ WF_feedVars(WorkerStep)
    /\ SF_feedVars(Deliver)

-----------------------------------------------------------------------------
(* What must hold. *)

Pushed == {topic[n] : n \in DOMAIN topic}

\* The position the worker recovers from the topic is one it can trust: unless
\* a produce request failed for it, an entry older than the last message is in
\* the topic, however commits were ordered and wherever the worker died.
FeedComplete == 1 .. LastIndex \subseteq Pushed \cup faulted

\* The topic has the entries in changelog order, each once, through any number
\* of restarts, as long as no produce request fails.
FeedInOrder ==
    faulted = {} => \A m, n \in DOMAIN topic : m < n => topic[m] < topic[n]

\* An entry with no gap before it is pushed in the end, though the worker dies
\* at every index drawn and not committed yet, and again and again at a gap.
EntriesReachTopic ==
    \A k \in Index :
        (1 .. k \subseteq changelog) ~> (k \in Pushed \cup faulted)

=============================================================================
