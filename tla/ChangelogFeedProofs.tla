------------------------ MODULE ChangelogFeedProofs ------------------------
(***************************************************************************)
(* The safety properties of ChangelogFeed, for any number of indices,      *)
(* crashes and failed requests and any length of the producer's queue.     *)
(***************************************************************************)
EXTENDS ChangelogFeed, TLAPS

\* Sequences of a set are sequences of any larger one.
LEMMA SeqOfMore == ASSUME NEW S, NEW T, S \subseteq T, NEW s \in Seq(S)
                   PROVE  s \in Seq(T)
OBVIOUS

\* The recovered offset is the index of a committed entry, or 0.
LEMMA LastIndexType ==
    ASSUME FeedTypeOK
    PROVE  LastIndex \in 0 .. issued /\ (topic # << >> => LastIndex \in changelog)
<1>1. CASE topic = << >>
  BY <1>1 DEF FeedTypeOK, LastIndex
<1>2. CASE topic # << >>
  <2>1. Len(topic) \in DOMAIN topic
    BY <1>2 DEF FeedTypeOK
  <2>2. topic[Len(topic)] \in changelog
    BY <2>1 DEF FeedTypeOK
  <2>3. LastIndex = topic[Len(topic)]
    BY <1>2 DEF LastIndex
  <2>4. \A k \in changelog : k \in 0 .. issued
    BY DEF FeedTypeOK
  <2> QED BY <2>2, <2>3, <2>4
<1> QED BY <1>1, <1>2

\* An accept that draws, commits or gives back an index leaves the tables typed.
LEMMA EntryStepType ==
    ASSUME FeedTypeOK, InsertEntry \/ EndEntry
    PROVE  FeedTypeOK'
<1> USE FeedAssumption DEF FeedTypeOK, table, producer
<1>1. CASE InsertEntry
  BY <1>1 DEF InsertEntry
<1>2. ASSUME NEW k \in open, CommitEntry(k) PROVE FeedTypeOK'
  <2>1. changelog \subseteq changelog'
    BY <1>2 DEF CommitEntry
  <2>2. queue' \in Seq(changelog') /\ topic' \in Seq(changelog')
    BY <1>2, <2>1, SeqOfMore DEF CommitEntry
  <2> QED BY <1>2, <2>1, <2>2 DEF CommitEntry
<1>3. ASSUME NEW k \in open, RollbackEntry(k) PROVE FeedTypeOK'
  BY <1>3 DEF RollbackEntry
<1> QED BY <1>1, <1>2, <1>3 DEF EndEntry

\* Whatever ends the process leaves the tables typed.
LEMMA DieType ==
    ASSUME FeedTypeOK, Die, crashes' \in 0 .. MaxCrashes
    PROVE  FeedTypeOK'
<1>1. worker' \in [at : {"down", "polling", "fetching", "flushing"},
                  offset : 0 .. issued', latest : 0 .. issued']
  BY DEF FeedTypeOK, Die, Down, table
<1>2. queue' \in Seq(changelog') /\ Len(queue') <= QueueLimit
  BY FeedAssumption DEF Die
<1> QED BY <1>1, <1>2 DEF FeedTypeOK, Die, table

\* The other steps of the worker leave the tables typed.
LEMMA WorkerStepType ==
    ASSUME FeedTypeOK, Start \/ Poll \/ FetchEntry \/ FetchedAll \/ Flush
    PROVE  FeedTypeOK'
<1> DEFINE Process == [at : {"down", "polling", "fetching", "flushing"},
                       offset : 0 .. issued, latest : 0 .. issued]
<1>1. /\ worker \in Process
      /\ issued \in Nat
      /\ \A k \in changelog : k \in 0 .. issued
  BY FeedAssumption DEF FeedTypeOK
<1>2. worker' \in Process /\ UNCHANGED <<table, failing, topic, faulted, faults, crashes>>
  <2>1. CASE Start
    BY <1>1, <2>1, LastIndexType DEF Start, producer
  <2>2. CASE Poll
    BY <1>1, <2>2 DEF Poll, producer
  <2>3. CASE FetchEntry
    BY <1>1, <2>3 DEF FetchEntry
  <2>4. CASE FetchedAll
    BY <1>1, <2>4 DEF FetchedAll, producer
  <2>5. CASE Flush
    BY <1>1, <2>5 DEF Flush, producer
  <2> QED BY <2>1, <2>2, <2>3, <2>4, <2>5
<1>3. queue' \in Seq(changelog) /\ Len(queue') <= QueueLimit
  <2>1. CASE FetchEntry
    <3>1. queue \in Seq(changelog) /\ Len(queue) < QueueLimit /\ QueueLimit \in Nat
      BY <2>1, FeedAssumption DEF FetchEntry, FeedTypeOK
    <3>2. worker.offset + 1 \in changelog /\ queue' = Append(queue, worker.offset + 1)
      BY <2>1 DEF FetchEntry
    <3> QED BY <3>1, <3>2
  <2>2. CASE Start \/ Poll \/ FetchedAll \/ Flush
    BY <2>2 DEF Start, Poll, FetchedAll, Flush, producer, FeedTypeOK
  <2> QED BY <2>1, <2>2
<1> QED BY <1>2, <1>3 DEF FeedTypeOK, table

\* What the producer holds when it is not empty.
LEMMA QueueHead ==
    ASSUME FeedTypeOK, queue # << >>
    PROVE  /\ Head(queue) \in changelog
           /\ Tail(queue) \in Seq(changelog) /\ Len(Tail(queue)) <= QueueLimit
           /\ Append(topic, Head(queue)) \in Seq(changelog)
           /\ Append(Tail(queue), Head(queue)) \in Seq(changelog)
           /\ Len(Append(Tail(queue), Head(queue))) <= QueueLimit
<1>1. queue \in Seq(changelog) /\ topic \in Seq(changelog) /\ Len(queue) <= QueueLimit
  BY DEF FeedTypeOK
<1>2. Head(queue) \in changelog /\ Tail(queue) \in Seq(changelog)
  BY <1>1
<1>3. Len(Tail(queue)) = Len(queue) - 1 /\ Len(queue) \in Nat
  BY <1>1
<1>4. Len(Append(Tail(queue), Head(queue))) = Len(queue)
  BY <1>2, <1>3
<1> QED BY <1>1, <1>2, <1>3, <1>4, FeedAssumption

\* A request that fails is for a committed entry.
LEMMA FaultType ==
    ASSUME FeedTypeOK, Fault
    PROVE  /\ faults' \in 0 .. MaxFaults
           /\ faulted' \in SUBSET changelog
           /\ <<table, worker, crashes>>' = <<table, worker, crashes>>
<1>1. faults \in Nat /\ faults' = faults + 1 /\ faults < MaxFaults
  BY FeedAssumption DEF Fault, FeedTypeOK
<1>2. faults' \in 0 .. MaxFaults
  BY <1>1, FeedAssumption
<1>3. Head(queue) \in changelog
  BY QueueHead DEF Fault
<1>4. faulted' \in SUBSET changelog
  BY <1>3 DEF Fault, FeedTypeOK
<1> QED BY <1>2, <1>4 DEF Fault

\* The steps of the producer and the broker leave the tables typed.
LEMMA ProducerStepType ==
    ASSUME FeedTypeOK, Deliver \/ GiveUp \/ Retry
    PROVE  FeedTypeOK'
<1>1. /\ queue # << >>
      /\ UNCHANGED <<table, worker, crashes>>
  BY DEF Deliver, GiveUp, Retry, Fault
<1>2. queue' \in Seq(changelog) /\ Len(queue') <= QueueLimit
  BY <1>1, QueueHead DEF Deliver, GiveUp, Retry
<1>3. topic' \in Seq(changelog)
  BY <1>1, QueueHead DEF Deliver, GiveUp, Retry, FeedTypeOK
<1>4. failing' \in BOOLEAN
  BY DEF Deliver, GiveUp, Retry, FeedTypeOK
<1>5. faults' \in 0 .. MaxFaults /\ faulted' \in SUBSET changelog
  BY FaultType DEF Deliver, GiveUp, Retry, FeedTypeOK
<1> QED BY <1>1, <1>2, <1>3, <1>4, <1>5 DEF FeedTypeOK, table

\* Before anything runs the tables, the worker and the topic are typed.
LEMMA FeedTypeInit == FeedInit => FeedTypeOK
<1> SUFFICES ASSUME FeedInit PROVE FeedTypeOK
  OBVIOUS
<1> USE FeedAssumption DEF FeedInit
<1>1. worker \in [at : {"down", "polling", "fetching", "flushing"},
                 offset : 0 .. issued, latest : 0 .. issued]
  BY DEF Down
<1>2. queue \in Seq(changelog) /\ Len(queue) <= QueueLimit /\ topic \in Seq(changelog)
  <2>1. << >> \in Seq(changelog) /\ Len(<< >>) = 0
    OBVIOUS
  <2> QED BY <2>1
<1>3. /\ issued \in 0 .. MaxIndex /\ crashes \in 0 .. MaxCrashes /\ faults \in 0 .. MaxFaults
  OBVIOUS
<1>4. /\ open \in SUBSET (1 .. issued) /\ changelog \in SUBSET (1 .. issued)
      /\ failing \in BOOLEAN /\ faulted \in SUBSET changelog
  BY Zenon
<1> QED BY <1>1, <1>2, <1>3, <1>4 DEF FeedTypeOK

\* No step of an accept, of the worker or of its producer breaks the types.
LEMMA FeedTypeNext == FeedTypeOK /\ [FeedNext]_feedVars => FeedTypeOK'
<1> SUFFICES ASSUME FeedTypeOK, [FeedNext]_feedVars PROVE FeedTypeOK'
  OBVIOUS
<1>1. CASE InsertEntry \/ EndEntry
  BY <1>1, EntryStepType
<1>2. CASE PollEmpty \/ FetchFails \/ FlushFails \/ Crash
  <2>1. Die /\ crashes' \in 0 .. MaxCrashes
    BY <1>2, FeedAssumption DEF FeedTypeOK, PollEmpty, FetchFails, FlushFails, Crash
  <2> QED BY <2>1, DieType
<1>3. CASE Start \/ Poll \/ FetchEntry \/ FetchedAll \/ Flush
  BY <1>3, WorkerStepType
<1>4. CASE Deliver \/ GiveUp \/ Retry
  BY <1>4, ProducerStepType
<1>5. CASE UNCHANGED feedVars
  BY <1>5 DEF FeedTypeOK, feedVars, table, producer
<1> QED BY <1>1, <1>2, <1>3, <1>4, <1>5 DEF FeedNext, WorkerStep

\* The tables, the worker, the producer and the topic are always well typed,
\* whatever the bounds: the topic holds committed entries only.
THEOREM FeedTypeCorrect == FeedSpec => []FeedTypeOK
<1> QED BY FeedTypeInit, FeedTypeNext, PTL DEF FeedSpec

-----------------------------------------------------------------------------
(* The topic misses nothing before its last message. *)

Covered == Pushed \cup faulted

\* The first n messages queued.
Held(n) == {queue[m] : m \in 1 .. n}

Queued == {queue[n] : n \in DOMAIN queue}

\* What precedes a queued message is in the topic, failed, or queued before it:
\* so the topic stays complete whichever of them is the last to arrive.
QueueComplete == \A n \in DOMAIN queue : 1 .. queue[n] \subseteq Covered \cup Held(n)

\* The worker has seen to everything up to its offset.
OffsetComplete ==
    IF worker.at = "down" THEN queue = << >>
    ELSE 1 .. worker.offset \subseteq Covered \cup Queued

CompleteInv == FeedTypeOK /\ FeedComplete /\ QueueComplete /\ OffsetComplete

\* A message that enters the topic is its last.
LEMMA TopicAppend ==
    ASSUME FeedTypeOK, queue # << >>, topic' = Append(topic, Head(queue))
    PROVE  LastIndex' = Head(queue) /\ Pushed' = Pushed \cup {Head(queue)}
<1>1. topic \in Seq(changelog) /\ Head(queue) \in changelog
  BY QueueHead DEF FeedTypeOK
<1>2. /\ Len(topic') = Len(topic) + 1 /\ Len(topic) \in Nat
      /\ DOMAIN topic' = 1 .. Len(topic) + 1 /\ DOMAIN topic = 1 .. Len(topic)
      /\ topic'[Len(topic) + 1] = Head(queue)
      /\ \A n \in 1 .. Len(topic) : topic'[n] = topic[n]
  BY <1>1
<1>3. topic' # << >>
  BY <1>1
<1>4. LastIndex' = Head(queue)
  BY <1>2, <1>3 DEF LastIndex
<1>5. Pushed' = Pushed \cup {Head(queue)}
  BY <1>2 DEF Pushed
<1> QED BY <1>4, <1>5

\* The queue loses its first message, which is accounted for, or moves it to
\* the end: what is still queued is as complete as before.
LEMMA HeadServed ==
    ASSUME FeedTypeOK, QueueComplete, queue # << >>,
           Covered \subseteq Covered', Head(queue) \in Covered',
           queue' = Tail(queue) \/ queue' = Append(Tail(queue), Head(queue))
    PROVE  /\ 1 .. Head(queue) \subseteq Covered'
           /\ QueueComplete'
           /\ Queued \subseteq Covered' \cup Queued'
<1> PICK L \in Nat : L = Len(queue)
  BY DEF FeedTypeOK
<1>1. /\ queue \in Seq(changelog) /\ L # 0
      /\ DOMAIN queue = 1 .. L /\ Head(queue) = queue[1]
  BY DEF FeedTypeOK
<1>2. /\ Tail(queue) \in Seq(changelog) /\ Len(Tail(queue)) = L - 1
      /\ \A n \in 1 .. L - 1 : Tail(queue)[n] = queue[n + 1]
  BY <1>1
<1>3. /\ \A n \in 1 .. L - 1 : n \in DOMAIN queue' /\ queue'[n] = queue[n + 1]
      /\ \A n \in DOMAIN queue' : n \in 1 .. L - 1 \/ (n = L /\ queue'[n] = Head(queue))
  <2>1. CASE queue' = Tail(queue)
    BY <1>1, <1>2, <2>1
  <2>2. CASE queue' = Append(Tail(queue), Head(queue))
    <3>1. Head(queue) \in changelog
      BY QueueHead
    <3>2. /\ DOMAIN queue' = 1 .. L
          /\ queue'[L] = Head(queue)
          /\ \A n \in 1 .. L - 1 : queue'[n] = Tail(queue)[n]
      BY <1>1, <1>2, <2>2, <3>1
    <3>3. \A n \in 1 .. L - 1 : n \in 1 .. L /\ queue'[n] = queue[n + 1]
      BY <1>1, <1>2, <3>2
    <3>4. \A n \in 1 .. L : n \in 1 .. L - 1 \/ n = L
      BY <1>1
    <3> QED BY <3>2, <3>3, <3>4
  <2> QED BY <2>1, <2>2
<1>4. 1 .. Head(queue) \subseteq Covered'
  <2>1. 1 \in DOMAIN queue /\ Held(1) = {Head(queue)}
    BY <1>1 DEF Held
  <2> QED BY <1>1, <2>1 DEF QueueComplete
<1>5. ASSUME NEW n \in 1 .. L - 1 PROVE Held(n + 1) \subseteq {Head(queue)} \cup Held(n)'
  <2>1. SUFFICES ASSUME NEW m \in 1 .. n + 1, m # 1 PROVE queue[m] \in Held(n)'
    BY <1>1 DEF Held
  <2>2. m - 1 \in 1 .. n /\ m - 1 \in 1 .. L - 1
    BY <1>1, <2>1
  <2>3. queue'[m - 1] = queue[m]
    BY <1>1, <1>3, <2>1, <2>2
  <2> QED BY <2>2, <2>3 DEF Held
<1>6. QueueComplete'
  <2> SUFFICES ASSUME NEW n \in DOMAIN queue' PROVE 1 .. queue'[n] \subseteq Covered' \cup Held(n)'
    BY DEF QueueComplete
  <2>1. CASE n \in 1 .. L - 1
    <3>1. n + 1 \in DOMAIN queue /\ queue'[n] = queue[n + 1]
      BY <1>1, <1>3, <2>1
    <3> QED BY <1>5, <2>1, <3>1 DEF QueueComplete
  <2>2. CASE queue'[n] = Head(queue)
    BY <1>4, <2>2
  <2> QED BY <1>3, <2>1, <2>2
<1>7. Queued \subseteq Covered' \cup Queued'
  <2> SUFFICES ASSUME NEW n \in DOMAIN queue, n # 1 PROVE queue[n] \in Queued'
    BY <1>1 DEF Queued
  <2>1. n - 1 \in 1 .. L - 1 /\ n = (n - 1) + 1
    BY <1>1
  <2> QED BY <1>3, <2>1 DEF Queued
<1> QED BY <1>4, <1>6, <1>7

\* The producer and the broker keep the topic complete.
LEMMA ProducerStepComplete ==
    ASSUME CompleteInv, Deliver \/ GiveUp \/ Retry
    PROVE  FeedComplete' /\ QueueComplete' /\ OffsetComplete'
<1>1. FeedTypeOK /\ FeedComplete /\ QueueComplete /\ OffsetComplete
  BY DEF CompleteInv
<1>2. queue # << >> /\ worker' = worker
  BY DEF Deliver, GiveUp, Retry, Fault
<1>3. \/ topic' = topic /\ Pushed' = Pushed /\ LastIndex' = LastIndex
      \/ topic' = Append(topic, Head(queue))
  BY DEF Deliver, GiveUp, Retry, Pushed, LastIndex
<1>4. \/ topic' = topic /\ Pushed' = Pushed /\ LastIndex' = LastIndex
      \/ LastIndex' = Head(queue) /\ Pushed' = Pushed \cup {Head(queue)}
  BY <1>1, <1>2, <1>3, TopicAppend
<1>5. \/ faulted' = faulted \cup {Head(queue)}
      \/ faulted' = faulted /\ topic' = Append(topic, Head(queue))
  BY DEF Deliver, GiveUp, Retry, Fault
<1>6. Covered \subseteq Covered' /\ Head(queue) \in Covered'
  BY <1>1, <1>2, <1>4, <1>5, TopicAppend DEF Covered
<1>7. queue' = Tail(queue) \/ queue' = Append(Tail(queue), Head(queue))
  BY DEF Deliver, GiveUp, Retry
<1>8. /\ 1 .. Head(queue) \subseteq Covered'
      /\ QueueComplete'
      /\ Queued \subseteq Covered' \cup Queued'
  BY <1>1, <1>2, <1>6, <1>7, HeadServed
<1>9. FeedComplete'
  <2>1. 1 .. LastIndex \subseteq Covered
    BY <1>1 DEF FeedComplete, Covered
  <2>2. 1 .. LastIndex' \subseteq Covered'
    BY <1>4, <1>6, <1>8, <2>1
  <2> QED BY <2>2 DEF FeedComplete, Covered
<1>10. OffsetComplete'
  BY <1>1, <1>2, <1>6, <1>8 DEF OffsetComplete
<1> QED BY <1>8, <1>9, <1>10

\* The worker fetches the entry after its offset, and no other.
LEMMA FetchComplete ==
    ASSUME CompleteInv, FetchEntry
    PROVE  FeedComplete' /\ QueueComplete' /\ OffsetComplete'
<1>1. FeedTypeOK /\ FeedComplete /\ QueueComplete /\ OffsetComplete
  BY DEF CompleteInv
<1> PICK L \in Nat : L = Len(queue)
  BY <1>1 DEF FeedTypeOK
<1> PICK k \in Nat : k = worker.offset + 1
  BY <1>1, FeedAssumption DEF FeedTypeOK
<1>2. /\ queue \in Seq(changelog) /\ DOMAIN queue = 1 .. L
      /\ k \in changelog /\ worker.offset \in Nat /\ queue' = Append(queue, k)
  BY <1>1, FeedAssumption DEF FetchEntry, FeedTypeOK
<1>3. /\ DOMAIN queue' = 1 .. L + 1 /\ queue'[L + 1] = k
      /\ \A n \in 1 .. L : queue'[n] = queue[n]
  BY <1>2
<1>4. /\ worker'.offset = k /\ worker'.at = "fetching" /\ worker.at = "fetching"
      /\ Covered' = Covered /\ LastIndex' = LastIndex /\ Pushed' = Pushed /\ faulted' = faulted
  BY <1>1 DEF FetchEntry, FeedTypeOK, Covered, Pushed, LastIndex
<1>5. FeedComplete'
  BY <1>1, <1>4 DEF FeedComplete
<1>6. \A n \in 1 .. L : Held(n) \subseteq Held(n)'
  BY <1>2, <1>3 DEF Held
<1>7. Queued \subseteq Held(L + 1)' /\ k \in Held(L + 1)' /\ Held(L + 1)' \subseteq Queued'
  <2>1. \A n \in 1 .. L : n \in 1 .. L + 1
    BY <1>2
  <2>2. L + 1 \in 1 .. L + 1
    BY <1>2
  <2>3. Queued \subseteq Held(L + 1)'
    BY <1>2, <1>3, <2>1 DEF Held, Queued
  <2>4. k \in Held(L + 1)'
    BY <1>3, <2>2 DEF Held
  <2>5. Held(L + 1)' \subseteq Queued'
    BY <1>3 DEF Held, Queued
  <2> QED BY <2>3, <2>4, <2>5
<1>8. 1 .. k \subseteq Covered' \cup Held(L + 1)'
  <2>1. 1 .. worker.offset \subseteq Covered \cup Queued
    BY <1>1, <1>4 DEF OffsetComplete
  <2>2. \A l \in 1 .. k : l \in 1 .. worker.offset \/ l = k
    BY <1>2
  <2> QED BY <1>4, <1>7, <2>1, <2>2
<1>9. QueueComplete'
  <2> SUFFICES ASSUME NEW n \in DOMAIN queue' PROVE 1 .. queue'[n] \subseteq Covered' \cup Held(n)'
    BY DEF QueueComplete
  <2>1. CASE n \in 1 .. L
    BY <1>1, <1>2, <1>3, <1>4, <1>6, <2>1 DEF QueueComplete
  <2>2. CASE n = L + 1
    BY <1>3, <1>8, <2>2 DEF Held
  <2>3. n \in 1 .. L \/ n = L + 1
    BY <1>2, <1>3
  <2> QED BY <2>1, <2>2, <2>3
<1>10. OffsetComplete'
  BY <1>4, <1>7, <1>8 DEF OffsetComplete
<1> QED BY <1>5, <1>9, <1>10

\* A worker that ends leaves nothing queued, and one that starts goes by the
\* last message; the rest changes neither topic nor queue nor offset.
LEMMA OtherStepComplete ==
    ASSUME CompleteInv,
           \/ InsertEntry \/ EndEntry \/ UNCHANGED feedVars
           \/ PollEmpty \/ FetchFails \/ FlushFails \/ Crash
           \/ Start \/ Poll \/ FetchedAll \/ Flush
    PROVE  FeedComplete' /\ QueueComplete' /\ OffsetComplete'
<1>1. FeedTypeOK /\ FeedComplete /\ QueueComplete /\ OffsetComplete
  BY DEF CompleteInv
<1>2. topic' = topic /\ faulted' = faulted
  BY DEF InsertEntry, EndEntry, CommitEntry, RollbackEntry, feedVars, PollEmpty, FetchFails,
         FlushFails, Crash, Die, Start, Poll, FetchedAll, Flush, producer
<1>3. Covered' = Covered /\ LastIndex' = LastIndex /\ Pushed' = Pushed
  BY <1>2 DEF Covered, LastIndex, Pushed
<1>4. FeedComplete'
  BY <1>1, <1>2, <1>3 DEF FeedComplete
<1>5. CASE PollEmpty \/ FetchFails \/ FlushFails \/ Crash
  <2>1. worker' = Down /\ queue' = << >>
    BY <1>5 DEF PollEmpty, FetchFails, FlushFails, Crash, Die
  <2>2. worker'.at = "down" /\ DOMAIN queue' = {}
    BY <2>1 DEF Down
  <2> QED BY <1>4, <2>1, <2>2 DEF QueueComplete, OffsetComplete
<1>6. CASE \/ InsertEntry \/ EndEntry \/ UNCHANGED feedVars
           \/ Start \/ Poll \/ FetchedAll \/ Flush
  <2>1. queue' = queue
    BY <1>6 DEF InsertEntry, EndEntry, CommitEntry, RollbackEntry, feedVars,
                Start, Poll, FetchedAll, Flush, producer
  <2>2. QueueComplete'
    BY <1>1, <1>3, <2>1 DEF QueueComplete, Held
  <2>3. Queued' = Queued
    BY <2>1 DEF Queued
  <2>4. CASE Start
    <3>1. worker'.at = "polling" /\ worker'.offset = LastIndex
      BY <2>4 DEF Start
    <3>2. 1 .. LastIndex \subseteq Covered
      BY <1>1 DEF FeedComplete, Covered
    <3> QED BY <1>3, <1>4, <2>2, <3>1, <3>2 DEF OffsetComplete
  <2>5. CASE Poll \/ FetchedAll \/ Flush
    <3>1. worker.at # "down" /\ worker'.at # "down" /\ worker'.offset = worker.offset
      <4>1. CASE Poll
        BY <1>1, <4>1 DEF Poll, FeedTypeOK
      <4>2. CASE FetchedAll
        BY <1>1, <4>2 DEF FetchedAll, FeedTypeOK
      <4>3. CASE Flush
        BY <1>1, <4>3 DEF Flush, FeedTypeOK
      <4> QED BY <2>5, <4>1, <4>2, <4>3
    <3> QED BY <1>1, <1>3, <1>4, <2>2, <2>3, <3>1 DEF OffsetComplete
  <2>6. CASE InsertEntry \/ EndEntry \/ UNCHANGED feedVars
    <3>1. worker' = worker
      BY <2>6 DEF InsertEntry, EndEntry, CommitEntry, RollbackEntry, feedVars
    <3> QED BY <1>1, <1>3, <1>4, <2>1, <2>2, <2>3, <3>1 DEF OffsetComplete
  <2> QED BY <1>6, <2>4, <2>5, <2>6
<1> QED BY <1>5, <1>6

\* Nothing is queued or published at the start, so nothing is missing.
LEMMA CompleteInvInit == FeedInit => CompleteInv
<1> SUFFICES ASSUME FeedInit PROVE CompleteInv
  OBVIOUS
<1>1. LastIndex = 0
  BY DEF FeedInit, LastIndex
<1>2. queue = << >> /\ DOMAIN queue = {} /\ worker.at = "down"
  BY DEF FeedInit, Down
<1> QED BY <1>1, <1>2, FeedTypeInit
        DEF CompleteInv, FeedComplete, QueueComplete, OffsetComplete

\* No step passes over a committed entry.
LEMMA CompleteInvNext == CompleteInv /\ [FeedNext]_feedVars => CompleteInv'
<1> SUFFICES ASSUME CompleteInv, [FeedNext]_feedVars PROVE CompleteInv'
  OBVIOUS
<1>1. FeedTypeOK'
  BY FeedTypeNext DEF CompleteInv
<1>2. CASE Deliver \/ GiveUp \/ Retry
  BY <1>1, <1>2, ProducerStepComplete DEF CompleteInv
<1>3. CASE FetchEntry
  BY <1>1, <1>3, FetchComplete DEF CompleteInv
<1>4. CASE \/ InsertEntry \/ EndEntry \/ UNCHANGED feedVars
           \/ PollEmpty \/ FetchFails \/ FlushFails \/ Crash
           \/ Start \/ Poll \/ FetchedAll \/ Flush
  BY <1>1, <1>4, OtherStepComplete DEF CompleteInv
<1> QED BY <1>2, <1>3, <1>4 DEF FeedNext, WorkerStep

\* In every reachable state, whatever the worker died of and in whatever order
\* accepts committed, every index up to the last message of the topic is in the
\* topic, unless a produce request failed for it: the offset a restarted worker
\* reads there never skips an entry.
THEOREM FeedAlwaysComplete == FeedSpec => []FeedComplete
<1>1. CompleteInv => FeedComplete
  BY DEF CompleteInv
<1> QED BY <1>1, CompleteInvInit, CompleteInvNext, PTL DEF FeedSpec

-----------------------------------------------------------------------------
(* The topic is in order, as long as no request fails. *)

Increasing(s) == \A m, n \in DOMAIN s : m < n => s[m] < s[n]

\* The topic and then the queue are one increasing sequence up to the offset.
InOrder ==
    /\ Increasing(topic) /\ Increasing(queue)
    /\ \A m \in DOMAIN topic, n \in DOMAIN queue : topic[m] < queue[n]
    /\ IF worker.at = "down" THEN queue = << >>
       ELSE /\ \A m \in DOMAIN topic : topic[m] <= worker.offset
            /\ \A n \in DOMAIN queue : queue[n] <= worker.offset

OrderInv == FeedTypeOK /\ (faulted = {} => InOrder)

\* What the topic and the queue hold are natural numbers.
LEMMA MessagesAreIndices ==
    ASSUME FeedTypeOK
    PROVE  /\ \A m \in DOMAIN topic : topic[m] \in Nat
           /\ \A n \in DOMAIN queue : queue[n] \in Nat
<1>1. \A k \in changelog : k \in Nat
  BY FeedAssumption DEF FeedTypeOK
<1>2. topic \in Seq(changelog) /\ queue \in Seq(changelog)
  BY DEF FeedTypeOK
<1>3. /\ \A m \in DOMAIN topic : topic[m] \in changelog
      /\ \A n \in DOMAIN queue : queue[n] \in changelog
  BY <1>2
<1> QED BY <1>1, <1>3

\* The oldest message queued becomes the newest of the topic.
LEMMA DeliverInOrder ==
    ASSUME FeedTypeOK, InOrder, Deliver
    PROVE  InOrder'
<1>1. /\ queue \in Seq(changelog) /\ topic \in Seq(changelog)
      /\ queue # << >> /\ queue' = Tail(queue) /\ topic' = Append(topic, Head(queue))
      /\ worker' = worker
  BY DEF Deliver, FeedTypeOK
<1> PICK L \in Nat : L = Len(queue)
  BY <1>1
<1> PICK T \in Nat : T = Len(topic)
  BY <1>1
<1>2. /\ L # 0 /\ DOMAIN queue = 1 .. L /\ 1 \in DOMAIN queue /\ Head(queue) = queue[1]
      /\ DOMAIN queue' = 1 .. L - 1
      /\ \A n \in 1 .. L - 1 : queue'[n] = queue[n + 1] /\ n + 1 \in 1 .. L /\ 1 < n + 1
  BY <1>1
<1>3. /\ DOMAIN topic = 1 .. T /\ DOMAIN topic' = 1 .. T + 1
      /\ topic'[T + 1] = Head(queue)
      /\ \A n \in 1 .. T : topic'[n] = topic[n]
      /\ \A n \in 1 .. T + 1 : n \in 1 .. T \/ n = T + 1
  BY <1>1, QueueHead
<1>4. Increasing(topic)'
  <2> SUFFICES ASSUME NEW m \in DOMAIN topic', NEW n \in DOMAIN topic', m < n
               PROVE  topic'[m] < topic'[n]
    BY DEF Increasing
  <2>1. CASE n \in 1 .. T
    <3>1. m \in 1 .. T
      BY <1>3, <2>1
    <3> QED BY <1>3, <2>1, <3>1 DEF InOrder, Increasing
  <2>2. CASE n = T + 1
    <3>1. m \in 1 .. T
      BY <1>3, <2>2
    <3> QED BY <1>2, <1>3, <2>2, <3>1 DEF InOrder
  <2> QED BY <1>3, <2>1, <2>2
<1>5. Increasing(queue)'
  <2> SUFFICES ASSUME NEW m \in DOMAIN queue', NEW n \in DOMAIN queue', m < n
               PROVE  queue'[m] < queue'[n]
    BY DEF Increasing
  <2>1. m + 1 < n + 1
    BY <1>2
  <2> QED BY <1>2, <2>1 DEF InOrder, Increasing
<1>6. ASSUME NEW m \in DOMAIN topic', NEW n \in DOMAIN queue' PROVE topic'[m] < queue'[n]
  <2>1. CASE m \in 1 .. T
    BY <1>2, <1>3, <2>1 DEF InOrder
  <2>2. CASE m = T + 1
    BY <1>2, <1>3, <2>2 DEF InOrder, Increasing
  <2> QED BY <1>3, <2>1, <2>2
<1>7. worker.at # "down"
  BY <1>1 DEF InOrder
<1>8. \A m \in DOMAIN topic' : topic'[m] <= worker.offset
  BY <1>2, <1>3, <1>7 DEF InOrder
<1>9. \A n \in DOMAIN queue' : queue'[n] <= worker.offset
  BY <1>2, <1>7 DEF InOrder
<1> QED BY <1>1, <1>4, <1>5, <1>6, <1>7, <1>8, <1>9 DEF InOrder

\* The entry fetched is newer than any message there is.
LEMMA FetchInOrder ==
    ASSUME FeedTypeOK, InOrder, FetchEntry
    PROVE  InOrder'
<1> PICK L \in Nat : L = Len(queue)
  BY DEF FeedTypeOK
<1> PICK k \in Nat : k = worker.offset + 1
  BY FeedAssumption DEF FeedTypeOK
<1>1. /\ queue \in Seq(changelog) /\ DOMAIN queue = 1 .. L
      /\ k \in changelog /\ worker.offset \in Nat /\ queue' = Append(queue, k)
  BY FeedAssumption DEF FetchEntry, FeedTypeOK
<1>2. /\ DOMAIN queue' = 1 .. L + 1 /\ queue'[L + 1] = k
      /\ \A n \in 1 .. L : queue'[n] = queue[n]
      /\ \A n \in 1 .. L + 1 : n \in 1 .. L \/ n = L + 1
  BY <1>1
<1>3. /\ worker'.offset = k /\ worker'.at = "fetching" /\ worker.at = "fetching"
      /\ topic' = topic
  BY DEF FetchEntry, FeedTypeOK
<1>4. /\ \A m \in DOMAIN topic : topic[m] \in Nat /\ topic[m] < k
      /\ \A n \in DOMAIN queue : queue[n] \in Nat /\ queue[n] < k
  <2>1. /\ \A m \in DOMAIN topic : topic[m] \in Nat /\ topic[m] <= worker.offset
        /\ \A n \in DOMAIN queue : queue[n] \in Nat /\ queue[n] <= worker.offset
    BY <1>3, MessagesAreIndices DEF InOrder
  <2> QED BY <1>1, <2>1
<1>5. Increasing(queue)'
  <2> SUFFICES ASSUME NEW m \in DOMAIN queue', NEW n \in DOMAIN queue', m < n
               PROVE  queue'[m] < queue'[n]
    BY DEF Increasing
  <2>1. m \in 1 .. L
    BY <1>2
  <2>2. CASE n \in 1 .. L
    BY <1>1, <1>2, <2>1, <2>2 DEF InOrder, Increasing
  <2>3. CASE n = L + 1
    BY <1>1, <1>2, <1>4, <2>1, <2>3
  <2> QED BY <1>2, <2>2, <2>3
<1>6. \A m \in DOMAIN topic', n \in DOMAIN queue' : topic'[m] < queue'[n]
  BY <1>1, <1>2, <1>3, <1>4 DEF InOrder
<1>7. /\ \A m \in DOMAIN topic' : topic'[m] <= worker'.offset
      /\ \A n \in DOMAIN queue' : queue'[n] <= worker'.offset
  BY <1>1, <1>2, <1>3, <1>4
<1>8. Increasing(topic)'
  BY <1>3 DEF InOrder, Increasing
<1> QED BY <1>3, <1>5, <1>6, <1>7, <1>8 DEF InOrder

\* A worker that ends leaves nothing queued, and one that starts goes by the
\* last message, the greatest; the rest changes nothing that is ordered.
LEMMA OtherStepInOrder ==
    ASSUME FeedTypeOK, InOrder,
           \/ InsertEntry \/ EndEntry \/ UNCHANGED feedVars
           \/ PollEmpty \/ FetchFails \/ FlushFails \/ Crash
           \/ Start \/ Poll \/ FetchedAll \/ Flush
    PROVE  InOrder'
<1>1. topic' = topic
  BY DEF InsertEntry, EndEntry, CommitEntry, RollbackEntry, feedVars, PollEmpty, FetchFails,
         FlushFails, Crash, Die, Start, Poll, FetchedAll, Flush, producer
<1>2. Increasing(topic)'
  BY <1>1 DEF InOrder, Increasing
<1>3. CASE PollEmpty \/ FetchFails \/ FlushFails \/ Crash
  <2>1. worker' = Down /\ queue' = << >>
    BY <1>3 DEF PollEmpty, FetchFails, FlushFails, Crash, Die
  <2>2. worker'.at = "down" /\ DOMAIN queue' = {}
    BY <2>1 DEF Down
  <2> QED BY <1>2, <2>1, <2>2 DEF InOrder, Increasing
<1>4. CASE Start
  <2>1. /\ queue' = queue /\ queue = << >> /\ DOMAIN queue' = {}
        /\ worker'.at = "polling" /\ worker'.offset = LastIndex
    BY <1>4 DEF Start, producer, InOrder
  <2>2. \A m \in DOMAIN topic : topic[m] <= LastIndex
    <3> SUFFICES ASSUME NEW m \in DOMAIN topic PROVE topic[m] <= LastIndex
      OBVIOUS
    <3> PICK T \in Nat : T = Len(topic)
      BY DEF FeedTypeOK
    <3>1. /\ topic # << >> /\ DOMAIN topic = 1 .. T /\ T \in DOMAIN topic
          /\ m = T \/ m < T
      BY DEF FeedTypeOK
    <3>2. LastIndex = topic[T] /\ topic[T] \in Nat
      BY <3>1, MessagesAreIndices DEF LastIndex
    <3>3. m < T => topic[m] < topic[T]
      BY <3>1 DEF InOrder, Increasing
    <3>4. topic[m] \in Nat
      BY MessagesAreIndices
    <3> QED BY <3>1, <3>2, <3>3, <3>4
  <2> QED BY <1>1, <1>2, <2>1, <2>2 DEF InOrder, Increasing
<1>5. CASE Poll \/ FetchedAll \/ Flush
  <2>1. queue' = queue
    BY <1>5 DEF Poll, FetchedAll, Flush, producer
  <2>2. worker.at # "down" /\ worker'.at # "down" /\ worker'.offset = worker.offset
    <3>1. CASE Poll
      BY <3>1 DEF Poll, FeedTypeOK
    <3>2. CASE FetchedAll
      BY <3>2 DEF FetchedAll, FeedTypeOK
    <3>3. CASE Flush
      BY <3>3 DEF Flush, FeedTypeOK
    <3> QED BY <1>5, <3>1, <3>2, <3>3
  <2> QED BY <1>1, <1>2, <2>1, <2>2 DEF InOrder, Increasing
<1>6. CASE InsertEntry \/ EndEntry \/ UNCHANGED feedVars
  <2>1. worker' = worker /\ queue' = queue
    BY <1>6 DEF InsertEntry, EndEntry, CommitEntry, RollbackEntry, feedVars, producer
  <2> QED BY <1>1, <1>2, <2>1 DEF InOrder, Increasing
<1> QED BY <1>3, <1>4, <1>5, <1>6

\* Two empty sequences are in order.
LEMMA OrderInvInit == FeedInit => OrderInv
<1> SUFFICES ASSUME FeedInit PROVE OrderInv
  OBVIOUS
<1>1. /\ queue = << >> /\ topic = << >> /\ worker.at = "down"
      /\ DOMAIN queue = {} /\ DOMAIN topic = {}
  BY DEF FeedInit, Down
<1> QED BY <1>1, FeedTypeInit DEF OrderInv, InOrder, Increasing

\* Every step keeps the order, or is a produce request that fails.
LEMMA OrderInvNext == OrderInv /\ [FeedNext]_feedVars => OrderInv'
<1> SUFFICES ASSUME OrderInv, [FeedNext]_feedVars, faulted' = {} PROVE InOrder'
  BY FeedTypeNext DEF OrderInv
<1>1. CASE GiveUp \/ Retry
  BY <1>1 DEF GiveUp, Retry, Fault
<1>2. CASE ~(GiveUp \/ Retry)
  <2>1. faulted' = faulted
    BY <1>2 DEF FeedNext, WorkerStep, InsertEntry, EndEntry, CommitEntry, RollbackEntry, feedVars,
                PollEmpty, FetchFails, FlushFails, Crash, Die, Start, Poll, FetchEntry,
                FetchedAll, Flush, Deliver, producer
  <2>2. FeedTypeOK /\ InOrder
    BY <2>1 DEF OrderInv
  <2>3. \/ Deliver \/ FetchEntry
        \/ InsertEntry \/ EndEntry \/ UNCHANGED feedVars
        \/ PollEmpty \/ FetchFails \/ FlushFails \/ Crash
        \/ Start \/ Poll \/ FetchedAll \/ Flush
    BY <1>2 DEF FeedNext, WorkerStep
  <2> QED BY <2>2, <2>3, DeliverInOrder, FetchInOrder, OtherStepInOrder
<1> QED BY <1>1, <1>2

\* As long as no produce request fails, the topic has the entries in changelog
\* order and none twice, across any number of restarts of the worker.
THEOREM FeedAlwaysInOrder == FeedSpec => []FeedInOrder
<1>1. OrderInv => FeedInOrder
  BY DEF OrderInv, InOrder, Increasing, FeedInOrder
<1> QED BY <1>1, OrderInvInit, OrderInvNext, PTL DEF FeedSpec

=============================================================================
