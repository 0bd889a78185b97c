------------------------------ MODULE Harvest ------------------------------
(***************************************************************************)
(* The harvesters of fatcat_tools/harvest: day by day they ask a provider  *)
(* for the records updated on a date, produce them to a Kafka topic, and   *)
(* note the date as done in a state topic of their own, which is all that  *)
(* a new process knows of the work of its predecessors (HarvestState).     *)
(*                                                                         *)
(* All workers run the same loop; they differ in what fetch_date() makes   *)
(* of a provider's answer.  The producer delivers in order, and a run that *)
(* ends early has delivered some of what it produced.  The providers are   *)
(* external: RecordsOf says what they have.                                *)
(***************************************************************************)
EXTENDS RecordTopic, SequencesExt

CONSTANTS
    Sources,      \* the kinds of harvester: "registrar", "oai", "pubmed"
    LastDay,      \* bound on the days that pass
    CatchupDays,  \* HarvestState's catchup_days
    RecordsOf,    \* [Day -> sequence of the records updated on it]
    MaxHarvestDeaths

Day == 0 .. LastDay

ASSUME HarvestAssumption ==
    /\ LastDay \in Nat \ {0} /\ CatchupDays \in Nat \ {0}
    /\ MaxHarvestDeaths \in Nat
    /\ RecordsOf \in [Day -> Seq(Record)]

VARIABLES
    source,        \* which harvester runs, or "none"
    today,         \* the current UTC date
    harvester,     \* the process: HarvestState and the date at hand
    stateTopic,    \* the dates that were reported complete
    missed,        \* auxiliary: dates of which a record was left out
    harvestDeaths  \* auxiliary: counts up to MaxHarvestDeaths

harvestVars == <<source, today, harvester, stateTopic, topic, missed, harvestDeaths>>

HarvesterDown == [at |-> "down", date |-> 0, todo |-> {}, completed |-> {}]

HarvestTypeOK ==
    /\ today \in Day
    /\ topic \in Seq(Record)
    /\ harvester \in [at : {"down", "idle", "fetching", "fetched"}, date : Day,
                      todo : SUBSET Day, completed : SUBSET Day]
    /\ harvester.at # "down" =>
          /\ harvester.todo \cap harvester.completed = {}
          /\ harvester.at # "idle" => harvester.date \in harvester.todo
    /\ stateTopic \in SUBSET Day /\ missed \in SUBSET Day
    /\ \A d \in stateTopic \cup harvester.todo : d < today

HarvestInit ==
    /\ source \in Sources
    /\ today = 1
    /\ harvester = HarvesterDown
    /\ stateTopic = {}
    /\ topic = << >>
    /\ missed = {}
    /\ harvestDeaths = 0

-----------------------------------------------------------------------------
\* Mutant of Period: today is enqueued before it is over.
PeriodThroughToday(start, completed) ==
    {d \in Day : start <= d /\ d <= today} \ completed

\* enqueue_period() from the given date to yesterday.
Period(start, completed) == {d \in Day : start <= d /\ d < today} \ completed

\* Mutant of StartHarvester: the state topic is not replayed to its end.
StartUnread ==
    /\ source # "none"
    /\ harvester.at = "down"
    /\ harvester' = [HarvesterDown EXCEPT !.at = "idle",
                        !.completed = {d \in Day : d < today}]
    /\ UNCHANGED <<source, today, stateTopic, topic, missed, harvestDeaths>>

\* The constructor enqueues the catch-up window; initialize_from_kafka() then
\* takes out what the state topic has.
StartHarvester ==
    /\ source # "none"
    /\ harvester.at = "down"
    /\ LET first == IF today > CatchupDays THEN today - CatchupDays ELSE 0
       IN  harvester' = [at |-> "idle", date |-> 0,
                         todo |-> Period(first, stateTopic), completed |-> stateTopic]
    /\ UNCHANGED <<source, today, stateTopic, topic, missed, harvestDeaths>>

\* next_span(continuous=True): yesterday is enqueued, and no other day; the
\* oldest date is next.  With none, the loop sleeps and asks again.
NextSpan ==
    /\ harvester.at = "idle"
    /\ LET todo == harvester.todo \cup Period(today - 1, harvester.completed)
       IN  \E d \in todo :
              /\ \A e \in todo : d <= e
              /\ harvester' = [harvester EXCEPT !.at = "fetching", !.todo = todo, !.date = d]
    /\ UNCHANGED <<source, today, stateTopic, topic, missed, harvestDeaths>>

\* All records of the date are in the topic when fetch_date() returns.
Deliver(records) ==
    /\ harvester.at = "fetching"
    /\ topic' = topic \o records
    /\ harvester' = [harvester EXCEPT !.at = "fetched"]
    /\ UNCHANGED <<source, today, stateTopic, harvestDeaths>>

\* Crossref and Datacite: page by page, until one is short; any error raises.
FetchRegistrar ==
    /\ source = "registrar"
    /\ Deliver(RecordsOf[harvester.date])
    /\ UNCHANGED missed

\* OAI-PMH: NoRecordsMatch returns normally.
FetchOai ==
    /\ source = "oai"
    /\ Deliver(RecordsOf[harvester.date])
    /\ UNCHANGED missed

\* PubMed: a date that has no file yet returns False, which run() ignores, and
\* a file that cannot be decompressed is skipped.
FetchPubmed ==
    /\ source = "pubmed"
    /\ LET records == RecordsOf[harvester.date]
       IN  \/ Deliver(records) /\ UNCHANGED missed
           \/ \E n \in 0 .. Len(records) - 1 : \E at \in [1 .. n -> DOMAIN records] :
                /\ \A k \in 1 .. n - 1 : at[k] < at[k + 1]
                /\ Deliver([k \in 1 .. n |-> records[at[k]]])
                /\ missed' = missed \cup {harvester.date}

\* Mutant of Complete: the date is reported when it is taken up.
CompleteFirst ==
    /\ harvester.at = "fetching" /\ harvester.date \notin stateTopic
    /\ stateTopic' = stateTopic \cup {harvester.date}
    /\ UNCHANGED <<source, today, harvester, topic, missed, harvestDeaths>>

\* complete(): in memory, then in the state topic, flushed.
Complete ==
    /\ harvester.at = "fetched"
    /\ harvester' = [harvester EXCEPT !.at = "idle", !.todo = @ \ {harvester.date},
                                      !.completed = @ \cup {harvester.date}]
    /\ stateTopic' = stateTopic \cup {harvester.date}
    /\ UNCHANGED <<source, today, topic, missed, harvestDeaths>>

\* An HTTP or delivery error, or a kill.
HarvesterDies ==
    /\ harvester.at # "down"
    /\ harvestDeaths < MaxHarvestDeaths
    /\ harvestDeaths' = harvestDeaths + 1
    /\ IF harvester.at = "fetching"
       THEN \E n \in 0 .. Len(RecordsOf[harvester.date]) :
               topic' = topic \o SubSeq(RecordsOf[harvester.date], 1, n)
       ELSE UNCHANGED topic
    /\ harvester' = HarvesterDown
    /\ UNCHANGED <<source, today, stateTopic, missed>>

DayPasses ==
    /\ today < LastDay
    /\ today' = today + 1
    /\ UNCHANGED <<source, harvester, stateTopic, topic, missed, harvestDeaths>>

HarvestStep ==
    \/ StartHarvester \/ NextSpan \/ Complete
    \/ FetchRegistrar \/ FetchOai \/ FetchPubmed

HarvestNext == HarvestStep \/ HarvesterDies \/ DayPasses

\* The loop goes on, and a harvester that died is started again.
HarvestFairness == WF_harvestVars(HarvestStep)

HarvestSpec == HarvestInit /\ [][HarvestNext]_harvestVars /\ HarvestFairness

-----------------------------------------------------------------------------
\* A date is in the state topic only when its records are in the topic,
\* whichever process fetched them and however often; PubMed alone gives dates
\* up.
DatesDelivered ==
    \A d \in stateTopic \ missed :
        \A k \in DOMAIN RecordsOf[d] : Contains(topic, RecordsOf[d][k])

\* What is enqueued is harvested, through any number of processes, unless it
\* falls out of the catch-up window before one is started that gets to it.
\* (That every day is enqueued is not so: next_span() looks back one day.)
EnqueuedHarvested ==
    \A d \in Day :
        d \in harvester.todo ~> \/ d \in stateTopic
                                \/ d + CatchupDays < today

=============================================================================
