----------------------------- MODULE ReviewBot ------------------------------
(***************************************************************************)
(* ReviewBot.run() of fatcat_tools/reviewers: lists the editgroups         *)
(* submitted after a time, annotates each, and goes on from the time of    *)
(* the last one.  The time travels in whole seconds.                       *)
(***************************************************************************)
EXTENDS Editgroups, Sequences, FiniteSets, SequencesExt

CONSTANTS
    TicksPerSecond,
    PageLimit,     \* get_editgroups_reviewable's limit
    MaxBotDeaths

ASSUME ReviewBotAssumption ==
    TicksPerSecond \in Nat \ {0} /\ PageLimit \in Nat \ {0} /\ MaxBotDeaths \in Nat

VARIABLES
    bot,          \* the process: since, what is left of the page, each
                  \* editgroup with its time, and when it started
    annotations,  \* which bot process annotated which submission
    botDeaths     \* auxiliary: counts up to MaxBotDeaths, names the process

reviewVars == <<now, editgroup, bot, annotations, botDeaths>>

BotDown == [at |-> "down", start |-> 0, since |-> 0, todo |-> << >>]

Second(t) == t \div TicksPerSecond
Submission == [eg : Editgroup, at : 1 .. LastTick]

ReviewTypeOK ==
    /\ EditgroupsTypeOK
    /\ bot \in [at : {"down", "list", "review"}, start : 0 .. now,
                since : 0 .. now + TicksPerSecond, todo : Seq(Submission)]
    /\ Len(bot.todo) <= PageLimit
    /\ bot.todo # << >> <=> bot.at = "review"
    /\ annotations \subseteq [eg : Editgroup, at : 1 .. LastTick, by : 0 .. MaxBotDeaths]
    /\ botDeaths \in 0 .. MaxBotDeaths

BotInit == bot = BotDown /\ annotations = {} /\ botDeaths = 0

-----------------------------------------------------------------------------
\* Mutant of StartBot: the present is rounded up to the second.
StartBotRounded ==
    /\ bot.at = "down"
    /\ bot' = [at |-> "list", start |-> now, since |-> now + TicksPerSecond, todo |-> << >>]
    /\ UNCHANGED <<now, editgroup, annotations, botDeaths>>

\* run() begins with the present.
StartBot ==
    /\ bot.at = "down"
    /\ bot' = [at |-> "list", start |-> now, since |-> now, todo |-> << >>]
    /\ UNCHANGED <<now, editgroup, annotations, botDeaths>>

\* db_get_range_reviewable(since): strictly later than the whole second, the
\* earliest first.
Reviewable(since) ==
    {g \in Editgroup : /\ ~Accepted(g)
                       /\ editgroup[g].submitted > TicksPerSecond * Second(since)}

\* Mutant of Pages: no LIMIT.
PagesUnlimited(groups) ==
    {[n \in DOMAIN s |-> [eg |-> s[n], at |-> editgroup[s[n]].submitted]] : s \in SetToSeqs(groups)}

\* Mutant of Pages: the latest first.
PagesLatestFirst(groups) ==
    {[n \in 1 .. IF Len(s) < PageLimit THEN Len(s) ELSE PageLimit |->
         [eg |-> s[n], at |-> editgroup[s[n]].submitted]] :
        s \in {q \in SetToSeqs(groups) :
                  \A n \in 1 .. Len(q) - 1 :
                      editgroup[q[n]].submitted >= editgroup[q[n + 1]].submitted}}

\* The pages that ORDER BY submitted may give: ties come in any order.
Pages(groups) ==
    {[n \in 1 .. IF Len(s) < PageLimit THEN Len(s) ELSE PageLimit |->
         [eg |-> s[n], at |-> editgroup[s[n]].submitted]] :
        s \in {q \in SetToSeqs(groups) :
                  \A n \in 1 .. Len(q) - 1 :
                      editgroup[q[n]].submitted <= editgroup[q[n + 1]].submitted}}

\* An empty page means sleep and ask again.
ListReviewable ==
    /\ bot.at = "list"
    /\ Reviewable(bot.since) # {}
    /\ \E page \in Pages(Reviewable(bot.since)) :
          bot' = [bot EXCEPT !.at = "review", !.todo = page]
    /\ UNCHANGED <<now, editgroup, annotations, botDeaths>>

\* Mutant of Annotate: the next page begins with the last submission's second.
AnnotateBusily ==
    /\ bot.at = "review"
    /\ LET s == Head(bot.todo)
       IN  /\ annotations' = annotations \cup {[eg |-> s.eg, at |-> s.at, by |-> botDeaths]}
           /\ bot' = [bot EXCEPT !.at = IF Len(bot.todo) = 1 THEN "list" ELSE "review",
                                 !.todo = Tail(@), !.since = s.at]
    /\ UNCHANGED <<now, editgroup, botDeaths>>

\* review_editgroup() and the annotation, whatever became of the editgroup
\* since; after the last of a page, since moves on a second.
Annotate ==
    /\ bot.at = "review"
    /\ LET s == Head(bot.todo)
       IN  /\ annotations' = annotations \cup {[eg |-> s.eg, at |-> s.at, by |-> botDeaths]}
           /\ bot' = IF Len(bot.todo) = 1
                     THEN [bot EXCEPT !.at = "list", !.todo = << >>,
                                      !.since = s.at + TicksPerSecond]
                     ELSE [bot EXCEPT !.todo = Tail(@), !.since = s.at]
    /\ UNCHANGED <<now, editgroup, botDeaths>>

\* Any API error ends run().
BotDies ==
    /\ bot.at # "down"
    /\ botDeaths < MaxBotDeaths
    /\ botDeaths' = botDeaths + 1
    /\ bot' = BotDown
    /\ UNCHANGED <<now, editgroup, annotations>>

BotStep == StartBot \/ ListReviewable \/ Annotate
BotNext == BotStep \/ BotDies

-----------------------------------------------------------------------------
Annotated(g, t) == \E a \in annotations : a.eg = g /\ a.at = t
AnnotatedInSecond(t) == \E a \in annotations : Second(a.at) = Second(t)

\* Left out by how since moves: another submission of the same second has been
\* annotated (the TODO in run()), or this one fell on a whole second.
CrowdedOut(t) == AnnotatedInSecond(t) \/ t % TicksPerSecond = 0

\* One process annotates a submission once, though it never looks at what is
\* annotated already (the other TODO): the second it adds takes the next page
\* past the last, retracted and submitted again or not.
AnnotatedOnce ==
    [][bot.at = "review" /\ bot' # bot /\ bot'.at # "down" =>
          [eg |-> Head(bot.todo).eg, at |-> Head(bot.todo).at, by |-> botDeaths]
             \notin annotations]_reviewVars

\* since never passes a submission of the time the bot is running that waits
\* for a review, however many are submitted while a page is worked off.
NonePassedOver ==
    \A g \in Editgroup :
        LET t == editgroup[g].submitted
        IN  /\ bot.at = "list" /\ ~Accepted(g)
            /\ bot.start <= t /\ t <= TicksPerSecond * Second(bot.since)
            => Annotated(g, t) \/ CrowdedOut(t)

\* An unaccepted editgroup, submitted while the bot runs, that it owes a review.
Waiting(g) ==
    LET t == editgroup[g].submitted
    IN  /\ bot.at # "down" /\ ~Accepted(g) /\ t # 0 /\ bot.start <= t
        /\ ~Annotated(g, t) /\ ~CrowdedOut(t)

\* What is submitted while the bot runs, and stays so, is annotated in the end,
\* unless the bot is started again after it.
SubmittedReviewed == \A g \in Editgroup : Waiting(g) ~> ~Waiting(g)

=============================================================================
