---------------------------- MODULE Acquisition -----------------------------
(***************************************************************************)
(* How urls come into table `sources`: `worker rss` polls feeds, each at   *)
(* its own interval, and `worker research` searches the web for the        *)
(* queries that a language model thinks of (worker.go, rss.go, research.go).*)
(* Both hand what they find to CollectOnce, which opens its transaction    *)
(* before it fetches anything and inserts one url after the other, each in *)
(* a savepoint.  All rows belong to one tenant.                            *)
(***************************************************************************)
EXTENDS Naturals, FiniteSets, SequencesExt

CONSTANTS
  Urls, NoUrl,               \* NoUrl: a search result without a url
  Feeds,                     \* 1..number of feeds, in the order of the file
  Never,                     \* no poll yet
  HasTenant,                 \* feeds with a tenant of their own
  PollInterval,              \* per feed, in ticks
  Entries,                   \* per feed: its urls
  MaxPoll,                   \* bound: ticks that one poll takes
  Answers,                   \* what the model may answer: <<perspective, query>>, ...
  Lower, Stopwords,          \* strings.ToLower word by word, stopwords
  Results,                   \* per query: what the search engine finds
  QuestionsPerPerspective, ResultsPerQuery, MaxTotalFetches,  \* limits of a run
  MaxResearches,             \* bound: research runs
  MaxFailures                \* bound: polls, runs and inserts that fail

Queries == {entry[2] : entry \in UNION {Range(answer) : answer \in Answers}}

ASSUME AcquisitionConstants ==
  /\ NoUrl \notin Urls /\ Never \notin Nat
  /\ IsFiniteSet(Feeds) /\ Feeds = 1..Cardinality(Feeds)
  /\ HasTenant \subseteq Feeds
  /\ PollInterval \in [Feeds -> Nat \ {0}]
  /\ Entries \in [Feeds -> Seq(Urls)]
  /\ \A answer \in Answers :
       /\ answer \in Seq(Nat \X Queries)
       /\ \A i, j \in DOMAIN answer : i < j => answer[i][1] <= answer[j][1]
  /\ Results \in [Queries -> Seq(Urls \cup {NoUrl})]
  /\ ResultsPerQuery \in Nat \ {0}
  /\ {MaxPoll, QuestionsPerPerspective, MaxTotalFetches, MaxResearches, MaxFailures} \subseteq Nat

VARIABLES
  rows,        \* committed urls
  inserted,    \* per writer: urls inserted in its open transaction
  items,       \* per writer: urls it still has to insert
  rss,         \* the process `worker rss`
  since,       \* per feed: ticks since its last poll; Never in a new process
  research,    \* the process `worker research`
  researches,  \* research runs begun
  failures

vars == <<rows, inserted, items, rss, since, research, researches, failures>>

Writers == {"rss", "research"}

-----------------------------------------------------------------------------
(* CollectOnce, from the first insert on.                                  *)

\* Whose uncommitted insert of the same url w must wait for.
WaitsFor(w, v) == items[w] # <<>> /\ Head(items[w]) \in inserted[v] \ rows /\ v # w

\* ON CONFLICT (tenant_id, url) DO NOTHING.
Insert(w) ==
  /\ items[w] # <<>>
  /\ \A v \in Writers : ~WaitsFor(w, v)
  /\ inserted' = [inserted EXCEPT ![w] = @ \cup ({Head(items[w])} \ rows)]
  /\ items' = [items EXCEPT ![w] = Tail(@)]
  /\ UNCHANGED <<rows, rss, since, research, researches, failures>>

SkipItem(w) ==
  /\ items' = [items EXCEPT ![w] = Tail(@)]
  /\ UNCHANGED <<rows, inserted, rss, since, research, researches>>

\* ROLLBACK TO SAVEPOINT, and on to the next item.
InsertFails(w) ==
  /\ items[w] # <<>>
  /\ failures < MaxFailures /\ failures' = failures + 1
  /\ SkipItem(w)

\* PostgreSQL cancels one of two inserts that wait for each other; to
\* CollectOnce that is an insert that fails.
DeadlockVictim(w) ==
  /\ \E v \in Writers : WaitsFor(w, v) /\ WaitsFor(v, w)
  /\ SkipItem(w)
  /\ UNCHANGED failures

Commit(w) ==
  /\ items[w] = <<>>
  /\ rows' = rows \cup inserted[w]
  /\ inserted' = [inserted EXCEPT ![w] = {}]
  /\ UNCHANGED items

Rollback(w) ==
  /\ inserted' = [inserted EXCEPT ![w] = {}]
  /\ items' = [items EXCEPT ![w] = <<>>]
  /\ UNCHANGED rows

-----------------------------------------------------------------------------
(* worker rss.  The process starts with no memory of earlier polls.        *)

Down == [pc |-> "down", once |-> FALSE, due |-> {}, batch |-> {},
         took |-> 0, spent |-> 0, wait |-> 0]

\* Mutant of Scheduled: positions among the schedules instead of feed indexes.
ScheduledByPosition == 1..Cardinality(HasTenant)

\* buildRSSSchedules: feeds without a tenant of their own are left out.
Scheduled == HasTenant

\* dueRSSFeedIndexes.
Due == {f \in Scheduled : since[f] = Never \/ since[f] >= PollInterval[f]}

\* Polls that are due, all of them if --once.  `took` counts the ticks since
\* the clock was read, `spent` those of the current poll.
Look ==
  /\ rss.pc = "look"
  /\ LET due == IF rss.once THEN Scheduled ELSE Due IN
       rss' = [rss EXCEPT !.pc = "poll", !.due = due, !.batch = due, !.took = 0, !.spent = 0]
  /\ UNCHANGED <<rows, inserted, items, since, research, researches, failures>>

\* Collect of the next feed in the order of the file: the transaction is open,
\* the feed fetched and parsed.
Poll ==
  /\ rss.pc = "poll" /\ rss.due # {}
  /\ items' = [items EXCEPT !["rss"] = Entries[Min(rss.due)]]
  /\ rss' = [rss EXCEPT !.pc = "insert"]
  /\ UNCHANGED <<rows, inserted, since, research, researches, failures>>

Polled ==
  /\ rss.pc = "insert"
  /\ Commit("rss")
  /\ rss' = [rss EXCEPT !.pc = "poll", !.due = @ \ {Min(@)}, !.spent = 0]
  /\ UNCHANGED <<since, research, researches, failures>>

\* Whatever fails, the feed, a transaction or the process, it is the end of the
\* worker: what earlier feeds brought is committed, the polls are forgotten.
RssFails ==
  /\ rss.pc # "down"
  /\ failures < MaxFailures /\ failures' = failures + 1
  /\ Rollback("rss")
  /\ rss' = Down
  /\ since' = [f \in Feeds |-> Never]
  /\ UNCHANGED <<research, researches>>

Remaining(f, age) == IF age[f] >= PollInterval[f] THEN 0 ELSE PollInterval[f] - age[f]

\* Mutant of nextRSSPollWait: the longest of the waits.
LongestWait(age) ==
  IF Scheduled = {} THEN 1 ELSE Max({Remaining(f, age) : f \in Scheduled})

\* From the ages of the last polls when the clock was read.
nextRSSPollWait(age) ==
  IF Scheduled = {} THEN 1 ELSE Min({Remaining(f, age) : f \in Scheduled})

\* The time noted for every feed of the batch is that of its beginning.
BatchDone ==
  /\ rss.pc = "poll" /\ rss.due = {}
  /\ IF rss.once
       THEN rss' = Down /\ since' = [f \in Feeds |-> Never]
       ELSE LET age == [f \in Scheduled |-> IF f \in rss.batch THEN 0 ELSE since[f] - rss.took]
            IN  /\ since' = [f \in Feeds |-> IF f \in rss.batch THEN rss.took ELSE since[f]]
                /\ rss' = [rss EXCEPT !.pc = "sleep", !.batch = {},
                                      !.wait = Max({nextRSSPollWait(age), 1})]
  /\ UNCHANGED <<rows, inserted, items, research, researches, failures>>

Wake ==
  /\ rss.pc = "sleep" /\ rss.wait = 0
  /\ rss' = [rss EXCEPT !.pc = "look"]
  /\ UNCHANGED <<rows, inserted, items, since, research, researches, failures>>

\* The supervisor of the loop, or the CronJob, which polls --once.
Start ==
  /\ rss.pc = "down"
  /\ \E once \in BOOLEAN : rss' = [Down EXCEPT !.pc = "look", !.once = once]
  /\ UNCHANGED <<rows, inserted, items, since, research, researches, failures>>

Tick ==
  /\ \/ /\ rss.pc = "sleep" /\ rss.wait > 0
        /\ rss' = [rss EXCEPT !.wait = @ - 1]
     \/ /\ rss.pc \in {"poll", "insert"} /\ rss.due # {} /\ ~rss.once
        /\ rss.spent < MaxPoll
        /\ rss' = [rss EXCEPT !.spent = @ + 1, !.took = @ + 1]
  /\ since' = [f \in Feeds |-> IF since[f] = Never THEN Never ELSE since[f] + 1]
  /\ UNCHANGED <<rows, inserted, items, research, researches, failures>>

-----------------------------------------------------------------------------
(* worker research.                                                        *)

\* queries and searched: positions in the model's answer; urls: positions in
\* the results of the current query.
Resting == [pc |-> "idle", answer |-> <<>>, queries |-> {}, searched |-> {},
            results |-> <<>>, urls |-> {}, found |-> <<>>, tried |-> 0]

normalizeQuery(q) ==
  SelectSeq([i \in DOMAIN q |-> Lower[q[i]]], LAMBDA word : word \notin Stopwords)

\* The first queries of each perspective.
Capped(answer) ==
  {i \in DOMAIN answer :
     Cardinality({j \in 1..i : answer[j][1] = answer[i][1]}) <= QuestionsPerPerspective}

SameQuery(answer, i, j) == normalizeQuery(answer[i][2]) = normalizeQuery(answer[j][2])

\* The first of several queries with the same normal form.
dedup(answer) ==
  {i \in Capped(answer) : \A j \in Capped(answer) : SameQuery(answer, i, j) => i <= j}

\* Both calls of the model.  The number of items in its second answer is not
\* limited by the number of perspectives asked for.
GenerateQueries ==
  /\ research.pc = "idle" /\ researches < MaxResearches
  /\ researches' = researches + 1
  /\ \E answer \in Answers :
       research' = [Resting EXCEPT !.pc = "search", !.answer = answer, !.queries = dedup(answer)]
  /\ UNCHANGED <<rows, inserted, items, rss, since, failures>>

fetched == Len(research.found)

\* A search that fails is passed over.
Search ==
  /\ research.pc = "search" /\ research.urls = {} /\ research.queries # {}
  /\ fetched < MaxTotalFetches
  /\ LET q       == Min(research.queries)
         results == Results[research.answer[q][2]]
     IN  \E urls \in {{}, {i \in DOMAIN results : i <= ResultsPerQuery /\ results[i] # NoUrl}} :
           research' = [research EXCEPT !.queries = @ \ {q}, !.searched = @ \cup {q},
                                        !.results = results, !.urls = urls]
  /\ UNCHANGED <<rows, inserted, items, rss, since, researches, failures>>

\* Mutant of fetchPage: the limit is looked at between queries only.
FetchAll ==
  /\ research.pc = "search" /\ research.urls # {}
  /\ LET i == Min(research.urls) IN
       \E found \in {research.found, Append(research.found, research.results[i])} :
         research' = [research EXCEPT !.urls = @ \ {i}, !.found = found, !.tried = @ + 1]
  /\ UNCHANGED <<rows, inserted, items, rss, since, researches, failures>>

\* A page that cannot be fetched does not count.
fetchPage ==
  /\ research.pc = "search" /\ research.urls # {}
  /\ fetched < MaxTotalFetches
  /\ LET i == Min(research.urls) IN
       \E found \in {research.found, Append(research.found, research.results[i])} :
         research' = [research EXCEPT !.urls = @ \ {i}, !.found = found, !.tried = @ + 1]
  /\ UNCHANGED <<rows, inserted, items, rss, since, researches, failures>>

\* Nothing left, or the limit is reached.
CollectFound ==
  /\ research.pc = "search"
  /\ fetched >= MaxTotalFetches \/ (research.urls = {} /\ research.queries = {})
  /\ items' = [items EXCEPT !["research"] = research.found]
  /\ research' = [research EXCEPT !.pc = "insert"]
  /\ UNCHANGED <<rows, inserted, rss, since, researches, failures>>

ResearchDone ==
  /\ research.pc = "insert"
  /\ Commit("research")
  /\ research' = Resting
  /\ UNCHANGED <<rss, since, researches, failures>>

\* An error of the model or the database, or Ctrl-C.
ResearchFails ==
  /\ research.pc # "idle"
  /\ failures < MaxFailures /\ failures' = failures + 1
  /\ Rollback("research")
  /\ research' = Resting
  /\ UNCHANGED <<rss, since, researches>>

-----------------------------------------------------------------------------
Init ==
  /\ rows = {}
  /\ inserted = [w \in Writers |-> {}]
  /\ items = [w \in Writers |-> <<>>]
  /\ rss = Down
  /\ since = [f \in Feeds |-> Never]
  /\ research = Resting
  /\ researches = 0
  /\ failures = 0

Store(w) == Insert(w) \/ DeadlockVictim(w)

RssStep == Start \/ Look \/ Poll \/ Polled \/ BatchDone \/ Wake

ResearchStep == Search \/ fetchPage \/ CollectFound \/ ResearchDone

Next ==
  \/ \E w \in Writers : Store(w) \/ InsertFails(w)
  \/ RssStep \/ RssFails \/ Tick
  \/ GenerateQueries \/ ResearchStep \/ ResearchFails

Spec == Init /\ [][Next]_vars

\* Both processes go on, a worker that ended is started again, time passes and
\* a deadlock is resolved.
Fairness ==
  /\ \A w \in Writers : WF_vars(Store(w))
  /\ WF_vars(RssStep) /\ WF_vars(Tick) /\ WF_vars(ResearchStep)

FairSpec == Spec /\ Fairness

-----------------------------------------------------------------------------
(* What correct acquisition guarantees.                                    *)

\* However long the polls of a batch take and however the intervals of the
\* feeds interleave, the loop, which computes its wait from a clock it read
\* before polling (worker.go:247), never lets a feed wait for longer than its
\* interval and the polls of two batches.
EveryFeedFresh ==
  \A f \in Feeds :
    since[f] # Never => /\ f \in HasTenant
                        /\ since[f] <= PollInterval[f] + 2 * MaxPoll * Cardinality(Scheduled)

\* What the "LIVE fetch counter inside Collect" (research.go:279) does bound: no
\* run inserts more pages than MaxTotalFetches, which the check within a query is
\* for, no more than ResultsPerQuery fetches are tried for a query, failed ones
\* included, and no two queries of a run have the same normal form (research.go:259).
\* This is less than the documentation promises. "Hard ceiling on page fetches"
\* (worker.go:398; active-acquisition.md:120) would be research.tried <=
\* MaxTotalFetches, which is false: a page that cannot be had is not counted
\* (research.go:316), so a run may fetch more pages than MaxTotalFetches.
ResearchBounded ==
  /\ fetched <= MaxTotalFetches
  /\ Len(items["research"]) + Cardinality(inserted["research"]) <= MaxTotalFetches
  /\ research.tried <= ResultsPerQuery * Cardinality(research.searched)
  /\ \A i, j \in research.searched \cup research.queries :
       i # j => ~SameQuery(research.answer, i, j)

\* Every entry of every scheduled feed is stored in the end, although polls
\* fail, the worker is restarted, and inserts lose deadlocks against a research
\* run that is rolled back afterwards (source_pipeline.go:91): the next poll
\* offers it again.
EveryEntryStored ==
  \A f \in HasTenant : \A u \in Range(Entries[f]) : <>(u \in rows)

-----------------------------------------------------------------------------
(* Why these bounds hold: an inductive invariant.                          *)

InBatch == rss.pc \in {"poll", "insert"}

\* How old the last poll of f may be: a feed that is not in the batch was not
\* due when the clock was read, and a sleep ends before the next one is due.
InTime(f) ==
  LET slack == MaxPoll * Cardinality(Scheduled) IN
    /\ rss.pc = "look" => since[f] <= PollInterval[f] + slack
    /\ rss.pc = "sleep" => since[f] + rss.wait <= PollInterval[f] + slack
    /\ InBatch /\ f \in rss.batch => since[f] <= PollInterval[f] + slack + rss.took
    /\ InBatch /\ f \notin rss.batch => rss.took <= since[f] /\ since[f] < PollInterval[f] + rss.took

\* What the loop remembers, and that the polls of a batch take MaxPoll each.
PollsInTime ==
  /\ rss \in [pc : {"down", "look", "poll", "insert", "sleep"}, once : BOOLEAN,
              due : SUBSET Scheduled, batch : SUBSET Scheduled,
              took : Nat, spent : 0..MaxPoll, wait : Nat]
  /\ since \in [Feeds -> Nat \cup {Never}]
  /\ rss.pc = "insert" => rss.due # {}
  /\ rss.due = {} => rss.spent = 0
  /\ InBatch =>
       /\ rss.due \subseteq rss.batch
       /\ rss.took + MaxPoll * Cardinality(rss.due)
            <= MaxPoll * Cardinality(rss.batch) + rss.spent
       /\ ~rss.once => \A f \in Scheduled \ rss.batch : since[f] # Never
  /\ \A f \in Feeds : since[f] # Never =>
       f \in Scheduled /\ rss.pc # "down" /\ ~rss.once /\ InTime(f)

\* What is being stored; a research run stores nothing before its last fetch.
StoresInHand ==
  /\ items \in [Writers -> Seq(Urls)]
  /\ inserted \in [Writers -> SUBSET Urls] /\ IsFiniteSet(inserted["research"])
  /\ research.pc # "insert" => items["research"] = <<>> /\ inserted["research"] = {}
  /\ Len(items["research"]) + Cardinality(inserted["research"]) <= MaxTotalFetches

\* What a run has been told to search for, has found, and has tried.
ResearchInHand ==
  /\ research \in [pc : {"idle", "search", "insert"}, answer : Seq(Nat \X Queries),
                   queries : SUBSET Nat, searched : SUBSET Nat,
                   results : Seq(Urls \cup {NoUrl}), urls : SUBSET Nat,
                   found : Seq(Urls), tried : Nat]
  /\ fetched <= MaxTotalFetches
  /\ research.queries \cup research.searched \subseteq dedup(research.answer)
  /\ research.queries \cap research.searched = {} /\ IsFiniteSet(research.searched)
  /\ IsFiniteSet(research.urls)
  /\ \A i \in research.urls : i \in DOMAIN research.results /\ research.results[i] \in Urls
  /\ research.tried + Cardinality(research.urls) <= ResultsPerQuery * Cardinality(research.searched)

AcquisitionInv == PollsInTime /\ StoresInHand /\ ResearchInHand
=============================================================================
