------------------------- MODULE AcquisitionProofs -------------------------
(***************************************************************************)
(* AcquisitionInv is an inductive invariant of Acquisition for any feeds,  *)
(* intervals, answers of the model, results of searches, limits and bounds: *)
(* so no feed waits longer than its interval and the polls of two batches, *)
(* and no research run exceeds its limits.                                 *)
(***************************************************************************)
EXTENDS Acquisition, FiniteSetTheorems, WellFoundedInduction, TLAPS

\* Min of a non-empty set of numbers is its least member: with it a proof takes the
\* first number for which something fails, which is how it argues by induction.
LEMMA MinIsLeast ==
  ASSUME NEW S \in SUBSET Nat, S # {}
  PROVE  Min(S) \in S /\ \A y \in S : Min(S) <= y
<1> DEFINE R == {p \in Nat \X Nat : p[1] < p[2]}
<1>1. IsWellFoundedOn(R, Nat)
  BY NatLessThanWellFounded DEF OpToRel
<1> HIDE DEF R
<1>2. PICK x \in S : \A y \in S : <<y, x>> \notin R
  BY <1>1, WFMin
<1>3. ASSUME NEW y \in S PROVE x <= y
  <2>1. <<y, x>> \in Nat \X Nat /\ x \in Nat /\ y \in Nat
    OBVIOUS
  <2>2. ~(y < x)
    BY <1>2, <2>1 DEF R
  <2> QED BY <2>1, <2>2
<1> QED BY <1>3 DEF Min

Slack == MaxPoll * Cardinality(Scheduled)

LEMMA Limits ==
  /\ MaxPoll \in Nat /\ MaxTotalFetches \in Nat /\ ResultsPerQuery \in Nat
  /\ \A f \in Feeds : PollInterval[f] \in Nat /\ PollInterval[f] > 0
  /\ Never \notin Nat
<1>1. /\ {MaxPoll, MaxTotalFetches} \subseteq Nat /\ ResultsPerQuery \in Nat /\ Never \notin Nat
      /\ PollInterval \in [Feeds -> Nat \ {0}]
  BY AcquisitionConstants
<1>2. \A f \in Feeds : PollInterval[f] \in Nat \ {0}
  BY <1>1
<1> QED BY <1>1, <1>2

LEMMA ScheduledIsFinite ==
  /\ Scheduled \in SUBSET Feeds /\ Scheduled \in SUBSET Nat /\ IsFiniteSet(Scheduled)
  /\ Cardinality(Scheduled) \in Nat /\ Slack \in Nat
<1>1. Feeds \in SUBSET Nat
  <2>1. Cardinality(Feeds) \in Nat /\ Feeds = 1..Cardinality(Feeds)
    BY AcquisitionConstants, FS_CardinalityType
  <2>2. \A n \in Nat : 1..n \in SUBSET Nat
    OBVIOUS
  <2> QED BY <2>1, <2>2
<1>2. Scheduled \in SUBSET Feeds
  BY AcquisitionConstants DEF Scheduled
<1>3. IsFiniteSet(Scheduled)
  BY <1>2, AcquisitionConstants, FS_Subset
<1>4. Cardinality(Scheduled) \in Nat
  BY <1>3, FS_CardinalityType
<1>5. Slack \in Nat
  BY <1>4, Limits DEF Slack
<1> QED BY <1>1, <1>2, <1>3, <1>4, <1>5

\* A batch of feeds, and one feed less.
LEMMA Batches ==
  ASSUME NEW S \in SUBSET Scheduled
  PROVE  /\ IsFiniteSet(S) /\ Cardinality(S) \in Nat /\ S \in SUBSET Nat
         /\ MaxPoll * Cardinality(S) \in Nat /\ MaxPoll * Cardinality(S) <= Slack
         /\ S # {} => /\ Min(S) \in S
                      /\ Cardinality(S \ {Min(S)}) \in Nat
                      /\ MaxPoll * Cardinality(S) = MaxPoll * Cardinality(S \ {Min(S)}) + MaxPoll
         /\ S = {} => MaxPoll * Cardinality(S) = 0
<1>1. IsFiniteSet(S) /\ S \in SUBSET Nat /\ Cardinality(S) \in Nat
  BY ScheduledIsFinite, FS_Subset, FS_CardinalityType
<1>2. Cardinality(S) <= Cardinality(Scheduled)
  BY ScheduledIsFinite, FS_Subset
<1>3. ASSUME NEW m \in Nat, NEW j \in Nat, NEW k \in Nat, j <= k
      PROVE  m * j \in Nat /\ m * j <= m * k
  <2>1. PICK i \in Nat : k = j + i
    <3>1. k - j \in Nat /\ k = j + (k - j)
      BY <1>3
    <3> QED BY <3>1
  <2>2. m * k = m * j + m * i
    BY <2>1
  <2>3. m * j \in Nat /\ m * i \in Nat
    OBVIOUS
  <2> QED BY <2>2, <2>3
<1>4. MaxPoll * Cardinality(S) \in Nat /\ MaxPoll * Cardinality(S) <= Slack
  BY <1>1, <1>2, <1>3, ScheduledIsFinite, Limits DEF Slack
<1>5. ASSUME S # {}
      PROVE  /\ Min(S) \in S
             /\ Cardinality(S \ {Min(S)}) \in Nat
             /\ MaxPoll * Cardinality(S) = MaxPoll * Cardinality(S \ {Min(S)}) + MaxPoll
  <2>1. Min(S) \in S
    BY <1>1, <1>5, MinIsLeast
  <2>2. IsFiniteSet(S \ {Min(S)}) /\ Cardinality(S \ {Min(S)}) = Cardinality(S) - 1
    BY <1>1, <2>1, FS_RemoveElement
  <2>3. Cardinality(S \ {Min(S)}) \in Nat
    BY <2>2, FS_CardinalityType
  <2>4. ASSUME NEW m \in Nat, NEW j \in Nat, NEW k \in Nat, j = k - 1
        PROVE  m * k = m * j + m
    <3>1. k = j + 1
      BY <2>4
    <3> QED BY <3>1
  <2> QED BY <1>1, <2>1, <2>2, <2>3, <2>4, Limits
<1>6. S = {} => MaxPoll * Cardinality(S) = 0
  BY FS_EmptySet, Limits
<1> QED BY <1>1, <1>4, <1>5, <1>6

-----------------------------------------------------------------------------
(* The RSS loop.                                                           *)

Loop == [pc : {"down", "look", "poll", "insert", "sleep"}, once : BOOLEAN,
         due : SUBSET Scheduled, batch : SUBSET Scheduled,
         took : Nat, spent : 0..MaxPoll, wait : Nat]

LEMMA LoopTyped ==
  ASSUME PollsInTime
  PROVE  /\ rss \in Loop /\ rss.took \in Nat /\ rss.wait \in Nat
         /\ rss.spent \in Nat /\ rss.spent <= MaxPoll
         /\ rss.due \in SUBSET Scheduled /\ rss.batch \in SUBSET Scheduled
         /\ \A f \in Feeds : since[f] # Never => since[f] \in Nat
<1>1. rss \in Loop /\ since \in [Feeds -> Nat \cup {Never}]
  BY DEF PollsInTime, Loop
<1>2. rss.spent \in 0..MaxPoll
  BY <1>1 DEF Loop
<1> QED BY <1>1, <1>2, Limits DEF Loop

\* Nobody but the RSS worker touches its state.
LEMMA RssFrame ==
  ASSUME PollsInTime, rss' = rss, since' = since
  PROVE  PollsInTime'
BY DEF PollsInTime, InBatch, InTime, Scheduled

\* The polls of a batch, however far they are, took less than MaxPoll each.
LEMMA TookInSlack ==
  ASSUME PollsInTime, InBatch
  PROVE  rss.took <= Slack
<1>1. rss.due \in SUBSET Scheduled /\ rss.batch \in SUBSET Scheduled /\ rss.took \in Nat
      /\ rss.spent \in Nat /\ rss.spent <= MaxPoll
  BY LoopTyped
<1>2. rss.took + MaxPoll * Cardinality(rss.due) <= MaxPoll * Cardinality(rss.batch) + rss.spent
  BY DEF PollsInTime
<1>3. /\ MaxPoll * Cardinality(rss.batch) \in Nat /\ MaxPoll * Cardinality(rss.batch) <= Slack
      /\ Slack \in Nat /\ MaxPoll \in Nat
  BY <1>1, Batches, ScheduledIsFinite, Limits
<1>4. CASE rss.due = {}
  <2>1. rss.spent = 0 /\ MaxPoll * Cardinality(rss.due) = 0
    BY <1>1, <1>4, Batches DEF PollsInTime
  <2> QED BY <1>1, <1>2, <1>3, <2>1
<1>5. CASE rss.due # {}
  <2>1. /\ MaxPoll * Cardinality(rss.due) = MaxPoll * Cardinality(rss.due \ {Min(rss.due)}) + MaxPoll
        /\ MaxPoll * Cardinality(rss.due \ {Min(rss.due)}) \in Nat
    <3>1. rss.due \ {Min(rss.due)} \in SUBSET Scheduled
      BY <1>1
    <3> QED BY <1>1, <1>5, <3>1, Batches
  <2> QED BY <1>1, <1>2, <1>3, <2>1
<1> QED BY <1>4, <1>5

\* A process that knows of no poll.
LEMMA FreshProcess ==
  ASSUME NEW step \in {"down", "look"}, NEW again \in BOOLEAN,
         rss' = [pc |-> step, once |-> again, due |-> {}, batch |-> {},
                 took |-> 0, spent |-> 0, wait |-> 0],
         since' = [f \in Feeds |-> Never]
  PROVE  PollsInTime'
<1>1. rss' = [pc |-> step, once |-> again, due |-> {}, batch |-> {},
              took |-> 0, spent |-> 0, wait |-> 0]
  OBVIOUS
<1>2. 0 \in 0..MaxPoll
  BY Limits
<1>3. rss' \in Loop
  BY <1>1, <1>2 DEF Loop
<1>4. since' \in [Feeds -> Nat \cup {Never}] /\ \A f \in Feeds : since'[f] = Never
  OBVIOUS
<1>5. rss'.pc = step /\ rss'.spent = 0 /\ rss'.pc \notin {"poll", "insert"}
  BY <1>1
<1> QED BY <1>3, <1>4, <1>5 DEF PollsInTime, InBatch, Loop, Scheduled

LEMMA InitPolls == Init => PollsInTime
<1> SUFFICES ASSUME Init PROVE PollsInTime
  OBVIOUS
<1>1. rss = [pc |-> "down", once |-> FALSE, due |-> {}, batch |-> {},
             took |-> 0, spent |-> 0, wait |-> 0]
  BY DEF Init, Down
<1>2. 0 \in 0..MaxPoll
  BY Limits
<1>3. rss \in Loop
  BY <1>1, <1>2 DEF Loop
<1>4. since \in [Feeds -> Nat \cup {Never}] /\ \A f \in Feeds : since[f] = Never
  BY DEF Init
<1>5. rss.pc = "down" /\ rss.spent = 0
  BY <1>1
<1> QED BY <1>3, <1>4, <1>5 DEF PollsInTime, InBatch, Loop

LEMMA StartPolls ==
  ASSUME PollsInTime, Start
  PROVE  PollsInTime'
<1>1. PICK again \in BOOLEAN : rss' = [pc |-> "look", once |-> again, due |-> {}, batch |-> {},
                                      took |-> 0, spent |-> 0, wait |-> 0]
  BY DEF Start, Down
<1>2. since \in [Feeds -> Nat \cup {Never}] /\ \A f \in Feeds : since[f] = Never
  BY DEF PollsInTime, Start
<1>3. since' = [f \in Feeds |-> Never]
  BY <1>2 DEF Start
<1> QED BY <1>1, <1>3, FreshProcess

LEMMA RssFailsPolls ==
  ASSUME RssFails
  PROVE  PollsInTime'
<1>1. rss' = [pc |-> "down", once |-> FALSE, due |-> {}, batch |-> {},
              took |-> 0, spent |-> 0, wait |-> 0]
  BY DEF RssFails, Down
<1>2. since' = [f \in Feeds |-> Never]
  BY DEF RssFails
<1> QED BY <1>1, <1>2, FreshProcess

LEMMA LookPolls ==
  ASSUME PollsInTime, Look
  PROVE  PollsInTime'
<1>1. PICK due : due = IF rss.once THEN Scheduled ELSE Due
  OBVIOUS
<1>2. /\ rss.pc = "look" /\ since' = since
      /\ rss' = [rss EXCEPT !.pc = "poll", !.due = due, !.batch = due, !.took = 0, !.spent = 0]
  BY <1>1 DEF Look
<1>3. due \in SUBSET Scheduled /\ 0 \in 0..MaxPoll
  BY <1>1, Limits DEF Due
<1>4. rss \in Loop
  BY LoopTyped
<1>5. /\ rss' \in Loop
      /\ rss'.pc = "poll" /\ rss'.once = rss.once /\ rss'.due = due /\ rss'.batch = due
      /\ rss'.took = 0 /\ rss'.spent = 0
  BY <1>2, <1>3, <1>4 DEF Loop
<1>6. since' \in [Feeds -> Nat \cup {Never}]
  BY <1>2 DEF PollsInTime
<1>7. MaxPoll * Cardinality(due) \in Nat
  BY <1>3, Batches
<1>8. 0 + MaxPoll * Cardinality(due) <= MaxPoll * Cardinality(due) + 0
  BY <1>7
<1>9. ASSUME ~rss.once, NEW f \in Scheduled \ due
      PROVE  since[f] # Never /\ since[f] < PollInterval[f]
  <2>1. f \in Feeds /\ ~(since[f] = Never \/ since[f] >= PollInterval[f])
    BY <1>1, <1>9, ScheduledIsFinite DEF Due
  <2> QED BY <2>1, Limits, LoopTyped
<1>10. ASSUME NEW f \in Feeds, since[f] # Never
       PROVE  /\ f \in Scheduled /\ ~rss.once /\ since[f] \in Nat /\ PollInterval[f] \in Nat
              /\ since[f] <= PollInterval[f] + Slack
  BY <1>2, <1>10, LoopTyped, Limits DEF PollsInTime, InTime, Slack
<1>11. ASSUME NEW f \in Feeds, since'[f] # Never
       PROVE  f \in Scheduled /\ rss'.pc # "down" /\ ~rss'.once /\ InTime(f)'
  <2>1. /\ f \in Scheduled /\ ~rss.once /\ since[f] \in Nat /\ PollInterval[f] \in Nat
        /\ since[f] <= PollInterval[f] + Slack
    BY <1>2, <1>10, <1>11
  <2>2. f \notin due => since[f] < PollInterval[f] + 0
    BY <1>9, <2>1
  <2>3. 0 <= since[f] /\ since[f] <= PollInterval[f] + Slack + 0
    BY <2>1, ScheduledIsFinite
  <2> QED BY <1>2, <1>5, <2>1, <2>2, <2>3 DEF InTime, InBatch, Slack, Scheduled
<1> QED BY <1>2, <1>5, <1>6, <1>8, <1>9, <1>11 DEF PollsInTime, InBatch, Loop, Scheduled

\* Poll opens the transaction of a feed; time passes in Tick.
LEMMA PollPolls ==
  ASSUME PollsInTime, Poll
  PROVE  PollsInTime'
<1>1. rss.pc = "poll" /\ rss.due # {} /\ rss' = [rss EXCEPT !.pc = "insert"] /\ since' = since
  BY DEF Poll
<1>2. rss \in Loop
  BY LoopTyped
<1>3. /\ rss' \in Loop /\ rss'.pc = "insert" /\ rss'.once = rss.once
      /\ rss'.due = rss.due /\ rss'.batch = rss.batch /\ rss'.took = rss.took /\ rss'.spent = rss.spent
  BY <1>1, <1>2 DEF Loop
<1>4. \A f \in Feeds : since'[f] # Never => InTime(f)'
  BY <1>1, <1>3 DEF PollsInTime, InTime, InBatch, Scheduled
<1> QED BY <1>1, <1>3, <1>4 DEF PollsInTime, InBatch, Loop, Scheduled

LEMMA PolledPolls ==
  ASSUME PollsInTime, Polled
  PROVE  PollsInTime'
<1>1. rss.pc = "insert" /\ since' = since
      /\ rss' = [rss EXCEPT !.pc = "poll", !.due = @ \ {Min(@)}, !.spent = 0]
  BY DEF Polled, Commit
<1>2. rss \in Loop /\ rss.due \in SUBSET Scheduled /\ rss.due # {} /\ 0 \in 0..MaxPoll
  BY <1>1, LoopTyped, Limits DEF PollsInTime
<1> DEFINE due == rss.due \ {Min(rss.due)}
<1>3. due \in SUBSET Scheduled
  BY <1>2
<1>4. /\ rss' \in Loop /\ rss'.pc = "poll" /\ rss'.once = rss.once
      /\ rss'.due = due /\ rss'.batch = rss.batch /\ rss'.took = rss.took /\ rss'.spent = 0
  BY <1>1, <1>2, <1>3 DEF Loop
<1>5. rss.took + MaxPoll * Cardinality(due) <= MaxPoll * Cardinality(rss.batch) + 0
  <2>1. rss.took + MaxPoll * Cardinality(rss.due) <= MaxPoll * Cardinality(rss.batch) + rss.spent
    BY <1>1 DEF PollsInTime, InBatch
  <2>2. MaxPoll * Cardinality(rss.due) = MaxPoll * Cardinality(due) + MaxPoll
    BY <1>2, Batches
  <2>3. /\ MaxPoll * Cardinality(due) \in Nat /\ MaxPoll * Cardinality(rss.batch) \in Nat
        /\ rss.took \in Nat /\ rss.spent \in Nat /\ rss.spent <= MaxPoll /\ MaxPoll \in Nat
    BY <1>3, LoopTyped, Batches, Limits
  <2> HIDE DEF due
  <2> QED BY <2>1, <2>2, <2>3
<1>6. \A f \in Feeds : since'[f] # Never => InTime(f)'
  BY <1>1, <1>4 DEF PollsInTime, InTime, InBatch, Scheduled
<1>7. due \subseteq rss.batch
  BY <1>1 DEF PollsInTime, InBatch
<1> HIDE DEF due
<1> QED BY <1>1, <1>4, <1>5, <1>6, <1>7 DEF PollsInTime, InBatch, Loop, Scheduled

\* The wait is at least a tick, and no longer than what any feed has left.
LEMMA WaitIsShort ==
  ASSUME NEW age \in [Scheduled -> Nat]
  PROVE  LET wait == Max({nextRSSPollWait(age), 1}) IN
           /\ wait \in Nat
           /\ \A f \in Scheduled : age[f] < PollInterval[f] => wait <= PollInterval[f] - age[f]
<1> DEFINE left == {Remaining(f, age) : f \in Scheduled}
           next == nextRSSPollWait(age)
<1>1. ASSUME NEW f \in Scheduled
      PROVE  /\ Remaining(f, age) \in Nat
             /\ age[f] < PollInterval[f] =>
                  Remaining(f, age) = PollInterval[f] - age[f] /\ 1 <= PollInterval[f] - age[f]
  <2>1. age[f] \in Nat /\ PollInterval[f] \in Nat
    BY ScheduledIsFinite, Limits
  <2> QED BY <2>1 DEF Remaining
<1>2. left \in SUBSET Nat
  BY <1>1
<1>3. next \in Nat /\ \A f \in Scheduled : next <= Remaining(f, age)
  <2>1. CASE Scheduled = {}
    BY <2>1 DEF nextRSSPollWait
  <2>2. CASE Scheduled # {}
    <3>1. left # {} /\ next = Min(left)
      BY <2>2 DEF nextRSSPollWait
    <3>2. \A f \in Scheduled : Remaining(f, age) \in left
      OBVIOUS
    <3> HIDE DEF left, next
    <3>3. next \in left /\ \A y \in left : next <= y
      BY <1>2, <3>1, MinIsLeast
    <3> QED BY <1>2, <3>2, <3>3
  <2> QED BY <2>1, <2>2
<1> HIDE DEF left, next
<1>4. /\ Max({next, 1}) \in {next, 1} /\ \A y \in {next, 1} : y <= Max({next, 1})
  <2>1. {next, 1} \in SUBSET Nat /\ {next, 1} # {}
    BY <1>3
  <2>2. \E x \in {next, 1} : \A y \in {next, 1} : x >= y
    BY <1>3
  <2>3. /\ Max({next, 1}) \in {next, 1} /\ \A y \in {next, 1} : Max({next, 1}) >= y
    BY <2>2 DEF Max
  <2> QED BY <1>3, <2>1, <2>3
<1>5. ASSUME NEW f \in Scheduled, age[f] < PollInterval[f]
      PROVE  Max({next, 1}) <= PollInterval[f] - age[f]
  BY <1>1, <1>3, <1>4, <1>5
<1>6. Max({next, 1}) \in Nat
  BY <1>3, <1>4
<1> QED BY <1>5, <1>6 DEF next

LEMMA BatchDonePolls ==
  ASSUME PollsInTime, BatchDone
  PROVE  PollsInTime'
<1>1. CASE rss.once
  <2>1. rss' = [pc |-> "down", once |-> FALSE, due |-> {}, batch |-> {},
                took |-> 0, spent |-> 0, wait |-> 0]
    BY <1>1 DEF BatchDone, Down
  <2>2. since' = [f \in Feeds |-> Never]
    BY <1>1 DEF BatchDone
  <2> QED BY <2>1, <2>2, FreshProcess
<1>2. CASE ~rss.once
  <2>1. PICK age : age = [f \in Scheduled |-> IF f \in rss.batch THEN 0 ELSE since[f] - rss.took]
    OBVIOUS
  <2>2. PICK wait : wait = Max({nextRSSPollWait(age), 1})
    OBVIOUS
  <2>3. /\ rss.pc = "poll" /\ rss.due = {}
        /\ since' = [f \in Feeds |-> IF f \in rss.batch THEN rss.took ELSE since[f]]
        /\ rss' = [rss EXCEPT !.pc = "sleep", !.batch = {}, !.wait = wait]
    BY <1>2, <2>1, <2>2 DEF BatchDone
  <2>4. /\ rss \in Loop /\ rss.took \in Nat /\ rss.took <= Slack
        /\ rss.batch \in SUBSET Scheduled /\ Slack \in Nat
    BY <2>3, LoopTyped, TookInSlack, ScheduledIsFinite DEF InBatch
  <2>5. ASSUME NEW f \in Scheduled, f \notin rss.batch
        PROVE  since[f] \in Nat /\ rss.took <= since[f] /\ since[f] < PollInterval[f] + rss.took
    <3>1. f \in Feeds /\ since[f] # Never
      BY <1>2, <2>3, <2>5, ScheduledIsFinite DEF PollsInTime, InBatch
    <3>2. InTime(f)
      BY <3>1 DEF PollsInTime
    <3> QED BY <2>3, <2>5, <3>1, <3>2, LoopTyped DEF InTime, InBatch
  <2>6. ASSUME NEW f \in Scheduled PROVE age[f] \in Nat /\ age[f] < PollInterval[f]
    <3>1. PollInterval[f] \in Nat /\ PollInterval[f] > 0
      BY ScheduledIsFinite, Limits
    <3>2. CASE f \in rss.batch
      BY <2>1, <3>1, <3>2
    <3>3. CASE f \notin rss.batch
      <4>1. age[f] = since[f] - rss.took
        BY <2>1, <3>3
      <4> QED BY <2>4, <2>5, <3>1, <3>3, <4>1
    <3> QED BY <3>2, <3>3
  <2>7. age \in [Scheduled -> Nat]
    BY <2>1, <2>6
  <2>8. wait \in Nat /\ \A f \in Scheduled : wait <= PollInterval[f] - age[f]
    BY <2>2, <2>6, <2>7, WaitIsShort
  <2>9. /\ rss' \in Loop /\ rss'.pc = "sleep" /\ rss'.once = rss.once
        /\ rss'.due = {} /\ rss'.spent = rss.spent /\ rss'.wait = wait
    BY <2>3, <2>4, <2>8 DEF Loop
  <2>10. rss.spent = 0
    BY <2>3 DEF PollsInTime
  <2>11. ASSUME NEW f \in Feeds
         PROVE  /\ since'[f] \in Nat \cup {Never}
                /\ since'[f] # Never => f \in Scheduled /\ since'[f] + wait <= PollInterval[f] + Slack
    <3>1. CASE f \in rss.batch
      <4>1. since'[f] = rss.took /\ f \in Scheduled /\ age[f] = 0
        BY <2>1, <2>3, <2>4, <3>1
      <4>2. PollInterval[f] \in Nat /\ wait <= PollInterval[f] - 0
        BY <2>8, <4>1, Limits
      <4> QED BY <2>4, <2>8, <4>1, <4>2
    <3>2. CASE f \notin rss.batch /\ since[f] # Never
      <4>1. since'[f] = since[f] /\ f \in Scheduled
        BY <2>3, <3>2 DEF PollsInTime
      <4>2. since[f] \in Nat /\ rss.took <= since[f] /\ age[f] = since[f] - rss.took
        BY <2>1, <2>5, <3>2, <4>1
      <4>3. PollInterval[f] \in Nat /\ wait <= PollInterval[f] - (since[f] - rss.took)
        BY <2>8, <4>1, <4>2, Limits
      <4> QED BY <2>4, <2>8, <4>1, <4>2, <4>3
    <3>3. CASE f \notin rss.batch /\ since[f] = Never
      BY <2>3, <3>3
    <3> QED BY <3>1, <3>2, <3>3
  <2>12. since' \in [Feeds -> Nat \cup {Never}]
    BY <2>3, <2>11
  <2>13. \A f \in Feeds : since'[f] # Never => f \in Scheduled /\ InTime(f)'
    BY <2>9, <2>11 DEF InTime, InBatch, Slack, Scheduled
  <2> QED BY <1>2, <2>9, <2>10, <2>12, <2>13 DEF PollsInTime, InBatch, Loop, Scheduled
<1> QED BY <1>1, <1>2

LEMMA WakePolls ==
  ASSUME PollsInTime, Wake
  PROVE  PollsInTime'
<1>1. /\ rss.pc = "sleep" /\ rss.wait = 0 /\ since' = since
      /\ rss' = [rss EXCEPT !.pc = "look"]
  BY DEF Wake
<1>2. rss \in Loop
  BY LoopTyped
<1>3. /\ rss' \in Loop /\ rss'.pc = "look" /\ rss'.once = rss.once
      /\ rss'.due = rss.due /\ rss'.spent = rss.spent
  BY <1>1, <1>2 DEF Loop
<1>4. ASSUME NEW f \in Feeds, since[f] # Never
      PROVE  since[f] <= PollInterval[f] + Slack
  <2>1. since[f] + 0 <= PollInterval[f] + Slack
    BY <1>1, <1>4 DEF PollsInTime, InTime, Slack
  <2> QED BY <1>4, <2>1, LoopTyped
<1>5. \A f \in Feeds : since'[f] # Never => InTime(f)'
  BY <1>1, <1>3, <1>4 DEF InTime, InBatch, Slack, Scheduled
<1> QED BY <1>1, <1>3, <1>5 DEF PollsInTime, InBatch, Loop, Scheduled

LEMMA TickPolls ==
  ASSUME PollsInTime, Tick
  PROVE  PollsInTime'
<1>1. since' = [f \in Feeds |-> IF since[f] = Never THEN Never ELSE since[f] + 1]
  BY DEF Tick
<1>2. rss \in Loop /\ rss.took \in Nat /\ rss.spent \in Nat /\ rss.wait \in Nat
  BY LoopTyped
<1>3. ASSUME NEW f \in Feeds
      PROVE  /\ since'[f] = Never <=> since[f] = Never
             /\ since[f] # Never => /\ since[f] \in Nat /\ since'[f] = since[f] + 1
                                    /\ PollInterval[f] \in Nat /\ InTime(f)
                                    /\ f \in Scheduled /\ ~rss.once
             /\ since'[f] \in Nat \cup {Never}
  <2>1. since[f] # Never => since[f] \in Nat /\ since[f] + 1 # Never
    BY LoopTyped, Limits
  <2> QED BY <1>1, <2>1, Limits DEF PollsInTime
<1>4. since' \in [Feeds -> Nat \cup {Never}]
  BY <1>1, <1>3
<1>5. CASE /\ rss.pc = "sleep" /\ rss.wait > 0
           /\ rss' = [rss EXCEPT !.wait = @ - 1]
  <2>1. rss.wait - 1 \in Nat
    BY <1>2, <1>5
  <2>2. /\ rss' \in Loop /\ rss'.pc = "sleep" /\ rss'.once = rss.once /\ rss'.due = rss.due
        /\ rss'.spent = rss.spent /\ rss'.wait = rss.wait - 1
    BY <1>2, <1>5, <2>1 DEF Loop
  <2>3. ASSUME NEW f \in Feeds, since[f] # Never
        PROVE  since'[f] + rss'.wait <= PollInterval[f] + Slack
    <3>1. since[f] + rss.wait <= PollInterval[f] + Slack
      BY <1>3, <1>5, <2>3 DEF InTime, Slack
    <3>2. since[f] \in Nat /\ since'[f] = since[f] + 1
      BY <1>3, <2>3
    <3>3. since'[f] + rss'.wait = since[f] + rss.wait
      BY <1>2, <2>2, <3>2
    <3> QED BY <3>1, <3>3
  <2>4. \A f \in Feeds : since'[f] # Never => f \in Scheduled /\ ~rss.once /\ InTime(f)'
    BY <1>3, <2>2, <2>3 DEF InTime, InBatch, Slack, Scheduled
  <2> QED BY <1>4, <1>5, <2>2, <2>4 DEF PollsInTime, InBatch, Loop, Scheduled
<1>6. CASE /\ rss.pc \in {"poll", "insert"} /\ rss.due # {} /\ ~rss.once
           /\ rss.spent < MaxPoll
           /\ rss' = [rss EXCEPT !.spent = @ + 1, !.took = @ + 1]
  <2>1. rss.took + 1 \in Nat /\ rss.spent + 1 \in 0..MaxPoll
    BY <1>2, <1>6, Limits
  <2>2. /\ rss' \in Loop /\ rss'.pc = rss.pc /\ rss'.once = rss.once /\ rss'.due = rss.due
        /\ rss'.batch = rss.batch /\ rss'.took = rss.took + 1 /\ rss'.spent = rss.spent + 1
    BY <1>2, <1>6, <2>1 DEF Loop
  <2>3. rss'.took + MaxPoll * Cardinality(rss.due) <= MaxPoll * Cardinality(rss.batch) + rss'.spent
    <3>1. rss.took + MaxPoll * Cardinality(rss.due) <= MaxPoll * Cardinality(rss.batch) + rss.spent
      BY <1>6 DEF PollsInTime, InBatch
    <3>2. MaxPoll * Cardinality(rss.due) \in Nat /\ MaxPoll * Cardinality(rss.batch) \in Nat
      BY LoopTyped, Batches
    <3>3. ASSUME NEW a \in Nat, NEW b \in Nat, NEW c \in Nat, NEW d \in Nat, a + b <= c + d
          PROVE  (a + 1) + b <= c + (d + 1)
      BY <3>3
    <3> QED BY <1>2, <2>2, <3>1, <3>2, <3>3
  <2>4. ASSUME NEW f \in Feeds, since[f] # Never
        PROVE  /\ f \in rss.batch => since'[f] <= PollInterval[f] + Slack + rss'.took
               /\ f \notin rss.batch => /\ rss'.took <= since'[f]
                                        /\ since'[f] < PollInterval[f] + rss'.took
    <3>1. /\ f \in rss.batch => since[f] <= PollInterval[f] + Slack + rss.took
          /\ f \notin rss.batch => rss.took <= since[f] /\ since[f] < PollInterval[f] + rss.took
      BY <1>3, <1>6, <2>4 DEF InTime, InBatch, Slack
    <3>2. /\ since[f] \in Nat /\ since'[f] = since[f] + 1 /\ PollInterval[f] \in Nat
          /\ Slack \in Nat
      BY <1>3, <2>4, ScheduledIsFinite
    <3> QED BY <1>2, <2>2, <3>1, <3>2
  <2>5. \A f \in Feeds : since'[f] # Never => f \in Scheduled /\ InTime(f)'
    BY <1>3, <1>6, <2>2, <2>4 DEF InTime, InBatch, Slack, Scheduled
  <2>6. \A f \in Scheduled \ rss.batch : since'[f] # Never
    BY <1>3, <1>6, ScheduledIsFinite DEF PollsInTime, InBatch
  <2> QED BY <1>4, <1>6, <2>2, <2>3, <2>5, <2>6 DEF PollsInTime, InBatch, Loop, Scheduled
<1> QED BY <1>5, <1>6 DEF Tick

-----------------------------------------------------------------------------
(* The rows being stored.                                                  *)

LEMMA StoresFrame ==
  ASSUME StoresInHand, items' = items, inserted' = inserted,
         research'.pc = research.pc \/ (research'.pc # "insert" /\ research.pc # "insert")
  PROVE  StoresInHand'
BY DEF StoresInHand

\* What concerns the RSS worker only.
LEMMA StoresOfRss ==
  ASSUME StoresInHand, research' = research,
         NEW seq \in Seq(Urls), NEW S \in SUBSET Urls,
         items' = [items EXCEPT !["rss"] = seq], inserted' = [inserted EXCEPT !["rss"] = S]
  PROVE  StoresInHand'
<1>1. items \in [Writers -> Seq(Urls)] /\ inserted \in [Writers -> SUBSET Urls]
  BY DEF StoresInHand
<1>2. items' \in [Writers -> Seq(Urls)] /\ inserted' \in [Writers -> SUBSET Urls]
  BY <1>1
<1>3. items'["research"] = items["research"] /\ inserted'["research"] = inserted["research"]
  BY <1>1 DEF Writers
<1> QED BY <1>2, <1>3 DEF StoresInHand

\* What concerns a research run that is storing.
LEMMA StoresOfResearch ==
  ASSUME StoresInHand,
         NEW seq \in Seq(Urls), NEW S \in SUBSET Urls, IsFiniteSet(S),
         items' = [items EXCEPT !["research"] = seq],
         inserted' = [inserted EXCEPT !["research"] = S],
         Len(seq) + Cardinality(S) <= MaxTotalFetches,
         research'.pc = "insert" \/ (seq = <<>> /\ S = {})
  PROVE  StoresInHand'
<1>1. items \in [Writers -> Seq(Urls)] /\ inserted \in [Writers -> SUBSET Urls]
  BY DEF StoresInHand
<1>2. items' \in [Writers -> Seq(Urls)] /\ inserted' \in [Writers -> SUBSET Urls]
  BY <1>1
<1>3. items'["research"] = seq /\ inserted'["research"] = S
  BY <1>1 DEF Writers
<1> QED BY <1>2, <1>3 DEF StoresInHand

LEMMA OnHand ==
  ASSUME StoresInHand, NEW w \in Writers
  PROVE  /\ items[w] \in Seq(Urls) /\ inserted[w] \in SUBSET Urls /\ Len(items[w]) \in Nat
         /\ items = [items EXCEPT ![w] = items[w]]
         /\ inserted = [inserted EXCEPT ![w] = inserted[w]]
         /\ items[w] # <<>> => /\ Head(items[w]) \in Urls /\ Tail(items[w]) \in Seq(Urls)
                               /\ Len(Tail(items[w])) = Len(items[w]) - 1
                               /\ Len(items[w]) > 0
BY DEF StoresInHand

\* An item leaves the list and may have been inserted.
LEMMA ItemStores ==
  ASSUME StoresInHand, NEW w \in Writers, items[w] # <<>>, research' = research,
         NEW New \in SUBSET {Head(items[w])},
         items' = [items EXCEPT ![w] = Tail(@)],
         inserted' = [inserted EXCEPT ![w] = @ \cup New]
  PROVE  StoresInHand'
<1>1. /\ items[w] \in Seq(Urls) /\ inserted[w] \in SUBSET Urls /\ New \in SUBSET Urls
      /\ Tail(items[w]) \in Seq(Urls) /\ Len(Tail(items[w])) = Len(items[w]) - 1
      /\ Len(items[w]) \in Nat /\ Len(items[w]) > 0
  BY OnHand
<1>2. /\ items' = [items EXCEPT ![w] = Tail(items[w])]
      /\ inserted' = [inserted EXCEPT ![w] = inserted[w] \cup New]
      /\ inserted[w] \cup New \in SUBSET Urls
  BY <1>1
<1>3. CASE w = "rss"
  BY <1>1, <1>2, <1>3, StoresOfRss
<1>4. CASE w = "research"
  <2>1. /\ research.pc = "insert" /\ IsFiniteSet(inserted[w])
        /\ Len(items[w]) + Cardinality(inserted[w]) <= MaxTotalFetches
    BY <1>4 DEF StoresInHand
  <2>2. /\ IsFiniteSet(inserted[w] \cup New)
        /\ Cardinality(inserted[w] \cup New) \in Nat /\ Cardinality(inserted[w]) \in Nat
        /\ Cardinality(inserted[w] \cup New) <= Cardinality(inserted[w]) + 1
    <3>1. Cardinality(inserted[w]) \in Nat
      BY <2>1, FS_CardinalityType
    <3>2. PICK all : all = inserted[w] \cup New
      OBVIOUS
    <3>3. PICK more : more = inserted[w] \cup {Head(items[w])}
      OBVIOUS
    <3>4. all = inserted[w] \/ all = more
      BY <3>2, <3>3
    <3>5. /\ IsFiniteSet(more)
          /\ Cardinality(more) = Cardinality(inserted[w])
               \/ Cardinality(more) = Cardinality(inserted[w]) + 1
      BY <2>1, <3>3, FS_AddElement
    <3>6. /\ IsFiniteSet(all) /\ Cardinality(all) \in Nat
          /\ Cardinality(all) <= Cardinality(inserted[w]) + 1
      BY <2>1, <3>1, <3>4, <3>5
    <3> QED BY <3>1, <3>2, <3>6
  <2>3. Len(Tail(items[w])) + Cardinality(inserted[w] \cup New) <= MaxTotalFetches
    BY <1>1, <2>1, <2>2, Limits
  <2> QED BY <1>1, <1>2, <1>4, <2>1, <2>2, <2>3, StoresOfResearch
<1> QED BY <1>3, <1>4 DEF Writers

LEMMA InsertStores ==
  ASSUME StoresInHand, NEW w \in Writers, Insert(w)
  PROVE  StoresInHand'
<1>1. /\ items[w] # <<>> /\ research' = research
      /\ items' = [items EXCEPT ![w] = Tail(@)]
      /\ inserted' = [inserted EXCEPT ![w] = @ \cup ({Head(items[w])} \ rows)]
  BY DEF Insert
<1>2. {Head(items[w])} \ rows \in SUBSET {Head(items[w])}
  OBVIOUS
<1> QED BY <1>1, <1>2, ItemStores

LEMMA SkipStores ==
  ASSUME StoresInHand, NEW w \in Writers, items[w] # <<>>, SkipItem(w)
  PROVE  StoresInHand'
<1>1. /\ research' = research
      /\ items' = [items EXCEPT ![w] = Tail(@)]
      /\ inserted' = inserted
  BY DEF SkipItem
<1>2. inserted' = [inserted EXCEPT ![w] = @ \cup {}]
  BY <1>1, OnHand
<1>3. {} \in SUBSET {Head(items[w])}
  OBVIOUS
<1> QED BY <1>1, <1>2, <1>3, ItemStores

LEMMA WriterStores ==
  ASSUME StoresInHand, NEW w \in Writers, Store(w) \/ InsertFails(w)
  PROVE  StoresInHand'
<1>1. CASE Insert(w)
  BY <1>1, InsertStores
<1>2. CASE DeadlockVictim(w)
  BY <1>2, SkipStores DEF DeadlockVictim, WaitsFor
<1>3. CASE InsertFails(w)
  BY <1>3, SkipStores DEF InsertFails
<1> QED BY <1>1, <1>2, <1>3 DEF Store

LEMMA RssStores ==
  ASSUME StoresInHand, AcquisitionInv, RssStep \/ RssFails \/ Tick
  PROVE  StoresInHand'
<1>1. "rss" \in Writers /\ {} \in SUBSET Urls /\ <<>> \in Seq(Urls)
  BY DEF Writers
<1>2. CASE Poll
  <2>1. rss.due \in SUBSET Scheduled /\ rss.due # {}
    BY <1>2, LoopTyped DEF AcquisitionInv, Poll
  <2>2. Entries[Min(rss.due)] \in Seq(Urls)
    BY <2>1, Batches, ScheduledIsFinite, AcquisitionConstants
  <2>3. /\ items' = [items EXCEPT !["rss"] = Entries[Min(rss.due)]]
        /\ inserted' = [inserted EXCEPT !["rss"] = inserted["rss"]] /\ research' = research
    BY <1>1, <1>2, OnHand DEF Poll
  <2> QED BY <1>1, <2>2, <2>3, OnHand, StoresOfRss
<1>3. CASE Polled
  <2>1. /\ items' = [items EXCEPT !["rss"] = items["rss"]]
        /\ inserted' = [inserted EXCEPT !["rss"] = {}] /\ research' = research
    BY <1>1, <1>3, OnHand DEF Polled, Commit
  <2> QED BY <1>1, <2>1, OnHand, StoresOfRss
<1>4. CASE RssFails
  BY <1>1, <1>4, StoresOfRss DEF RssFails, Rollback
<1>5. CASE Start \/ Look \/ BatchDone \/ Wake \/ Tick
  <2>1. items' = items /\ inserted' = inserted /\ research' = research
    BY <1>5 DEF Start, Look, BatchDone, Wake, Tick
  <2>2. research'.pc = research.pc \/ (research'.pc # "insert" /\ research.pc # "insert")
    BY <2>1
  <2> QED BY <2>1, <2>2, StoresFrame
<1> QED BY <1>2, <1>3, <1>4, <1>5 DEF RssStep

-----------------------------------------------------------------------------
(* Research runs.                                                          *)

Run == [pc : {"idle", "search", "insert"}, answer : Seq(Nat \X Queries),
        queries : SUBSET Nat, searched : SUBSET Nat,
        results : Seq(Urls \cup {NoUrl}), urls : SUBSET Nat,
        found : Seq(Urls), tried : Nat]

LEMMA RestingIsRun ==
  /\ Resting \in Run
  /\ Resting.pc = "idle" /\ Resting.queries = {} /\ Resting.searched = {} /\ Resting.urls = {}
  /\ Resting.found = <<>> /\ Resting.tried = 0
BY DEF Resting, Run

LEMMA ResearchFrame ==
  ASSUME ResearchInHand, research' = research
  PROVE  ResearchInHand'
BY DEF ResearchInHand, fetched

\* A run that has only been told what to search for, or nothing.
LEMMA NothingTried ==
  ASSUME NEW r \in Run, r.searched = {}, r.urls = {}, r.found = <<>>, r.tried = 0,
         r.queries \subseteq dedup(r.answer)
  PROVE  /\ Len(r.found) <= MaxTotalFetches
         /\ r.queries \cup r.searched \subseteq dedup(r.answer)
         /\ r.queries \cap r.searched = {} /\ IsFiniteSet(r.searched)
         /\ IsFiniteSet(r.urls)
         /\ r.tried + Cardinality(r.urls) <= ResultsPerQuery * Cardinality(r.searched)
<1>1. IsFiniteSet({}) /\ Cardinality({}) = 0
  BY FS_EmptySet
<1>2. Len(<<>>) = 0 /\ 0 + 0 <= ResultsPerQuery * 0 /\ 0 <= MaxTotalFetches
  BY Limits
<1> QED BY <1>1, <1>2

LEMMA InitResearch == Init => StoresInHand /\ ResearchInHand
<1> SUFFICES ASSUME Init PROVE StoresInHand /\ ResearchInHand
  OBVIOUS
<1>1. /\ inserted = [w \in Writers |-> {}] /\ items = [w \in Writers |-> <<>>]
      /\ research = Resting
  BY DEF Init
<1>2. "research" \in Writers
  BY DEF Writers
<1>3. IsFiniteSet({}) /\ Cardinality({}) = 0
  BY FS_EmptySet
<1>4. StoresInHand
  <2>1. items \in [Writers -> Seq(Urls)] /\ inserted \in [Writers -> SUBSET Urls]
    BY <1>1
  <2>2. items["research"] = <<>> /\ inserted["research"] = {}
    BY <1>1, <1>2
  <2>3. Len(<<>>) + 0 <= MaxTotalFetches
    BY Limits
  <2> QED BY <1>3, <2>1, <2>2, <2>3 DEF StoresInHand
<1>5. ResearchInHand
  <2>1. Resting.queries \subseteq dedup(Resting.answer)
    BY RestingIsRun
  <2> QED BY <1>1, <2>1, RestingIsRun, NothingTried DEF ResearchInHand, fetched, Run
<1> QED BY <1>4, <1>5

\* The end of a run, of either kind.
LEMMA RestInHand ==
  ASSUME research' = Resting
  PROVE  ResearchInHand'
<1>1. Resting.queries \subseteq dedup(Resting.answer)
  BY RestingIsRun
<1> QED BY <1>1, RestingIsRun, NothingTried DEF ResearchInHand, fetched, Run

LEMMA GenerateInHand ==
  ASSUME StoresInHand, GenerateQueries
  PROVE  StoresInHand' /\ ResearchInHand'
<1>1. PICK told \in Answers :
        research' = [Resting EXCEPT !.pc = "search", !.answer = told, !.queries = dedup(told)]
  BY DEF GenerateQueries
<1>2. told \in Seq(Nat \X Queries)
  BY AcquisitionConstants
<1>3. PICK kept : kept = dedup(told)
  OBVIOUS
<1>4. kept \in SUBSET Nat
  <2>1. kept \subseteq DOMAIN told
    BY <1>3 DEF dedup, Capped
  <2> QED BY <1>2, <2>1
<1>5. research' = [Resting EXCEPT !.pc = "search", !.answer = told, !.queries = kept]
  BY <1>1, <1>3
<1>6. /\ research' \in Run
      /\ research'.pc = "search" /\ research'.answer = told /\ research'.queries = kept
      /\ research'.searched = {} /\ research'.urls = {}
      /\ research'.found = <<>> /\ research'.tried = 0
  <2>1. research' = [pc |-> "search", answer |-> told, queries |-> kept, searched |-> {},
                     results |-> <<>>, urls |-> {}, found |-> <<>>, tried |-> 0]
    BY <1>5 DEF Resting
  <2>2. <<>> \in Seq(Urls \cup {NoUrl}) /\ <<>> \in Seq(Urls)
    OBVIOUS
  <2>3. research' \in Run
    BY <1>2, <1>4, <2>1, <2>2 DEF Run
  <2> QED BY <2>1, <2>3
<1>7. research'.queries \subseteq dedup(research'.answer)
  BY <1>3, <1>6
<1>8. ResearchInHand'
  BY <1>6, <1>7, NothingTried DEF ResearchInHand, fetched, Run
<1>9. items' = items /\ inserted' = inserted /\ research.pc = "idle"
  BY DEF GenerateQueries
<1>10. research'.pc = research.pc \/ (research'.pc # "insert" /\ research.pc # "insert")
  BY <1>6, <1>9
<1> QED BY <1>8, <1>9, <1>10, StoresFrame

LEMMA ResearchTyped ==
  ASSUME ResearchInHand
  PROVE  /\ research \in Run
         /\ research.answer \in Seq(Nat \X Queries) /\ research.results \in Seq(Urls \cup {NoUrl})
         /\ research.found \in Seq(Urls) /\ research.tried \in Nat
         /\ research.queries \in SUBSET Nat /\ research.searched \in SUBSET Nat
         /\ research.urls \in SUBSET Nat
         /\ Cardinality(research.searched) \in Nat /\ Cardinality(research.urls) \in Nat
<1>1. research \in Run
  BY DEF ResearchInHand, Run
<1>2. Cardinality(research.searched) \in Nat /\ Cardinality(research.urls) \in Nat
  BY FS_CardinalityType DEF ResearchInHand
<1> QED BY <1>1, <1>2 DEF Run

\* A search costs one query and brings no more urls than a query may.
LEMMA SearchInHand ==
  ASSUME StoresInHand, ResearchInHand, Search
  PROVE  StoresInHand' /\ ResearchInHand'
<1>1. PICK q : q = Min(research.queries)
  OBVIOUS
<1>2. PICK results : results = Results[research.answer[q][2]]
  OBVIOUS
<1>3. PICK urls \in {{}, {i \in DOMAIN results : i <= ResultsPerQuery /\ results[i] # NoUrl}} :
        research' = [research EXCEPT !.queries = @ \ {q}, !.searched = @ \cup {q},
                                     !.results = results, !.urls = urls]
  BY <1>1, <1>2 DEF Search
<1>4. research.pc = "search" /\ research.urls = {} /\ research.queries # {}
      /\ items' = items /\ inserted' = inserted
  BY DEF Search
<1>5. q \in research.queries /\ q \in Nat
  BY <1>1, <1>4, ResearchTyped, MinIsLeast
<1>6. results \in Seq(Urls \cup {NoUrl})
  <2>1. q \in DOMAIN research.answer
    BY <1>5 DEF ResearchInHand, dedup, Capped
  <2>2. research.answer[q] \in Nat \X Queries
    BY <2>1, ResearchTyped
  <2>3. research.answer[q][2] \in Queries
    BY <2>2
  <2>4. Results \in [Queries -> Seq(Urls \cup {NoUrl})]
    BY AcquisitionConstants
  <2> QED BY <1>2, <2>3, <2>4
<1>7. /\ urls \in SUBSET Nat /\ IsFiniteSet(urls) /\ Cardinality(urls) \in Nat
      /\ Cardinality(urls) <= ResultsPerQuery
      /\ \A i \in urls : i \in DOMAIN results /\ results[i] \in Urls
  <2>1. urls \in SUBSET (1..ResultsPerQuery)
        /\ \A i \in urls : i \in DOMAIN results /\ results[i] # NoUrl
    <3>1. \A i \in DOMAIN results : i \in Nat /\ 1 <= i
      BY <1>6
    <3> QED BY <1>3, <3>1, Limits
  <2>2. PICK first : first = 1..ResultsPerQuery
    OBVIOUS
  <2>3. IsFiniteSet(first) /\ Cardinality(first) = ResultsPerQuery /\ urls \in SUBSET first
    BY <2>1, <2>2, Limits, FS_Interval
  <2>4. IsFiniteSet(urls) /\ Cardinality(urls) <= ResultsPerQuery
    BY <2>3, FS_Subset
  <2>5. Cardinality(urls) \in Nat
    BY <2>4, FS_CardinalityType
  <2>6. \A i \in urls : results[i] \in Urls
    BY <1>6, <2>1
  <2>7. urls \in SUBSET Nat
    BY <2>1, Limits
  <2> QED BY <2>1, <2>4, <2>5, <2>6, <2>7
<1>8. research \in Run /\ research.queries \ {q} \in SUBSET Nat
      /\ research.searched \cup {q} \in SUBSET Nat
  BY <1>5, ResearchTyped
<1>9. /\ research' \in Run /\ research'.pc = "search" /\ research'.answer = research.answer
      /\ research'.queries = research.queries \ {q}
      /\ research'.searched = research.searched \cup {q}
      /\ research'.results = results /\ research'.urls = urls
      /\ research'.found = research.found /\ research'.tried = research.tried
  <2> HIDE <1>2
  <2> QED BY <1>3, <1>4, <1>6, <1>7, <1>8 DEF Run
<1>10. q \notin research.searched
  BY <1>5 DEF ResearchInHand
<1>11. /\ IsFiniteSet(research.searched \cup {q})
       /\ Cardinality(research.searched \cup {q}) = Cardinality(research.searched) + 1
  BY <1>10, FS_AddElement DEF ResearchInHand
<1>12. research.tried + Cardinality(urls)
         <= ResultsPerQuery * (Cardinality(research.searched) + 1)
  <2>1. research.tried + 0 <= ResultsPerQuery * Cardinality(research.searched)
    BY <1>4, FS_EmptySet DEF ResearchInHand
  <2>2. ASSUME NEW m \in Nat, NEW k \in Nat
        PROVE  m * (k + 1) = m * k + m /\ m * k \in Nat
    OBVIOUS
  <2>3. /\ ResultsPerQuery * (Cardinality(research.searched) + 1)
             = ResultsPerQuery * Cardinality(research.searched) + ResultsPerQuery
        /\ ResultsPerQuery * Cardinality(research.searched) \in Nat
    BY <2>2, ResearchTyped, Limits
  <2> QED BY <1>7, <2>1, <2>3, ResearchTyped, Limits
<1>13. /\ (research.queries \ {q}) \cup (research.searched \cup {q}) \subseteq dedup(research.answer)
       /\ (research.queries \ {q}) \cap (research.searched \cup {q}) = {}
       /\ Len(research.found) <= MaxTotalFetches
  BY <1>5 DEF ResearchInHand, fetched
<1>14. ResearchInHand'
  BY <1>7, <1>9, <1>11, <1>12, <1>13 DEF ResearchInHand, fetched, Run
<1>15. research'.pc = research.pc \/ (research'.pc # "insert" /\ research.pc # "insert")
  BY <1>4, <1>9
<1> QED BY <1>4, <1>14, <1>15, StoresFrame

\* A fetch moves one url from those in hand to those tried.
LEMMA FetchInHand ==
  ASSUME StoresInHand, ResearchInHand, fetchPage
  PROVE  StoresInHand' /\ ResearchInHand'
<1>1. PICK i : i = Min(research.urls)
  OBVIOUS
<1>2. PICK found \in {research.found, Append(research.found, research.results[i])} :
        research' = [research EXCEPT !.urls = @ \ {i}, !.found = found, !.tried = @ + 1]
  BY <1>1 DEF fetchPage
<1>3. research.pc = "search" /\ research.urls # {} /\ Len(research.found) < MaxTotalFetches
      /\ items' = items /\ inserted' = inserted
  BY DEF fetchPage, fetched
<1>4. i \in research.urls
  BY <1>1, <1>3, ResearchTyped, MinIsLeast
<1>5. found \in Seq(Urls) /\ Len(found) <= MaxTotalFetches
  <2>1. research.found \in Seq(Urls) /\ research.results[i] \in Urls
    BY <1>4, ResearchTyped DEF ResearchInHand
  <2>2. PICK u \in Urls : u = research.results[i]
    BY <2>1
  <2>3. /\ Append(research.found, u) \in Seq(Urls)
        /\ Len(Append(research.found, u)) = Len(research.found) + 1
        /\ Len(research.found) \in Nat
    BY <2>1
  <2>4. found = research.found \/ found = Append(research.found, u)
    BY <2>2
  <2> QED BY <1>3, <2>1, <2>3, <2>4, Limits
<1>6. research \in Run /\ research.urls \ {i} \in SUBSET Nat /\ research.tried + 1 \in Nat
  BY ResearchTyped
<1>7. /\ research' \in Run /\ research'.pc = "search" /\ research'.answer = research.answer
      /\ research'.queries = research.queries /\ research'.searched = research.searched
      /\ research'.results = research.results /\ research'.urls = research.urls \ {i}
      /\ research'.found = found /\ research'.tried = research.tried + 1
  BY <1>2, <1>3, <1>5, <1>6 DEF Run
<1>8. /\ IsFiniteSet(research.urls \ {i})
      /\ Cardinality(research.urls \ {i}) = Cardinality(research.urls) - 1
  BY <1>4, FS_RemoveElement DEF ResearchInHand
<1>9. (research.tried + 1) + Cardinality(research.urls \ {i})
        <= ResultsPerQuery * Cardinality(research.searched)
  <2>1. research.tried + Cardinality(research.urls)
          <= ResultsPerQuery * Cardinality(research.searched)
    BY DEF ResearchInHand
  <2>2. ASSUME NEW m \in Nat, NEW n \in Nat PROVE (m + 1) + (n - 1) = m + n
    OBVIOUS
  <2>3. research.tried \in Nat /\ Cardinality(research.urls) \in Nat
    BY ResearchTyped
  <2> QED BY <1>8, <2>1, <2>2, <2>3
<1>10. ResearchInHand'
  BY <1>5, <1>7, <1>8, <1>9 DEF ResearchInHand, fetched, Run
<1>11. research'.pc = research.pc \/ (research'.pc # "insert" /\ research.pc # "insert")
  BY <1>3, <1>7
<1> QED BY <1>3, <1>10, <1>11, StoresFrame

LEMMA CollectInHand ==
  ASSUME StoresInHand, ResearchInHand, CollectFound
  PROVE  StoresInHand' /\ ResearchInHand'
<1>1. /\ research.pc = "search"
      /\ items' = [items EXCEPT !["research"] = research.found] /\ inserted' = inserted
      /\ research' = [research EXCEPT !.pc = "insert"]
  BY DEF CollectFound
<1>2. research \in Run
  BY ResearchTyped
<1>3. /\ research' \in Run /\ research'.pc = "insert" /\ research'.answer = research.answer
      /\ research'.queries = research.queries /\ research'.searched = research.searched
      /\ research'.results = research.results /\ research'.urls = research.urls
      /\ research'.found = research.found /\ research'.tried = research.tried
  BY <1>1, <1>2 DEF Run
<1>4. ResearchInHand'
  BY <1>3 DEF ResearchInHand, fetched, Run
<1>5. inserted["research"] = {} /\ inserted' = [inserted EXCEPT !["research"] = {}]
  BY <1>1 DEF StoresInHand
<1>6. IsFiniteSet({}) /\ Cardinality({}) = 0 /\ {} \in SUBSET Urls
  BY FS_EmptySet
<1>7. research.found \in Seq(Urls) /\ Len(research.found) + Cardinality({}) <= MaxTotalFetches
  BY <1>6, ResearchTyped DEF ResearchInHand, fetched
<1>8. StoresInHand'
  BY <1>1, <1>3, <1>5, <1>6, <1>7, StoresOfResearch
<1> QED BY <1>4, <1>8

\* Whether it is committed or rolled back, nothing is left in hand.
LEMMA EndInHand ==
  ASSUME StoresInHand, ResearchDone \/ ResearchFails
  PROVE  StoresInHand' /\ ResearchInHand'
<1>1. /\ research' = Resting
      /\ inserted' = [inserted EXCEPT !["research"] = {}]
      /\ items' = [items EXCEPT !["research"] = <<>>]
  <2>1. CASE ResearchDone
    <3>1. items["research"] = <<>> /\ items' = items /\ research' = Resting
          /\ inserted' = [inserted EXCEPT !["research"] = {}]
      BY <2>1 DEF ResearchDone, Commit
    <3>2. items' = [items EXCEPT !["research"] = <<>>]
      BY <3>1 DEF StoresInHand
    <3> QED BY <3>1, <3>2
  <2>2. CASE ResearchFails
    BY <2>2 DEF ResearchFails, Rollback
  <2> QED BY <2>1, <2>2
<1>2. IsFiniteSet({}) /\ Cardinality({}) = 0 /\ {} \in SUBSET Urls
  BY FS_EmptySet
<1>3. <<>> \in Seq(Urls) /\ Len(<<>>) + Cardinality({}) <= MaxTotalFetches
  BY <1>2, Limits
<1>4. StoresInHand'
  BY <1>1, <1>2, <1>3, StoresOfResearch
<1> QED BY <1>1, <1>4, RestInHand

-----------------------------------------------------------------------------
(* The invariant.                                                          *)

LEMMA InitHolds == Init => AcquisitionInv
BY InitPolls, InitResearch DEF AcquisitionInv

LEMMA NextHolds ==
  ASSUME AcquisitionInv, [Next]_vars
  PROVE  AcquisitionInv'
<1>1. PollsInTime /\ StoresInHand /\ ResearchInHand
  BY DEF AcquisitionInv
<1>2. ASSUME NEW w \in Writers, Store(w) \/ InsertFails(w) PROVE AcquisitionInv'
  <2>1. rss' = rss /\ since' = since /\ research' = research
    BY <1>2 DEF Store, Insert, DeadlockVictim, InsertFails, SkipItem
  <2> QED BY <1>1, <1>2, <2>1, RssFrame, WriterStores, ResearchFrame DEF AcquisitionInv
<1>3. CASE RssStep \/ RssFails \/ Tick
  <2>1. research' = research
    BY <1>3 DEF RssStep, Start, Look, Poll, Polled, BatchDone, Wake, RssFails, Tick
  <2>2. PollsInTime'
    BY <1>1, <1>3, StartPolls, LookPolls, PollPolls, PolledPolls, BatchDonePolls, WakePolls,
       RssFailsPolls, TickPolls DEF RssStep
  <2>3. StoresInHand'
    BY <1>1, <1>3, RssStores
  <2> QED BY <1>1, <2>1, <2>2, <2>3, ResearchFrame DEF AcquisitionInv
<1>4. CASE GenerateQueries \/ ResearchStep \/ ResearchFails
  <2>1. rss' = rss /\ since' = since
    BY <1>4 DEF GenerateQueries, ResearchStep, Search, fetchPage, CollectFound,
                ResearchDone, ResearchFails
  <2>2. StoresInHand' /\ ResearchInHand'
    BY <1>1, <1>4, GenerateInHand, SearchInHand, FetchInHand, CollectInHand, EndInHand
       DEF ResearchStep
  <2> QED BY <1>1, <2>1, <2>2, RssFrame DEF AcquisitionInv
<1>5. CASE UNCHANGED vars
  <2>1. /\ rss' = rss /\ since' = since /\ research' = research
        /\ items' = items /\ inserted' = inserted
    BY <1>5 DEF vars
  <2>2. research'.pc = research.pc \/ (research'.pc # "insert" /\ research.pc # "insert")
    BY <2>1
  <2> QED BY <1>1, <2>1, <2>2, RssFrame, StoresFrame, ResearchFrame DEF AcquisitionInv
<1> QED BY <1>2, <1>3, <1>4, <1>5 DEF Next

\* For any feeds, intervals and answers, however long polls take (within
\* MaxPoll) and whatever fails, the loop and the runs keep within bounds
\* (worker.go:236, research.go:293).
THEOREM AcquisitionInvariance == Spec => []AcquisitionInv
<1> QED BY InitHolds, NextHolds, PTL DEF Spec

-----------------------------------------------------------------------------
(* What follows from it.                                                   *)

\* The wait that is computed from a clock read before the polls costs a feed at
\* most the polls of two batches (worker.go:247).
THEOREM FeedsStayFresh == Spec => []EveryFeedFresh
<1>1. AcquisitionInv => EveryFeedFresh
  <2> SUFFICES ASSUME AcquisitionInv, NEW f \in Feeds, since[f] # Never
               PROVE  /\ f \in HasTenant
                      /\ since[f] <= PollInterval[f] + 2 * MaxPoll * Cardinality(Scheduled)
    BY DEF EveryFeedFresh
  <2>1. PollsInTime
    BY DEF AcquisitionInv
  <2>2. f \in Scheduled /\ rss.pc # "down" /\ InTime(f)
    BY <2>1 DEF PollsInTime
  <2>3. 2 * MaxPoll * Cardinality(Scheduled) = Slack + Slack
    BY ScheduledIsFinite, Limits DEF Slack
  <2>4. /\ since[f] \in Nat /\ rss.took \in Nat /\ rss.wait \in Nat
        /\ PollInterval[f] \in Nat /\ Slack \in Nat
    BY <2>1, LoopTyped, ScheduledIsFinite, Limits
  <2>5. CASE rss.pc = "look"
    BY <2>2, <2>3, <2>4, <2>5 DEF InTime, Slack, Scheduled
  <2>6. CASE rss.pc = "sleep"
    BY <2>2, <2>3, <2>4, <2>6 DEF InTime, Slack, Scheduled
  <2>7. CASE InBatch
    <3>1. rss.took <= Slack
      BY <2>1, <2>7, TookInSlack
    <3> QED BY <2>2, <2>3, <2>4, <2>7, <3>1 DEF InTime, Slack, Scheduled
  <2>8. rss.pc \in {"down", "look", "poll", "insert", "sleep"}
    BY <2>1, LoopTyped DEF Loop
  <2> QED BY <2>2, <2>5, <2>6, <2>7, <2>8 DEF InBatch
<1> QED BY <1>1, AcquisitionInvariance, PTL

\* "a LIVE fetch counter inside Collect hard-stops fetching at MaxTotalFetches"
\* (research.go:279), and the other limits of a run, for any answer of the model
\* and any results of the searches.
THEOREM ResearchStaysBounded == Spec => []ResearchBounded
<1>1. AcquisitionInv => ResearchBounded
  <2> SUFFICES ASSUME AcquisitionInv PROVE ResearchBounded
    OBVIOUS
  <2>1. StoresInHand /\ ResearchInHand
    BY DEF AcquisitionInv
  <2>2. research.tried <= ResultsPerQuery * Cardinality(research.searched)
    <3>1. research.tried + Cardinality(research.urls)
            <= ResultsPerQuery * Cardinality(research.searched)
      BY <2>1 DEF ResearchInHand
    <3>2. ASSUME NEW m \in Nat, NEW k \in Nat PROVE m * k \in Nat
      OBVIOUS
    <3>3. ResultsPerQuery * Cardinality(research.searched) \in Nat
      BY <2>1, <3>2, ResearchTyped, Limits
    <3> QED BY <2>1, <3>1, <3>3, ResearchTyped
  <2>3. ASSUME NEW i \in research.searched \cup research.queries,
               NEW j \in research.searched \cup research.queries,
               i # j
        PROVE  ~SameQuery(research.answer, i, j)
    <3>1. i \in dedup(research.answer) /\ j \in dedup(research.answer)
      BY <2>1 DEF ResearchInHand
    <3>2. SameQuery(research.answer, i, j) <=> SameQuery(research.answer, j, i)
      BY DEF SameQuery
    <3>3. SameQuery(research.answer, i, j) => i <= j /\ j <= i
      BY <3>1, <3>2 DEF dedup
    <3>4. i \in Nat /\ j \in Nat
      BY <2>1, ResearchTyped
    <3> QED BY <2>3, <3>3, <3>4
  <2> QED BY <2>1, <2>2, <2>3 DEF ResearchBounded, StoresInHand, ResearchInHand
<1> QED BY <1>1, AcquisitionInvariance, PTL
=============================================================================
