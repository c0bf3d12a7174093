---------------------------- MODULE Corroboration ----------------------------
(***************************************************************************)
(* CorroborateOnce (corroborate.go) with ComputeConfidence (confidence.go): *)
(* the confidence of a statement is recomputed from the number of          *)
(* independent sources among its evidence.                                 *)
(*                                                                         *)
(* A run reads the evidence in one query, then updates the statements one  *)
(* by one, in the random order of a Go map, in one READ COMMITTED          *)
(* transaction: it holds the row of every statement it has updated until it *)
(* commits, and overwrites whatever was there.  Runs may overlap with each *)
(* other, with extraction, with writers of further evidence and with an    *)
(* editor who sets a confidence by hand.                                   *)
(*                                                                         *)
(* Confidences are in thousandths: both columns are NUMERIC(4,3).          *)
(***************************************************************************)
EXTENDS Naturals, FiniteSets, Sequences, SequencesExt

CONSTANTS
  Statements, Sources,  \* numbered in the order of their uuids
  Domains,              \* what evidenceDomain may return
  Weights,              \* statement_sources.confidence of evidence not extracted
  Override,             \* the confidence an editor sets, or 0: there is no editor
  Corroborators,
  Scheduled,            \* the corroborator that the CronJob starts, one run at a time
  RowLimit,             \* LIMIT 1000
  MaxByHand,            \* bound: runs that a person starts and confidences set by hand
  MaxFailures           \* bound: runs that fail for an outside reason

ASSUME IdsType == /\ Statements \subseteq Nat /\ IsFiniteSet(Statements)
                  /\ Sources \subseteq Nat \ {0} /\ IsFiniteSet(Sources)
\* What fits into NUMERIC(4,3) and is a confidence.
Thousandths == 0..1000

ASSUME WeightsType == Weights \subseteq Thousandths
ASSUME BoundsType ==
  /\ Scheduled \in Corroborators
  /\ Override \in Thousandths /\ RowLimit \in Nat /\ MaxByHand \in Nat /\ MaxFailures \in Nat

VARIABLES
  domain,      \* of each source; never changes
  similar,     \* pairs of sources whose texts are at least 85% similar; never changes
  evidence,    \* statement_sources: <<statement, source>> -> confidence
  confidence,  \* statements: statement -> confidence
  overridden,  \* statements whose confidence was last set by the editor
  run,         \* per corroborator: its open transaction
  byHand,
  failures

vars == <<domain, similar, evidence, confidence, overridden, run, byHand, failures>>

\* open: the transaction is open; computed: the new confidences; order: the
\* statements still to update, in the order of the map.
Closed == [open |-> FALSE, computed |-> [st \in {} |-> 0], order |-> <<>>]

\* The statements that w has updated and not committed: it holds their rows.
Held(w) == DOMAIN run[w].computed \ ToSet(run[w].order)

\* Table f after the insertion of row v under the new key k.
WithRow(f, k, v) == [x \in DOMAIN f \cup {k} |-> IF x = k THEN v ELSE f[x]]

-----------------------------------------------------------------------------
(* The count of independent sources.                                       *)

\* One text is much like the other: trigramSimilarity is reflexive and
\* symmetric, and not transitive.
Similarities ==
  {R \in SUBSET (Sources \X Sources) :
     /\ \A s \in Sources : <<s, s>> \in R
     /\ \A s, t \in Sources : <<s, t>> \in R => <<t, s>> \in R}

\* What the code takes for copies of one text: texts much alike that have one
\* publisher domain.
Near(s, t) == domain[s] = domain[t] /\ <<s, t>> \in similar

\* Mutant of Matches: the texts are not compared.
MatchesDomainOfCluster(cluster, s) == \E t \in cluster : domain[s] = domain[t]

Matches(cluster, s) == \E t \in cluster : Near(s, t)

\* The source joins the first cluster that it matches, or starts a cluster.
Join(clusters, s) ==
  LET matching == {i \in DOMAIN clusters : Matches(clusters[i], s)}
  IN  IF matching = {} THEN Append(clusters, {s})
                       ELSE [clusters EXCEPT ![Min(matching)] = @ \cup {s}]

\* The clusters of the sources of S up to the n-th, which come in the order of
\* their ids.
ClustersUpTo(S) ==
  LET clusters[n \in 0..Max(S)] ==
        IF n = 0 THEN <<>>
        ELSE IF n \in S THEN Join(clusters[n - 1], n) ELSE clusters[n - 1]
  IN  clusters

CountIndependentSources(S) == Len(ClustersUpTo(S)[Max(S)])

\* Mutant of corroborationCeiling: off by one.
CeilingTooSoon(n) == IF n <= 1 THEN 500 ELSE 950

corroborationCeiling(n) == IF n <= 1 THEN 500 ELSE IF n = 2 THEN 850 ELSE 950

\* W is the non-empty set of the confidences of the links.
ComputeConfidence(n, W) == Min({Max(W), corroborationCeiling(n)})

-----------------------------------------------------------------------------
(* A run.                                                                  *)

Before(k, l) == k[1] < l[1] \/ (k[1] = l[1] /\ k[2] < l[2])

\* The rows of the query: the first RowLimit links by statement and source.
Selected == {l \in DOMAIN evidence :
               Cardinality({k \in DOMAIN evidence : Before(k, l)}) < RowLimit}

\* What the links in L give for statement st.
Computed(st, L) ==
  LET sources == {s \in Sources : <<st, s>> \in L}
  IN  ComputeConfidence(CountIndependentSources(sources),
                        {evidence[<<st, s>>] : s \in sources})

\* Whoever is not the schedule is a person.
ByHand(w) == IF w = Scheduled THEN UNCHANGED byHand
                              ELSE byHand < MaxByHand /\ byHand' = byHand + 1

Begin(w) ==
  /\ ~run[w].open
  /\ ByHand(w)
  /\ LET rows == Selected
         byStatement == {l[1] : l \in rows}
     IN  \E order \in SetToSeqs(byStatement) :
           run' = [run EXCEPT ![w] =
                   [open |-> TRUE, order |-> order,
                    computed |-> [st \in byStatement |-> Computed(st, rows)]]]
  /\ UNCHANGED <<domain, similar, evidence, confidence, overridden, failures>>

\* w updates the next statement, but waits while another run holds its row.
WaitsFor(w, v) ==
  /\ v # w
  /\ run[w].order # <<>>
  /\ Head(run[w].order) \in Held(v)

\* Mutant of Update: never lowers a confidence.
UpdateOnlyUp(w) ==
  /\ run[w].order # <<>>
  /\ \A v \in Corroborators : ~WaitsFor(w, v)
  /\ LET st == Head(run[w].order) IN
       run' = [run EXCEPT ![w].order = Tail(@),
                          ![w].computed[st] = Max({@, confidence[st]})]
  /\ UNCHANGED <<domain, similar, evidence, confidence, overridden, byHand, failures>>

\* UPDATE statements SET confidence.
Update(w) ==
  /\ run[w].order # <<>>
  /\ \A v \in Corroborators : ~WaitsFor(w, v)
  /\ run' = [run EXCEPT ![w].order = Tail(@)]
  /\ UNCHANGED <<domain, similar, evidence, confidence, overridden, byHand, failures>>

Commit(w) ==
  /\ run[w].open
  /\ run[w].order = <<>>
  /\ confidence' = [st \in DOMAIN run[w].computed \cup DOMAIN confidence |->
                      IF st \in DOMAIN run[w].computed THEN run[w].computed[st]
                                                       ELSE confidence[st]]
  /\ overridden' = overridden \ DOMAIN run[w].computed
  /\ run' = [run EXCEPT ![w] = Closed]
  /\ UNCHANGED <<domain, similar, evidence, byHand, failures>>

\* The deferred Rollback.
Abort(w) == run' = [run EXCEPT ![w] = Closed]

Fail(w) ==
  /\ run[w].open
  /\ failures < MaxFailures
  /\ failures' = failures + 1
  /\ Abort(w)
  /\ UNCHANGED <<domain, similar, evidence, confidence, overridden, byHand>>

\* PostgreSQL ends one of the runs that wait for each other in a circle.
Deadlocked(w) ==
  \E circle \in SUBSET Corroborators :
    /\ w \in circle
    /\ \A u \in circle : \E v \in circle : WaitsFor(u, v)

DeadlockVictim(w) ==
  /\ Deadlocked(w)
  /\ Abort(w)
  /\ UNCHANGED <<domain, similar, evidence, confidence, overridden, byHand, failures>>

-----------------------------------------------------------------------------
(* What goes on around the runs.                                           *)

\* Mutant of Extract: the statement is written without its link.
ExtractUnlinked(st, s) ==
  /\ st \notin DOMAIN confidence
  /\ confidence' = WithRow(confidence, st, 500)
  /\ UNCHANGED <<domain, similar, evidence, overridden, run, byHand, failures>>

\* insertFact: a new statement with its one link; no extractor proposes a
\* confidence, so both get 0.5.
Extract(st, s) ==
  /\ st \notin DOMAIN confidence
  /\ confidence' = WithRow(confidence, st, 500)
  /\ evidence' = WithRow(evidence, <<st, s>>, 500)
  /\ UNCHANGED <<domain, similar, overridden, run, byHand, failures>>

\* Another writer of the database links a further source to a statement, with
\* a confidence or without (NULL counts as 0.5).
AddEvidence(st, s) ==
  /\ st \in DOMAIN confidence
  /\ <<st, s>> \notin DOMAIN evidence
  /\ \E c \in Weights \cup {500} : evidence' = WithRow(evidence, <<st, s>>, c)
  /\ UNCHANGED <<domain, similar, confidence, overridden, run, byHand, failures>>

\* An editor sets a confidence by hand, once no run holds the row.
OverrideByHand(st) ==
  /\ Override # 0 /\ byHand < MaxByHand
  /\ byHand' = byHand + 1
  /\ st \in DOMAIN confidence \ overridden
  /\ \A w \in Corroborators : st \notin Held(w)
  /\ confidence' = [confidence EXCEPT ![st] = Override]
  /\ overridden' = overridden \cup {st}
  /\ UNCHANGED <<domain, similar, evidence, run, failures>>

-----------------------------------------------------------------------------
Init ==
  /\ domain \in [Sources -> Domains]
  /\ similar \in Similarities
  /\ evidence = [l \in {} |-> 0]
  /\ confidence = [st \in {} |-> 0]
  /\ overridden = {}
  /\ run = [w \in Corroborators |-> Closed]
  /\ byHand = 0
  /\ failures = 0

Corroborate(w) == Begin(w) \/ Update(w) \/ Commit(w)

Next ==
  \/ \E w \in Corroborators : Corroborate(w) \/ Fail(w) \/ DeadlockVictim(w)
  \/ \E st \in Statements, s \in Sources : Extract(st, s) \/ AddEvidence(st, s)
  \/ \E st \in Statements : OverrideByHand(st)

Spec == Init /\ [][Next]_vars

\* The schedule starts runs again and again (what a person starts is bounded), a
\* started run goes on, and PostgreSQL resolves deadlocks and wakes those who wait for a row.
Fairness == \A w \in Corroborators : SF_vars(Corroborate(w)) /\ WF_vars(DeadlockVictim(w))

FairSpec == Spec /\ Fairness

-----------------------------------------------------------------------------
(* What correct corroboration guarantees.                                  *)

SourcesOf(st) == {s \in Sources : <<st, s>> \in DOMAIN evidence}

\* No two of the sources in T are near each other.
Apart(T) == \A s, t \in T : s # t => ~Near(s, t)

\* The most sources in S that are apart.
MostApart(S) == Max({Cardinality(T) : T \in {U \in SUBSET S : Apart(U)}})

\* The sets of sources in S that chains of near sources connect.
Groups(S) ==
  LET unions == {U \in (SUBSET S) \ {{}} : \A s \in U, t \in S : Near(s, t) => t \in U}
  IN  {U \in unions : \A V \in unions : V \subseteq U => V = U}

TypeOK ==
  /\ domain \in [Sources -> Domains]
  /\ similar \in Similarities
  /\ DOMAIN evidence \subseteq (DOMAIN confidence) \X Sources
  /\ \A l \in DOMAIN evidence : evidence[l] \in Weights \cup {500}
  /\ overridden \subseteq DOMAIN confidence
  /\ DOMAIN confidence \subseteq Statements
  /\ \A st \in DOMAIN confidence : confidence[st] \in Thousandths /\ SourcesOf(st) # {}
  /\ \A w \in Corroborators :
       /\ run[w].open \/ run[w] = Closed
       /\ ToSet(run[w].order) \subseteq DOMAIN run[w].computed
       /\ DOMAIN run[w].computed \subseteq DOMAIN confidence
       /\ \A st \in DOMAIN run[w].computed : run[w].computed[st] \in Thousandths
  /\ byHand \in 0..MaxByHand /\ failures \in 0..MaxFailures

\* Although the order of the sources decides which cluster a text joins, the
\* count never exceeds the number of sources that are pairwise not near, and
\* never merges what no chain of near sources connects.  Near is the notion of
\* the code, one publisher domain AND similar texts (corroborate.go:107, 114):
\* copies of one text under two mastheads do count twice, see CopiesCountOnce.
CountBounded ==
  \A st \in DOMAIN confidence :
    LET S == SourcesOf(st)
    IN  /\ Cardinality(Groups(S)) <= CountIndependentSources(S)
        /\ CountIndependentSources(S) <= MostApart(S)

\* Confidence c of statement st is under the ceiling of its independent sources,
\* of which two are dependent only if they are near, and not above its best link.
Carried(st, c) ==
  /\ c <= LET n == MostApart(SourcesOf(st)) IN
            CASE n = 1 -> 500 [] n = 2 -> 850 [] n >= 3 -> 950
  /\ \E s \in SourcesOf(st) : c <= evidence[<<st, s>>]

\* No run, however late, stale or interrupted, leaves a confidence above the
\* ceiling that the code itself allows the evidence of the statement, whatever
\* has been added to it since the run read it (corroborate.go:87, confidence.go:10).
Warranted == \A st \in DOMAIN confidence \ overridden : Carried(st, confidence[st])

\* "Wire copy republished under a different masthead does not count twice"
\* (README.md:27): no confidence is above the ceiling of sources whose texts are
\* not alike, "regardless of publisher domain" (confidence-and-corroboration.md:93).
CopiesCountOnce ==
  \A st \in DOMAIN confidence \ overridden : \E T \in SUBSET SourcesOf(st) :
    /\ \A s, t \in T : s # t => <<s, t>> \notin similar
    /\ confidence[st] <= corroborationCeiling(Cardinality(T))

\* The inductive invariant: nor does a run hold one that it will write.
CorroborationInv ==
  /\ TypeOK
  /\ Warranted
  /\ DOMAIN run = Corroborators
  /\ \A w \in Corroborators :
       /\ DOMAIN run[w] = DOMAIN Closed
       /\ run[w].order \in Seq(Statements)
       /\ \A st \in DOMAIN run[w].computed : Carried(st, run[w].computed[st])

\* Every run ends, deadlocks and failures included, and the confidence of every
\* statement ends up as what all its evidence gives, whatever stale runs and
\* editors wrote in between: "recomputed from scratch on every run" (README.md:114).
EndsCurrent ==
  /\ \A w \in Corroborators : run[w].open ~> ~run[w].open
  /\ <>[](\A st \in DOMAIN confidence : confidence[st] = Computed(st, DOMAIN evidence))
=============================================================================
