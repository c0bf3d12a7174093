--------------------------- MODULE RequestsProofs ---------------------------
(***************************************************************************)
(* RequestInv is an inductive invariant of Requests for any number of      *)
(* handlers and any pool: connections are neither lost nor overdrawn, and  *)
(* an error of the embedder is no server error.                            *)
(***************************************************************************)
EXTENDS Requests, FiniteSetTheorems, TLAPS

-----------------------------------------------------------------------------
(* The pool.                                                               *)

HoldersOf(n) == {r \in Requests : req[r].held = n}

\* The free connections, counted by their holders.
LEMMA FreeByHolders ==
  Free = MaxConns - Cardinality(HoldersOf(1)) - 2 * Cardinality(HoldersOf(2))
BY DEF Free, HoldersOf

LEMMA HoldersFinite ==
  ASSUME NEW n
  PROVE  IsFiniteSet(HoldersOf(n)) /\ Cardinality(HoldersOf(n)) \in Nat
BY RequestsConstants, FS_Subset, FS_CardinalityType DEF HoldersOf

\* One handler's step changes the number of those who hold n connections by
\* that handler alone.
LEMMA HoldersChange ==
  ASSUME NEW r \in Requests, \A v \in Requests : v # r => req'[v] = req[v], NEW n
  PROVE  Cardinality(HoldersOf(n))' = Cardinality(HoldersOf(n))
           - (IF req[r].held = n THEN 1 ELSE 0) + (IF req'[r].held = n THEN 1 ELSE 0)
<1> DEFINE others == {v \in Requests \ {r} : req[v].held = n}
<1>1. IsFiniteSet(others) /\ Cardinality(others) \in Nat
  BY RequestsConstants, FS_Subset, FS_CardinalityType
<1>2. Cardinality(others \cup {r}) = Cardinality(others) + 1
  BY <1>1, FS_AddElement
<1>3. HoldersOf(n) = IF req[r].held = n THEN others \cup {r} ELSE others
  BY DEF HoldersOf
<1>4. HoldersOf(n)' = IF req'[r].held = n THEN others \cup {r} ELSE others
  BY DEF HoldersOf
<1> HIDE DEF others
<1>5. Cardinality(HoldersOf(n)) =
        Cardinality(others) + (IF req[r].held = n THEN 1 ELSE 0)
  BY <1>1, <1>2, <1>3
<1>6. Cardinality(HoldersOf(n)') =
        Cardinality(others) + (IF req'[r].held = n THEN 1 ELSE 0)
  BY <1>1, <1>2, <1>4
<1> QED
  BY <1>1, <1>5, <1>6

\* What a handler takes, the pool gives.
LEMMA FreeChanges ==
  ASSUME NEW r \in Requests, \A v \in Requests : v # r => req'[v] = req[v],
         req[r].held \in 0..2, req'[r].held \in 0..2, Free \in Int
  PROVE  Free' = Free + req[r].held - req'[r].held
<1>1. /\ Cardinality(HoldersOf(1)) \in Nat /\ Cardinality(HoldersOf(2)) \in Nat
  BY HoldersFinite
<1>2. Free' = MaxConns - Cardinality(HoldersOf(1))' - 2 * Cardinality(HoldersOf(2))'
  BY DEF Free, HoldersOf
<1>3. \A n \in {1, 2} : Cardinality(HoldersOf(n))' = Cardinality(HoldersOf(n))
           - (IF req[r].held = n THEN 1 ELSE 0) + (IF req'[r].held = n THEN 1 ELSE 0)
  BY HoldersChange
<1>4. MaxConns \in Nat
  BY RequestsConstants
<1> QED
  BY <1>1, <1>2, <1>3, <1>4, FreeByHolders

-----------------------------------------------------------------------------
(* A handler.                                                              *)

\* What the invariant says of the state of one handler.
Fits(q) ==
  /\ q \in Request
  /\ q.held = CASE q.pc \in {"answered", "begin"} -> 0
                [] q.pc = "scan" -> 2
                [] OTHER -> 1
  /\ q.pc # "answered" => q.todo # <<>>
  /\ q.pc \in {"embed", "nearest", "scan", "ilike"} => IsSearch(Head(q.todo))

LEMMA HandlersFit ==
  ASSUME RequestInv
  PROVE  \A r \in Requests : Fits(req[r])
BY DEF RequestInv, Fits, PoolSound, OnTask, Active

\* A step of one handler that takes at most one connection, and only a free one.
LEMMA HandlerStep ==
  ASSUME RequestInv, NEW r \in Requests, NEW q, Fits(q),
         req' = [req EXCEPT ![r] = q], UNCHANGED server,
         \/ q.held <= req[r].held
         \/ q.held = req[r].held + 1 /\ Free > 0 /\ server # "stopped",
         q.answer = "internal" => server = "closing" \/ req[r].answer = "internal"
  PROVE  RequestInv'
<1>1. /\ req \in [Requests -> Request] /\ q \in Request
      /\ \A v \in Requests : Fits(req[v])
      /\ Free \in 0..MaxConns
      /\ server \in {"serving", "draining", "closing", "stopped"}
      /\ \A v \in Requests : req[v].held > 0 => server # "stopped"
  BY HandlersFit DEF RequestInv, PoolSound, Fits
<1>2. /\ req' \in [Requests -> Request] /\ req'[r] = q
      /\ \A v \in Requests : v # r => req'[v] = req[v]
  BY <1>1
<1>3. MaxConns \in Nat
  BY RequestsConstants
<1>4. \A v \in Requests : Fits(req'[v])
  BY <1>1, <1>2
<1>5. Free' \in 0..MaxConns
  <2>1. req[r].held \in 0..2 /\ q.held \in 0..2
    BY <1>1 DEF Request
  <2>2. Free' = Free + req[r].held - q.held
    BY <1>1, <1>2, <2>1, FreeChanges
  <2>3. Cardinality(HoldersOf(1))' \in Nat /\ Cardinality(HoldersOf(2))' \in Nat
    BY RequestsConstants, FS_Subset, FS_CardinalityType DEF HoldersOf
  <2>4. Free' <= MaxConns
    BY <1>3, <2>3 DEF Free, HoldersOf
  <2> QED BY <1>1, <1>3, <2>1, <2>2, <2>4
<1>7. \A v \in Requests : req'[v].held > 0 => server # "stopped"
  <2>1. req[r].held \in 0..2 /\ q.held \in 0..2
    BY <1>1 DEF Request
  <2> QED BY <1>1, <1>2, <2>1
<1>8. SearchFallsBack'
  BY <1>2 DEF SearchFallsBack, RequestInv
<1>9. \A v \in Requests : OnTask(v)'
  BY <1>4 DEF OnTask, Fits, Active
<1>10. PoolSound'
  <2>1. \A v \in Requests :
          /\ req'[v].answer \in Answers
          /\ req'[v].held = CASE req'[v].pc \in {"answered", "begin"} -> 0
                              [] req'[v].pc = "scan" -> 2
                              [] OTHER -> 1
          /\ req'[v].held = 2 => IsSearch(Head(req'[v].todo))
    BY <1>4 DEF Fits, Request
  <2> QED BY <1>1, <1>5, <1>7, <2>1 DEF PoolSound
<1> QED
  BY <1>2, <1>8, <1>9, <1>10 DEF RequestInv

\* A search that moves on with its connections, or takes the second one.
LEMMA StepKeeps ==
  ASSUME RequestInv, NEW r \in Requests, NEW held,
         NEW from \in {"embed", "nearest", "scan", "ilike"},
         NEW to \in {"nearest", "scan", "ilike", "query"},
         held = IF to = "scan" THEN 2 ELSE 1,
         from = "scan" \/ held = 1 \/ (Free > 0 /\ server # "stopped"),
         Step(r, from, to, held)
  PROVE  RequestInv'
<1> DEFINE q == [req[r] EXCEPT !.pc = to, !.held = held]
<1>1. Fits(req[r]) /\ req[r].pc = from /\ req \in [Requests -> Request]
  BY HandlersFit DEF Step, RequestInv
<1>2. req[r].held = IF from = "scan" THEN 2 ELSE 1
  BY <1>1 DEF Fits
<1>3. req' = [req EXCEPT ![r] = q] /\ UNCHANGED server
  BY <1>1 DEF Step
<1>4. q.pc = to /\ q.held = held /\ q.todo = req[r].todo /\ q.answer = req[r].answer /\ q \in Request
  <2>1. req[r] \in Request /\ held \in 0..2
    BY <1>1
  <2>2. q.pc = to /\ q.held = held
    BY <2>1 DEF Request
  <2>3. q.todo = req[r].todo /\ q.answer = req[r].answer
    BY <2>1 DEF Request
  <2>4. q \in Request
    BY <2>1 DEF Request
  <2> QED BY <2>2, <2>3, <2>4
<1> HIDE DEF q
<1>5. Fits(q)
  BY <1>1, <1>4 DEF Fits
<1>6. \/ q.held <= req[r].held
      \/ q.held = req[r].held + 1 /\ Free > 0 /\ server # "stopped"
  BY <1>2, <1>4
<1>7. q.answer = "internal" => req[r].answer = "internal"
  BY <1>4
<1> QED
  BY <1>3, <1>5, <1>6, <1>7, HandlerStep

\* The record of a search that falls back, field by field.
LEMMA RequestChanges ==
  ASSUME NEW q \in Request, NEW what \in {"nothing", "nearest"}, NEW p,
         p = [q EXCEPT !.pc = "ilike", !.held = 1, !.missed = what]
  PROVE  p \in Request /\ p.pc = "ilike" /\ p.held = 1 /\ p.todo = q.todo /\ p.answer = q.answer
<1>1. p.pc = "ilike" /\ p.held = 1 /\ p.missed = what
  BY DEF Request
<1>2. p.todo = q.todo /\ p.answer = q.answer
  BY DEF Request
<1>3. q.todo \in Seq(Transactions) /\ q.answer \in Answers
  BY DEF Request
<1>4. DOMAIN p = {"pc", "held", "todo", "missed", "answer"}
  BY DEF Request
<1>5. p = [f \in DOMAIN p |-> p[f]]
  OBVIOUS
<1>6. p = [pc |-> p.pc, held |-> p.held, todo |-> p.todo, missed |-> p.missed, answer |-> p.answer]
  BY <1>4, <1>5
<1> QED
  BY <1>1, <1>2, <1>3, <1>6 DEF Request

\* A search that falls back keeps one connection, whatever it has missed.
LEMMA FallBackKeeps ==
  ASSUME RequestInv, NEW r \in Requests, NEW from \in {"embed", "nearest", "scan"},
         FallBack(r, from)
  PROVE  RequestInv'
<1>1. PICK what \in {"nothing", "nearest"} :
        req' = [req EXCEPT ![r].pc = "ilike", ![r].held = 1, ![r].missed = what]
  BY DEF FallBack
<1> DEFINE q == [req[r] EXCEPT !.pc = "ilike", !.held = 1, !.missed = what]
<1>2. Fits(req[r]) /\ req[r].pc = from /\ req[r] \in Request
  BY HandlersFit DEF FallBack, Fits
<1>3. req' = [req EXCEPT ![r] = q] /\ UNCHANGED server
  <2>1. req' = [req EXCEPT ![r] = q]
    BY <1>1 DEF RequestInv
  <2> QED BY <2>1 DEF FallBack
<1>5. q \in Request /\ q.pc = "ilike" /\ q.held = 1 /\ q.todo = req[r].todo /\ q.answer = req[r].answer
  BY <1>2, RequestChanges
<1> HIDE DEF q
<1>6. Fits(q)
  BY <1>2, <1>5 DEF Fits
<1>7. q.held <= req[r].held
  BY <1>2, <1>5 DEF Fits
<1> QED
  BY <1>3, <1>5, <1>6, <1>7, HandlerStep

LEMMA AnsweredFits ==
  ASSUME NEW a \in Answers
  PROVE  Fits(Answered(a)) /\ Answered(a).held = 0 /\ Answered(a).answer = a
BY DEF Answered, Fits, Request

LEMMA AnswerKeeps ==
  ASSUME RequestInv, NEW r \in Requests, NEW a \in Answers,
         req' = [req EXCEPT ![r] = Answered(a)], UNCHANGED server,
         a = "internal" => server = "closing"
  PROVE  RequestInv'
<1>1. req[r].held \in 0..2
  BY HandlersFit DEF Fits, Request
<1>2. PICK q : q = Answered(a)
  OBVIOUS
<1>3. Fits(q) /\ q.held = 0 /\ q.answer = a
  BY <1>2, AnsweredFits
<1>4. req' = [req EXCEPT ![r] = q]
  BY <1>2
<1>5. q.held <= req[r].held
  BY <1>1, <1>3
<1>6. q.answer = "internal" => server = "closing"
  BY <1>3
<1> QED
  BY <1>3, <1>4, <1>5, <1>6, HandlerStep

LEMMA PendingFits ==
  ASSUME NEW todo \in Seq(Transactions)
  PROVE  Fits(Pending(todo)) /\ Pending(todo).held = 0 /\ Pending(todo).answer = "ok"
<1>1. CASE todo = <<>>
  BY <1>1, AnsweredFits DEF Pending, Answers
<1>2. CASE todo # <<>>
  BY <1>2 DEF Pending, Fits, Request, Answers
<1> QED BY <1>1, <1>2

LEMMA PendingKeeps ==
  ASSUME RequestInv, NEW r \in Requests, NEW todo \in Seq(Transactions),
         req' = [req EXCEPT ![r] = Pending(todo)], UNCHANGED server
  PROVE  RequestInv'
<1>1. req[r].held \in 0..2
  BY HandlersFit DEF Fits, Request
<1>2. PICK q : q = Pending(todo)
  OBVIOUS
<1>3. Fits(q) /\ q.held = 0 /\ q.answer = "ok"
  BY <1>2, PendingFits
<1>4. req' = [req EXCEPT ![r] = q]
  BY <1>2
<1>5. q.held <= req[r].held
  BY <1>1, <1>3
<1> QED
  BY <1>3, <1>4, <1>5, HandlerStep

\* One transaction is over and the next one begins, or the answer goes out.
LEMMA QueryKeeps ==
  ASSUME RequestInv, NEW r \in Requests, NEW txs, Query(r, txs)
  PROVE  RequestInv'
<1>1. req[r].todo \in Seq(Transactions) /\ req[r].todo # <<>>
  BY HandlersFit DEF Query, Fits, Request
<1>2. Tail(req[r].todo) \in Seq(Transactions)
  BY <1>1
<1> QED
  BY <1>2, PendingKeeps DEF Query, Finish

LEMMA QueryIsKeeps ==
  ASSUME RequestInv, NEW r \in Requests, NEW txs, NEW a \in Answers, a # "internal",
         QueryIs(r, txs, a)
  PROVE  RequestInv'
BY AnswerKeeps DEF QueryIs, Answer

\* The transactions of a request are known.
LEMMA PlansTyped ==
  \A kind \in DOMAIN Plans : Plans[kind] \in Seq(Transactions)
<1>1. /\ Plans.dossier \in Seq(Transactions) /\ Plans.query \in Seq(Transactions)
      /\ Plans.briefs \in Seq(Transactions) /\ Plans.briefOfEntity \in Seq(Transactions)
      /\ Plans.briefOfStory \in Seq(Transactions) /\ Plans.briefOfBoth \in Seq(Transactions)
  BY DEF Plans, Tools, Transactions
<1>2. DOMAIN Plans = {"dossier", "query", "briefs", "briefOfEntity", "briefOfStory", "briefOfBoth"}
  BY DEF Plans
<1> QED
  BY <1>1, <1>2

-----------------------------------------------------------------------------
(* The actions.                                                            *)

LEMMA ArriveKeeps ==
  ASSUME RequestInv, NEW r \in Requests, Arrive(r)
  PROVE  RequestInv'
<1>1. CASE req' = [req EXCEPT ![r] = Answered("refused")]
  BY <1>1, AnswerKeeps DEF Arrive, Answers
<1>2. ASSUME NEW kind \in DOMAIN Plans, req' = [req EXCEPT ![r] = Pending(Plans[kind])]
      PROVE  RequestInv'
  BY <1>2, PlansTyped, PendingKeeps DEF Arrive
<1> QED
  BY <1>1, <1>2 DEF Arrive

LEMMA AcquireKeeps ==
  ASSUME RequestInv, NEW r \in Requests, Acquire(r)
  PROVE  RequestInv'
<1> DEFINE to == IF IsSearch(Head(req[r].todo)) THEN "embed" ELSE "query"
           q == [pc |-> to, held |-> 1, todo |-> req[r].todo,
                 missed |-> req[r].missed, answer |-> req[r].answer]
<1>1. Fits(req[r]) /\ req[r].pc = "begin" /\ req \in [Requests -> Request]
  BY HandlersFit DEF Acquire, RequestInv
<1>2. req' = [req EXCEPT ![r] = q]
  BY <1>1 DEF Acquire, Request
<1>3. /\ to \in {"embed", "query"}
      /\ to = "embed" => IsSearch(Head(req[r].todo))
  OBVIOUS
<1> HIDE DEF to
<1>4. q.pc = to /\ q.held = 1 /\ q.todo = req[r].todo /\ q.answer = req[r].answer /\ q \in Request
  BY <1>1, <1>3 DEF Request
<1> HIDE DEF q
<1>5. Fits(q)
  BY <1>1, <1>3, <1>4 DEF Fits
<1>6. req[r].held = 0
  BY <1>1 DEF Fits
<1>7. q.held = req[r].held + 1 /\ Free > 0 /\ server # "stopped" /\ UNCHANGED server
  BY <1>4, <1>6 DEF Acquire
<1>8. q.answer = "internal" => req[r].answer = "internal"
  BY <1>4
<1> QED
  BY <1>2, <1>5, <1>7, <1>8, HandlerStep

LEMMA HandleKeeps ==
  ASSUME RequestInv, NEW r \in Requests, Handle(r)
  PROVE  RequestInv'
<1> USE DEF Answers
<1>1. CASE Acquire(r)         BY <1>1, AcquireKeeps
<1>2. CASE AcquireSecond(r)   BY <1>2, StepKeeps DEF AcquireSecond
<1>3. CASE Scan(r)            BY <1>3, StepKeeps, FallBackKeeps DEF Scan
<1>4. CASE SearchByName(r)
  <2>1. CASE Step(r, "ilike", "query", 1)     BY <2>1, StepKeeps
  <2>2. CASE Answer(r, "ilike", "refused")    BY <2>2, AnswerKeeps DEF Answer
  <2>3. CASE Answer(r, "ilike", "failed")      BY <2>3, AnswerKeeps DEF Answer
  <2> QED BY <1>4, <2>1, <2>2, <2>3 DEF SearchByName
<1>5. CASE CheckOwner(r)      BY <1>5, QueryKeeps, QueryIsKeeps DEF CheckOwner
<1>6. CASE LoadBundle(r)      BY <1>6, QueryKeeps, QueryIsKeeps DEF LoadBundle
<1>7. CASE LoadStory(r)       BY <1>7, QueryKeeps, QueryIsKeeps DEF LoadStory
<1>8. CASE InsertBrief(r)    BY <1>8, QueryKeeps DEF InsertBrief
<1>9. CASE ReadBriefs(r)     BY <1>9, QueryKeeps, QueryIsKeeps DEF ReadBriefs
<1>10. CASE AcquireClosed(r)  BY <1>10, AnswerKeeps DEF AcquireClosed
<1>11. CASE AcquireSecondClosed(r)  BY <1>11, FallBackKeeps DEF AcquireSecondClosed
<1> QED
  BY <1>1, <1>2, <1>3, <1>4, <1>5, <1>6, <1>7, <1>8, <1>9, <1>10, <1>11 DEF Handle

LEMMA EmbedderKeeps ==
  ASSUME RequestInv, NEW r \in Requests, Embed(r) \/ EmbedFails(r)
  PROVE  RequestInv'
<1>1. CASE Embed(r)       BY <1>1, StepKeeps DEF Embed
<1>2. CASE EmbedFails(r)  BY <1>2, FallBackKeeps DEF EmbedFails
<1> QED
  BY <1>1, <1>2

\* Nobody is at work: all connections are free.
LEMMA AllAnswered ==
  ASSUME req' = [r \in Requests |-> Answered("ok")]
  PROVE  /\ Free' = MaxConns
         /\ \A r \in Requests : Fits(req'[r]) /\ req'[r].answer = "ok" /\ req'[r].held = 0
<1>1. \A r \in Requests : Fits(req'[r]) /\ req'[r].answer = "ok" /\ req'[r].held = 0
  BY AnsweredFits DEF Answers
<1>2. HoldersOf(1)' = {} /\ HoldersOf(2)' = {}
  BY <1>1 DEF HoldersOf
<1>3. Free' = MaxConns - Cardinality(HoldersOf(1)') - 2 * Cardinality(HoldersOf(2)')
  BY DEF Free, HoldersOf
<1>4. MaxConns \in Nat
  BY RequestsConstants
<1> QED
  BY <1>1, <1>2, <1>3, <1>4, FS_EmptySet

LEMMA StopKeeps ==
  ASSUME RequestInv, Stop
  PROVE  RequestInv'
<1>1. /\ Free' = MaxConns
      /\ \A r \in Requests : Fits(req'[r]) /\ req'[r].answer = "ok" /\ req'[r].held = 0
  BY AllAnswered DEF Stop
<1>2. req' \in [Requests -> Request]
  BY <1>1 DEF Stop, Fits
<1>3. PoolSound'
  <2>1. MaxConns \in Nat
    BY RequestsConstants
  <2>2. \A r \in Requests : req'[r].held = CASE req'[r].pc \in {"answered", "begin"} -> 0
                                             [] req'[r].pc = "scan" -> 2
                                             [] OTHER -> 1
    BY <1>1 DEF Fits
  <2> QED BY <1>1, <2>1, <2>2 DEF PoolSound, Stop, Answers
<1>4. SearchFallsBack'
  BY <1>1 DEF SearchFallsBack
<1>5. \A r \in Requests : OnTask(r)'
  BY <1>1 DEF OnTask, Fits, Active
<1> QED
  BY <1>2, <1>3, <1>4, <1>5 DEF RequestInv

\* The process is told to end, closes the pool, or starts.
LEMMA ServerKeeps ==
  ASSUME RequestInv, UNCHANGED req,
         server' \in {"serving", "draining", "closing"},
         server = "closing" => server' = "closing"
  PROVE  RequestInv'
<1>1. Free' = Free
  BY DEF Free
<1>2. PoolSound'
  BY <1>1 DEF RequestInv, PoolSound
<1>3. SearchFallsBack'
  BY DEF RequestInv, SearchFallsBack
<1> QED
  BY <1>2, <1>3 DEF RequestInv, OnTask, Active

LEMMA InitRequests == Init => RequestInv
<1> SUFFICES ASSUME Init PROVE RequestInv
  OBVIOUS
<1>1. \A r \in Requests : Fits(req[r]) /\ req[r].answer = "ok" /\ req[r].held = 0
  BY AnsweredFits DEF Init, Answers
<1>2. Free = MaxConns
  <2>1. HoldersOf(1) = {} /\ HoldersOf(2) = {}
    BY <1>1 DEF HoldersOf
  <2>2. Cardinality(HoldersOf(1)) = 0 /\ Cardinality(HoldersOf(2)) = 0
    BY <2>1, FS_EmptySet
  <2>3. MaxConns \in Nat
    BY RequestsConstants
  <2> QED BY <2>2, <2>3, FreeByHolders
<1>3. req \in [Requests -> Request]
  BY <1>1 DEF Init, Fits
<1>4. PoolSound
  <2>1. MaxConns \in Nat
    BY RequestsConstants
  <2>2. \A r \in Requests : req[r].held = CASE req[r].pc \in {"answered", "begin"} -> 0
                                            [] req[r].pc = "scan" -> 2
                                            [] OTHER -> 1
    BY <1>1 DEF Fits
  <2> QED BY <1>1, <1>2, <2>1, <2>2 DEF PoolSound, Init, Answers
<1>5. SearchFallsBack
  BY <1>1 DEF SearchFallsBack
<1>6. \A r \in Requests : OnTask(r)
  BY <1>1 DEF OnTask, Fits, Active
<1> QED
  BY <1>3, <1>4, <1>5, <1>6 DEF RequestInv

LEMMA NextRequests == RequestInv /\ [Next]_vars => RequestInv'
<1> SUFFICES ASSUME RequestInv, [Next]_vars PROVE RequestInv'
  OBVIOUS
<1>1. ASSUME NEW r \in Requests, Arrive(r) \/ Embed(r) \/ EmbedFails(r) \/ Handle(r)
      PROVE  RequestInv'
  BY <1>1, ArriveKeeps, EmbedderKeeps, HandleKeeps
<1>2. ASSUME NEW r \in Requests, Fail(r) PROVE RequestInv'
  BY <1>2, AnswerKeeps DEF Fail, Answers
<1>3. ASSUME NEW r \in Requests, GiveUp(r) PROVE RequestInv'
  BY <1>3, AnswerKeeps DEF GiveUp, Answers
<1>4. CASE Terminate \/ CloseDrained \/ Restart
  BY <1>4, ServerKeeps DEF Terminate, CloseDrained, Restart
<1>5. CASE Stop
  BY <1>5, StopKeeps
<1>6. CASE UNCHANGED vars
  BY <1>6 DEF vars, RequestInv, PoolSound, SearchFallsBack, OnTask, Active, Free
<1> QED
  BY <1>1, <1>2, <1>3, <1>4, <1>5, <1>6 DEF Next

\* RequestInv holds always, for any pool and any number of handlers (api.go,
\* service.go, mcp/server.go).
THEOREM RequestInvariance == Spec => []RequestInv
BY InitRequests, NextRequests, PTL DEF Spec

-----------------------------------------------------------------------------
(* What it says of the service.                                            *)

\* No connection is lost or lent twice, and none is out when the process ends
\* (withTenantTx, service.go:144).
THEOREM PoolStaysSound == Spec => []PoolSound
BY RequestInvariance, PTL DEF RequestInv

\* An error of the embedder, or of the search for the nearest, is not answered as
\* an internal error (service.go:167).
THEOREM SearchAlwaysFallsBack == Spec => []SearchFallsBack
BY RequestInvariance, PTL DEF RequestInv
=============================================================================
