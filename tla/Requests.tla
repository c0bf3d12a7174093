------------------------------ MODULE Requests ------------------------------
(***************************************************************************)
(* The HTTP API (api.go, middleware.go, cmd/factvault/api.go) and the MCP  *)
(* tools (mcp/server.go) as processes that share a small pool of database  *)
(* connections.  A request runs one transaction after the other, each on a *)
(* connection of its own, and answers; what the bundles contain is the     *)
(* business of Dossiers.                                                   *)
(*                                                                         *)
(* A search (service.go) is the exception: within its transaction it calls *)
(* the embedder, which may never answer, and then asks the pool for a      *)
(* second connection to look up the nearest entities, while it keeps the   *)
(* first.                                                                  *)
(***************************************************************************)
EXTENDS Integers, FiniteSets, Sequences

CONSTANTS
  Requests,     \* handlers that run at the same time
  Watched,      \* those whose answer is followed: they are interchangeable
  MaxConns      \* connections of the pool

ASSUME RequestsConstants ==
  IsFiniteSet(Requests) /\ Watched \subseteq Requests /\ MaxConns \in Nat \ {0}

VARIABLES
  server,    \* the process: "serving", "draining", "closing", "stopped"
  req        \* per handler: its request

vars == <<server, req>>

\* The transactions of the requests that both servers know: a dossier, and the
\* two searches, for a story or for facts.
Tools == [dossier |-> <<"bundle">>, query |-> <<"search">>]

\* The HTTP API adds briefs, which are read one by one or as a list; one of a
\* story for a given entity must begin with that entity ("searchFor").
Plans ==
  [dossier       |-> Tools.dossier,
   query         |-> Tools.query,
   briefs        |-> <<"read">>,
   briefOfEntity |-> <<"owner", "bundle", "insert">>,
   briefOfStory  |-> <<"search", "insert">>,
   briefOfBoth   |-> <<"owner", "searchFor", "insert">>]

IsSearch(tx) == tx \in {"search", "searchFor"}

\* "refused" is any 4xx.  writeError makes a 500 of everything else: "failed"
\* goes back to the database, which is down or cannot read the request, or to a
\* search that found another entity than the request named; "astray" is the
\* latter if it would not have been so with the embedder; "internal" is the rest.
Answers == {"ok", "refused", "failed", "internal", "astray"}

\* held: its connections; todo: the transactions that are left, the current first;
\* missed: "nearest" if its search goes on by name, though the entity that it was
\* asked for is the nearest.
Answered(a) == [pc |-> "answered", held |-> 0, todo |-> <<>>, missed |-> "nothing", answer |-> a]

Active(r) == req[r].pc # "answered"

Free ==
  LET Holding(n) == Cardinality({r \in Requests : req[r].held = n})
  IN  MaxConns - Holding(1) - 2 * Holding(2)

-----------------------------------------------------------------------------
(* A request.                                                              *)

\* Where a handler stands that holds no connection and has `todo` left.
Pending(todo) ==
  IF todo = <<>> THEN Answered("ok")
  ELSE [pc |-> "begin", held |-> 0, todo |-> todo, missed |-> "nothing", answer |-> "ok"]

\* Token, body and, unless an entity is to be checked first, the fields of the
\* request are examined before anything is asked of the pool.
Arrive(r) ==
  /\ server = "serving"
  /\ ~Active(r)
  /\ \/ req' = [req EXCEPT ![r] = Answered("refused")]
     \/ \E kind \in DOMAIN Plans : req' = [req EXCEPT ![r] = Pending(Plans[kind])]
  /\ UNCHANGED server

\* TenantContext or tenantTx: waits for a connection without a deadline.
Acquire(r) ==
  /\ req[r].pc = "begin" /\ server \in {"serving", "draining"}
  /\ Free > 0
  /\ req' = [req EXCEPT ![r].held = 1,
                        ![r].pc   = IF IsSearch(Head(req[r].todo)) THEN "embed" ELSE "query"]
  /\ UNCHANGED server

Step(r, from, to, held) ==
  /\ req[r].pc = from
  /\ req' = [req EXCEPT ![r].pc = to, ![r].held = held]
  /\ UNCHANGED server

Answer(r, from, answer) ==
  /\ req[r].pc = from
  /\ req' = [req EXCEPT ![r] = Answered(answer)]
  /\ UNCHANGED server

\* The search goes on by name.  Whether the vectors would have led to the entity
\* that was asked for, nobody looks.
FallBack(r, from) ==
  /\ req[r].pc = from
  /\ \E missed \in {"nothing", "nearest"} :
       /\ missed = "nearest" => Head(req[r].todo) = "searchFor"
       /\ req' = [req EXCEPT ![r].pc = "ilike", ![r].held = 1, ![r].missed = missed]
  /\ UNCHANGED server

\* Mutant of EmbedFails: the error is returned.
EmbedFailsRequest(r) == Answer(r, "embed", "internal")

\* cosineSeed; no embedder, no query and an error of the embedder all lead to
\* the search by name.  The client sets no timeout, and that of the server
\* (WriteTimeout) does not end a handler.
Embed(r)      == Step(r, "embed", "nearest", 1)
EmbedFails(r) == FallBack(r, "embed")

\* Mutant of AcquireSecond: looks for a connection only after giving back the first.
AcquireInstead(r) == Step(r, "nearest", "nearest", 0)

\* SearchNearest runs on the pool.
AcquireSecond(r) == server \in {"serving", "draining"} /\ Free > 0 /\ Step(r, "nearest", "scan", 2)

\* It finds something near enough, or nothing, or fails.
Scan(r) == Step(r, "scan", "query", 1) \/ FallBack(r, "scan")

\* ilikeSeed, on the connection of the transaction, may find nothing; a query
\* with a NUL byte is an error.
SearchByName(r) ==
  \/ Step(r, "ilike", "query", 1)
  \/ Answer(r, "ilike", "refused")
  \/ Answer(r, "ilike", "failed")

\* Mutant of Finish: the connection of the ownership check is kept.
FinishHolding(r) ==
  [Pending(Tail(req[r].todo)) EXCEPT !.held = IF Head(req[r].todo) = "owner" THEN 1 ELSE 0]

\* The transaction is over and its connection back in the pool.
Finish(r) == Pending(Tail(req[r].todo))

\* The queries of a transaction, which is one of `txs`.
Query(r, txs) ==
  /\ req[r].pc = "query" /\ Head(req[r].todo) \in txs
  /\ req' = [req EXCEPT ![r] = Finish(r)]
  /\ UNCHANGED server

\* They give no answer that would let the request go on.
QueryIs(r, txs, answer) ==
  /\ req[r].pc = "query" /\ Head(req[r].todo) \in txs
  /\ Answer(r, "query", answer)

\* An entity of another tenant, or a request for a brief that lacks a field; an
\* id that uuid.Parse accepts and the database does not.
CheckOwner(r) ==
  Query(r, {"owner"}) \/ QueryIs(r, {"owner"}, "refused") \/ QueryIs(r, {"owner"}, "failed")

\* Unknown ids are not found, malformed ones are an error; and a brief is
\* refused for an id in capitals, since its bundle has it in small letters.
LoadBundle(r) ==
  Query(r, {"bundle"}) \/ QueryIs(r, {"bundle"}, "refused") \/ QueryIs(r, {"bundle"}, "failed")

\* A search has found where to begin; if that is not the entity asked for, the
\* brief is refused by ErrBundleEntityMismatch, which is no 4xx.
LoadStory(r) ==
  \/ Query(r, {"search", "searchFor"})
  \/ QueryIs(r, {"searchFor"}, IF req[r].missed = "nearest" THEN "astray" ELSE "failed")

InsertBrief(r) == Query(r, {"insert"})

\* No such brief, or a malformed id or limit.
ReadBriefs(r) ==
  Query(r, {"read"}) \/ QueryIs(r, {"read"}, "refused") \/ QueryIs(r, {"read"}, "failed")

\* A database error; in a search for the nearest it is not even noticed.
Fail(r) ==
  /\ req[r].pc \in {"begin", "query", "ilike"}
  /\ req' = [req EXCEPT ![r] = Answered("failed")]
  /\ UNCHANGED server

\* The client goes away: the context is cancelled, the call under way returns,
\* and the transaction is rolled back.
GiveUp(r) ==
  /\ Active(r)
  /\ req' = [req EXCEPT ![r] = Answered("ok")]
  /\ UNCHANGED server

-----------------------------------------------------------------------------
(* The process.                                                            *)

\* SIGTERM: requests under way may finish, for 30 seconds.
Terminate ==
  /\ server = "serving"
  /\ server' = "draining"
  /\ UNCHANGED req

\* Shutdown returns, because all is done or because time is up; pool.Close
\* lets nobody have a connection any more.
CloseDrained ==
  /\ server = "draining"
  /\ server' = "closing"
  /\ UNCHANGED req

AcquireClosed(r) ==
  /\ req[r].pc = "begin" /\ server = "closing" /\ Free > 0
  /\ req' = [req EXCEPT ![r] = Answered("internal")]
  /\ UNCHANGED server

\* SearchNearest fails likewise: the search goes on by name.
AcquireSecondClosed(r) == server = "closing" /\ Free > 0 /\ FallBack(r, "nearest")

\* pool.Close waits for the connections that are out; then the process ends.
Stop ==
  /\ server = "closing" /\ Free = MaxConns
  /\ server' = "stopped"
  /\ req' = [r \in Requests |-> Answered("ok")]

\* The Deployment starts it again.
Restart ==
  /\ server = "stopped"
  /\ server' = "serving"
  /\ UNCHANGED req

-----------------------------------------------------------------------------
Init ==
  /\ server = "serving"
  /\ req = [r \in Requests |-> Answered("ok")]

Handle(r) ==
  \/ Acquire(r) \/ AcquireSecond(r) \/ Scan(r)
  \/ SearchByName(r) \/ CheckOwner(r) \/ LoadBundle(r) \/ LoadStory(r)
  \/ InsertBrief(r) \/ ReadBriefs(r) \/ AcquireClosed(r) \/ AcquireSecondClosed(r)

Next ==
  \/ \E r \in Requests :
       Arrive(r) \/ Embed(r) \/ EmbedFails(r) \/ Handle(r) \/ Fail(r) \/ GiveUp(r)
  \/ Terminate \/ CloseDrained \/ Stop \/ Restart

Spec == Init /\ [][Next]_vars

\* A handler that has what it waits for goes on, and the pool serves those who wait
\* in turn; Shutdown returns and Close ends.  Clients need not ever give up, and the
\* embedder need not ever answer.
Fairness ==
  /\ \A r \in Requests : SF_vars(Handle(r))
  /\ WF_vars(CloseDrained) /\ WF_vars(Stop)

FairSpec == Spec /\ Fairness

-----------------------------------------------------------------------------
(* What correct service guarantees.                                        *)

\* No connection is lost: whoever has answered, given up or failed holds none,
\* only a search ever holds two, the pool is never overdrawn, and the process
\* ends without leaving a transaction open (withTenantTx, service.go:144).
PoolSound ==
  /\ server \in {"serving", "draining", "closing", "stopped"}
  /\ Free \in 0..MaxConns
  /\ \A r \in Requests :
       /\ req[r].answer \in Answers
       /\ req[r].held = CASE req[r].pc \in {"answered", "begin"} -> 0
                          [] req[r].pc = "scan" -> 2
                          [] OTHER -> 1
       /\ req[r].held > 0 => server # "stopped"
       /\ req[r].held = 2 => IsSearch(Head(req[r].todo))

\* "A down embedder must never 500 callers" (service.go:167): until the pool
\* is closed, no error of the embedder or of the search for the nearest is answered
\* with an internal error, whatever else happens to the request.  The code does not
\* quite keep the promise: who names an entity and is led to another one because
\* his search went on by name is answered "astray" (briefs.go:357).
SearchFallsBack ==
  server # "closing" => \A r \in Requests : req[r].answer # "internal"

\* Every connection is held by a search that waits for the embedder or for a
\* second connection.
HeldUp == Cardinality({r \in Requests : req[r].pc \in {"embed", "nearest"}}) >= MaxConns

\* Every request is answered although nobody gives up, unless the embedder never
\* answers it (client.go:26) or, from some time on, searches that wait hold the
\* whole pool (MaxConns, conn.go:23, against service.go:175); a terminated process
\* ends, unless one search waits forever.  A hung embedder alone holds up nobody
\* else while the pool has a connection to spare.
EveryRequestAnswered ==
  /\ \A r \in Watched :
       Active(r) ~> ~Active(r) \/ [](req[r].pc = "embed") \/ []HeldUp
  /\ server = "draining" ~>
       server = "stopped" \/ \E r \in Requests : [](req[r].pc \in {"embed", "nearest"})

-----------------------------------------------------------------------------
(* Why the safety properties hold: an inductive invariant.                 *)

Transactions == {"bundle", "search", "searchFor", "read", "owner", "insert"}

Request == [pc     : {"answered", "begin", "embed", "nearest", "scan", "ilike", "query"},
            held   : 0..2,
            todo   : Seq(Transactions),
            missed : {"nothing", "nearest"},
            answer : Answers]

\* A handler at work has a transaction to do, and a seed is looked up in none
\* but a search.
OnTask(r) ==
  /\ Active(r) => req[r].todo # <<>>
  /\ req[r].pc \in {"embed", "nearest", "scan", "ilike"} => IsSearch(Head(req[r].todo))

\* The inductive invariant.
RequestInv ==
  /\ PoolSound
  /\ req \in [Requests -> Request]
  /\ SearchFallsBack
  /\ \A r \in Requests : OnTask(r)
=============================================================================
