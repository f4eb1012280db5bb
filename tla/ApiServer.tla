------------------------------- MODULE ApiServer --------------------------------
(***************************************************************************)
(* The API servers under the load of a lane: ApiServer.java with platform  *)
(* or virtual threads, SpringApiServer.java, VertxApiServer.java, the Go   *)
(* server (benchmarks/go/cmd/api/main.go) and PerfApi/Program.cs.  Their   *)
(* handlers compete for threads, database and Redis connections, and the   *)
(* fanout handler calls its own server three times.                        *)
(*                                                                         *)
(* A server is started for one lane and sees requests of one kind.  The    *)
(* clients are the goroutines of the load generator: each waits for its    *)
(* answer, or gives up after its timeout while the handler goes on.        *)
(*                                                                         *)
(* Abstracted: the endpoints that only compute are one kind, "static";     *)
(* requests are well formed and look up one order; hasDb and exists are    *)
(* FALSE where they do not matter; a pool is the set of requests that hold *)
(* a connection of it (RedisPool has the detail), and the pools of pgx and *)
(* Npgsql are such pools that can also refuse.                             *)
(***************************************************************************)
EXTENDS Naturals, FiniteSets

CONSTANTS
  Clients,      (* concurrency of the load                                 *)
  MaxRequests,  (* bound: requests of all clients                          *)
  MaxGiveUps,   (* bound: requests whose client gives up                   *)
  Threads,      (* size of the thread pool, at least 256                   *)
  Calls,        (* downstream calls of a fanout: 3                         *)
  DbSize,       (* connections to Postgres                                 *)
  RedisSize     (* connections to Redis                                    *)

\* The lanes have at most 128 clients, half the threads.
ASSUME LoadAssumption ==
  /\ IsFiniteSet(Clients) /\ MaxRequests \in Nat /\ MaxGiveUps \in Nat
  /\ Threads \in Nat /\ Cardinality(Clients) + MaxGiveUps < Threads
  /\ Calls \in Nat /\ DbSize \in Nat \ {0} /\ RedisSize \in Nat \ {0}

Servers == {"java", "virtual", "spring", "vertx", "go", "dotnet"}
DbKinds == {"lookup", "page", "write"}
Kinds == DbKinds \cup {"static", "fanout", "cache"}
Requests == 1 .. MaxRequests

VARIABLES
  server, kind, hasDb,  (* the server, the lane, is PERFBENCH_DB set?      *)
  exists, cached,       (* the order in Postgres; its key in Redis         *)
  sent, giveUps,        (* requests sent and given up so far               *)
  current,              (* the request each client waits for, or 0         *)
  phase, status,        (* of each request: where it is, its HTTP answer   *)
  calls, running,       (* downstream calls not yet started, and running   *)
  spoiled,              (* requests for which a call, Postgres or Redis failed *)
  db, redis,            (* requests that hold a connection                 *)
  inserted              (* requests that added a row to order_writes       *)

config == <<server, kind, hasDb, exists>>
clients == <<sent, giveUps, current>>
fanouts == <<calls, running, spoiled>>
vars == <<config, cached, clients, phase, status, fanouts, db, redis, inserted>>

Init ==
  /\ server \in Servers /\ kind \in Kinds
  /\ hasDb \in BOOLEAN /\ exists \in BOOLEAN
  /\ kind \in {"static", "fanout"} => ~hasDb /\ ~exists
  /\ cached \in {FALSE, exists}
  /\ sent = 0 /\ giveUps = 0 /\ current = [c \in Clients |-> 0]
  /\ phase = [q \in Requests |-> "unsent"] /\ status = [q \in Requests |-> "none"]
  /\ calls = [q \in Requests |-> 0] /\ running = [q \in Requests |-> 0]
  /\ spoiled = {} /\ db = {} /\ redis = {} /\ inserted = {}

--------------------------------------------------------------------------------
(* Threads *)

\* ApiServer and Spring keep a thread of their pool for the whole exchange, and
\* for a downstream call; Vert.x a worker for executeBlocking alone.  Virtual
\* threads, goroutines and async methods are not limited.
Pooled == server \in {"java", "spring"}
Blocking == {"wantDb", "query", "wantGet", "get", "wantSet", "set"}

OnThread(q) ==
  \/ Pooled /\ phase[q] \in Blocking \cup {"join", "reply", "finish"}
  \/ server = "vertx" /\ phase[q] \in Blocking

Busy ==
  LET accepted == {x \in Requests \X (1 .. Calls) : Pooled /\ x[2] <= running[x[1]]}
  IN Cardinality({q \in Requests : OnThread(q)}) + Cardinality(accepted)

NeedsThread ==
  \/ Pooled
  \/ server = "vertx" /\ (kind = "cache" \/ (kind \in DbKinds /\ hasDb))

--------------------------------------------------------------------------------
(* The clients *)

Waiting == {c \in Clients : current[c] # 0}

\* Mutant: a client of the load sends its next request before the answer.
SendWithoutWaiting(c) ==
  /\ sent < MaxRequests
  /\ sent' = sent + 1
  /\ current' = [current EXCEPT ![c] = sent + 1]
  /\ phase' = [phase EXCEPT ![sent + 1] = "queued"]
  /\ UNCHANGED <<config, cached, giveUps, status, fanouts, db, redis, inserted>>

Send(c) ==
  /\ c \notin Waiting /\ sent < MaxRequests
  /\ sent' = sent + 1
  /\ current' = [current EXCEPT ![c] = sent + 1]
  /\ phase' = [phase EXCEPT ![sent + 1] = "queued"]
  /\ UNCHANGED <<config, cached, giveUps, status, fanouts, db, redis, inserted>>

Receive(c) ==
  /\ c \in Waiting /\ phase[current[c]] \in {"finish", "done"}
  /\ current' = [current EXCEPT ![c] = 0]
  /\ UNCHANGED <<config, cached, sent, giveUps, phase, status, fanouts, db, redis, inserted>>

\* http.Client's 10 seconds are over.  No server stops the handler for it; Go and
\* .NET cancel what it waits for: DbRefuses, QueryFails, RedisRefuses.
GiveUp(c) ==
  /\ c \in Waiting /\ giveUps < MaxGiveUps
  /\ giveUps' = giveUps + 1
  /\ current' = [current EXCEPT ![c] = 0]
  /\ UNCHANGED <<config, cached, sent, phase, status, fanouts, db, redis, inserted>>

--------------------------------------------------------------------------------
(* A handler *)

Goto(q, from, to) == phase[q] = from /\ phase' = [phase EXCEPT ![q] = to]
Decide(q, s) == status' = [status EXCEPT ![q] = s]
Continue(q, from, to) == Goto(q, from, to) /\ UNCHANGED status
Answer(q, from, s) == Goto(q, from, "reply") /\ Decide(q, s)

Start(q) ==
  /\ NeedsThread => Busy < Threads
  /\ CASE kind = "static" -> Answer(q, "queued", "ok")
       [] kind = "fanout" -> Continue(q, "queued", "join")
       [] kind = "cache" -> Continue(q, "queued", "wantGet")
       [] kind \in DbKinds /\ hasDb -> Continue(q, "queued", "wantDb")
       [] OTHER -> Answer(q, "queued", "unavailable")
  /\ calls' = IF kind = "fanout" THEN [calls EXCEPT ![q] = Calls] ELSE calls
  /\ UNCHANGED <<config, cached, clients, running, spoiled, db, redis, inserted>>

\* Mutant: a call that has been started is sent once more.
StartCallAgain(q) ==
  /\ calls[q] > 0
  /\ Pooled => Busy < Threads
  /\ running' = [running EXCEPT ![q] = @ + 1]
  /\ UNCHANGED <<config, cached, clients, phase, status, calls, spoiled, db, redis, inserted>>

\* The server accepts one of its own calls as any other request.
StartCall(q) ==
  /\ calls[q] > 0
  /\ Pooled => Busy < Threads
  /\ calls' = [calls EXCEPT ![q] = @ - 1]
  /\ running' = [running EXCEPT ![q] = @ + 1]
  /\ UNCHANGED <<config, cached, clients, phase, status, spoiled, db, redis, inserted>>

EndCall(q) ==
  /\ running[q] > 0
  /\ running' = [running EXCEPT ![q] = @ - 1]
  /\ spoiled' \in {spoiled, spoiled \cup {q}}
  /\ UNCHANGED <<config, cached, clients, phase, status, calls, db, redis, inserted>>

\* Mutant: the failures of the calls are not consulted.
FanoutComplete(q) == {"ok"}

\* An exception of a call ends the handler, except in Go, which counts it; the
\* others but .NET count a call that was answered with an error status.
FanoutStatus(q) ==
  IF q \notin spoiled THEN {"ok"}
  ELSE CASE server = "go" -> {"incomplete"}
         [] server = "dotnet" -> {"error"}
         [] OTHER -> {"error", "incomplete"}

\* join, Task.WhenAll and wg.Wait wait for all the calls, Future.all of Vert.x
\* until one has failed.
Join(q) ==
  /\ \/ calls[q] + running[q] = 0 /\ \E s \in FanoutStatus(q) : Answer(q, "join", s)
     \/ server = "vertx" /\ q \in spoiled /\ Answer(q, "join", "error")
  /\ UNCHANGED <<config, cached, clients, fanouts, db, redis, inserted>>

\* Something that this request has called fails.
Spoil(q) == spoiled' = spoiled \cup {q} /\ UNCHANGED <<calls, running>>

BorrowDb(q) ==
  /\ Cardinality(db) < DbSize
  /\ db' = db \cup {q}
  /\ Continue(q, "wantDb", "query")
  /\ UNCHANGED <<config, cached, clients, fanouts, redis, inserted>>

\* Go answers 404 to every error of QueryRow.
DbFailure == IF server = "go" /\ kind \in {"lookup", "cache"} THEN "notFound" ELSE "error"

DbRefuses(q) ==
  /\ server \in {"go", "dotnet"}
  /\ Answer(q, "wantDb", DbFailure)
  /\ Spoil(q)
  /\ UNCHANGED <<config, cached, clients, db, redis, inserted>>

\* ApiServer.java throws an SQLException for an order that a cache request misses.
DbMissing == IF server \in {"java", "virtual"} /\ kind = "cache" THEN "error" ELSE "notFound"

\* The connection goes back when the try block or the scope ends, and some
\* handlers write their answer inside it.
HeldInReply(s) ==
  \/ server = "dotnet" /\ s = "ok"
  \/ server \in {"java", "virtual"} /\ kind \in {"lookup", "write"} /\ s # "error"

DbAfter(q, s) == db' = IF HeldInReply(s) THEN db ELSE db \ {q}

\* Mutant: a query that fails is tried again, as often as it takes.
QueryRetried(q) ==
  /\ Continue(q, "query", "wantDb")
  /\ db' = db \ {q}
  /\ UNCHANGED <<config, cached, clients, fanouts, redis, inserted>>

\* A failed insert may have added its row.
QueryFails(q) ==
  /\ Answer(q, "query", DbFailure)
  /\ DbAfter(q, "error")
  /\ inserted' \in {inserted} \cup (IF kind = "write" THEN {inserted \cup {q}} ELSE {})
  /\ Spoil(q)
  /\ UNCHANGED <<config, cached, clients, redis>>

\* Go's loop over the rows of a page ends when a row cannot be had, as when there are no
\* more, and the handler does not ask rows.Err which of the two it was.
PageCutShort(q) ==
  /\ server = "go" /\ kind = "page"
  /\ Answer(q, "query", "ok")
  /\ DbAfter(q, "ok")
  /\ Spoil(q)
  /\ UNCHANGED <<config, cached, clients, redis, inserted>>

QueryMisses(q) ==
  /\ kind \in {"lookup", "cache"} /\ ~exists
  /\ Answer(q, "query", DbMissing)
  /\ DbAfter(q, DbMissing)
  /\ UNCHANGED <<config, cached, clients, fanouts, redis, inserted>>

QuerySucceeds(q) ==
  /\ kind \in DbKinds /\ (kind = "lookup" => exists)
  /\ Answer(q, "query", "ok")
  /\ DbAfter(q, "ok")
  /\ inserted' = IF kind = "write" THEN inserted \cup {q} ELSE inserted
  /\ UNCHANGED <<config, cached, clients, fanouts, redis>>

\* The order a cache request has found: Spring and .NET keep the connection to
\* Postgres while they wait for one to Redis.
QueryFinds(q) ==
  /\ kind = "cache" /\ exists
  /\ Continue(q, "query", "wantSet")
  /\ db' = IF server \in {"spring", "dotnet"} THEN db ELSE db \ {q}
  /\ UNCHANGED <<config, cached, clients, fanouts, redis, inserted>>

BorrowRedis(q, command) ==
  /\ Cardinality(redis) < RedisSize
  /\ redis' = redis \cup {q}
  /\ \/ command = "get" /\ Continue(q, "wantGet", "get")
     \/ command = "set" /\ Continue(q, "wantSet", "set")
  /\ UNCHANGED <<config, cached, clients, fanouts, db, inserted>>

RedisRefuses(q) ==
  /\ server = "dotnet"
  /\ \E from \in {"wantGet", "wantSet"} : Answer(q, from, "error")
  /\ DbAfter(q, "error")
  /\ Spoil(q)
  /\ UNCHANGED <<config, cached, clients, redis, inserted>>

\* A miss goes to Postgres; in Go an error of Redis does so as well.
Miss(q) == IF hasDb THEN Continue(q, "get", "wantDb") ELSE Answer(q, "get", "notFound")

Get(q) ==
  /\ redis' = redis \ {q}
  /\ \/ cached /\ Answer(q, "get", "ok") /\ UNCHANGED fanouts
     \/ ~cached /\ Miss(q) /\ UNCHANGED fanouts
     \/ server = "go" /\ Miss(q) /\ Spoil(q)
     \/ server # "go" /\ Answer(q, "get", "error") /\ Spoil(q)
  /\ UNCHANGED <<config, cached, clients, db, inserted>>

\* Go ignores an error of set; a set that failed may have been carried out.
Set(q) ==
  /\ redis' = redis \ {q}
  /\ \/ cached' = TRUE /\ Answer(q, "set", "ok") /\ DbAfter(q, "ok") /\ UNCHANGED fanouts
     \/ /\ cached' \in {cached, TRUE} /\ Spoil(q)
        /\ LET s == IF server = "go" THEN "ok" ELSE "error" IN
           Answer(q, "set", s) /\ DbAfter(q, s)
  /\ UNCHANGED <<config, clients, inserted>>

\* The client can see the answer before the handler has returned.
Reply(q) ==
  /\ Continue(q, "reply", "finish")
  /\ UNCHANGED <<config, cached, clients, fanouts, db, redis, inserted>>

\* Mutant: a handler that answers inside its scope never releases the connection.
FinishWithoutRelease(q) ==
  /\ Continue(q, "finish", "done")
  /\ UNCHANGED <<config, cached, clients, fanouts, db, redis, inserted>>

Finish(q) ==
  /\ Continue(q, "finish", "done")
  /\ db' = db \ {q}
  /\ UNCHANGED <<config, cached, clients, fanouts, redis, inserted>>

HandlerStep(q) ==
  \/ Start(q)
  \/ StartCall(q)
  \/ EndCall(q)
  \/ Join(q)
  \/ BorrowDb(q)
  \/ DbRefuses(q)
  \/ QueryFails(q)
  \/ PageCutShort(q)
  \/ QueryMisses(q)
  \/ QuerySucceeds(q)
  \/ QueryFinds(q)
  \/ \E command \in {"get", "set"} : BorrowRedis(q, command)
  \/ RedisRefuses(q)
  \/ Get(q)
  \/ Set(q)
  \/ Reply(q)
  \/ Finish(q)

HandlersStep == \E q \in Requests : HandlerStep(q)

LoadOver ==
  /\ sent = MaxRequests /\ Waiting = {}
  /\ \A q \in Requests : phase[q] = "done" /\ calls[q] + running[q] = 0
  /\ UNCHANGED vars

Next ==
  \/ \E c \in Clients : Send(c) \/ Receive(c) \/ GiveUp(c)
  \/ HandlersStep
  \/ LoadOver

Spec == Init /\ [][Next]_vars

\* Some handler that can go on does: Postgres and Redis answer or fail.  Nothing is
\* assumed of the order, because a handler has finitely many steps.
FairSpec == Spec /\ WF_vars(HandlersStep)

--------------------------------------------------------------------------------
(* Properties *)

TypeOK ==
  /\ server \in Servers /\ kind \in Kinds
  /\ {hasDb, exists, cached} \subseteq BOOLEAN
  /\ sent \in 0 .. MaxRequests /\ giveUps \in 0 .. MaxGiveUps
  /\ current \in [Clients -> 0 .. MaxRequests]
  /\ phase \in [Requests -> Blocking \cup {"unsent", "queued", "join", "reply", "finish", "done"}]
  /\ status \in [Requests -> {"none", "ok", "notFound", "unavailable", "incomplete", "error"}]
  /\ calls \in [Requests -> 0 .. Calls] /\ running \in [Requests -> 0 .. Calls]
  /\ {spoiled, db, redis, inserted} \subseteq SUBSET Requests

\* On no path does a handler keep what it has borrowed: a request that is over
\* holds nothing, one that waits for Redis to get, or for Postgres, holds nothing
\* either, and the pools hand out no more than they have (the release calls, the
\* finally clauses, await using).
NothingLeaks ==
  /\ \A q \in db : phase[q] \in {"query", "wantSet", "set", "reply", "finish"}
  /\ \A q \in redis : phase[q] \in {"get", "set"}
  /\ \A q \in Requests : phase[q] = "wantSet" /\ q \in db => server \in {"spring", "dotnet"}
  /\ Cardinality(db) <= DbSize /\ Cardinality(redis) <= RedisSize /\ Busy <= Threads

\* The fanouts that wait for their calls never occupy every thread of the pool,
\* so a call always finds one in the end.  It takes less load than threads: each
\* of them belongs to a client that waits or has given up (fanout, setExecutor).
Unstarved ==
  LET blocked == {q \in Requests : phase[q] = "join"} IN
  /\ Cardinality(blocked) <= Cardinality(Waiting) + giveUps
  /\ Pooled => Cardinality(blocked) < Threads

\* An answer says what has happened, although failures are handled in many places: 200
\* is for an order that is there, an insert that has been made, calls that are over; 404
\* for an order that is not there, or where there is nothing to ask; an error for a
\* failure.  A failure behind a 200 is only one of Go's cache, which has asked Postgres
\* instead, or of its page, and one behind a 404 only Go's.
AnswersHonest ==
  \A q \in Requests :
    /\ status[q] = "ok" =>
         /\ kind \in {"lookup", "cache"} => exists
         /\ kind = "write" => q \in inserted
         /\ kind = "fanout" => calls[q] + running[q] = 0
         /\ q \in spoiled => server = "go" /\ kind \in {"cache", "page"}
    /\ status[q] = "notFound" =>
         ~exists \/ (kind = "cache" /\ ~hasDb) \/ (server = "go" /\ q \in spoiled)
    /\ status[q] \in {"error", "incomplete"} =>
         q \in spoiled \/ (kind = "cache" /\ ~exists /\ server \in {"java", "virtual"})
    /\ cached => exists

\* Every request is answered and its handler ends: no order of borrowing makes
\* handlers wait for each other, although some hold one resource and want another.
AllAnswered == \A q \in Requests : phase[q] = "queued" ~> phase[q] = "done"

===============================================================================
