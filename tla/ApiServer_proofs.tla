---------------------------- MODULE ApiServer_proofs ----------------------------
(***************************************************************************)
(* Proofs about ApiServer, for any finite set of clients, any number of    *)
(* requests and of calls of a fanout, and pools of any size: no connection *)
(* or thread leaks, the fanouts leave a thread for their calls, and an     *)
(* answer says what has happened.                                          *)
(***************************************************************************)
EXTENDS ApiServer, FiniteSetTheorems, TLAPS

(***************************************************************************)
(* The inductive invariant                                                 *)
(***************************************************************************)

\* Which phases a request of a kind goes through, and what has happened by then.
PhasesInStep ==
  \A q \in Requests :
    /\ q > sent => phase[q] = "unsent"
    /\ phase[q] \in {"unsent", "queued"} =>
         status[q] = "none" /\ calls[q] = 0 /\ running[q] = 0 /\ q \notin spoiled
    /\ calls[q] + running[q] <= Calls
    /\ calls[q] + running[q] > 0 => kind = "fanout"
    /\ phase[q] \in Blocking /\ q \in spoiled => server = "go" /\ kind = "cache"
    /\ phase[q] = "join" => kind = "fanout"
    /\ phase[q] \in {"wantDb", "query"} => kind \in DbKinds \cup {"cache"}
    /\ phase[q] \in {"wantGet", "get", "wantSet", "set"} => kind = "cache"
    /\ phase[q] \in {"wantSet", "set"} => exists

\* The requests that have not been answered although no client waits for them.
Pending == {q \in Requests : phase[q] \notin {"unsent", "finish", "done"}}
Abandoned == {q \in Pending : \A c \in Clients : current[c] # q}

\* There are no more of them than clients have given up.
ClientsInStep == Cardinality(Abandoned) <= giveUps

IInv ==
  /\ TypeOK
  /\ PhasesInStep
  /\ NothingLeaks
  /\ ClientsInStep
  /\ AnswersHonest

--------------------------------------------------------------------------------
(* What the steps of a handler have in common *)

Phases == Blocking \cup {"unsent", "queued", "join", "reply", "finish", "done"}
Statuses == {"none", "ok", "notFound", "unavailable", "incomplete", "error"}

\* An answer, or a step without one, moves one request.
LEMMA RequestMoves ==
  ASSUME TypeOK, NEW q \in Requests, NEW from, NEW to \in Phases, NEW s \in Statuses,
         Continue(q, from, to) \/ (to = "reply" /\ Answer(q, from, s))
  PROVE  /\ phase[q] = from /\ phase'[q] = to
         /\ phase' \in [Requests -> Phases] /\ status' \in [Requests -> Statuses]
         /\ \A p \in Requests : p # q => phase'[p] = phase[p] /\ status'[p] = status[p]
         /\ status'[q] \in {s, status[q]}
         /\ (~Answer(q, from, s) => status' = status)
BY DEF TypeOK, Continue, Answer, Goto, Decide, Phases, Statuses

\* The choices of the servers are statuses.
LEMMA StatusTypes ==
  /\ DbFailure \in {"notFound", "error"} /\ DbMissing \in {"notFound", "error"}
  /\ \A q \in Requests : FanoutStatus(q) \subseteq {"ok", "incomplete", "error"}
  /\ \A q \in Requests : \A s \in FanoutStatus(q) : s = "ok" <=> q \notin spoiled
<1>1. DbFailure \in {"notFound", "error"} /\ DbMissing \in {"notFound", "error"}
  BY DEF DbFailure, DbMissing
<1>2. ASSUME NEW q \in Requests
      PROVE  /\ FanoutStatus(q) \subseteq {"ok", "incomplete", "error"}
             /\ \A s \in FanoutStatus(q) : s = "ok" <=> q \notin spoiled
  <2>1. CASE q \notin spoiled
    BY <2>1 DEF FanoutStatus
  <2>2. CASE q \in spoiled
    BY <2>2 DEF FanoutStatus
  <2> QED
    BY <2>1, <2>2
<1> QED
  BY <1>1, <1>2

\* The steps that answer or go on, by where they come from and lead to, with what
\* they do to the connections.  Start and the calls of a fanout are apart.
Moves(q) ==
  \/ \E s \in Statuses : Answer(q, "join", s) /\ UNCHANGED <<db, redis>>
  \/ Continue(q, "wantDb", "query") /\ db' = db \cup {q} /\ Cardinality(db) < DbSize /\ UNCHANGED redis
  \/ \E s \in Statuses : Answer(q, "wantDb", s) /\ UNCHANGED <<db, redis>>
  \/ \E s \in Statuses : Answer(q, "query", s) /\ db' \in {db, db \ {q}} /\ UNCHANGED redis
  \/ /\ kind = "cache" /\ exists /\ Continue(q, "query", "wantSet") /\ UNCHANGED redis
     /\ db' = IF server \in {"spring", "dotnet"} THEN db ELSE db \ {q}
  \/ /\ Continue(q, "wantGet", "get") \/ Continue(q, "wantSet", "set")
     /\ redis' = redis \cup {q} /\ Cardinality(redis) < RedisSize /\ UNCHANGED db
  \/ /\ \E s \in Statuses, from \in {"wantGet", "wantSet"} : Answer(q, from, s)
     /\ db' \in {db, db \ {q}} /\ UNCHANGED redis
  \/ /\ Continue(q, "get", "wantDb") \/ \E s \in Statuses : Answer(q, "get", s)
     /\ redis' = redis \ {q} /\ UNCHANGED db
  \/ /\ \E s \in Statuses : Answer(q, "set", s)
     /\ redis' = redis \ {q} /\ db' \in {db, db \ {q}}
  \/ Continue(q, "reply", "finish") /\ UNCHANGED <<db, redis>>
  \/ Continue(q, "finish", "done") /\ db' = db \ {q} /\ UNCHANGED redis

\* A failure ends a handler, except in Go's cache.
Spoils(q) ==
  \/ spoiled' = spoiled
  \/ /\ spoiled' = spoiled \cup {q}
     /\ phase'[q] = "reply" \/ (server = "go" /\ phase[q] = "get")

LEMMA HandlerMoves ==
  ASSUME TypeOK, NEW q \in Requests, HandlerStep(q)
  PROVE  \/ Start(q) \/ StartCall(q) \/ EndCall(q)
         \/ Moves(q) /\ Spoils(q) /\ UNCHANGED <<config, clients, calls, running>>
             /\ cached' \in BOOLEAN /\ inserted' \in {inserted, inserted \cup {q}}
<1> USE StatusTypes DEF Statuses
<1>0. "ok" \in Statuses /\ "error" \in Statuses /\ "notFound" \in Statuses /\ DbFailure \in Statuses
      /\ DbMissing \in Statuses /\ cached \in BOOLEAN /\ TRUE \in BOOLEAN
  BY DEF TypeOK
<1> HIDE StatusTypes DEF Statuses
<1>r. \A from, s : Answer(q, from, s) => phase'[q] = "reply"
  BY DEF TypeOK, Answer, Goto
<1>s. UNCHANGED fanouts => Spoils(q) /\ UNCHANGED <<calls, running>>
  BY DEF Spoils, fanouts
<1>x. \A from, s : Answer(q, from, s) /\ Spoil(q) => Spoils(q) /\ UNCHANGED <<calls, running>>
  BY <1>r DEF Spoils, Spoil
<1>d. \A s : DbAfter(q, s) => db' \in {db, db \ {q}}
  BY DEF DbAfter
<1>1. CASE Join(q)
  BY <1>1, <1>0, <1>s, StatusTypes DEF Join, Moves, Statuses
<1>2. CASE BorrowDb(q)
  BY <1>2, <1>0, <1>s DEF BorrowDb, Moves
<1>3. CASE DbRefuses(q)
  BY <1>3, <1>0, <1>x DEF DbRefuses, Moves
<1>4. CASE QueryFails(q)
  <2>1. inserted' \in {inserted, inserted \cup {q}}
    BY <1>4 DEF QueryFails
  <2> QED
    BY <1>4, <1>0, <1>d, <1>x, <2>1 DEF QueryFails, Moves
<1>5. CASE QueryMisses(q)
  BY <1>5, <1>0, <1>d, <1>s DEF QueryMisses, Moves
<1>6. CASE QuerySucceeds(q)
  BY <1>6, <1>0, <1>d, <1>s DEF QuerySucceeds, Moves
<1>7. CASE QueryFinds(q)
  BY <1>7, <1>0, <1>s DEF QueryFinds, Moves
<1>8. CASE \E command \in {"get", "set"} : BorrowRedis(q, command)
  BY <1>8, <1>0, <1>s DEF BorrowRedis, Moves
<1>9. CASE RedisRefuses(q)
  BY <1>9, <1>0, <1>d, <1>x DEF RedisRefuses, Moves
<1>10. CASE Get(q)
  <2>1. Continue(q, "get", "wantDb") \/ \E s \in Statuses : Answer(q, "get", s)
    BY <1>10, <1>0 DEF Get, Miss
  <2>2. Spoils(q) /\ UNCHANGED <<calls, running>>
    <3>1. CASE UNCHANGED fanouts
      BY <3>1, <1>s
    <3>2. CASE server = "go" /\ Miss(q) /\ Spoil(q)
      BY <1>x, <3>2 DEF Miss, Spoil, Spoils, Continue, Goto
    <3>3. CASE Answer(q, "get", "error") /\ Spoil(q)
      BY <1>x, <3>3
    <3> QED
      BY <1>10, <3>1, <3>2, <3>3 DEF Get
  <2> QED
    BY <1>10, <1>0, <2>1, <2>2 DEF Get, Moves
<1>11. CASE Set(q)
  <2>1. PICK s \in Statuses : /\ Answer(q, "set", s) /\ DbAfter(q, s) /\ cached' \in BOOLEAN
                              /\ Spoil(q) \/ UNCHANGED fanouts
    BY <1>11, <1>0 DEF Set
  <2>2. Spoils(q) /\ UNCHANGED <<calls, running>>
    BY <1>s, <1>x, <2>1
  <2> QED
    BY <1>11, <1>0, <1>d, <2>1, <2>2 DEF Set, Moves
<1>12. CASE Reply(q)
  BY <1>12, <1>0, <1>s DEF Reply, Moves
<1>13. CASE Finish(q)
  BY <1>13, <1>0, <1>s DEF Finish, Moves
<1>14. CASE PageCutShort(q)
  BY <1>14, <1>0, <1>d, <1>x DEF PageCutShort, Moves
<1> QED
  BY <1>1, <1>2, <1>3, <1>4, <1>5, <1>6, <1>7, <1>8, <1>9, <1>10, <1>11, <1>12, <1>13, <1>14 DEF HandlerStep

\* What a request begins with: its answer, or the first resource its kind needs.
LEMMA StartMoves ==
  ASSUME TypeOK, NEW q \in Requests, Start(q)
  PROVE  /\ NeedsThread => Busy < Threads
         /\ \/ kind = "static" /\ Answer(q, "queued", "ok")
            \/ kind = "fanout" /\ Continue(q, "queued", "join")
            \/ kind = "cache" /\ Continue(q, "queued", "wantGet")
            \/ kind \in DbKinds /\ hasDb /\ Continue(q, "queued", "wantDb")
            \/ kind \in DbKinds /\ Answer(q, "queued", "unavailable")
         /\ calls' = IF kind = "fanout" THEN [calls EXCEPT ![q] = Calls] ELSE calls
         /\ UNCHANGED <<config, cached, clients, running, spoiled, db, redis, inserted>>
<1>1. CASE kind = "static"
  BY <1>1 DEF Start, DbKinds
<1>2. CASE kind = "fanout"
  BY <1>2 DEF Start, DbKinds
<1>3. CASE kind = "cache"
  BY <1>3 DEF Start, DbKinds
<1>4. CASE kind \in DbKinds
  <2>1. CASE hasDb
    BY <1>4, <2>1 DEF Start, DbKinds
  <2>2. CASE ~hasDb
    BY <1>4, <2>2 DEF Start, DbKinds
  <2> QED
    BY <2>1, <2>2
<1> QED
  BY <1>1, <1>2, <1>3, <1>4 DEF TypeOK, Kinds

\* Where a request can be before and after a step of its handler, and whose state the
\* step changes.
LEMMA PhaseMoves ==
  ASSUME TypeOK, NEW q \in Requests, Start(q) \/ Moves(q)
  PROVE  /\ phase' \in [Requests -> Phases] /\ status' \in [Requests -> Statuses]
         /\ \A p \in Requests : p # q => phase'[p] = phase[p] /\ status'[p] = status[p]
         /\ phase[q] \notin {"unsent", "done"} /\ phase'[q] \notin {"unsent", "queued"}
         /\ phase'[q] \in {"join"} => kind = "fanout"
         /\ phase'[q] \in {"wantDb", "query"} =>
              kind \in DbKinds \/ phase[q] \in {"get", "wantDb"}
         /\ phase'[q] \in {"wantGet", "get"} => kind = "cache" \/ phase[q] = "wantGet"
         /\ phase'[q] \in {"wantSet", "set"} => phase[q] = "wantSet" \/ (kind = "cache" /\ exists)
         /\ phase[q] = "finish" => phase'[q] = "done"
         /\ Moves(q) => /\ phase[q] # "queued"
                        /\ phase'[q] \in Blocking => phase[q] \in Blocking
<1> DEFINE P == {"queued", "reply", "join", "wantGet", "wantDb", "query", "get", "wantSet", "set", "finish", "done"}
<1>0. P \subseteq Phases /\ "none" \in Statuses
  BY DEF Phases, Blocking, Statuses
<1>a. ASSUME NEW from, NEW s \in Statuses, Answer(q, from, s)
      PROVE  /\ phase' \in [Requests -> Phases] /\ status' \in [Requests -> Statuses]
             /\ \A p \in Requests : p # q => phase'[p] = phase[p] /\ status'[p] = status[p]
             /\ phase[q] = from /\ phase'[q] = "reply"
  BY <1>a, <1>0, RequestMoves
<1>b. ASSUME NEW from, NEW to \in P, Continue(q, from, to)
      PROVE  /\ phase' \in [Requests -> Phases] /\ status' \in [Requests -> Statuses]
             /\ \A p \in Requests : p # q => phase'[p] = phase[p] /\ status'[p] = status[p]
             /\ phase[q] = from /\ phase'[q] = to
  BY <1>b, <1>0, RequestMoves
<1>1. CASE Start(q)
  <2>1. "ok" \in Statuses /\ "unavailable" \in Statuses
    BY DEF Statuses
  <2>2. phase[q] = "queued"
    BY <1>1, <1>a, <1>b, <2>1, StartMoves
  <2>3. ~Moves(q)
    BY <1>a, <1>b, <2>2 DEF Moves
  <2> QED
    BY <1>1, <1>a, <1>b, <2>1, <2>3, StartMoves
<1>2. CASE Moves(q)
  BY <1>2, <1>a, <1>b DEF Moves, Blocking
<1> QED
  BY <1>1, <1>2

--------------------------------------------------------------------------------
(* Each conjunct is kept by each step *)

\* Every step keeps every variable in its type.
LEMMA TypeStep == TypeOK /\ PhasesInStep /\ [Next]_vars => TypeOK'
<1> SUFFICES ASSUME TypeOK, PhasesInStep, [Next]_vars PROVE TypeOK'
  OBVIOUS
<1> USE DEF config, clients, fanouts
<1>0. /\ MaxRequests \in Nat /\ MaxGiveUps \in Nat /\ Calls \in Nat
  BY LoadAssumption
<1>p. phase \in [Requests -> Phases] /\ status \in [Requests -> Statuses]
  BY DEF TypeOK, Phases, Statuses
<1>t. ASSUME phase' \in [Requests -> Phases], status' \in [Requests -> Statuses],
             UNCHANGED <<server, kind, hasDb, exists>>, cached' \in BOOLEAN,
             sent' \in 0 .. MaxRequests, giveUps' \in 0 .. MaxGiveUps,
             current' \in [Clients -> 0 .. MaxRequests],
             calls' \in [Requests -> 0 .. Calls], running' \in [Requests -> 0 .. Calls],
             spoiled' \subseteq Requests, db' \subseteq Requests, redis' \subseteq Requests,
             inserted' \subseteq Requests
      PROVE  TypeOK'
  <2>1. /\ hasDb \in BOOLEAN /\ exists \in BOOLEAN /\ server \in Servers /\ kind \in Kinds
    BY DEF TypeOK
  <2>2. {hasDb', exists', cached'} \subseteq BOOLEAN
    BY <1>t, <2>1
  <2> QED
    BY <1>t, <2>1, <2>2 DEF TypeOK, Phases, Statuses
<1>u. /\ cached \in BOOLEAN /\ sent \in 0 .. MaxRequests /\ giveUps \in 0 .. MaxGiveUps
      /\ current \in [Clients -> 0 .. MaxRequests]
      /\ calls \in [Requests -> 0 .. Calls] /\ running \in [Requests -> 0 .. Calls]
      /\ spoiled \subseteq Requests /\ db \subseteq Requests /\ redis \subseteq Requests
      /\ inserted \subseteq Requests
  BY DEF TypeOK
<1>1. ASSUME NEW c \in Clients, Send(c) PROVE TypeOK'
  <2>1. sent + 1 \in 0 .. MaxRequests
    BY <1>0, <1>1, <1>u DEF Send
  <2>2. current' \in [Clients -> 0 .. MaxRequests]
    BY <1>1, <1>u, <2>1 DEF Send
  <2>3. "queued" \in Phases
    BY DEF Phases
  <2>4. phase' \in [Requests -> Phases]
    BY <1>1, <1>p, <2>3 DEF Send
  <2> QED
    BY <1>1, <1>p, <1>t, <1>u, <2>1, <2>2, <2>4 DEF Send
<1>2. ASSUME NEW c \in Clients, Receive(c) PROVE TypeOK'
  <2>1. current' \in [Clients -> 0 .. MaxRequests]
    BY <1>0, <1>2, <1>u DEF Receive
  <2> QED
    BY <1>2, <1>p, <1>t, <1>u, <2>1 DEF Receive
<1>3. ASSUME NEW c \in Clients, GiveUp(c) PROVE TypeOK'
  <2>1. current' \in [Clients -> 0 .. MaxRequests] /\ giveUps' \in 0 .. MaxGiveUps
    BY <1>0, <1>3, <1>u DEF GiveUp
  <2> QED
    BY <1>3, <1>p, <1>t, <1>u, <2>1 DEF GiveUp
<1>4. ASSUME NEW q \in Requests, Start(q) PROVE TypeOK'
  <2>1. phase' \in [Requests -> Phases] /\ status' \in [Requests -> Statuses]
    BY <1>4, PhaseMoves
  <2>2. calls' \in [Requests -> 0 .. Calls]
    BY <1>0, <1>4, <1>u, StartMoves
  <2> QED
    BY <1>4, <1>t, <1>u, <2>1, <2>2, StartMoves
<1>5. ASSUME NEW q \in Requests, StartCall(q) PROVE TypeOK'
  <2>1. calls[q] - 1 \in 0 .. Calls /\ running[q] + 1 \in 0 .. Calls
    BY <1>0, <1>5, <1>u DEF StartCall, PhasesInStep
  <2>2. calls' \in [Requests -> 0 .. Calls] /\ running' \in [Requests -> 0 .. Calls]
    BY <1>5, <1>u, <2>1 DEF StartCall
  <2> QED
    BY <1>5, <1>p, <1>t, <1>u, <2>2 DEF StartCall
<1>6. ASSUME NEW q \in Requests, EndCall(q) PROVE TypeOK'
  <2>1. running' \in [Requests -> 0 .. Calls]
    <3>1. running[q] - 1 \in 0 .. Calls
      BY <1>0, <1>6, <1>u DEF EndCall
    <3> QED
      BY <1>6, <1>u, <3>1 DEF EndCall
  <2>2. spoiled' \subseteq Requests
    BY <1>6, <1>u DEF EndCall
  <2> QED
    BY <1>6, <1>p, <1>t, <1>u, <2>1, <2>2 DEF EndCall
<1>7. ASSUME NEW q \in Requests, Moves(q), Spoils(q), UNCHANGED <<config, clients, calls, running>>,
             cached' \in BOOLEAN, inserted' \in {inserted, inserted \cup {q}}
      PROVE  TypeOK'
  <2>1. phase' \in [Requests -> Phases] /\ status' \in [Requests -> Statuses]
    BY <1>7, PhaseMoves
  <2>2. db' \subseteq Requests /\ redis' \subseteq Requests
    BY <1>7, <1>u DEF Moves
  <2>3. spoiled' \subseteq Requests
    BY <1>7, <1>u DEF Spoils
  <2> QED
    BY <1>7, <1>t, <1>u, <2>1, <2>2, <2>3
<1>8. CASE UNCHANGED vars
  BY <1>8, <1>p, <1>t, <1>u DEF vars
<1>9. ASSUME NEW q \in Requests, HandlerStep(q) PROVE TypeOK'
  BY <1>9, <1>4, <1>5, <1>6, <1>7, HandlerMoves
<1> QED
  BY <1>1, <1>2, <1>3, <1>8, <1>9 DEF Next, HandlersStep, LoadOver

\* A request goes through the phases of its kind.
LEMMA PhasesInStepStep == TypeOK /\ PhasesInStep /\ [Next]_vars => PhasesInStep'
<1> SUFFICES ASSUME TypeOK, PhasesInStep, [Next]_vars PROVE PhasesInStep'
  OBVIOUS
<1> USE DEF config, clients, fanouts
<1>0. /\ phase \in [Requests -> Phases] /\ status \in [Requests -> Statuses] /\ Calls \in Nat
      /\ calls \in [Requests -> 0 .. Calls] /\ running \in [Requests -> 0 .. Calls]
      /\ sent \in Nat /\ Requests \subseteq Nat
  BY LoadAssumption DEF TypeOK, Phases, Statuses, Requests
<1>a. ASSUME UNCHANGED <<config, phase, status, fanouts>>, sent' = sent PROVE PhasesInStep'
  BY <1>a DEF PhasesInStep
<1>1. ASSUME NEW c \in Clients, Send(c) PROVE PhasesInStep'
  <2>1. /\ sent' = sent + 1 /\ phase' = [phase EXCEPT ![sent + 1] = "queued"]
        /\ UNCHANGED <<config, status, fanouts>>
    BY <1>1 DEF Send
  <2>2. \A q \in Requests : phase'[q] = IF q = sent + 1 THEN "queued" ELSE phase[q]
    BY <1>0, <2>1
  <2>3. \A q \in Requests : q = sent + 1 => phase[q] = "unsent"
    BY <1>0 DEF PhasesInStep
  <2>4. \A q \in Requests : q > sent + 1 => q > sent
    BY <1>0
  <2> QED
    BY <2>1, <2>2, <2>3, <2>4 DEF PhasesInStep
<1>2. ASSUME NEW c \in Clients, Receive(c) \/ GiveUp(c) PROVE PhasesInStep'
  BY <1>2, <1>a DEF Receive, GiveUp
<1>q. \A q \in Requests : Start(q) => phase[q] = "queued"
  BY StartMoves DEF Answer, Continue, Goto
<1>3. ASSUME NEW q \in Requests, Start(q) \/ Moves(q), Spoils(q), UNCHANGED <<config, sent, running>>,
             calls' = calls \/ (phase[q] = "queued" /\ kind = "fanout" /\ calls' = [calls EXCEPT ![q] = Calls])
      PROVE  PhasesInStep'
  <2>1. /\ \A p \in Requests : p # q => phase'[p] = phase[p] /\ status'[p] = status[p]
        /\ phase[q] \notin {"unsent", "done"} /\ phase'[q] \notin {"unsent", "queued"}
        /\ phase'[q] \in {"join"} => kind = "fanout"
        /\ phase'[q] \in {"wantDb", "query"} =>
             kind \in DbKinds \/ phase[q] \in {"get", "wantDb"}
        /\ phase'[q] \in {"wantGet", "get"} => kind = "cache" \/ phase[q] = "wantGet"
        /\ phase'[q] \in {"wantSet", "set"} => phase[q] = "wantSet" \/ (kind = "cache" /\ exists)
        /\ phase[q] = "queued" \/ (phase'[q] \in Blocking => phase[q] \in Blocking)
    BY <1>3, <1>q, PhaseMoves
  <2>2. \A p \in Requests : calls'[p] + running[p] <= Calls /\ (p # q => calls'[p] = calls[p])
    <3>1. \A p \in Requests : calls[p] + running[p] <= Calls
      BY DEF PhasesInStep
    <3>2. phase[q] = "queued" => running[q] = 0
      BY DEF PhasesInStep
    <3> QED
      BY <1>0, <1>3, <3>1, <3>2
  <2>3. q <= sent
    BY <1>0, <2>1 DEF PhasesInStep
  <2>c. \A p \in Requests : calls'[p] + running[p] > 0 => kind = "fanout"
    BY <1>0, <1>3, <2>2 DEF PhasesInStep
  <2>s. \A p \in Requests : /\ p # q => (p \in spoiled' <=> p \in spoiled)
                            /\ phase'[p] \in Blocking /\ p \in spoiled' => server = "go" /\ kind = "cache"
    <3>1. \A p \in Requests : p # q => (p \in spoiled' <=> p \in spoiled)
      BY <1>3 DEF Spoils
    <3>2. phase'[q] \in Blocking /\ q \in spoiled => server = "go" /\ kind = "cache"
      BY <2>1 DEF PhasesInStep
    <3>3. phase[q] = "get" => kind = "cache"
      BY DEF PhasesInStep
    <3>4. phase'[q] \in Blocking /\ q \in spoiled' => server = "go" /\ kind = "cache"
      BY <1>3, <3>2, <3>3 DEF Spoils, Blocking
    <3> QED
      BY <2>1, <3>1, <3>4 DEF PhasesInStep
  <2>4. ASSUME NEW p \in Requests
        PROVE  /\ p > sent => phase'[p] = "unsent"
               /\ phase'[p] \in {"unsent", "queued"} =>
                    status'[p] = "none" /\ calls'[p] = 0 /\ running[p] = 0 /\ p \notin spoiled'
               /\ phase'[p] = "join" => kind = "fanout"
               /\ phase'[p] \in {"wantDb", "query"} => kind \in DbKinds \cup {"cache"}
               /\ phase'[p] \in {"wantGet", "get", "wantSet", "set"} => kind = "cache"
               /\ phase'[p] \in {"wantSet", "set"} => exists
    <3>1. CASE p = q
      BY <1>0, <2>1, <2>3, <3>1 DEF PhasesInStep
    <3>2. CASE p # q
      BY <2>1, <2>2, <2>s, <3>2 DEF PhasesInStep
    <3> QED
      BY <3>1, <3>2
  <2> QED
    BY <1>3, <2>2, <2>4, <2>c, <2>s DEF PhasesInStep
<1>4. ASSUME NEW q \in Requests, Start(q) PROVE PhasesInStep'
  <2>1. phase[q] = "queued"
    BY <1>4, <1>q
  <2> QED
    BY <1>3, <1>4, <2>1, StartMoves DEF Spoils
<1>5. ASSUME NEW q \in Requests, StartCall(q) PROVE PhasesInStep'
  <2>1. /\ calls' = [calls EXCEPT ![q] = @ - 1] /\ running' = [running EXCEPT ![q] = @ + 1]
        /\ calls[q] > 0 /\ UNCHANGED <<config, sent, phase, status, spoiled>>
    BY <1>5 DEF StartCall
  <2>2. phase[q] \notin {"unsent", "queued"}
    BY <1>0, <2>1 DEF PhasesInStep
  <2>3. \A p \in Requests : calls'[p] + running'[p] = calls[p] + running[p]
                           /\ (p # q => calls'[p] = calls[p] /\ running'[p] = running[p])
    BY <1>0, <2>1
  <2> QED
    BY <2>1, <2>2, <2>3 DEF PhasesInStep
<1>6. ASSUME NEW q \in Requests, EndCall(q) PROVE PhasesInStep'
  <2>1. /\ running' = [running EXCEPT ![q] = @ - 1] /\ spoiled' \in {spoiled, spoiled \cup {q}}
        /\ running[q] > 0 /\ UNCHANGED <<config, sent, phase, status, calls>>
    BY <1>6 DEF EndCall
  <2>2. phase[q] \notin {"unsent", "queued"}
    BY <1>0, <2>1 DEF PhasesInStep
  <2>3. \A p \in Requests : p # q => running'[p] = running[p] /\ (p \in spoiled' <=> p \in spoiled)
    BY <1>0, <2>1
  <2>4. running'[q] = running[q] - 1
    BY <1>0, <2>1
  <2>5. \A p \in Requests : calls'[p] + running'[p] <= Calls
    <3>1. \A p \in Requests : calls[p] + running[p] <= Calls /\ calls[p] \in Nat /\ running[p] \in Nat
      BY <1>0 DEF PhasesInStep
    <3> QED
      BY <1>0, <2>1, <2>3, <2>4, <3>1
  <2>6. kind = "fanout"
    BY <1>0, <2>1 DEF PhasesInStep
  <2>7. \A p \in Requests :
          /\ p > sent => phase[p] = "unsent"
          /\ phase[p] \in {"unsent", "queued"} => p # q
          /\ phase[p] \in {"wantDb", "query", "wantGet", "get", "wantSet", "set"} => p # q
    BY <1>0, <2>2, <2>6 DEF PhasesInStep, DbKinds
  <2> QED
    BY <2>1, <2>3, <2>5, <2>6, <2>7 DEF PhasesInStep, Blocking
<1>7. CASE UNCHANGED vars
  BY <1>7, <1>a DEF vars
<1>8. ASSUME NEW q \in Requests, HandlerStep(q) PROVE PhasesInStep'
  BY <1>8, <1>3, <1>4, <1>5, <1>6, HandlerMoves
<1> QED
  BY <1>1, <1>2, <1>7, <1>8 DEF Next, HandlersStep, LoadOver

--------------------------------------------------------------------------------
(* Threads and connections *)

\* The requests, and what is counted of them, are finitely many.
LEMMA RequestsFinite ==
  /\ IsFiniteSet(Requests)
  /\ \A S : S \subseteq Requests => IsFiniteSet(S) /\ Cardinality(S) \in Nat
<1>1. IsFiniteSet(Requests)
  BY LoadAssumption, FS_Interval DEF Requests
<1> QED
  BY <1>1, FS_Subset, FS_CardinalityType

\* The threads that handlers keep, and those of the calls that the server has accepted.
Handling == {q \in Requests : OnThread(q)}
Accepted == {x \in Requests \X (1 .. Calls) : Pooled /\ x[2] <= running[x[1]]}

LEMMA BusyIs ==
  /\ Busy = Cardinality(Handling) + Cardinality(Accepted)
  /\ IsFiniteSet(Handling) /\ Cardinality(Handling) \in Nat
  /\ IsFiniteSet(Accepted) /\ Cardinality(Accepted) \in Nat
<1>1. Busy = Cardinality(Handling) + Cardinality(Accepted)
  BY DEF Busy, Handling, Accepted
<1>2. IsFiniteSet(Handling) /\ Cardinality(Handling) \in Nat
  BY RequestsFinite DEF Handling
<1>3. IsFiniteSet(Requests \X (1 .. Calls))
  <2>1. IsFiniteSet(1 .. Calls)
    BY LoadAssumption, FS_Interval
  <2> QED
    BY <2>1, RequestsFinite, FS_Product
<1>4. Accepted \subseteq Requests \X (1 .. Calls)
  BY DEF Accepted
<1>5. IsFiniteSet(Accepted) /\ Cardinality(Accepted) \in Nat
  BY <1>3, <1>4, FS_Subset, FS_CardinalityType
<1> QED
  BY <1>1, <1>2, <1>5

\* A step that takes no thread leaves as many free, one that takes one, one less.
LEMMA BusyGrows ==
  ASSUME NEW x,
         \/ Handling' \subseteq Handling /\ Accepted' \subseteq Accepted \cup {x}
         \/ Handling' \subseteq Handling \cup {x} /\ Accepted' \subseteq Accepted
  PROVE  /\ Busy' \in Nat /\ Busy \in Nat /\ Busy' <= Busy + 1
         /\ Handling' \subseteq Handling /\ Accepted' \subseteq Accepted => Busy' <= Busy
<1>a. ASSUME NEW S, IsFiniteSet(S), NEW T, T \subseteq S \cup {x}
      PROVE  /\ Cardinality(S) \in Nat /\ Cardinality(T) \in Nat /\ Cardinality(T) <= Cardinality(S) + 1
             /\ T \subseteq S => Cardinality(T) <= Cardinality(S)
  <2>1. IsFiniteSet(S \cup {x}) /\ Cardinality(S \cup {x}) \in {Cardinality(S), Cardinality(S) + 1}
    BY <1>a, FS_AddElement
  <2>2. IsFiniteSet(T) /\ Cardinality(T) <= Cardinality(S \cup {x})
    BY <1>a, <2>1, FS_Subset
  <2>3. Cardinality(S) \in Nat /\ Cardinality(T) \in Nat
    BY <1>a, <2>2, FS_CardinalityType
  <2>4. T \subseteq S => Cardinality(T) <= Cardinality(S)
    BY <1>a, FS_Subset
  <2> QED
    BY <2>1, <2>2, <2>3, <2>4
<1>1. /\ Cardinality(Handling) \in Nat /\ Cardinality(Handling') \in Nat
      /\ Cardinality(Handling') <= Cardinality(Handling) + 1
      /\ Handling' \subseteq Handling => Cardinality(Handling') <= Cardinality(Handling)
  BY <1>a, BusyIs
<1>2. /\ Cardinality(Accepted) \in Nat /\ Cardinality(Accepted') \in Nat
      /\ Cardinality(Accepted') <= Cardinality(Accepted) + 1
      /\ Accepted' \subseteq Accepted => Cardinality(Accepted') <= Cardinality(Accepted)
  BY <1>a, BusyIs
<1>3. Busy = Cardinality(Handling) + Cardinality(Accepted)
  BY BusyIs
<1>4. Busy' = Cardinality(Handling') + Cardinality(Accepted')
  BY DEF Busy, Handling, Accepted
<1> QED
  BY <1>1, <1>2, <1>3, <1>4

\* The pool of threads is never exceeded.
LEMMA ThreadsStep ==
  TypeOK /\ PhasesInStep /\ Busy <= Threads /\ [Next]_vars => Busy' <= Threads
<1> SUFFICES ASSUME TypeOK, PhasesInStep, Busy <= Threads, [Next]_vars PROVE Busy' <= Threads
  OBVIOUS
<1> USE DEF config, clients, fanouts
<1>0. Busy \in Nat /\ Threads \in Nat
  BY BusyIs, LoadAssumption
<1>t. /\ phase \in [Requests -> Phases] /\ running \in [Requests -> 0 .. Calls] /\ Calls \in Nat
  BY LoadAssumption DEF TypeOK, Phases
<1>a. ASSUME Handling' \subseteq Handling, Accepted' \subseteq Accepted PROVE Busy' <= Threads
  <2>1. Busy' \in Nat /\ Busy' <= Busy
    BY <1>a, BusyGrows
  <2> QED
    BY <1>0, <2>1
<1>b. ASSUME UNCHANGED <<config, running>>, NEW q \in Requests,
             \A p \in Requests : p # q => phase'[p] = phase[p],
             OnThread(q)' => OnThread(q)
      PROVE  Busy' <= Threads
  <2>1. Handling' \subseteq Handling
    BY <1>b DEF Handling, OnThread, Pooled
  <2>2. Accepted' \subseteq Accepted
    BY <1>b DEF Accepted, Pooled
  <2> QED
    BY <1>a, <2>1, <2>2
<1>c. ASSUME UNCHANGED <<config, phase, running>> PROVE Busy' <= Threads
  <2>1. Handling' \subseteq Handling /\ Accepted' \subseteq Accepted
    BY <1>c DEF Handling, OnThread, Accepted, Pooled
  <2> QED
    BY <1>a, <2>1
<1>1. ASSUME NEW c \in Clients, Send(c) PROVE Busy' <= Threads
  <2>0. sent < MaxRequests /\ sent \in Nat /\ MaxRequests \in Nat
    BY <1>1, LoadAssumption DEF Send, TypeOK
  <2>1. PICK q \in Requests : phase' = [phase EXCEPT ![q] = "queued"] /\ UNCHANGED <<config, running>>
    <3>1. sent + 1 \in Requests
      BY <2>0 DEF Requests
    <3>2. phase' = [phase EXCEPT ![sent + 1] = "queued"] /\ UNCHANGED <<config, running>>
      BY <1>1 DEF Send
    <3> QED
      BY <3>1, <3>2
  <2>2. /\ \A p \in Requests : p # q => phase'[p] = phase[p]
        /\ phase'[q] = "queued"
    BY <1>t, <2>1
  <2>3. ~OnThread(q)'
    BY <2>1, <2>2 DEF OnThread, Blocking
  <2> QED
    BY <1>b, <2>1, <2>2, <2>3
<1>2. ASSUME NEW c \in Clients, Receive(c) \/ GiveUp(c) PROVE Busy' <= Threads
  BY <1>2, <1>c DEF Receive, GiveUp
<1>3. ASSUME NEW q \in Requests, Start(q) PROVE Busy' <= Threads
  <2>1. /\ NeedsThread => Busy < Threads
        /\ UNCHANGED <<config, running>>
    BY <1>3, StartMoves
  <2>2. \A p \in Requests : p # q => phase'[p] = phase[p]
    BY <1>3, PhaseMoves
  <2>3. CASE NeedsThread
    <3>1. Handling' \subseteq Handling \cup {q}
      BY <2>1, <2>2 DEF Handling, OnThread, Pooled
    <3>2. Accepted' \subseteq Accepted
      BY <2>1 DEF Accepted, Pooled
    <3>3. Busy' \in Nat /\ Busy' <= Busy + 1
      BY <3>1, <3>2, BusyGrows
    <3> QED
      BY <1>0, <2>1, <2>3, <3>3
  <2>4. CASE ~NeedsThread
    <3>1. ~Pooled /\ ~Pooled'
      BY <2>1, <2>4 DEF NeedsThread, Pooled
    <3>2. server = "vertx" => phase'[q] \in {"reply", "join"}
      <4> SUFFICES ASSUME server = "vertx" PROVE phase'[q] \in {"reply", "join"}
        OBVIOUS
      <4>1. kind # "cache" /\ ~(kind \in DbKinds /\ hasDb)
        BY <2>4 DEF NeedsThread
      <4>2. \/ \E s \in Statuses : Answer(q, "queued", s)
            \/ Continue(q, "queued", "join")
        BY <1>3, <4>1, StartMoves DEF Statuses
      <4> QED
        BY <1>t, <4>2 DEF Answer, Continue, Goto
    <3>3. ~OnThread(q)'
      BY <2>1, <3>1, <3>2 DEF OnThread, Blocking
    <3> QED
      BY <1>b, <2>1, <2>2, <3>3
  <2> QED
    BY <2>3, <2>4
<1>4. ASSUME NEW q \in Requests, StartCall(q) PROVE Busy' <= Threads
  <2>1. /\ Pooled => Busy < Threads
        /\ running' = [running EXCEPT ![q] = @ + 1] /\ UNCHANGED <<config, phase>>
    BY <1>4 DEF StartCall
  <2>2. Handling' = Handling
    BY <2>1 DEF Handling, OnThread, Pooled
  <2>3. CASE Pooled
    <3>1. \A p \in Requests, i \in 1 .. Calls :
            i <= running'[p] => i <= running[p] \/ (p = q /\ i = running[q] + 1)
      BY <1>t, <2>1
    <3>2. Accepted' \subseteq Accepted \cup {<<q, running[q] + 1>>}
      BY <2>1, <2>3, <3>1 DEF Accepted, Pooled
    <3>3. Busy' \in Nat /\ Busy' <= Busy + 1
      BY <2>2, <3>2, BusyGrows
    <3> QED
      BY <1>0, <2>1, <2>3, <3>3
  <2>4. CASE ~Pooled
    <3>1. Accepted' \subseteq Accepted
      BY <2>1, <2>4 DEF Accepted, Pooled
    <3> QED
      BY <1>a, <2>2, <3>1
  <2> QED
    BY <2>3, <2>4
<1>5. ASSUME NEW q \in Requests, EndCall(q) PROVE Busy' <= Threads
  <2>1. running' = [running EXCEPT ![q] = @ - 1] /\ UNCHANGED <<config, phase>>
    BY <1>5 DEF EndCall
  <2>2. Handling' = Handling
    BY <2>1 DEF Handling, OnThread, Pooled
  <2>3. \A p \in Requests, i \in 1 .. Calls : i <= running'[p] => i <= running[p]
    BY <1>t, <2>1
  <2>4. Accepted' \subseteq Accepted
    BY <2>1, <2>3 DEF Accepted, Pooled
  <2> QED
    BY <1>a, <2>2, <2>4
<1>6. ASSUME NEW q \in Requests, Moves(q), UNCHANGED <<config, clients, calls, running>> PROVE Busy' <= Threads
  <2>1. /\ \A p \in Requests : p # q => phase'[p] = phase[p]
        /\ phase[q] \notin {"unsent", "queued", "done"} /\ phase[q] \in Phases
        /\ phase'[q] \in Blocking => phase[q] \in Blocking
    BY <1>6, <1>t, PhaseMoves
  <2>2. OnThread(q)' => OnThread(q)
    BY <1>6, <2>1 DEF OnThread, Pooled, Phases
  <2> QED
    BY <1>6, <1>b, <2>1, <2>2
<1>7. CASE UNCHANGED vars
  BY <1>7, <1>c DEF vars
<1>8. ASSUME NEW q \in Requests, HandlerStep(q) PROVE Busy' <= Threads
  BY <1>8, <1>3, <1>4, <1>5, <1>6, HandlerMoves
<1> QED
  BY <1>1, <1>2, <1>7, <1>8 DEF Next, HandlersStep, LoadOver

\* A handler gives back what it has borrowed, on every path.
LEMMA NothingLeaksStep ==
  TypeOK /\ PhasesInStep /\ NothingLeaks /\ [Next]_vars => NothingLeaks'
<1> SUFFICES ASSUME TypeOK, PhasesInStep, NothingLeaks, [Next]_vars PROVE NothingLeaks'
  OBVIOUS
<1> USE DEF config, clients, fanouts
<1>0. /\ phase \in [Requests -> Phases] /\ db \subseteq Requests /\ redis \subseteq Requests
      /\ DbSize \in Nat /\ RedisSize \in Nat
      /\ IsFiniteSet(db) /\ Cardinality(db) \in Nat /\ Cardinality(db) <= DbSize
      /\ IsFiniteSet(redis) /\ Cardinality(redis) \in Nat /\ Cardinality(redis) <= RedisSize
  BY LoadAssumption, RequestsFinite DEF TypeOK, Phases, NothingLeaks
<1>t. Busy' <= Threads
  BY ThreadsStep DEF NothingLeaks
<1>a. ASSUME UNCHANGED <<config, phase, db, redis>> PROVE NothingLeaks'
  BY <1>a, <1>t DEF NothingLeaks
<1>1. ASSUME NEW c \in Clients, Send(c) PROVE NothingLeaks'
  <2>0. sent < MaxRequests /\ sent \in Nat /\ MaxRequests \in Nat
    BY <1>1, LoadAssumption DEF Send, TypeOK
  <2>1. PICK q \in Requests : q = sent + 1
    BY <2>0 DEF Requests
  <2>2. phase' = [phase EXCEPT ![q] = "queued"] /\ UNCHANGED <<config, db, redis>>
    BY <1>1, <2>1 DEF Send
  <2>3. phase[q] = "unsent"
    BY <2>0, <2>1 DEF PhasesInStep
  <2>4. /\ \A p \in Requests : p # q => phase'[p] = phase[p]
        /\ phase'[q] = "queued" /\ q \notin db /\ q \notin redis
    BY <1>0, <2>2, <2>3 DEF NothingLeaks
  <2> QED
    BY <1>0, <1>t, <2>2, <2>4 DEF NothingLeaks
<1>2. ASSUME NEW c \in Clients, Receive(c) \/ GiveUp(c) PROVE NothingLeaks'
  BY <1>2, <1>a DEF Receive, GiveUp
<1>3. ASSUME NEW q \in Requests, Start(q) PROVE NothingLeaks'
  <2>1. /\ \A p \in Requests : p # q => phase'[p] = phase[p]
        /\ phase'[q] \notin {"unsent", "queued"} /\ UNCHANGED <<config, db, redis>>
    BY <1>3, PhaseMoves, StartMoves
  <2>2. phase[q] = "queued"
    BY <1>3, StartMoves DEF Answer, Continue, Goto
  <2>3. q \notin db /\ q \notin redis
    BY <2>2 DEF NothingLeaks
  <2> QED
    BY <1>0, <1>t, <2>1, <2>3 DEF NothingLeaks
<1>4. ASSUME NEW q \in Requests, StartCall(q) \/ EndCall(q) PROVE NothingLeaks'
  BY <1>4, <1>a DEF StartCall, EndCall
<1>5. ASSUME NEW q \in Requests, Moves(q), UNCHANGED <<config, clients>> PROVE NothingLeaks'
  <2>1. \A p \in Requests : p # q => phase'[p] = phase[p]
    BY <1>5, PhaseMoves
  <2>2. \A p \in Requests : p # q => (p \in db' <=> p \in db) /\ (p \in redis' <=> p \in redis)
    BY <1>5 DEF Moves
  <2>3. db' \subseteq Requests /\ redis' \subseteq Requests
    BY <1>0, <1>5 DEF Moves
  <2>4. /\ q \in db' => phase'[q] \in {"query", "wantSet", "set", "reply", "finish"}
        /\ q \in redis' => phase'[q] \in {"get", "set"}
        /\ phase'[q] = "wantSet" /\ q \in db' => server \in {"spring", "dotnet"}
    <3>1. /\ q \in db => phase[q] \in {"query", "wantSet", "set", "reply", "finish"}
          /\ q \in redis => phase[q] \in {"get", "set"}
          /\ phase[q] = "wantSet" /\ q \in db => server \in {"spring", "dotnet"}
      BY DEF NothingLeaks
    <3>2. \A from, s : Answer(q, from, s) => phase[q] = from /\ phase'[q] = "reply"
      BY <1>0 DEF Answer, Goto
    <3>3. \A from, to : Continue(q, from, to) => phase[q] = from /\ phase'[q] = to
      BY <1>0 DEF Continue, Goto
    <3> QED
      BY <1>5, <3>1, <3>2, <3>3 DEF Moves
  <2>5. Cardinality(db') <= DbSize
    <3>1. CASE db' \subseteq db
      <4>1. Cardinality(db') <= Cardinality(db) /\ Cardinality(db') \in Nat
        BY <1>0, <2>3, <3>1, FS_Subset, RequestsFinite
      <4> QED
        BY <1>0, <4>1
    <3>2. CASE db' = db \cup {q} /\ Cardinality(db) < DbSize
      <4>1. Cardinality(db') \in {Cardinality(db), Cardinality(db) + 1}
        BY <1>0, <3>2, FS_AddElement
      <4> QED
        BY <1>0, <3>2, <4>1
    <3> QED
      BY <1>5, <3>1, <3>2 DEF Moves
  <2>6. Cardinality(redis') <= RedisSize
    <3>1. CASE redis' \subseteq redis
      <4>1. Cardinality(redis') <= Cardinality(redis) /\ Cardinality(redis') \in Nat
        BY <1>0, <2>3, <3>1, FS_Subset, RequestsFinite
      <4> QED
        BY <1>0, <4>1
    <3>2. CASE redis' = redis \cup {q} /\ Cardinality(redis) < RedisSize
      <4>1. Cardinality(redis') \in {Cardinality(redis), Cardinality(redis) + 1}
        BY <1>0, <3>2, FS_AddElement
      <4> QED
        BY <1>0, <3>2, <4>1
    <3> QED
      BY <1>5, <3>1, <3>2 DEF Moves
  <2>7. \A p \in Requests :
          /\ p \in db' => phase'[p] \in {"query", "wantSet", "set", "reply", "finish"}
          /\ p \in redis' => phase'[p] \in {"get", "set"}
          /\ phase'[p] = "wantSet" /\ p \in db' => server' \in {"spring", "dotnet"}
    BY <1>5, <2>1, <2>2, <2>4 DEF NothingLeaks
  <2> QED
    BY <1>t, <2>3, <2>5, <2>6, <2>7 DEF NothingLeaks
<1>6. CASE UNCHANGED vars
  BY <1>6, <1>a DEF vars
<1>7. ASSUME NEW q \in Requests, HandlerStep(q) PROVE NothingLeaks'
  BY <1>7, <1>3, <1>4, <1>5, HandlerMoves
<1> QED
  BY <1>1, <1>2, <1>6, <1>7 DEF Next, HandlersStep, LoadOver

--------------------------------------------------------------------------------
(* Clients and answers *)

\* Only a client that gives up leaves a request behind.
LEMMA ClientsInStepStep ==
  TypeOK /\ PhasesInStep /\ ClientsInStep /\ [Next]_vars => ClientsInStep'
<1> SUFFICES ASSUME TypeOK, PhasesInStep, ClientsInStep, [Next]_vars PROVE ClientsInStep'
  OBVIOUS
<1> USE DEF config, clients, fanouts
<1>0. /\ phase \in [Requests -> Phases] /\ current \in [Clients -> 0 .. MaxRequests]
      /\ giveUps \in Nat /\ Requests \subseteq Nat \ {0}
  BY DEF TypeOK, Phases, Requests
<1>f. IsFiniteSet(Abandoned) /\ Cardinality(Abandoned) \in Nat /\ Cardinality(Abandoned) <= giveUps
  BY RequestsFinite DEF Abandoned, Pending, ClientsInStep
<1>a. ASSUME giveUps' = giveUps, Abandoned' \subseteq Abandoned PROVE ClientsInStep'
  <2>1. Cardinality(Abandoned') <= Cardinality(Abandoned)
    BY <1>a, <1>f, FS_Subset
  <2>2. Cardinality(Abandoned') \in Nat
    BY <1>a, <1>f, FS_Subset, FS_CardinalityType
  <2>3. Cardinality(Abandoned') <= giveUps'
    BY <1>0, <1>a, <1>f, <2>1, <2>2
  <2> QED
    BY <2>3 DEF ClientsInStep
<1>1. ASSUME NEW c \in Clients, Send(c) PROVE ClientsInStep'
  <2>0. sent < MaxRequests /\ sent \in Nat /\ MaxRequests \in Nat
    BY <1>1, LoadAssumption DEF Send, TypeOK
  <2>1. PICK q \in Requests : q = sent + 1
    BY <2>0 DEF Requests
  <2>2. /\ phase' = [phase EXCEPT ![q] = "queued"] /\ current' = [current EXCEPT ![c] = q]
        /\ giveUps' = giveUps /\ current[c] = 0
    BY <1>1, <2>1 DEF Send, Waiting
  <2>3. \A p \in Requests : p # q => phase'[p] = phase[p]
    BY <1>0, <2>2
  <2>4. current'[c] = q /\ \A d \in Clients : d # c => current'[d] = current[d]
    BY <1>0, <2>2
  <2>5. \A p \in Abandoned' : p # q
    BY <2>4 DEF Abandoned
  <2>6. \A p \in Abandoned' : p \in Abandoned
    BY <1>0, <2>2, <2>3, <2>4, <2>5 DEF Abandoned, Pending
  <2> QED
    BY <1>a, <2>2, <2>6
<1>2. ASSUME NEW c \in Clients, Receive(c) PROVE ClientsInStep'
  <2>1. /\ current' = [current EXCEPT ![c] = 0] /\ UNCHANGED <<phase, giveUps>>
        /\ phase[current[c]] \in {"finish", "done"}
    BY <1>2 DEF Receive
  <2>2. \A d \in Clients : d # c => current'[d] = current[d]
    BY <1>0, <2>1
  <2>3. \A p \in Abandoned' : p \in Abandoned
    BY <2>1, <2>2 DEF Abandoned, Pending
  <2> QED
    BY <1>a, <2>1, <2>3
<1>3. ASSUME NEW c \in Clients, GiveUp(c) PROVE ClientsInStep'
  <2>1. /\ current' = [current EXCEPT ![c] = 0] /\ phase' = phase /\ giveUps' = giveUps + 1
    BY <1>3 DEF GiveUp
  <2>2. \A d \in Clients : d # c => current'[d] = current[d]
    BY <1>0, <2>1
  <2>3. \A p \in Abandoned' : p \in Abandoned \cup {current[c]}
    BY <2>1, <2>2 DEF Abandoned, Pending
  <2>4. /\ IsFiniteSet(Abandoned \cup {current[c]})
        /\ Cardinality(Abandoned \cup {current[c]}) \in {Cardinality(Abandoned), Cardinality(Abandoned) + 1}
    BY <1>f, FS_AddElement
  <2>5. Abandoned' \subseteq Abandoned \cup {current[c]}
    BY <2>3
  <2>6. Cardinality(Abandoned') <= Cardinality(Abandoned \cup {current[c]}) /\ IsFiniteSet(Abandoned')
    BY <2>4, <2>5, FS_Subset
  <2>7. Cardinality(Abandoned') \in Nat
    BY <2>6, FS_CardinalityType
  <2>8. Cardinality(Abandoned') <= giveUps'
    BY <1>0, <1>f, <2>1, <2>4, <2>6, <2>7
  <2> QED
    BY <2>8 DEF ClientsInStep
<1>4. ASSUME NEW q \in Requests, Start(q) \/ Moves(q), UNCHANGED clients PROVE ClientsInStep'
  <2>1. /\ \A p \in Requests : p # q => phase'[p] = phase[p]
        /\ phase[q] \notin {"unsent", "done"}
        /\ phase[q] = "finish" => phase'[q] = "done"
    BY <1>4, PhaseMoves
  <2>2. \A p \in Abandoned' : p \in Abandoned
    BY <1>4, <2>1 DEF Abandoned, Pending
  <2> QED
    BY <1>4, <1>a, <2>2
<1>5. ASSUME UNCHANGED <<clients, phase>> PROVE ClientsInStep'
  <2>1. Abandoned' = Abandoned
    BY <1>5 DEF Abandoned, Pending
  <2> QED
    BY <1>5, <1>a, <2>1
<1>6. ASSUME NEW q \in Requests, StartCall(q) \/ EndCall(q) PROVE ClientsInStep'
  BY <1>5, <1>6 DEF StartCall, EndCall
<1>7. CASE UNCHANGED vars
  BY <1>5, <1>7 DEF vars
<1>8. ASSUME NEW q \in Requests, HandlerStep(q) PROVE ClientsInStep'
  <2>1. Start(q) => UNCHANGED clients
    BY StartMoves
  <2> QED
    BY <1>8, <1>4, <1>6, <2>1, HandlerMoves
<1> QED
  BY <1>1, <1>2, <1>3, <1>7, <1>8 DEF Next, HandlersStep, LoadOver

\* What a status may say of a request, in the state after the step.
Honest(q, s) ==
  /\ s = "ok" =>
       /\ kind \in {"lookup", "cache"} => exists
       /\ kind = "write" => q \in inserted'
       /\ kind = "fanout" => calls[q] + running[q] = 0
       /\ q \in spoiled' => server = "go" /\ kind \in {"cache", "page"}
  /\ s = "notFound" =>
       ~exists \/ (kind = "cache" /\ ~hasDb) \/ (server = "go" /\ q \in spoiled')
  /\ s \in {"error", "incomplete"} =>
       q \in spoiled' \/ (kind = "cache" /\ ~exists /\ server \in {"java", "virtual"})

\* Every answer that is decided is true when it is, and stays so.
LEMMA AnswersHonestStep ==
  TypeOK /\ PhasesInStep /\ AnswersHonest /\ [Next]_vars => AnswersHonest'
<1> SUFFICES ASSUME TypeOK, PhasesInStep, AnswersHonest, [Next]_vars PROVE AnswersHonest'
  OBVIOUS
<1> USE DEF config, clients, fanouts
<1>0. /\ phase \in [Requests -> Phases] /\ status \in [Requests -> Statuses] /\ Calls \in Nat
      /\ calls \in [Requests -> 0 .. Calls] /\ running \in [Requests -> 0 .. Calls]
  BY LoadAssumption DEF TypeOK, Phases, Statuses
<1>k. Requests # {} => (cached => exists)
  BY DEF AnswersHonest
<1>a. ASSUME UNCHANGED <<config, cached, status, fanouts>>, inserted' = inserted PROVE AnswersHonest'
  BY <1>a DEF AnswersHonest
<1>b. ASSUME NEW q \in Requests, NEW s, status' = [status EXCEPT ![q] = s], Honest(q, s),
             UNCHANGED <<config, calls, running>>, spoiled' \in {spoiled, spoiled \cup {q}},
             inserted \subseteq inserted', cached' => exists
      PROVE  AnswersHonest'
  <2>1. ASSUME NEW p \in Requests PROVE Honest(p, status'[p])
    <3>1. CASE p = q
      BY <1>0, <1>b, <3>1
    <3>2. CASE p # q
      <4>1. status'[p] = status[p]
        BY <1>0, <1>b, <3>2
      <4>2. p \in spoiled' <=> p \in spoiled
        BY <1>b, <3>2
      <4>3. Honest(p, status[p])
        BY <1>b, <4>2 DEF AnswersHonest, Honest
      <4> QED
        BY <4>1, <4>3
    <3> QED
      BY <3>1, <3>2
  <2> QED
    BY <1>b, <2>1 DEF AnswersHonest, Honest
<1>s. ASSUME NEW q \in Requests, Spoil(q)
      PROVE  /\ UNCHANGED <<calls, running>> /\ spoiled' \in {spoiled, spoiled \cup {q}}
             /\ q \in spoiled'
  BY <1>s DEF Spoil
<1>u. ASSUME UNCHANGED fanouts
      PROVE  \A q \in Requests : /\ UNCHANGED <<calls, running>>
                                 /\ spoiled' \in {spoiled, spoiled \cup {q}}
                                 /\ q \in spoiled' <=> q \in spoiled
  BY <1>u
\* A handler that is still at work has met no failure, except Go's for the cache.
<1>n. ASSUME NEW q \in Requests, phase[q] \in Blocking, q \in spoiled
      PROVE  server = "go" /\ kind = "cache"
  BY <1>n DEF PhasesInStep
<1>1. ASSUME NEW c \in Clients, Send(c) \/ Receive(c) \/ GiveUp(c) PROVE AnswersHonest'
  BY <1>1, <1>a DEF Send, Receive, GiveUp
<1>2. ASSUME NEW q \in Requests, Start(q) PROVE AnswersHonest'
  <2>1. phase[q] = "queued" /\ UNCHANGED <<config, cached, running, spoiled, inserted>>
        /\ calls' = IF kind = "fanout" THEN [calls EXCEPT ![q] = Calls] ELSE calls
    BY <1>2, StartMoves DEF Answer, Continue, Goto
  <2>2. CASE kind = "fanout"
    <3>1. status' = status /\ status[q] = "none"
      BY <1>2, <2>1, <2>2, StartMoves DEF Continue, DbKinds, PhasesInStep
    <3>2. \A p \in Requests : p # q => calls'[p] = calls[p]
      BY <1>0, <2>1, <2>2
    <3> QED
      BY <2>1, <3>1, <3>2 DEF AnswersHonest
  <2>3. CASE kind # "fanout"
    <3>1. calls' = calls
      BY <2>1, <2>3
    <3>2. CASE status' = status
      BY <1>a, <2>1, <3>1, <3>2
    <3>3. CASE kind = "static" /\ status' = [status EXCEPT ![q] = "ok"]
      <4>1. Honest(q, "ok")
        <5>1. q \notin spoiled'
          BY <2>1 DEF PhasesInStep
        <5> QED
          BY <3>3, <5>1 DEF Honest
      <4> QED
        BY <1>b, <1>k, <2>1, <3>1, <3>3, <4>1
    <3>4. CASE status' = [status EXCEPT ![q] = "unavailable"]
      <4>1. Honest(q, "unavailable")
        BY DEF Honest
      <4> QED
        BY <1>b, <1>k, <2>1, <3>1, <3>4, <4>1
    <3> QED
      BY <1>2, <2>3, <3>2, <3>3, <3>4, StartMoves DEF Answer, Continue, Decide
  <2> QED
    BY <2>2, <2>3
<1>3. ASSUME NEW q \in Requests, StartCall(q) PROVE AnswersHonest'
  <2>1. /\ calls' = [calls EXCEPT ![q] = @ - 1] /\ running' = [running EXCEPT ![q] = @ + 1]
        /\ UNCHANGED <<config, cached, status, spoiled, inserted>>
    BY <1>3 DEF StartCall
  <2>2. \A p \in Requests : calls'[p] + running'[p] = calls[p] + running[p]
    BY <1>0, <2>1
  <2> QED
    BY <2>1, <2>2 DEF AnswersHonest
<1>4. ASSUME NEW q \in Requests, EndCall(q) PROVE AnswersHonest'
  <2>1. /\ running' = [running EXCEPT ![q] = @ - 1] /\ spoiled' \in {spoiled, spoiled \cup {q}}
        /\ running[q] > 0 /\ UNCHANGED <<config, cached, status, calls, inserted>>
    BY <1>4 DEF EndCall
  <2>2. \A p \in Requests : p # q => running'[p] = running[p] /\ (p \in spoiled' <=> p \in spoiled)
    BY <1>0, <2>1
  <2>3. calls[q] + running[q] > 0
    BY <1>0, <2>1
  <2>4. kind = "fanout" /\ status[q] # "ok"
    <3>1. kind = "fanout"
      BY <2>3 DEF PhasesInStep
    <3> QED
      BY <1>0, <2>3, <3>1 DEF AnswersHonest
  <2>5. \A p \in Requests : p \in spoiled => p \in spoiled'
    BY <2>1
  <2> QED
    BY <2>1, <2>2, <2>4, <2>5 DEF AnswersHonest
<1>5. ASSUME NEW q \in Requests, Join(q) PROVE AnswersHonest'
  <2>1. PICK s : /\ Answer(q, "join", s)
                 /\ \/ s = "error" /\ q \in spoiled
                    \/ calls[q] + running[q] = 0 /\ s \in FanoutStatus(q)
    BY <1>5 DEF Join
  <2>2. UNCHANGED <<config, cached, clients, fanouts, db, redis, inserted>>
    BY <1>5 DEF Join
  <2>3. kind = "fanout"
    BY <2>1 DEF Answer, Goto, PhasesInStep
  <2>4. /\ s # "notFound"
        /\ s = "ok" => q \notin spoiled' /\ calls[q] + running[q] = 0
        /\ s # "ok" => q \in spoiled'
    BY <2>1, <2>2, StatusTypes
  <2>5. Honest(q, s)
    BY <2>3, <2>4 DEF Honest
  <2> QED
    BY <1>b, <1>k, <1>u, <2>1, <2>2, <2>5 DEF Answer, Decide
<1>6. ASSUME NEW q \in Requests, BorrowDb(q) \/ QueryFinds(q) \/ Reply(q) \/ Finish(q) PROVE AnswersHonest'
  BY <1>6, <1>a DEF BorrowDb, QueryFinds, Reply, Finish, Continue
<1>7. ASSUME NEW q \in Requests, NEW command \in {"get", "set"}, BorrowRedis(q, command) PROVE AnswersHonest'
  BY <1>7, <1>a DEF BorrowRedis, Continue
<1>8. ASSUME NEW q \in Requests, DbRefuses(q) \/ QueryFails(q) PROVE AnswersHonest'
  <2>1. q \in spoiled' /\ UNCHANGED <<calls, running>> /\ spoiled' \in {spoiled, spoiled \cup {q}}
    BY <1>8, <1>s DEF DbRefuses, QueryFails
  <2>2. Honest(q, DbFailure)
    BY <2>1 DEF Honest, DbFailure
  <2>3. status' = [status EXCEPT ![q] = DbFailure] /\ UNCHANGED <<config, cached>>
    BY <1>8 DEF DbRefuses, QueryFails, Answer, Decide
  <2>4. inserted \subseteq inserted'
    BY <1>8 DEF DbRefuses, QueryFails
  <2> QED
    BY <1>b, <1>k, <2>1, <2>2, <2>3, <2>4
<1>9. ASSUME NEW q \in Requests, QueryMisses(q) PROVE AnswersHonest'
  <2>1. Honest(q, DbMissing)
    BY <1>9 DEF QueryMisses, Honest, DbMissing
  <2> QED
    BY <1>9, <1>b, <1>k, <1>u, <2>1 DEF QueryMisses, Answer, Decide
<1>10. ASSUME NEW q \in Requests, QuerySucceeds(q) PROVE AnswersHonest'
  <2>1. phase[q] = "query" /\ kind \in DbKinds /\ (kind = "lookup" => exists) /\ spoiled' = spoiled
        /\ (kind = "write" => q \in inserted') /\ inserted \subseteq inserted'
        /\ status' = [status EXCEPT ![q] = "ok"] /\ UNCHANGED <<config, cached, fanouts>>
    BY <1>10 DEF QuerySucceeds, Answer, Goto, Decide
  <2>2. q \notin spoiled'
    BY <1>n, <2>1 DEF Blocking, DbKinds
  <2>3. Honest(q, "ok")
    BY <2>1, <2>2 DEF Honest, DbKinds
  <2> QED
    BY <1>b, <1>k, <1>u, <2>1, <2>3
<1>11. ASSUME NEW q \in Requests, RedisRefuses(q) PROVE AnswersHonest'
  <2>1. q \in spoiled' /\ UNCHANGED <<calls, running>> /\ spoiled' \in {spoiled, spoiled \cup {q}}
    BY <1>11, <1>s DEF RedisRefuses
  <2>2. Honest(q, "error")
    BY <2>1 DEF Honest
  <2> QED
    BY <1>11, <1>b, <1>k, <2>1, <2>2 DEF RedisRefuses, Answer, Decide
<1>12. ASSUME NEW q \in Requests, Get(q) PROVE AnswersHonest'
  <2>1. phase[q] = "get" /\ kind = "cache" /\ UNCHANGED <<config, cached, inserted>>
    <3>1. phase[q] = "get"
      BY <1>12 DEF Get, Miss, Answer, Continue, Goto
    <3> QED
      BY <1>12, <3>1 DEF Get, PhasesInStep
  <2>2. UNCHANGED fanouts \/ Spoil(q)
    BY <1>12 DEF Get
  <2>3. UNCHANGED <<calls, running>> /\ spoiled' \in {spoiled, spoiled \cup {q}}
    BY <1>s, <1>u, <2>2
  <2>4. CASE cached /\ Answer(q, "get", "ok") /\ UNCHANGED fanouts
    <3>1. q \in spoiled' => server = "go" /\ kind = "cache"
      BY <1>n, <2>1, <2>4 DEF Blocking
    <3>2. Honest(q, "ok")
      BY <1>k, <2>1, <2>4, <3>1 DEF Honest
    <3> QED
      BY <1>b, <1>k, <2>1, <2>3, <2>4, <3>2 DEF Answer, Decide
  <2>5. CASE Continue(q, "get", "wantDb") /\ UNCHANGED fanouts
    BY <1>a, <2>1, <2>5 DEF Continue
  <2>6. CASE Continue(q, "get", "wantDb") /\ server = "go"
    <3>1. \A p \in Requests : p \in spoiled => p \in spoiled'
      BY <2>3
    <3>2. \A p \in Requests : status'[p] = status[p] /\ calls'[p] = calls[p] /\ running'[p] = running[p]
      BY <2>3, <2>6 DEF Continue
    <3> QED
      BY <2>1, <2>6, <3>1, <3>2 DEF AnswersHonest
  <2>7. CASE ~hasDb /\ Answer(q, "get", "notFound")
    <3>1. Honest(q, "notFound")
      BY <2>1, <2>7 DEF Honest
    <3> QED
      BY <1>b, <1>k, <2>1, <2>3, <2>7, <3>1 DEF Answer, Decide
  <2>8. CASE Answer(q, "get", "error") /\ Spoil(q)
    <3>1. Honest(q, "error")
      BY <1>s, <2>8 DEF Honest
    <3> QED
      BY <1>b, <1>k, <2>1, <2>3, <2>8, <3>1 DEF Answer, Decide
  <2> QED
    BY <1>12, <2>4, <2>5, <2>6, <2>7, <2>8 DEF Get, Miss
<1>13. ASSUME NEW q \in Requests, Set(q) PROVE AnswersHonest'
  <2>1. PICK s \in {"ok", "error"} :
          /\ Answer(q, "set", s)
          /\ \/ s = "ok" /\ UNCHANGED fanouts
             \/ s = (IF server = "go" THEN "ok" ELSE "error") /\ Spoil(q)
    BY <1>13 DEF Set
  <2>2. phase[q] = "set" /\ kind = "cache" /\ exists
    BY <2>1 DEF Answer, Goto, PhasesInStep
  <2>3. UNCHANGED <<calls, running>> /\ spoiled' \in {spoiled, spoiled \cup {q}}
    BY <1>s, <1>u, <2>1
  <2>4. /\ s = "ok" /\ q \in spoiled' => server = "go"
        /\ s = "error" => q \in spoiled'
    <3>1. q \in spoiled => server = "go"
      BY <1>n, <2>2 DEF Blocking
    <3> QED
      BY <1>s, <1>u, <2>1, <3>1
  <2>5. Honest(q, s)
    BY <2>2, <2>4 DEF Honest
  <2>6. UNCHANGED <<config, inserted>>
    BY <1>13 DEF Set
  <2> QED
    BY <1>b, <2>1, <2>2, <2>3, <2>5, <2>6 DEF Answer, Decide
<1>14. ASSUME NEW q \in Requests, PageCutShort(q) PROVE AnswersHonest'
  <2>1. Honest(q, "ok")
    BY <1>14 DEF PageCutShort, Honest
  <2> QED
    BY <1>14, <1>b, <1>k, <1>s, <2>1 DEF PageCutShort, Answer, Decide
<1>16. CASE UNCHANGED vars
  BY <1>16, <1>a DEF vars
<1>15. ASSUME NEW q \in Requests, HandlerStep(q) PROVE AnswersHonest'
  BY <1>15, <1>2, <1>3, <1>4, <1>5, <1>6, <1>7, <1>8, <1>9, <1>10, <1>11, <1>12, <1>13, <1>14 DEF HandlerStep
<1> QED
  BY <1>1, <1>15, <1>16 DEF Next, HandlersStep, LoadOver

--------------------------------------------------------------------------------
(* The theorems *)

LEMMA InitIInv == Init => IInv
<1> SUFFICES ASSUME Init PROVE IInv
  OBVIOUS
<1> USE LoadAssumption DEF Init
<1>1. TypeOK
  <2>1. {hasDb, exists, cached} \subseteq BOOLEAN
    BY Zenon
  <2> QED
    BY <2>1 DEF TypeOK
<1>2. PhasesInStep
  BY DEF PhasesInStep
<1>3. NothingLeaks
  <2>1. Cardinality(db) = 0 /\ Cardinality(redis) = 0
    BY FS_EmptySet
  <2>2. Handling = {} /\ Accepted = {}
    BY DEF Handling, OnThread, Blocking, Accepted, Requests
  <2>3. Busy = 0
    BY <2>2, BusyIs, FS_EmptySet
  <2> QED
    BY <2>1, <2>3 DEF NothingLeaks
<1>4. ClientsInStep
  <2>1. Abandoned = {}
    BY DEF Abandoned, Pending
  <2> QED
    BY <2>1, FS_EmptySet DEF ClientsInStep
<1>5. AnswersHonest
  BY DEF AnswersHonest
<1> QED
  BY <1>1, <1>2, <1>3, <1>4, <1>5 DEF IInv

LEMMA NextIInv == IInv /\ [Next]_vars => IInv'
BY TypeStep, PhasesInStepStep, NothingLeaksStep, ClientsInStepStep, AnswersHonestStep DEF IInv

\* The inductive invariant holds in every reachable state.
THEOREM Invariance == Spec => []IInv
BY InitIInv, NextIInv, PTL DEF Spec

\* Every variable of a server and its clients keeps its type.
THEOREM TypeCorrect == Spec => []TypeOK
<1>1. IInv => TypeOK
  BY DEF IInv
<1> QED
  BY Invariance, <1>1, PTL

\* No path through a handler leaks a connection, and no pool hands out more than it
\* has, of connections or of threads.
THEOREM ConnectionsAreReturned == Spec => []NothingLeaks
<1>1. IInv => NothingLeaks
  BY DEF IInv
<1> QED
  BY Invariance, <1>1, PTL

\* Each fanout that waits for its calls has a client that waits or gave up.
LEMMA BlockedBounded ==
  ASSUME TypeOK, ClientsInStep
  PROVE  LET blocked == {q \in Requests : phase[q] = "join"} IN
         /\ Cardinality(blocked) \in Nat /\ Cardinality(Waiting) \in Nat
         /\ Cardinality(blocked) <= Cardinality(Waiting) + giveUps
         /\ Cardinality(Waiting) <= Cardinality(Clients)
<1> DEFINE blocked == {q \in Requests : phase[q] = "join"}
<1> DEFINE served == {current[c] : c \in Waiting}
<1>1. /\ IsFiniteSet(Waiting) /\ Cardinality(Waiting) \in Nat
      /\ Cardinality(Waiting) <= Cardinality(Clients)
  <2>1. Waiting \subseteq Clients
    BY DEF Waiting
  <2> QED
    BY <2>1, LoadAssumption, FS_Subset, FS_CardinalityType
<1>2. IsFiniteSet(served) /\ Cardinality(served) <= Cardinality(Waiting)
  <2>1. [c \in Waiting |-> current[c]] \in Surjection(Waiting, served)
    BY DEF Surjection
  <2> QED
    BY <1>1, <2>1, FS_Surjection
<1>3. IsFiniteSet(Abandoned) /\ Cardinality(Abandoned) \in Nat /\ Cardinality(Abandoned) <= giveUps
      /\ giveUps \in Nat
  BY RequestsFinite DEF Abandoned, Pending, ClientsInStep, TypeOK
<1>4. blocked \subseteq served \cup Abandoned
  <2> SUFFICES ASSUME NEW q \in Requests, phase[q] = "join", q \notin Abandoned PROVE q \in served
    OBVIOUS
  <2>1. PICK c \in Clients : current[c] = q
    BY DEF Abandoned, Pending
  <2>2. q # 0
    BY DEF Requests
  <2> QED
    BY <2>1, <2>2 DEF Waiting
<1> HIDE DEF served
<1>5. Cardinality(served) \in Nat
  BY <1>2, FS_CardinalityType
<1>6. /\ IsFiniteSet(served \cup Abandoned)
      /\ Cardinality(served \cup Abandoned) <= Cardinality(served) + Cardinality(Abandoned)
  <2>1. /\ IsFiniteSet(served \cup Abandoned)
        /\ Cardinality(served \cup Abandoned) =
             Cardinality(served) + Cardinality(Abandoned) - Cardinality(served \cap Abandoned)
    BY <1>2, <1>3, FS_Union
  <2>2. Cardinality(served \cap Abandoned) \in Nat
    <3>1. served \cap Abandoned \subseteq served
      OBVIOUS
    <3> QED
      BY <1>2, <3>1, FS_Subset, FS_CardinalityType
  <2> QED
    BY <1>3, <1>5, <2>1, <2>2
<1>7. Cardinality(blocked) <= Cardinality(served \cup Abandoned) /\ IsFiniteSet(blocked)
  BY <1>4, <1>6, FS_Subset
<1>8. Cardinality(blocked) \in Nat /\ Cardinality(served \cup Abandoned) \in Nat
  BY <1>6, <1>7, FS_CardinalityType
<1>9. Cardinality(blocked) <= Cardinality(Waiting) + giveUps
  <2> HIDE DEF blocked
  <2> QED
    BY <1>1, <1>2, <1>3, <1>5, <1>6, <1>7, <1>8
<1> QED
  BY <1>1, <1>8, <1>9

\* With less load than threads, the fanouts leave a thread for their calls: whoever
\* waits for a call does not wait for all the others who do.
THEOREM FanoutsAreUnstarved == Spec => []Unstarved
<1>1. IInv => Unstarved
  <2> SUFFICES ASSUME IInv PROVE Unstarved
    OBVIOUS
  <2> DEFINE blocked == {q \in Requests : phase[q] = "join"}
  <2>1. /\ Cardinality(blocked) \in Nat /\ Cardinality(Waiting) \in Nat
        /\ Cardinality(blocked) <= Cardinality(Waiting) + giveUps
        /\ Cardinality(Waiting) <= Cardinality(Clients)
    BY BlockedBounded DEF IInv
  <2>2. giveUps \in 0 .. MaxGiveUps /\ MaxGiveUps \in Nat /\ Threads \in Nat
        /\ Cardinality(Clients) + MaxGiveUps < Threads /\ Cardinality(Clients) \in Nat
    BY LoadAssumption, FS_CardinalityType DEF IInv, TypeOK
  <2>3. Cardinality(blocked) < Threads
    <3> HIDE DEF blocked
    <3> QED
      BY <2>1, <2>2
  <2> QED
    BY <2>1, <2>3 DEF Unstarved
<1> QED
  BY Invariance, <1>1, PTL

\* An answer says what has happened.  Of all the answers that were decided after a
\* failure, only Go's 404, its cache and its page say something else than an error.
THEOREM AnswersAreHonest == Spec => []AnswersHonest
<1>1. IInv => AnswersHonest
  BY DEF IInv
<1> QED
  BY Invariance, <1>1, PTL

================================================================================
