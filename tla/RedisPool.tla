------------------------------- MODULE RedisPool --------------------------------
(***************************************************************************)
(* The Redis connection pools of the API servers, three implementations of *)
(* one idea: redisConnectionPool (benchmarks/go/cmd/api/main.go), and the  *)
(* classes RedisConnectionPool of Java and of PerfApi/Program.cs.  A       *)
(* request borrows a connection, writes one command, reads one reply and   *)
(* puts the connection back, whatever happened on it.                      *)
(*                                                                         *)
(* The protocol matches replies to commands by their order only, so what   *)
(* matters is what a client leaves unread on a connection: Go reads a line *)
(* before it looks at it, the others look at the first byte alone; .NET    *)
(* gives up in the middle when its request is aborted.                     *)
(*                                                                         *)
(* Abstracted: a reply is one token, [form, cmd], where cmd is the command *)
(* it answers; the rest of a reply whose first byte was read is one token  *)
(* "junk".  A command is written as a whole or not at all.                 *)
(***************************************************************************)
EXTENDS Naturals, Sequences, FiniteSets

CONSTANTS
  Clients,      (* requests that use the pool concurrently                 *)
  Connections,  (* the pool, 64 connections by default                     *)
  MaxCommands   (* bound: commands one client sends                        *)

ASSUME PoolAssumption ==
  IsFiniteSet(Clients) /\ IsFiniteSet(Connections) /\ MaxCommands \in Nat

Platforms == {"go", "java", "dotnet"}
NoConnection == "noConnection"
ASSUME NoConnectionAssumption == NoConnection \notin Connections

Commands == [client : Clients, number : 0 .. MaxCommands, verb : {"get", "set"}]

\* A reply is a bulk string, the nil of a missing key, +OK, an error; or the part
\* of a bulk string that arrived before the connection broke; or a rest.
Forms == {"bulk", "nil", "ok", "error", "cut", "junk"}
Token(f, cmd) == [form |-> f, cmd |-> cmd]
Tokens == [form : Forms, cmd : Commands]

VARIABLES
  platform,
  queue,    (* the connections nobody has borrowed                         *)
  permits,  (* SemaphoreSlim.CurrentCount (.NET only)                      *)
  pc,       (* where each client is                                        *)
  command,  (* its current or last command                                 *)
  held,     (* the connection it has borrowed                              *)
  answer,   (* what its last command returned                              *)
  pending,  (* per connection: commands Redis has not answered             *)
  stream,   (* per connection: what the client side has not read           *)
  broken,   (* connections that are closed; they stay in the pool          *)
  upset     (* connections of which a reply was left unread, or is cut     *)

pool == <<queue, permits>>
client == <<pc, command, held, answer>>
wire == <<pending, stream, broken>>
vars == <<platform, pool, client, wire, upset>>

NoAnswer == [form |-> "none"]
Failed == [form |-> "failed"]

Init ==
  /\ platform \in Platforms
  /\ queue \in {q \in [1 .. Cardinality(Connections) -> Connections] :
                  \A k \in Connections : \E i \in DOMAIN q : q[i] = k}
  /\ permits = Cardinality(Connections)
  /\ pc = [c \in Clients |-> "idle"]
  /\ command = [c \in Clients |-> [client |-> c, number |-> 0, verb |-> "get"]]
  /\ held = [c \in Clients |-> NoConnection]
  /\ answer = [c \in Clients |-> NoAnswer]
  /\ pending = [k \in Connections |-> <<>>]
  /\ stream = [k \in Connections |-> <<>>]
  /\ broken = {} /\ upset = {}

Goto(c, from, to) == pc[c] = from /\ pc' = [pc EXCEPT ![c] = to]

--------------------------------------------------------------------------------
(* Borrowing a connection *)

\* get or set of the pool is called.
Call(c) ==
  /\ Goto(c, "idle", "wait")
  /\ command[c].number < MaxCommands
  /\ \E v \in {"get", "set"} :
       command' = [command EXCEPT ![c].number = @ + 1, ![c].verb = v]
  /\ answer' = [answer EXCEPT ![c] = NoAnswer]
  /\ UNCHANGED <<platform, pool, held, wire, upset>>

Take(c) ==
  /\ held' = [held EXCEPT ![c] = Head(queue)]
  /\ queue' = Tail(queue)

\* The channel of Go and the ArrayBlockingQueue of Java block while empty.
Borrow(c) ==
  /\ platform # "dotnet"
  /\ queue # <<>>
  /\ Goto(c, "wait", "send")
  /\ Take(c)
  /\ UNCHANGED <<platform, permits, command, answer, wire, upset>>

\* .NET: WaitAsync first, TryDequeue afterwards, which throws on an empty queue.
AcquirePermit(c) ==
  /\ platform = "dotnet"
  /\ permits > 0
  /\ Goto(c, "wait", "dequeue")
  /\ permits' = permits - 1
  /\ UNCHANGED <<platform, queue, command, held, answer, wire, upset>>

Dequeue(c) ==
  /\ IF queue = <<>> THEN Goto(c, "dequeue", "exhausted") /\ UNCHANGED <<held, queue>>
                     ELSE Goto(c, "dequeue", "send") /\ Take(c)
  /\ UNCHANGED <<platform, permits, command, answer, wire, upset>>

--------------------------------------------------------------------------------
(* One command on the borrowed connection *)

\* What is written to a closed connection is lost, or the write fails: Receive.
Send(c) ==
  /\ Goto(c, "send", "read")
  /\ pending' = IF held[c] \in broken THEN pending
                  ELSE [pending EXCEPT ![held[c]] = Append(@, command[c])]
  /\ UNCHANGED <<platform, pool, command, held, answer, stream, broken, upset>>

\* Redis answers the commands of a connection in order.
Reply(k) ==
  /\ pending[k] # <<>>
  /\ LET cmd == Head(pending[k])
         forms == IF cmd.verb = "get" THEN {"bulk", "nil", "error"} ELSE {"ok", "error"}
     IN \E f \in forms : stream' = [stream EXCEPT ![k] = Append(@, Token(f, cmd))]
  /\ pending' = [pending EXCEPT ![k] = Tail(@)]
  /\ UNCHANGED <<platform, pool, client, broken, upset>>

\* Redis closes the connection, or restarts; of its reply to a get, part may have
\* arrived.  Java's readNBytes returns that part as if it were the whole.
Break(k) ==
  /\ k \notin broken
  /\ broken' = broken \cup {k}
  /\ \/ UNCHANGED <<stream, upset>>
     \/ /\ pending[k] # <<>> /\ Head(pending[k]).verb = "get"
        /\ stream' = [stream EXCEPT ![k] = Append(@, Token("cut", Head(pending[k])))]
        /\ upset' = IF platform = "java" THEN upset \cup {k} ELSE upset
  /\ pending' = [pending EXCEPT ![k] = <<>>]
  /\ UNCHANGED <<platform, pool, client>>

Expected(v) == IF v = "get" THEN {"bulk", "nil"} ELSE {"ok"}

\* Mutant: the first byte of a reply is not looked at.
AcceptsAnything(v, f) == f # "cut"

\* What the reader takes for the reply to a command of this verb.
Accepts(v, f) ==
  \/ f \in Expected(v)
  \/ platform = "java" /\ v = "get" /\ f = "cut"

\* Mutant: the Go reader, too, looks at the first byte before it reads the line.
RestOfByte(t) ==
  CASE t.form = "cut" -> {<<>>}
    [] t.form = "junk" -> {<<>>, <<t>>}
    [] OTHER -> {<<Token("junk", t.cmd)>>}

\* What may be left of a reply that is not accepted.  Go has read its first line, or the
\* line that was left of it; Java and .NET its first byte, or one more of its bytes, which
\* may be the last.  After a cut there is only the end of the stream.
Rest(t) ==
  CASE t.form = "cut" -> {<<>>}
    [] platform = "go" /\ t.form # "bulk" -> {<<>>}
    [] platform # "go" /\ t.form = "junk" -> {<<>>, <<t>>}
    [] OTHER -> {<<Token("junk", t.cmd)>>}

\* readBulk, readSimple, and the read of set in Go.
Receive(c) ==
  LET k == held[c]  t == Head(stream[k]) IN
  /\ Goto(c, "read", "putBack")
  /\ stream[k] # <<>>
  /\ IF Accepts(command[c].verb, t.form)
       THEN /\ answer' = [answer EXCEPT ![c] = t]
            /\ stream' = [stream EXCEPT ![k] = Tail(@)]
            /\ UNCHANGED upset
       ELSE /\ answer' = [answer EXCEPT ![c] = Failed]
            /\ \E rest \in Rest(t) :
                 /\ stream' = [stream EXCEPT ![k] = rest \o Tail(@)]
                 /\ upset' = IF rest # <<>> THEN upset \cup {k} ELSE upset
  /\ UNCHANGED <<platform, pool, command, held, pending, broken>>

\* Mutant: readLine does not stop at the end of the stream.
ReadPastEnd(c) ==
  /\ pc[c] = "read"
  /\ held[c] \in broken /\ stream[held[c]] = <<>>
  /\ UNCHANGED vars

\* The end of the stream: no reader takes it for a reply.
ReceiveEnd(c) ==
  /\ Goto(c, "read", "putBack")
  /\ held[c] \in broken /\ stream[held[c]] = <<>>
  /\ answer' = [answer EXCEPT ![c] = Failed]
  /\ UNCHANGED <<platform, pool, command, held, wire, upset>>

\* Mutant: a request that is aborted while it waits releases a permit as well.
AbortedReleasesPermit(c) ==
  /\ platform = "dotnet"
  /\ Goto(c, "wait", "permit")
  /\ answer' = [answer EXCEPT ![c] = Failed]
  /\ UNCHANGED <<platform, pool, command, held, wire, upset>>

\* RequestAborted is cancelled: the client of the server has gone.  The other
\* servers have no such token in their pools.
Aborted(c) ==
  /\ platform = "dotnet"
  /\ answer' = [answer EXCEPT ![c] = Failed]
  /\ \/ Goto(c, "wait", "idle") /\ UNCHANGED <<stream, upset>>
     \/ Goto(c, "send", "putBack") /\ UNCHANGED <<stream, upset>>
     \/ /\ Goto(c, "read", "putBack")
        /\ upset' = upset \cup {held[c]}
        /\ stream' \in {stream,
             [stream EXCEPT ![held[c]] =
                IF @ = <<>> THEN @ ELSE <<Token("junk", Head(@).cmd)>> \o Tail(@)]}
  /\ UNCHANGED <<platform, pool, command, held, pending, broken>>

--------------------------------------------------------------------------------
(* Putting it back: deferred, or in a finally clause *)

\* Mutant: a connection on which a command failed is not put back.
PutBackOnSuccess(c) ==
  /\ Goto(c, "putBack", IF platform = "dotnet" THEN "permit" ELSE "idle")
  /\ queue' = IF answer[c] = Failed THEN queue ELSE Append(queue, held[c])
  /\ held' = [held EXCEPT ![c] = NoConnection]
  /\ UNCHANGED <<platform, permits, command, answer, wire, upset>>

\* Mutant: Release releases the semaphore before it enqueues the connection.
PutBackAfterPermit(c) ==
  \/ /\ pc[c] = "putBack" /\ platform = "dotnet" /\ permits < Cardinality(Connections)
     /\ permits' = permits + 1
     /\ UNCHANGED <<platform, queue, client, wire, upset>>
  \/ /\ Goto(c, "putBack", "idle")
     /\ queue' = Append(queue, held[c])
     /\ held' = [held EXCEPT ![c] = NoConnection]
     /\ UNCHANGED <<platform, permits, command, answer, wire, upset>>

PutBack(c) ==
  /\ Goto(c, "putBack", IF platform = "dotnet" THEN "permit" ELSE "idle")
  /\ queue' = Append(queue, held[c])
  /\ held' = [held EXCEPT ![c] = NoConnection]
  /\ UNCHANGED <<platform, permits, command, answer, wire, upset>>

ReleasePermit(c) ==
  /\ Goto(c, "permit", "idle")
  /\ permits' = permits + 1
  /\ UNCHANGED <<platform, queue, command, held, answer, wire, upset>>

ClientStep(c) ==
  \/ Borrow(c)
  \/ AcquirePermit(c)
  \/ Dequeue(c)
  \/ Send(c)
  \/ Receive(c)
  \/ ReceiveEnd(c)
  \/ PutBack(c)
  \/ ReleasePermit(c)

AllDone ==
  /\ \A c \in Clients : pc[c] = "idle" /\ command[c].number = MaxCommands
  /\ UNCHANGED vars

Next ==
  \/ \E c \in Clients : Call(c) \/ ClientStep(c) \/ Aborted(c)
  \/ \E k \in Connections : Reply(k) \/ Break(k)
  \/ AllDone

Spec == Init /\ [][Next]_vars

\* The servers run every request they have read, and Redis answers in the end or
\* closes the connection: there is no timeout on a read in any of the pools.
FairSpec ==
  /\ Spec
  /\ \A c \in Clients : WF_vars(ClientStep(c))
  /\ \A k \in Connections : WF_vars(Reply(k))

--------------------------------------------------------------------------------
(* Properties *)

TypeOK ==
  /\ platform \in Platforms
  /\ queue \in Seq(Connections) /\ permits \in 0 .. Cardinality(Connections)
  /\ pc \in [Clients -> {"idle", "wait", "dequeue", "send", "read", "putBack",
                         "permit", "exhausted"}]
  /\ command \in [Clients -> Commands]
  /\ held \in [Clients -> Connections \cup {NoConnection}]
  /\ answer \in [Clients -> Tokens \cup {NoAnswer, Failed}]
  /\ pending \in [Connections -> Seq(Commands)]
  /\ stream \in [Connections -> Seq(Tokens)]
  /\ broken \subseteq Connections /\ upset \subseteq Connections

\* No connection is lost or handed out twice, whatever fails on it: it is in the
\* queue once, or exactly one client between borrowing and putting back holds it.
PoolConserved ==
  \A k \in Connections :
    Cardinality({i \in DOMAIN queue : queue[i] = k})
      + Cardinality({c \in Clients : held[c] = k}) = 1

\* The .NET pool never throws "redis pool exhausted": a permit is given back only
\* after the connection has been enqueued, so every permit taken finds one.
NeverExhausted ==
  /\ \A c \in Clients : pc[c] # "exhausted"
  /\ platform = "dotnet" =>
       permits + Cardinality({c \in Clients : pc[c] = "dequeue"}) <= Len(queue)

\* Every reply accepted is the whole reply to the command of the same request, on
\* a connection that is not upset: the one just read, before it is put back.
OwnReplies ==
  \A c \in Clients :
    pc[c] = "putBack" /\ answer[c] # Failed /\ held[c] \notin upset =>
      answer[c].cmd = command[c] /\ answer[c].form \in Expected(command[c].verb)

\* What upsets a connection: nothing does in Go, whatever Redis answers.  A
\* connection that is not upset is in step: free, it has nothing pending and
\* nothing unread; borrowed, at most the command of its holder, or its reply.
InStep ==
  /\ platform = "go" => upset = {}
  /\ \A k \in Connections \ upset :
       /\ Len(pending[k]) + Len(stream[k]) <= 1
       /\ \A c \in Clients : held[c] = k =>
            /\ pc[c] \in {"send", "putBack"} => pending[k] = <<>> /\ stream[k] = <<>>
            /\ pc[c] = "read" /\ k \notin broken => Len(pending[k]) + Len(stream[k]) = 1
       /\ (\A c \in Clients : held[c] # k) => pending[k] = <<>> /\ stream[k] = <<>>

\* Every call returns, whatever the order in which the others borrow: no client
\* waits for a connection, a permit or a reply forever.
CallsReturn == \A c \in Clients : pc[c] # "idle" ~> pc[c] = "idle"

===============================================================================
