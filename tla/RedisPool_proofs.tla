---------------------------- MODULE RedisPool_proofs ----------------------------
(***************************************************************************)
(* Proofs about RedisPool, for any finite number of clients, connections   *)
(* and commands: its type invariant, that connections and permits are      *)
(* conserved, and that every accepted reply answers its own command.       *)
(***************************************************************************)
EXTENDS RedisPool, FiniteSetTheorems, SequenceTheorems, TLAPS

(***************************************************************************)
(* The inductive invariant                                                 *)
(***************************************************************************)

\* Every connection is in one place: with one client that has borrowed it, or once in
\* the queue.
Borrowed ==
  /\ \A c \in Clients : pc[c] \in {"send", "read", "putBack"} => held[c] # NoConnection
  /\ \A c \in Clients : held[c] # NoConnection => pc[c] \in {"send", "read", "putBack"}
  /\ \A c, d \in Clients : held[c] # NoConnection /\ held[c] = held[d] => c = d
  /\ \A i \in DOMAIN queue, c \in Clients : queue[i] # held[c]
  /\ \A i, j \in DOMAIN queue : queue[i] = queue[j] => i = j
  /\ \A k \in Connections :
       (\E i \in DOMAIN queue : queue[i] = k) \/ \E c \in Clients : held[c] = k

\* The clients of .NET that have a permit and no connection.
Permitted == {c \in Clients : pc[c] \in {"dequeue", "permit"}}

\* For every connection in the queue there is a permit: free, taken by a client that
\* is about to dequeue, or not yet released by one that has enqueued.
PermitsInStep ==
  /\ \A c \in Clients : pc[c] # "exhausted"
  /\ Permitted # {} => platform = "dotnet"
  /\ platform = "dotnet" => permits + Cardinality(Permitted) = Len(queue)
  /\ platform # "dotnet" => permits = Cardinality(Connections)

\* What can be on a connection that is not upset, while its client reads: the command,
\* or the reply to it, or nothing any more.
Quiet(k) == pending[k] = <<>> /\ stream[k] = <<>>

Awaits(c, k) ==
  \/ Quiet(k) /\ k \in broken
  \/ Len(pending[k]) = 1 /\ Head(pending[k]) = command[c] /\ stream[k] = <<>>
  \/ /\ pending[k] = <<>> /\ Len(stream[k]) = 1
     /\ Head(stream[k]).cmd = command[c]
     /\ Head(stream[k]).form \in Expected(command[c].verb) \cup {"error", "cut"}
     /\ Head(stream[k]).form = "cut" => platform # "java"

WireOf(k) ==
  /\ (\A c \in Clients : held[c] # k) => Quiet(k)
  /\ \A c \in Clients : held[c] = k =>
       /\ pc[c] \in {"send", "putBack"} => Quiet(k)
       /\ pc[c] = "read" => Awaits(c, k)

\* A connection that is not upset is quiet but for the command of its holder; Redis
\* answers nothing on a closed one.
WireInStep ==
  /\ platform = "go" => upset = {}
  /\ \A k \in broken : pending[k] = <<>>
  /\ \A k \in Connections \ upset : WireOf(k)

IInv ==
  /\ TypeOK
  /\ Borrowed
  /\ PermitsInStep
  /\ WireInStep
  /\ OwnReplies

--------------------------------------------------------------------------------
(* Operators *)

\* A token is a reply of some form to some command, and so are its parts.
LEMMA TokenType ==
  /\ \A f \in Forms, cmd \in Commands :
       Token(f, cmd) \in Tokens /\ Token(f, cmd).form = f /\ Token(f, cmd).cmd = cmd
  /\ \A t \in Tokens : t.form \in Forms /\ t.cmd \in Commands
  /\ \A cmd \in Commands : cmd.verb \in {"get", "set"}
BY DEF Token, Tokens, Commands

\* What a reader leaves of a token is at most one token: a rest of the same reply, and
\* nothing of a cut, nor of a line that Go has read.
LEMMA RestIsJunk ==
  ASSUME NEW t \in Tokens
  PROVE  /\ Rest(t) \subseteq {<<>>, <<t>>, <<Token("junk", t.cmd)>>}
         /\ Rest(t) \subseteq Seq(Tokens)
         /\ platform = "go" /\ t.form # "bulk" => Rest(t) = {<<>>}
<1>1. Token("junk", t.cmd) \in Tokens
  BY TokenType DEF Forms
<1>2. /\ Rest(t) \subseteq {<<>>, <<t>>, <<Token("junk", t.cmd)>>}
      /\ platform = "go" /\ t.form # "bulk" => Rest(t) = {<<>>}
  <2>1. CASE t.form = "cut"
    BY <2>1 DEF Rest
  <2>2. CASE t.form # "cut" /\ platform = "go" /\ t.form # "bulk"
    BY <2>2 DEF Rest
  <2>3. CASE t.form = "junk" /\ platform # "go"
    BY <2>3 DEF Rest
  <2>4. CASE /\ t.form # "cut" /\ ~ (platform = "go" /\ t.form # "bulk")
             /\ ~ (platform # "go" /\ t.form = "junk")
    BY <2>4 DEF Rest
  <2> QED
    BY <2>1, <2>2, <2>3, <2>4
<1>3. <<>> \in Seq(Tokens) /\ <<t>> \in Seq(Tokens) /\ <<Token("junk", t.cmd)>> \in Seq(Tokens)
  BY <1>1
<1> QED
  BY <1>2, <1>3

\* The first element and the others of a sequence that is not empty.
LEMMA HeadTail ==
  ASSUME NEW S, NEW s \in Seq(S), s # <<>>
  PROVE  Head(s) \in S /\ Tail(s) \in Seq(S) /\ Len(s) \in Nat \ {0} /\ Len(Tail(s)) = Len(s) - 1
BY HeadTailProperties, EmptySeq

\* No connection is in the queue twice, so the queue is no longer than the pool.
LEMMA QueueFits ==
  ASSUME queue \in Seq(Connections), Borrowed
  PROVE  Len(queue) \in Nat /\ Len(queue) <= Cardinality(Connections)
<1>1. Len(queue) \in Nat /\ DOMAIN queue = 1 .. Len(queue) /\ queue \in [1 .. Len(queue) -> Connections]
  BY LenProperties
<1>2. queue \in Injection(1 .. Len(queue), Connections)
  BY <1>1 DEF Borrowed, Injection, IsInjective
<1>3. Cardinality(1 .. Len(queue)) <= Cardinality(Connections)
  BY <1>2, FS_Injection, PoolAssumption
<1>4. Cardinality(1 .. Len(queue)) = Len(queue)
  BY SMTT(30), <1>1, FS_Interval
<1> QED
  BY <1>1, <1>3, <1>4

\* A client that is about to release a permit has one: there is room for it.
LEMMA PermitFits ==
  ASSUME TypeOK, Borrowed, PermitsInStep, NEW c \in Clients, pc[c] = "permit"
  PROVE  permits + 1 \in 0 .. Cardinality(Connections)
<1>1. c \in Permitted /\ platform = "dotnet"
  BY DEF Permitted, PermitsInStep
<1>2. IsFiniteSet(Permitted)
  BY PoolAssumption, FS_Subset DEF Permitted
<1>3. Cardinality(Permitted) \in Nat \ {0}
  BY <1>1, <1>2, FS_CardinalityType, FS_EmptySet
<1>4. permits + Cardinality(Permitted) = Len(queue) /\ permits \in Nat
  BY <1>1 DEF PermitsInStep, TypeOK
<1>5. Len(queue) \in Nat /\ Len(queue) <= Cardinality(Connections)
  BY QueueFits DEF TypeOK
<1>6. Cardinality(Connections) \in Nat
  BY PoolAssumption, FS_CardinalityType
<1> QED
  BY <1>3, <1>4, <1>5, <1>6

--------------------------------------------------------------------------------
(* Each conjunct is kept by each step *)

\* Every step keeps every variable in its type.
LEMMA TypeStep == TypeOK /\ Borrowed /\ PermitsInStep /\ [Next]_vars => TypeOK'
<1> SUFFICES ASSUME TypeOK, Borrowed, PermitsInStep, [Next]_vars PROVE TypeOK'
  OBVIOUS
<1> USE DEF TypeOK, pool, client, wire
<1>a. \A c \in Clients : held[c] # NoConnection => held[c] \in Connections
  OBVIOUS
<1>b. \A c \in Clients : pc[c] \in {"send", "read", "putBack"} => held[c] \in Connections
  BY <1>a DEF Borrowed
<1>c. queue # <<>> => Head(queue) \in Connections /\ Tail(queue) \in Seq(Connections)
  BY HeadTail
<1>d. \A k \in Connections : pending[k] # <<>> =>
        Head(pending[k]) \in Commands /\ Tail(pending[k]) \in Seq(Commands)
  BY HeadTail
<1>e. \A k \in Connections : stream[k] # <<>> =>
        Head(stream[k]) \in Tokens /\ Tail(stream[k]) \in Seq(Tokens)
  BY HeadTail
<1>f. Cardinality(Connections) \in Nat /\ MaxCommands \in Nat
  BY PoolAssumption, FS_CardinalityType
<1>1. ASSUME NEW c \in Clients, Call(c) PROVE TypeOK'
  <2>1. command' \in [Clients -> Commands]
    <3>1. PICK v \in {"get", "set"} :
            command' = [command EXCEPT ![c].number = @ + 1, ![c].verb = v]
      BY <1>1 DEF Call
    <3>2. command[c].number \in 0 .. MaxCommands /\ command[c].number < MaxCommands
      BY <1>1 DEF Call, Commands
    <3>3. command[c].number + 1 \in 0 .. MaxCommands
      BY <1>f, <3>2
    <3> QED
      BY ZenonT(40), <3>1, <3>3 DEF Commands
  <2> QED
    BY <1>1, <2>1 DEF Call, Goto
<1>2. ASSUME NEW c \in Clients, Borrow(c) \/ Dequeue(c) PROVE TypeOK'
  BY <1>2, <1>c DEF Borrow, Dequeue, Goto, Take
<1>3. ASSUME NEW c \in Clients, AcquirePermit(c) PROVE TypeOK'
  BY <1>3, <1>f DEF AcquirePermit, Goto
<1>4. ASSUME NEW c \in Clients, Send(c) PROVE TypeOK'
  BY <1>4, <1>b, AppendProperties DEF Send, Goto
<1>5. ASSUME NEW c \in Clients, Receive(c) PROVE TypeOK'
  <2> DEFINE k == held[c]  t == Head(stream[k])
  <2>1. k \in Connections /\ t \in Tokens /\ Tail(stream[k]) \in Seq(Tokens)
    BY <1>5, <1>b, <1>e DEF Receive, Goto
  <2>2. \A rest \in Rest(t) : rest \o Tail(stream[k]) \in Seq(Tokens)
    BY <2>1, RestIsJunk, ConcatProperties
  <2>3. stream' = [stream EXCEPT ![k] = Tail(@)]
        \/ \E rest \in Rest(t) : stream' = [stream EXCEPT ![k] = rest \o Tail(@)]
    BY <1>5 DEF Receive
  <2>4. stream' \in [Connections -> Seq(Tokens)]
    BY <2>1, <2>2, <2>3
  <2>5. answer' \in [Clients -> Tokens \cup {NoAnswer, Failed}]
    BY <1>5, <2>1 DEF Receive
  <2>6. upset' \subseteq Connections
    BY <1>5, <2>1 DEF Receive
  <2> QED
    BY <1>5, <2>4, <2>5, <2>6 DEF Receive, Goto
<1>6. ASSUME NEW c \in Clients, ReceiveEnd(c) PROVE TypeOK'
  BY <1>6 DEF ReceiveEnd, Goto
<1>7. ASSUME NEW c \in Clients, PutBack(c) PROVE TypeOK'
  BY <1>7, <1>b, AppendProperties DEF PutBack, Goto
<1>8. ASSUME NEW c \in Clients, ReleasePermit(c) PROVE TypeOK'
  BY <1>8, PermitFits DEF ReleasePermit, Goto
<1>9. ASSUME NEW c \in Clients, Aborted(c) PROVE TypeOK'
  <2>1. stream' \in [Connections -> Seq(Tokens)] /\ upset' \subseteq Connections
    <3>1. CASE UNCHANGED <<stream, upset>>
      BY <3>1
    <3>2. CASE ~ UNCHANGED <<stream, upset>>
      <4> DEFINE k == held[c]  t == Head(stream[k])
      <4>1. k \in Connections
        BY <1>9, <1>b, <3>2 DEF Aborted, Goto
      <4>2. /\ upset' = upset \cup {k}
            /\ stream' \in {stream, [stream EXCEPT ![k] =
                 IF @ = <<>> THEN @ ELSE <<Token("junk", t.cmd)>> \o Tail(@)]}
        BY <1>9, <3>2 DEF Aborted
      <4>3. stream[k] # <<>> => <<Token("junk", t.cmd)>> \o Tail(stream[k]) \in Seq(Tokens)
        <5>1. stream[k] # <<>> => <<Token("junk", t.cmd)>> \in Seq(Tokens)
          BY <4>1, <1>e, TokenType DEF Forms
        <5> QED
          BY <4>1, <1>e, <5>1, ConcatProperties
      <4> QED
        BY ZenonT(40), <4>1, <4>2, <4>3
    <3> QED
      BY <3>1, <3>2
  <2> QED
    BY <1>9, <2>1 DEF Aborted, Goto
<1>10. ASSUME NEW k \in Connections, Reply(k) PROVE TypeOK'
  <2> DEFINE cmd == Head(pending[k])
  <2>1. pending[k] # <<>> /\ cmd \in Commands
    BY <1>10, <1>d DEF Reply
  <2>2. PICK f \in Forms : stream' = [stream EXCEPT ![k] = Append(@, Token(f, cmd))]
    BY <1>10 DEF Reply, Forms
  <2>3. stream' \in [Connections -> Seq(Tokens)]
    BY <2>1, <2>2, TokenType, AppendProperties
  <2> QED
    BY <1>10, <1>d, <2>1, <2>3 DEF Reply
<1>11. ASSUME NEW k \in Connections, Break(k) PROVE TypeOK'
  <2>1. stream' \in [Connections -> Seq(Tokens)]
    <3>1. CASE UNCHANGED stream
      BY <3>1
    <3>2. CASE /\ pending[k] # <<>>
               /\ stream' = [stream EXCEPT ![k] = Append(@, Token("cut", Head(pending[k])))]
      BY <3>2, <1>d, TokenType, AppendProperties DEF Forms
    <3> QED
      BY <1>11, <3>1, <3>2 DEF Break
  <2>2. upset' \subseteq Connections
    BY <1>11 DEF Break
  <2>3. pending' \in [Connections -> Seq(Commands)]
    BY <1>11 DEF Break
  <2> QED
    BY <1>11, <2>1, <2>2, <2>3 DEF Break
<1>12. CASE UNCHANGED vars
  BY <1>12 DEF vars
<1> HIDE DEF TypeOK, pool, client, wire
<1> QED
  BY <1>1, <1>2, <1>3, <1>4, <1>5, <1>6, <1>7, <1>8, <1>9, <1>10, <1>11, <1>12
     DEF Next, ClientStep, AllDone

\* A connection that is taken from the queue is no longer there, ...
LEMMA TakeMoves ==
  ASSUME TypeOK, Borrowed, NEW c \in Clients, held[c] = NoConnection, queue # <<>>,
         Take(c), pc' = [pc EXCEPT ![c] = "send"]
  PROVE  Borrowed'
<1>1. /\ Len(queue) \in Nat \ {0} /\ DOMAIN queue = 1 .. Len(queue)
      /\ DOMAIN queue' = 1 .. Len(queue) - 1
      /\ \A i \in DOMAIN queue' : queue'[i] = queue[i + 1]
  BY HeadTailProperties, LenProperties, EmptySeq DEF TypeOK, Take
<1>2. Head(queue) = queue[1] /\ queue[1] \in Connections
  BY HeadTailProperties, LenProperties, <1>1 DEF TypeOK
<1>3. /\ held' \in [Clients -> Connections \cup {NoConnection}]
      /\ held'[c] = queue[1] /\ \A d \in Clients \ {c} : held'[d] = held[d]
  BY <1>2 DEF TypeOK, Take
<1>4. pc'[c] = "send" /\ \A d \in Clients \ {c} : pc'[d] = pc[d]
  BY DEF TypeOK
<1>5. NoConnection' = NoConnection /\ queue[1] # NoConnection
  BY <1>2, NoConnectionAssumption DEF NoConnection
<1>6. \A d \in Clients : held'[d] # NoConnection => pc'[d] \in {"send", "read", "putBack"}
  BY <1>3, <1>4 DEF Borrowed
<1>7. \A d \in Clients : pc'[d] \in {"send", "read", "putBack"} => held'[d] # NoConnection
  BY <1>3, <1>4, <1>5 DEF Borrowed
<1>8. \A d, e \in Clients : held'[d] # NoConnection /\ held'[d] = held'[e] => d = e
  BY <1>1, <1>3 DEF Borrowed
<1>9. \A i \in DOMAIN queue', d \in Clients : queue'[i] # held'[d]
  <2> SUFFICES ASSUME NEW i \in DOMAIN queue', NEW d \in Clients PROVE queue'[i] # held'[d]
    OBVIOUS
  <2>1. i + 1 \in DOMAIN queue /\ 1 \in DOMAIN queue /\ queue'[i] = queue[i + 1] /\ i + 1 # 1
    BY <1>1
  <2>2. CASE d = c
    BY <1>3, <2>1, <2>2 DEF Borrowed
  <2>3. CASE d # c
    BY <1>3, <2>1, <2>3 DEF Borrowed
  <2> QED
    BY <2>2, <2>3
<1>10. \A i, j \in DOMAIN queue' : queue'[i] = queue'[j] => i = j
  <2> SUFFICES ASSUME NEW i \in DOMAIN queue', NEW j \in DOMAIN queue', queue'[i] = queue'[j]
               PROVE  i = j
    OBVIOUS
  <2>1. i + 1 \in DOMAIN queue /\ j + 1 \in DOMAIN queue /\ queue[i + 1] = queue[j + 1]
    BY <1>1
  <2>2. i + 1 = j + 1
    BY <2>1 DEF Borrowed
  <2> QED
    BY <1>1, <2>2
<1>11. \A k \in Connections :
         (\E i \in DOMAIN queue' : queue'[i] = k) \/ \E d \in Clients : held'[d] = k
  <2> SUFFICES ASSUME NEW k \in Connections, ~ \E d \in Clients : held'[d] = k
               PROVE  \E i \in DOMAIN queue' : queue'[i] = k
    OBVIOUS
  <2>1. ~ \E d \in Clients : held[d] = k
    BY <1>3, NoConnectionAssumption
  <2>2. PICK i \in DOMAIN queue : queue[i] = k
    BY <2>1 DEF Borrowed
  <2>3. i # 1
    BY <1>3, <2>2
  <2>4. i - 1 \in DOMAIN queue' /\ queue'[i - 1] = k
    BY <1>1, <2>2, <2>3
  <2> QED
    BY <2>4
<1> QED
  BY <1>5, <1>6, <1>7, <1>8, <1>9, <1>10, <1>11 DEF Borrowed

\* ... and one that is put back is there once.
LEMMA PutMoves ==
  ASSUME TypeOK, Borrowed, NEW c \in Clients, pc[c] = "putBack",
         queue' = Append(queue, held[c]), held' = [held EXCEPT ![c] = NoConnection],
         NEW p \in {"idle", "permit"}, pc' = [pc EXCEPT ![c] = p]
  PROVE  Borrowed'
<1>1. held[c] \in Connections /\ held[c] # NoConnection
  BY DEF TypeOK, Borrowed
<1>2. /\ Len(queue) \in Nat /\ DOMAIN queue = 1 .. Len(queue)
      /\ DOMAIN queue' = 1 .. Len(queue) + 1
      /\ \A i \in DOMAIN queue : queue'[i] = queue[i]
      /\ queue'[Len(queue) + 1] = held[c]
  <2>1. queue \in Seq(Connections)
    BY DEF TypeOK
  <2>2. Append(queue, held[c]) \in Seq(Connections)
    BY <1>1, <2>1, AppendProperties
  <2>3. DOMAIN queue' = 1 .. Len(queue')
    BY <2>2, LenProperties
  <2> QED
    BY <1>1, <2>1, <2>3, AppendProperties, LenProperties
<1>3. /\ held'[c] = NoConnection /\ pc'[c] = p
      /\ \A d \in Clients \ {c} : held'[d] = held[d] /\ pc'[d] = pc[d]
  BY DEF TypeOK
<1>4. NoConnection' = NoConnection
  BY DEF NoConnection
<1>5. \A d \in Clients : held'[d] # NoConnection => pc'[d] \in {"send", "read", "putBack"}
  BY <1>3 DEF Borrowed
<1>6. \A d \in Clients : pc'[d] \in {"send", "read", "putBack"} => held'[d] # NoConnection
  BY <1>3 DEF Borrowed
<1>7. \A d, e \in Clients : held'[d] # NoConnection /\ held'[d] = held'[e] => d = e
  BY <1>3 DEF Borrowed
<1>8. \A i \in DOMAIN queue', d \in Clients : queue'[i] # held'[d]
  <2> SUFFICES ASSUME NEW i \in DOMAIN queue', NEW d \in Clients PROVE queue'[i] # held'[d]
    OBVIOUS
  <2>1. CASE i = Len(queue) + 1
    BY <1>1, <1>2, <1>3, <2>1 DEF Borrowed
  <2>2. CASE i # Len(queue) + 1
    <3>1. i \in DOMAIN queue /\ queue'[i] = queue[i] /\ queue[i] \in Connections
      BY <1>2, <2>2, ElementOfSeq DEF TypeOK
    <3> QED
      BY <1>3, <3>1, NoConnectionAssumption DEF Borrowed
  <2> QED
    BY <2>1, <2>2
<1>9. \A i, j \in DOMAIN queue' : queue'[i] = queue'[j] => i = j
  <2> SUFFICES ASSUME NEW i \in DOMAIN queue', NEW j \in DOMAIN queue', queue'[i] = queue'[j]
               PROVE  i = j
    OBVIOUS
  <2>1. \A n \in DOMAIN queue' : n \in DOMAIN queue \/ n = Len(queue) + 1
    BY <1>2
  <2>2. \A n \in DOMAIN queue : queue'[n] # held[c]
    BY <1>2 DEF Borrowed
  <2> QED
    BY <1>2, <2>1, <2>2 DEF Borrowed
<1>10. \A k \in Connections :
         (\E i \in DOMAIN queue' : queue'[i] = k) \/ \E d \in Clients : held'[d] = k
  <2> SUFFICES ASSUME NEW k \in Connections, ~ \E d \in Clients : held'[d] = k
               PROVE  \E i \in DOMAIN queue' : queue'[i] = k
    OBVIOUS
  <2>1. CASE held[c] = k
    BY <1>2, <2>1
  <2>2. CASE held[c] # k
    <3>1. ~ \E d \in Clients : held[d] = k
      BY <1>3, <2>2
    <3>2. PICK i \in DOMAIN queue : queue[i] = k
      BY <3>1 DEF Borrowed
    <3> QED
      BY <1>2, <3>2
  <2> QED
    BY <2>1, <2>2
<1> QED
  BY <1>4, <1>5, <1>6, <1>7, <1>8, <1>9, <1>10 DEF Borrowed

\* The other steps move no connection, and no client into or out of a borrow.
LEMMA BorrowedStep == TypeOK /\ Borrowed /\ [Next]_vars => Borrowed'
<1> SUFFICES ASSUME TypeOK, Borrowed, [Next]_vars PROVE Borrowed'
  OBVIOUS
<1> USE DEF pool, client, wire
<1>0. pc \in [Clients -> {"idle", "wait", "dequeue", "send", "read", "putBack",
                          "permit", "exhausted"}]
  BY DEF TypeOK
<1>a. ASSUME UNCHANGED <<queue, held>>,
             \A c \in Clients : pc'[c] \in {"send", "read", "putBack"} =>
                                  pc[c] \in {"send", "read", "putBack"},
             \A c \in Clients : pc[c] \in {"send", "read", "putBack"} =>
                                  pc'[c] \in {"send", "read", "putBack"}
      PROVE  Borrowed'
  BY <1>a DEF Borrowed, NoConnection
<1>1. ASSUME NEW c \in Clients, Borrow(c) \/ Dequeue(c) PROVE Borrowed'
  <2>1. CASE queue = <<>>
    BY <1>0, <1>1, <1>a, <2>1 DEF Borrow, Dequeue, Goto
  <2>2. CASE queue # <<>>
    <3>1. pc[c] \in {"wait", "dequeue"} /\ Take(c) /\ pc' = [pc EXCEPT ![c] = "send"]
      BY <1>1, <2>2 DEF Borrow, Dequeue, Goto
    <3>2. held[c] = NoConnection
      BY <3>1 DEF Borrowed
    <3> QED
      BY <2>2, <3>1, <3>2, TakeMoves
  <2> QED
    BY <2>1, <2>2
<1>2. ASSUME NEW c \in Clients, PutBack(c) PROVE Borrowed'
  BY <1>2, PutMoves DEF PutBack, Goto
<1>3. ASSUME NEW c \in Clients, Call(c) \/ AcquirePermit(c) \/ ReleasePermit(c)
      PROVE  Borrowed'
  BY <1>0, <1>3, <1>a DEF Call, AcquirePermit, ReleasePermit, Goto
<1>4. ASSUME NEW c \in Clients, Send(c) \/ Receive(c) \/ ReceiveEnd(c) \/ Aborted(c)
      PROVE  Borrowed'
  BY <1>0, <1>4, <1>a DEF Send, Receive, ReceiveEnd, Aborted, Goto
<1>5. ASSUME NEW k \in Connections, Reply(k) \/ Break(k) PROVE Borrowed'
  BY <1>5, <1>a DEF Reply, Break
<1>6. CASE UNCHANGED vars
  BY <1>6, <1>a DEF vars
<1> HIDE DEF pool, client, wire
<1> QED
  BY <1>1, <1>2, <1>3, <1>4, <1>5, <1>6 DEF Next, ClientStep, AllDone

\* The clients that have a permit are finitely many, and counted one by one.
LEMMA PermittedFinite ==
  /\ IsFiniteSet(Permitted) /\ Cardinality(Permitted) \in Nat
  /\ \A c \in Clients \ Permitted : Cardinality(Permitted \cup {c}) = Cardinality(Permitted) + 1
  /\ \A c \in Permitted : /\ Cardinality(Permitted \ {c}) = Cardinality(Permitted) - 1
                          /\ Cardinality(Permitted) # 0
<1>1. IsFiniteSet(Permitted)
  BY PoolAssumption, FS_Subset DEF Permitted
<1> QED
  BY <1>1, FS_CardinalityType, FS_AddElement, FS_RemoveElement, FS_EmptySet

\* A permit is taken before a connection is, and released after it has been enqueued:
\* every step keeps as many permits as there are connections in the queue.
LEMMA PermitsInStepStep == TypeOK /\ Borrowed /\ PermitsInStep /\ [Next]_vars => PermitsInStep'
<1> SUFFICES ASSUME TypeOK, Borrowed, PermitsInStep, [Next]_vars PROVE PermitsInStep'
  OBVIOUS
<1> USE DEF pool, client, wire, Goto
<1>0. /\ pc \in [Clients -> {"idle", "wait", "dequeue", "send", "read", "putBack",
                             "permit", "exhausted"}]
      /\ queue \in Seq(Connections) /\ Len(queue) \in Nat /\ permits \in Nat
      /\ Cardinality(Permitted) \in Nat
  BY PermittedFinite, LenProperties DEF TypeOK
<1>a. ASSUME UNCHANGED <<platform, queue, permits>>,
             \A c \in Clients : pc'[c] # "exhausted",
             Permitted' = Permitted
      PROVE  PermitsInStep'
  BY <1>a DEF PermitsInStep
<1>1. ASSUME NEW c \in Clients, AcquirePermit(c) PROVE PermitsInStep'
  <2>1. Permitted' = Permitted \cup {c} /\ c \notin Permitted
    BY <1>0, <1>1 DEF AcquirePermit, Permitted
  <2>2. Cardinality(Permitted') = Cardinality(Permitted) + 1
    BY <2>1, PermittedFinite
  <2>3. platform = "dotnet" /\ permits' = permits - 1 /\ UNCHANGED <<platform, queue>>
    BY <1>1 DEF AcquirePermit
  <2>4. \A d \in Clients : pc'[d] # "exhausted"
    BY <1>0, <1>1 DEF AcquirePermit, PermitsInStep
  <2>5. permits' + Cardinality(Permitted') = Len(queue')
    BY <1>0, <2>2, <2>3 DEF PermitsInStep
  <2> QED
    BY <2>3, <2>4, <2>5 DEF PermitsInStep
<1>2. ASSUME NEW c \in Clients, Dequeue(c) PROVE PermitsInStep'
  <2>1. c \in Permitted /\ platform = "dotnet"
    BY <1>0, <1>2 DEF Dequeue, Permitted, PermitsInStep
  <2>2. queue # <<>>
    <3>1. permits + Cardinality(Permitted) = Len(queue) /\ Cardinality(Permitted) # 0
      BY <2>1, PermittedFinite DEF PermitsInStep
    <3>2. Len(queue) # 0
      BY <1>0, <3>1
    <3> QED
      BY <3>2
  <2>3. /\ pc[c] = "dequeue" /\ pc' = [pc EXCEPT ![c] = "send"]
        /\ queue' = Tail(queue) /\ UNCHANGED <<platform, permits>>
    BY <1>2, <2>2 DEF Dequeue, Take
  <2>4. Permitted' = Permitted \ {c}
    BY <1>0, <2>3 DEF Permitted
  <2>5. Cardinality(Permitted') = Cardinality(Permitted) - 1
    BY <2>1, <2>4, PermittedFinite
  <2>6. Len(queue') = Len(queue) - 1
    BY <1>0, <2>2, <2>3, HeadTail
  <2>7. \A d \in Clients : pc'[d] # "exhausted"
    BY <1>0, <2>3 DEF PermitsInStep
  <2> QED
    BY <1>0, <2>1, <2>3, <2>5, <2>6, <2>7 DEF PermitsInStep
<1>3. ASSUME NEW c \in Clients, Borrow(c) PROVE PermitsInStep'
  <2>1. Permitted' = Permitted /\ \A d \in Clients : pc'[d] # "exhausted"
    BY <1>0, <1>3 DEF Borrow, Permitted, PermitsInStep
  <2> QED
    BY <1>3, <2>1 DEF Borrow, PermitsInStep
<1>4. ASSUME NEW c \in Clients, PutBack(c) PROVE PermitsInStep'
  <2>1. \A d \in Clients : pc'[d] # "exhausted"
    BY <1>0, <1>4 DEF PutBack, PermitsInStep
  <2>2. Len(queue') = Len(queue) + 1
    <3>1. held[c] \in Connections
      BY <1>4 DEF PutBack, TypeOK, Borrowed
    <3> QED
      BY <1>0, <1>4, <3>1, AppendProperties DEF PutBack
  <2>3. CASE platform = "dotnet"
    <3>1. Permitted' = Permitted \cup {c} /\ c \notin Permitted
      BY <1>0, <1>4, <2>3 DEF PutBack, Permitted
    <3>2. Cardinality(Permitted') = Cardinality(Permitted) + 1
      BY <3>1, PermittedFinite
    <3> QED
      BY <1>0, <1>4, <2>1, <2>2, <2>3, <3>2 DEF PutBack, PermitsInStep
  <2>4. CASE platform # "dotnet"
    <3>1. Permitted' = Permitted
      BY <1>0, <1>4, <2>4 DEF PutBack, Permitted
    <3> QED
      BY <1>4, <2>1, <2>4, <3>1 DEF PutBack, PermitsInStep
  <2> QED
    BY <2>3, <2>4
<1>5. ASSUME NEW c \in Clients, ReleasePermit(c) PROVE PermitsInStep'
  <2>1. c \in Permitted /\ platform = "dotnet" /\ Permitted' = Permitted \ {c}
    BY <1>0, <1>5 DEF ReleasePermit, Permitted, PermitsInStep
  <2>2. Cardinality(Permitted') = Cardinality(Permitted) - 1
    BY <2>1, PermittedFinite
  <2>3. \A d \in Clients : pc'[d] # "exhausted"
    BY <1>0, <1>5 DEF ReleasePermit, PermitsInStep
  <2>4. permits' = permits + 1 /\ UNCHANGED <<platform, queue>>
    BY <1>5 DEF ReleasePermit
  <2>5. permits' + Cardinality(Permitted') = Len(queue')
    BY <1>0, <2>1, <2>2, <2>4 DEF PermitsInStep
  <2> QED
    BY <2>1, <2>3, <2>4, <2>5 DEF PermitsInStep
<1>6. ASSUME NEW c \in Clients, Call(c) \/ Send(c) \/ Receive(c) PROVE PermitsInStep'
  BY <1>0, <1>6, <1>a DEF Call, Send, Receive, Permitted, PermitsInStep
<1>7. ASSUME NEW c \in Clients, ReceiveEnd(c) \/ Aborted(c) PROVE PermitsInStep'
  BY <1>0, <1>7, <1>a DEF ReceiveEnd, Aborted, Permitted, PermitsInStep
<1>8. ASSUME NEW k \in Connections, Reply(k) \/ Break(k) PROVE PermitsInStep'
  BY <1>8, <1>a DEF Reply, Break, Permitted, PermitsInStep
<1>9. CASE UNCHANGED vars
  BY <1>9, <1>a DEF vars, Permitted, PermitsInStep
<1> HIDE DEF pool, client, wire, Goto
<1> QED
  BY <1>1, <1>2, <1>3, <1>4, <1>5, <1>6, <1>7, <1>8, <1>9 DEF Next, ClientStep, AllDone

\* A step that leaves a connection and its holder alone, but for closing it, keeps what
\* is said of it.
LEMMA WireFrame ==
  ASSUME NEW k \in Connections, WireOf(k),
         platform' = platform, pending'[k] = pending[k], stream'[k] = stream[k],
         k \in broken => k \in broken',
         \A c \in Clients : held'[c] = k => held[c] = k,
         \A c \in Clients : held[c] = k =>
           held'[c] = k /\ pc'[c] = pc[c] /\ command'[c] = command[c]
  PROVE  WireOf(k)'
BY DEF WireOf, Quiet, Awaits, Expected

\* A connection that no client holds, and one that a single client holds.
LEMMA WireHeld ==
  ASSUME Borrowed, NEW c \in Clients, held[c] # NoConnection
  PROVE  \A d \in Clients : held[d] = held[c] => d = c
BY DEF Borrowed

\* A reader that is still in step takes the reply to its own command, whole, or leaves
\* nothing of it on the connection unless that connection becomes upset.
LEMMA ReceiveInStep ==
  ASSUME TypeOK, Borrowed, WireInStep, NEW c \in Clients, Receive(c), held[c] \notin upset
  PROVE  /\ held[c] \in Connections /\ pc[c] = "read"
         /\ pending[held[c]] = <<>> /\ Tail(stream[held[c]]) = <<>>
         /\ Head(stream[held[c]]) \in Tokens
         /\ Head(stream[held[c]]).cmd = command[c]
         /\ Accepts(command[c].verb, Head(stream[held[c]]).form) =>
              Head(stream[held[c]]).form \in Expected(command[c].verb)
         /\ platform = "go" /\ ~ Accepts(command[c].verb, Head(stream[held[c]]).form) =>
              Rest(Head(stream[held[c]])) = {<<>>}
<1> DEFINE k == held[c]  t == Head(stream[k])
<1>1. pc[c] = "read" /\ stream[k] # <<>>
  BY DEF Receive, Goto
<1>2. k \in Connections /\ stream[k] \in Seq(Tokens)
  BY <1>1 DEF TypeOK, Borrowed
<1>3. Awaits(c, k)
  BY <1>1, <1>2 DEF WireInStep, WireOf
<1>4. /\ pending[k] = <<>> /\ Len(stream[k]) = 1 /\ t.cmd = command[c]
      /\ t.form \in Expected(command[c].verb) \cup {"error", "cut"}
      /\ t.form = "cut" => platform # "java"
  BY <1>1, <1>3 DEF Awaits, Quiet
<1>5. t \in Tokens /\ Tail(stream[k]) = <<>>
  <2>1. t \in Tokens /\ Tail(stream[k]) \in Seq(Tokens) /\ Len(Tail(stream[k])) = 0
    BY <1>1, <1>2, <1>4, HeadTail
  <2> QED
    BY <2>1, EmptySeq
<1>6. Accepts(command[c].verb, t.form) => t.form \in Expected(command[c].verb)
  BY <1>4 DEF Accepts
<1>7. ~ Accepts(command[c].verb, t.form) => t.form # "bulk"
  BY <1>4 DEF Accepts
<1>8. platform = "go" /\ ~ Accepts(command[c].verb, t.form) => Rest(t) = {<<>>}
  BY <1>5, <1>7, RestIsJunk
<1> QED
  BY <1>1, <1>2, <1>4, <1>5, <1>6, <1>8

\* Every step keeps a connection in step, or upsets it.
LEMMA WireInStepStep == TypeOK /\ Borrowed /\ PermitsInStep /\ WireInStep /\ [Next]_vars => WireInStep'
<1> SUFFICES ASSUME TypeOK, Borrowed, PermitsInStep, WireInStep, [Next]_vars PROVE WireInStep'
  OBVIOUS
<1> USE DEF pool, client, wire, Goto
<1>0. /\ pc \in [Clients -> {"idle", "wait", "dequeue", "send", "read", "putBack",
                             "permit", "exhausted"}]
      /\ held \in [Clients -> Connections \cup {NoConnection}]
      /\ command \in [Clients -> Commands]
      /\ pending \in [Connections -> Seq(Commands)]
      /\ stream \in [Connections -> Seq(Tokens)]
      /\ broken \subseteq Connections
  BY DEF TypeOK
<1>a. \A c \in Clients : pc[c] \in {"send", "read", "putBack"} =>
        held[c] \in Connections /\ held[c] # NoConnection
  BY <1>0 DEF Borrowed
<1>b. \A c \in Clients : pc[c] \notin {"send", "read", "putBack"} => held[c] \notin Connections
  BY <1>0, NoConnectionAssumption DEF Borrowed
<1>c. ASSUME UNCHANGED <<platform, command, held, wire, upset>>,
             \A c \in Clients : held[c] \in Connections => pc'[c] = pc[c]
      PROVE  WireInStep'
  BY <1>c, WireFrame DEF WireInStep
<1>1. ASSUME NEW c \in Clients, Call(c) PROVE WireInStep'
  <2>1. /\ UNCHANGED <<platform, held, wire, upset>> /\ held[c] \notin Connections
        /\ \A d \in Clients : held[d] \in Connections =>
             pc'[d] = pc[d] /\ command'[d] = command[d]
    BY <1>0, <1>1, <1>b DEF Call
  <2> QED
    BY <2>1, WireFrame DEF WireInStep
<1>2. ASSUME NEW c \in Clients, AcquirePermit(c) \/ ReleasePermit(c) PROVE WireInStep'
  BY <1>0, <1>2, <1>b, <1>c DEF AcquirePermit, ReleasePermit
<1>3. ASSUME NEW c \in Clients, Borrow(c) \/ Dequeue(c) PROVE WireInStep'
  <2>1. CASE queue = <<>>
    BY <1>0, <1>3, <1>b, <1>c, <2>1 DEF Borrow, Dequeue
  <2>2. CASE queue # <<>>
    <3>1. /\ pc[c] \in {"wait", "dequeue"} /\ pc' = [pc EXCEPT ![c] = "send"]
          /\ held' = [held EXCEPT ![c] = Head(queue)]
          /\ UNCHANGED <<platform, command, wire, upset>>
      BY <1>3, <2>2 DEF Borrow, Dequeue, Take
    <3>2. Head(queue) \in Connections /\ \A d \in Clients : held[d] # Head(queue)
      <4>1. Head(queue) = queue[1] /\ 1 \in DOMAIN queue /\ Head(queue) \in Connections
        BY <2>2, HeadTailProperties, LenProperties, EmptySeq DEF TypeOK
      <4> QED
        BY <4>1 DEF Borrowed
    <3>3. held[c] \notin Connections
      BY <1>b, <3>1
    <3>4. /\ held'[c] = Head(queue) /\ pc'[c] = "send"
          /\ \A d \in Clients \ {c} : held'[d] = held[d] /\ pc'[d] = pc[d]
      BY <1>0, <3>1
    <3>5. ASSUME NEW k \in Connections \ upset PROVE WireOf(k)'
      <4>1. WireOf(k)
        BY DEF WireInStep
      <4>2. CASE k = Head(queue)
        BY <3>1, <3>2, <3>4, <4>1, <4>2 DEF WireOf, Quiet
      <4>3. CASE k # Head(queue)
        BY <3>1, <3>3, <3>4, <4>1, <4>3, WireFrame
      <4> QED
        BY <4>2, <4>3
    <3> QED
      BY <3>1, <3>5 DEF WireInStep
  <2> QED
    BY <2>1, <2>2
<1>4. ASSUME NEW c \in Clients, Send(c) PROVE WireInStep'
  <2> DEFINE h == held[c]
  <2>1. /\ pc[c] = "send" /\ h \in Connections /\ h # NoConnection
        /\ pc'[c] = "read" /\ \A d \in Clients \ {c} : pc'[d] = pc[d]
        /\ UNCHANGED <<platform, command, held, stream, broken, upset>>
        /\ \A k \in Connections \ {h} : pending'[k] = pending[k]
        /\ h \in broken => pending'[h] = pending[h]
        /\ h \notin broken => pending'[h] = Append(pending[h], command[c])
    BY <1>0, <1>4, <1>a DEF Send
  <2>2. ASSUME NEW k \in Connections \ upset PROVE WireOf(k)'
    <3>1. WireOf(k)
      BY DEF WireInStep
    <3>2. CASE k = h
      <4>1. Quiet(k)
        BY <2>1, <3>1, <3>2 DEF WireOf
      <4>2. h \notin broken => Len(pending'[k]) = 1 /\ Head(pending'[k]) = command[c]
        <5>1. h \notin broken => pending'[k] = Append(<<>>, command[c])
          BY <2>1, <3>2, <4>1 DEF Quiet
        <5> QED
          BY <5>1
      <4>3. Awaits(c, k)'
        BY <2>1, <3>2, <4>1, <4>2 DEF Awaits, Quiet
      <4>4. \A d \in Clients : held'[d] = k => d = c
        BY <2>1, <3>2, WireHeld
      <4> QED
        BY <2>1, <3>2, <4>3, <4>4 DEF WireOf
    <3>3. CASE k # h
      BY <2>1, <3>1, <3>3, WireFrame
    <3> QED
      BY <3>2, <3>3
  <2>3. \A k \in broken : pending'[k] = <<>>
    BY <1>0, <2>1 DEF WireInStep
  <2> QED
    BY <2>1, <2>2, <2>3 DEF WireInStep
<1>5. ASSUME NEW c \in Clients, Receive(c) PROVE WireInStep'
  <2> DEFINE h == held[c]  t == Head(stream[h])
  <2>1. /\ pc[c] = "read" /\ h \in Connections /\ h # NoConnection
        /\ pc'[c] = "putBack" /\ \A d \in Clients \ {c} : pc'[d] = pc[d]
        /\ UNCHANGED <<platform, command, held, pending, broken>>
        /\ \A k \in Connections \ {h} : stream'[k] = stream[k]
    BY <1>0, <1>5, <1>a DEF Receive
  <2>2. \/ /\ Accepts(command[c].verb, t.form)
           /\ stream'[h] = Tail(stream[h]) /\ upset' = upset
        \/ /\ ~ Accepts(command[c].verb, t.form)
           /\ \E rest \in Rest(t) : /\ stream'[h] = rest \o Tail(stream[h])
                                   /\ upset' = IF rest # <<>> THEN upset \cup {h} ELSE upset
    BY <1>0, <1>5, <2>1 DEF Receive
  <2>3. upset \subseteq upset' /\ upset' \subseteq upset \cup {h}
    BY <2>2
  <2>4. ASSUME h \notin upset' PROVE pending'[h] = <<>> /\ stream'[h] = <<>>
    <3>1. pending[h] = <<>> /\ Tail(stream[h]) = <<>>
      BY <1>5, <2>3, <2>4, ReceiveInStep
    <3>2. stream'[h] = <<>> \/ stream'[h] = <<>> \o <<>>
      BY <2>2, <2>4, <3>1
    <3> QED
      BY <2>1, <3>1, <3>2
  <2>5. ASSUME NEW k \in Connections \ upset' PROVE WireOf(k)'
    <3>1. WireOf(k)
      BY <2>3 DEF WireInStep
    <3>2. CASE k = h
      <4>1. \A d \in Clients : held'[d] = k => d = c
        BY <2>1, <3>2, WireHeld
      <4> QED
        BY <2>1, <2>4, <3>2, <4>1 DEF WireOf, Quiet
    <3>3. CASE k # h
      BY <2>1, <3>1, <3>3, WireFrame
    <3> QED
      BY <3>2, <3>3
  <2>6. platform = "go" => upset' = {}
    <3>1. SUFFICES ASSUME platform = "go" PROVE upset' = {}
      OBVIOUS
    <3>2. h \notin upset /\ upset = {}
      BY <3>1 DEF WireInStep
    <3>3. Accepts(command[c].verb, t.form) \/ Rest(t) = {<<>>}
      BY <1>5, <3>1, <3>2, ReceiveInStep
    <3>4. upset' = upset
      BY <2>2, <3>3
    <3> QED
      BY <3>2, <3>4
  <2> QED
    BY <2>1, <2>5, <2>6 DEF WireInStep
<1>6. ASSUME NEW c \in Clients, ReceiveEnd(c) PROVE WireInStep'
  <2> DEFINE h == held[c]
  <2>1. /\ pc[c] = "read" /\ h \in Connections /\ h # NoConnection
        /\ h \in broken /\ stream[h] = <<>>
        /\ pc'[c] = "putBack" /\ \A d \in Clients \ {c} : pc'[d] = pc[d]
        /\ UNCHANGED <<platform, command, held, wire, upset>>
    BY <1>0, <1>6, <1>a DEF ReceiveEnd
  <2>2. ASSUME NEW k \in Connections \ upset PROVE WireOf(k)'
    <3>1. WireOf(k)
      BY DEF WireInStep
    <3>2. CASE k = h
      <4>1. \A d \in Clients : held'[d] = k => d = c
        BY <2>1, <3>2, WireHeld
      <4>2. Quiet(k)'
        BY <2>1, <3>2 DEF WireInStep, Quiet
      <4> QED
        BY <2>1, <3>2, <4>1, <4>2 DEF WireOf
    <3>3. CASE k # h
      BY <2>1, <3>1, <3>3, WireFrame
    <3> QED
      BY <3>2, <3>3
  <2> QED
    BY <2>1, <2>2 DEF WireInStep
<1>7. ASSUME NEW c \in Clients, PutBack(c) PROVE WireInStep'
  <2> DEFINE h == held[c]
  <2>1. /\ pc[c] = "putBack" /\ h \in Connections /\ h # NoConnection
        /\ held'[c] = NoConnection
        /\ \A d \in Clients \ {c} : pc'[d] = pc[d] /\ held'[d] = held[d]
        /\ UNCHANGED <<platform, command, wire, upset>>
    BY <1>0, <1>7, <1>a DEF PutBack
  <2>2. ASSUME NEW k \in Connections \ upset PROVE WireOf(k)'
    <3>1. WireOf(k)
      BY DEF WireInStep
    <3>2. CASE k = h
      <4>1. \A d \in Clients : held'[d] # k
        BY <2>1, <3>2, WireHeld
      <4>2. Quiet(k)'
        BY <2>1, <3>1, <3>2 DEF WireOf, Quiet
      <4> QED
        BY <4>1, <4>2 DEF WireOf
    <3>3. CASE k # h
      BY <2>1, <3>1, <3>3, NoConnectionAssumption, WireFrame
    <3> QED
      BY <3>2, <3>3
  <2> QED
    BY <2>1, <2>2 DEF WireInStep
<1>8. ASSUME NEW c \in Clients, Aborted(c) PROVE WireInStep'
  <2> DEFINE h == held[c]
  <2>1. CASE pc[c] = "wait"
    BY <1>0, <1>8, <1>b, <1>c, <2>1 DEF Aborted
  <2>2. CASE pc[c] # "wait"
    <3>1. /\ platform = "dotnet" /\ pc[c] \in {"send", "read"}
          /\ h \in Connections /\ h # NoConnection
          /\ pc'[c] = "putBack" /\ \A d \in Clients \ {c} : pc'[d] = pc[d]
          /\ UNCHANGED <<platform, command, held, pending, broken>>
          /\ \A k \in Connections \ {h} : stream'[k] = stream[k]
          /\ upset \subseteq upset'
      BY <1>0, <1>8, <1>a, <2>2 DEF Aborted
    <3>2. pc[c] = "send" => stream' = stream
      BY <1>8 DEF Aborted
    <3>3. pc[c] = "read" => h \in upset'
      BY <1>8 DEF Aborted
    <3>4. ASSUME NEW k \in Connections \ upset' PROVE WireOf(k)'
      <4>1. WireOf(k)
        BY <3>1 DEF WireInStep
      <4>2. CASE k = h
        <5>1. \A d \in Clients : held'[d] = k => d = c
          BY <3>1, <4>2, WireHeld
        <5>2. Quiet(k)'
          BY <3>1, <3>2, <3>3, <4>1, <4>2 DEF WireOf, Quiet
        <5> QED
          BY <3>1, <4>2, <5>1, <5>2 DEF WireOf
      <4>3. CASE k # h
        BY <3>1, <4>1, <4>3, WireFrame
      <4> QED
        BY <4>2, <4>3
    <3> QED
      BY <3>1, <3>4 DEF WireInStep
  <2> QED
    BY <2>1, <2>2
<1>9. ASSUME NEW h \in Connections, Reply(h) PROVE WireInStep'
  <2> DEFINE cmd == Head(pending[h])
  <2>1. /\ pending[h] # <<>> /\ pending'[h] = Tail(pending[h])
        /\ \A k \in Connections \ {h} : pending'[k] = pending[k] /\ stream'[k] = stream[k]
        /\ UNCHANGED <<platform, client, broken, upset>>
    BY <1>0, <1>9 DEF Reply
  <2>2. PICK f \in Expected(cmd.verb) \cup {"error"} :
          stream'[h] = Append(stream[h], Token(f, cmd))
    BY <1>0, <1>9 DEF Reply, Expected
  <2>3. h \notin broken
    BY <2>1 DEF WireInStep
  <2>4. ASSUME NEW k \in Connections \ upset PROVE WireOf(k)'
    <3>1. WireOf(k)
      BY DEF WireInStep
    <3>2. CASE k = h
      <4>1. ~ Quiet(k)
        BY <2>1, <3>2 DEF Quiet
      <4>2. PICK c \in Clients : held[c] = k
        BY <3>1, <4>1 DEF WireOf
      <4>3. pc[c] = "read" /\ Awaits(c, k)
        BY <1>b, <3>1, <4>1, <4>2 DEF WireOf
      <4>4. Len(pending[k]) = 1 /\ cmd = command[c] /\ stream[k] = <<>>
        BY <2>1, <3>2, <4>1, <4>3 DEF Awaits
      <4>5. pending'[k] = <<>>
        <5>1. Tail(pending[k]) \in Seq(Commands) /\ Len(Tail(pending[k])) = 0
          BY <1>0, <2>1, <3>2, <4>4, HeadTail
        <5> QED
          BY <2>1, <3>2, <5>1, EmptySeq
      <4>6. cmd \in Commands /\ f \in Forms /\ f # "cut"
        BY <1>0, <4>4 DEF Expected, Forms
      <4>7. Len(stream'[k]) = 1 /\ Head(stream'[k]) = Token(f, cmd)
        <5>1. stream'[k] = Append(<<>>, Token(f, cmd))
          BY <2>2, <3>2, <4>4
        <5> QED
          BY <5>1
      <4>8. Token(f, cmd).form = f /\ Token(f, cmd).cmd = cmd
        BY <4>6, TokenType
      <4>9. Awaits(c, k)'
        BY <2>1, <2>2, <4>4, <4>5, <4>6, <4>7, <4>8 DEF Awaits, Expected
      <4>10. \A d \in Clients : held'[d] = k => d = c
        BY <2>1, <4>2, NoConnectionAssumption, WireHeld
      <4> QED
        BY <2>1, <4>2, <4>3, <4>9, <4>10 DEF WireOf
    <3>3. CASE k # h
      BY <2>1, <3>1, <3>3, WireFrame
    <3> QED
      BY <3>2, <3>3
  <2>5. \A k \in broken : pending'[k] = <<>>
    BY <1>0, <2>1, <2>3 DEF WireInStep
  <2> QED
    BY <2>1, <2>4, <2>5 DEF WireInStep
<1>10. ASSUME NEW h \in Connections, Break(h) PROVE WireInStep'
  <2> DEFINE cmd == Head(pending[h])
  <2>1. /\ h \notin broken /\ broken' = broken \cup {h} /\ pending'[h] = <<>>
        /\ \A k \in Connections \ {h} : pending'[k] = pending[k] /\ stream'[k] = stream[k]
        /\ UNCHANGED <<platform, client>>
    BY <1>0, <1>10 DEF Break
  <2>2. \/ stream'[h] = stream[h] /\ upset' = upset
        \/ /\ pending[h] # <<>> /\ cmd.verb = "get"
           /\ stream'[h] = Append(stream[h], Token("cut", cmd))
           /\ upset' = IF platform = "java" THEN upset \cup {h} ELSE upset
    BY <1>0, <1>10 DEF Break
  <2>3. upset \subseteq upset' /\ (platform # "java" => upset' = upset)
    BY <2>2
  <2>4. ASSUME NEW k \in Connections \ upset' PROVE WireOf(k)'
    <3>1. WireOf(k)
      BY <2>3 DEF WireInStep
    <3>2. CASE k = h
      <4>1. CASE Quiet(k)
        <5>1. Quiet(k)' /\ k \in broken'
          BY <2>1, <2>2, <3>2, <4>1 DEF Quiet
        <5> QED
          BY <5>1 DEF WireOf, Awaits
      <4>2. CASE ~ Quiet(k)
        <5>1. PICK c \in Clients : held[c] = k
          BY <3>1, <4>2 DEF WireOf
        <5>2. pc[c] = "read" /\ Awaits(c, k)
          BY <1>b, <3>1, <4>2, <5>1 DEF WireOf
        <5>3. Awaits(c, k)'
          <6>1. CASE stream'[h] = stream[h]
            BY <2>1, <3>2, <5>2, <6>1 DEF Awaits, Quiet, Expected
          <6>2. CASE /\ pending[h] # <<>> /\ cmd.verb = "get" /\ platform # "java"
                     /\ stream'[h] = Append(stream[h], Token("cut", cmd))
            <7>1. cmd = command[c] /\ stream[h] = <<>>
              BY <3>2, <5>2, <6>2 DEF Awaits, Quiet
            <7>2. Len(stream'[h]) = 1 /\ Head(stream'[h]) = Token("cut", cmd)
              BY <6>2, <7>1
            <7>3. Token("cut", cmd).form = "cut" /\ Token("cut", cmd).cmd = cmd
              BY DEF Token
            <7> QED
              BY <2>1, <3>2, <6>2, <7>1, <7>2, <7>3 DEF Awaits, Expected
          <6> QED
            BY <2>2, <3>2, <6>1, <6>2
        <5>4. \A d \in Clients : held'[d] = k => d = c
          BY <2>1, <5>1, NoConnectionAssumption, WireHeld
        <5> QED
          BY <2>1, <5>1, <5>2, <5>3, <5>4 DEF WireOf
      <4> QED
        BY <4>1, <4>2
    <3>3. CASE k # h
      BY <2>1, <3>1, <3>3, WireFrame
    <3> QED
      BY <3>2, <3>3
  <2>5. \A k \in broken' : pending'[k] = <<>>
    BY <1>0, <2>1 DEF WireInStep
  <2> QED
    BY <2>1, <2>3, <2>4, <2>5 DEF WireInStep
<1>11. CASE UNCHANGED vars
  BY <1>11, <1>c DEF vars
<1> HIDE DEF pool, client, wire, Goto
<1> QED
  BY <1>1, <1>2, <1>3, <1>4, <1>5, <1>6, <1>7, <1>8, <1>9, <1>10, <1>11
     DEF Next, ClientStep, AllDone

\* An answer is accepted by Receive alone, and does not change before the client puts
\* its connection back: every step keeps the accepted answers its client's own.
LEMMA OwnRepliesStep ==
  TypeOK /\ Borrowed /\ WireInStep /\ OwnReplies /\ [Next]_vars => OwnReplies'
<1> SUFFICES ASSUME TypeOK, Borrowed, WireInStep, OwnReplies, [Next]_vars PROVE OwnReplies'
  OBVIOUS
<1> USE DEF pool, client, wire, Goto
<1>0. /\ pc \in [Clients -> {"idle", "wait", "dequeue", "send", "read", "putBack",
                             "permit", "exhausted"}]
      /\ answer \in [Clients -> Tokens \cup {NoAnswer, Failed}]
      /\ held \in [Clients -> Connections \cup {NoConnection}]
      /\ command \in [Clients -> Commands]
  BY DEF TypeOK
<1>a. ASSUME upset \subseteq upset',
             \A c \in Clients : pc'[c] = "putBack" /\ answer'[c] # Failed =>
               /\ pc[c] = "putBack" /\ held'[c] = held[c]
               /\ command'[c] = command[c] /\ answer'[c] = answer[c]
      PROVE  OwnReplies'
  BY <1>a DEF OwnReplies, Expected, Failed
<1>1. ASSUME NEW c \in Clients, Receive(c) PROVE OwnReplies'
  <2> DEFINE h == held[c]  t == Head(stream[h])
  <2>1. /\ UNCHANGED <<held, command>> /\ upset \subseteq upset'
        /\ \A d \in Clients \ {c} : pc'[d] = pc[d] /\ answer'[d] = answer[d]
    BY <1>0, <1>1 DEF Receive
  <2>2. \/ Accepts(command[c].verb, t.form) /\ answer'[c] = t
        \/ answer'[c] = Failed
    BY <1>0, <1>1 DEF Receive
  <2>3. ASSUME answer'[c] # Failed, h \notin upset'
        PROVE  answer'[c].cmd = command[c] /\ answer'[c].form \in Expected(command[c].verb)
    BY <1>1, <2>1, <2>2, <2>3, ReceiveInStep
  <2>4. ASSUME NEW d \in Clients, pc'[d] = "putBack", answer'[d] # Failed, held'[d] \notin upset'
        PROVE  answer'[d].cmd = command[d] /\ answer'[d].form \in Expected(command[d].verb)
    <3>1. CASE d = c
      BY <2>1, <2>3, <2>4, <3>1
    <3>2. CASE d # c
      BY <2>1, <2>4, <3>2 DEF OwnReplies
    <3> QED
      BY <3>1, <3>2
  <2> QED
    BY <2>1, <2>4 DEF OwnReplies, Failed, Expected
<1>2. ASSUME NEW c \in Clients, Call(c) PROVE OwnReplies'
  BY <1>0, <1>2, <1>a DEF Call
<1>3. ASSUME NEW c \in Clients, Borrow(c) \/ AcquirePermit(c) \/ Dequeue(c) PROVE OwnReplies'
  BY <1>0, <1>3, <1>a DEF Borrow, AcquirePermit, Dequeue, Take
<1>4. ASSUME NEW c \in Clients, Send(c) \/ PutBack(c) \/ ReleasePermit(c) PROVE OwnReplies'
  BY <1>0, <1>4, <1>a DEF Send, PutBack, ReleasePermit
<1>5. ASSUME NEW c \in Clients, ReceiveEnd(c) \/ Aborted(c) PROVE OwnReplies'
  BY <1>0, <1>5, <1>a DEF ReceiveEnd, Aborted
<1>6. ASSUME NEW k \in Connections, Reply(k) \/ Break(k) PROVE OwnReplies'
  BY <1>6, <1>a DEF Reply, Break
<1>7. CASE UNCHANGED vars
  BY <1>7, <1>a DEF vars
<1> HIDE DEF pool, client, wire, Goto
<1> QED
  BY <1>1, <1>2, <1>3, <1>4, <1>5, <1>6, <1>7 DEF Next, ClientStep, AllDone

--------------------------------------------------------------------------------
(* The theorems *)

\* All connections are in the queue of a new pool, once each: it is as long as they are
\* many.
LEMMA InitIInv == Init => IInv
<1> SUFFICES ASSUME Init PROVE IInv
  OBVIOUS
<1> DEFINE n == Cardinality(Connections)
<1>0. n \in Nat /\ IsFiniteSet(Connections)
  BY PoolAssumption, FS_CardinalityType
<1>1. /\ queue \in [1 .. n -> Connections] /\ DOMAIN queue = 1 .. n
      /\ \A k \in Connections : \E i \in 1 .. n : queue[i] = k
  BY DEF Init
<1>2. queue \in Seq(Connections) /\ Len(queue) = n
  BY <1>0, <1>1
<1>3. queue \in Injection(1 .. n, Connections)
  <2>1. queue \in Surjection(1 .. n, Connections)
    BY <1>1 DEF Surjection
  <2>2. IsFiniteSet(1 .. n) /\ Cardinality(1 .. n) = n
    BY <1>0, FS_Interval
  <2> QED
    BY <2>1, <2>2, FS_SurjSameCardinalityImpliesInj
<1>4. \A i, j \in DOMAIN queue : queue[i] = queue[j] => i = j
  BY <1>1, <1>3 DEF Injection, IsInjective
<1>5. NoConnection \notin Connections
  BY NoConnectionAssumption
<1>6. TypeOK
  <2>1. \A c \in Clients : [client |-> c, number |-> 0, verb |-> "get"] \in Commands
    BY PoolAssumption DEF Commands
  <2> QED
    BY <1>0, <1>2, <2>1 DEF Init, TypeOK
<1>7. Borrowed
  <2>1. \A i \in DOMAIN queue : queue[i] \in Connections
    BY <1>1
  <2> QED
    BY <1>1, <1>4, <1>5, <2>1 DEF Init, Borrowed
<1>8. PermitsInStep
  <2>1. Permitted = {}
    BY DEF Init, Permitted
  <2>2. \A c \in Clients : pc[c] # "exhausted"
    BY DEF Init
  <2>3. permits = n /\ Cardinality(Permitted) = 0
    BY <2>1, FS_EmptySet DEF Init
  <2> QED
    BY <1>0, <1>2, <2>1, <2>2, <2>3 DEF PermitsInStep
<1>9. WireInStep
  BY <1>5 DEF Init, WireInStep, WireOf, Quiet
<1>10. OwnReplies
  BY DEF Init, OwnReplies
<1> QED
  BY <1>6, <1>7, <1>8, <1>9, <1>10 DEF IInv

\* Every step keeps the invariant.
LEMMA NextIInv == IInv /\ [Next]_vars => IInv'
BY TypeStep, BorrowedStep, PermitsInStepStep, WireInStepStep, OwnRepliesStep DEF IInv

\* The pool is always as the invariant says.
THEOREM Invariance == Spec => []IInv
BY InitIInv, NextIInv, PTL DEF Spec

\* The variables keep their types: there are never more permits than connections.
THEOREM TypeCorrect == Spec => []TypeOK
<1>1. IInv => TypeOK
  BY DEF IInv
<1> QED
  BY Invariance, <1>1, PTL

\* A connection that is in one place is there once: what PoolConserved counts.
LEMMA BorrowedOnce == TypeOK /\ Borrowed => PoolConserved
<1> SUFFICES ASSUME TypeOK, Borrowed, NEW k \in Connections
             PROVE  Cardinality({i \in DOMAIN queue : queue[i] = k})
                      + Cardinality({c \in Clients : held[c] = k}) = 1
  BY DEF PoolConserved
<1> DEFINE I == {i \in DOMAIN queue : queue[i] = k}
           H == {c \in Clients : held[c] = k}
<1>0. k # NoConnection
  BY NoConnectionAssumption
<1>1. CASE \E i \in DOMAIN queue : queue[i] = k
  <2>1. PICK i \in DOMAIN queue : queue[i] = k
    BY <1>1
  <2>2. I = {i} /\ H = {}
    BY <2>1 DEF Borrowed
  <2>3. Cardinality(I) = 1 /\ Cardinality(H) = 0
    BY <2>2, FS_Singleton, FS_EmptySet
  <2> QED
    BY <2>3
<1>2. CASE ~ \E i \in DOMAIN queue : queue[i] = k
  <2>1. PICK c \in Clients : held[c] = k
    BY <1>2 DEF Borrowed
  <2>2. H = {c} /\ I = {}
    BY <1>0, <1>2, <2>1 DEF Borrowed
  <2>3. Cardinality(H) = 1 /\ Cardinality(I) = 0
    BY <2>2, FS_Singleton, FS_EmptySet
  <2> QED
    BY <2>3
<1> QED
  BY <1>1, <1>2

\* No connection is lost or handed out twice, whatever fails on it.
THEOREM PoolIsConserved == Spec => []PoolConserved
<1>1. IInv => PoolConserved
  BY BorrowedOnce DEF IInv
<1> QED
  BY Invariance, <1>1, PTL

\* A permit that is taken finds a connection.
THEOREM PoolIsNeverExhausted == Spec => []NeverExhausted
<1>1. IInv => NeverExhausted
  <2> SUFFICES ASSUME IInv PROVE NeverExhausted
    OBVIOUS
  <2> DEFINE D == {c \in Clients : pc[c] = "dequeue"}
  <2>1. D \in SUBSET Permitted
    BY DEF Permitted
  <2>2. Cardinality(D) \in Nat /\ Cardinality(D) <= Cardinality(Permitted)
    BY <2>1, PermittedFinite, FS_Subset, FS_CardinalityType
  <2>3. permits \in Nat /\ Cardinality(Permitted) \in Nat
    BY PermittedFinite DEF IInv, TypeOK
  <2>4. PermitsInStep
    BY DEF IInv
  <2>5. platform = "dotnet" => permits + Cardinality(D) <= Len(queue)
    BY <2>2, <2>3, <2>4 DEF PermitsInStep
  <2> QED
    BY <2>4, <2>5 DEF NeverExhausted, PermitsInStep
<1> QED
  BY Invariance, <1>1, PTL

\* What a client accepts on a connection that is not upset answers its own command.
THEOREM RepliesAreOwn == Spec => []OwnReplies
<1>1. IInv => OwnReplies
  BY DEF IInv
<1> QED
  BY Invariance, <1>1, PTL

\* A connection that is not upset has nothing on it but the command of its holder, or
\* its reply; in Go, no connection is ever upset.
THEOREM ConnectionsAreInStep == Spec => []InStep
<1>1. IInv => InStep
  <2> SUFFICES ASSUME IInv PROVE InStep
    OBVIOUS
  <2>1. TypeOK /\ Borrowed /\ WireInStep
    BY DEF IInv
  <2>2. ASSUME NEW k \in Connections \ upset
        PROVE  /\ Len(pending[k]) + Len(stream[k]) <= 1
               /\ \A c \in Clients : held[c] = k =>
                    /\ pc[c] \in {"send", "putBack"} => pending[k] = <<>> /\ stream[k] = <<>>
                    /\ pc[c] = "read" /\ k \notin broken => Len(pending[k]) + Len(stream[k]) = 1
               /\ (\A c \in Clients : held[c] # k) => pending[k] = <<>> /\ stream[k] = <<>>
    <3>1. WireOf(k)
      BY <2>1 DEF WireInStep
    <3>2. pending[k] = <<>> /\ stream[k] = <<>> => Len(pending[k]) + Len(stream[k]) = 0
      OBVIOUS
    <3>3. ASSUME NEW c \in Clients, Awaits(c, k)
          PROVE  /\ Len(pending[k]) + Len(stream[k]) <= 1
                 /\ k \notin broken => Len(pending[k]) + Len(stream[k]) = 1
      <4>1. CASE Quiet(k) /\ k \in broken
        BY <3>2, <4>1 DEF Quiet
      <4>2. CASE Len(pending[k]) = 1 /\ stream[k] = <<>>
        BY <4>2
      <4>3. CASE Len(stream[k]) = 1 /\ pending[k] = <<>>
        BY <4>3
      <4> QED
        BY <3>3, <4>1, <4>2, <4>3 DEF Awaits
    <3>4. \A c \in Clients : held[c] = k => pc[c] \in {"send", "read", "putBack"}
      BY <2>1, NoConnectionAssumption DEF Borrowed
    <3>5. Len(pending[k]) + Len(stream[k]) <= 1
      <4>1. CASE Quiet(k)
        BY <3>2, <4>1 DEF Quiet
      <4>2. CASE \E c \in Clients : Awaits(c, k)
        BY <3>3, <4>2
      <4> QED
        BY <3>1, <3>4, <4>1, <4>2 DEF WireOf
    <3>6. ASSUME NEW c \in Clients, held[c] = k
          PROVE  /\ pc[c] \in {"send", "putBack"} => pending[k] = <<>> /\ stream[k] = <<>>
                 /\ pc[c] = "read" /\ k \notin broken => Len(pending[k]) + Len(stream[k]) = 1
      BY <3>1, <3>3, <3>6 DEF WireOf, Quiet
    <3>7. (\A c \in Clients : held[c] # k) => pending[k] = <<>> /\ stream[k] = <<>>
      BY <3>1 DEF WireOf, Quiet
    <3> QED
      BY <3>5, <3>6, <3>7
  <2>3. platform = "go" => upset = {}
    BY <2>1 DEF WireInStep
  <2> QED
    BY <2>2, <2>3 DEF InStep
<1> QED
  BY Invariance, <1>1, PTL

================================================================================
