------------------------------- MODULE GrpcLoad --------------------------------
(***************************************************************************)
(* The gRPC load generator, benchmarks/go/cmd/grpcload/main.go.  It has    *)
(* the shape of the HTTP one (LoadGen) and differs in what is hard: it     *)
(* dials first, its goroutines compare the clock with stopAt themselves,   *)
(* and a failure is counted twice, in an atomic counter and, under         *)
(* errorLock, in a map from error text to count that the result returns.   *)
(*                                                                         *)
(* Abstracted: an error text is a member of Errors, a shared slice is its  *)
(* length, byte counts are left out; requests and samples are counts, the  *)
(* identities of LoadGen not being needed here.                            *)
(***************************************************************************)
EXTENDS Naturals, FiniteSets

CONSTANTS
  Workers,      (* the goroutines of one run: --concurrency of them        *)
  Errors,       (* texts an RPC error or an unexpected response can have   *)
  MaxAttempts   (* bound: calls one goroutine may make in one run          *)

ASSUME GrpcAssumption ==
  /\ IsFiniteSet(Workers) /\ IsFiniteSet(Errors) /\ Errors # {}
  /\ MaxAttempts \in Nat

Runs == {"warmup", "measured"}
Unlocked == "unlocked"
ASSUME UnlockedAssumption == Unlocked \notin Workers
Running == 3
NoText == "noText"
Nothing == <<NoText, 0>>
Collect(r) == r = "measured"
PC == {"unborn", "loop", "call", "failed", "addError",
       "lockLatencies", "append", "done"}

VARIABLES
  mainPc,      (* flags, dial, a run, encode, exited                       *)
  stopped,     (* has the clock passed stopAt of the run?                  *)
  pc, attempts,          (* of each goroutine of each run                  *)
  requests, failures,    (* the atomic counters of each run                *)
  errorCounts, errorLock,      (* the map of each run, and errorLock       *)
  local, latencies, latencyLock, (* local counts, shared lengths, the lock *)
  seen,        (* what a goroutine read first: error text, old value       *)
  report, status

counters == <<requests, failures>>
errs == <<errorCounts, errorLock>>
slices == <<local, latencies, latencyLock>>
outcome == <<report, status>>
vars == <<mainPc, stopped, pc, attempts, counters, errs, slices, seen, outcome>>

Init ==
  /\ mainPc = "flags"
  /\ stopped = [r \in Runs |-> FALSE]
  /\ pc = [r \in Runs |-> [w \in Workers |-> "unborn"]]
  /\ attempts = [r \in Runs |-> [w \in Workers |-> 0]]
  /\ requests = [r \in Runs |-> 0] /\ failures = [r \in Runs |-> 0]
  /\ errorCounts = [r \in Runs |-> [e \in Errors |-> 0]]
  /\ local = [r \in Runs |-> [w \in Workers |-> 0]]
  /\ latencies = [r \in Runs |-> 0]
  /\ errorLock = Unlocked /\ latencyLock = Unlocked
  /\ seen = [w \in Workers |-> Nothing]
  /\ report = <<>> /\ status = Running

--------------------------------------------------------------------------------
(* main *)

Reject(code) ==
  /\ mainPc' = "exited"
  /\ status' = code
  /\ UNCHANGED <<stopped, pc, attempts, counters, errs, slices, seen, report>>

\* No --address.
RejectFlags == mainPc = "flags" /\ Reject(2)

AcceptFlags ==
  /\ mainPc = "flags"
  /\ mainPc' = "dial"
  /\ UNCHANGED <<stopped, pc, attempts, counters, errs, slices, seen, outcome>>

\* The blocking dial has 10 seconds.
DialFails == mainPc = "dial" /\ Reject(1)

StartRun(r) ==
  /\ mainPc' = r
  /\ pc' = [pc EXCEPT ![r] = [w \in Workers |-> "loop"]]
  /\ UNCHANGED <<attempts, counters, errs, slices, seen, outcome>>

\* The warmup run is skipped when --warmup is 0.
DialSucceeds ==
  /\ mainPc = "dial"
  /\ \E r \in Runs : StartRun(r)
  /\ UNCHANGED stopped

\* Mutant: wg.Add(1) is called once, so the first wg.Done() lets main go on.
FirstDone(r) == \E w \in Workers : pc[r][w] = "done"

AllDone(r) == \A w \in Workers : pc[r][w] = "done"

FinishWarmup ==
  /\ mainPc = "warmup"
  /\ AllDone("warmup")
  /\ StartRun("measured")
  /\ UNCHANGED stopped

\* Mutant: the result is made without its latency summary.
FinishWithoutSamples ==
  /\ mainPc = "measured"
  /\ AllDone("measured")
  /\ mainPc' = "encode"
  /\ report' = <<requests["measured"], failures["measured"]>>
  /\ UNCHANGED <<stopped, pc, attempts, counters, errs, slices, seen, status>>

FinishMeasured ==
  /\ mainPc = "measured"
  /\ AllDone("measured")
  /\ mainPc' = "encode"
  /\ report' = <<requests["measured"], failures["measured"], latencies["measured"]>>
  /\ UNCHANGED <<stopped, pc, attempts, counters, errs, slices, seen, status>>

EncodeFails == mainPc = "encode" /\ Reject(1)

Exit ==
  /\ mainPc = "encode"
  /\ Reject(IF failures["measured"] > 0 \/ requests["measured"] = 0 THEN 1 ELSE 0)

--------------------------------------------------------------------------------
(* the clock, and the goroutines of a run *)

\* Mutant: stopAt is never reached, only the clock goes on.
NoStopAt(r) == mainPc = r /\ UNCHANGED vars

ReachStopAt(r) ==
  /\ mainPc = r /\ ~stopped[r]
  /\ stopped' = [stopped EXCEPT ![r] = TRUE]
  /\ UNCHANGED <<mainPc, pc, attempts, counters, errs, slices, seen, outcome>>

Goto(r, w, from, to) ==
  /\ mainPc # "exited"
  /\ pc[r][w] = from
  /\ pc' = [pc EXCEPT ![r][w] = to]
  /\ UNCHANGED <<mainPc, stopped, outcome>>

StartCall(r, w) ==
  /\ Goto(r, w, "loop", "call")
  /\ ~stopped[r]
  /\ attempts[r][w] < MaxAttempts
  /\ attempts' = [attempts EXCEPT ![r][w] = @ + 1]
  /\ UNCHANGED <<counters, errs, slices, seen>>

CallSucceeds(r, w) ==
  /\ Goto(r, w, "call", "loop")
  /\ requests' = [requests EXCEPT ![r] = @ + 1]
  /\ local' = IF Collect(r) THEN [local EXCEPT ![r][w] = @ + 1] ELSE local
  /\ UNCHANGED <<attempts, failures, errs, latencies, latencyLock, seen>>

\* An RPC error (10 seconds at most) or a response with the wrong fields.
CallFails(r, w) ==
  /\ Goto(r, w, "call", "failed")
  /\ failures' = [failures EXCEPT ![r] = @ + 1]
  /\ UNCHANGED <<attempts, requests, errs, slices, seen>>

\* Mutant: addError does not wait for errorLock.
AddErrorUnlocked(r, w) ==
  /\ Goto(r, w, "failed", "addError")
  /\ errorLock' = w
  /\ \E e \in Errors : seen' = [seen EXCEPT ![w] = <<e, errorCounts[r][e]>>]
  /\ UNCHANGED <<attempts, counters, errorCounts, slices>>

\* addError: lock, read the count of the text, write it back, unlock.
LockErrors(r, w) ==
  /\ Goto(r, w, "failed", "addError")
  /\ errorLock = Unlocked
  /\ errorLock' = w
  /\ \E e \in Errors : seen' = [seen EXCEPT ![w] = <<e, errorCounts[r][e]>>]
  /\ UNCHANGED <<attempts, counters, errorCounts, slices>>

AddError(r, w) ==
  /\ Goto(r, w, "addError", "loop")
  /\ errorCounts' = [errorCounts EXCEPT ![r][seen[w][1]] = seen[w][2] + 1]
  /\ errorLock' = Unlocked
  /\ seen' = [seen EXCEPT ![w] = Nothing]
  /\ UNCHANGED <<attempts, counters, slices>>

Leave(r, w) ==
  /\ stopped[r]
  /\ Goto(r, w, "loop", IF Collect(r) /\ local[r][w] > 0 THEN "lockLatencies" ELSE "done")
  /\ UNCHANGED <<attempts, counters, errs, slices, seen>>

LockLatencies(r, w) ==
  /\ Goto(r, w, "lockLatencies", "append")
  /\ latencyLock = Unlocked
  /\ latencyLock' = w
  /\ seen' = [seen EXCEPT ![w] = <<NoText, latencies[r]>>]
  /\ UNCHANGED <<attempts, counters, errs, local, latencies>>

AppendLatencies(r, w) ==
  /\ Goto(r, w, "append", "done")
  /\ latencies' = [latencies EXCEPT ![r] = seen[w][2] + local[r][w]]
  /\ latencyLock' = Unlocked
  /\ seen' = [seen EXCEPT ![w] = Nothing]
  /\ UNCHANGED <<attempts, counters, errs, local>>

WorkerStep(r, w) ==
  \/ StartCall(r, w)
  \/ CallSucceeds(r, w)
  \/ CallFails(r, w)
  \/ LockErrors(r, w)
  \/ AddError(r, w)
  \/ Leave(r, w)
  \/ LockLatencies(r, w)
  \/ AppendLatencies(r, w)

MainStep ==
  \/ RejectFlags
  \/ AcceptFlags
  \/ DialFails
  \/ DialSucceeds
  \/ FinishWarmup
  \/ FinishMeasured
  \/ EncodeFails
  \/ Exit

\* The process is gone: nothing happens any more.
Exited == mainPc = "exited" /\ UNCHANGED vars

Next ==
  \/ MainStep
  \/ \E r \in Runs : ReachStopAt(r)
  \/ \E r \in Runs, w \in Workers : WorkerStep(r, w)
  \/ Exited

\* The clock advances, the runtime schedules every goroutine, and a
\* call ends within its 10 seconds.  Weak fairness is enough for the locks: no
\* goroutine takes one again and again once the clock has passed stopAt.
Fairness ==
  /\ WF_vars(MainStep)
  /\ \A r \in Runs : WF_vars(ReachStopAt(r))
  /\ \A r \in Runs, w \in Workers : WF_vars(WorkerStep(r, w))

Spec == Init /\ [][Next]_vars /\ Fairness

--------------------------------------------------------------------------------
(* Properties *)

TypeOK ==
  /\ mainPc \in {"flags", "dial", "encode", "exited"} \cup Runs
  /\ stopped \in [Runs -> BOOLEAN]
  /\ pc \in [Runs -> [Workers -> PC]]
  /\ attempts \in [Runs -> [Workers -> 0 .. MaxAttempts]]
  /\ requests \in [Runs -> Nat] /\ failures \in [Runs -> Nat]
  /\ errorCounts \in [Runs -> [Errors -> Nat]]
  /\ local \in [Runs -> [Workers -> 0 .. MaxAttempts]]
  /\ latencies \in [Runs -> Nat]
  /\ {errorLock, latencyLock} \subseteq Workers \cup {Unlocked}
  /\ seen \in [Workers -> (Errors \cup {NoText}) \X Nat]
  /\ report \in {<<>>} \cup (Nat \X Nat \X Nat)
  /\ status \in 0 .. 3

\* The failures that the error map of a run explains: of each text, as many as the
\* map counts.
Explained(r) == UNION {{e} \X (1 .. errorCounts[r][e]) : e \in Errors}
Unexplained(r) == {w \in Workers : pc[r][w] \in {"failed", "addError"}}

\* The error map and the failure counter agree: every failure counted is in the
\* map or about to be added by the goroutine that counted it.  When the result
\* is made the map explains all failures (addError, and the two updates per
\* failure in run, which nothing makes atomic together).
ErrorsExplained ==
  /\ \A r \in Runs : failures[r] = Cardinality(Explained(r)) + Cardinality(Unexplained(r))
  /\ report # <<>> => Cardinality(Explained("measured")) = report[2]

\* The gRPC load generator keeps the same promises as the HTTP one.
M == INSTANCE Measurement WITH
       succeeded <- requests["measured"],
       failed <- failures["measured"]

ImplementsMeasurement == M!MSpec

\* The process ends: neither of the two locks nor wg.Wait keeps it forever.
Terminates == <>(mainPc = "exited")

===============================================================================
