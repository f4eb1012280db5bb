-------------------------------- MODULE LoadGen --------------------------------
(***************************************************************************)
(* The HTTP load generator, benchmarks/go/cmd/loadgen/main.go.  main calls *)
(* run twice, for the warmup and for the measured load.  Each call starts  *)
(* one goroutine per unit of concurrency; the goroutines issue requests    *)
(* until the context of the run expires, add to two atomic counters, keep  *)
(* their latencies in a slice of their own and append it to a shared slice *)
(* under latencyLock when they leave.  main waits for all of them.         *)
(*                                                                         *)
(* Abstracted: a latency is the identity <<worker, attempt>> of the        *)
(* request it measures, the shared slice is its length, and byte counts    *)
(* are left out.  The goroutines of a run are spawned in one step: one     *)
(* that is spawned later behaves as one that waits at the head of its loop.*)
(***************************************************************************)
EXTENDS Naturals, FiniteSets

CONSTANTS
  Workers,      (* the goroutines of one run: --concurrency of them        *)
  MaxAttempts   (* bound: requests one goroutine may start in one run      *)

ASSUME ConstantsAssumption ==
  /\ IsFiniteSet(Workers)
  /\ MaxAttempts \in Nat

Runs == {"warmup", "measured"}
Unlocked == "unlocked"
ASSUME UnlockedAssumption == Unlocked \notin Workers

\* Only the measured call of run has its collect parameter true.
Collect(r) == r = "measured"

VARIABLES
  mainPc,    (* where main is: parsing flags, in a run, encoding, exited   *)
  expired,   (* has the context of the run reached its deadline?           *)
  pc,        (* where each goroutine of each run is                        *)
  attempts,  (* requests each goroutine has started                        *)
  requests,  (* the atomic counters of each run                            *)
  failures,
  local,     (* localLatencies of each goroutine                           *)
  latencies, (* length of the shared slice of each run                     *)
  seen,      (* the length a goroutine read at the start of its append     *)
  lock,      (* holder of latencyLock                                      *)
  report,    (* <<requests, failures, sampleCount>> of the result          *)
  status     (* exit status of the process                                 *)

counters == <<requests, failures>>
slices == <<local, latencies, seen, lock>>
outcome == <<report, status>>
vars == <<mainPc, expired, pc, attempts, counters, slices, outcome>>

Running == 3
PC == {"unborn", "loop", "request", "lock", "append", "done"}
AttemptId == Workers \X (1 .. MaxAttempts)

Init ==
  /\ mainPc = "flags"
  /\ expired = [r \in Runs |-> FALSE]
  /\ pc = [r \in Runs |-> [w \in Workers |-> "unborn"]]
  /\ attempts = [r \in Runs |-> [w \in Workers |-> 0]]
  /\ requests = [r \in Runs |-> 0]
  /\ failures = [r \in Runs |-> 0]
  /\ local = [r \in Runs |-> [w \in Workers |-> {}]]
  /\ latencies = [r \in Runs |-> 0]
  /\ seen = [w \in Workers |-> 0]
  /\ lock = Unlocked
  /\ report = <<>>
  /\ status = Running

--------------------------------------------------------------------------------
(* main *)

\* No --url, or an --expected-json that does not parse.
RejectFlags ==
  /\ mainPc = "flags"
  /\ mainPc' = "exited"
  /\ status' = 2
  /\ UNCHANGED <<expired, pc, attempts, counters, slices, report>>

\* main calls run: a fresh context, fresh counters, one goroutine per worker.
StartRun(r) ==
  /\ mainPc' = r
  /\ pc' = [pc EXCEPT ![r] = [w \in Workers |-> "loop"]]

\* The warmup run is skipped when --warmup is 0.
AcceptFlags ==
  /\ mainPc = "flags"
  /\ \E r \in Runs : StartRun(r)
  /\ UNCHANGED <<expired, attempts, counters, slices, outcome>>

\* Mutant: wg.Add(1) is called once, so the first wg.Done() lets main go on.
FirstDone(r) == \E w \in Workers : pc[r][w] = "done"

\* wg.Wait() of run r has returned.
AllDone(r) == \A w \in Workers : pc[r][w] = "done"

\* run returns and its deferred cancel() ends the context.
CancelContext(r) == expired' = [expired EXCEPT ![r] = TRUE]

\* The result of the warmup is dropped; the measured run starts from nothing.
FinishWarmup ==
  /\ mainPc = "warmup"
  /\ AllDone("warmup")
  /\ CancelContext("warmup")
  /\ StartRun("measured")
  /\ UNCHANGED <<attempts, counters, slices, outcome>>

\* Mutant: the result is made without its latency summary.
FinishWithoutSamples ==
  /\ mainPc = "measured"
  /\ AllDone("measured")
  /\ CancelContext("measured")
  /\ mainPc' = "encode"
  /\ report' = <<requests["measured"], failures["measured"]>>
  /\ UNCHANGED <<pc, attempts, counters, slices, status>>

FinishMeasured ==
  /\ mainPc = "measured"
  /\ AllDone("measured")
  /\ CancelContext("measured")
  /\ mainPc' = "encode"
  /\ report' = <<requests["measured"], failures["measured"], latencies["measured"]>>
  /\ UNCHANGED <<pc, attempts, counters, slices, status>>

EncodeFails ==
  /\ mainPc = "encode"
  /\ mainPc' = "exited"
  /\ status' = 1
  /\ UNCHANGED <<expired, pc, attempts, counters, slices, report>>

\* Mutant: the exit status does not consult the failures.
ExitIgnoringFailures ==
  /\ mainPc = "encode"
  /\ mainPc' = "exited"
  /\ status' = IF report[1] = 0 THEN 1 ELSE 0
  /\ UNCHANGED <<expired, pc, attempts, counters, slices, report>>

Exit ==
  /\ mainPc = "encode"
  /\ mainPc' = "exited"
  /\ status' = IF report[2] > 0 \/ report[1] = 0 THEN 1 ELSE 0
  /\ UNCHANGED <<expired, pc, attempts, counters, slices, report>>

--------------------------------------------------------------------------------
(* the context of a run, and its goroutines *)

\* Mutant: the context has no timeout, only the clock goes on.
NoDeadline(r) == mainPc = r /\ UNCHANGED vars

Deadline(r) ==
  /\ mainPc = r /\ ~expired[r]
  /\ expired' = [expired EXCEPT ![r] = TRUE]
  /\ UNCHANGED <<mainPc, pc, attempts, counters, slices, outcome>>

\* Goroutines run until the process exits, whatever main is doing.
Goto(r, w, from, to) ==
  /\ mainPc # "exited"
  /\ pc[r][w] = from
  /\ pc' = [pc EXCEPT ![r][w] = to]

\* ctx.Err() == nil: the goroutine issues its next request.
StartRequest(r, w) ==
  /\ Goto(r, w, "loop", "request")
  /\ ~expired[r]
  /\ attempts[r][w] < MaxAttempts
  /\ attempts' = [attempts EXCEPT ![r][w] = @ + 1]
  /\ UNCHANGED <<mainPc, expired, counters, slices, outcome>>

\* Mutant: a request that the deadline overtakes is not counted as a failure.
FailureAfterDeadlineIgnored(r, w) ==
  /\ Goto(r, w, "request", "loop")
  /\ failures' = [failures EXCEPT ![r] = IF expired[r] THEN @ ELSE @ + 1]
  /\ UNCHANGED <<mainPc, expired, attempts, requests, slices, outcome>>

\* An error, a timeout of the client, a wrong status, body or JSON field.  The
\* client's timeout is its own: a request outlives the deadline of the run.
RequestFails(r, w) ==
  /\ Goto(r, w, "request", "loop")
  /\ failures' = [failures EXCEPT ![r] = @ + 1]
  /\ UNCHANGED <<mainPc, expired, attempts, requests, slices, outcome>>

RequestSucceeds(r, w) ==
  /\ Goto(r, w, "request", "loop")
  /\ requests' = [requests EXCEPT ![r] = @ + 1]
  /\ local' = IF Collect(r)
                THEN [local EXCEPT ![r][w] = @ \cup {<<w, attempts[r][w]>>}]
                ELSE local
  /\ UNCHANGED <<mainPc, expired, attempts, failures, latencies, seen, lock, outcome>>

\* ctx.Err() # nil: nothing to hand over, the deferred wg.Done() runs at once.
LeaveEmpty(r, w) ==
  /\ Goto(r, w, "loop", "done")
  /\ expired[r]
  /\ ~Collect(r) \/ local[r][w] = {}
  /\ UNCHANGED <<mainPc, expired, attempts, counters, slices, outcome>>

LeaveWithSamples(r, w) ==
  /\ Goto(r, w, "loop", "lock")
  /\ expired[r]
  /\ Collect(r) /\ local[r][w] # {}
  /\ UNCHANGED <<mainPc, expired, attempts, counters, slices, outcome>>

\* Mutant: the goroutine appends without waiting for the lock.
AppendUnlocked(r, w) ==
  /\ Goto(r, w, "lock", "append")
  /\ lock' = w
  /\ seen' = [seen EXCEPT ![w] = latencies[r]]
  /\ UNCHANGED <<mainPc, expired, attempts, counters, local, latencies, outcome>>

\* latencyLock.Lock(), and the read of the slice that append starts with.
LockLatencies(r, w) ==
  /\ Goto(r, w, "lock", "append")
  /\ lock = Unlocked
  /\ lock' = w
  /\ seen' = [seen EXCEPT ![w] = latencies[r]]
  /\ UNCHANGED <<mainPc, expired, attempts, counters, local, latencies, outcome>>

\* The write of the grown slice, latencyLock.Unlock() and wg.Done().
AppendLatencies(r, w) ==
  /\ Goto(r, w, "append", "done")
  /\ latencies' = [latencies EXCEPT ![r] = seen[w] + Cardinality(local[r][w])]
  /\ local' = [local EXCEPT ![r][w] = {}]
  /\ lock' = Unlocked
  /\ UNCHANGED <<mainPc, expired, attempts, counters, seen, outcome>>

WorkerStep(r, w) ==
  \/ StartRequest(r, w)
  \/ RequestFails(r, w)
  \/ RequestSucceeds(r, w)
  \/ LeaveEmpty(r, w)
  \/ LeaveWithSamples(r, w)
  \/ LockLatencies(r, w)
  \/ AppendLatencies(r, w)

MainStep ==
  \/ RejectFlags
  \/ AcceptFlags
  \/ FinishWarmup
  \/ FinishMeasured
  \/ EncodeFails
  \/ Exit

\* The process is gone: nothing happens any more.
Exited == mainPc = "exited" /\ UNCHANGED vars

Next ==
  \/ MainStep
  \/ \E r \in Runs : Deadline(r)
  \/ \E r \in Runs, w \in Workers : WorkerStep(r, w)
  \/ Exited

Spec == Init /\ [][Next]_vars

\* The runtime schedules every goroutine, the timer of the context fires, and
\* the client's 10 second timeout ends every request (a worker step).
Fairness ==
  /\ WF_vars(MainStep)
  /\ \A r \in Runs : WF_vars(Deadline(r))
  /\ \A r \in Runs, w \in Workers : WF_vars(WorkerStep(r, w))

FairSpec == Spec /\ Fairness

--------------------------------------------------------------------------------
(* Properties *)

InFlight(r) == {w \in Workers : pc[r][w] = "request"}
Started(r) == {id \in AttemptId : id[2] <= attempts[r][id[1]]}
Unmerged(r) == UNION {local[r][w] : w \in Workers}

TypeOK ==
  /\ mainPc \in {"flags", "encode", "exited"} \cup Runs
  /\ expired \in [Runs -> BOOLEAN]
  /\ pc \in [Runs -> [Workers -> PC]]
  /\ attempts \in [Runs -> [Workers -> 0 .. MaxAttempts]]
  /\ requests \in [Runs -> Nat]
  /\ failures \in [Runs -> Nat]
  /\ local \in [Runs -> [Workers -> SUBSET AttemptId]]
  /\ latencies \in [Runs -> Nat]
  /\ seen \in [Workers -> Nat]
  /\ lock \in Workers \cup {Unlocked}
  /\ report \in {<<>>} \cup (Nat \X Nat \X Nat)
  /\ status \in 0 .. 3

\* Every request a run starts is counted exactly once, as a success or as a
\* failure, as soon as it is over: requests the deadline overtakes included
\* (the loop of run in main.go, which counts after its context has expired).
EveryAttemptCounted ==
  \A r \in Runs :
    requests[r] + failures[r] + Cardinality(InFlight(r)) = Cardinality(Started(r))

\* No sample is lost or recorded twice on its way from a goroutine's slice to
\* the shared one, although goroutines leave at the same time: the samples
\* merged and those still to be merged are the successes of the measured run.
SampleLedger ==
  requests["measured"] =
    latencies["measured"] + Cardinality(Unmerged("measured"))

\* The load the server sees is the configured concurrency and nothing else:
\* no request of the warmup is in flight once the measured load has begun, and
\* none at all once the result has been computed.
LoadIsolated ==
  /\ mainPc = "measured" => InFlight("warmup") = {}
  /\ mainPc = "encode" => InFlight("warmup") \cup InFlight("measured") = {}
  /\ Cardinality(InFlight("warmup")) + Cardinality(InFlight("measured"))
       <= Cardinality(Workers)

\* The load generator keeps the promises of Measurement: the report carries
\* the exact totals, nothing is counted after it, and status 0 means that
\* something was measured and nothing failed.
M == INSTANCE Measurement WITH
       succeeded <- requests["measured"],
       failed <- failures["measured"]

ImplementsMeasurement == M!MSpec

\* The process ends: neither wg.Wait nor latencyLock keeps it forever, which
\* matters because benchctl.py waits for it without a timeout.
Terminates == <>(mainPc = "exited")

--------------------------------------------------------------------------------
(* What makes the properties inductive.  TLAPS uses it in LoadGen_proofs.  *)

Over == {"unborn", "done"}

\* A run has live goroutines only while main is inside its call of run.
RunsInOrder ==
  /\ mainPc # "warmup" => \A w \in Workers : pc["warmup"][w] \in Over
  /\ mainPc # "measured" => \A w \in Workers : pc["measured"][w] \in Over
  /\ mainPc \in {"flags", "warmup"} => \A w \in Workers : pc["measured"][w] = "unborn"
  /\ mainPc = "encode" => \A w \in Workers : pc["measured"][w] = "done"

\* A goroutine's slice holds requests of its own that are over, and only a
\* goroutine of the measured run that has not left yet has one.
OwnSamples ==
  /\ \A w \in Workers : local["warmup"][w] = {}
  /\ \A w \in Workers : pc["measured"][w] \in Over => local["measured"][w] = {}
  /\ \A w \in Workers, id \in AttemptId :
       id \in local["measured"][w] =>
         /\ id[1] = w /\ id[2] <= attempts["measured"][w]
         /\ pc["measured"][w] = "request" => id[2] # attempts["measured"][w]

\* A request in flight is the last one its goroutine has started.
HasStarted ==
  \A r \in Runs, w \in Workers : pc[r][w] = "request" => attempts[r][w] > 0

\* Between the two halves of an append nobody else touches the shared slice.
LockProtects ==
  \A w \in Workers :
    /\ pc["warmup"][w] \notin {"lock", "append"}
    /\ pc["measured"][w] = "append" =>
         lock = w /\ seen[w] = latencies["measured"]

\* The result exists exactly from the end of the measured run.
ResultInStep ==
  /\ mainPc \in {"flags", "warmup", "measured"} => report = <<>>
  /\ mainPc # "exited" => status = Running
  /\ mainPc \in {"flags", "warmup"} =>
       requests["measured"] = 0 /\ failures["measured"] = 0
  /\ mainPc = "encode" =>
       report = <<requests["measured"], failures["measured"], requests["measured"]>>

IInv ==
  /\ TypeOK
  /\ RunsInOrder
  /\ OwnSamples
  /\ HasStarted
  /\ LockProtects
  /\ ResultInStep
  /\ EveryAttemptCounted
  /\ SampleLedger

===============================================================================
