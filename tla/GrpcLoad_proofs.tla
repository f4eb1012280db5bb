---------------------------- MODULE GrpcLoad_proofs ----------------------------
(***************************************************************************)
(* Proofs about GrpcLoad, for any finite set of goroutines, any error      *)
(* texts and any bound on the calls of each: its type invariant, that the  *)
(* error map explains every failure, and the refinement of Measurement.    *)
(***************************************************************************)
EXTENDS GrpcLoad, FiniteSetTheorems, TLAPS

(***************************************************************************)
(* The inductive invariant                                                 *)
(***************************************************************************)

\* Which goroutines can be at work when main is where it is.
RunsInStep ==
  /\ \A r \in Runs, w \in Workers :
       /\ pc[r][w] \notin {"unborn", "done"} => mainPc = r
       /\ pc[r][w] = "call" => local[r][w] < attempts[r][w]
       /\ local[r][w] <= attempts[r][w]
  /\ mainPc \in {"flags", "dial", "warmup"} =>
       /\ requests["measured"] = 0 /\ failures["measured"] = 0
       /\ \A w \in Workers : pc["measured"][w] = "unborn"
  /\ mainPc \in {"flags", "dial"} => \A w \in Workers : pc["warmup"][w] = "unborn"
  /\ mainPc = "measured" => \A w \in Workers : pc["measured"][w] # "unborn"
  /\ mainPc = "encode" \/ report # <<>> => AllDone("measured")

\* A goroutine between lock and unlock holds the lock, and what it read there is
\* still so.
LocksProtect ==
  \A r \in Runs, w \in Workers :
    /\ pc[r][w] = "addError" =>
         errorLock = w /\ \E e \in Errors : seen[w] = <<e, errorCounts[r][e]>>
    /\ pc[r][w] = "append" => latencyLock = w /\ seen[w] = <<NoText, latencies[r]>>

\* Every failure counted is explained or about to be.
FailuresAccounted ==
  \A r \in Runs :
    /\ IsFiniteSet(Explained(r))
    /\ failures[r] = Cardinality(Explained(r)) + Cardinality(Unexplained(r))

\* The samples that goroutines of a run have not yet appended.
Unmerged(r) ==
  {x \in Workers \X (1 .. MaxAttempts) : pc[r][x[1]] # "done" /\ x[2] <= local[r][x[1]]}

\* Every success of the measured run has its sample, in the shared slice or in that
\* of a goroutine that has still to append it.
SamplesAccounted ==
  requests["measured"] = latencies["measured"] + Cardinality(Unmerged("measured"))

\* The result has the totals, which no longer change, and the process ends after it.
ReportInStep ==
  /\ report # <<>> =>
       /\ report = <<requests["measured"], failures["measured"], requests["measured"]>>
       /\ mainPc \in {"encode", "exited"}
  /\ mainPc = "encode" => report # <<>>
  /\ mainPc # "exited" => status = Running

IInv ==
  /\ TypeOK
  /\ RunsInStep
  /\ LocksProtect
  /\ FailuresAccounted
  /\ SamplesAccounted
  /\ ReportInStep

--------------------------------------------------------------------------------
(* What the steps have in common *)

\* A goroutine that makes a step belongs to the run that main waits for, and moves
\* nobody else.
LEMMA GoroutineMoves ==
  ASSUME TypeOK, RunsInStep, NEW r \in Runs, NEW w \in Workers, WorkerStep(r, w)
  PROVE  /\ mainPc = r /\ pc[r][w] \notin {"unborn", "done"}
         /\ pc'[r][w] \in PC \ {"unborn"} /\ pc' = [pc EXCEPT ![r][w] = pc'[r][w]]
         /\ UNCHANGED <<mainPc, stopped, outcome>>
<1>1. PICK from \in PC \ {"unborn", "done"}, to \in PC \ {"unborn"} : Goto(r, w, from, to)
  <2>1. \A a, b : Goto(r, w, a, b) /\ a \in PC \ {"unborn", "done"} /\ b \in PC \ {"unborn"} =>
          \E from \in PC \ {"unborn", "done"}, to \in PC \ {"unborn"} : Goto(r, w, from, to)
    OBVIOUS
  <2> HIDE DEF Goto
  <2>2. CASE StartCall(r, w)
    BY <2>1, <2>2 DEF StartCall, PC
  <2>3. CASE CallSucceeds(r, w)
    BY <2>1, <2>3 DEF CallSucceeds, PC
  <2>4. CASE CallFails(r, w)
    BY <2>1, <2>4 DEF CallFails, PC
  <2>5. CASE LockErrors(r, w)
    BY <2>1, <2>5 DEF LockErrors, PC
  <2>6. CASE AddError(r, w)
    BY <2>1, <2>6 DEF AddError, PC
  <2>7. CASE Leave(r, w)
    <3>1. CASE Collect(r) /\ local[r][w] > 0
      BY <2>1, <2>7, <3>1 DEF Leave, PC
    <3>2. CASE ~(Collect(r) /\ local[r][w] > 0)
      BY <2>1, <2>7, <3>2 DEF Leave, PC
    <3> QED
      BY <3>1, <3>2
  <2>8. CASE LockLatencies(r, w)
    BY <2>1, <2>8 DEF LockLatencies, PC
  <2>9. CASE AppendLatencies(r, w)
    BY <2>1, <2>9 DEF AppendLatencies, PC
  <2> QED
    BY <2>2, <2>3, <2>4, <2>5, <2>6, <2>7, <2>8, <2>9 DEF WorkerStep
<1>2. pc[r][w] = from /\ pc' = [pc EXCEPT ![r][w] = to] /\ UNCHANGED <<mainPc, stopped, outcome>>
  BY <1>1 DEF Goto
<1>3. pc'[r][w] = to
  BY <1>2 DEF TypeOK
<1> QED
  BY <1>2, <1>3 DEF RunsInStep

--------------------------------------------------------------------------------
(* Each conjunct is kept by each step *)

\* Every step keeps every variable in its type (all of grpcload/main.go).
LEMMA TypeStep == TypeOK /\ RunsInStep /\ [Next]_vars => TypeOK'
<1> SUFFICES ASSUME TypeOK, RunsInStep, [Next]_vars PROVE TypeOK'
  OBVIOUS
<1> USE DEF counters, errs, slices, outcome, Reject
<1>1. CASE RejectFlags \/ AcceptFlags \/ DialFails
  BY <1>1 DEF RejectFlags, AcceptFlags, DialFails, TypeOK
<1>2. CASE DialSucceeds \/ FinishWarmup
  <2>1. PICK r \in Runs : StartRun(r) /\ UNCHANGED stopped
    BY <1>2 DEF DialSucceeds, FinishWarmup, Runs
  <2>2. pc' \in [Runs -> [Workers -> PC]]
    BY <2>1 DEF StartRun, TypeOK, PC
  <2> QED
    BY <2>1, <2>2 DEF StartRun, TypeOK
<1>3. CASE FinishMeasured
  <2>1. report' \in Nat \X Nat \X Nat
    BY <1>3 DEF FinishMeasured, TypeOK, Runs
  <2> QED
    BY <1>3, <2>1 DEF FinishMeasured, TypeOK
<1>4. CASE EncodeFails
  BY <1>4 DEF EncodeFails, TypeOK
<1>5. CASE Exit
  <2>1. mainPc' = "exited" /\ status' \in {0, 1}
        /\ UNCHANGED <<stopped, pc, attempts, counters, errs, slices, seen, report>>
    BY <1>5 DEF Exit
  <2> QED
    BY <2>1 DEF TypeOK
<1>6. ASSUME NEW r \in Runs, ReachStopAt(r) PROVE TypeOK'
  BY <1>6 DEF ReachStopAt, TypeOK
<1>7. ASSUME NEW r \in Runs, NEW w \in Workers, WorkerStep(r, w) PROVE TypeOK'
  <2>1. pc' \in [Runs -> [Workers -> PC]] /\ UNCHANGED <<mainPc, stopped, report, status>>
    <3>1. pc'[r][w] \in PC /\ pc' = [pc EXCEPT ![r][w] = pc'[r][w]] /\ UNCHANGED <<mainPc, stopped, outcome>>
      BY <1>7, GoroutineMoves
    <3>2. PICK to \in PC : pc' = [pc EXCEPT ![r][w] = to]
      BY <3>1
    <3> QED
      BY <3>1, <3>2 DEF TypeOK
  <2>2. CASE StartCall(r, w)
    <3>1. attempts' \in [Runs -> [Workers -> 0 .. MaxAttempts]]
      <4>1. attempts[r][w] + 1 \in 0 .. MaxAttempts
        BY SMTT(30), <2>2, GrpcAssumption DEF StartCall, TypeOK
      <4> QED
        BY <2>2, <4>1 DEF StartCall, TypeOK
    <3> QED
      BY <2>1, <2>2, <3>1 DEF StartCall, TypeOK
  <2>3. CASE CallSucceeds(r, w)
    <3>1. local' \in [Runs -> [Workers -> 0 .. MaxAttempts]]
      <4>1. local[r][w] + 1 \in 0 .. MaxAttempts
        <5>1. local[r][w] < attempts[r][w]
          BY <2>3 DEF CallSucceeds, Goto, RunsInStep
        <5>2. local[r][w] \in Nat /\ attempts[r][w] \in 0 .. MaxAttempts /\ MaxAttempts \in Nat
          BY GrpcAssumption DEF TypeOK
        <5> QED
          BY <5>1, <5>2
      <4> QED
        BY <2>3, <4>1 DEF CallSucceeds, TypeOK
    <3>2. requests' \in [Runs -> Nat]
      BY SMTT(30), <2>3 DEF CallSucceeds, TypeOK
    <3> QED
      BY <2>1, <2>3, <3>1, <3>2 DEF CallSucceeds, TypeOK
  <2>4. CASE CallFails(r, w)
    <3>1. failures' \in [Runs -> Nat]
      BY <2>4 DEF CallFails, TypeOK
    <3> QED
      BY <2>1, <2>4, <3>1 DEF CallFails, TypeOK
  <2>5. CASE LockErrors(r, w)
    <3>1. seen' \in [Workers -> (Errors \cup {NoText}) \X Nat]
      BY <2>5 DEF LockErrors, TypeOK
    <3>2. errorLock' \in Workers
      BY <2>5 DEF LockErrors
    <3> QED
      BY <2>1, <2>5, <3>1, <3>2 DEF LockErrors, TypeOK
  <2>6. CASE AddError(r, w)
    <3>1. seen[w][2] + 1 \in Nat /\ Nothing \in (Errors \cup {NoText}) \X Nat
      BY DEF TypeOK, Nothing
    <3>2. errorCounts' \in [Runs -> [Errors -> Nat]]
      BY <2>6, <3>1 DEF AddError, TypeOK
    <3>3. seen' \in [Workers -> (Errors \cup {NoText}) \X Nat]
      BY <2>6, <3>1 DEF AddError, TypeOK
    <3> QED
      BY <2>1, <2>6, <3>2, <3>3 DEF AddError, TypeOK
  <2>7. CASE Leave(r, w)
    BY <2>1, <2>7 DEF Leave, TypeOK
  <2>8. CASE LockLatencies(r, w)
    <3>1. seen' \in [Workers -> (Errors \cup {NoText}) \X Nat]
      BY <2>8 DEF LockLatencies, TypeOK
    <3> QED
      BY <2>1, <2>8, <3>1 DEF LockLatencies, TypeOK
  <2>9. CASE AppendLatencies(r, w)
    <3>1. seen[w][2] + local[r][w] \in Nat /\ Nothing \in (Errors \cup {NoText}) \X Nat
      BY SMTT(30) DEF TypeOK, Nothing
    <3>2. latencies' \in [Runs -> Nat]
      BY <2>9, <3>1 DEF AppendLatencies, TypeOK
    <3>3. seen' \in [Workers -> (Errors \cup {NoText}) \X Nat]
      BY <2>9, <3>1 DEF AppendLatencies, TypeOK
    <3> QED
      BY <2>1, <2>9, <3>2, <3>3 DEF AppendLatencies, TypeOK
  <2> QED
    BY <1>7, <2>2, <2>3, <2>4, <2>5, <2>6, <2>7, <2>8, <2>9 DEF WorkerStep
<1>8. CASE UNCHANGED vars
  BY <1>8 DEF vars, TypeOK
<1> QED
  BY <1>1, <1>2, <1>3, <1>4, <1>5, <1>6, <1>7, <1>8 DEF Next, MainStep, Exited

\* main starts a run after the goroutines of the one before it, and they count their
\* samples behind their calls.
LEMMA RunsInStepStep ==
  TypeOK /\ RunsInStep /\ ReportInStep /\ [Next]_vars => RunsInStep'
<1> SUFFICES ASSUME TypeOK, RunsInStep, ReportInStep, [Next]_vars PROVE RunsInStep'
  OBVIOUS
<1> USE DEF counters, errs, slices, outcome, Reject
<1>1. CASE RejectFlags \/ AcceptFlags \/ DialFails
  <2>1. /\ mainPc \in {"flags", "dial"} /\ mainPc' \in {"dial", "exited"}
        /\ UNCHANGED <<pc, attempts, local, requests, failures, report>>
    BY <1>1 DEF RejectFlags, AcceptFlags, DialFails
  <2> QED
    BY <2>1 DEF RunsInStep, ReportInStep, Runs
<1>2. CASE DialSucceeds \/ FinishWarmup
  <2>1. PICK r \in Runs :
          /\ StartRun(r)
          /\ mainPc = "dial" \/ (mainPc = "warmup" /\ AllDone("warmup") /\ r = "measured")
    <3>1. CASE DialSucceeds
      BY <3>1 DEF DialSucceeds
    <3>2. CASE FinishWarmup
      BY <3>2 DEF FinishWarmup, Runs
    <3> QED
      BY <1>2, <3>1, <3>2
  <2>2. \A q \in Runs, w \in Workers :
          pc[q][w] \in {"unborn", "done"} /\ pc'[q][w] = IF q = r THEN "loop" ELSE pc[q][w]
    BY <2>1 DEF StartRun, RunsInStep, AllDone, Runs, TypeOK
  <2>3. report = <<>>
    BY <2>1 DEF ReportInStep
  <2>4. mainPc' = r /\ r \in Runs /\ UNCHANGED <<attempts, local, requests, failures, report>>
    BY <2>1 DEF StartRun
  <2>5. requests["measured"] = 0 /\ failures["measured"] = 0
        /\ \A w \in Workers : pc["measured"][w] = "unborn"
    BY <2>1 DEF RunsInStep
  <2> QED
    BY <2>2, <2>3, <2>4, <2>5 DEF RunsInStep, Runs
<1>3. CASE FinishMeasured
  BY <1>3 DEF FinishMeasured, RunsInStep, AllDone, Runs
<1>4. CASE EncodeFails \/ Exit
  <2>1. /\ mainPc = "encode" /\ mainPc' = "exited"
        /\ UNCHANGED <<pc, attempts, local, requests, failures, report>>
    BY <1>4 DEF EncodeFails, Exit
  <2> QED
    BY <2>1 DEF RunsInStep, AllDone, Runs
<1>5. ASSUME NEW r \in Runs, ReachStopAt(r) PROVE RunsInStep'
  BY <1>5 DEF ReachStopAt, RunsInStep, AllDone
<1>6. ASSUME NEW r \in Runs, NEW w \in Workers, WorkerStep(r, w) PROVE RunsInStep'
  <2>1. /\ mainPc = r /\ pc[r][w] \notin {"unborn", "done"} /\ pc'[r][w] # "unborn"
        /\ \A q \in Runs, v \in Workers : q # r \/ v # w => pc'[q][v] = pc[q][v]
        /\ mainPc' = mainPc /\ report' = report
    <3>1. PICK to : to \in PC \ {"unborn"} /\ pc' = [pc EXCEPT ![r][w] = to]
                    /\ mainPc = r /\ pc[r][w] \notin {"unborn", "done"} /\ UNCHANGED <<mainPc, report>>
      BY <1>6, GoroutineMoves
    <3> QED
      BY <3>1 DEF TypeOK
  <2>2. report = <<>> /\ mainPc \in Runs
    BY <2>1 DEF ReportInStep, Runs
  <2>3. \A q \in Runs, v \in Workers :
          /\ local'[q][v] <= attempts'[q][v]
          /\ pc'[q][v] = "call" => local'[q][v] < attempts'[q][v]
    <3>0. /\ \A q \in Runs, v \in Workers :
               /\ local[q][v] \in Nat /\ attempts[q][v] \in Nat
               /\ local[q][v] <= attempts[q][v]
               /\ pc[q][v] = "call" => local[q][v] < attempts[q][v]
          /\ local \in [Runs -> [Workers -> Nat]] /\ attempts \in [Runs -> [Workers -> Nat]]
          /\ pc \in [Runs -> [Workers -> PC]]
      BY SMTT(30), GrpcAssumption DEF RunsInStep, TypeOK
    <3>1. CASE StartCall(r, w)
      <4>1. attempts' = [attempts EXCEPT ![r][w] = @ + 1] /\ local' = local
        BY <3>1 DEF StartCall
      <4> QED
        BY <2>1, <3>0, <4>1
    <3>2. CASE CallSucceeds(r, w)
      <4>1. /\ attempts' = attempts /\ pc[r][w] = "call" /\ pc'[r][w] = "loop"
            /\ local' = local \/ local' = [local EXCEPT ![r][w] = @ + 1]
        BY <3>0, <3>2 DEF CallSucceeds, Goto
      <4>2. \A q \in Runs, v \in Workers :
              local'[q][v] = local[q][v] \/ (q = r /\ v = w /\ local'[q][v] = local[q][v] + 1)
        BY <3>0, <4>1
      <4> QED
        BY <2>1, <3>0, <4>1, <4>2
    <3>3. CASE CallFails(r, w) \/ LockErrors(r, w) \/ AddError(r, w) \/ Leave(r, w)
               \/ LockLatencies(r, w) \/ AppendLatencies(r, w)
      <4>1. attempts' = attempts /\ local' = local
        BY <3>3 DEF CallFails, LockErrors, AddError, Leave, LockLatencies, AppendLatencies
      <4>2. pc'[r][w] # "call"
        BY <3>0, <3>3 DEF CallFails, LockErrors, AddError, Leave, LockLatencies, AppendLatencies, Goto
      <4> QED
        BY <2>1, <3>0, <4>1, <4>2
    <3> QED
      BY <1>6, <3>1, <3>2, <3>3 DEF WorkerStep
  <2>4. r = "warmup" => requests'["measured"] = requests["measured"] /\ failures'["measured"] = failures["measured"]
    BY <1>6 DEF WorkerStep, StartCall, CallSucceeds, CallFails, LockErrors, AddError, Leave, LockLatencies,
                AppendLatencies, TypeOK, Runs
  <2> QED
    BY <2>1, <2>2, <2>3, <2>4 DEF RunsInStep, Runs
<1>7. CASE UNCHANGED vars
  BY <1>7 DEF vars, RunsInStep, AllDone
<1> QED
  BY <1>1, <1>2, <1>3, <1>4, <1>5, <1>6, <1>7 DEF Next, MainStep, Exited

\* No two goroutines are between lock and unlock of the same lock: what one read
\* there nobody else has overwritten.
LEMMA LocksProtectStep ==
  TypeOK /\ RunsInStep /\ LocksProtect /\ [Next]_vars => LocksProtect'
<1> SUFFICES ASSUME TypeOK, RunsInStep, LocksProtect, [Next]_vars PROVE LocksProtect'
  OBVIOUS
<1> USE DEF counters, errs, slices, outcome, Reject
<1>a. ASSUME UNCHANGED <<errs, latencies, latencyLock, seen>>,
             \A q \in Runs, v \in Workers : pc'[q][v] \in {"addError", "append"} => pc'[q][v] = pc[q][v]
      PROVE  LocksProtect'
  BY <1>a DEF LocksProtect
<1>1. CASE RejectFlags \/ AcceptFlags \/ DialFails \/ FinishMeasured \/ EncodeFails \/ Exit
  BY <1>1, <1>a DEF RejectFlags, AcceptFlags, DialFails, FinishMeasured, EncodeFails, Exit
<1>2. CASE DialSucceeds \/ FinishWarmup
  <2>1. PICK r \in Runs : StartRun(r)
    BY <1>2 DEF DialSucceeds, FinishWarmup, Runs
  <2>2. \A q \in Runs, v \in Workers : pc'[q][v] = IF q = r THEN "loop" ELSE pc[q][v]
    BY <2>1 DEF StartRun, TypeOK
  <2> QED
    BY <1>a, <2>1, <2>2 DEF StartRun
<1>3. ASSUME NEW r \in Runs, ReachStopAt(r) PROVE LocksProtect'
  BY <1>3, <1>a DEF ReachStopAt
<1>4. ASSUME NEW r \in Runs, NEW w \in Workers, WorkerStep(r, w) PROVE LocksProtect'
  <2>1. /\ mainPc = r
        /\ \A q \in Runs, v \in Workers : q # r \/ v # w => pc'[q][v] = pc[q][v]
    <3>1. PICK to : to \in PC /\ pc' = [pc EXCEPT ![r][w] = to] /\ mainPc = r
      BY <1>4, GoroutineMoves
    <3> QED
      BY <3>1 DEF TypeOK
  <2>2. \A q \in Runs, v \in Workers :
          /\ pc[q][v] \in {"addError", "append"} => q = r
          /\ pc[q][v] = "addError" =>
               errorLock = v /\ \E e \in Errors : seen[v] = <<e, errorCounts[q][e]>>
          /\ pc[q][v] = "append" => latencyLock = v /\ seen[v] = <<NoText, latencies[q]>>
    BY <2>1 DEF LocksProtect, RunsInStep
  <2>3. CASE StartCall(r, w) \/ CallSucceeds(r, w) \/ CallFails(r, w) \/ Leave(r, w)
    <3>1. UNCHANGED <<errs, latencies, latencyLock, seen>> /\ pc'[r][w] \notin {"addError", "append"}
      BY SMTT(30), <2>3 DEF StartCall, CallSucceeds, CallFails, Leave, Goto, TypeOK
    <3> QED
      BY <1>a, <2>1, <3>1
  <2>4. CASE LockErrors(r, w)
    <3>1. PICK e \in Errors :
            /\ errorLock = Unlocked /\ errorLock' = w
            /\ seen' = [seen EXCEPT ![w] = <<e, errorCounts[r][e]>>]
            /\ UNCHANGED <<errorCounts, latencies, latencyLock>>
            /\ pc[r][w] = "failed" /\ pc'[r][w] = "addError"
      BY <2>4 DEF LockErrors, Goto, TypeOK
    <3>2. seen'[w] = <<e, errorCounts[r][e]>> /\ \A v \in Workers : v # w => seen'[v] = seen[v]
      BY <3>1 DEF TypeOK
    <3>3. \A q \in Runs, v \in Workers : pc[q][v] # "addError"
      BY <2>2, <3>1, UnlockedAssumption
    <3> QED
      BY <2>1, <2>2, <3>1, <3>2, <3>3 DEF LocksProtect
  <2>5. CASE AddError(r, w)
    <3>1. /\ pc[r][w] = "addError" /\ pc'[r][w] = "loop"
          /\ seen' = [seen EXCEPT ![w] = Nothing] /\ UNCHANGED <<latencies, latencyLock>>
      BY <2>5 DEF AddError, Goto, TypeOK
    <3>2. \A v \in Workers : v # w => seen'[v] = seen[v]
      BY <3>1 DEF TypeOK
    <3>3. \A q \in Runs, v \in Workers : pc'[q][v] # "addError"
      BY <2>1, <2>2, <3>1
    <3> QED
      BY <2>1, <2>2, <3>1, <3>2, <3>3 DEF LocksProtect
  <2>6. CASE LockLatencies(r, w)
    <3>1. /\ latencyLock = Unlocked /\ latencyLock' = w
          /\ seen' = [seen EXCEPT ![w] = <<NoText, latencies[r]>>]
          /\ UNCHANGED <<errorCounts, errorLock, latencies>>
          /\ pc[r][w] = "lockLatencies" /\ pc'[r][w] = "append"
      BY <2>6 DEF LockLatencies, Goto, TypeOK
    <3>2. seen'[w] = <<NoText, latencies[r]>> /\ \A v \in Workers : v # w => seen'[v] = seen[v]
      BY <3>1 DEF TypeOK
    <3>3. \A q \in Runs, v \in Workers : pc[q][v] # "append"
      BY <2>2, <3>1, UnlockedAssumption
    <3> QED
      BY <2>1, <2>2, <3>1, <3>2, <3>3 DEF LocksProtect
  <2>7. CASE AppendLatencies(r, w)
    <3>1. /\ pc[r][w] = "append" /\ pc'[r][w] = "done"
          /\ seen' = [seen EXCEPT ![w] = Nothing] /\ UNCHANGED <<errorCounts, errorLock>>
      BY <2>7 DEF AppendLatencies, Goto, TypeOK
    <3>2. \A v \in Workers : v # w => seen'[v] = seen[v]
      BY <3>1 DEF TypeOK
    <3>3. \A q \in Runs, v \in Workers : pc'[q][v] # "append"
      BY <2>1, <2>2, <3>1
    <3> QED
      BY <2>1, <2>2, <3>1, <3>2, <3>3 DEF LocksProtect
  <2> QED
    BY <1>4, <2>3, <2>4, <2>5, <2>6, <2>7 DEF WorkerStep
<1>5. CASE UNCHANGED vars
  BY <1>5 DEF vars, LocksProtect
<1> QED
  BY <1>1, <1>2, <1>3, <1>4, <1>5 DEF Next, MainStep, Exited

\* One failure more in the map, and the set of explained failures has one more.
LEMMA ExplainedGrows ==
  ASSUME TypeOK, NEW r \in Runs, NEW e \in Errors, IsFiniteSet(Explained(r)),
         errorCounts' = [errorCounts EXCEPT ![r][e] = errorCounts[r][e] + 1]
  PROVE  IsFiniteSet(Explained(r)') /\ Cardinality(Explained(r)') = Cardinality(Explained(r)) + 1
<1> DEFINE n == errorCounts[r][e] + 1
<1>1. \A t \in Errors :
        errorCounts[r][t] \in Nat /\ errorCounts'[r][t] = IF t = e THEN n ELSE errorCounts[r][t]
  BY DEF TypeOK
<1>2. \A x : x \in Explained(r) <=> \E t \in Errors : \E i \in 1 .. errorCounts[r][t] : x = <<t, i>>
  BY DEF Explained
<1>3. \A x : x \in Explained(r)' <=> \E t \in Errors : \E i \in 1 .. errorCounts'[r][t] : x = <<t, i>>
  BY DEF Explained
<1>4. <<e, n>> \notin Explained(r)
  BY <1>1, <1>2
<1>5. Explained(r)' = Explained(r) \cup {<<e, n>>}
  <2>1. \A t \in Errors : \A i : i \in 1 .. errorCounts'[r][t] <=> i \in 1 .. errorCounts[r][t] \/ (t = e /\ i = n)
    BY <1>1
  <2>2. ASSUME NEW x PROVE x \in Explained(r)' <=> x \in Explained(r) \/ x = <<e, n>>
    <3> HIDE DEF n
    <3> QED
      BY <1>2, <1>3, <2>1
  <2> QED
    BY <2>2
<1> QED
  BY <1>4, <1>5, FS_AddElement

\* The counter goes up when the goroutine fails, the map when it has the lock.
LEMMA FailuresAccountedStep ==
  TypeOK /\ RunsInStep /\ LocksProtect /\ FailuresAccounted /\ [Next]_vars => FailuresAccounted'
<1> SUFFICES ASSUME TypeOK, RunsInStep, LocksProtect, FailuresAccounted, [Next]_vars
             PROVE  FailuresAccounted'
  OBVIOUS
<1> USE DEF counters, errs, slices, outcome, Reject
<1>0. \A r \in Runs : IsFiniteSet(Unexplained(r)) /\ Cardinality(Unexplained(r)) \in Nat
                      /\ IsFiniteSet(Explained(r)) /\ Cardinality(Explained(r)) \in Nat
  BY GrpcAssumption, FS_Subset, FS_CardinalityType DEF Unexplained, FailuresAccounted
<1>a. ASSUME UNCHANGED <<errorCounts, failures>>,
             \A q \in Runs, v \in Workers :
               pc'[q][v] \in {"failed", "addError"} <=> pc[q][v] \in {"failed", "addError"}
      PROVE  FailuresAccounted'
  <2>1. \A q \in Runs : Unexplained(q)' = Unexplained(q) /\ Explained(q)' = Explained(q)
    BY <1>a DEF Unexplained, Explained
  <2> QED
    BY <1>a, <2>1 DEF FailuresAccounted
<1>1. CASE RejectFlags \/ AcceptFlags \/ DialFails \/ FinishMeasured \/ EncodeFails \/ Exit
  BY <1>1, <1>a DEF RejectFlags, AcceptFlags, DialFails, FinishMeasured, EncodeFails, Exit
<1>2. CASE DialSucceeds \/ FinishWarmup
  <2>1. PICK r \in Runs : StartRun(r) /\ mainPc # r
    BY <1>2 DEF DialSucceeds, FinishWarmup, Runs
  <2>2. \A q \in Runs, v \in Workers :
          /\ pc'[q][v] = IF q = r THEN "loop" ELSE pc[q][v]
          /\ pc[r][v] \in {"unborn", "done"}
    BY <2>1 DEF StartRun, TypeOK, RunsInStep
  <2> QED
    BY <1>a, <2>1, <2>2 DEF StartRun
<1>3. ASSUME NEW r \in Runs, ReachStopAt(r) PROVE FailuresAccounted'
  BY <1>3, <1>a DEF ReachStopAt
<1>4. ASSUME NEW r \in Runs, NEW w \in Workers, WorkerStep(r, w) PROVE FailuresAccounted'
  <2>1. \A q \in Runs, v \in Workers : q # r \/ v # w => pc'[q][v] = pc[q][v]
    <3>1. PICK to : to \in PC /\ pc' = [pc EXCEPT ![r][w] = to]
      BY <1>4, GoroutineMoves
    <3> QED
      BY <3>1 DEF TypeOK
  <2>2. CASE StartCall(r, w) \/ CallSucceeds(r, w) \/ LockErrors(r, w) \/ Leave(r, w)
             \/ LockLatencies(r, w) \/ AppendLatencies(r, w)
    <3>1. /\ UNCHANGED <<errorCounts, failures>>
          /\ pc'[r][w] \in {"failed", "addError"} <=> pc[r][w] \in {"failed", "addError"}
      BY <2>2 DEF StartCall, CallSucceeds, LockErrors, Leave, LockLatencies, AppendLatencies, Goto, TypeOK
    <3> QED
      BY <1>a, <2>1, <3>1
  <2>3. CASE CallFails(r, w)
    <3>1. /\ failures' = [failures EXCEPT ![r] = @ + 1] /\ errorCounts' = errorCounts
          /\ pc[r][w] = "call" /\ pc'[r][w] = "failed"
      BY <2>3 DEF CallFails, Goto, TypeOK
    <3>2. \A q \in Runs : Explained(q)' = Explained(q)
      BY <3>1 DEF Explained
    <3>3. \A q \in Runs : q # r => Unexplained(q)' = Unexplained(q) /\ failures'[q] = failures[q]
      BY <2>1, <3>1 DEF Unexplained, TypeOK
    <3>4. Unexplained(r)' = Unexplained(r) \cup {w} /\ w \notin Unexplained(r)
      BY <2>1, <3>1 DEF Unexplained
    <3>5. Cardinality(Unexplained(r)') = Cardinality(Unexplained(r)) + 1
      BY <1>0, <3>4, FS_AddElement
    <3>6. failures'[r] = Cardinality(Explained(r)) + Cardinality(Unexplained(r)')
      <4>1. failures'[r] = failures[r] + 1 /\ failures[r] \in Nat
        BY <3>1 DEF TypeOK
      <4>2. failures[r] = Cardinality(Explained(r)) + Cardinality(Unexplained(r))
        BY DEF FailuresAccounted
      <4> QED
        BY <1>0, <3>5, <4>1, <4>2
    <3> QED
      BY <3>2, <3>3, <3>6 DEF FailuresAccounted
  <2>4. CASE AddError(r, w)
    <3>1. /\ errorCounts' = [errorCounts EXCEPT ![r][seen[w][1]] = seen[w][2] + 1]
          /\ failures' = failures /\ pc[r][w] = "addError" /\ pc'[r][w] = "loop"
      BY <2>4 DEF AddError, Goto, TypeOK
    <3>2. PICK e \in Errors : seen[w] = <<e, errorCounts[r][e]>>
      BY <3>1 DEF LocksProtect
    <3>3. errorCounts' = [errorCounts EXCEPT ![r][e] = errorCounts[r][e] + 1]
      BY <3>1, <3>2
    <3>4. IsFiniteSet(Explained(r)') /\ Cardinality(Explained(r)') = Cardinality(Explained(r)) + 1
      BY <1>0, <3>3, ExplainedGrows
    <3>5. Unexplained(r)' = Unexplained(r) \ {w} /\ w \in Unexplained(r)
      BY <2>1, <3>1 DEF Unexplained
    <3>6. Cardinality(Unexplained(r)') = Cardinality(Unexplained(r)) - 1
      BY <1>0, <3>5, FS_RemoveElement
    <3>7. failures'[r] = Cardinality(Explained(r)') + Cardinality(Unexplained(r)')
      <4>1. failures[r] = Cardinality(Explained(r)) + Cardinality(Unexplained(r))
        BY DEF FailuresAccounted
      <4> QED
        BY <1>0, <3>1, <3>4, <3>6, <4>1
    <3>8. \A q \in Runs : q # r => Unexplained(q)' = Unexplained(q) /\ Explained(q)' = Explained(q)
      <4>1. \A q \in Runs : q # r => errorCounts'[q] = errorCounts[q]
        BY <3>3 DEF TypeOK
      <4> QED
        BY <2>1, <4>1 DEF Unexplained, Explained
    <3> QED
      BY <3>1, <3>4, <3>7, <3>8 DEF FailuresAccounted
  <2> QED
    BY <1>4, <2>2, <2>3, <2>4 DEF WorkerStep
<1>5. CASE UNCHANGED vars
  BY <1>5, <1>a DEF vars
<1> QED
  BY <1>1, <1>2, <1>3, <1>4, <1>5 DEF Next, MainStep, Exited

\* What a goroutine has still to append are as many samples as its slice has.
LEMMA UnmergedFinite ==
  ASSUME NEW r \in Runs
  PROVE  IsFiniteSet(Unmerged(r)) /\ Cardinality(Unmerged(r)) \in Nat
<1>1. IsFiniteSet(1 .. MaxAttempts)
  BY GrpcAssumption, FS_Interval
<1>2. IsFiniteSet(Workers \X (1 .. MaxAttempts))
  BY <1>1, GrpcAssumption, FS_Product
<1>3. Unmerged(r) \subseteq Workers \X (1 .. MaxAttempts)
  BY DEF Unmerged
<1> QED
  BY <1>2, <1>3, FS_Subset, FS_CardinalityType

\* Appending a slice moves its samples, all of them and no others.
LEMMA SliceAppended ==
  ASSUME TypeOK, NEW r \in Runs, NEW w \in Workers, pc[r][w] # "done", pc'[r][w] = "done", local' = local,
         \A v \in Workers : v # w => pc'[r][v] = pc[r][v]
  PROVE  Cardinality(Unmerged(r)) = Cardinality(Unmerged(r)') + local[r][w]
<1> DEFINE Slice == {w} \X (1 .. local[r][w])
<1>0. local[r][w] \in 0 .. MaxAttempts /\ MaxAttempts \in Nat
  BY GrpcAssumption DEF TypeOK
<1>1. IsFiniteSet(Slice) /\ Cardinality(Slice) = local[r][w]
  <2>1. IsFiniteSet(1 .. local[r][w]) /\ Cardinality(1 .. local[r][w]) = local[r][w]
    <3>1. local[r][w] \in Int /\ 1 \in Int
      BY <1>0
    <3>2. /\ IsFiniteSet(1 .. local[r][w])
          /\ Cardinality(1 .. local[r][w]) = IF 1 > local[r][w] THEN 0 ELSE local[r][w] - 1 + 1
      BY <3>1, FS_Interval
    <3> QED
      BY <1>0, <3>2
  <2>2. IsFiniteSet({w}) /\ Cardinality({w}) = 1
    BY FS_Singleton
  <2>3. IsFiniteSet(Slice) /\ Cardinality(Slice) = 1 * local[r][w]
    <3>1. \A S, T : IsFiniteSet(S) /\ IsFiniteSet(T) =>
            IsFiniteSet(S \X T) /\ Cardinality(S \X T) = Cardinality(S) * Cardinality(T)
      BY FS_Product
    <3>2. /\ IsFiniteSet({w} \X (1 .. local[r][w]))
          /\ Cardinality({w} \X (1 .. local[r][w])) = Cardinality({w}) * Cardinality(1 .. local[r][w])
      BY <2>1, <2>2, <3>1
    <3> QED
      BY <2>1, <2>2, <3>2
  <2> QED
    BY <1>0, <2>3
<1>2. Unmerged(r) = Unmerged(r)' \cup Slice /\ Unmerged(r)' \cap Slice = {}
  <2>1. \A v \in Workers, i \in 1 .. MaxAttempts :
          <<v, i>> \in Unmerged(r) <=> <<v, i>> \in Unmerged(r)' \/ <<v, i>> \in Slice
    <3> SUFFICES ASSUME NEW v \in Workers, NEW i \in 1 .. MaxAttempts
                 PROVE  <<v, i>> \in Unmerged(r) <=> <<v, i>> \in Unmerged(r)' \/ <<v, i>> \in Slice
      OBVIOUS
    <3>1. <<v, i>> \in Unmerged(r) <=> pc[r][v] # "done" /\ i <= local[r][v]
      BY DEF Unmerged
    <3>2. <<v, i>> \in Unmerged(r)' <=> pc'[r][v] # "done" /\ i <= local[r][v]
      BY DEF Unmerged
    <3>3. <<v, i>> \in Slice <=> v = w /\ i <= local[r][w]
      BY <1>0
    <3> HIDE DEF Slice
    <3> QED
      BY <3>1, <3>2, <3>3
  <2>2. \A v \in Workers, i \in 1 .. MaxAttempts : ~(<<v, i>> \in Unmerged(r)' /\ <<v, i>> \in Slice)
    BY DEF Unmerged
  <2>3. /\ Unmerged(r) \subseteq Workers \X (1 .. MaxAttempts)
        /\ Unmerged(r)' \subseteq Workers \X (1 .. MaxAttempts)
        /\ Slice \subseteq Workers \X (1 .. MaxAttempts)
    BY <1>0 DEF Unmerged
  <2> HIDE DEF Slice
  <2>4. \A x \in Workers \X (1 .. MaxAttempts) : \E v \in Workers, i \in 1 .. MaxAttempts : x = <<v, i>>
    OBVIOUS
  <2>5. \A x : x \in Unmerged(r) <=> x \in Unmerged(r)' \/ x \in Slice
    BY <2>1, <2>3, <2>4
  <2>6. \A x : ~(x \in Unmerged(r)' /\ x \in Slice)
    BY <2>2, <2>3, <2>4
  <2> QED
    BY <2>5, <2>6
<1>3. IsFiniteSet(Unmerged(r)') /\ Cardinality(Unmerged(r)') \in Nat
  <2>1. IsFiniteSet(Unmerged(r)) /\ Unmerged(r)' \subseteq Unmerged(r)
    BY <1>2, UnmergedFinite
  <2> QED
    BY <2>1, FS_Subset, FS_CardinalityType
<1>4. Cardinality(Unmerged(r)) = Cardinality(Unmerged(r)') + Cardinality(Slice) - Cardinality({})
  <2>1. Cardinality(Unmerged(r)' \cup Slice) =
          Cardinality(Unmerged(r)') + Cardinality(Slice) - Cardinality(Unmerged(r)' \cap Slice)
    BY <1>1, <1>3, FS_Union
  <2> QED
    BY <1>2, <2>1
<1> QED
  BY <1>0, <1>1, <1>3, <1>4, FS_EmptySet

\* No sample is lost between a goroutine's slice and the shared one.
LEMMA SamplesAccountedStep ==
  TypeOK /\ RunsInStep /\ LocksProtect /\ SamplesAccounted /\ [Next]_vars => SamplesAccounted'
<1> SUFFICES ASSUME TypeOK, RunsInStep, LocksProtect, SamplesAccounted, [Next]_vars
             PROVE  SamplesAccounted'
  OBVIOUS
<1> DEFINE m == "measured"
<1>m. m \in Runs /\ Collect(m)
  BY DEF Runs, Collect
<1> HIDE DEF m
<1>0. /\ IsFiniteSet(Unmerged(m)) /\ Cardinality(Unmerged(m)) \in Nat
      /\ requests[m] \in Nat /\ latencies[m] \in Nat
      /\ requests[m] = latencies[m] + Cardinality(Unmerged(m))
  BY <1>m, UnmergedFinite DEF TypeOK, SamplesAccounted, m
<1>b. SamplesAccounted' <=> requests'[m] = latencies'[m] + Cardinality(Unmerged(m)')
  BY DEF SamplesAccounted, m
<1> USE DEF counters, errs, slices, outcome, Reject
<1>a. ASSUME requests'[m] = requests[m], latencies'[m] = latencies[m],
             \A v \in Workers : local'[m][v] = local[m][v],
             \A v \in Workers : (pc'[m][v] = "done") <=> (pc[m][v] = "done" \/ (pc'[m][v] = "done" /\ local[m][v] = 0))
      PROVE  SamplesAccounted'
  <2>1. \A v \in Workers, i \in 1 .. MaxAttempts : <<v, i>> \in Unmerged(m)' <=> <<v, i>> \in Unmerged(m)
    <3>1. \A v \in Workers : local[m][v] \in Nat
      BY <1>m DEF TypeOK
    <3> QED
      BY <1>a, <3>1 DEF Unmerged
  <2>2. /\ Unmerged(m) \subseteq Workers \X (1 .. MaxAttempts)
        /\ Unmerged(m)' \subseteq Workers \X (1 .. MaxAttempts)
    BY DEF Unmerged
  <2>3. Unmerged(m)' = Unmerged(m)
    BY <2>1, <2>2
  <2> QED
    BY <1>a, <1>b, <1>0, <2>3
<1>1. CASE RejectFlags \/ AcceptFlags \/ DialFails \/ FinishMeasured \/ EncodeFails \/ Exit
  BY <1>1, <1>a DEF RejectFlags, AcceptFlags, DialFails, FinishMeasured, EncodeFails, Exit
<1>2. CASE DialSucceeds \/ FinishWarmup
  <2>1. PICK r \in Runs : StartRun(r)
    BY <1>2 DEF DialSucceeds, FinishWarmup, Runs
  <2>2. mainPc \in {"flags", "dial", "warmup"}
    BY <1>2 DEF DialSucceeds, FinishWarmup
  <2>3. \A v \in Workers : pc[m][v] = "unborn" /\ pc'[m][v] \in {"unborn", "loop"}
    <3>1. \A v \in Workers : pc[m][v] = "unborn"
      BY <2>2 DEF RunsInStep, m
    <3>2. \A v \in Workers : pc'[m][v] \in {"loop", pc[m][v]}
      BY <1>m, <2>1 DEF StartRun, TypeOK
    <3> QED
      BY <3>1, <3>2
  <2>4. UNCHANGED <<requests, latencies, local>>
    BY <2>1 DEF StartRun
  <2> QED
    BY <1>a, <2>3, <2>4
<1>3. ASSUME NEW r \in Runs, ReachStopAt(r) PROVE SamplesAccounted'
  BY <1>3, <1>a DEF ReachStopAt
<1>4. ASSUME NEW r \in Runs, NEW w \in Workers, WorkerStep(r, w) PROVE SamplesAccounted'
  <2>1. /\ \A q \in Runs, v \in Workers : q # r \/ v # w => pc'[q][v] = pc[q][v]
        /\ pc[r][w] # "done"
    <3>1. PICK to : to \in PC /\ pc' = [pc EXCEPT ![r][w] = to] /\ pc[r][w] # "done"
      BY <1>4, GoroutineMoves
    <3> QED
      BY <3>1 DEF TypeOK
  <2>2. CASE r # m
    <3>1. requests'[m] = requests[m] /\ latencies'[m] = latencies[m]
          /\ \A v \in Workers : local'[m][v] = local[m][v]
      BY <1>4, <1>m, <2>2 DEF WorkerStep, StartCall, CallSucceeds, CallFails, LockErrors, AddError, Leave,
                        LockLatencies, AppendLatencies, TypeOK
    <3> QED
      BY <1>a, <1>m, <2>1, <2>2, <3>1
  <2>3. CASE r = m /\ (StartCall(r, w) \/ CallFails(r, w) \/ LockErrors(r, w) \/ AddError(r, w) \/ LockLatencies(r, w))
    <3>1. UNCHANGED <<requests, latencies, local>> /\ pc'[r][w] # "done"
      BY <2>3 DEF StartCall, CallFails, LockErrors, AddError, LockLatencies, Goto, TypeOK
    <3> QED
      BY <1>a, <2>1, <2>3, <3>1
  <2>4. CASE r = m /\ Leave(r, w)
    <3>1. UNCHANGED <<requests, latencies, local>>
          /\ pc'[m][w] = IF local[m][w] > 0 THEN "lockLatencies" ELSE "done"
      BY <1>m, <2>4 DEF Leave, Goto, TypeOK
    <3>2. local[m][w] \in Nat
      BY <1>m DEF TypeOK
    <3> QED
      BY <1>a, <2>1, <2>4, <3>1, <3>2
  <2>5. CASE r = m /\ AppendLatencies(r, w)
    <3>1. /\ pc[m][w] = "append" /\ pc'[m][w] = "done"
          /\ latencies' = [latencies EXCEPT ![m] = seen[w][2] + local[m][w]]
          /\ UNCHANGED <<requests, local>>
      BY <1>m, <2>5 DEF AppendLatencies, Goto, TypeOK
    <3>2. seen[w][2] = latencies[m]
      BY <1>m, <3>1 DEF LocksProtect
    <3>3. latencies'[m] = latencies[m] + local[m][w] /\ local[m][w] \in Nat
      BY <1>m, <3>1, <3>2 DEF TypeOK
    <3>4. Cardinality(Unmerged(m)) = Cardinality(Unmerged(m)') + local[m][w]
      BY <1>m, <2>1, <2>5, <3>1, SliceAppended
    <3>5. Cardinality(Unmerged(m)') \in Nat
      <4>1. Unmerged(m)' \subseteq Unmerged(m)
        BY <1>m, <2>1, <2>5, <3>1 DEF Unmerged
      <4> QED
        BY <1>0, <4>1, FS_Subset, FS_CardinalityType
    <3> QED
      BY <1>0, <1>b, <3>1, <3>3, <3>4, <3>5
  <2>6. CASE r = m /\ CallSucceeds(r, w)
    <3>1. /\ pc[m][w] = "call" /\ pc'[m][w] = "loop" /\ latencies' = latencies
          /\ requests' = [requests EXCEPT ![m] = @ + 1]
          /\ local' = [local EXCEPT ![m][w] = local[m][w] + 1]
      BY <1>m, <2>6 DEF CallSucceeds, Goto, TypeOK
    <3>2. local[m][w] + 1 \in 1 .. MaxAttempts /\ local[m][w] \in Nat
      <4>1. local[m][w] < attempts[m][w]
        BY <1>m, <3>1 DEF RunsInStep
      <4>2. local[m][w] \in Nat /\ attempts[m][w] \in 0 .. MaxAttempts /\ MaxAttempts \in Nat
        BY <1>m, GrpcAssumption DEF TypeOK
      <4> QED
        BY <4>1, <4>2
    <3>3. PICK x : x = <<w, local[m][w] + 1>>
      OBVIOUS
    <3>4. \A v \in Workers, i \in 1 .. MaxAttempts :
            <<v, i>> \in Unmerged(m)' <=> <<v, i>> \in Unmerged(m) \/ <<v, i>> = x
      <4> SUFFICES ASSUME NEW v \in Workers, NEW i \in 1 .. MaxAttempts
                   PROVE  <<v, i>> \in Unmerged(m)' <=> <<v, i>> \in Unmerged(m) \/ <<v, i>> = x
        OBVIOUS
      <4>1. <<v, i>> \in Unmerged(m) <=> pc[m][v] # "done" /\ i <= local[m][v]
        BY DEF Unmerged
      <4>2. <<v, i>> \in Unmerged(m)' <=> pc'[m][v] # "done" /\ i <= local'[m][v]
        BY DEF Unmerged
      <4>3. local'[m][v] = IF v = w THEN local[m][w] + 1 ELSE local[m][v]
        BY <1>m, <3>1 DEF TypeOK
      <4>4. (pc'[m][v] = "done") <=> (pc[m][v] = "done")
        BY <1>m, <2>1, <2>6, <3>1
      <4> QED
        BY <3>1, <3>2, <3>3, <4>1, <4>2, <4>3, <4>4
    <3>5. /\ Unmerged(m) \subseteq Workers \X (1 .. MaxAttempts)
          /\ Unmerged(m)' \subseteq Workers \X (1 .. MaxAttempts)
          /\ x \in Workers \X (1 .. MaxAttempts)
      BY <3>2, <3>3 DEF Unmerged
    <3>6. Unmerged(m)' = Unmerged(m) \cup {x}
      BY <3>4, <3>5
    <3>7. x \notin Unmerged(m)
      BY <3>2, <3>3 DEF Unmerged
    <3>8. Cardinality(Unmerged(m)') = Cardinality(Unmerged(m)) + 1
      BY <1>0, <3>6, <3>7, FS_AddElement
    <3>9. requests'[m] = requests[m] + 1 /\ latencies'[m] = latencies[m]
      BY <1>m, <3>1 DEF TypeOK
    <3> QED
      BY <1>0, <1>b, <3>8, <3>9
  <2> QED
    BY <1>4, <2>2, <2>3, <2>4, <2>5, <2>6 DEF WorkerStep
<1>5. CASE UNCHANGED vars
  BY <1>5, <1>a DEF vars
<1> QED
  BY <1>1, <1>2, <1>3, <1>4, <1>5 DEF Next, MainStep, Exited

\* When all goroutines are done, the shared slice has a sample for every success.
LEMMA AllMerged ==
  ASSUME TypeOK, SamplesAccounted, AllDone("measured")
  PROVE  latencies["measured"] = requests["measured"]
<1>1. Unmerged("measured") = {}
  BY DEF Unmerged, AllDone
<1>2. Cardinality(Unmerged("measured")) = 0
  BY <1>1, FS_EmptySet
<1> QED
  BY <1>2 DEF SamplesAccounted, TypeOK, Runs

\* The result is made once and outlives the load.
LEMMA ReportInStepStep ==
  TypeOK /\ RunsInStep /\ SamplesAccounted /\ ReportInStep /\ [Next]_vars => ReportInStep'
<1> SUFFICES ASSUME TypeOK, RunsInStep, SamplesAccounted, ReportInStep, [Next]_vars PROVE ReportInStep'
  OBVIOUS
<1> USE DEF counters, errs, slices, outcome, Reject
<1>1. CASE RejectFlags \/ AcceptFlags \/ DialFails
  BY <1>1 DEF RejectFlags, AcceptFlags, DialFails, ReportInStep
<1>2. CASE DialSucceeds \/ FinishWarmup
  <2>1. PICK r \in Runs : StartRun(r)
    BY <1>2 DEF DialSucceeds, FinishWarmup, Runs
  <2>2. mainPc \in {"dial", "warmup"}
    BY <1>2 DEF DialSucceeds, FinishWarmup
  <2> QED
    BY <2>1, <2>2 DEF StartRun, ReportInStep, Runs
<1>3. CASE FinishMeasured
  BY <1>3, AllMerged DEF FinishMeasured, ReportInStep
<1>4. CASE EncodeFails
  BY <1>4 DEF EncodeFails, ReportInStep
<1>5. CASE Exit
  BY <1>5 DEF Exit, ReportInStep
<1>6. ASSUME NEW r \in Runs, ReachStopAt(r) PROVE ReportInStep'
  BY <1>6 DEF ReachStopAt, ReportInStep
<1>7. ASSUME NEW r \in Runs, NEW w \in Workers, WorkerStep(r, w) PROVE ReportInStep'
  <2>1. mainPc = r /\ UNCHANGED <<mainPc, outcome>>
    BY <1>7, GoroutineMoves
  <2>2. report = <<>>
    BY <2>1 DEF ReportInStep, Runs
  <2> QED
    BY <2>1, <2>2 DEF ReportInStep, Runs
<1>8. CASE UNCHANGED vars
  BY <1>8 DEF vars, ReportInStep
<1> QED
  BY <1>1, <1>2, <1>3, <1>4, <1>5, <1>6, <1>7, <1>8 DEF Next, MainStep, Exited

--------------------------------------------------------------------------------
(* The theorems *)

LEMMA InitIInv == Init => IInv
<1> SUFFICES ASSUME Init PROVE IInv
  OBVIOUS
<1>1. TypeOK
  <2>1. Nothing \in (Errors \cup {NoText}) \X Nat
    BY DEF Nothing
  <2> QED
    BY <2>1, GrpcAssumption DEF Init, TypeOK, PC, Running
<1>2. RunsInStep
  BY DEF Init, RunsInStep, Runs
<1>3. LocksProtect
  BY DEF Init, LocksProtect
<1>4. FailuresAccounted
  <2> SUFFICES ASSUME NEW r \in Runs
               PROVE  IsFiniteSet(Explained(r))
                      /\ failures[r] = Cardinality(Explained(r)) + Cardinality(Unexplained(r))
    BY DEF FailuresAccounted
  <2>1. Unexplained(r) = {} /\ failures[r] = 0 /\ \A e \in Errors : errorCounts[r][e] = 0
    BY DEF Init, Unexplained
  <2>2. Explained(r) = {}
    BY <2>1 DEF Explained
  <2> QED
    BY <2>1, <2>2, FS_EmptySet
<1>5. SamplesAccounted
  <2>1. /\ requests["measured"] = 0 /\ latencies["measured"] = 0
        /\ \A w \in Workers : local["measured"][w] = 0
    BY DEF Init, Runs
  <2>2. Unmerged("measured") = {}
    BY <2>1 DEF Unmerged
  <2> QED
    BY <2>1, <2>2, FS_EmptySet DEF SamplesAccounted
<1>6. ReportInStep
  BY DEF Init, ReportInStep
<1> QED
  BY <1>1, <1>2, <1>3, <1>4, <1>5, <1>6 DEF IInv

LEMMA NextIInv == IInv /\ [Next]_vars => IInv'
BY TypeStep, RunsInStepStep, LocksProtectStep, FailuresAccountedStep, SamplesAccountedStep,
   ReportInStepStep DEF IInv

\* The inductive invariant holds in every reachable state.
THEOREM Invariance == Spec => []IInv
BY InitIInv, NextIInv, PTL DEF Spec

\* Every variable of the gRPC load generator keeps its type.
THEOREM TypeCorrect == Spec => []TypeOK
<1>1. IInv => TypeOK
  BY DEF IInv
<1> QED
  BY Invariance, <1>1, PTL

\* Every failure that was counted is in the error map or about to be added, and the
\* result explains all of its failures (addError, and the counter beside it in run).
THEOREM FailuresAreExplained == Spec => []ErrorsExplained
<1>1. IInv => ErrorsExplained
  <2> SUFFICES ASSUME IInv, report # <<>> PROVE Cardinality(Explained("measured")) = report[2]
    BY DEF IInv, FailuresAccounted, ErrorsExplained
  <2>1. /\ AllDone("measured") /\ "measured" \in Runs
        /\ report = <<requests["measured"], failures["measured"], requests["measured"]>>
    BY DEF IInv, RunsInStep, ReportInStep, Runs
  <2>2. Unexplained("measured") = {}
    BY <2>1 DEF Unexplained, AllDone
  <2>3. Cardinality(Unexplained("measured")) = 0
    BY <2>2, FS_EmptySet
  <2>4. failures["measured"] = Cardinality(Explained("measured")) + Cardinality(Unexplained("measured"))
        /\ IsFiniteSet(Explained("measured"))
    BY <2>1 DEF IInv, FailuresAccounted
  <2>5. Cardinality(Explained("measured")) \in Nat
    BY <2>4, FS_CardinalityType
  <2> QED
    BY <2>1, <2>3, <2>4, <2>5
<1> QED
  BY Invariance, <1>1, PTL

\* A step of the load generator is a step of Measurement, or hidden from its caller.
LEMMA StepRefines == IInv /\ IInv' /\ [Next]_vars => [M!MNext]_(M!mvars)
<1> SUFFICES ASSUME IInv, IInv', [Next]_vars PROVE [M!MNext]_(M!mvars)
  OBVIOUS
<1> USE DEF counters, errs, slices, outcome, Reject
<1> DEFINE hidden == UNCHANGED <<requests["measured"], failures["measured"], report, status>>
<1>a. hidden => [M!MNext]_(M!mvars)
  BY DEF M!mvars
<1>0. /\ requests["measured"] \in Nat /\ failures["measured"] \in Nat
      /\ mainPc # "exited" => status = Running
      /\ report # <<>> => mainPc \in {"encode", "exited"}
    BY DEF IInv, TypeOK, Runs, ReportInStep
<1>1. CASE RejectFlags \/ DialFails
  <2>1. mainPc \in {"flags", "dial"} /\ status' \in {1, 2}
        /\ UNCHANGED <<requests, failures, report>>
    BY <1>1 DEF RejectFlags, DialFails
  <2>2. requests["measured"] = 0 /\ failures["measured"] = 0
    BY <2>1 DEF IInv, RunsInStep
  <2>3. M!MReject
    BY <1>0, <2>1, <2>2 DEF M!MReject, M!Running, Running
  <2> QED
    BY <2>3 DEF M!MNext
<1>2. CASE AcceptFlags
  BY <1>2, <1>a DEF AcceptFlags
<1>3. CASE DialSucceeds \/ FinishWarmup
  BY <1>3, <1>a DEF DialSucceeds, FinishWarmup, StartRun
<1>4. CASE FinishMeasured
  <2>1. latencies["measured"] = requests["measured"]
    BY <1>4, AllMerged DEF IInv, FinishMeasured
  <2>2. M!MReport
    BY <1>0, <1>4, <2>1 DEF FinishMeasured, M!MReport, M!Running, Running
  <2> QED
    BY <2>2 DEF M!MNext
<1>5. CASE EncodeFails \/ Exit
  <2>1. mainPc = "encode" /\ report # <<>>
    BY <1>5 DEF EncodeFails, Exit, IInv, ReportInStep
  <2>2. /\ status' \in {0, 1} /\ UNCHANGED <<requests, failures, report>>
        /\ status' = 0 => requests["measured"] > 0 /\ failures["measured"] = 0
    <3>1. CASE EncodeFails
      BY <3>1 DEF EncodeFails
    <3>2. CASE Exit
      BY <1>0, <3>2 DEF Exit
    <3> QED
      BY <1>5, <3>1, <3>2
  <2>3. M!MExit
    BY <1>0, <2>1, <2>2 DEF M!MExit, M!Running, Running
  <2> QED
    BY <2>3 DEF M!MNext
<1>6. ASSUME NEW r \in Runs, ReachStopAt(r) PROVE [M!MNext]_(M!mvars)
  BY <1>6, <1>a DEF ReachStopAt
<1>7. ASSUME NEW r \in Runs, NEW w \in Workers, WorkerStep(r, w) PROVE [M!MNext]_(M!mvars)
  <2>1. mainPc = r /\ UNCHANGED <<report, status>>
    BY <1>7, GoroutineMoves DEF IInv
  <2>2. report = <<>> /\ status = Running
    BY <1>0, <2>1 DEF Runs
  <2>3. CASE CallSucceeds(r, w)
    <3>1. requests' = [requests EXCEPT ![r] = @ + 1] /\ failures' = failures /\ requests \in [Runs -> Nat]
      BY <2>3 DEF CallSucceeds, IInv, TypeOK
    <3>2. CASE r = "measured"
      <4>1. M!MSucceed
        BY <2>1, <2>2, <3>1, <3>2 DEF M!MSucceed, M!Running, Running
      <4> QED
        BY <4>1 DEF M!MNext
    <3>3. CASE r # "measured"
      BY <1>a, <2>1, <3>1, <3>3
    <3> QED
      BY <3>2, <3>3
  <2>4. CASE CallFails(r, w)
    <3>1. failures' = [failures EXCEPT ![r] = @ + 1] /\ requests' = requests /\ failures \in [Runs -> Nat]
      BY <2>4 DEF CallFails, IInv, TypeOK
    <3>2. CASE r = "measured"
      <4>1. M!MFail
        BY <2>1, <2>2, <3>1, <3>2 DEF M!MFail, M!Running, Running
      <4> QED
        BY <4>1 DEF M!MNext
    <3>3. CASE r # "measured"
      BY <1>a, <2>1, <3>1, <3>3
    <3> QED
      BY <3>2, <3>3
  <2>5. CASE StartCall(r, w) \/ LockErrors(r, w) \/ AddError(r, w) \/ Leave(r, w)
             \/ LockLatencies(r, w) \/ AppendLatencies(r, w)
    <3>1. UNCHANGED <<requests, failures>>
      BY <2>5 DEF StartCall, LockErrors, AddError, Leave, LockLatencies, AppendLatencies
    <3> QED
      BY <1>a, <2>1, <3>1
  <2> QED
    BY <1>7, <2>3, <2>4, <2>5 DEF WorkerStep
<1>8. CASE UNCHANGED vars
  BY <1>8, <1>a DEF vars
<1> QED
  BY <1>1, <1>2, <1>3, <1>4, <1>5, <1>6, <1>7, <1>8 DEF Next, MainStep, Exited

\* The gRPC load generator keeps the promises of Measurement: its report has the exact
\* totals and a sample for every success, and status 0 means a clean measurement.
THEOREM Refinement == Spec => ImplementsMeasurement
<1>1. Init => M!MInit
  BY DEF Init, Runs, Running, M!MInit, M!Running
<1>2. IInv /\ IInv' /\ [Next]_vars => [M!MNext]_(M!mvars)
  BY StepRefines
<1> QED
  BY <1>1, <1>2, Invariance, PTL DEF Spec, ImplementsMeasurement, M!MSpec

================================================================================
