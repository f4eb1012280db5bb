---------------------------- MODULE LoadGen_proofs -----------------------------
(***************************************************************************)
(* Proofs about LoadGen, for any set of goroutines and any bound on the    *)
(* requests of each: its type invariant, the accounting of attempts and of *)
(* samples, the isolation of the measured load, and the refinement of      *)
(* Measurement.                                                            *)
(***************************************************************************)
EXTENDS LoadGen, FiniteSetTheorems, TLAPS

--------------------------------------------------------------------------------
(* Sets that the accounting counts are finite. *)

\* The identities of the requests a run may make are finitely many.
LEMMA AttemptIdFinite == IsFiniteSet(AttemptId)
<1>1. IsFiniteSet(1 .. MaxAttempts)
  BY ConstantsAssumption, FS_Interval
<1> QED BY <1>1, ConstantsAssumption, FS_Product DEF AttemptId

\* Requests in flight, requests started and samples not yet merged are finite
\* sets, so that their cardinalities are natural numbers.
LEMMA CountedSetsFinite ==
  ASSUME TypeOK, NEW r \in Runs
  PROVE  /\ IsFiniteSet(InFlight(r)) /\ Cardinality(InFlight(r)) \in Nat
         /\ IsFiniteSet(Started(r)) /\ Cardinality(Started(r)) \in Nat
         /\ Unmerged(r) \subseteq AttemptId
         /\ IsFiniteSet(Unmerged(r)) /\ Cardinality(Unmerged(r)) \in Nat
<1>1. InFlight(r) \subseteq Workers
  BY DEF InFlight
<1>2. Started(r) \subseteq AttemptId
  BY DEF Started
<1>3. Unmerged(r) \subseteq AttemptId
  BY DEF Unmerged, TypeOK
<1> QED
  BY <1>1, <1>2, <1>3, AttemptIdFinite, ConstantsAssumption, FS_Subset, FS_CardinalityType

--------------------------------------------------------------------------------
(* Type correctness *)

\* A goroutine that moves leaves the program counters well typed.
LEMMA GotoType ==
  ASSUME TypeOK, NEW r \in Runs, NEW w \in Workers, NEW from, NEW to \in PC,
         Goto(r, w, from, to)
  PROVE  pc' \in [Runs -> [Workers -> PC]]
BY DEF TypeOK, Goto

\* So does main when it starts a run.
LEMMA StartRunType ==
  ASSUME TypeOK, NEW r \in Runs, StartRun(r)
  PROVE  /\ mainPc' \in {"flags", "encode", "exited"} \cup Runs
         /\ pc' \in [Runs -> [Workers -> PC]]
BY DEF TypeOK, StartRun, PC

\* Every step keeps every variable in its type (all of loadgen/main.go).
LEMMA TypeStep == TypeOK /\ HasStarted /\ [Next]_vars => TypeOK'
<1> SUFFICES ASSUME TypeOK, HasStarted, [Next]_vars PROVE TypeOK'
  OBVIOUS
<1> USE DEF counters, slices, outcome
<1>1. CASE RejectFlags
  <2>1. mainPc' = "exited" /\ status' = 2
    BY <1>1 DEF RejectFlags
  <2>2. UNCHANGED <<expired, pc, attempts, requests, failures, local, latencies,
                    seen, lock, report>>
    BY <1>1 DEF RejectFlags
  <2> QED BY <2>1, <2>2 DEF TypeOK
<1>2. CASE AcceptFlags
  <2>1. PICK r \in Runs : StartRun(r)
    BY <1>2 DEF AcceptFlags
  <2>2. UNCHANGED <<expired, attempts, requests, failures, local, latencies,
                    seen, lock, report, status>>
    BY <1>2 DEF AcceptFlags
  <2> QED BY <2>1, <2>2, StartRunType DEF TypeOK
<1>3. CASE FinishWarmup
  <2>1. StartRun("measured") /\ expired' \in [Runs -> BOOLEAN]
    BY <1>3 DEF FinishWarmup, CancelContext, TypeOK
  <2>2. UNCHANGED <<attempts, requests, failures, local, latencies, seen, lock,
                    report, status>>
    BY <1>3 DEF FinishWarmup
  <2> QED BY <2>1, <2>2, StartRunType DEF TypeOK, Runs
<1>4. CASE FinishMeasured
  <2>1. mainPc' = "encode" /\ expired' \in [Runs -> BOOLEAN]
    BY <1>4 DEF FinishMeasured, CancelContext, TypeOK
  <2>2. report' \in Nat \X Nat \X Nat
    BY <1>4 DEF FinishMeasured, TypeOK, Runs
  <2>3. UNCHANGED <<pc, attempts, requests, failures, local, latencies, seen,
                    lock, status>>
    BY <1>4 DEF FinishMeasured
  <2> QED BY <2>1, <2>2, <2>3 DEF TypeOK
<1>5. CASE EncodeFails \/ Exit
  <2>1. mainPc' = "exited" /\ status' \in 0 .. 3
    BY <1>5 DEF EncodeFails, Exit
  <2>2. UNCHANGED <<expired, pc, attempts, requests, failures, local, latencies,
                    seen, lock, report>>
    BY <1>5 DEF EncodeFails, Exit
  <2> QED BY <2>1, <2>2 DEF TypeOK
<1>6. ASSUME NEW r \in Runs, Deadline(r) PROVE TypeOK'
  <2>1. expired' \in [Runs -> BOOLEAN]
    BY <1>6 DEF Deadline, TypeOK
  <2>2. UNCHANGED <<mainPc, pc, attempts, requests, failures, local, latencies,
                    seen, lock, report, status>>
    BY <1>6 DEF Deadline
  <2> QED BY <2>1, <2>2 DEF TypeOK
<1>7. ASSUME NEW r \in Runs, NEW w \in Workers, WorkerStep(r, w) PROVE TypeOK'
  <2>1. pc' \in [Runs -> [Workers -> PC]]
    BY <1>7, GotoType DEF WorkerStep, PC, StartRequest, RequestFails, RequestSucceeds,
         LeaveEmpty, LeaveWithSamples, LockLatencies, AppendLatencies
  <2>2. UNCHANGED <<mainPc, expired, report, status>>
    BY <1>7 DEF WorkerStep, StartRequest, RequestFails, RequestSucceeds,
         LeaveEmpty, LeaveWithSamples, LockLatencies, AppendLatencies
  <2>3. CASE StartRequest(r, w)
    <3>1. attempts[r][w] + 1 \in 0 .. MaxAttempts
      BY <2>3, ConstantsAssumption DEF StartRequest, TypeOK
    <3>2. attempts' \in [Runs -> [Workers -> 0 .. MaxAttempts]]
      BY <2>3, <3>1 DEF StartRequest, TypeOK
    <3>3. UNCHANGED <<requests, failures, local, latencies, seen, lock>>
      BY <2>3 DEF StartRequest
    <3> QED BY <2>1, <2>2, <3>2, <3>3 DEF TypeOK
  <2>4. CASE RequestFails(r, w)
    <3>1. failures' \in [Runs -> Nat]
      BY <2>4 DEF RequestFails, TypeOK
    <3>2. UNCHANGED <<attempts, requests, local, latencies, seen, lock>>
      BY <2>4 DEF RequestFails
    <3> QED BY <2>1, <2>2, <3>1, <3>2 DEF TypeOK
  <2>5. CASE RequestSucceeds(r, w)
    <3>1. <<w, attempts[r][w]>> \in AttemptId
      BY <2>5 DEF RequestSucceeds, Goto, HasStarted, AttemptId, TypeOK
    <3>2. local' \in [Runs -> [Workers -> SUBSET AttemptId]]
      BY <2>5, <3>1 DEF RequestSucceeds, TypeOK
    <3>3. requests' \in [Runs -> Nat]
      BY <2>5 DEF RequestSucceeds, TypeOK
    <3>4. UNCHANGED <<attempts, failures, latencies, seen, lock>>
      BY <2>5 DEF RequestSucceeds
    <3> QED BY <2>1, <2>2, <3>2, <3>3, <3>4 DEF TypeOK
  <2>6. CASE LeaveEmpty(r, w) \/ LeaveWithSamples(r, w)
    <3>1. UNCHANGED <<attempts, requests, failures, local, latencies, seen, lock>>
      BY <2>6 DEF LeaveEmpty, LeaveWithSamples
    <3> QED BY <2>1, <2>2, <3>1 DEF TypeOK
  <2>7. CASE LockLatencies(r, w)
    <3>1. seen' \in [Workers -> Nat] /\ lock' \in Workers
      BY <2>7 DEF LockLatencies, TypeOK
    <3>2. UNCHANGED <<attempts, requests, failures, local, latencies>>
      BY <2>7 DEF LockLatencies
    <3> QED BY <2>1, <2>2, <3>1, <3>2 DEF TypeOK
  <2>8. CASE AppendLatencies(r, w)
    <3>1. Cardinality(local[r][w]) \in Nat
      BY AttemptIdFinite, FS_Subset, FS_CardinalityType DEF TypeOK
    <3>2. latencies' \in [Runs -> Nat]
      BY <2>8, <3>1 DEF AppendLatencies, TypeOK
    <3>3. local' \in [Runs -> [Workers -> SUBSET AttemptId]] /\ lock' = Unlocked
      BY <2>8 DEF AppendLatencies, TypeOK
    <3>4. UNCHANGED <<attempts, requests, failures, seen>>
      BY <2>8 DEF AppendLatencies
    <3> QED BY <2>1, <2>2, <3>2, <3>3, <3>4 DEF TypeOK
  <2> QED
    BY <1>7, <2>3, <2>4, <2>5, <2>6, <2>7, <2>8 DEF WorkerStep
<1>8. CASE UNCHANGED vars
  BY <1>8 DEF vars, TypeOK
<1> QED
  BY <1>1, <1>2, <1>3, <1>4, <1>5, <1>6, <1>7, <1>8
     DEF Next, MainStep, Exited

--------------------------------------------------------------------------------
(* Where main and the goroutines can be *)

\* Main steps change no goroutine's data, and only start goroutines.
LEMMA MainFrame ==
  ASSUME MainStep
  PROVE  UNCHANGED <<attempts, requests, failures, local, latencies, seen, lock>>
BY DEF MainStep, RejectFlags, AcceptFlags, FinishWarmup, FinishMeasured, EncodeFails,
       Exit, counters, slices

\* A goroutine step concerns main in no way, and the pc of no other goroutine.
LEMMA WorkerFrame ==
  ASSUME TypeOK, NEW r \in Runs, NEW w \in Workers, WorkerStep(r, w)
  PROVE  /\ mainPc # "exited"
         /\ UNCHANGED <<mainPc, expired, report, status>>
         /\ pc[r][w] \notin Over
         /\ pc'[r][w] # "unborn"
         /\ \A s \in Runs, v \in Workers :
              <<s, v>> # <<r, w>> => pc'[s][v] = pc[s][v]
<1> USE DEF WorkerStep, StartRequest, RequestFails, RequestSucceeds, LeaveEmpty,
            LeaveWithSamples, LockLatencies, AppendLatencies, outcome
<1>1. mainPc # "exited" /\ UNCHANGED <<mainPc, expired, report, status>>
  BY DEF Goto
<1>2. \E to \in PC : to # "unborn" /\ pc' = [pc EXCEPT ![r][w] = to]
  BY DEF Goto, PC
<1>3. pc[r][w] \notin Over
  BY DEF Goto, Over
<1> HIDE DEF WorkerStep
<1> QED BY <1>1, <1>2, <1>3 DEF TypeOK

\* Goroutines of a run live only inside main's call of run.
LEMMA OrderStep ==
  ASSUME TypeOK, RunsInOrder, [Next]_vars
  PROVE  RunsInOrder'
<1>1. CASE RejectFlags
  BY <1>1 DEF RejectFlags, RunsInOrder, Over
<1>2. CASE AcceptFlags
  BY <1>2 DEF AcceptFlags, StartRun, RunsInOrder, Over, TypeOK, Runs
<1>3. CASE FinishWarmup
  BY <1>3 DEF FinishWarmup, StartRun, AllDone, RunsInOrder, Over, TypeOK, Runs
<1>4. CASE FinishMeasured
  BY <1>4 DEF FinishMeasured, AllDone, RunsInOrder, Over
<1>5. CASE EncodeFails \/ Exit
  BY <1>5 DEF EncodeFails, Exit, RunsInOrder, Over
<1>6. ASSUME NEW r \in Runs, Deadline(r) PROVE RunsInOrder'
  BY <1>6 DEF Deadline, RunsInOrder
<1>7. ASSUME NEW r \in Runs, NEW w \in Workers, WorkerStep(r, w) PROVE RunsInOrder'
  <2>1. mainPc = r /\ mainPc' = mainPc
    BY <1>7, WorkerFrame DEF RunsInOrder, Runs, Over
  <2> QED BY <1>7, <2>1, WorkerFrame DEF RunsInOrder, Runs, Over
<1>8. CASE UNCHANGED vars
  BY <1>8 DEF vars, RunsInOrder
<1> QED
  BY <1>1, <1>2, <1>3, <1>4, <1>5, <1>6, <1>7, <1>8 DEF Next, MainStep, Exited

\* A request in flight has been started.
LEMMA StartedStep ==
  ASSUME TypeOK, HasStarted, [Next]_vars
  PROVE  HasStarted'
<1>1. CASE MainStep
  <2>1. \A r \in Runs, w \in Workers : pc'[r][w] = "request" => pc[r][w] = "request"
    BY ZenonT(40), <1>1 DEF MainStep, RejectFlags, AcceptFlags, FinishWarmup, FinishMeasured,
         EncodeFails, Exit, StartRun, TypeOK
  <2> QED BY <1>1, <2>1, MainFrame DEF HasStarted
<1>2. ASSUME NEW r \in Runs, Deadline(r) PROVE HasStarted'
  BY <1>2 DEF Deadline, HasStarted
<1>3. ASSUME NEW r \in Runs, NEW w \in Workers, WorkerStep(r, w) PROVE HasStarted'
  <2>1. CASE StartRequest(r, w)
    <3>1. \A s \in Runs, v \in Workers : <<s, v>> # <<r, w>> => attempts'[s][v] = attempts[s][v]
      BY <2>1 DEF StartRequest, TypeOK
    <3>2. attempts'[r][w] > 0
      BY <2>1, ConstantsAssumption DEF StartRequest, TypeOK
    <3> QED BY <1>3, <3>1, <3>2, WorkerFrame DEF HasStarted
  <2>2. CASE ~ StartRequest(r, w)
    <3>1. pc'[r][w] # "request" /\ attempts' = attempts
      BY <1>3, <2>2 DEF WorkerStep, RequestFails, RequestSucceeds, LeaveEmpty,
           LeaveWithSamples, LockLatencies, AppendLatencies, Goto, TypeOK
    <3> QED BY <1>3, <3>1, WorkerFrame DEF HasStarted
  <2> QED BY <2>1, <2>2
<1>4. CASE UNCHANGED vars
  BY <1>4 DEF vars, HasStarted
<1> QED
  BY <1>1, <1>2, <1>3, <1>4 DEF Next, Exited

\* Slices hold requests of their own goroutine that are over, and are empty
\* before it starts and after it has left.
LEMMA OwnSamplesStep ==
  ASSUME TypeOK, HasStarted, LockProtects, RunsInOrder, OwnSamples, [Next]_vars
  PROVE  OwnSamples'
<1>1. CASE MainStep
  <2>1. \A w \in Workers : pc'["measured"][w] # pc["measured"][w] =>
          pc["measured"][w] = "unborn" /\ pc'["measured"][w] = "loop"
    BY <1>1 DEF MainStep, RejectFlags, AcceptFlags, FinishWarmup, FinishMeasured,
         EncodeFails, Exit, StartRun, TypeOK, Runs, RunsInOrder
  <2> QED BY <1>1, <2>1, MainFrame DEF OwnSamples, Over
<1>2. ASSUME NEW r \in Runs, Deadline(r) PROVE OwnSamples'
  BY <1>2 DEF Deadline, OwnSamples, slices
<1>3. ASSUME NEW w \in Workers, WorkerStep("warmup", w) PROVE OwnSamples'
  <2>1. pc["warmup"][w] # "append"
    BY DEF LockProtects
  <2>2. UNCHANGED local
    BY <1>3, <2>1 DEF WorkerStep, StartRequest, RequestFails, RequestSucceeds,
         LeaveEmpty, LeaveWithSamples, LockLatencies, AppendLatencies, Collect,
         Goto, slices
  <2>3. attempts'["measured"] = attempts["measured"]
    BY <1>3 DEF WorkerStep, StartRequest, RequestFails, RequestSucceeds,
         LeaveEmpty, LeaveWithSamples, LockLatencies, AppendLatencies, TypeOK,
         Runs
  <2>4. \A v \in Workers : pc'["measured"][v] = pc["measured"][v]
    BY <1>3, WorkerFrame DEF Runs
  <2> QED BY <2>2, <2>3, <2>4 DEF OwnSamples
<1>4. ASSUME NEW w \in Workers, WorkerStep("measured", w) PROVE OwnSamples'
  <2> DEFINE Own(v) ==
        \A id \in AttemptId : id \in local["measured"][v] =>
          /\ id[1] = v /\ id[2] <= attempts["measured"][v]
          /\ pc["measured"][v] = "request" => id[2] # attempts["measured"][v]
  <2>1. \A v \in Workers : v # w =>
          /\ local'["measured"][v] = local["measured"][v]
          /\ attempts'["measured"][v] = attempts["measured"][v]
          /\ pc'["measured"][v] = pc["measured"][v]
    <3>1. \A v \in Workers : v # w => pc'["measured"][v] = pc["measured"][v]
      BY <1>4, WorkerFrame DEF Runs
    <3>2. \A v \in Workers : v # w => attempts'["measured"][v] = attempts["measured"][v]
      BY <1>4 DEF WorkerStep, StartRequest, RequestFails, RequestSucceeds,
         LeaveEmpty, LeaveWithSamples, LockLatencies, AppendLatencies, TypeOK, Runs
    <3>3. \A v \in Workers : v # w => local'["measured"][v] = local["measured"][v]
      BY <1>4 DEF WorkerStep, StartRequest, RequestFails, RequestSucceeds,
         LeaveEmpty, LeaveWithSamples, LockLatencies, AppendLatencies, TypeOK,
         slices, Runs
    <3> QED BY <3>1, <3>2, <3>3
  <2>2. \A v \in Workers : local'["warmup"][v] = local["warmup"][v]
    BY <1>4 DEF WorkerStep, StartRequest, RequestFails, RequestSucceeds,
         LeaveEmpty, LeaveWithSamples, LockLatencies, AppendLatencies, TypeOK,
         slices, Runs
  <2>3. /\ pc'["measured"][w] \in Over => local'["measured"][w] = {}
        /\ Own(w)'
    <3>1. CASE StartRequest("measured", w)
      <4>1. local' = local /\ pc'["measured"][w] = "request"
        BY <3>1 DEF StartRequest, Goto, slices, TypeOK, Runs
      <4>2. attempts'["measured"][w] = attempts["measured"][w] + 1
        BY <3>1 DEF StartRequest, TypeOK, Runs
      <4>3. attempts["measured"][w] \in Nat /\ \A id \in AttemptId : id[2] \in Nat
        BY ConstantsAssumption DEF TypeOK, Runs, AttemptId
      <4> QED BY <4>1, <4>2, <4>3 DEF OwnSamples, Over
    <3>2. CASE RequestFails("measured", w)
      <4>1. local' = local /\ attempts' = attempts /\ pc'["measured"][w] = "loop"
        BY <3>2 DEF RequestFails, Goto, slices, TypeOK, Runs
      <4> QED BY <4>1 DEF OwnSamples, Over
    <3>3. CASE RequestSucceeds("measured", w)
      <4>1. attempts' = attempts /\ pc'["measured"][w] = "loop"
        BY <3>3 DEF RequestSucceeds, Goto, TypeOK, Runs
      <4>2. local'["measured"][w] =
              local["measured"][w] \cup {<<w, attempts["measured"][w]>>}
        BY <3>3 DEF RequestSucceeds, Collect, TypeOK, Runs
      <4>3. attempts["measured"][w] \in Nat
        BY ConstantsAssumption DEF TypeOK, Runs
      <4> QED BY <4>1, <4>2, <4>3 DEF OwnSamples, Over
    <3>4. CASE LeaveEmpty("measured", w)
      <4>1. local' = local /\ attempts' = attempts /\ local["measured"][w] = {}
        BY <3>4 DEF LeaveEmpty, Collect, slices
      <4> QED BY <4>1
    <3>5. CASE LeaveWithSamples("measured", w) \/ LockLatencies("measured", w)
      <4>1. /\ local' = local /\ attempts' = attempts
            /\ pc'["measured"][w] \in {"lock", "append"}
        BY <3>5 DEF LeaveWithSamples, LockLatencies, Goto, slices, TypeOK, Runs
      <4> QED BY <4>1 DEF OwnSamples, Over
    <3>6. CASE AppendLatencies("measured", w)
      <4>1. local'["measured"][w] = {}
        BY <3>6 DEF AppendLatencies, TypeOK, Runs
      <4> QED BY <4>1
    <3> QED
      BY <1>4, <3>1, <3>2, <3>3, <3>4, <3>5, <3>6 DEF WorkerStep
  <2> QED BY <2>1, <2>2, <2>3 DEF OwnSamples
<1>5. CASE UNCHANGED vars
  BY <1>5 DEF vars, slices, OwnSamples
<1> QED
  BY <1>1, <1>2, <1>3, <1>4, <1>5 DEF Next, Exited, Runs

\* Between the two halves of an append nobody else touches the shared slice.
LEMMA LockStep ==
  ASSUME TypeOK, LockProtects, OwnSamples, RunsInOrder, [Next]_vars
  PROVE  LockProtects'
<1>1. CASE MainStep
  <2>1. \A r \in Runs, w \in Workers :
          pc'[r][w] \in {"lock", "append"} => pc'[r][w] = pc[r][w]
    BY <1>1 DEF MainStep, RejectFlags, AcceptFlags, FinishWarmup, FinishMeasured,
         EncodeFails, Exit, StartRun, TypeOK, Runs
  <2> QED BY <1>1, <2>1, MainFrame DEF LockProtects, Runs
<1>2. ASSUME NEW r \in Runs, Deadline(r) PROVE LockProtects'
  BY <1>2 DEF Deadline, LockProtects, slices
<1>3. ASSUME NEW w \in Workers, WorkerStep("warmup", w) PROVE LockProtects'
  <2>1. pc'["warmup"][w] \notin {"lock", "append"} /\ UNCHANGED slices
    BY <1>3 DEF WorkerStep, StartRequest, RequestFails, RequestSucceeds,
         LeaveEmpty, LeaveWithSamples, LockLatencies, AppendLatencies, Collect,
         Goto, LockProtects, TypeOK, Runs, slices
  <2> QED BY <1>3, <2>1, WorkerFrame DEF LockProtects, Runs, slices
<1>4. ASSUME NEW w \in Workers, WorkerStep("measured", w) PROVE LockProtects'
  <2>1. \A v \in Workers : pc'["warmup"][v] = pc["warmup"][v]
    BY <1>4, WorkerFrame DEF Runs
  <2>2. \A v \in Workers : v # w => pc'["measured"][v] = pc["measured"][v]
    BY <1>4, WorkerFrame DEF Runs
  <2>3. CASE LockLatencies("measured", w)
    <3>1. \A v \in Workers : pc["measured"][v] # "append"
      BY <2>3, UnlockedAssumption DEF LockLatencies, LockProtects
    <3>2. lock' = w /\ seen'[w] = latencies'["measured"]
      BY <2>3 DEF LockLatencies, TypeOK, Runs
    <3> QED BY <2>1, <2>2, <3>1, <3>2 DEF LockProtects
  <2>4. CASE AppendLatencies("measured", w)
    <3>1. pc["measured"][w] = "append" /\ pc'["measured"][w] = "done"
      BY <2>4 DEF AppendLatencies, Goto, TypeOK, Runs
    <3>2. \A v \in Workers : pc["measured"][v] = "append" => v = w
      BY <3>1 DEF LockProtects
    <3> QED BY <2>1, <2>2, <3>1, <3>2 DEF LockProtects
  <2>5. CASE ~ LockLatencies("measured", w) /\ ~ AppendLatencies("measured", w)
    <3>1. /\ UNCHANGED <<latencies, seen, lock>>
          /\ pc'["measured"][w] # "append"
      BY <1>4, <2>5 DEF WorkerStep, StartRequest, RequestFails, RequestSucceeds,
         LeaveEmpty, LeaveWithSamples, Goto, TypeOK, Runs, slices
    <3> QED BY <2>1, <2>2, <3>1 DEF LockProtects
  <2> QED BY <2>3, <2>4, <2>5
<1>5. CASE UNCHANGED vars
  BY <1>5 DEF vars, slices, LockProtects
<1> QED
  BY <1>1, <1>2, <1>3, <1>4, <1>5 DEF Next, Exited, Runs

--------------------------------------------------------------------------------
(* Accounting *)

\* A started request joins the requests in flight and the requests started; one
\* that is over leaves the first set and is counted once.
LEMMA AttemptStep ==
  ASSUME TypeOK, TypeOK', HasStarted, RunsInOrder, EveryAttemptCounted, [Next]_vars
  PROVE  EveryAttemptCounted'
<1>1. ASSUME UNCHANGED <<requests, failures, attempts>>,
             \A r \in Runs : InFlight(r)' = InFlight(r)
      PROVE  EveryAttemptCounted'
  <2>1. \A r \in Runs : Started(r)' = Started(r)
    BY <1>1 DEF Started
  <2> QED BY <1>1, <2>1 DEF EveryAttemptCounted
<1>2. CASE MainStep
  <2>1. CASE UNCHANGED pc
    BY <1>1, <1>2, <2>1, MainFrame DEF InFlight
  <2>2. ASSUME NEW r \in Runs, StartRun(r), \A w \in Workers : pc[r][w] \in Over
        PROVE  EveryAttemptCounted'
    <3>1. \A s \in Runs, w \in Workers : pc'[s][w] = "request" <=> pc[s][w] = "request"
      BY <2>2 DEF StartRun, TypeOK, Over
    <3> QED BY <1>1, <1>2, <3>1, MainFrame DEF InFlight
  <2>3. CASE AcceptFlags
    BY <2>2, <2>3 DEF AcceptFlags, RunsInOrder, Runs
  <2>4. CASE FinishWarmup
    BY <2>2, <2>4 DEF FinishWarmup, RunsInOrder, Runs
  <2> QED
    BY <1>2, <2>1, <2>3, <2>4 DEF MainStep, RejectFlags, FinishMeasured, EncodeFails, Exit
<1>3. ASSUME NEW r \in Runs, Deadline(r) PROVE EveryAttemptCounted'
  BY <1>1, <1>3 DEF Deadline, counters, InFlight
<1>4. ASSUME NEW r \in Runs, NEW w \in Workers, WorkerStep(r, w)
      PROVE  EveryAttemptCounted'
  <2>1. \A s \in Runs, v \in Workers : <<s, v>> # <<r, w>> => pc'[s][v] = pc[s][v]
    BY <1>4, WorkerFrame
  <2>2. \A s \in Runs : s # r => InFlight(s)' = InFlight(s)
    BY <2>1 DEF InFlight
  <2>3. \A s \in Runs : s # r =>
          /\ requests'[s] = requests[s] /\ failures'[s] = failures[s]
          /\ Started(s)' = Started(s)
    <3>1. \A s \in Runs : s # r => attempts'[s] = attempts[s]
      BY <1>4 DEF WorkerStep, StartRequest, RequestFails, RequestSucceeds, LeaveEmpty,
           LeaveWithSamples, LockLatencies, AppendLatencies, TypeOK
    <3>2. \A s \in Runs : s # r => requests'[s] = requests[s] /\ failures'[s] = failures[s]
      BY <1>4 DEF WorkerStep, StartRequest, RequestFails, RequestSucceeds, LeaveEmpty,
           LeaveWithSamples, LockLatencies, AppendLatencies, TypeOK, counters
    <3> QED BY <3>1, <3>2 DEF Started
  <2>4. ASSUME requests'[r] + failures'[r] + Cardinality(InFlight(r)')
                 = Cardinality(Started(r)')
        PROVE  EveryAttemptCounted'
    <3> SUFFICES ASSUME NEW s \in Runs
                 PROVE  requests'[s] + failures'[s] + Cardinality(InFlight(s)')
                          = Cardinality(Started(s)')
      BY DEF EveryAttemptCounted
    <3>1. CASE s = r BY <2>4, <3>1
    <3>2. CASE s # r BY <2>2, <2>3, <3>2 DEF EveryAttemptCounted
    <3> QED BY <3>1, <3>2
  <2>5. /\ IsFiniteSet(InFlight(r)) /\ Cardinality(InFlight(r)) \in Nat
        /\ IsFiniteSet(Started(r)) /\ Cardinality(Started(r)) \in Nat
        /\ requests[r] \in Nat /\ failures[r] \in Nat
        /\ requests[r] + failures[r] + Cardinality(InFlight(r)) = Cardinality(Started(r))
    BY CountedSetsFinite DEF TypeOK, EveryAttemptCounted
  <2>6. CASE StartRequest(r, w)
    <3> DEFINE id == <<w, attempts[r][w] + 1>>
    <3>1. pc[r][w] # "request" /\ pc'[r][w] = "request"
      BY <2>6 DEF StartRequest, Goto, TypeOK
    <3>2. InFlight(r)' = InFlight(r) \cup {w} /\ w \notin InFlight(r)
      BY <2>1, <3>1 DEF InFlight
    <3>3. /\ attempts[r][w] \in Nat /\ attempts[r][w] + 1 \in 1 .. MaxAttempts
          /\ attempts'[r][w] = attempts[r][w] + 1
          /\ \A v \in Workers : v # w => attempts'[r][v] = attempts[r][v]
      BY <2>6, ConstantsAssumption DEF StartRequest, TypeOK
    <3>4. \A v \in Workers, k \in 1 .. MaxAttempts :
            k <= attempts'[r][v] <=> k <= attempts[r][v] \/ <<v, k>> = id
      <4> SUFFICES ASSUME NEW v \in Workers, NEW k \in 1 .. MaxAttempts
                   PROVE  k <= attempts'[r][v] <=> k <= attempts[r][v] \/ <<v, k>> = id
        OBVIOUS
      <4>1. k \in Nat
        BY ConstantsAssumption
      <4>2. CASE v = w BY <3>3, <4>1, <4>2
      <4>3. CASE v # w BY <3>3, <4>3
      <4> QED BY <4>2, <4>3
    <3>5. Started(r)' = Started(r) \cup {id} /\ id \notin Started(r)
      BY <3>3, <3>4, ConstantsAssumption DEF Started, AttemptId
    <3>6. UNCHANGED <<requests, failures>>
      BY <2>6 DEF StartRequest, counters
    <3>7. /\ Cardinality(InFlight(r)') = Cardinality(InFlight(r)) + 1
          /\ Cardinality(Started(r)') = Cardinality(Started(r)) + 1
      BY ZenonT(40), <2>5, <3>2, <3>5, FS_AddElement
    <3> QED BY <2>4, <2>5, <3>6, <3>7
  <2>7. CASE RequestFails(r, w) \/ RequestSucceeds(r, w)
    <3>1. pc[r][w] = "request" /\ pc'[r][w] # "request"
      BY <2>7 DEF RequestFails, RequestSucceeds, Goto, TypeOK
    <3>2. InFlight(r)' = InFlight(r) \ {w} /\ w \in InFlight(r)
      BY <2>1, <3>1 DEF InFlight
    <3>3. Cardinality(InFlight(r)') = Cardinality(InFlight(r)) - 1
      BY <2>5, <3>2, FS_RemoveElement
    <3>4. Started(r)' = Started(r)
      BY <2>7 DEF RequestFails, RequestSucceeds, Started
    <3>5. requests'[r] + failures'[r] = requests[r] + failures[r] + 1
      BY SMTT(30), <2>7 DEF RequestFails, RequestSucceeds, TypeOK
    <3>6. requests'[r] \in Nat /\ failures'[r] \in Nat
      BY DEF TypeOK
    <3> QED BY <2>4, <2>5, <3>3, <3>4, <3>5, <3>6
  <2>8. CASE \/ LeaveEmpty(r, w) \/ LeaveWithSamples(r, w)
             \/ LockLatencies(r, w) \/ AppendLatencies(r, w)
    <3>1. pc[r][w] # "request" /\ pc'[r][w] # "request"
      BY <2>8 DEF LeaveEmpty, LeaveWithSamples, LockLatencies, AppendLatencies, Goto, TypeOK
    <3>2. UNCHANGED <<requests, failures, attempts>>
      BY <2>8 DEF LeaveEmpty, LeaveWithSamples, LockLatencies, AppendLatencies, counters
    <3>3. InFlight(r)' = InFlight(r)
      BY <2>1, <3>1 DEF InFlight
    <3>4. Started(r)' = Started(r)
      BY <3>2 DEF Started
    <3> QED BY <2>4, <2>5, <3>2, <3>3, <3>4
  <2> QED BY <1>4, <2>6, <2>7, <2>8 DEF WorkerStep
<1>5. CASE UNCHANGED vars
  BY <1>1, <1>5 DEF vars, counters, InFlight
<1> QED
  BY <1>2, <1>3, <1>4, <1>5 DEF Next, Exited

\* A success adds its sample to a slice; an append moves the samples of one
\* goroutine, which no other goroutine has, to the shared slice.
LEMMA LedgerStep ==
  ASSUME TypeOK, TypeOK', OwnSamples, LockProtects, HasStarted, SampleLedger, [Next]_vars
  PROVE  SampleLedger'
<1>1. ASSUME UNCHANGED <<latencies, local>>, requests'["measured"] = requests["measured"]
      PROVE  SampleLedger'
  BY <1>1 DEF SampleLedger, Unmerged
<1>2. CASE MainStep
  BY <1>1, <1>2, MainFrame
<1>3. ASSUME NEW r \in Runs, Deadline(r) PROVE SampleLedger'
  BY <1>1, <1>3 DEF Deadline, counters, slices
<1>4. ASSUME NEW w \in Workers, WorkerStep("warmup", w) PROVE SampleLedger'
  <2>1. pc["warmup"][w] \notin {"lock", "append"}
    BY DEF LockProtects
  <2>2. UNCHANGED <<latencies, local>>
    BY <1>4, <2>1 DEF WorkerStep, StartRequest, RequestFails, RequestSucceeds,
         LeaveEmpty, LeaveWithSamples, LockLatencies, AppendLatencies, Collect,
         Goto, slices
  <2>3. requests'["measured"] = requests["measured"]
    BY <1>4 DEF WorkerStep, StartRequest, RequestFails, RequestSucceeds,
         LeaveEmpty, LeaveWithSamples, LockLatencies, AppendLatencies, TypeOK,
         Runs, counters
  <2> QED BY <1>1, <2>2, <2>3
<1>5. ASSUME NEW w \in Workers, WorkerStep("measured", w) PROVE SampleLedger'
  <2>1. /\ IsFiniteSet(Unmerged("measured")) /\ Cardinality(Unmerged("measured")) \in Nat
        /\ Unmerged("measured") \subseteq AttemptId
        /\ requests["measured"] \in Nat /\ latencies["measured"] \in Nat
    BY CountedSetsFinite DEF TypeOK, Runs
  <2>2. CASE RequestSucceeds("measured", w)
    <3> DEFINE id == <<w, attempts["measured"][w]>>
    <3>1. pc["measured"][w] = "request" /\ id \in AttemptId
      BY <2>2 DEF RequestSucceeds, Goto, HasStarted, AttemptId, TypeOK, Runs
    <3>2. \A v \in Workers : id \notin local["measured"][v]
      BY <3>1 DEF OwnSamples
    <3>3. local' = [local EXCEPT !["measured"][w] = @ \cup {id}]
      BY <2>2 DEF RequestSucceeds, Collect
    <3>4. /\ local'["measured"][w] = local["measured"][w] \cup {id}
          /\ \A v \in Workers : v # w => local'["measured"][v] = local["measured"][v]
      BY <3>3 DEF TypeOK, Runs
    <3>5. Unmerged("measured")' = Unmerged("measured") \cup {id}
      BY <3>4 DEF Unmerged
    <3>6. id \notin Unmerged("measured")
      BY <3>2 DEF Unmerged
    <3>7. Cardinality(Unmerged("measured")') = Cardinality(Unmerged("measured")) + 1
      BY <2>1, <3>5, <3>6, FS_AddElement
    <3>8. /\ requests'["measured"] = requests["measured"] + 1
          /\ latencies'["measured"] = latencies["measured"]
      BY <2>2 DEF RequestSucceeds, TypeOK, Runs
    <3> QED BY <2>1, <3>7, <3>8 DEF SampleLedger
  <2>3. CASE AppendLatencies("measured", w)
    <3> DEFINE mine == local["measured"][w]
    <3>1. pc["measured"][w] = "append"
      BY <2>3 DEF AppendLatencies, Goto
    <3>2. latencies'["measured"] = latencies["measured"] + Cardinality(mine)
      BY <2>3, <3>1 DEF AppendLatencies, LockProtects, TypeOK, Runs
    <3>3. /\ local'["measured"][w] = {}
          /\ \A v \in Workers : v # w => local'["measured"][v] = local["measured"][v]
      BY <2>3 DEF AppendLatencies, TypeOK, Runs
    <3>4. \A v \in Workers : v # w => local["measured"][v] \cap mine = {}
      <4>1. \A v \in Workers : local["measured"][v] \subseteq AttemptId
        BY DEF TypeOK, Runs
      <4> QED BY <4>1 DEF OwnSamples
    <3>5. Unmerged("measured")' = Unmerged("measured") \ mine
      BY <3>3, <3>4 DEF Unmerged
    <3>6. mine \subseteq Unmerged("measured")
      BY DEF Unmerged
    <3>7. Unmerged("measured") \cap mine = mine
      BY <3>6
    <3>8. Cardinality(mine) \in Nat
      BY <2>1, <3>6, FS_Subset, FS_CardinalityType
    <3>9. Cardinality(Unmerged("measured")') = Cardinality(Unmerged("measured")) - Cardinality(mine)
      BY <2>1, <3>5, <3>7, FS_Difference
    <3>10. requests' = requests
      BY <2>3 DEF AppendLatencies, counters
    <3> QED BY <2>1, <3>2, <3>8, <3>9, <3>10 DEF SampleLedger
  <2>4. CASE ~ RequestSucceeds("measured", w) /\ ~ AppendLatencies("measured", w)
    <3>1. UNCHANGED <<latencies, local, requests>>
      BY <1>5, <2>4 DEF WorkerStep, StartRequest, RequestFails, LeaveEmpty,
           LeaveWithSamples, LockLatencies, slices, counters
    <3> QED BY <1>1, <3>1
  <2> QED BY <2>2, <2>3, <2>4
<1>6. CASE UNCHANGED vars
  BY <1>1, <1>6 DEF vars, slices, counters
<1> QED
  BY <1>2, <1>3, <1>4, <1>5, <1>6 DEF Next, Exited, Runs

\* When every goroutine of the measured run has left, all samples are merged.
LEMMA AllMerged ==
  ASSUME TypeOK, OwnSamples, SampleLedger, AllDone("measured")
  PROVE  latencies["measured"] = requests["measured"]
<1>1. \A w \in Workers : local["measured"][w] = {}
  BY DEF AllDone, OwnSamples, Over
<1>2. Unmerged("measured") = {}
  BY <1>1 DEF Unmerged
<1>3. Cardinality(Unmerged("measured")) = 0
  BY <1>2, FS_EmptySet
<1> QED BY <1>3 DEF SampleLedger, TypeOK, Runs

\* The result is computed once, when the measured run is over.
LEMMA ResultStep ==
  ASSUME TypeOK, RunsInOrder, OwnSamples, SampleLedger, ResultInStep, [Next]_vars
  PROVE  ResultInStep'
<1>1. CASE MainStep
  <2>1. requests' = requests /\ failures' = failures
    BY <1>1, MainFrame
  <2>2. CASE RejectFlags \/ EncodeFails \/ Exit
    BY <2>2 DEF RejectFlags, EncodeFails, Exit, ResultInStep
  <2>3. CASE AcceptFlags
    BY <2>1, <2>3 DEF AcceptFlags, StartRun, ResultInStep, Runs, outcome
  <2>4. CASE FinishWarmup
    BY <2>1, <2>4 DEF FinishWarmup, StartRun, ResultInStep, outcome
  <2>5. CASE FinishMeasured
    <3>1. latencies["measured"] = requests["measured"]
      BY <2>5, AllMerged DEF FinishMeasured
    <3> QED BY <2>1, <2>5, <3>1 DEF FinishMeasured, ResultInStep
  <2> QED BY <1>1, <2>2, <2>3, <2>4, <2>5 DEF MainStep
<1>2. ASSUME NEW r \in Runs, Deadline(r) PROVE ResultInStep'
  BY <1>2 DEF Deadline, ResultInStep, outcome, counters
<1>3. ASSUME NEW r \in Runs, NEW w \in Workers, WorkerStep(r, w) PROVE ResultInStep'
  <2>1. mainPc = r /\ mainPc' = mainPc /\ UNCHANGED <<report, status>>
    BY <1>3, WorkerFrame DEF RunsInOrder, Runs, Over
  <2>2. r # "measured" => /\ requests'["measured"] = requests["measured"]
                          /\ failures'["measured"] = failures["measured"]
    BY <1>3 DEF WorkerStep, StartRequest, RequestFails, RequestSucceeds, LeaveEmpty,
         LeaveWithSamples, LockLatencies, AppendLatencies, TypeOK, Runs, counters
  <2> QED BY <2>1, <2>2 DEF ResultInStep, Runs
<1>4. CASE UNCHANGED vars
  BY <1>4 DEF vars, outcome, counters, ResultInStep
<1> QED
  BY <1>1, <1>2, <1>3, <1>4 DEF Next, Exited

--------------------------------------------------------------------------------
(* The inductive invariant, and what follows from it *)

\* Nothing has happened yet: no request, no sample, no result.
LEMMA InitIInv == Init => IInv
<1> SUFFICES ASSUME Init PROVE IInv
  OBVIOUS
<1>1. TypeOK
  BY ConstantsAssumption DEF Init, TypeOK, PC, Runs, Running
<1>2. RunsInOrder /\ OwnSamples /\ HasStarted /\ LockProtects /\ ResultInStep
  BY DEF Init, RunsInOrder, OwnSamples, HasStarted, LockProtects, ResultInStep, Over, Runs
<1>3. ASSUME NEW r \in Runs
      PROVE  InFlight(r) = {} /\ Started(r) = {} /\ Unmerged(r) = {}
  <2>1. \A w \in Workers : /\ pc[r][w] = "unborn" /\ attempts[r][w] = 0
                           /\ local[r][w] = {}
    BY DEF Init
  <2>2. \A id \in AttemptId : id[1] \in Workers /\ id[2] \in 1 .. MaxAttempts
    BY DEF AttemptId
  <2>3. \A id \in AttemptId : ~ (id[2] <= attempts[r][id[1]])
    BY <2>1, <2>2, ConstantsAssumption
  <2>4. InFlight(r) = {}
    BY <2>1 DEF InFlight
  <2>5. Started(r) = {}
    BY <2>3 DEF Started
  <2>6. Unmerged(r) = {}
    BY <2>1 DEF Unmerged
  <2> QED BY <2>4, <2>5, <2>6
<1>4. Cardinality({}) = 0
  BY FS_EmptySet
<1>5. \A r \in Runs : requests[r] = 0 /\ failures[r] = 0 /\ latencies[r] = 0
  BY DEF Init
<1>6. EveryAttemptCounted
  BY <1>3, <1>4, <1>5 DEF EveryAttemptCounted
<1>7. SampleLedger
  <2>1. "measured" \in Runs
    BY DEF Runs
  <2> QED BY <1>3, <1>4, <1>5, <2>1 DEF SampleLedger
<1> QED BY <1>1, <1>2, <1>6, <1>7 DEF IInv

\* Each conjunct of the invariant is preserved by every step of loadgen/main.go.
LEMMA NextIInv == IInv /\ [Next]_vars => IInv'
<1> SUFFICES ASSUME IInv, [Next]_vars PROVE IInv'
  OBVIOUS
<1> USE DEF IInv
<1>1. TypeOK' BY TypeStep
<1>2. RunsInOrder' BY OrderStep
<1>3. OwnSamples' BY OwnSamplesStep
<1>4. HasStarted' BY StartedStep
<1>5. LockProtects' BY LockStep
<1>6. ResultInStep' BY ResultStep
<1>7. EveryAttemptCounted' BY <1>1, AttemptStep
<1>8. SampleLedger' BY <1>1, LedgerStep
<1> QED BY <1>1, <1>2, <1>3, <1>4, <1>5, <1>6, <1>7, <1>8

\* The inductive invariant holds in every state the load generator reaches.
THEOREM Invariance == Spec => []IInv
<1> QED BY InitIInv, NextIInv, PTL DEF Spec

\* Every variable of the load generator keeps its type.
THEOREM TypeCorrect == Spec => []TypeOK
<1>1. IInv => TypeOK
  BY DEF IInv
<1> QED BY <1>1, Invariance, PTL

\* Every request of either run is counted exactly once, the ones in flight at
\* the deadline included, for any number of goroutines.
THEOREM AttemptsAccounted == Spec => []EveryAttemptCounted
<1>1. IInv => EveryAttemptCounted
  BY DEF IInv
<1> QED BY <1>1, Invariance, PTL

\* No latency sample is lost or duplicated on its way to the shared slice.
THEOREM SamplesAccounted == Spec => []SampleLedger
<1>1. IInv => SampleLedger
  BY DEF IInv
<1> QED BY <1>1, Invariance, PTL

\* The warmup's load never overlaps the measured load, and the number of
\* requests in flight never exceeds the configured concurrency.
THEOREM MeasuredLoadIsolated == Spec => []LoadIsolated
<1>1. IInv => LoadIsolated
  <2> SUFFICES ASSUME IInv PROVE LoadIsolated
    OBVIOUS
  <2> USE DEF IInv
  <2>1. mainPc # "warmup" => InFlight("warmup") = {}
    BY DEF RunsInOrder, InFlight, Over
  <2>2. mainPc # "measured" => InFlight("measured") = {}
    BY DEF RunsInOrder, InFlight, Over
  <2>3. \A r \in Runs : /\ Cardinality(InFlight(r)) \in Nat
                         /\ Cardinality(InFlight(r)) <= Cardinality(Workers)
    <3>1. \A r \in Runs : InFlight(r) \in SUBSET Workers
      BY DEF InFlight
    <3> QED BY <3>1, ConstantsAssumption, FS_Subset, FS_CardinalityType
  <2>4. Cardinality({}) = 0
    BY FS_EmptySet
  <2>5. Cardinality(Workers) \in Nat
    BY ConstantsAssumption, FS_CardinalityType
  <2>6. Cardinality(InFlight("warmup")) + Cardinality(InFlight("measured"))
          <= Cardinality(Workers)
    <3>1. CASE InFlight("warmup") = {}
      BY <2>3, <2>4, <2>5, <3>1 DEF Runs
    <3>2. CASE InFlight("measured") = {}
      BY <2>3, <2>4, <2>5, <3>2 DEF Runs
    <3> QED BY <2>1, <2>2, <3>1, <3>2
  <2> QED BY <2>1, <2>2, <2>6 DEF LoadIsolated
<1> QED BY <1>1, Invariance, PTL

--------------------------------------------------------------------------------
(* The load generator implements Measurement *)

\* A step of the load generator is a step of Measurement or changes nothing of
\* what Measurement can see.
LEMMA StepRefines ==
  ASSUME IInv, IInv', [Next]_vars
  PROVE  [M!MNext]_(M!mvars)
<1> USE DEF IInv, M!mvars
<1>1. CASE RejectFlags
  <2>1. report = <<>> /\ status = M!Running /\ requests["measured"] = 0 /\ failures["measured"] = 0
    BY <1>1 DEF RejectFlags, ResultInStep, Running, M!Running
  <2>2. status' = 2 /\ UNCHANGED <<requests, failures, report>>
    BY <1>1 DEF RejectFlags, counters
  <2> QED BY <2>1, <2>2 DEF M!MNext, M!MReject
<1>2. CASE AcceptFlags
  BY <1>2 DEF AcceptFlags, counters, outcome
<1>3. CASE FinishWarmup
  BY <1>3 DEF FinishWarmup, counters, outcome
<1>4. CASE FinishMeasured
  <2>1. latencies["measured"] = requests["measured"]
    BY <1>4, AllMerged DEF FinishMeasured
  <2>2. report = <<>> /\ status = M!Running
    BY <1>4 DEF FinishMeasured, ResultInStep, Running, M!Running
  <2>3. /\ report' = <<requests["measured"], failures["measured"], requests["measured"]>>
        /\ UNCHANGED <<requests, failures, status>>
    BY <1>4, <2>1 DEF FinishMeasured, counters
  <2> QED BY <2>2, <2>3 DEF M!MNext, M!MReport
<1>5. CASE EncodeFails \/ Exit
  <2>1. /\ report = <<requests["measured"], failures["measured"], requests["measured"]>>
        /\ status = M!Running
    BY <1>5 DEF EncodeFails, Exit, ResultInStep, Running, M!Running
  <2>2. requests["measured"] \in Nat /\ failures["measured"] \in Nat
    BY DEF TypeOK, Runs
  <2>3. report # <<>> /\ report[1] = requests["measured"] /\ report[2] = failures["measured"]
    BY <2>1
  <2>4. /\ status' \in {0, 1}
        /\ status' = 0 => requests["measured"] > 0 /\ failures["measured"] = 0
    BY <1>5, <2>2, <2>3 DEF EncodeFails, Exit
  <2>5. UNCHANGED <<requests, failures, report>>
    BY <1>5 DEF EncodeFails, Exit, counters
  <2> QED BY <2>1, <2>3, <2>4, <2>5 DEF M!MNext, M!MExit
<1>6. ASSUME NEW r \in Runs, Deadline(r) PROVE [M!MNext]_(M!mvars)
  BY <1>6 DEF Deadline, counters, outcome
<1>7. ASSUME NEW r \in Runs, NEW w \in Workers, WorkerStep(r, w)
      PROVE  [M!MNext]_(M!mvars)
  <2>1. mainPc = r /\ UNCHANGED <<report, status>>
    BY <1>7, WorkerFrame DEF RunsInOrder, Runs, Over
  <2>2. report = <<>> /\ status = M!Running
    BY <2>1 DEF ResultInStep, Runs, Running, M!Running
  <2>3. CASE RequestSucceeds("measured", w) /\ r = "measured"
    <3>1. requests'["measured"] = requests["measured"] + 1 /\ failures' = failures
      BY <2>3 DEF RequestSucceeds, TypeOK, Runs
    <3> QED BY <2>1, <2>2, <3>1 DEF M!MNext, M!MSucceed
  <2>4. CASE RequestFails("measured", w) /\ r = "measured"
    <3>1. failures'["measured"] = failures["measured"] + 1 /\ requests' = requests
      BY <2>4 DEF RequestFails, TypeOK, Runs
    <3> QED BY <2>1, <2>2, <3>1 DEF M!MNext, M!MFail
  <2>5. CASE ~ (RequestSucceeds(r, w) \/ RequestFails(r, w)) \/ r = "warmup"
    <3>1. /\ requests'["measured"] = requests["measured"]
          /\ failures'["measured"] = failures["measured"]
      BY <1>7, <2>5 DEF WorkerStep, StartRequest, RequestFails, RequestSucceeds,
         LeaveEmpty, LeaveWithSamples, LockLatencies, AppendLatencies, TypeOK,
         Runs, counters
    <3> QED BY <2>1, <3>1
  <2> QED BY <1>7, <2>3, <2>4, <2>5 DEF Runs
<1>8. CASE UNCHANGED vars
  BY <1>8 DEF vars, counters, outcome
<1> QED
  BY <1>1, <1>2, <1>3, <1>4, <1>5, <1>6, <1>7, <1>8 DEF Next, MainStep, Exited

\* The load generator implements Measurement, whatever the number of goroutines:
\* its report carries the exact totals, is made once, and exit status 0 means
\* that something was measured and nothing failed.
THEOREM Refinement == Spec => ImplementsMeasurement
<1>1. Init => M!MInit
  BY DEF Init, Runs, Running, M!MInit, M!Running
<1>2. IInv /\ IInv' /\ [Next]_vars => [M!MNext]_(M!mvars)
  BY StepRefines
<1> QED
  BY <1>1, <1>2, Invariance, PTL DEF Spec, ImplementsMeasurement, M!MSpec

===============================================================================
