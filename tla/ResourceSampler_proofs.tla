------------------------- MODULE ResourceSampler_proofs -------------------------
(***************************************************************************)
(* Proofs about ResourceSampler, for any number of cells and samples: its  *)
(* type invariant, that a sampler goes on for one sample at most, and what *)
(* the summary of a list that may still grow is a summary of.              *)
(***************************************************************************)
EXTENDS ResourceSampler, FiniteSetTheorems, SequenceTheorems, TLAPS

(***************************************************************************)
(* The inductive invariant                                                 *)
(***************************************************************************)

\* What the runner has done to a cell: it has set the stop events of the cells up to
\* the current one, joined no other, and read what the step it is at says.
RunnerInStep ==
  /\ \A c \in stopped \cup joined :
       c < current \/ (c = current /\ pc \notin {"start", "load", "stop"})
  /\ \A c \in CellIds :
       c > current \/ (c = current /\ pc \in {"start", "load", "stop", "join", "cpu"}) =>
         summary[c] = <<>>
  /\ pc = "memory" => Len(summary[current]) = 1
  /\ pc = "count" => Len(summary[current]) = 2

\* A thread that was joined has ended.  One that is between its check and the end of a
\* sample can append one sample, and begin it only if it has not.
ThreadInStep ==
  /\ \A c \in joined : thread[c] = "ended"
  /\ \A c \in CellIds : atStop[c] <= Len(samples[c])
  /\ \A c \in CellIds \ stopped : late[c] = 0
  /\ \A c \in stopped :
       /\ thread[c] = "checked" => late[c] = 0
       /\ thread[c] \in {"checked", "sampling"} => Len(samples[c]) = atStop[c]

IInv ==
  /\ TypeOK
  /\ RunnerInStep
  /\ ThreadInStep
  /\ OneLateSample
  /\ SummaryExplained

--------------------------------------------------------------------------------
(* Operators *)

\* A number of values is a natural number.
LEMMA ValuesType ==
  ASSUME NEW c, NEW m, NEW n \in Nat
  PROVE  Values(c, m, n) \in Nat
<1> DEFINE S == {i \in 1 .. n : m \in samples[c][i]}
<1>1. IsFiniteSet(1 .. n)
  <2>1. 1 \in Int /\ n \in Int
    OBVIOUS
  <2> QED
    BY <2>1, FS_Interval
<1>2. IsFiniteSet(S)
  BY <1>1, FS_Subset
<1> QED
  BY <1>2, FS_CardinalityType DEF Values

\* The values in a prefix of a list do not change when a sample is appended to it.
LEMMA ValuesStable ==
  ASSUME NEW c \in CellIds, NEW m, samples[c] \in Seq(SUBSET Metrics),
         NEW n \in 0 .. Len(samples[c]),
         \/ samples'[c] = samples[c]
         \/ \E has \in SUBSET Metrics : samples'[c] = Append(samples[c], has)
  PROVE  Values(c, m, n)' = Values(c, m, n)
<1>1. Len(samples[c]) \in Nat
  BY LenProperties
<1>2. \A i \in 1 .. Len(samples[c]) : samples'[c][i] = samples[c][i]
  BY AppendProperties
<1>3. {i \in 1 .. n : m \in samples'[c][i]} = {i \in 1 .. n : m \in samples[c][i]}
  BY <1>1, <1>2
<1> QED
  BY <1>3 DEF Values

--------------------------------------------------------------------------------
(* Each conjunct is kept by each step *)

\* Every step keeps every variable in its type.
LEMMA TypeStep == TypeOK /\ [Next]_vars => TypeOK'
<1> SUFFICES ASSUME TypeOK, [Next]_vars PROVE TypeOK'
  OBVIOUS
<1> USE SamplerAssumption DEF TypeOK, runner, history
<1>a. ASSUME NextCell PROVE pc' \in {"start", "done"} /\ current' \in CellIds
  BY <1>a DEF NextCell, CellIds
<1>b. ASSUME AfterJoin PROVE pc' \in {"start", "cpu", "done"} /\ current' \in CellIds
  BY <1>a, <1>b DEF AfterJoin
<1>c. \A c \in CellIds : Len(samples[c]) \in Nat
  BY LenProperties
<1>1. CASE StartCell
  BY <1>1 DEF StartCell
<1>2. CASE LoadEnds
  BY <1>2 DEF LoadEnds
<1>3. CASE SetStopEvent
  BY <1>3, <1>c DEF SetStopEvent
<1>4. CASE JoinReturns \/ JoinTimesOut
  BY <1>4, <1>b DEF JoinReturns, JoinTimesOut, AfterJoin
<1>5. ASSUME NEW value \in Nat, summary' = [summary EXCEPT ![current] = Append(@, value)]
      PROVE  summary' \in [CellIds -> Seq(Nat)]
  BY <1>5, AppendProperties
<1>6. CASE ReadCpu
  <2>1. Values(current, "cpu", Len(samples[current])) \in Nat
    BY <1>c, ValuesType
  <2>2. summary' \in [CellIds -> Seq(Nat)]
    BY <1>5, <1>6, <2>1 DEF ReadCpu, Read
  <2> QED
    BY <1>6, <2>2 DEF ReadCpu, Read
<1>7. CASE ReadMemory
  <2>1. Values(current, "memory", Len(samples[current])) \in Nat
    BY <1>c, ValuesType
  <2>2. summary' \in [CellIds -> Seq(Nat)]
    BY <1>5, <1>7, <2>1 DEF ReadMemory, Read
  <2> QED
    BY <1>7, <2>2 DEF ReadMemory, Read
<1>8. CASE ReadCount
  <2>1. summary' \in [CellIds -> Seq(Nat)]
    BY <1>5, <1>8, <1>c DEF ReadCount, Read
  <2> QED
    BY <1>8, <1>a, <2>1 DEF ReadCount, Read
<1>9. ASSUME NEW c \in CellIds, CheckStopEvent(c) \/ Wake(c) \/ NoSample(c) \/ SampleRaises(c)
      PROVE  TypeOK'
  <2>1. CASE CheckStopEvent(c)
    BY <2>1 DEF CheckStopEvent, Goto
  <2>2. CASE Wake(c)
    BY <2>2 DEF Wake, Goto
  <2>3. CASE NoSample(c)
    BY <2>3 DEF NoSample, Goto
  <2>4. CASE SampleRaises(c)
    BY <2>4 DEF SampleRaises, Goto
  <2> QED
    BY <1>9, <2>1, <2>2, <2>3, <2>4
<1>10. ASSUME NEW c \in CellIds, BeginSample(c) PROVE TypeOK'
  BY SMTT(30), <1>10 DEF BeginSample, Goto
<1>11. ASSUME NEW c \in CellIds, SampleTaken(c) PROVE TypeOK'
  <2>1. PICK has \in SUBSET Metrics : samples' = [samples EXCEPT ![c] = Append(@, has)]
    BY <1>11, SamplerAssumption DEF SampleTaken
  <2>2. samples[c] \in Seq(SUBSET Metrics)
    OBVIOUS
  <2>3. Append(samples[c], has) \in Seq(SUBSET Metrics)
    BY <2>2, AppendProperties
  <2>4. samples' \in [CellIds -> Seq(SUBSET Metrics)]
    BY <2>1, <2>3
  <2>5. thread' \in [CellIds -> {"none", "check", "checked", "sampling", "wait", "ended"}]
    BY <1>11 DEF SampleTaken, Goto
  <2> QED
    BY <1>11, <2>4, <2>5 DEF SampleTaken
<1>12. CASE UNCHANGED vars
  BY <1>12 DEF vars
<1> HIDE DEF TypeOK, runner, history
<1> QED
  BY <1>1, <1>2, <1>3, <1>4, <1>6, <1>7, <1>8, <1>9, <1>10, <1>11, <1>12
     DEF Next, RunnerStep, ThreadStep, Finished

\* The threads do not move the runner.
LEMMA RunnerInStepStep == TypeOK /\ RunnerInStep /\ [Next]_vars => RunnerInStep'
<1> SUFFICES ASSUME TypeOK, RunnerInStep, [Next]_vars PROVE RunnerInStep'
  OBVIOUS
<1> USE SamplerAssumption DEF RunnerInStep, runner, history
<1>0. /\ current \in CellIds /\ CellIds \subseteq Nat
      /\ stopped \subseteq CellIds /\ joined \subseteq CellIds
      /\ summary \in [CellIds -> Seq(Nat)]
  BY SMTT(30) DEF TypeOK, CellIds
<1>1. CASE StartCell \/ LoadEnds \/ SetStopEvent
  BY <1>0, <1>1 DEF StartCell, LoadEnds, SetStopEvent
<1>a. ASSUME NextCell, pc \in {"join", "count"}, \A c \in CellIds : c > current => summary'[c] = <<>>,
             stopped' \cup joined' \subseteq stopped \cup joined \cup {current}
      PROVE  RunnerInStep'
  <2>1. \A c \in CellIds : c \in Nat
    BY <1>0
  <2>2. \A c \in stopped' \cup joined' : c \in CellIds /\ (c < current \/ c = current)
    BY <1>0, <1>a
  <2>3. CASE pc' = "done" /\ current' = current
    BY <1>a, <2>1, <2>2, <2>3
  <2>4. CASE pc' = "start" /\ current' = current + 1
    <3>1. \A c \in stopped' \cup joined' : c < current'
      <4> SUFFICES ASSUME NEW c \in stopped' \cup joined' PROVE c < current'
        OBVIOUS
      <4>1. c \in Nat /\ current \in Nat /\ (c < current \/ c = current)
        BY <1>0, <2>1, <2>2
      <4> QED
        BY <2>4, <4>1
    <3>2. \A c \in CellIds : c > current' \/ c = current' => summary'[c] = <<>>
      BY <1>0, <1>a, <2>1, <2>4
    <3> QED
      BY <2>4, <3>1, <3>2
  <2> QED
    BY <1>a, <2>3, <2>4 DEF NextCell
<1>2. CASE JoinReturns \/ JoinTimesOut
  <2>1. /\ pc = "join" /\ UNCHANGED <<stopped, summary>>
        /\ joined' \subseteq joined \cup {current}
        /\ \/ pc' \in {"cpu", "done"} /\ current' = current
           \/ NextCell
    BY <1>2 DEF JoinReturns, JoinTimesOut, AfterJoin
  <2>2. CASE pc' \in {"cpu", "done"} /\ current' = current
    BY <1>0, <2>1, <2>2
  <2>3. CASE NextCell
    BY <1>0, <1>a, <2>1, <2>3
  <2> QED
    BY <2>1, <2>2, <2>3
<1>b. ASSUME NEW value \in Nat, summary' = [summary EXCEPT ![current] = Append(@, value)]
      PROVE  /\ Len(summary'[current]) = Len(summary[current]) + 1
             /\ \A c \in CellIds : c # current => summary'[c] = summary[c]
  BY <1>0, <1>b, AppendProperties
<1>c. Len(samples[current]) \in Nat
  BY <1>0, LenProperties DEF TypeOK
<1>3. CASE ReadCpu
  <2> DEFINE value == Values(current, "cpu", Len(samples[current]))
  <2>1. value \in Nat
    BY <1>c, ValuesType
  <2>2. /\ pc = "cpu" /\ pc' = "memory" /\ UNCHANGED <<current, stopped, joined>>
        /\ summary' = [summary EXCEPT ![current] = Append(@, value)]
    BY <1>3 DEF ReadCpu, Read
  <2>3. /\ Len(summary'[current]) = Len(summary[current]) + 1
        /\ \A c \in CellIds : c # current => summary'[c] = summary[c]
    BY <1>b, <2>1, <2>2
  <2>4. Len(summary[current]) = 0
    BY <1>0, <2>2
  <2> QED
    BY <1>0, <2>2, <2>3, <2>4
<1>4. CASE ReadMemory
  <2> DEFINE value == Values(current, "memory", Len(samples[current]))
  <2>1. value \in Nat
    BY <1>c, ValuesType
  <2>2. /\ pc = "memory" /\ pc' = "count" /\ UNCHANGED <<current, stopped, joined>>
        /\ summary' = [summary EXCEPT ![current] = Append(@, value)]
    BY <1>4 DEF ReadMemory, Read
  <2>3. /\ Len(summary'[current]) = Len(summary[current]) + 1
        /\ \A c \in CellIds : c # current => summary'[c] = summary[c]
    BY <1>b, <2>1, <2>2
  <2> QED
    <3>1. Len(summary'[current]) = 2
      BY <2>2, <2>3
    <3> QED
      BY <1>0, <2>2, <2>3, <3>1
<1>5. CASE ReadCount
  <2>1. /\ pc = "count" /\ NextCell /\ UNCHANGED <<stopped, joined>>
        /\ summary' = [summary EXCEPT ![current] = Append(@, Len(samples[current]))]
    BY <1>5 DEF ReadCount, Read
  <2>2. \A c \in CellIds : c # current => summary'[c] = summary[c]
    BY <1>b, <1>c, <2>1
  <2>3. \A c \in CellIds : c > current => summary'[c] = <<>>
    BY <1>0, <2>2
  <2> QED
    BY <1>a, <2>1, <2>3
<1>6. ASSUME NEW c \in CellIds, ThreadStep(c) PROVE RunnerInStep'
  <2>1. UNCHANGED <<runner, joined>>
    BY <1>6 DEF ThreadStep, CheckStopEvent, BeginSample, SampleTaken, NoSample, SampleRaises, Wake
  <2> QED
    BY <2>1
<1>7. CASE UNCHANGED vars
  BY <1>7 DEF vars
<1> HIDE DEF RunnerInStep, runner, history
<1> QED
  BY <1>1, <1>2, <1>3, <1>4, <1>5, <1>6, <1>7 DEF Next, RunnerStep, Finished

\* A sample makes the list of its cell longer by one.
LEMMA SampleAppends ==
  ASSUME TypeOK, NEW c \in CellIds, SampleTaken(c)
  PROVE  /\ Len(samples[c]) \in Nat /\ Len(samples'[c]) = Len(samples[c]) + 1
         /\ \E has \in SUBSET Metrics : samples'[c] = Append(samples[c], has)
         /\ \A d \in CellIds \ {c} : samples'[d] = samples[d]
         /\ pc # "done" /\ thread[c] = "sampling" /\ thread' = [thread EXCEPT ![c] = "wait"]
         /\ UNCHANGED <<runner, history>>
<1>1. PICK has \in SUBSET Metrics : samples' = [samples EXCEPT ![c] = Append(@, has)]
  BY SamplerAssumption DEF SampleTaken
<1>2. samples[c] \in Seq(SUBSET Metrics) /\ samples'[c] = Append(samples[c], has)
  BY <1>1 DEF TypeOK
<1>3. Len(samples[c]) \in Nat /\ Len(samples'[c]) = Len(samples[c]) + 1
  BY <1>2, LenProperties, AppendProperties
<1>4. \A d \in CellIds \ {c} : samples'[d] = samples[d]
  BY <1>1 DEF TypeOK
<1> QED
  BY <1>2, <1>3, <1>4 DEF SampleTaken, Goto

\* A check that finds no event allows for one sample, and the event for no other.
LEMMA ThreadInStepStep ==
  TypeOK /\ RunnerInStep /\ ThreadInStep /\ OneLateSample /\ [Next]_vars =>
    ThreadInStep' /\ OneLateSample'
<1> SUFFICES ASSUME TypeOK, RunnerInStep, ThreadInStep, OneLateSample, [Next]_vars
             PROVE  ThreadInStep' /\ OneLateSample'
  OBVIOUS
<1> USE DEF ThreadInStep, OneLateSample, runner, history
<1>0. /\ current \in CellIds /\ stopped \subseteq CellIds /\ joined \subseteq CellIds
      /\ thread \in [CellIds -> {"none", "check", "checked", "sampling", "wait", "ended"}]
      /\ atStop \in [CellIds -> Nat] /\ late \in [CellIds -> Nat]
      /\ \A c \in CellIds : Len(samples[c]) \in Nat
  BY LenProperties DEF TypeOK
<1>a. pc \in {"start", "load", "stop"} => current \notin stopped \cup joined
  <2> SUFFICES ASSUME pc \in {"start", "load", "stop"}, current \in stopped \cup joined
               PROVE  FALSE
    OBVIOUS
  <2>1. current < current
    BY DEF RunnerInStep
  <2>2. current \in Nat
    BY <1>0 DEF CellIds
  <2> QED
    BY <2>1, <2>2
<1>1. CASE StartCell
  BY <1>0, <1>1, <1>a DEF StartCell
<1>2. CASE LoadEnds
  BY <1>2 DEF LoadEnds
<1>3. CASE SetStopEvent
  BY <1>0, <1>3, <1>a DEF SetStopEvent
<1>4. CASE JoinReturns \/ JoinTimesOut
  BY <1>0, <1>4 DEF JoinReturns, JoinTimesOut, AfterJoin
<1>5. CASE ReadCpu \/ ReadMemory \/ ReadCount
  BY <1>5 DEF ReadCpu, ReadMemory, ReadCount, Read
<1>6. ASSUME NEW c \in CellIds, CheckStopEvent(c) PROVE ThreadInStep' /\ OneLateSample'
  BY <1>0, <1>6 DEF CheckStopEvent, Goto
<1>7. ASSUME NEW c \in CellIds, BeginSample(c) PROVE ThreadInStep' /\ OneLateSample'
  BY <1>0, <1>7 DEF BeginSample, Goto
<1>8. ASSUME NEW c \in CellIds, SampleTaken(c) PROVE ThreadInStep' /\ OneLateSample'
  <2>1. /\ thread[c] = "sampling" /\ thread'[c] = "wait"
        /\ \A d \in CellIds \ {c} : thread'[d] = thread[d] /\ samples'[d] = samples[d]
        /\ Len(samples'[c]) = Len(samples[c]) + 1
        /\ UNCHANGED <<stopped, atStop, late, joined>>
    BY <1>0, <1>8, SampleAppends
  <2>2. Len(samples[c]) \in Nat /\ atStop[c] \in Nat
    BY <1>0
  <2>3. ThreadInStep'
    <3>1. c \notin joined
      BY <2>1
    <3>2. \A d \in CellIds : Len(samples'[d]) >= Len(samples[d]) /\ atStop[d] \in Nat
      BY SMTT(30), <1>0, <2>1, <2>2
    <3>3. \A d \in CellIds : atStop[d] <= Len(samples'[d])
      BY SMTT(30), <1>0, <3>2
    <3>4. \A d \in CellIds : thread'[d] \in {"checked", "sampling"} =>
            thread[d] = thread'[d] /\ samples'[d] = samples[d]
      BY <2>1
    <3>5. \A d \in joined : thread'[d] = thread[d]
      BY <1>0, <2>1, <3>1
    <3> QED
      BY <1>0, <2>1, <3>3, <3>4, <3>5
  <2>4. OneLateSample'
    BY <1>0, <2>1, <2>2
  <2> QED
    BY <2>3, <2>4
<1>9. ASSUME NEW c \in CellIds, NoSample(c) \/ SampleRaises(c) \/ Wake(c)
      PROVE  ThreadInStep' /\ OneLateSample'
  BY <1>0, <1>9 DEF NoSample, SampleRaises, Wake, Goto
<1>10. CASE UNCHANGED vars
  BY <1>10 DEF vars
<1> HIDE DEF ThreadInStep, OneLateSample, runner, history
<1> QED
  BY <1>1, <1>2, <1>3, <1>4, <1>5, <1>6, <1>7, <1>8, <1>9, <1>10
     DEF Next, RunnerStep, ThreadStep, Finished

\* What SummaryExplained says of one cell, and the three lengths it speaks of.
Explains(c, cpu, memory, count) ==
  /\ cpu <= memory /\ memory <= count
  /\ c \in joined => cpu = Len(samples[c])
  /\ summary[c][1] = Values(c, "cpu", cpu)
  /\ Len(summary[c]) >= 2 => summary[c][2] = Values(c, "memory", memory)
  /\ Len(summary[c]) = 3 => summary[c][3] = count

Explained(c) ==
  summary[c] # <<>> =>
    \E cpu, memory, count \in atStop[c] .. Len(samples[c]) : Explains(c, cpu, memory, count)

\* A cell stays explained while its summary does not change, though its list may grow.
LEMMA ExplainedFrame ==
  ASSUME TypeOK, NEW c \in CellIds, Explained(c),
         summary'[c] = summary[c], atStop'[c] = atStop[c], c \in joined' => c \in joined,
         \/ samples'[c] = samples[c]
         \/ /\ c \notin joined
            /\ \E has \in SUBSET Metrics : samples'[c] = Append(samples[c], has)
  PROVE  Explained(c)'
<1> SUFFICES ASSUME summary[c] # <<>>
             PROVE  (\E cpu, memory, count \in atStop[c] .. Len(samples[c]) :
                       Explains(c, cpu, memory, count))'
  BY DEF Explained
<1>1. PICK cpu \in atStop[c] .. Len(samples[c]), memory \in atStop[c] .. Len(samples[c]),
           count \in atStop[c] .. Len(samples[c]) : Explains(c, cpu, memory, count)
  BY DEF Explained
<1>2. atStop[c] \in Nat /\ samples[c] \in Seq(SUBSET Metrics) /\ Len(samples[c]) \in Nat
  BY LenProperties DEF TypeOK
<1>3. Len(samples'[c]) = Len(samples[c]) \/ Len(samples'[c]) = Len(samples[c]) + 1
  BY <1>2, AppendProperties
<1>4. /\ cpu \in 0 .. Len(samples[c]) /\ memory \in 0 .. Len(samples[c])
      /\ cpu \in atStop'[c] .. Len(samples'[c])
      /\ memory \in atStop'[c] .. Len(samples'[c])
      /\ count \in atStop'[c] .. Len(samples'[c])
  BY <1>2, <1>3
<1>5. /\ Values(c, "cpu", cpu)' = Values(c, "cpu", cpu)
      /\ Values(c, "memory", memory)' = Values(c, "memory", memory)
  BY <1>2, <1>4, ValuesStable
<1>6. Explains(c, cpu, memory, count)'
  BY <1>1, <1>5 DEF Explains
<1> QED
  BY <1>4, <1>6

\* The list from which a metric has been read is never longer than the one from which
\* the next is read: every step keeps the summaries explained.
LEMMA SummaryExplainedStep ==
  TypeOK /\ RunnerInStep /\ ThreadInStep /\ SummaryExplained /\ [Next]_vars =>
    SummaryExplained'
<1> SUFFICES ASSUME TypeOK, RunnerInStep, ThreadInStep, SummaryExplained, [Next]_vars,
                    NEW c \in CellIds
             PROVE  Explained(c)'
  BY DEF SummaryExplained, Explained, Explains
<1> USE DEF runner, history
<1>0. /\ current \in CellIds /\ Explained(c) /\ summary \in [CellIds -> Seq(Nat)]
      /\ samples[c] \in Seq(SUBSET Metrics) /\ Len(samples[c]) \in Nat
      /\ atStop \in [CellIds -> Nat] /\ joined \subseteq CellIds
      /\ c \in joined => thread[c] = "ended"
      /\ atStop[c] <= Len(samples[c])
  BY LenProperties DEF SummaryExplained, Explained, Explains, TypeOK, ThreadInStep
<1>a. ASSUME UNCHANGED <<summary, samples, history>> PROVE Explained(c)'
  BY <1>0, <1>a, ExplainedFrame
<1>1. CASE StartCell \/ LoadEnds
  BY <1>1, <1>a DEF StartCell, LoadEnds
<1>2. CASE SetStopEvent
  <2>1. CASE c = current
    <3>1. summary[c] = <<>> /\ summary' = summary
      BY <1>0, <1>2, <2>1 DEF SetStopEvent, RunnerInStep
    <3> QED
      BY <3>1 DEF Explained
  <2>2. CASE c # current
    BY <1>0, <1>2, <2>2, ExplainedFrame DEF SetStopEvent
  <2> QED
    BY <2>1, <2>2
<1>3. CASE JoinReturns \/ JoinTimesOut
  <2>0. /\ pc = "join" /\ joined' \subseteq joined \cup {current}
        /\ UNCHANGED <<summary, samples, atStop>>
    BY <1>3 DEF JoinReturns, JoinTimesOut, AfterJoin
  <2>1. CASE c = current
    <3>1. summary[c] = <<>> /\ summary' = summary
      BY <1>0, <2>0, <2>1 DEF RunnerInStep
    <3> QED
      BY <3>1 DEF Explained
  <2>2. CASE c # current
    BY <1>0, <2>0, <2>2, ExplainedFrame
  <2> QED
    BY <2>1, <2>2
<1>4. CASE ReadCpu
  <2> DEFINE n == Len(samples[current])  value == Values(current, "cpu", n)
  <2>1. /\ pc = "cpu" /\ UNCHANGED <<current, samples, history>>
        /\ summary' = [summary EXCEPT ![current] = Append(@, value)]
    BY <1>4 DEF ReadCpu, Read
  <2>2. CASE c = current
    <3>1. summary[c] = <<>>
      BY <1>0, <2>1, <2>2 DEF RunnerInStep
    <3>2. summary'[c] = Append(<<>>, value)
      BY <1>0, <2>1, <2>2, <3>1
    <3>3. Len(summary'[c]) = 1 /\ summary'[c][1] = value
      BY <3>2
    <3>4. Values(c, "cpu", n)' = value
      BY <2>1, <2>2 DEF Values
    <3>5. n \in atStop[c] .. n /\ n <= n
      BY <1>0, <2>2
    <3>6. (\E cpu, memory, count \in atStop[c] .. Len(samples[c]) :
             Explains(c, cpu, memory, count))'
      <4> SUFFICES Explains(c, n, n, n)' /\ n' \in atStop'[c] .. Len(samples'[c])
        OBVIOUS
      <4>1. n' = n /\ n' = Len(samples'[c]) /\ atStop'[c] = atStop[c]
        BY <2>1, <2>2
      <4> QED
        BY <2>1, <3>3, <3>4, <3>5, <4>1 DEF Explains, Values
    <3> QED
      BY <3>6 DEF Explained
  <2>3. CASE c # current
    BY <1>0, <2>1, <2>3, ExplainedFrame
  <2> QED
    BY <2>2, <2>3
<1>5. CASE ReadMemory
  <2> DEFINE n == Len(samples[current])  value == Values(current, "memory", n)
  <2>1. /\ pc = "memory" /\ UNCHANGED <<current, samples, history>>
        /\ summary' = [summary EXCEPT ![current] = Append(@, value)]
    BY <1>5 DEF ReadMemory, Read
  <2>2. CASE c = current
    <3>1. Len(summary[c]) = 1 /\ summary[c] \in Seq(Nat)
      BY <1>0, <2>1, <2>2 DEF RunnerInStep
    <3>e. summary[c] # <<>>
      BY <3>1, EmptySeq
    <3>2. PICK cpu \in atStop[c] .. n :
            /\ c \in joined => cpu = n
            /\ summary[c][1] = Values(c, "cpu", cpu)
      BY <1>0, <2>2, <3>e DEF Explained, Explains
    <3>3. value \in Nat
      BY <1>0, <2>2, ValuesType
    <3>4. /\ Len(summary'[c]) = 2
          /\ summary'[c][1] = summary[c][1] /\ summary'[c][2] = value
      <4>1. summary'[c] = Append(summary[c], value)
        BY <1>0, <2>1, <2>2
      <4> QED
        BY <3>1, <3>3, <4>1, AppendProperties
    <3>5. PICK all \in Nat : all = n
      BY <1>0, <2>2
    <3>6. /\ Len(samples'[c]) = all /\ atStop'[c] = atStop[c]
          /\ cpu \in atStop[c] .. all /\ all \in atStop[c] .. all
          /\ cpu <= all /\ all <= all
      BY <1>0, <2>1, <2>2, <3>5
    <3>7. /\ summary'[c][1] = Values(c, "cpu", cpu)'
          /\ summary'[c][2] = Values(c, "memory", all)'
      BY <2>1, <2>2, <3>2, <3>4, <3>5 DEF Values
    <3>8. Explains(c, cpu, all, all)'
      BY <2>1, <2>2, <3>2, <3>4, <3>5, <3>6, <3>7 DEF Explains
    <3>9. (\E cpu_1, memory, count \in atStop[c] .. Len(samples[c]) :
             Explains(c, cpu_1, memory, count))'
      BY <3>6, <3>8
    <3> QED
      BY <3>9 DEF Explained
  <2>3. CASE c # current
    BY <1>0, <2>1, <2>3, ExplainedFrame
  <2> QED
    BY <2>2, <2>3
<1>6. CASE ReadCount
  <2> DEFINE n == Len(samples[current])
  <2>1. /\ pc = "count" /\ UNCHANGED <<samples, history>>
        /\ summary' = [summary EXCEPT ![current] = Append(@, n)]
    BY <1>6 DEF ReadCount, Read
  <2>2. CASE c = current
    <3>1. Len(summary[c]) = 2 /\ summary[c] \in Seq(Nat)
      BY <1>0, <2>1, <2>2 DEF RunnerInStep
    <3>e. summary[c] # <<>> /\ Len(summary[c]) >= 2
      <4>1. Len(<<>>) # 2
        OBVIOUS
      <4>2. Len(summary[c]) >= 2
        BY <3>1
      <4> QED
        BY <3>1, <4>1, <4>2
    <3>2. PICK cpu \in atStop[c] .. n, memory \in atStop[c] .. n :
            /\ cpu <= memory
            /\ c \in joined => cpu = n
            /\ summary[c][1] = Values(c, "cpu", cpu)
            /\ summary[c][2] = Values(c, "memory", memory)
      BY <1>0, <2>2, <3>e DEF Explained, Explains
    <3>3. /\ Len(summary'[c]) = 3
          /\ summary'[c][1] = summary[c][1] /\ summary'[c][2] = summary[c][2]
          /\ summary'[c][3] = n
      <4>1. summary'[c] = Append(summary[c], n) /\ n \in Nat
        BY <1>0, <2>1, <2>2
      <4> QED
        BY SMTT(30), <3>1, <4>1, AppendProperties
    <3>4. (\E cpu_1, memory_1, count \in atStop[c] .. Len(samples[c]) :
             Explains(c, cpu_1, memory_1, count))'
      <4>1. Len(samples'[c]) = n /\ atStop'[c] = atStop[c]
        BY <2>1, <2>2
      <4>2. memory <= n /\ n \in atStop[c] .. n
        BY <1>0, <2>2
      <4>3. /\ c \in joined' => cpu = Len(samples'[c])
            /\ summary'[c][1] = Values(c, "cpu", cpu)'
            /\ summary'[c][2] = Values(c, "memory", memory)'
        <5>1. samples' = samples /\ joined' = joined
          BY <2>1
        <5>2. /\ Values(c, "cpu", cpu)' = Values(c, "cpu", cpu)
              /\ Values(c, "memory", memory)' = Values(c, "memory", memory)
          BY <5>1 DEF Values
        <5> QED
          BY <2>2, <3>2, <3>3, <5>1, <5>2
      <4> QED
        BY <3>2, <3>3, <4>1, <4>2, <4>3 DEF Explains
    <3> QED
      BY <3>4 DEF Explained
  <2>3. CASE c # current
    BY <1>0, <2>1, <2>3, ExplainedFrame
  <2> QED
    BY <2>2, <2>3
<1>7. ASSUME NEW d \in CellIds, SampleTaken(d) PROVE Explained(c)'
  <2>1. CASE c = d
    BY <1>0, <1>7, <2>1, SampleAppends, ExplainedFrame
  <2>2. CASE c # d
    BY <1>0, <1>7, <2>2, SampleAppends, ExplainedFrame
  <2> QED
    BY <2>1, <2>2
<1>8. ASSUME NEW d \in CellIds, CheckStopEvent(d) \/ NoSample(d) \/ SampleRaises(d) \/ Wake(d)
      PROVE  Explained(c)'
  BY <1>8, <1>a DEF CheckStopEvent, NoSample, SampleRaises, Wake
<1>9. ASSUME NEW d \in CellIds, BeginSample(d) PROVE Explained(c)'
  BY <1>0, <1>9, ExplainedFrame DEF BeginSample
<1>10. CASE UNCHANGED vars
  BY <1>10, <1>a DEF vars
<1> HIDE DEF runner, history
<1> QED
  BY <1>1, <1>2, <1>3, <1>4, <1>5, <1>6, <1>7, <1>8, <1>9, <1>10
     DEF Next, RunnerStep, ThreadStep, Finished

--------------------------------------------------------------------------------
(* The theorems *)

\* Before the first cell there is no thread, no sample and no summary.
LEMMA InitIInv == Init => IInv
<1> SUFFICES ASSUME Init PROVE IInv
  OBVIOUS
<1> USE SamplerAssumption DEF Init, CellIds
<1>1. TypeOK
  <2>1. stopped \subseteq CellIds /\ joined \subseteq CellIds
    OBVIOUS
  <2>2. ok \in BOOLEAN /\ current \in CellIds
    OBVIOUS
  <2> QED
    BY <2>1, <2>2 DEF TypeOK
<1>2. RunnerInStep
  BY DEF RunnerInStep
<1>3. ThreadInStep /\ OneLateSample
  BY DEF ThreadInStep, OneLateSample
<1>4. SummaryExplained
  BY DEF SummaryExplained
<1> QED
  BY <1>1, <1>2, <1>3, <1>4 DEF IInv

\* Every step keeps the invariant.
LEMMA NextIInv == IInv /\ [Next]_vars => IInv'
BY TypeStep, RunnerInStepStep, ThreadInStepStep, SummaryExplainedStep DEF IInv

\* The runner and its samplers are always as the invariant says.
THEOREM Invariance == Spec => []IInv
BY InitIInv, NextIInv, PTL DEF Spec

\* The variables keep their types.
THEOREM TypeCorrect == Spec => []TypeOK
<1>1. IInv => TypeOK
  BY DEF IInv
<1> QED
  BY Invariance, <1>1, PTL

\* A sampler that has been told to stop begins and appends one more sample at most.
THEOREM AtMostOneLateSample == Spec => []OneLateSample
<1>1. IInv => OneLateSample
  BY DEF IInv
<1> QED
  BY Invariance, <1>1, PTL

\* Every summary is one of three prefixes of the list, each as long as the one before
\* or longer, and of the whole list if the thread has been joined.
THEOREM SummariesAreExplained == Spec => []SummaryExplained
<1>1. IInv => SummaryExplained
  BY DEF IInv
<1> QED
  BY Invariance, <1>1, PTL

================================================================================
