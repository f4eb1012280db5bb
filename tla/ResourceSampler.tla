---------------------------- MODULE ResourceSampler ----------------------------
(***************************************************************************)
(* The class ResourceSampler of tools/benchctl/benchctl.py, as the cells   *)
(* of the API lanes use it: a thread that measures the server once per     *)
(* second beside the load, and the runner, which sets its stop event, joins *)
(* it for at most 2 seconds and then summarizes the list that the thread   *)
(* may still append to.  A sample is a "docker stats" or "ps" without a    *)
(* timeout, so that a thread may be in one when its cell is over.          *)
(*                                                                         *)
(* Abstracted: a sample is the set of metrics that could be parsed; means  *)
(* and maxima are the number of values they were taken from.               *)
(***************************************************************************)
EXTENDS Naturals, Sequences, FiniteSets

CONSTANTS
  Cells,      (* cells measured, in however many lanes                     *)
  Shapes,     (* which of the metrics can be parsed in a sample            *)
  MaxSamples  (* bound: samples of a cell                                  *)

CellIds == 1 .. Cells
Metrics == {"cpu", "memory"}

ASSUME SamplerAssumption ==
  /\ Cells \in Nat \ {0}
  /\ Shapes \subseteq SUBSET Metrics
  /\ MaxSamples \in Nat

VARIABLES
  pc,       (* start, load, stop, join, cpu, memory, count, done: the runner *)
  current,  (* the cell it measures                                        *)
  ok,       (* did the load of that cell succeed?                          *)
  stopped,  (* the cells whose stop event is set                           *)
  thread,   (* per cell: none, check, checked, sampling, wait, ended       *)
  samples,  (* per cell: the list that the thread appends to               *)
  summary,  (* per cell: how many values summary has read of each metric,  *)
            (* and its sampleCount                                         *)
  atStop,   (* history, per cell: length of the list when stop was called  *)
  late,     (* history, per cell: samples begun after that                 *)
  joined    (* history: the cells whose join did not time out              *)

runner == <<pc, current, ok, stopped, summary>>
history == <<atStop, late, joined>>
vars == <<runner, thread, samples, history>>

Init ==
  /\ pc = "start" /\ current = 1 /\ ok = TRUE /\ stopped = {}
  /\ thread = [c \in CellIds |-> "none"]
  /\ samples = [c \in CellIds |-> <<>>]
  /\ summary = [c \in CellIds |-> <<>>]
  /\ atStop = [c \in CellIds |-> 0]
  /\ late = [c \in CellIds |-> 0]
  /\ joined = {}

--------------------------------------------------------------------------------
(* The runner *)

StartCell ==
  /\ pc = "start"
  /\ thread' = [thread EXCEPT ![current] = "check"]
  /\ pc' = "load"
  /\ UNCHANGED <<current, ok, stopped, summary, samples, history>>

\* The load succeeds, fails or is interrupted; the finally clause stops the sampler.
LoadEnds ==
  /\ pc = "load"
  /\ ok' \in BOOLEAN
  /\ pc' = "stop"
  /\ UNCHANGED <<current, stopped, summary, thread, samples, history>>

SetStopEvent ==
  /\ pc = "stop"
  /\ stopped' = stopped \cup {current}
  /\ atStop' = [atStop EXCEPT ![current] = Len(samples[current])]
  /\ pc' = "join"
  /\ UNCHANGED <<current, ok, summary, thread, samples, late, joined>>

NextCell ==
  IF current = Cells THEN pc' = "done" /\ UNCHANGED current
                     ELSE pc' = "start" /\ current' = current + 1

\* A summary is taken of a load that succeeded.  One that failed ends its lane, and
\* one that was interrupted ends the run.
AfterJoin ==
  /\ \/ ok /\ pc' = "cpu" /\ UNCHANGED current
     \/ ~ok /\ NextCell
     \/ ~ok /\ pc' = "done" /\ UNCHANGED current
  /\ UNCHANGED <<ok, stopped, summary, thread, samples, atStop, late>>

JoinReturns ==
  /\ pc = "join" /\ thread[current] = "ended"
  /\ joined' = joined \cup {current}
  /\ AfterJoin

\* Mutant: join without a timeout.
JoinWithoutTimeout == FALSE

\* thread.join(timeout=2) returns in any case.
JoinTimesOut ==
  /\ pc = "join" /\ thread[current] # "ended"
  /\ UNCHANGED joined
  /\ AfterJoin

\* How many of the first n samples of a cell have a metric.
Values(c, m, n) == Cardinality({i \in 1 .. n : m \in samples[c][i]})

Read(step, value, next) ==
  /\ pc = step
  /\ summary' = [summary EXCEPT ![current] = Append(@, value)]
  /\ next
  /\ UNCHANGED <<ok, stopped, thread, samples, history>>

\* summary walks through the list once per metric, and then takes its length.
ReadCpu ==
  Read("cpu", Values(current, "cpu", Len(samples[current])), pc' = "memory" /\ UNCHANGED current)

ReadMemory ==
  Read("memory", Values(current, "memory", Len(samples[current])), pc' = "count" /\ UNCHANGED current)

ReadCount == Read("count", Len(samples[current]), NextCell)

--------------------------------------------------------------------------------
(* The thread of a cell; a daemon, it ends with the process *)

Goto(c, from, to) ==
  /\ pc # "done"
  /\ thread[c] = from
  /\ thread' = [thread EXCEPT ![c] = to]

\* Mutant: the loop does not look at the stop event.
CheckNothing(c) == Goto(c, "check", "checked") /\ UNCHANGED <<runner, samples, history>>

CheckStopEvent(c) ==
  /\ Goto(c, "check", IF c \in stopped THEN "ended" ELSE "checked")
  /\ UNCHANGED <<runner, samples, history>>

\* sample_once starts its child process some time after the check.
BeginSample(c) ==
  /\ Goto(c, "checked", "sampling")
  /\ late' = IF c \in stopped THEN [late EXCEPT ![c] = @ + 1] ELSE late
  /\ UNCHANGED <<runner, samples, atStop, joined>>

\* Mutant: all samplers append to one list, that of the cell being measured.
SampleIntoSharedList(c) ==
  /\ Goto(c, "sampling", "wait")
  /\ Len(samples[current]) < MaxSamples
  /\ \E has \in Shapes : samples' = [samples EXCEPT ![current] = Append(@, has)]
  /\ UNCHANGED <<runner, history>>

\* Mutant: what sample_once returns is appended even if it is None.
NoneTaken(c) ==
  /\ Goto(c, "sampling", "wait")
  /\ Len(samples[c]) < MaxSamples
  /\ samples' = [samples EXCEPT ![c] = Append(@, {"none"})]
  /\ UNCHANGED <<runner, history>>

\* The child has printed something that could be parsed at least as JSON (docker
\* stats) or as numbers (ps, which has both or none).
SampleTaken(c) ==
  /\ Goto(c, "sampling", "wait")
  /\ Len(samples[c]) < MaxSamples
  /\ \E has \in Shapes : samples' = [samples EXCEPT ![c] = Append(@, has)]
  /\ UNCHANGED <<runner, history>>

\* No such container or process, or output that makes no sense.
NoSample(c) ==
  /\ Goto(c, "sampling", "wait")
  /\ UNCHANGED <<runner, samples, history>>

\* docker or ps cannot be started: the exception ends the thread.
SampleRaises(c) ==
  /\ Goto(c, "sampling", "ended")
  /\ UNCHANGED <<runner, samples, history>>

\* Mutant: after the interval the thread samples again at once.
WakeToSample(c) == Goto(c, "wait", "checked") /\ UNCHANGED <<runner, samples, history>>

\* stop_event.wait ends with the event or after a second.
Wake(c) == Goto(c, "wait", "check") /\ UNCHANGED <<runner, samples, history>>

--------------------------------------------------------------------------------

RunnerStep ==
  \/ StartCell
  \/ LoadEnds
  \/ SetStopEvent
  \/ JoinReturns
  \/ JoinTimesOut
  \/ ReadCpu
  \/ ReadMemory
  \/ ReadCount

ThreadStep(c) ==
  \/ CheckStopEvent(c)
  \/ BeginSample(c)
  \/ SampleTaken(c)
  \/ NoSample(c)
  \/ SampleRaises(c)
  \/ Wake(c)

Finished == pc = "done" /\ UNCHANGED vars

Next == RunnerStep \/ (\E c \in CellIds : ThreadStep(c)) \/ Finished

\* A load ends (LoadGen!Terminates) and a join has a limit.  Nothing is assumed of
\* the threads: docker stats may hang for ever.
Spec == Init /\ [][Next]_vars /\ WF_vars(RunnerStep)

--------------------------------------------------------------------------------
(* Properties *)

TypeOK ==
  /\ pc \in {"start", "load", "stop", "join", "cpu", "memory", "count", "done"}
  /\ current \in CellIds /\ ok \in BOOLEAN
  /\ stopped \subseteq CellIds /\ joined \subseteq CellIds
  /\ thread \in [CellIds -> {"none", "check", "checked", "sampling", "wait", "ended"}]
  /\ samples \in [CellIds -> Seq(SUBSET Metrics)]
  /\ summary \in [CellIds -> Seq(Nat)]
  /\ atStop \in [CellIds -> Nat] /\ late \in [CellIds -> Nat]

\* Once stop has set the event, the thread begins at most one more sample and
\* appends at most one, which may tell of the time after the load (the check of
\* the event and the sample are not atomic, and docker stats takes its time).
OneLateSample ==
  \A c \in CellIds :
    /\ late[c] <= 1
    /\ c \in stopped => Len(samples[c]) <= atStop[c] + 1

\* summary walks through the list three times while the thread may append: it
\* reads the cpu values of a prefix, the memory values of one as long or longer and
\* the length of one as long or longer, none of them shorter than at the stop; and
\* all three are the whole list, for good, if join did not give up.
SummaryExplained ==
  \A c \in CellIds :
    summary[c] # <<>> =>
      \E cpu, memory, count \in atStop[c] .. Len(samples[c]) :
        /\ cpu <= memory /\ memory <= count
        /\ c \in joined => cpu = Len(samples[c])
        /\ summary[c][1] = Values(c, "cpu", cpu)
        /\ Len(summary[c]) >= 2 => summary[c][2] = Values(c, "memory", memory)
        /\ Len(summary[c]) = 3 => summary[c][3] = count

\* Whatever the samplers do, the runner gets to the end of its cells: a docker
\* stats that hangs costs each of them 2 seconds.
RunGoesOn == <>(pc = "done")

===============================================================================
