-------------------------------- MODULE RunStore --------------------------------
(***************************************************************************)
(* The results on disk: what run_benchmarks and normalize_run in           *)
(* tools/benchctl/benchctl.py leave under results/raw/<run id>/,           *)
(* results/normalized/ and website/data/latest.json.                       *)
(*                                                                         *)
(* One invocation of "benchctl run" measures some lanes, in the order of   *)
(* the spec, and then merges what it did into run-metadata.json when that  *)
(* file already carries its run id (make dotnet-tfb-validate relies on it: *)
(* it invokes benchctl once per benchmark with one run id).  An exception, *)
(* an interrupt or a crash may end it at any step.  Invocations do not     *)
(* overlap: the Makefile runs one after the other.                         *)
(*                                                                         *)
(* Abstracted: a file is who wrote it and whether rows can be read from    *)
(* it; all rows of a file are one row, so two equal rows in a normalized   *)
(* file are the rows of a lane listed twice.                               *)
(***************************************************************************)
EXTENDS Filtering, SequencesExt, FiniteSetsExt

CONSTANTS
  RunIds,         (* run ids; the caller may use one again                 *)
  Lanes,          (* a sequence: the lanes in the order of the spec        *)
  MaxInvocations  (* bound: invocations of benchctl run                    *)

ASSUME StoreAssumption == Lanes \in Seq(STRING) /\ MaxInvocations \in Nat

LaneNames == ToSet(Lanes)
Invocations == 1 .. MaxInvocations

\* Which parser reads the output of a lane.  The runner writes the file of an api
\* lane and the stdout of a go lane anew each time; JMH and BenchmarkDotNet write
\* their reports themselves, under a name that depends on the run id only.
Kinds == {"api", "go", "jmh", "bdn"}

NoFile == [by |-> 0, state |-> "absent"]
Written(i, s) == [by |-> i, state |-> s]

VARIABLES
  kind,        (* of each lane                                             *)
  invocation,  (* the number of the last invocation                        *)
  pc,          (* idle, lanes, save: the runner; latest: normalize         *)
  id,          (* its run id                                               *)
  todo,        (* lanes it has still to run                                *)
  commands,    (* metadata["commands"] in memory                           *)
  failed,      (* failed_commands in memory                                *)
  file,        (* per run id and lane: the raw output                      *)
  metadata,    (* per run id: run-metadata.json                            *)
  normalized,  (* per run id: the rows of normalized/<id>.json             *)
  latest,      (* website/data/latest.json                                 *)
  ledger,      (* per run id: the lanes of the invocations that completed  *)
  completed,   (* per run id: those invocations                            *)
  times        (* per run id and lane: how often the lane was started      *)

runner == <<invocation, pc, id, todo, commands, failed>>
output == <<normalized, latest>>
history == <<ledger, completed, times>>
vars == <<kind, runner, file, metadata, output, history>>

\* run-metadata.json, when it is absent, cut short by a crash, or intact: whose
\* startedAt it has, and whose labels (smoke, repeat, webRunner, environment).
Absent == [state |-> "absent", commands |-> <<>>, failures |-> <<>>, startedBy |-> 0, labelledBy |-> 0]
Torn == [Absent EXCEPT !.state = "torn"]
Intact(c, f, i) ==
  [state |-> "intact", commands |-> c, failures |-> f, startedBy |-> i, labelledBy |-> invocation]

Init ==
  /\ kind \in [LaneNames -> Kinds]
  /\ invocation = 0 /\ pc = "idle" /\ id \in RunIds
  /\ todo = <<>> /\ commands = <<>> /\ failed = <<>>
  /\ file = [r \in RunIds |-> [l \in LaneNames |-> NoFile]]
  /\ metadata = [r \in RunIds |-> Absent]
  /\ normalized = [r \in RunIds |-> <<>>]
  /\ latest = <<>>
  /\ ledger = [r \in RunIds |-> <<>>]
  /\ completed = [r \in RunIds |-> {}]
  /\ times = [r \in RunIds |-> [l \in LaneNames |-> 0]]

--------------------------------------------------------------------------------
(* benchctl run *)

\* --platform, --benchmark and --profile select lanes (a platform that no benchmark
\* has selects none: the run completes without a lane, see module Plan); --run-id may
\* name a run that exists, and make_run_id gives two runs of the same second one id.
StartInvocation ==
  /\ pc = "idle"
  /\ invocation < MaxInvocations
  /\ invocation' = invocation + 1
  /\ pc' = "lanes"
  /\ id' \in RunIds
  /\ \E selected \in SUBSET LaneNames : todo' = Filter(Lanes, selected)
  /\ commands' = <<>> /\ failed' = <<>>
  /\ UNCHANGED <<kind, file, metadata, output, history>>

\* What one run of a lane leaves in its file, with the exit code it returns.  An
\* api lane keeps what Lane promises.  A go lane streams its stdout.  The child of
\* the others may have written its report, half of it or nothing, whatever its
\* exit code is.
LaneOutcomes(l) ==
  LET mine(s) == Written(invocation, s) IN
  CASE kind[l] = "api" -> {<<mine("rows"), 0>>, <<mine("error"), 1>>}
    [] kind[l] = "go" -> {<<mine("rows"), 0>>, <<mine("rows"), 1>>, <<mine("empty"), 1>>}
    [] OTHER -> {file[id][l], mine("rows"), mine("torn")} \X {0, 1}

RunLane ==
  /\ pc = "lanes" /\ todo # <<>>
  /\ LET l == Head(todo) IN
       /\ \E outcome \in LaneOutcomes(l) :
            LET command == [lane |-> l, exitCode |-> outcome[2]] IN
            /\ file' = [file EXCEPT ![id][l] = outcome[1]]
            /\ commands' = Append(commands, command)
            /\ failed' = IF outcome[2] # 0 THEN Append(failed, command) ELSE failed
       /\ times' = [times EXCEPT ![id][l] = @ + 1]
  /\ todo' = Tail(todo)
  /\ UNCHANGED <<kind, invocation, pc, id, metadata, output, ledger, completed>>

AllLanesRun ==
  /\ pc = "lanes" /\ todo = <<>>
  /\ pc' = "save"
  /\ UNCHANGED <<kind, invocation, id, todo, commands, failed, file, metadata, output, history>>

\* Mutant: the merge forgets the failures of earlier invocations.
MergedWithoutFailures ==
  LET old == metadata[id] IN
  Intact(old.commands \o commands, failed,
         IF old.state = "intact" THEN old.startedBy ELSE invocation)

\* The merge: the commands and failures of this run id so far come first, and
\* the start is that of the first invocation; everything else is that of this one.
Merged ==
  LET old == metadata[id] IN
  Intact(old.commands \o commands, old.failures \o failed,
         IF old.state = "intact" THEN old.startedBy ELSE invocation)

\* Mutant: metadata that cannot be read is taken for none.
SaveOverTorn ==
  /\ pc = "save"
  /\ metadata' = [metadata EXCEPT ![id] = Merged]
  /\ ledger' = [ledger EXCEPT ![id] = @ \o commands]
  /\ completed' = [completed EXCEPT ![id] = @ \cup {invocation}]
  /\ pc' = "idle"
  /\ UNCHANGED <<kind, invocation, id, todo, commands, failed, file, output, times>>

\* load_json has no answer to a file that was cut short: see Abort.
SaveMetadata ==
  /\ pc = "save"
  /\ metadata[id].state # "torn"
  /\ metadata' = [metadata EXCEPT ![id] = Merged]
  /\ ledger' = [ledger EXCEPT ![id] = @ \o commands]
  /\ completed' = [completed EXCEPT ![id] = @ \cup {invocation}]
  /\ pc' = "idle"
  /\ UNCHANGED <<kind, invocation, id, todo, commands, failed, file, output, times>>

\* An exception of a lane, of load_json, an interrupt or a crash: nothing that
\* was only in memory is saved.  The lane it hits has been started, and what is in
\* its file is what a run of the lane could have left, nothing new, or JSON that
\* was cut short (the lines that a go lane has printed can be read in any case).
Abort ==
  /\ pc \in {"lanes", "save"}
  /\ pc' = "idle"
  /\ \/ UNCHANGED <<file, times>>
     \/ /\ todo # <<>>
        /\ times' = [times EXCEPT ![id][Head(todo)] = @ + 1]
        /\ \E f \in {o[1] : o \in LaneOutcomes(Head(todo))}
                    \cup {file[id][Head(todo)], Written(invocation, "torn")} :
             /\ f.state = "torn" => kind[Head(todo)] # "go"
             /\ file' = [file EXCEPT ![id][Head(todo)] = f]
  /\ UNCHANGED <<kind, invocation, id, todo, commands, failed, metadata, output, ledger, completed>>

\* write_text truncates the file before it writes it.
CrashInWrite ==
  /\ pc = "save"
  /\ metadata[id].state # "torn"
  /\ metadata' = [metadata EXCEPT ![id] = Torn]
  /\ pc' = "idle"
  /\ UNCHANGED <<kind, invocation, id, todo, commands, failed, file, output, history>>

--------------------------------------------------------------------------------
(* benchctl normalize *)

\* Mutant: the parser does not look whether the file exists.
RowsOfMissingFile(r, command) ==
  LET f == file[r][command.lane] IN
  IF f.state \in {"rows", "absent"} THEN <<[lane |-> command.lane, by |-> f.by]>> ELSE <<>>

\* Mutant: an error file is parsed like a result.
RowsOfErrorFile(r, command) ==
  LET f == file[r][command.lane] IN
  IF f.state \in {"rows", "error"} THEN <<[lane |-> command.lane, by |-> f.by]>> ELSE <<>>

\* The rows the parsers read from the output of a listed lane; the exit code that
\* the metadata lists is not consulted.
RowsOf(r, command) ==
  LET f == file[r][command.lane] IN
  IF f.state = "rows" THEN <<[lane |-> command.lane, by |-> f.by]>> ELSE <<>>

\* Without metadata normalize_run returns 1; torn metadata, a torn result of an api
\* lane or a torn BenchmarkDotNet report make it raise before it writes anything.
Normalizable(r) ==
  /\ metadata[r].state = "intact"
  /\ \A i \in DOMAIN metadata[r].commands :
       LET l == metadata[r].commands[i].lane IN
       kind[l] \in {"api", "bdn"} => file[r][l].state # "torn"

Normalize(r) ==
  /\ pc = "idle"
  /\ Normalizable(r)
  /\ normalized' = [normalized EXCEPT ![r] =
       FlattenSeq([i \in DOMAIN metadata[r].commands |-> RowsOf(r, metadata[r].commands[i])])]
  /\ id' = r
  /\ pc' = "latest"
  /\ UNCHANGED <<kind, invocation, todo, commands, failed, file, metadata, latest, history>>

\* The write fails or is cut: no row can be read from what it leaves.
TearNormalized(r) ==
  /\ pc = "idle"
  /\ Normalizable(r)
  /\ normalized' = [normalized EXCEPT ![r] = <<>>]
  /\ UNCHANGED <<kind, runner, file, metadata, latest, history>>

WriteLatest ==
  /\ pc = "latest"
  /\ latest' = <<id, normalized[id]>>
  /\ pc' = "idle"
  /\ UNCHANGED <<kind, invocation, id, todo, commands, failed, file, metadata, normalized, history>>

\* Before or in the write of latest.json.
NormalizeInterrupted ==
  /\ pc = "latest"
  /\ latest' \in {latest, <<>>}
  /\ pc' = "idle"
  /\ UNCHANGED <<kind, invocation, id, todo, commands, failed, file, metadata, normalized, history>>

Next ==
  \/ StartInvocation
  \/ RunLane
  \/ AllLanesRun
  \/ SaveMetadata
  \/ Abort
  \/ CrashInWrite
  \/ \E r \in RunIds : Normalize(r) \/ TearNormalized(r)
  \/ WriteLatest
  \/ NormalizeInterrupted

Spec == Init /\ [][Next]_vars

--------------------------------------------------------------------------------
(* Properties *)

Commands == [lane : LaneNames, exitCode : {0, 1}]
Failures == [lane : LaneNames, exitCode : {1}]
Metadata ==
  [state : {"absent", "torn", "intact"}, commands : Seq(Commands), failures : Seq(Commands),
   startedBy : 0 .. MaxInvocations, labelledBy : 0 .. MaxInvocations]
Rows == [lane : LaneNames, by : Invocations]
Files == [by : 0 .. MaxInvocations, state : {"absent", "rows", "empty", "error", "torn"}]

TypeOK ==
  /\ kind \in [LaneNames -> Kinds]
  /\ invocation \in 0 .. MaxInvocations
  /\ pc \in {"idle", "lanes", "save", "latest"} /\ id \in RunIds
  /\ todo \in Seq(LaneNames)
  /\ commands \in Seq(Commands) /\ failed \in Seq(Commands)
  /\ file \in [RunIds -> [LaneNames -> Files]]
  /\ metadata \in [RunIds -> Metadata]
  /\ normalized \in [RunIds -> Seq(Rows)]
  /\ latest \in {<<>>} \cup (RunIds \X Seq(Rows))
  /\ ledger \in [RunIds -> Seq(Commands)]
  /\ completed \in [RunIds -> SUBSET Invocations]
  /\ times \in [RunIds -> [LaneNames -> Nat]]

\* The metadata is a ledger of whole invocations: it lists exactly the lanes of
\* the invocations that completed under its run id, in their order and once for
\* each time, whatever was interrupted or crashed in between, and its failures
\* are the listed lanes that did not exit with 0 (the merge in run_benchmarks).  It
\* has the start of the first of these invocations and the labels of the last, so
\* that a lane may be listed under the mode and the runner of another invocation.
MetadataLedger ==
  \A r \in RunIds :
    /\ metadata[r].state = "absent" => completed[r] = {} /\ ledger[r] = <<>>
    /\ metadata[r].state = "intact" =>
         /\ metadata[r].commands = ledger[r]
         /\ metadata[r].failures = Filter(ledger[r], Failures)
         /\ metadata[r].startedBy = Min(completed[r]) /\ metadata[r].labelledBy = Max(completed[r])

\* Metadata cut short by a crash is never repaired: no later invocation of the
\* run id completes, so all its lanes are lost with those listed before.
TornForGood ==
  [][\A r \in RunIds : metadata[r].state = "torn" =>
       metadata'[r] = metadata[r] /\ ledger'[r] = ledger[r]]_vars

Listed(r, l, code) == \E i \in DOMAIN ledger[r] : ledger[r][i] = [lane |-> l, exitCode |-> code]
RowsFor(r, l) == Filter(normalized[r], [lane : {l}, by : Invocations])

\* A step that normalizes a lane that was started at most once under its run id, in
\* however many invocations, gives an api lane that exited with 0 its row, once, and
\* none to one that failed.  A lane of another kind has at most one row, and only if it
\* is listed: the report of a lane that was interrupted, of one that failed earlier or
\* of an invocation that never completed is not taken for its result.
FreshLanesExact ==
  [][\A r \in RunIds, l \in LaneNames :
       pc = "idle" /\ pc' = "latest" /\ id' = r /\ times[r][l] <= 1 =>
         /\ Len(RowsFor(r, l)') <= 1
         /\ \A i \in DOMAIN normalized'[r] :
              normalized'[r][i].lane = l =>
                /\ normalized'[r][i].by \in completed[r]
                /\ Listed(r, l, 0) \/ Listed(r, l, 1)
         /\ kind[l] = "api" => Len(RowsFor(r, l)') = IF Listed(r, l, 0) THEN 1 ELSE 0]_vars

\* Every repeat is a row of its own: no two rows of a normalized file are the same
\* measurement.  docs/runner.md says "Each repeat is stored as a separate
\* normalized row" and that compare prints "n=<repeat count>", but a lane that ran
\* twice under one run id is listed twice, and its file is read twice.
RepeatsDistinct == \A r \in RunIds : IsInjective(normalized[r])

===============================================================================
