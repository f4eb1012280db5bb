---------------------------------- MODULE Plan ----------------------------------
(***************************************************************************)
(* What benchctl takes from specs/benchmarks.json: which definitions       *)
(* "benchctl validate" accepts, which lanes "benchctl run" makes of them,  *)
(* which cells an api lane has, and which lanes raise before they start.   *)
(*                                                                         *)
(* A benchmark is [id, kind, profile, category, commands, cells]: kind is  *)
(* web, grpc or micro, commands the sequence of the platforms that have a  *)
(* (server) command, cells the levels of concurrency of an api or the      *)
(* sizes that a micro-benchmark has built in.  A request is what the       *)
(* command line and the environment of a run ask for: [spec, benchmark,    *)
(* profile, platform, runner, repeat, concurrency].                        *)
(***************************************************************************)
EXTENDS Integers, Filtering, SequencesExt

NotGiven == "notGiven"
Platforms == <<"dotnet", "java", "go">>

Api(b) == b.kind \in {"web", "grpc"}

\* The commands are the keys of a JSON object: no platform has two.
Benchmarks ==
  {b \in [id : STRING, kind : {"web", "grpc", "micro"}, profile : STRING, category : STRING,
          commands : Seq(STRING), cells : Seq(Int)] : IsInjective(b.commands)}

\* main accepts no --repeat below 1.
RunRequests ==
  [spec : Seq(Benchmarks), benchmark : STRING, profile : STRING, platform : STRING,
   runner : {"host", "docker"}, repeat : Nat \ {0}, concurrency : Seq(Int)]

DistinctIds(spec) == \A i, j \in DOMAIN spec : spec[i].id = spec[j].id => i = j

\* The identity of definitions, and a command for each of the main platforms.
ValidateSpecs(spec) ==
  /\ DistinctIds(spec)
  /\ \A i \in DOMAIN spec : ToSet(Platforms) \subseteq ToSet(spec[i].commands)

\* benchctl run does not validate.  It raises if its filters leave no benchmark.
SelectedBenchmarks(request) ==
  Filter(request.spec, {b \in ToSet(request.spec) : /\ request.benchmark \in {NotGiven, b.id}
                                                    /\ request.profile \in {NotGiven, b.profile}})

NothingSelected(request) ==
  /\ <<request.benchmark, request.profile>> # <<NotGiven, NotGiven>>
  /\ SelectedBenchmarks(request) = <<>>

InsertAfter(s, p, more) ==
  LET i == SelectInSeq(s, LAMBDA x : x = p) IN
  SubSeq(s, 1, i) \o more \o SubSeq(s, i + 1, Len(s))

\* Mutant: the platforms for Docker only are added to a benchmark that has them.
AlwaysAddDockerOnly(platforms, withTfb) ==
  IF Contains(platforms, "dotnet") THEN InsertAfter(platforms, "dotnet", <<"dotnet-tuned">>) ELSE platforms

\* A benchmark with a command of its own for dotnet-tuned keeps its platforms.
AddDockerOnlyPlatforms(platforms, withTfb) ==
  LET has(p) == Contains(platforms, p)
      after == IF has("dotnet-pgo") THEN "dotnet-pgo" ELSE "dotnet"
      tuned == <<"dotnet-tuned">> \o (IF withTfb THEN <<"dotnet-tfb">> ELSE <<>>)
      result == InsertAfter(platforms, after, tuned)
  IN IF has("dotnet-tuned") \/ ~has("dotnet") THEN platforms
     ELSE IF withTfb /\ has("java") /\ ~has("java-spring")
     THEN InsertAfter(result, "java", <<"java-spring">>)
     ELSE result

\* A filter that no platform of the benchmark fits selects none, without an error.
SelectedPlatforms(request, b) ==
  LET available ==
        CASE ~Api(b) -> Platforms
          [] Api(b) /\ request.runner = "docker" -> AddDockerOnlyPlatforms(b.commands, b.kind = "web")
          [] OTHER -> b.commands
  IN IF request.platform = NotGiven THEN available
     ELSE IF Contains(available, request.platform) THEN <<request.platform>> ELSE <<>>

PlannedLanes(request) ==
  LET benchmarks == SelectedBenchmarks(request)
      lanes(b) == [i \in DOMAIN SelectedPlatforms(request, b) |->
                     [benchmark |-> b, platform |-> SelectedPlatforms(request, b)[i]]]
  IN FlattenSeq([i \in DOMAIN benchmarks |-> lanes(benchmarks[i])])

\* PERFBENCH_CONCURRENCY replaces the concurrency of the spec.
Cells(request, b) == IF Api(b) /\ request.concurrency # <<>> THEN request.concurrency ELSE b.cells

\* An api lane raises before its try block when its settings make no sense, or when
\* there is no container to run its platform in; a micro lane when its platform has
\* no command in the spec.
GrpcImages == {"dotnet", "dotnet-pgo", "dotnet-tuned", "java", "go"}

SettingsMakeSense(request, b) ==
  LET cells == Cells(request, b) IN cells # <<>> /\ \A i \in DOMAIN cells : cells[i] >= 1

LaneRaises(request, lane) ==
  LET b == lane.benchmark IN
  \/ Api(b) /\ ~SettingsMakeSense(request, b)
  \/ b.kind = "grpc" /\ request.runner = "docker" /\ lane.platform \notin GrpcImages
  \/ ~Api(b) /\ ~Contains(b.commands, lane.platform)

===============================================================================
