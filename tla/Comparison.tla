------------------------------- MODULE Comparison -------------------------------
(***************************************************************************)
(* From the plan of a run to its ranking: the lanes of one request         *)
(* (module Plan) measure or fail, normalize lists their rows, and then     *)
(* "benchctl compare" and "benchctl report", which group and aggregate the *)
(* rows each for itself, rank the platforms.                               *)
(*                                                                         *)
(* Abstracted: a mean is a small number, an average of repeats the pair of *)
(* a sum and a count, so that arithmetic is exact where the program rounds; *)
(* the operation of a benchmark belongs to its id.  Medians, latencies,    *)
(* resources and all layout are left out.                                  *)
(***************************************************************************)
EXTENDS Plan, FiniteSets

CONSTANTS
  Requests,    (* the requests from which one is chosen                    *)
  ApiMeans,    (* throughputs: positive, as a load without requests fails  *)
  MicroMeans,  (* times; 0 is what normalize takes for a missing score     *)
  MaxCount     (* bound: lines that go test prints of one benchmark        *)

ASSUME ComparisonAssumption ==
  /\ Requests \subseteq RunRequests
  /\ ApiMeans \subseteq Nat \ {0}
  /\ MicroMeans \subseteq Nat
  /\ MaxCount \in Nat \ {0}

VARIABLES
  request,
  phase,     (* start, lanes, normalize, rank, raised                      *)
  planned,   (* the lanes still to run                                     *)
  measured,  (* what the lanes left behind: [lane, rows], in their order   *)
  rows,      (* the results of the normalized file                         *)
  printed,   (* what compare prints, per group, a line per platform         *)
  shown,     (* what report shows, per group                               *)
  exit       (* the exit codes of those that were run: compare without and *)
             (* with --allow-missing, and report                           *)

cvars == <<request, phase, planned, measured, rows, printed, shown, exit>>

CInit ==
  /\ request \in Requests
  /\ phase = "start"
  /\ planned = <<>> /\ measured = <<>> /\ rows = <<>>
  /\ printed = <<>> /\ shown = <<>> /\ exit = <<>>

--------------------------------------------------------------------------------
(* Lanes and rows *)

PlanRun ==
  /\ phase = "start"
  /\ phase' = IF NothingSelected(request) THEN "raised" ELSE "lanes"
  /\ planned' = IF NothingSelected(request) THEN <<>> ELSE PlannedLanes(request)
  /\ UNCHANGED <<request, measured, rows, printed, shown, exit>>

Row(lane, size, unit, mean) ==
  [benchmark |-> lane.benchmark.id, category |-> lane.benchmark.category,
   platform |-> lane.platform, size |-> size, unit |-> unit, mean |-> mean]

\* An api lane has a row for each repeat of each cell, or an error instead.
ApiRows(lane) ==
  LET cells == Cells(request, lane.benchmark)
      repeated == FlattenSeq([i \in DOMAIN cells |-> [r \in 1 .. request.repeat |-> cells[i]]])
  IN {[i \in DOMAIN repeated |-> Row(lane, repeated[i], "requests/s", mean[i])] :
        mean \in [DOMAIN repeated -> ApiMeans]} \cup {<<>>}

\* go test prints each size several times (-count); it may end early.
GoRows(lane) ==
  LET sizes == lane.benchmark.cells
      lines(n) == FlattenSeq([i \in DOMAIN sizes |-> [c \in 1 .. n |-> sizes[i]]])
      all == lines(MaxCount)
  IN UNION {{[i \in 1 .. n |-> Row(lane, all[i], "ns/op", mean[i])] : mean \in [1 .. n -> MicroMeans]} :
              n \in 0 .. Len(all)}

\* A JMH report says its unit itself, BenchmarkDotNet counts in ns.
ReportRows(lane, units) ==
  LET sizes == lane.benchmark.cells IN
  {[i \in DOMAIN sizes |-> Row(lane, sizes[i], unit, mean[i])] :
     unit \in units, mean \in [DOMAIN sizes -> MicroMeans]} \cup {<<>>}

LaneRows(lane) ==
  IF Api(lane.benchmark) THEN ApiRows(lane)
  ELSE CASE lane.platform = "go" -> GoRows(lane)
         [] lane.platform = "java" -> ReportRows(lane, {"ns/op", "unknown"})
         [] lane.platform = "dotnet" -> ReportRows(lane, {"ns"})

MeasureLane ==
  /\ phase = "lanes" /\ planned # <<>>
  /\ IF LaneRaises(request, Head(planned))
     THEN phase' = "raised" /\ UNCHANGED measured
     ELSE /\ \E r \in LaneRows(Head(planned)) :
               measured' = Append(measured, [lane |-> Head(planned), rows |-> r])
          /\ phase' = IF Len(planned) = 1 THEN "normalize" ELSE phase
  /\ planned' = Tail(planned)
  /\ UNCHANGED <<request, rows, printed, shown, exit>>

NoLanes ==
  /\ phase = "lanes" /\ planned = <<>>
  /\ phase' = "normalize"
  /\ UNCHANGED <<request, planned, measured, rows, printed, shown, exit>>

NormalizeRun ==
  /\ phase = "normalize"
  /\ rows' = FlattenSeq([i \in DOMAIN measured |-> measured[i].rows])
  /\ phase' = "rank"
  /\ UNCHANGED <<request, planned, measured, printed, shown, exit>>

--------------------------------------------------------------------------------
(* Groups, as both commands form them *)

IsComparable(row) == row.unit \in {"ns", "ns/op", "requests/s"}
IsHigherBetter(unit) == unit = "requests/s"

Key(row) == <<row.benchmark, row.size>>

Keys == {Key(rows[i]) : i \in {j \in DOMAIN rows : IsComparable(rows[j])}}

\* The rows of a group, in their order, its platforms, and the rows of a platform.
RowsIn(key) == Filter(rows, {row \in ToSet(rows) : IsComparable(row) /\ Key(row) = key})
PlatformsIn(key) == {row.platform : row \in ToSet(RowsIn(key))}
RepeatsOf(key, p) == Filter(RowsIn(key), {row \in ToSet(rows) : row.platform = p})

\* aggregate_repeat_rows: fractions are pairs of a numerator and a denominator.
Total(repeats) ==
  LET total[n \in 0 .. Len(repeats)] == IF n = 0 THEN 0 ELSE total[n - 1] + repeats[n].mean
  IN total[Len(repeats)]

Mean(key, p) == <<Total(RepeatsOf(key, p)), Len(RepeatsOf(key, p))>>

Less(x, y) == x[1] * y[2] < y[1] * x[2]
Equal(x, y) == x[1] * y[2] = y[1] * x[2]
Divide(x, y) == <<x[1] * y[2], x[2] * y[1]>>
Zero == <<0, 1>>

\* The unit of the group is that of its first platform.
UnitOf(key) == RowsIn(key)[1].unit
Better(unit, x, y) == IF IsHigherBetter(unit) THEN Less(y, x) ELSE Less(x, y)

Best(key) ==
  LET means == {Mean(key, p) : p \in PlatformsIn(key)}
      unit == UnitOf(key)
  IN CHOOSE m \in means : \A n \in means : ~Better(unit, n, m)

--------------------------------------------------------------------------------
(* benchctl compare *)

PlatformOrder == <<"dotnet", "dotnet-pgo", "dotnet-tuned", "dotnet-tfb", "java", "java-virtual",
                   "java-spring", "java-vertx", "go">>

\* The platforms that have a place in the order, and then the others.
ComparisonPlatforms(platforms) ==
  (ToSet(PlatformOrder) \cap platforms) \cup (platforms \ ToSet(PlatformOrder))

Line(mean, best, n) ==
  [ratio |-> IF Equal(best, Zero) THEN Zero ELSE Divide(mean, best), repeats |-> n, best |-> Equal(mean, best)]

Lines(key) ==
  LET best == Best(key) IN
  [p \in ComparisonPlatforms(PlatformsIn(key)) |-> Line(Mean(key, p), best, Len(RepeatsOf(key, p)))]

Skipped(key, requireAll) == requireAll /\ PlatformsIn(key) # ComparisonPlatforms(PlatformsIn(key))

Ran(command) == command \in DOMAIN exit
Return(command, code) == exit' = exit @@ (command :> code)

Compare(command) ==
  /\ phase = "rank" /\ ~Ran("strict") /\ ~Ran("allow-missing")
  /\ printed' = [key \in {k \in Keys : ~Skipped(k, command = "strict")} |-> Lines(key)]
  /\ Return(command, IF Keys = {} THEN 1 ELSE 0)
  /\ UNCHANGED <<request, phase, planned, measured, rows, shown>>

--------------------------------------------------------------------------------
(* benchctl report *)

\* Mutant: the score is the mean over the best, whatever the unit.
ScoreWithoutUnit(unit, mean, best) ==
  IF Equal(best, Zero) \/ Equal(mean, Zero) THEN Zero ELSE Divide(mean, best)

RelativeScore(unit, mean, best) ==
  IF Equal(best, Zero) \/ Equal(mean, Zero) THEN Zero
  ELSE IF IsHigherBetter(unit) THEN Divide(mean, best)
  ELSE Divide(best, mean)

\* A dictionary has the platforms in the order of their first rows; the last one that
\* has the best mean wins.
FirstRow(key, p) ==
  CHOOSE i \in DOMAIN RowsIn(key) :
    /\ RowsIn(key)[i].platform = p
    /\ \A j \in DOMAIN RowsIn(key) : RowsIn(key)[j].platform = p => i <= j

Winner(key) ==
  LET best == Best(key)
      winners == {p \in PlatformsIn(key) : Equal(Mean(key, p), best)}
  IN CHOOSE p \in winners : \A q \in winners : FirstRow(key, q) <= FirstRow(key, p)

Scored(key) ==
  LET best == Best(key)
      unit == UnitOf(key)
  IN [winner |-> Winner(key), category |-> RowsIn(key)[1].category,
      score |-> [p \in PlatformsIn(key) |-> RelativeScore(unit, Mean(key, p), best)]]

\* Without a row there is no report; without a comparable row it has no group.
Report ==
  /\ phase = "rank" /\ ~Ran("report")
  /\ shown' = [key \in Keys |-> Scored(key)]
  /\ Return("report", IF rows = <<>> THEN 1 ELSE 0)
  /\ UNCHANGED <<request, phase, planned, measured, rows, printed>>

\* Mutant: every platform that ties for the best mean wins the group.
WonWithTies(groups, p) ==
  {key \in groups : p \in DOMAIN shown[key].score /\ Equal(shown[key].score[p], <<1, 1>>)}

\* The overview of some groups (all, or those of a category): those a platform has won,
\* and the geometric mean of its scores.  A score of 0 is left out of it, and so is
\* a group in which the platform does not appear.  The mean is kept as the product of
\* the scores and their number.
Won(groups, p) == {key \in groups : shown[key].winner = p}

Times(x, y) == <<x[1] * y[1], x[2] * y[2]>>

Product(scores) ==
  LET product[n \in 0 .. Len(scores)] ==
        IF n = 0 THEN <<1, 1>> ELSE Times(product[n - 1], scores[n])
  IN product[Len(scores)]

Geomean(groups, p) ==
  LET of == SetToSeq({key \in groups : p \in DOMAIN shown[key].score /\ shown[key].score[p][1] # 0})
  IN <<Product([i \in DOMAIN of |-> shown[of[i]].score[p]]), Len(of)>>

OfCategory(category) == {key \in DOMAIN shown : shown[key].category = category}

Finished == (phase = "raised" \/ (Ran("report") /\ Cardinality(DOMAIN exit) = 2)) /\ UNCHANGED cvars

CNext ==
  \/ PlanRun
  \/ MeasureLane
  \/ NoLanes
  \/ NormalizeRun
  \/ \E command \in {"strict", "allow-missing"} : Compare(command)
  \/ Report
  \/ Finished

CSpec == CInit /\ [][CNext]_cvars

--------------------------------------------------------------------------------
(* Properties *)

\* Definitions of which run makes no lane twice: their ids are distinct, which run takes
\* on trust, and one that has a command for dotnet-tfb has one for dotnet-tuned, or
\* add_docker_only_platforms would add dotnet-tfb once more.
LanesDistinct(spec) ==
  /\ DistinctIds(spec)
  /\ \A i \in DOMAIN spec :
       Contains(spec[i].commands, "dotnet-tfb") => Contains(spec[i].commands, "dotnet-tuned")

\* Lanes that were measured have their place in the ranking, and no others: with
\* definitions that validate accepts and settings that make sense, no lane of a
\* run on the host raises; every lane is planned once; a group ranks exactly the
\* platforms whose lane has comparable rows of its benchmark and size, and for an
\* api each of them with as many repeats as were asked for.
LanesAccounted ==
  /\ ValidateSpecs(request.spec) /\ request.runner = "host" /\ phase = "raised" =>
       \/ NothingSelected(request)
       \/ \E i \in DOMAIN request.spec : ~SettingsMakeSense(request, request.spec[i])
  /\ LanesDistinct(request.spec) =>
       \A i, j \in DOMAIN measured :
         /\ measured[i].lane.benchmark.id = measured[j].lane.benchmark.id
         /\ measured[i].lane.platform = measured[j].lane.platform
         => i = j
  /\ LanesDistinct(request.spec) /\ phase = "rank" =>
       \A i \in DOMAIN measured :
         LET lane == measured[i].lane
             cells == Cells(request, lane.benchmark)
         IN \A c \in DOMAIN cells :
              LET key == <<lane.benchmark.id, cells[c]>>
                  mine == {j \in DOMAIN measured[i].rows : measured[i].rows[j].size = cells[c]
                                                          /\ IsComparable(measured[i].rows[j])}
              IN /\ lane.platform \in PlatformsIn(key) <=> mine # {}
                 /\ mine # {} /\ Api(lane.benchmark) =>
                      Len(RepeatsOf(key, lane.platform)) = request.repeat * Len(Filter(cells, {cells[c]}))

\* compare and report, which rank with code of their own, agree: they rank the same
\* platforms, and report's winner is among those that compare marks best.  If the
\* best mean is 0, both give everybody 0.  If it is not, a platform has ratio 1 and
\* score 1 exactly if it is marked, no score exceeds 1, and ratio and score are the
\* same number for throughputs and inverse to each other for times.
RanksAgree ==
  \A key \in DOMAIN printed \cap DOMAIN shown :
    LET best == Best(key) IN
    /\ DOMAIN shown[key].score = DOMAIN printed[key]
    /\ \E p \in DOMAIN printed[key] : p = shown[key].winner /\ printed[key][p].best
    /\ \A p \in DOMAIN printed[key] :
         LET line == printed[key][p]
             score == shown[key].score[p]
         IN IF Equal(best, Zero) THEN Equal(line.ratio, Zero) /\ Equal(score, Zero)
            ELSE /\ line.best <=> Equal(line.ratio, <<1, 1>>)
                 /\ line.best <=> Equal(score, <<1, 1>>)
                 /\ ~Less(<<1, 1>>, score)
                 /\ IF IsHigherBetter(UnitOf(key)) THEN Equal(score, line.ratio)
                    ELSE Equal(Divide(<<1, 1>>, line.ratio), score)

\* For product and count pairs: is the geometric mean g below h?
Power(x, n) ==
  LET power[i \in 0 .. n] == IF i = 0 THEN 1 ELSE x * power[i - 1] IN power[n]
GeomeanLess(g, h) ==
  Less(<<Power(g[1][1], h[2]), Power(g[1][2], h[2])>>, <<Power(h[1][1], g[2]), Power(h[1][2], g[2])>>)

\* The leaders of the report and of each category deserve it.  Every group has one
\* winner; with definitions whose ids are distinct, a platform that is nowhere better
\* than another that is in the same groups has no higher geometric mean; and one whose
\* geometric mean is 1 is the best, or ties with it, in all its groups with a best mean
\* other than 0.
LeadersDeserved ==
  \A groups \in {DOMAIN shown} \cup {OfCategory(shown[key].category) : key \in DOMAIN shown} :
    LET platforms == UNION {DOMAIN shown[key].score : key \in groups}
        rankedIn(p) == {key \in groups : p \in DOMAIN shown[key].score}
    IN /\ \A key \in groups : \E p \in platforms : \A q \in platforms : key \in Won(groups, q) <=> q = p
       /\ DistinctIds(request.spec) =>
            \A p, q \in platforms :
              /\ rankedIn(p) = rankedIn(q)
              /\ \A key \in rankedIn(p) : ~Better(UnitOf(key), Mean(key, p), Mean(key, q))
              => ~GeomeanLess(Geomean(groups, q), Geomean(groups, p))
       /\ DistinctIds(request.spec) =>
            \A p \in platforms :
              LET g == Geomean(groups, p) IN
              g[2] > 0 /\ Equal(g[1], <<1, 1>>) =>
                \A key \in rankedIn(p) : Equal(Best(key), Zero) \/ Equal(Mean(key, p), Best(key))

\* compare without --allow-missing ranks no group in which a platform that the run
\* measured for this benchmark has no row.  The code counts "skipped {missing}
\* incomplete comparison groups" (benchctl.py:2382).
StrictSkipsIncomplete ==
  Ran("strict") =>
    \A key \in DOMAIN printed, i \in DOMAIN measured :
      measured[i].lane.benchmark.id = key[1] =>
        measured[i].lane.platform \in DOMAIN printed[key]

================================================================================
