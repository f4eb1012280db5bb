# Verification of the PerformanceBenchmark suite

The repository compares .NET, Java and Go: `benchctl.py` runs micro-benchmarks
and API servers, drives load against the servers with two generators written in
Go, stores raw results, normalizes them and compares platforms. What such a suite
must get right is less any one number than the bookkeeping around the numbers: a
request counted twice, a warmup that leaks into a measurement, a server of one lane
that is still running during the next, a result listed under the wrong run.
The modules here model that bookkeeping and the concurrency behind it.

Paths below are relative to `src/`.

## 1. The system

### Components

| Component | Source | State | Operations |
|---|---|---|---|
| HTTP load generator | `benchmarks/go/cmd/loadgen/main.go` | counters, latency slices, a lock, the context of a run | warmup run, measured run, report, exit status |
| gRPC load generator | `benchmarks/go/cmd/grpcload/main.go` | the same, and a map from error text to count with a lock of its own | dial, warmup run, measured run, report, exit status |
| Lanes of benchctl | `tools/benchctl/benchctl.py` 431-757, 928-1278 | server process or container, sampler, result file, table `order_writes` | start server, wait, run cells, write file, stop server |
| Resource sampler | `benchctl.py` 775-812, 943-994 | thread, stop event, list of samples | start, stop, summary, sample |
| Specs and plan | `benchctl.py` 48-117, 189-201, 331-359, 730-757, `specs/benchmarks.json` | none | validate, plan; which lanes a run has |
| Run store | `benchctl.py` 185-428, 1324-1598 | `results/raw/<run id>/`, `run-metadata.json`, `results/normalized/`, `website/data/latest.json` | run, merge metadata, normalize |
| Comparison and report | `benchctl.py` 1296-1321, 1689-2450 | none (files in, text out) | summarize, compare, report |
| Redis pools | `RedisConnectionPool.java`, `cmd/api/main.go` 331-416, `PerfApi/Program.cs` 552-700 | a queue of connections, a semaphore (.NET), streams | get, set |
| API servers | `ApiServer.java` (platform or virtual threads), `SpringApiServer.java`, `VertxApiServer.java`, `cmd/api/main.go`, `PerfApi/Program.cs` | thread pools, database pools, Redis pools, the cache | static, fanout, lookup, page, write, cache-aside |
| gRPC servers | `cmd/grpcapi/main.go`, `GrpcApiServer.java`, `Program.cs` 536-550 | none | quote |
| Make pipelines | `Makefile` | the run id, `.cache/last-run-id`, the status of a recipe | run, normalize, summarize, compare, report |
| Report publisher | `tools/publish_report_gist.py` | a gist at GitHub | resolve or generate the report, create the gist, print its preview |
| Others | micro-benchmark kernels, generated protobuf code, Dockerfiles, SQL schema, website | none that matters here | |

### How they interact

`make` invokes `benchctl run` once or, under one run id, several times, and then
`normalize`. `benchctl run` runs lanes (benchmark times platform) one after the
other. An API lane starts a server as a process group or a container, polls it, and
for every cell (concurrency value times repeat) starts a sampler thread, runs a load
generator as a child process, waits for it without a limit, and reads its exit
status and JSON. The generator's goroutines call the server, whose handlers compete
for threads and connections; the fanout handler calls its own server. `normalize`
reads the metadata and then the files it lists. `compare` and `report` read the
normalized file and rank the platforms, each with code of its own. Every target of the
Makefile after the run finds its files by a run id: the one given, one made from the
clock, or the one noted in `.cache/last-run-id`. The publisher takes the report of a
run id, or has `benchctl` write it.

### What is hard

* Concurrency: goroutines that share counters and slices; handlers that hold one
  resource and wait for another; a pool whose queue and semaphore change in two steps.
* Ordering: requests that end after the deadline, inserts that arrive after the
  table was truncated, replies matched to commands by their order alone.
* Failure: servers that die at any time, a `docker stop` whose status nobody looks at,
  interrupts in the middle of a cell, crashes between two files or in the middle of one, aborted requests, error replies.
* Timeouts: the generator's client gives up and goes on while the handler does not;
  a process group gets 5 seconds; reads from Redis have none at all.
* A thread that outlives its cell: stop waits 2 seconds for the sampler, `docker stats`
  takes as long as it likes, and the list it appends to is summarized meanwhile.
* History: a run id can be used again, and old files lie where new ones are expected.
* Holes: lanes fail, and what is ranked is what is left; measurements of 0 are best where
  lower is better.

### What makes each component correct

* Load generators: every request counted once, every success sampled once, no
  overlap between warmup and measurement, an exit status that tells the truth, and
  an end.
* Lanes: whatever happens, a cell leaves nothing behind, a lane leaves one file and
  no server that it could have stopped, and the run ends.
* Run store: the metadata lists whole invocations exactly; a normalized file has
  the rows of the lanes that succeeded.
* Sampler: a summary has the samples of its own cell, of which at most one is late, and no
  `docker stats` can hold up the run.
* Comparison: who was measured is ranked, the two rankings agree, the leader deserves it.
* Pipelines and publisher: what a target has delivered is what its exit status says, and
  what is shown is not older than the use of its run id explains.
* Redis pools: connections are conserved; a reply belongs to the command of the
  request that reads it.
* API servers: nothing leaks, nothing starves, every request is answered, and an
  answer says what has happened.

`PROJECT.json` lists the hazards at their lines, with the properties that cover
each of them.

## 2. The modules

| Module | Models | Abstract specification |
|---|---|---|
| `Measurement` | what a load generator promises to benchctl | |
| `LoadGen` | the HTTP load generator | implements `Measurement` |
| `GrpcLoad` | the gRPC load generator | implements `Measurement` |
| `Lane` | what `run_benchmarks` relies on in a lane | |
| `LaneRunner` | the four functions that run an API lane, with servers | implements `Lane` |
| `ResourceSampler` | the sampler's thread against stop, join and summary | |
| `Filtering` | selecting from a list, as a recursive function | |
| `RunStore` | run, metadata, raw and normalized files, `latest.json` | |
| `Plan` | `validate`, the choice of lanes and their cells, as operators | |
| `Comparison` | a run planned with `Plan`, its rows, `compare` and `report` | |
| `Pipeline` | targets of the Makefile and the report publisher | |
| `RedisPool` | the pools of Go, Java and .NET with their protocol readers | |
| `ApiServer` | the handlers of six servers, their threads and pools | |
| `*_proofs` | theorems about `LoadGen`, `GrpcLoad`, `LaneRunner`, `ResourceSampler`, `RedisPool`, `ApiServer`, `Pipeline` | |
| `Results_proofs` | theorems about what a run leaves behind: `RunStore` and, with `Plan`, `Comparison`, which share the lemmas on sequences | |
| `MC*` | constants for TLC | |

The modules are layers that rely on each other through promises and not through one
large state space: `LaneRunner` has one step per load because an exit status of 0
means what `Measurement` says; `RunStore` has one step per lane because `Lane` says
what its file and exit code can be; `Comparison` asks
`Plan` which lanes there are; `Pipeline` has one step per command, and versions where
`RunStore` has files; `ApiServer` treats a Redis pool as a set of
borrowers because `RedisPool` says that connections are conserved.

### LoadGen, GrpcLoad

`mainPc` is where `main` is; a goroutine of a run is at the head of its loop, in a
request, waiting for the lock, between the two halves of `append`, or done. An append
is two steps (`LockLatencies` reads the slice, `AppendLatencies` writes it), so a
missing lock would lose samples. The deadline is an action of its own that may
come at any time; a request that is in flight goes on, because the timeout of the
client (10 seconds) has nothing to do with the context of the run. The goroutines of
a run are spawned in one step: one spawned later behaves as one that waits at
the head of its loop. A latency is the identity of its request; order statistics
and byte counts are left out. `GrpcLoad` adds the dial and the two steps by
which a failure is counted (`CallFails`, then `LockErrors` and `AddError`); the sum of
the error map is the size of the set `Explained`, which has a member for each error
that the map counts.

### LaneRunner

`pc` follows the code of a lane from `prepare` (what runs before the `try`) through
`wait`, the cells and the `finally` clauses to `leave`. Kinds of lanes: the server runs
in a container, in a shell that became the server, or in a shell that forked it;
and the API is HTTP, HTTP with writes, or gRPC. The server starts, dies and shuts down
in steps of its own. A container belongs to the docker daemon: `docker stop` may fail, and as
its status is ignored the lane goes on (`unstopped`, a history variable); SIGTERM and SIGKILL
then reach the client alone, which passes the first on and leaves it at that. The write of the
results or of the error may raise. `Interrupted` is a `KeyboardInterrupt`, at most one, which no
`except Exception` catches; one that arrives inside a `finally` clause is left out.
`order_writes` is empty, has the rows of a cell, or has rows that arrived after a
truncate.

### ResourceSampler

The runner goes through `start`, `load`, `stop`, `join` and the three readings of `summary`
(`cpu`, `memory`, `count`, which walk through the list one after the other). The
thread of each cell is at its check, past it, in a `docker stats` or `ps`, or waiting.
`SetStopEvent` and `JoinTimesOut` belong to `stop`; a thread in a sample goes on after
both. `LaneRunner` shows that stop is called on every path; here it is what stop and
summary are worth. A sample is the set of metrics that could be parsed, a mean is the
number of its values. `atStop`, `late` and `joined` are history variables.

### RunStore

A raw file is who wrote it and whether it has rows, an error, nothing, or JSON cut
short. `RunLane` runs a lane and appends its command; `SaveMetadata` is the merge;
`Abort` (exception, interrupt or crash) may happen at any step and may leave a lane
half done; `CrashInWrite` is a crash between the truncate and the end of
`write_text`. `Normalize` reads what the metadata lists, whatever the exit codes say; its two
writes may be cut short as well (`TearNormalized`, `NormalizeInterrupted`), which leaves no rows
where there were some before.
`Filter` (module `Filtering`) keeps the elements of a sequence that are in a set: the lanes
selected, the commands that failed. `ledger`, `completed` and `times` are history variables: the commands and the numbers of
the invocations that completed, and how often each lane was started. The start of a
merged file is that of the first invocation, the labels (`smoke`, `repeat`, `webRunner`,
`environment`) are those of the last: `startedBy` and `labelledBy`.

### Plan, Comparison

`Plan` has no state: benchmarks and platforms selected by a request (spec, filters, runner,
repeat, concurrency), the platforms that exist in Docker only, and the lanes that raise
before they start. `RunRequests` is every request that the command line and a spec file can
make: any list of definitions, whether or not `validate` would accept them, of which only
this much is taken for granted that a JSON object has no key twice and `--repeat` is at least 1.

`Comparison` takes one request through `PlanRun`, `MeasureLane` for each lane (its rows in all
the means it may have measured, or none), `NormalizeRun`, `Compare` (with or without
`--allow-missing`) and `Report`, in either order. `phase` is how far it has come, `planned`
the lanes to run, `measured` what each has left behind. An api lane writes its rows itself,
whatever its platform; only those of a micro-benchmark have the form of a platform's tool
(`LaneRows`). Means are small numbers; averages of repeats, ratios and scores are fractions
and exact, while the program computes with floats; a geometric mean is the product of its
scores and their number, without the floor of 1e-12 that the program puts under a score.
What `compare` prints and `report` shows is the record behind a line, not its text: of the
platforms in a group a function, as their order on the page is layout. The order of the
rows stays where it decides, in the unit of a group and in the winner of a tie (`FirstRow`).

### Pipeline

A target of the Makefile is its form: `full`, `short` (no report), `repeated` (several runs
under one id), `strict` (stops at the first line that fails), the targets that take up a run,
and `publish-report-gist`. `ids` has the run id that each line of the recipe was expanded
with: make expands all lines first, and each `$(RUN_ID)` asks the clock anew. Everything
that is read or written is the number of the run it stems from (a version). `write_text`
empties a file before it fills it: a file that is cut short has version 0, and `torn` says that
it exists all the same, which is all that the publisher asks of a report. Each write may
raise, with the file as it was or torn, after which a recipe with `set +e` goes on (`raised`),
or take the whole target with it. `Interrupt` may come at any step between the writes. Each
call of `gh` succeeds or fails.

### RedisPool

One variable says which of the three pools it is. A connection has the commands that
Redis has not answered and the tokens that the client side has not read. A reply is
a token; what is left of one whose first byte was read is the token `junk`, which Java and .NET
read byte by byte and Go line by line. `upset`
is a history variable: the connections on which something was left unread (or, in
Java, cut short). Redis's replies and its closing of connections are external.

### ApiServer

A handler is a phase: waiting for a thread, for its calls (`join`), for a
database or Redis connection, at work with one, replying, or finishing. A server
with a bounded thread pool (`ApiServer.java`, Spring) keeps a thread in all of them and
for each downstream call; Vert.x only in blocking code; the others have no bound.
Clients wait for an answer or give up, while the handler goes on. The differences
between servers are kept where they matter: what a failure is answered with, which
connection is held while another is awaited, whether the answer is written
before the connection goes back. `spoiled` has the requests for which something failed that
they had called; Go's page handler alone can answer 200 after its query did
(`PageCutShort`: `rows.Err()` is not asked).

## 3. The runs

| Run | Configuration | Distinct states | Properties |
|---|---|---|---|
| `load_gen` | 2 goroutines per run, 2 requests each | 21,411 | `TypeOK`, `EveryAttemptCounted`, `SampleLedger`, `LoadIsolated`, `ImplementsMeasurement`, `Terminates` |
| `grpc_load` | 2 goroutines, 2 calls, 2 error texts | 147,285 | `TypeOK`, `ErrorsExplained`, `ImplementsMeasurement`, `Terminates` |
| `lane_runner` | 2 lanes of every kind, 2 cells | 216,117 | `TypeOK`, `CellsBracketed`, `ServerStopped`, `ImplementsLane`, `RunEnds` |
| `resource_sampler` | 2 cells, 2 samples each, with or without a CPU value | 350,710 | `TypeOK`, `OneLateSample`, `SummaryExplained`, `RunGoesOn` |
| `run_store` | 2 lanes of every kind, 2 run ids (symmetric), 2 invocations | 1,112,245 | `TypeOK`, `MetadataLedger`, `TornForGood`, `FreshLanesExact` |
| `comparison` | 12 requests, 2 throughputs, 3 times (one of them 0), 2 lines per size of `go test` | 92,719 | `LanesAccounted`, `RanksAgree`, `LeadersDeserved` |
| `pipeline` | 2 seconds and a name, 2 runs, 1 gist | 3,460,938 | `PipelineDelivers`, `WebsiteCurrent`, `PublishedCurrent` |
| `redis_pool` | 2 clients, 1 connection, 2 commands each, 3 pools | 335,134 | `TypeOK`, `PoolConserved`, `NeverExhausted`, `OwnReplies`, `InStep`, `CallsReturn` |
| `api_server` | 6 servers, 6 kinds of requests, 3 requests, 1 given up, 3 threads, 2 calls, pools of 1 | 205,673 | `TypeOK`, `NothingLeaks`, `Unstarved`, `AnswersHonest`, `AllAnswered` |
| `lane_runner_host` | as `lane_runner` | violation | `SuccessStopsServer` |
| `run_store_repeats` | as `run_store` | violation | `RepeatsDistinct` |
| `comparison_strict` | as `comparison` | violation | `StrictSkipsIncomplete` |

Every property of a passing run has a mutant in the module it speaks of: an operator,
marked "Mutant", with a plausible bug of that code, under which TLC finds the
property violated. The mutants are not part of the specifications.

### Bounds and why they are enough

* `MaxAttempts` (LoadGen, GrpcLoad): two requests per goroutine give one that ends
  before and one that ends after the deadline, and a slice with more than one sample.
  Two goroutines are enough for two appends, or two increments of one error
  text, to meet. The theorems of section 4 lift these bounds.
* `Lanes`, `Cells` (LaneRunner): two lanes for a server that outlives its lane, and
  late inserts that meet the next lane; two cells for a failure after a success.
* `MaxInvocations`, `RunIds` (RunStore): two invocations under one id for the merge, under
  two for what must not mix. Run ids are only compared for equality, so that they are
  a symmetry set. A torn file needs one and its victim another.
  `CHECK_DEADLOCK FALSE`: when the bound is reached the system stops.
* `Cells`, `MaxSamples` (ResourceSampler): two cells for a sampler that is still at work in
  the next cell; two samples for one before and one after stop, or one between two readings.
* `Requests`, `ApiMeans`, `MicroMeans`, `MaxCount` (Comparison): three platforms in two groups
  give ties, holes and a platform that is better in one group and worse in the other; the
  time 0 is what `normalize` makes of a missing score; the requests bring out each branch of
  `Plan`: filters that leave nothing, Docker platforms, settings and definitions that raise.
* `MaxClock`, `MaxRuns`, `MaxPublish` (Pipeline): a recipe straddles one tick of the clock; a
  second run under the same id makes what was derived from the first stale. Two runs
  also are the fewest for `dotnet-tfb-validate` to have a run that fails before one that
  succeeds. `CHECK_DEADLOCK FALSE`: with a full clock and no run left, a target that needs
  one stops.
* `MaxCommands`, `Clients`, `Connections` (RedisPool): an unread reply is left by one
  command and met by the next; with two clients on one connection every borrow
  waits for somebody to put back.
* `MaxRequests`, `MaxGiveUps` (ApiServer): with one client, three handlers overlap: one
  given up, one whose answer is out but which has not finished, and the next. `Threads`
  is one more than the fanouts that can wait, the boundary of `LoadAssumption`; the
  real numbers are at most 128 clients and at least 256 threads. `Calls` is 2 instead
  of 3, enough for one call to fail while another is still to start.

### Fairness

* LoadGen, GrpcLoad: weak fairness of `main`, of the deadline and of each goroutine.
  The Go runtime schedules all goroutines; a request ends by the timeout of its client.
  Weak fairness is enough for the locks, since no goroutine takes a lock again and
  again after the deadline.
* LaneRunner: weak fairness of the runner alone. The waits for the server and for psql have a
  limit of 20 seconds, those for the sampler and for the group of 2 and 5, and a load ends by
  `LoadGen!Terminates`. `docker stop` (benchctl.py:935), `docker network create` (827) and the
  `go build` of the generators (1243, 1267) have no limit in benchctl: that they return is an
  assumption. Nothing is assumed of servers: `RunEnds` holds if they hang.
* ResourceSampler: weak fairness of the runner alone; a load ends as above and a join has a
  limit. Nothing is assumed of the threads: `RunGoesOn` holds if every `docker stats` hangs.
* RedisPool: weak fairness of each client and of Redis's answers. No read has a
  timeout, so that this is an assumption about Redis and not about the code.
* ApiServer: weak fairness of all handlers together, with no assumption of an order;
  a handler has finitely many steps. Database and Redis answer or fail.
* RunStore, Comparison and Pipeline state no liveness: any step may be the last, or the
  program is sequential and ends with its input.

### What the runs show

* The load generators keep their promises at every interleaving of goroutines and
  deadline. `EveryAttemptCounted` and `SampleLedger` are balances: they hold at each
  step and not just in the report. gRPC errors are explained text by text.
* A lane leaves one file and the right exit code on each path (`ImplementsLane`),
  closes its cells on each path, and ends. A server that the shell became is always stopped,
  a container unless `docker stop` has failed (`ServerStopped`). A shell that forked its
  server is not always: see `lane_runner_host`.
* A sampler takes at most one sample that begins after the load, and appends at most one
  after stop, however long `docker stats` takes. A summary never has samples of another
  cell; if join gave up, its averages and its count may be of three prefixes of
  the list, each as long as the one before or longer, and a late sample may be missing.
* Metadata is exact about invocations that completed, and crashes do not spoil it
  except when one hits the write itself; then it stays unreadable, and every later
  invocation of the id is lost (`TornForGood`). Lanes that were started once under their id
  are normalized exactly: no row of an earlier, failed or unlisted measurement; the JMH or
  BenchmarkDotNet report of a lane that was started again may be that of an earlier run. Lanes that ran twice under an id appear twice: see `run_store_repeats`.
* On the host, definitions that `validate` accepts and settings that make sense never make a
  lane raise, and each lane that measured something is ranked with all its repeats
  (`LanesAccounted`). `compare` and `report` agree on best, ratio and score in every
  group, ties and zeros included. A report's leader may have fewer groups than the others;
  among platforms in the same groups, one that is nowhere better than another has no
  higher geometric mean (`LeadersDeserved`).
* A pipeline that ends under one run id delivers the run it measured, unless `normalize` failed
  or a write raised: recipes with `set +e` return the status of the run, so that 0 says nothing
  of their website and report; in a strict recipe it does (`PipelineDelivers`). The website
  may show more of a run than its normalized file only if that was cut short
  (`WebsiteCurrent`). A report that was cut short exists and is published as it is, with
  status 0; nothing else without a measurement ever is (`PublishedCurrent`). If the clock ticks while make expands `RUN_ID`, the steps
  mean different runs; `PipelineDelivers` promises nothing then. An id that was used once is
  never shown with anything but its measurement; one used again can be published with the
  older report (`PublishedCurrent`).
* Pools never lose a connection. In Go no reply of Redis can upset a connection. In
  Java and .NET an error reply does, and in .NET an aborted request, after which
  the replies on that connection may belong to other requests; `OwnReplies` and
  `InStep` say exactly when one can rely on a connection.
* Servers leak nothing on early returns, errors and abandoned requests. Fanouts do not
  starve because there are more threads than clients and abandoned requests;
  this is an assumption on the load (`LoadAssumption`), which nothing in the servers
  enforces. Holding Postgres while waiting for Redis (Spring, .NET) is safe because
  nobody holds Redis while waiting for Postgres (`NothingLeaks`).
* An answer of 200 after a failure comes from Go only: from its cache, which then has asked
  Postgres, or from its page, which may be a part of what was asked for (`AnswersHonest`). A 404 after a failure also comes from Go only.

### Disagreements with the documentation

* `docs/runner.md:89-91` says that a lane "then stops the server and writes raw JSON
  results". On the host, `stop_process_group` waits for the shell only; one that
  forked the server dies of SIGTERM at once, and the server may be up when the lane
  returns with code 0.
* `docs/runner.md:128` says that "Each repeat is stored as a separate normalized row". A
  lane that is run twice under one run id is listed twice in the metadata and its one
  file is read twice: two equal rows, which `compare` counts as two repeats.
* `tools/benchctl/benchctl.py:2351` compares the platforms of a group with themselves, so
  that `compare` without `--allow-missing` skips nothing, although it is written to count and
  print "skipped {missing} incomplete comparison groups" (2382): `comparison_strict`.

Others were met while modelling and are not the subject of a run:

* `docs/workload-catalog.md:32` promises a "filtered paged query returning 50 JSON rows". Go's
  handler (`cmd/api/main.go:238`) does not ask `rows.Err()` after its loop, so that a query that fails
  half-way is answered with 200 and the rows so far. The generator checks the
  count in the body (`specs/benchmarks.json:343-348`), so that a lane counts such an answer
  as a failure and nothing wrong is published.
* `docs/runner.md:56` calls `make compare-all ... REPEAT=3`; the recipe has no `--repeat`.
* `make help` says that `summarize` and others take "the most recent normalized run"; they
  take the run noted last, whether or not it was normalized.
* What `validate` accepts may raise in `run`: gRPC in Docker for a platform without an image
  command (924), settings of the environment. A web benchmark with a command for
  `dotnet-tfb` and none for `dotnet-tuned` would have the lane `dotnet-tfb` twice in Docker.
* Lanes that ran on the host are labelled as Docker if a later invocation of the run id used
  Docker (`labelledBy`).

## 4. The proofs

The theorems hold for every value of the constants that the named assumptions allow:

| Module | Assumption |
|---|---|
| `LoadGen` | `Workers` is finite, `MaxAttempts` a number, and the mark of a free lock no goroutine |
| `GrpcLoad` | the same; `Errors` is finite and has a text |
| `LaneRunner` | at least one lane and one cell (`benchctl` accepts no other) |
| `ResourceSampler` | at least one cell; a sample is a set of metrics; a bound on samples |
| `RunStore` | `Lanes` is a sequence of names, `MaxInvocations` a number |
| `RedisPool` | `Clients` and `Connections` are finite; no connection is the mark of none |
| `ApiServer` | `LoadAssumption`: finitely many clients; pools that are not empty; fewer clients and abandoned requests than threads |
| `Comparison` | `Requests` are among `RunRequests`; throughputs are positive numbers, times numbers; `go test` prints a size at least once |
| `Pipeline` | a clock with at least one second, numbers of runs and gists |

That a throughput is positive is what the generators promise: a load without a successful
request ends with status 1, and its lane without rows (`Measurement`). Of the others
only `LoadAssumption` restricts what the program may meet: clients that give up
without bound could fill the thread pool with fanouts, and nothing in the servers forbids it.

| Module | Theorem | Statement |
|---|---|---|
| `LoadGen_proofs` | `TypeCorrect` | `Spec => []TypeOK` |
| | `AttemptsAccounted` | `Spec => []EveryAttemptCounted` |
| | `SamplesAccounted` | `Spec => []SampleLedger` |
| | `MeasuredLoadIsolated` | `Spec => []LoadIsolated` |
| | `Refinement` | `Spec => ImplementsMeasurement` |
| `GrpcLoad_proofs` | `TypeCorrect` | `Spec => []TypeOK` |
| | `FailuresAreExplained` | `Spec => []ErrorsExplained` |
| | `Refinement` | `Spec => ImplementsMeasurement` |
| `LaneRunner_proofs` | `TypeCorrect` | `Spec => []TypeOK` |
| | `CellsAreBracketed` | `Spec => []CellsBracketed` |
| | `ServersAreStopped` | `Spec => []ServerStopped` |
| | `Refinement` | `Spec => ImplementsLane` |
| `ResourceSampler_proofs` | `TypeCorrect` | `Spec => []TypeOK` |
| | `AtMostOneLateSample` | `Spec => []OneLateSample` |
| | `SummariesAreExplained` | `Spec => []SummaryExplained` |
| `Results_proofs` | `TypeCorrect` | `Spec => []TypeOK` |
| | `MetadataIsALedger` | `Spec => []MetadataLedger` |
| | `TornStaysTorn` | `Spec => TornForGood` |
| | `FreshLanesAreExact` | `Spec => FreshLanesExact` |
| | `EveryLaneIsAccounted` | `CSpec => []LanesAccounted` |
| | `ReportAgreesWithCompare` | `CSpec => []RanksAgree` |
| | `LeadersAreDeserved` | `CSpec => []LeadersDeserved` |
| `RedisPool_proofs` | `TypeCorrect` | `Spec => []TypeOK` |
| | `PoolIsConserved` | `Spec => []PoolConserved` |
| | `PoolIsNeverExhausted` | `Spec => []NeverExhausted` |
| | `RepliesAreOwn` | `Spec => []OwnReplies` |
| | `ConnectionsAreInStep` | `Spec => []InStep` |
| `ApiServer_proofs` | `TypeCorrect` | `Spec => []TypeOK` |
| | `ConnectionsAreReturned` | `Spec => []NothingLeaks` |
| | `FanoutsAreUnstarved` | `Spec => []Unstarved` |
| | `AnswersAreHonest` | `Spec => []AnswersHonest` |
| `Pipeline_proofs` | `WebsiteIsCurrent` | `Spec => []WebsiteCurrent` |
| | `PublishedIsCurrent` | `Spec => []PublishedCurrent` |
| | `PipelinesDeliver` | `Spec => []PipelineDelivers` |

Every module has a theorem `Invariance`, `Spec => []IInv`, from which the others follow; that of
`Comparison` is `RankingInvariance`, `CSpec => []RankingInv`. Each invariant was checked by TLC with the constants of the module's run before it was proved. The proof of
`Invariance` has one lemma per conjunct or per action, and in it one step per action that
can disturb it; what several actions have in common is a lemma of its own.

### What each invariant adds

**LoadGen.** `EveryAttemptCounted` says nothing of which goroutine a request belongs to, so
that a step could count one twice. `IInv` adds `RunsInOrder` (goroutines of a run exist
only inside `main`'s call of `run`: `wg.Wait`), `OwnSamples` (a slice has requests of its
own goroutine that are over, and is empty after the merge), `HasStarted` (a request
in flight is the last one its goroutine started), `LockProtects` (between the
halves of an append the shared slice does not change) and `ResultInStep` (the report
exists from the end of the measured run, with the totals reached then). The two
balances need cardinalities: `AttemptStep` shows that a step moves one request from one
finite set to a count or to another set, `LedgerStep` that an append moves the samples
of one goroutine, which no other has, into the shared slice. `Refinement` maps each action
to one of `Measurement` or to a stutter (`StepRefines`).

**GrpcLoad.** The same plan with counters: `RunsInStep`, `LocksProtect` (a goroutine
between lock and unlock holds the lock, and what it read under it is still so, for both
locks), `FailuresAccounted` (the balance of `ErrorsExplained` while the run goes on),
`SamplesAccounted` (successes are samples in the shared slice or in that of a goroutine that has
still to append it) and `ReportInStep`. A failure that is added to the map moves from
`Unexplained` to `Explained`, sets of which only the sizes count.

**LaneRunner.** `CellInStep` says where a sampler and rows can be, `LeaderInStep` that a lane
has its process from its launch on and none that lives when it is left, and
`ServerFollowsLeader` that a server which the shell became does not outlive it. For those
`ServerStopped` is `LeaderInStep` and `ServerFollowsLeader` together: the runner waits for the process
and never looks at the server. For containers it is `ContainerInStep`: one that runs belongs to
the lane at work, before its `docker stop`, or to one whose `docker stop` has failed; what the
signals do to the client makes no difference. `FileInStep` (one file, before the
`finally` clause, unless interrupted) is what `Refinement` needs.

**ResourceSampler.** That `late` is at most 1 is not inductive: `ThreadInStep` adds that a thread
past its check can begin one sample only if none was begun late, that one in a sample
can append one only if none was appended since the stop, and that a joined thread has
ended. `SummaryExplained` is inductive once lists only grow (`RunnerInStep` says which
readings exist at which step).

**RunStore.** `IInv` has `RunnerInStep` (the failures in memory are those of the
commands in memory; the invocation that runs has not completed), `FilesInStep` and
`MetadataInStep`, which says of the least and the greatest number what `MetadataLedger` says
with `Min` and `Max`. That the merge keeps the failures exact is `FilterConcat`: filtering two
lists that are concatenated is concatenating what is left of each. `FreshLanesExact` needs
`FreshInStep` besides: a lane is not listed more often than it was started, one that was never
started has no rows, and the file of one that was started once agrees with its
listing. From this `FilterFlatten` and `FilterKeeps` give the rows: one of the listings has rows
of the lane, and all that is kept of the normalized file is what this one gave.

**RedisPool.** `Borrowed` makes of the two counts of `PoolConserved` one place for each connection.
`PermitsInStep` counts permits against the queue, with those of clients that have enqueued and
not yet released (`ReleasePermit` after `PutBack`). `WireInStep` says what can be on a connection
that is not upset at each step of its holder; `OwnReplies` is inductive with it, because the
only reply that can arrive is that to the one command that is pending.

**ApiServer.** `PhasesInStep` says through which phases a kind of request goes, `ClientsInStep` that
there are no more abandoned requests than clients have given up. `AnswersHonest` needs of the
first that only a fanout has calls, so that nobody else is spoiled by one, and that a handler
which goes on after a failure is one of Go's cache: every other failure is answered at once. `Unstarved` follows by
counting: a blocked fanout belongs to a client that waits for it, each to one of its own,
or is abandoned, and `LoadAssumption` leaves a thread.

**Comparison.** `RankingInv` says how the phases hang together: what was measured is a prefix of
the plan and `planned` the rest (`LanesInStep`), a run raises because nothing is selected or at
a lane that raises (`RaisedForAReason`), the ranked rows are those of the lanes, one after the
other (`RowsInStep`), and what has been printed and shown is the ranking of exactly these rows
(`RankingInStep`). `MeasuredBy` is what a lane may leave behind: rows of its benchmark and
platform, for an api in requests/s above 0 and one for each repeat of each cell. The steps
need little; the three properties need what the operators compute:

* `LanesAccounted`. `PlannedDistinct`: a plan has no lane twice, because the ids of the
  definitions are distinct and inserting platforms that were not there keeps a list free of
  repetitions (`InsertKeepsDistinct`). So the rows of a lane are the only ones of its
  benchmark and platform, and filtering all rows for them is filtering its own
  (`OwnRepeats`, from `FilterFlatten` and `FilterOfFilter`); how many repeats there are of a
  cell is `RepeatedCount`. That valid definitions raise for their settings only is
  `HostRaises`.
* `RanksAgree`. `BestIsBest`: among finitely many means there is one that none is better than,
  by `BetterIsOrder`, which holds of fractions under either unit. `RatioAndScore` then compares
  what the two commands make of a mean, whatever the unit; `WinnerWins` finds the winner among
  the platforms that have the best mean.
* `LeadersDeserved`. `ScoresCounted`: a score of 0 means that the best mean is 0, because no
  throughput is 0 (`MeanPositive`), so that platforms in the same groups have their scores
  counted in the same groups. `ProductKeepsOrder` and `PowersKeepOrder` carry the order of
  scores to geometric means, `ProductOfOnes` says that a product of scores of at most 1 is
  1 only if all of them are, and `SetToSeqElements` that the geometric mean leaves none out.
  `UnitOfGroup` is where distinct ids are needed: with them the rows of a group are all of
  an api or none is.

The proofs have corrected the model once: `LaneRows` had two cases that could both apply to
an api on Go, of which TLC takes the first.

**Pipeline.** `VersionsInOrder`, `WebsiteInOrder` and `GistsInOrder` order the versions: raw before
normalized before report before gist. The order is that of the code only up to files that were
cut short: `InNormalized` says that a version is in the normalized file of its run or that this
file is torn, `Converted` that what the website shows was measured and is in there, and `Agrees`
the same of a gist and its report, which may be torn too. `PipelineInStep` says how far a pipeline has come at
each of its steps, and `StepsInStep` which steps a target has.

### Induction over data

The induction theorems of the library have a predicate as a parameter, which the provers
cannot instantiate. `Results_proofs` does without: `LeastNumber` (from `WFMin` and
`NatLessThanWellFounded`) says that a set of numbers that is not empty has a least member, and
each induction is over a set of counterexamples, defined in its proof. `Filter` is a recursive
function and not the `SelectSeq` of the standard module, which the provers do not expand. That
such functions exist at all is proved first (`FiltersExists`, `FlattensExists`, and the same
for totals, products and powers). Of `Filter` and `FlattenSeq` it is proved what they keep,
in which order and how often (`FilterElements`, `FilterOfFilter`, `FilterSameLength`,
`FlattenElements`, `RepeatedCount`).

### Only model-checked

* Liveness under fairness: `Terminates` (both generators), `RunEnds`, `RunGoesOn`, `CallsReturn`,
  `AllAnswered`. The provers do not reach it.
* The disagreements (`SuccessStopsServer`, `RepeatsDistinct`, `StrictSkipsIncomplete`), which
  are false.

## 5. What is not modelled, and why

* Numbers beyond means: latencies, percentiles, medians and resource values, and rounding.
  The layout of reports. `latency_summary`, `percentile` and `validate_http_response` have
  no callers.
* Micro-benchmark kernels and gRPC servers: sequential and stateless.
* Of `validate_specs`, missing texts and paths and the dates of `runtime-policy.json`; `env` and
  the prerequisites of targets (`db-seed`, `redis-seed`, `docker-web-build`), which come before
  everything that is modelled.
* Generated code, Dockerfiles, SQL schema and website texts. GitHub and `gh` beyond the
  success of each call.
* Two invocations of benchctl or make at a time, ports taken by other programs, and failures
  of writes to a Redis connection in the middle of a command.
* A lane of `go test` that fails and leaves a file without a line; loads beyond `LoadAssumption`,
  which `PERFBENCH_CONCURRENCY` can ask for.
* What nothing in the code prevents and no property forbids, although it is modelled: late rows
  in `order_writes`, upset connections of the Java and .NET pools, a second gist when
  publishing is retried after status 1.
* Malformed requests to the API servers: the generators send none.

## 6. Plan

The models are there, and all safety properties of the runs are theorems. What is left:

1. `ResourceSampler` below `LaneRunner`: that the sampler of a lane, as `LaneRunner` has it, is what
   the samplers of its cells promise.
2. `RunStore` and `Comparison` meet in the rows of a run id; a common module would carry the
   repeats that a second invocation adds (`run_store_repeats`) into the ranking.
3. Shorter proofs where a lemma about finite sets is stated in several modules.
