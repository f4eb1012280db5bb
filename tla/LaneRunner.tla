------------------------------ MODULE LaneRunner -------------------------------
(***************************************************************************)
(* The API lanes of tools/benchctl/benchctl.py: run_web_api_benchmark,     *)
(* run_grpc_api_benchmark and their two docker variants, as run_benchmarks *)
(* calls them one after the other.  A lane starts a server, waits until it *)
(* answers, measures its cells (concurrency values times repeats) with a   *)
(* resource sampler around each of them, writes a result or an error file  *)
(* and stops the server on every path.                                     *)
(*                                                                         *)
(* The server runs concurrently and may die at any time.  On the host the  *)
(* process that benchctl starts is a shell, which may become the server    *)
(* (exec) or start it as a child (fork); with docker it is the client.     *)
(*                                                                         *)
(* A load is one step here, because the load generator's exit status says  *)
(* all that the lane looks at (LoadGen, Measurement).                      *)
(***************************************************************************)
EXTENDS Naturals

CONSTANTS
  Lanes,  (* bound: lanes of the run                                       *)
  Cells   (* cells of a lane                                               *)

ASSUME LaneAssumption == Lanes \in Nat \ {0} /\ Cells \in Nat \ {0}

LaneIds == 1 .. Lanes

\* How a lane runs its server, and which API it measures: only the benchmark
\* http.db-write has storage to truncate.
Kinds == {"hostExec", "hostFork", "docker"} \X {"http", "http.db-write", "grpc"}

VARIABLES
  kind,      (* per lane: its kind                                         *)
  current,   (* the lane being run, Lanes + 1 after the last one           *)
  pc,        (* where the runner is in the lane                            *)
  done,      (* cells measured so far: len(results)                        *)
  sampler,   (* the stop events not yet set: cells whose sampler goes on   *)
  server,    (* per lane: none, starting, up, gone                         *)
  unstopped, (* history: lanes whose docker stop has failed                *)
  leader,    (* per lane: the process Popen returned: none, alive, exited  *)
  table,     (* order_writes: empty, rows of a cell, late rows only        *)
  truncated, (* did the last truncate succeed?                             *)
  orphans,   (* lanes with a handler that may still insert: its client has *)
             (* given up, or it is a statement the database works on       *)
  file,      (* per lane: absent (or cut short), results, error            *)
  code,      (* per lane: exit code of the lane                            *)
  interrupt, (* an exception that nothing catches, like KeyboardInterrupt, *)
             (* passes through the finally clauses                         *)
  aborted

procs == <<server, leader, unstopped>>
storage == <<table, truncated, orphans>>
lane == <<current, done, sampler>>
result == <<file, code, interrupt, aborted>>
vars == <<kind, pc, lane, procs, storage, result>>

Unknown == 2
Mode(l) == kind[l][1]
Api(l) == kind[l][2]
Docker(l) == Mode(l) = "docker"

Init ==
  /\ kind \in [LaneIds -> Kinds]
  /\ current = 1 /\ pc = "prepare" /\ done = 0 /\ sampler = {}
  /\ server = [l \in LaneIds |-> "none"]
  /\ leader = [l \in LaneIds |-> "none"] /\ unstopped = {}
  /\ table = "empty" /\ truncated = TRUE /\ orphans = {}
  /\ file = [l \in LaneIds |-> "absent"]
  /\ code = [l \in LaneIds |-> Unknown]
  /\ interrupt = FALSE /\ aborted = FALSE

--------------------------------------------------------------------------------
(* The server side *)

\* On the host it takes the process; a container is started by the docker daemon,
\* which does not need its client any more.
ServerStarts(l) ==
  /\ server[l] = "starting"
  /\ Docker(l) \/ leader[l] = "alive"
  /\ server' = [server EXCEPT ![l] = "up"]
  /\ UNCHANGED <<kind, pc, lane, leader, unstopped, storage, result>>

\* A failed build, a crash, or the end of a graceful shutdown.  The shell that
\* became the server ends with it, the others notice in a step of their own.
ServerDies(l) ==
  /\ server[l] \in {"starting", "up"}
  /\ server' = [server EXCEPT ![l] = "gone"]
  /\ leader' = IF Mode(l) = "hostExec" THEN [leader EXCEPT ![l] = "exited"] ELSE leader
  /\ UNCHANGED <<kind, pc, lane, unstopped, storage, result>>

\* A docker client can also end by itself: it loses its daemon, or a signal reaches
\* it before it has a container.
LeaderNotices(l) ==
  /\ leader[l] = "alive"
  /\ server[l] = "gone" \/ Docker(l)
  /\ leader' = [leader EXCEPT ![l] = "exited"]
  /\ UNCHANGED <<kind, pc, lane, server, unstopped, storage, result>>

\* A row of a load that is over, after the table has been truncated.
LateInsert ==
  /\ table = "empty" /\ orphans # {}
  /\ table' = "late"
  /\ UNCHANGED <<kind, pc, lane, procs, truncated, orphans, result>>

--------------------------------------------------------------------------------
(* The lane *)

\* Before the try: no free port, a bad PERFBENCH_ setting, a platform without
\* an image or a gRPC command, a Popen that fails.  Nothing catches these.
PrepareRaises ==
  /\ pc = "prepare"
  /\ aborted' = TRUE
  /\ pc' = "exited"
  /\ UNCHANGED <<kind, lane, procs, storage, file, code, interrupt>>

Launch ==
  /\ pc = "prepare"
  /\ pc' = "wait"
  /\ server' = [server EXCEPT ![current] = "starting"]
  /\ leader' = [leader EXCEPT ![current] = "alive"]
  /\ UNCHANGED <<kind, lane, unstopped, storage, result>>

\* wait_for_health or wait_for_tcp_port returns.
ServerAnswers ==
  /\ pc = "wait"
  /\ server[current] = "up"
  /\ pc' = "nextCell"
  /\ UNCHANGED <<kind, lane, procs, storage, result>>

\* Mutant: wait_for_health has no deadline.
WaitForServer == pc = "wait" /\ server[current] # "up" /\ UNCHANGED vars

\* It raises: the process has exited, or its 20 seconds are over.
ServerSilent ==
  /\ pc = "wait"
  /\ pc' = "except"
  /\ UNCHANGED <<kind, lane, procs, storage, result>>

\* cleanup_write_benchmark_storage: a truncate that fails is only a warning (one
\* that is skipped by PERFBENCH_SKIP_WRITE_CLEANUP counts as failed), and one
\* that psql reports too late may have been carried out.
Cleanup ==
  /\ IF Api(current) = "http.db-write"
       THEN \/ table' = "empty" /\ truncated' \in BOOLEAN
            \/ table' = table /\ truncated' = FALSE
       ELSE UNCHANGED <<table, truncated>>
  /\ UNCHANGED orphans

\* Mutant: one cell more than the lane has.
StartOneCellMore ==
  /\ pc = "nextCell"
  /\ done <= Cells
  /\ Cleanup
  /\ sampler' = sampler \cup {<<current, done + 1>>}
  /\ pc' = "load"
  /\ UNCHANGED <<kind, current, done, procs, result>>

StartCell ==
  /\ pc = "nextCell"
  /\ done < Cells
  /\ Cleanup
  /\ sampler' = sampler \cup {<<current, done + 1>>}
  /\ pc' = "load"
  /\ UNCHANGED <<kind, current, done, procs, result>>

\* What a load leaves behind, whatever its exit status.
Insert ==
  IF Api(current) = "http.db-write"
    THEN table' = "rows" /\ orphans' = orphans \cup {current}
    ELSE UNCHANGED <<table, orphans>>

\* Exit status 0: the server answered every request of the measured run.
LoadSucceeds ==
  /\ pc = "load"
  /\ server[current] = "up"
  /\ Insert
  /\ pc' = "loadDone"
  /\ UNCHANGED <<kind, lane, procs, truncated, result>>

\* A non-zero exit status raises RuntimeError.
LoadFails ==
  /\ pc = "load"
  /\ Insert
  /\ pc' = "loadFailed"
  /\ UNCHANGED <<kind, lane, procs, truncated, result>>

\* Mutant: the cleanup after a load is not in a finally clause.
EndCellWithoutFinally ==
  /\ pc \in {"loadDone", "loadFailed"}
  /\ IF pc = "loadDone"
       THEN Cleanup /\ sampler' = sampler \ {<<current, done + 1>>} /\ done' = done + 1
       ELSE UNCHANGED <<storage, sampler, done>>
  /\ pc' = CASE pc = "loadDone" -> "nextCell"
             [] interrupt -> "finally"
             [] OTHER -> "except"
  /\ UNCHANGED <<kind, current, procs, result>>

\* The inner finally: sampler.stop() gives up joining after 2 seconds, then the
\* storage is cleaned.  summary() and the append follow only a success.
EndCell ==
  /\ pc \in {"loadDone", "loadFailed"}
  /\ sampler' = sampler \ {<<current, done + 1>>}
  /\ Cleanup
  /\ done' = IF pc = "loadDone" THEN done + 1 ELSE done
  /\ pc' = CASE pc = "loadDone" -> "nextCell"
             [] interrupt -> "finally"
             [] OTHER -> "except"
  /\ UNCHANGED <<kind, current, procs, result>>

WriteFile(content) ==
  /\ file' = [file EXCEPT ![current] = content]
  /\ pc' = "finally"
  /\ UNCHANGED <<kind, lane, procs, storage, code, interrupt, aborted>>

\* Every result in the list has failures = 0 and requests > 0.
WriteResults == pc = "nextCell" /\ done = Cells /\ WriteFile("results")

\* The write raises: the except clause writes an error over what is there.
ResultsRaise ==
  /\ pc = "nextCell" /\ done = Cells
  /\ pc' = "except"
  /\ UNCHANGED <<kind, lane, procs, storage, result>>

\* Mutant: the except clause writes no error file.
SkipErrorFile ==
  /\ pc = "except"
  /\ pc' = "finally"
  /\ UNCHANGED <<kind, lane, procs, storage, result>>

WriteError == pc = "except" /\ WriteFile("error")

\* The error cannot be written either: nothing catches this exception.
ErrorRaises ==
  /\ pc = "except"
  /\ interrupt' = TRUE
  /\ pc' = "finally"
  /\ UNCHANGED <<kind, lane, procs, storage, file, code, aborted>>

\* KeyboardInterrupt is no Exception: no file is written.  One interrupt at most,
\* and none that arrives inside the finally clauses themselves.
Interrupted ==
  /\ ~interrupt
  /\ pc \in {"wait", "load", "nextCell"}
  /\ interrupt' = TRUE
  /\ IF pc = "load" THEN Insert /\ pc' = "loadFailed"
                    ELSE UNCHANGED <<table, orphans>> /\ pc' = "finally"
  /\ UNCHANGED <<kind, lane, procs, truncated, file, code, aborted>>

\* docker stop waits until the container is gone, which has 5 seconds for it.  Its
\* status is ignored: it fails without a container, or without an answer of the daemon.
StopContainer ==
  /\ pc = "finally"
  /\ pc' = "stopGroup"
  /\ \/ ~Docker(current) /\ UNCHANGED <<server, unstopped>>
     \/ /\ Docker(current)
        /\ unstopped' = unstopped \cup {current}
        /\ UNCHANGED server
     \/ /\ Docker(current)
        /\ server' = [server EXCEPT ![current] = "gone"]
        /\ UNCHANGED unstopped
  /\ UNCHANGED <<kind, lane, leader, storage, result>>

\* stop_process_group: nothing to do for a process that has been reaped.
GroupAlreadyGone ==
  /\ pc = "stopGroup"
  /\ leader[current] = "exited"
  /\ pc' = "leave"
  /\ UNCHANGED <<kind, lane, procs, storage, result>>

\* SIGTERM to the group.  It ends a shell that waits for its child at once.  A server
\* shuts down when it is ready; a docker client passes the signal on to its
\* container and goes on waiting for it.
Terminate ==
  /\ pc = "stopGroup"
  /\ leader[current] = "alive"
  /\ pc' = "waitGroup"
  /\ leader' = IF Mode(current) = "hostFork" THEN [leader EXCEPT ![current] = "exited"] ELSE leader
  /\ UNCHANGED <<kind, lane, server, unstopped, storage, result>>

GroupExits ==
  /\ pc = "waitGroup"
  /\ leader[current] = "exited"
  /\ pc' = "leave"
  /\ UNCHANGED <<kind, lane, procs, storage, result>>

\* Mutant: after the 5 seconds the group is not killed.
GiveUpOnGroup ==
  /\ pc = "waitGroup"
  /\ leader[current] = "alive"
  /\ pc' = "leave"
  /\ UNCHANGED <<kind, lane, procs, storage, result>>

\* The 5 seconds are over: SIGKILL to the group, and no further wait.  A container is
\* no member of the group: with docker only the client is killed.
Kill ==
  /\ pc = "waitGroup"
  /\ leader[current] = "alive"
  /\ pc' = "leave"
  /\ leader' = [leader EXCEPT ![current] = "exited"]
  /\ server' = IF Docker(current) THEN server ELSE [server EXCEPT ![current] = "gone"]
  /\ UNCHANGED <<kind, lane, unstopped, storage, result>>

\* The lane returns and run_benchmarks goes on, or the interrupt goes up.
Leave ==
  /\ pc = "leave"
  /\ IF interrupt
       THEN aborted' = TRUE /\ pc' = "exited" /\ UNCHANGED <<current, code, done>>
       ELSE /\ code' = [code EXCEPT ![current] = IF file[current] = "results" THEN 0 ELSE 1]
            /\ current' = current + 1
            /\ done' = 0
            /\ pc' = IF current = Lanes THEN "exited" ELSE "prepare"
            /\ UNCHANGED aborted
  /\ UNCHANGED <<kind, sampler, procs, storage, file, interrupt>>

RunnerStep ==
  \/ PrepareRaises
  \/ Launch
  \/ ServerAnswers
  \/ ServerSilent
  \/ StartCell
  \/ LoadSucceeds
  \/ LoadFails
  \/ EndCell
  \/ WriteResults
  \/ ResultsRaise
  \/ WriteError
  \/ ErrorRaises
  \/ StopContainer
  \/ GroupAlreadyGone
  \/ Terminate
  \/ GroupExits
  \/ Kill
  \/ Leave

ServerStep == \E l \in LaneIds : ServerStarts(l) \/ ServerDies(l) \/ LeaderNotices(l)

Finished == pc = "exited" /\ UNCHANGED vars

Next == RunnerStep \/ Interrupted \/ ServerStep \/ LateInsert \/ Finished

\* The waits of the runner: 20 seconds for the server to answer, the load generator
\* (LoadGen!Terminates), 2 seconds for the sampler, 20 for psql, 5 for the group, and
\* docker stop, which has no limit in benchctl and is assumed to return.  Nothing is
\* assumed of the server.
Spec == Init /\ [][Next]_vars /\ WF_vars(RunnerStep)

--------------------------------------------------------------------------------
(* Properties *)

TypeOK ==
  /\ kind \in [LaneIds -> Kinds]
  /\ current \in 1 .. Lanes + 1 /\ done \in 0 .. Cells
  /\ pc \in {"prepare", "wait", "nextCell", "load", "loadDone", "loadFailed",
             "except", "finally", "stopGroup", "waitGroup", "leave", "exited"}
  /\ sampler \subseteq LaneIds \X (1 .. Cells)
  /\ server \in [LaneIds -> {"none", "starting", "up", "gone"}]
  /\ leader \in [LaneIds -> {"none", "alive", "exited"}]
  /\ unstopped \subseteq LaneIds
  /\ table \in {"empty", "rows", "late"} /\ orphans \subseteq LaneIds
  /\ file \in [LaneIds -> {"absent", "results", "error"}]
  /\ code \in [LaneIds -> 0 .. 2]
  /\ truncated \in BOOLEAN /\ interrupt \in BOOLEAN /\ aborted \in BOOLEAN

InCell == pc \in {"load", "loadDone", "loadFailed"}

\* However a load ends, by success, failure or interrupt, nothing of its cell is
\* left: its sampler has been told to stop, and its rows are gone from
\* order_writes unless the truncate itself failed (the inner finally clauses).
CellsBracketed ==
  ~ InCell => sampler = {} /\ (table = "rows" => ~ truncated)

\* The lanes that a lane leaves behind: all it started has ended.
Left(l) == l < current \/ (l = current /\ pc = "exited")
Leftover(l) == Left(l) /\ server[l] \in {"starting", "up"}

\* No server survives its lane, on success, error or interrupt, when the shell that
\* benchctl starts becomes the server (exec).  A container survives only if docker
\* stop has failed: then it may ignore the signal that its client passes on, and the
\* client alone is killed.
ServerStopped ==
  \A l \in LaneIds :
    Leftover(l) => Mode(l) = "hostFork" \/ (Docker(l) /\ l \in unstopped)

\* A lane on the host that has succeeded leaves no server.  docs/runner.md says
\* that the HTTP path "drives concurrent requests, then stops the server and
\* writes raw JSON results"; a forking shell dies of SIGTERM before its child has
\* shut down, process.wait returns, and the child, still up, is never killed.
SuccessStopsServer ==
  \A l \in LaneIds : ~Docker(l) /\ code[l] = 0 => server[l] = "gone"

\* The lanes keep the promises that run_benchmarks relies on.
L == INSTANCE Lane

ImplementsLane == L!LSpec

\* The run ends whatever the servers do: no wait of a lane is for a server alone.
RunEnds == <>(pc = "exited")

===============================================================================
