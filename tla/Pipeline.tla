-------------------------------- MODULE Pipeline --------------------------------
(***************************************************************************)
(* The targets of the Makefile and tools/publish_report_gist.py: what they *)
(* make of one run, which run they mean, and what is left when a step      *)
(* fails or make is interrupted.                                           *)
(*                                                                         *)
(* Unless it is given, RUN_ID is a recursively expanded variable: every    *)
(* $(RUN_ID) of a recipe asks the clock anew.  make expands all lines of a *)
(* recipe before it runs the first, so that the ids of its steps are in    *)
(* the order of their lines and may differ by a tick of the clock.         *)
(*                                                                         *)
(* Abstracted: what a step reads and writes is a version, the number of    *)
(* the run that measured it or was merged into it last; module RunStore    *)
(* has the files behind it.  A run id is the second at which it was made.  *)
(* Files are written with write_text, which empties a file before it fills *)
(* it: one that is cut short has version 0, and is there all the same.     *)
(***************************************************************************)
EXTENDS Naturals, Sequences, FiniteSets

CONSTANTS
  MaxClock,   (* bound: seconds on the clock                               *)
  MaxRuns,    (* bound: invocations of benchctl run                        *)
  MaxPublish  (* bound: gists created                                      *)

ASSUME PipelineAssumption == MaxClock \in Nat \ {0} /\ MaxRuns \in Nat /\ MaxPublish \in Nat

\* Run ids made from the clock, and a name that somebody gave to a run.
Named == MaxClock + 1
RunIds == 1 .. Named
Versions == 0 .. MaxRuns

\* The kinds of targets: "full" (set +e, run, normalize, summarize or compare, and
\* report), "short" (the same without report), "repeated" (dotnet-tfb-validate: full
\* with a run per benchmark), "strict" (smoke-<platform>, run-<platform>: as short, but
\* make stops at the first line that fails), and those that take up a run.
Pipelines == {"full", "short", "repeated", "strict"}
Followups == {"normalize", "summarize", "report"}

VARIABLES
  clock,
  pc,          (* idle, or the step that the target is at; end: it exits   *)
  target,      (* its kind                                                 *)
  ids,         (* the run ids of its steps                                 *)
  status,      (* its exit status so far                                   *)
  lastRun,     (* .cache/last-run-id; 0 if there is none                   *)
  runs,        (* invocations of benchctl run so far                       *)
  raw,         (* per run id: the version that its metadata lists          *)
  empty,       (* the versions from which no row can be read               *)
  normalized,  (* per run id: the version it was made from                 *)
  latest,      (* website/data/latest.json: <<run id, version>>            *)
  report,      (* per run id: the version that the html report shows       *)
  torn,        (* the normalized files and reports that were cut short     *)
  gists,       (* the gists created: <<run id, version>>                   *)
  saved,       (* history: did a run of this target save its metadata?     *)
  failed,      (* history: did one fail?                                   *)
  converted,   (* history: what was normalized last                        *)
  cut,         (* history: was that not followed by a whole latest?        *)
  raised,      (* history: what this target tried to write, and could not  *)
  count        (* history, per run id: how often it was run                *)

progress == <<saved, failed, raised>>
make == <<clock, pc, target, ids, status, lastRun, progress>>
store == <<runs, raw, empty, normalized, latest, report, torn, gists>>
history == <<converted, cut, count>>
vars == <<make, store, history>>

Nothing == <<0, 0>>
NoIds == [step \in {"note", "run", "normalize", "show"} |-> 0]

Init ==
  /\ clock = 1 /\ pc = "idle" /\ target = "none" /\ status = 0 /\ lastRun = 0
  /\ ids = NoIds /\ saved = FALSE /\ failed = FALSE /\ raised = {}
  /\ runs = 0 /\ empty = {} /\ latest = Nothing /\ torn = {} /\ gists = <<>>
  /\ raw = [r \in RunIds |-> 0] /\ normalized = [r \in RunIds |-> 0] /\ report = [r \in RunIds |-> 0]
  /\ converted = Nothing /\ cut = FALSE
  /\ count = [r \in RunIds |-> 0]

--------------------------------------------------------------------------------
(* Which run a target means *)

Tick == pc = "idle" /\ clock < MaxClock /\ clock' = clock + 1
        /\ UNCHANGED <<pc, target, ids, status, lastRun, progress, store, history>>

StartWith(kind, step, note, run, normalize, show) ==
  /\ pc = "idle"
  /\ target' = kind /\ pc' = step /\ status' = 0
  /\ saved' = FALSE /\ failed' = FALSE /\ raised' = {}
  /\ ids' = [note |-> note, run |-> run, normalize |-> normalize, show |-> show]
  /\ UNCHANGED <<lastRun, store, history>>

\* RUN_ID=r on the command line or in the environment: a name, or that of a run.
GivenIds == 1 .. clock \cup {Named}

StartPipelineGiven ==
  \E kind \in Pipelines, r \in GivenIds :
    StartWith(kind, "note", r, r, r, r) /\ UNCHANGED clock

\* Four expansions, in the order of the lines, while the clock may go on.
StartPipeline ==
  \E kind \in Pipelines, now \in clock .. MaxClock :
    /\ now <= clock + 1
    /\ \E note, run, normalize \in {clock, now} :
         /\ note <= run /\ run <= normalize
         /\ StartWith(kind, "note", note, run, normalize, now)
    /\ clock' = now

\* The targets that take up a run: the id given, or the one noted last.
StartFollowup ==
  \E kind \in Followups, r \in (GivenIds \cup {lastRun}) \ {0} :
    /\ StartWith(kind, IF kind = "normalize" THEN "normalize" ELSE "show", r, r, r, r)
    /\ UNCHANGED clock

Goto(next) == pc' = next /\ UNCHANGED <<clock, target, ids>>
Fail == status' = 1
Keep == UNCHANGED status

\* make is gone, and what it and its shell knew.
Leave ==
  /\ pc' = "idle" /\ target' = "none" /\ ids' = NoIds /\ status' = 0
  /\ saved' = FALSE /\ failed' = FALSE /\ raised' = {}
  /\ UNCHANGED clock

\* The id is noted before anything has been measured.
NoteRunId ==
  /\ pc = "note"
  /\ lastRun' = ids.note
  /\ Goto("run") /\ Keep
  /\ UNCHANGED <<progress, store, history>>

\* The line that notes it is on its own: make stops where it fails.  An empty file
\* names no run.
NoteFails ==
  /\ pc = "note"
  /\ lastRun' \in {lastRun, 0}
  /\ Leave
  /\ UNCHANGED <<store, history>>

--------------------------------------------------------------------------------
(* Runs *)

\* Mutant: of several runs the last decides on the status.
LastRunDecides(bad) ==
  /\ status' = IF bad THEN 1 ELSE 0
  /\ failed' = (failed \/ bad)
  /\ \/ Goto(IF bad /\ target = "strict" THEN "end" ELSE "normalize")
     \/ target = "repeated" /\ Goto("run")

\* In a strict recipe make goes on only after success; the others (set +e) keep the
\* status of the run and go on.
AfterRun(bad) ==
  /\ IF bad THEN Fail ELSE Keep
  /\ failed' = (failed \/ bad)
  /\ \/ Goto(IF bad /\ target = "strict" THEN "end" ELSE "normalize")
     \/ target = "repeated" /\ Goto("run")

RunBegins == pc = "run" /\ runs < MaxRuns /\ runs' = runs + 1

\* The results of a run id are now those of this run.
Measured ==
  /\ raw' = [raw EXCEPT ![ids.run] = runs']
  /\ empty' \in {empty, empty \cup {runs'}}

\* benchctl run ends and merges its metadata, with or without failed lanes.
RunSaves ==
  /\ RunBegins /\ Measured
  /\ saved' = TRUE
  /\ count' = [count EXCEPT ![ids.run] = @ + 1]
  /\ \E bad \in BOOLEAN : AfterRun(bad)
  /\ UNCHANGED <<lastRun, raised, normalized, latest, report, torn, gists, converted, cut>>

\* benchctl run raises, or is interrupted with make.  Lanes of this run id that had
\* been measured before may have been measured anew all the same.
RunRaises ==
  /\ RunBegins
  /\ UNCHANGED <<raw, empty>> \/ (raw[ids.run] # 0 /\ Measured)
  /\ count' = [count EXCEPT ![ids.run] = @ + 1]
  /\ (AfterRun(TRUE) /\ UNCHANGED <<saved, raised>>) \/ Leave
  /\ UNCHANGED <<lastRun, normalized, latest, report, torn, gists, converted, cut>>

--------------------------------------------------------------------------------
(* normalize, summarize, compare and report *)

\* The status of a step matters in strict recipes and to the targets of one step.
AfterStep(bad, next) ==
  IF target \in {"strict"} \cup Followups
  THEN /\ IF bad THEN Fail ELSE Keep
       /\ Goto(IF bad THEN "end" ELSE next)
  ELSE Keep /\ Goto(next)

\* A write that raises, and ends its step only, or that is cut with the whole target.
Broken(next, what) ==
  \/ AfterStep(TRUE, next) /\ raised' = raised \cup {what} /\ UNCHANGED <<saved, failed>>
  \/ Leave

NormalizeFile ==
  /\ pc = "normalize" /\ raw[ids.normalize] # 0
  /\ normalized' = [normalized EXCEPT ![ids.normalize] = raw[ids.normalize]]
  /\ torn' = torn \ {<<"normalized", ids.normalize>>}
  /\ converted' = <<ids.normalize, raw[ids.normalize]>>
  /\ Goto("latest") /\ Keep
  /\ UNCHANGED <<lastRun, progress, runs, raw, empty, latest, report, gists, cut, count>>

\* What was normalized before is lost: nothing reads half a JSON document.
TearNormalized ==
  /\ pc = "normalize" /\ raw[ids.normalize] # 0
  /\ normalized' = [normalized EXCEPT ![ids.normalize] = 0]
  /\ torn' = torn \cup {<<"normalized", ids.normalize>>}
  /\ Broken("show", "normalized")
  /\ UNCHANGED <<lastRun, runs, raw, empty, latest, report, gists, history>>

\* No metadata, something in it or beside it that cannot be read, or no file that
\* could be written.
NormalizeFails ==
  /\ pc = "normalize"
  /\ AfterStep(TRUE, "show")
  /\ UNCHANGED <<lastRun, progress, store, history>>

AfterLatest == IF target = "normalize" THEN "end" ELSE "show"

\* Mutant: the website is given what it shows only if it showed nothing.
WriteLatestOnce ==
  /\ pc = "latest"
  /\ latest' = IF latest = Nothing THEN <<ids.normalize, normalized[ids.normalize]>> ELSE latest
  /\ AfterStep(FALSE, AfterLatest)
  /\ cut' = FALSE
  /\ UNCHANGED <<lastRun, progress, runs, raw, empty, normalized, report, torn, gists,
                 converted, count>>

WriteLatest ==
  /\ pc = "latest"
  /\ latest' = <<ids.normalize, normalized[ids.normalize]>>
  /\ AfterStep(FALSE, AfterLatest)
  /\ cut' = FALSE
  /\ UNCHANGED <<lastRun, progress, runs, raw, empty, normalized, report, torn, gists,
                 converted, count>>

\* The website keeps what it showed, or is left with half a document: with nothing.
TearLatest ==
  /\ pc = "latest"
  /\ latest' \in {latest, Nothing}
  /\ Broken(AfterLatest, "latest")
  /\ cut' = TRUE
  /\ UNCHANGED <<lastRun, runs, raw, empty, normalized, report, torn, gists, converted, count>>

\* summarize and compare print; without a file they raise, and without a row (or one
\* that can be compared) compare returns 1.
Show ==
  /\ pc = "show" /\ target # "report"
  /\ \E bad \in BOOLEAN :
       /\ normalized[ids.show] = 0 => bad
       /\ AfterStep(bad, IF target \in {"full", "repeated"} THEN "report" ELSE "end")
  /\ UNCHANGED <<lastRun, progress, store, history>>

AtReport == pc = "report" \/ (pc = "show" /\ target = "report")
HasRows(r) == normalized[r] # 0 /\ normalized[r] \notin empty

\* Is there a file, whole or cut short?
ReportFile(r) == report[r] # 0 \/ <<"report", r>> \in torn

\* Mutant: the report is written from the raw results.
ReportFromRaw ==
  /\ report' = [report EXCEPT ![ids.show] = raw[ids.show]]
  /\ torn' = torn \ {<<"report", ids.show>>}

\* benchctl report replaces the report of ids.show, or leaves the older one, or half of one.
ReportWritten ==
  /\ report' = [report EXCEPT ![ids.show] = normalized[ids.show]]
  /\ torn' = torn \ {<<"report", ids.show>>}

ReportNotWritten ==
  \/ UNCHANGED <<report, torn>>
  \/ /\ report' = [report EXCEPT ![ids.show] = 0]
     /\ torn' = torn \cup {<<"report", ids.show>>}

WriteReport ==
  /\ AtReport /\ HasRows(ids.show)
  /\ ReportWritten
  /\ Goto("end") /\ Keep
  /\ UNCHANGED <<lastRun, progress, runs, raw, empty, normalized, latest, gists, history>>

\* The status of report is ignored, wherever it is called.
TearReport ==
  /\ AtReport /\ HasRows(ids.show)
  /\ ReportNotWritten
  /\ \/ Goto("end") /\ Keep /\ raised' = raised \cup {"report"} /\ UNCHANGED <<saved, failed>>
     \/ Leave
  /\ UNCHANGED <<lastRun, runs, raw, empty, normalized, latest, gists, history>>

\* Without a row report returns 1 and leaves an older report as it is; report-latest
\* ends with an echo, whose status is that of the target.
NoReport ==
  /\ AtReport
  /\ ~HasRows(ids.show)
  /\ Goto("end") /\ Keep
  /\ UNCHANGED <<lastRun, progress, store, history>>

\* make is interrupted, or the machine goes down.
Interrupt ==
  /\ pc \notin {"idle", "end"}
  /\ Leave
  /\ cut' = (cut \/ pc = "latest")
  /\ UNCHANGED <<lastRun, store, converted, count>>

Exit ==
  /\ pc = "end"
  /\ Leave
  /\ UNCHANGED <<lastRun, store, history>>

--------------------------------------------------------------------------------
(* publish_report_gist.py: "publish" of a run id or of a path under results/reports, *)
(* "elsewhere" of a path outside, at which there is no file                *)

StartPublish ==
  \E kind \in {"publish", "elsewhere"}, r \in (GivenIds \cup {lastRun}) \ {0} :
    StartWith(kind, "resolve", r, r, r, r) /\ UNCHANGED clock

StopPublish == Fail /\ Goto("end") /\ UNCHANGED <<lastRun, progress, store, history>>

Proceed(from, to) ==
  pc = from /\ Goto(to) /\ Keep /\ UNCHANGED <<lastRun, progress, store, history>>

\* Any report that exists is published as it is, one that was cut short too.
ReportExists == target = "publish" /\ ReportFile(ids.show) /\ Proceed("resolve", "gh")

NoReportToPublish ==
  /\ pc = "resolve" /\ ~HasRows(ids.show)
  /\ target = "publish" => ~ReportFile(ids.show)
  /\ StopPublish

\* try_generate_report names the report after the path, but report writes it under
\* results/reports: a path outside is still without a file afterwards.
TryGenerateReport ==
  /\ pc = "resolve" /\ HasRows(ids.show)
  /\ target = "publish" => ~ReportFile(ids.show)
  /\ ReportWritten
  /\ IF target = "publish" THEN Goto("gh") /\ Keep ELSE Goto("end") /\ Fail
  /\ UNCHANGED <<lastRun, progress, runs, raw, empty, normalized, latest, gists, history>>

\* A report that could not be written is not published now; half of one is the next time.
GenerateFails ==
  /\ pc = "resolve" /\ HasRows(ids.show)
  /\ target = "publish" => ~ReportFile(ids.show)
  /\ ReportNotWritten
  /\ (Goto("end") /\ Fail /\ UNCHANGED progress) \/ Leave
  /\ UNCHANGED <<lastRun, runs, raw, empty, normalized, latest, gists, history>>

GhUnusable == pc = "gh" /\ StopPublish
GhAuthenticated == Proceed("gh", "create")
CreateFails == pc = "create" /\ StopPublish

CreateGist ==
  /\ pc = "create" /\ Len(gists) < MaxPublish
  /\ gists' = Append(gists, <<ids.show, report[ids.show]>>)
  /\ Goto("preview") /\ Keep
  /\ UNCHANGED <<lastRun, progress, runs, raw, empty, normalized, latest, report, torn, history>>

\* The gist is there, but the exit status is 1 and nothing remembers it.
NoPreview == pc = "preview" /\ StopPublish
PrintPreview == Proceed("preview", "end")

Publisher ==
  \/ ReportExists \/ NoReportToPublish \/ TryGenerateReport \/ GenerateFails
  \/ GhUnusable \/ GhAuthenticated
  \/ CreateFails \/ CreateGist
  \/ NoPreview \/ PrintPreview

--------------------------------------------------------------------------------

Next ==
  \/ Tick
  \/ StartPipelineGiven \/ StartPipeline \/ StartFollowup \/ StartPublish
  \/ NoteRunId \/ NoteFails
  \/ RunSaves \/ RunRaises
  \/ NormalizeFile \/ TearNormalized \/ NormalizeFails
  \/ WriteLatest \/ TearLatest
  \/ Show \/ WriteReport \/ TearReport \/ NoReport
  \/ Publisher
  \/ Interrupt \/ Exit

Spec == Init /\ [][Next]_vars

--------------------------------------------------------------------------------
(* Properties *)

\* A pipeline that comes to its end under one run id, and whose run saved its
\* metadata, has noted this id for the targets that follow.  If the results could
\* be normalized, then the normalized file is that of this run, and so are the website
\* and (unless there is no row) the report, each of which only a write of this target
\* that raised can have left behind.  Its status tells: in a strict recipe 0 means that
\* nothing was left behind, in the others whether all runs succeeded.
PipelineDelivers ==
  pc = "end" /\ target \in Pipelines /\ saved /\ Cardinality({ids[step] : step \in DOMAIN ids}) = 1 =>
    LET r == ids.run
        delivered == converted = <<r, raw[r]>> /\ normalized[r] = raw[r]
    IN /\ lastRun = r
       /\ converted = <<r, raw[r]>> =>
            delivered /\ (latest = <<r, raw[r]>> \/ "latest" \in raised)
       /\ delivered /\ target \in {"full", "repeated"} /\ raw[r] \notin empty =>
            report[r] = raw[r] \/ "report" \in raised
       /\ IF target = "strict" THEN status = 0 => delivered /\ ~failed /\ raised = {}
          ELSE status = 1 <=> failed

\* The website shows what was normalized last, unless its file was not written, or not
\* to the end, after that; and it never shows more of a run than its normalized file
\* has, unless that was cut short since, nor ever more than was measured.
WebsiteCurrent ==
  /\ latest = converted \/ pc = "latest" \/ cut
  /\ latest # Nothing =>
       LET r == latest[1] IN
       /\ latest[2] \in 1 .. raw[r]
       /\ latest[2] <= normalized[r] \/ <<"normalized", r>> \in torn

\* What is shown of a run is never newer than what it was made from, where that has not
\* been cut short since, and older only if the id was used for several runs: an id that
\* was used once has one measurement in its normalized file, its report and its gists.
\* publish exits with 0 only after it has created a gist of the report of the run it was
\* asked for, as it is: a gist without a measurement is one of a report cut short.
PublishedCurrent ==
  /\ \A r \in RunIds :
       /\ normalized[r] <= raw[r] /\ report[r] <= raw[r]
       /\ report[r] <= normalized[r] \/ <<"normalized", r>> \in torn
       /\ count[r] <= 1 => {normalized[r], report[r]} \subseteq {0, raw[r]}
  /\ \A i \in DOMAIN gists :
       LET r == gists[i][1] IN
       /\ gists[i][2] <= raw[r]
       /\ gists[i][2] <= report[r] \/ <<"report", r>> \in torn
       /\ count[r] = 1 => gists[i][2] \in {0, raw[r]}
  /\ pc = "end" /\ target = "publish" /\ status = 0 =>
       /\ gists # <<>> /\ gists[Len(gists)] = <<ids.show, report[ids.show]>>
       /\ ReportFile(ids.show)

===============================================================================
