---------------------------- MODULE Pipeline_proofs -----------------------------
(***************************************************************************)
(* Proofs about Pipeline, for any number of seconds, runs and gists: what  *)
(* a target has made when it ends, and that what is shown of a run is      *)
(* never newer, nor of another run, than what it was made from.            *)
(***************************************************************************)
EXTENDS Pipeline, FiniteSetTheorems, SequenceTheorems, TLAPS

(***************************************************************************)
(* The inductive invariant                                                 *)
(***************************************************************************)

Steps == {"note", "run", "normalize", "show"}

TypeOK ==
  /\ clock \in 1 .. MaxClock /\ lastRun \in 0 .. Named
  /\ ids \in [Steps -> Nat] /\ status \in {0, 1}
  /\ pc # "idle" => ids \in [Steps -> RunIds]
  /\ runs \in Nat
  /\ raw \in [RunIds -> Nat] /\ normalized \in [RunIds -> Nat] /\ report \in [RunIds -> Nat]
  /\ count \in [RunIds -> Nat]
  /\ latest \in Nat \X Nat /\ converted \in Nat \X Nat
  /\ torn \subseteq {"normalized", "report"} \X RunIds
  /\ gists \in Seq(RunIds \X Nat) /\ raised \subseteq {"normalized", "latest", "report"}
  /\ saved \in BOOLEAN /\ failed \in BOOLEAN /\ cut \in BOOLEAN

\* Which targets have which steps.
StepsInStep ==
  /\ pc \in {"note", "run", "normalize", "latest", "show", "report"} =>
       target \in Pipelines \cup Followups
  /\ target \in Followups => pc # "note" /\ pc # "run" /\ pc # "report"
  /\ pc \in {"gh", "create", "preview"} => target = "publish"
  /\ pc = "resolve" => target \in {"publish", "elsewhere"}
  /\ pc \in {"idle", "note", "run", "normalize", "latest", "show", "report", "resolve", "gh",
             "create", "preview", "end"}
  /\ pc = "report" => target \in {"full", "repeated"}

\* Is this version in the normalized file of r, or was the file cut short?
InNormalized(version, r) == version <= normalized[r] \/ <<"normalized", r>> \in torn

\* A version is the number of a run, the latest of its run id is the highest, and what
\* is made of it has the same or a lower one; a file that was cut short has none.
VersionsInOrder ==
  \A r \in RunIds :
    /\ normalized[r] <= raw[r] /\ report[r] <= raw[r] /\ raw[r] <= runs
    /\ InNormalized(report[r], r)
    /\ <<"normalized", r>> \in torn => normalized[r] = 0
    /\ count[r] = 0 => raw[r] = 0
    /\ count[r] <= 1 => normalized[r] \in {0, raw[r]} /\ report[r] \in {0, raw[r]}

\* A run and a version that was measured under its id, and is in its normalized file.
Converted(p) ==
  p[1] \in RunIds /\ p[2] \in 1 .. raw[p[1]] /\ InNormalized(p[2], p[1])

\* The website, and what was normalized last, are never ahead of the normalized file.
WebsiteInOrder ==
  /\ converted = Nothing \/ Converted(converted)
  /\ latest = Nothing \/ Converted(latest)
  /\ latest = converted \/ pc = "latest" \/ cut
  /\ pc = "latest" =>
       /\ converted = <<ids.normalize, normalized[ids.normalize]>>
       /\ normalized[ids.normalize] # 0

\* A version that is not ahead of what was measured, normalized and reported under r,
\* nor of another measurement.
Agrees(version, r) ==
  /\ version <= raw[r] /\ InNormalized(version, r)
  /\ version <= report[r] \/ <<"report", r>> \in torn
  /\ count[r] = 1 => version \in {0, raw[r]}

\* No gist is ahead of the report of its run, nor of another measurement.
GistsInOrder ==
  /\ pc \in {"gh", "create", "preview"} => ReportFile(ids.show)
  /\ \A i \in DOMAIN gists : Agrees(gists[i][2], gists[i][1])
  /\ pc = "preview" \/ (pc = "end" /\ target = "publish" /\ status = 0) =>
       /\ gists # <<>> /\ gists[Len(gists)] = <<ids.show, report[ids.show]>>
       /\ ReportFile(ids.show)

\* How far a pipeline has come: it has noted its id; what it has measured is newer
\* than what was normalized before; only what it could not write is behind what it has
\* normalized; and its status is that of its runs, or in a strict recipe of all steps.
PipelineInStep ==
  target \in Pipelines =>
    /\ pc \notin {"idle", "note"} => lastRun = ids.note
    /\ pc # "idle" /\ saved => raw[ids.run] # 0
    /\ pc = "note" => ~saved /\ ~failed /\ status = 0
    /\ pc \in {"run", "normalize"} /\ saved => converted[2] < raw[ids.run]
    /\ pc \in {"show", "report", "end"} /\ saved =>
         \/ converted[2] < raw[ids.run]
         \/ /\ converted = <<ids.normalize, normalized[ids.normalize]>>
            /\ cut => "latest" \in raised
    /\ pc = "end" /\ target \in {"full", "repeated"} /\ HasRows(ids.show) =>
         report[ids.show] = normalized[ids.show] \/ "report" \in raised
    /\ target # "strict" /\ pc # "idle" =>
         (failed => status = 1) /\ (status = 1 => failed)
    /\ target = "strict" /\ pc # "idle" /\ status = 0 =>
         /\ ~failed /\ raised = {}
         /\ pc \in {"latest", "show", "end"} =>
              converted = <<ids.normalize, raw[ids.normalize]>>

IInv ==
  /\ TypeOK
  /\ StepsInStep
  /\ VersionsInOrder
  /\ WebsiteInOrder
  /\ GistsInOrder
  /\ PipelineInStep

--------------------------------------------------------------------------------
(* What the steps have in common *)

\* A target starts at its first step, with run ids and without a failure.
LEMMA TargetStarts ==
  ASSUME TypeOK, StartPipelineGiven \/ StartPipeline \/ StartFollowup \/ StartPublish
  PROVE  /\ pc = "idle" /\ clock' \in 1 .. MaxClock /\ ids' \in [Steps -> RunIds]
         /\ status' = 0 /\ saved' = FALSE /\ failed' = FALSE /\ raised' = {}
         /\ UNCHANGED <<lastRun, store, history>>
         /\ \/ target' \in Pipelines /\ pc' = "note"
            \/ target' \in Followups /\ pc' \in {"normalize", "show"}
            \/ target' \in {"publish", "elsewhere"} /\ pc' = "resolve"
<1>0. /\ clock \in 1 .. MaxClock /\ lastRun \in 0 .. Named /\ MaxClock \in Nat \ {0}
      /\ Named \in Nat /\ MaxClock < Named
  BY PipelineAssumption DEF TypeOK, Named
<1>1. \A r \in GivenIds \cup {lastRun} : r \in 0 .. Named
  BY <1>0 DEF GivenIds
<1>a. ASSUME NEW kind, NEW step, NEW note \in RunIds, NEW run \in RunIds, NEW normalize \in RunIds,
             NEW show \in RunIds, StartWith(kind, step, note, run, normalize, show)
      PROVE  /\ pc = "idle" /\ target' = kind /\ pc' = step /\ ids' \in [Steps -> RunIds]
             /\ status' = 0 /\ saved' = FALSE /\ failed' = FALSE /\ raised' = {}
             /\ UNCHANGED <<lastRun, store, history>>
  BY <1>a DEF StartWith, Steps
<1>2. CASE StartPipelineGiven
  <2>1. PICK kind \in Pipelines, r \in GivenIds :
          StartWith(kind, "note", r, r, r, r) /\ UNCHANGED clock
    BY <1>2 DEF StartPipelineGiven
  <2>2. r \in RunIds
    BY <1>0 DEF GivenIds, RunIds
  <2> QED
    BY <1>0, <1>a, <2>1, <2>2
<1>3. CASE StartPipeline
  <2>1. PICK kind \in Pipelines, now \in clock .. MaxClock :
          /\ \E note, run, normalize \in {clock, now} :
               StartWith(kind, "note", note, run, normalize, now)
          /\ clock' = now
    BY <1>3 DEF StartPipeline
  <2>2. now \in 1 .. MaxClock /\ clock \in RunIds /\ now \in RunIds
    BY <1>0 DEF RunIds
  <2> QED
    BY <1>a, <2>1, <2>2
<1>4. CASE StartFollowup
  <2>1. PICK kind \in Followups, r \in (GivenIds \cup {lastRun}) \ {0} :
          /\ StartWith(kind, IF kind = "normalize" THEN "normalize" ELSE "show", r, r, r, r)
          /\ UNCHANGED clock
    BY <1>4 DEF StartFollowup
  <2>2. r \in RunIds
    BY <1>0, <1>1 DEF RunIds
  <2> QED
    BY <1>0, <1>a, <2>1, <2>2
<1>5. CASE StartPublish
  <2>1. PICK kind \in {"publish", "elsewhere"}, r \in (GivenIds \cup {lastRun}) \ {0} :
          StartWith(kind, "resolve", r, r, r, r) /\ UNCHANGED clock
    BY <1>5 DEF StartPublish
  <2>2. r \in RunIds
    BY <1>0, <1>1 DEF RunIds
  <2> QED
    BY <1>0, <1>a, <2>1, <2>2
<1> QED
  BY <1>2, <1>3, <1>4, <1>5

\* What a run changes: the version of its run id, which is the newest or the one it
\* had; how often the id was used; and where the target goes.
LEMMA RunChanges ==
  ASSUME TypeOK, RunSaves \/ RunRaises
  PROVE  /\ pc = "run" /\ ids.run \in RunIds /\ runs' = runs + 1
         /\ raw' = [raw EXCEPT ![ids.run] = runs'] \/ raw' = raw
         /\ count' = [count EXCEPT ![ids.run] = @ + 1]
         /\ UNCHANGED <<lastRun, normalized, latest, report, torn, gists, converted, cut>>
         /\ \/ Leave
            \/ /\ UNCHANGED <<clock, target, ids, raised>>
               /\ saved' \in BOOLEAN /\ (saved => saved')
               /\ \/ raw' = [raw EXCEPT ![ids.run] = runs'] /\ (raw[ids.run] # 0 \/ saved')
                  \/ raw' = raw /\ saved' = saved
               /\ pc' \in {"run", "normalize", "end"} /\ failed' \in BOOLEAN
               /\ pc' = "end" => target = "strict" /\ status' = 1
               /\ (status' = 1 /\ failed') \/ (status' = status /\ failed' = failed)
<1> USE DEF AfterRun, Goto, Fail, Keep
<1>0. pc = "run" /\ ids.run \in RunIds /\ runs' = runs + 1 /\ saved \in BOOLEAN /\ failed \in BOOLEAN
  BY DEF RunSaves, RunRaises, RunBegins, TypeOK, Steps
<1>a. ASSUME NEW bad \in BOOLEAN, AfterRun(bad)
      PROVE  /\ pc' \in {"run", "normalize", "end"} /\ failed' \in BOOLEAN
             /\ pc' = "end" => target = "strict" /\ status' = 1
             /\ (status' = 1 /\ failed') \/ (status' = status /\ failed' = failed)
             /\ UNCHANGED <<clock, target, ids>>
  <2>1. CASE bad
    BY <1>a, <2>1
  <2>2. CASE ~bad
    BY <1>0, <1>a, <2>2
  <2> QED
    BY <2>1, <2>2
<1> HIDE DEF AfterRun
<1>1. CASE RunSaves
  <2>1. PICK bad \in BOOLEAN : AfterRun(bad)
    BY <1>1 DEF RunSaves
  <2> QED
    BY <1>0, <1>1, <1>a, <2>1 DEF RunSaves, Measured
<1>2. CASE RunRaises
  <2>1. /\ raw' = raw \/ (raw' = [raw EXCEPT ![ids.run] = runs'] /\ raw[ids.run] # 0)
        /\ count' = [count EXCEPT ![ids.run] = @ + 1]
        /\ UNCHANGED <<lastRun, normalized, latest, report, torn, gists, converted, cut>>
    BY <1>2 DEF RunRaises, Measured
  <2>2. CASE AfterRun(TRUE) /\ UNCHANGED <<saved, raised>>
    BY <1>0, <1>a, <2>1, <2>2
  <2>3. CASE Leave
    BY <1>0, <2>1, <2>3
  <2> QED
    BY <1>2, <2>2, <2>3 DEF RunRaises
<1> QED
  BY <1>1, <1>2

\* A write that fails leads on as a step that raises does, or ends the target.
LEMMA WriteBreaks ==
  ASSUME NEW next, NEW what, Broken(next, what)
  PROVE  \/ Leave
         \/ /\ UNCHANGED <<clock, target, ids, saved, failed>> /\ raised' = raised \cup {what}
            /\ \/ pc' = next /\ status' = status /\ target # "strict"
               \/ pc' = "end" /\ status' = 1 /\ target \in {"strict"} \cup Followups
BY DEF Broken, AfterStep, Goto, Keep, Fail

--------------------------------------------------------------------------------
(* Each conjunct is kept by each step *)

\* Every step keeps every variable in its type.
LEMMA TypeStep == TypeOK /\ StepsInStep /\ [Next]_vars => TypeOK'
<1> SUFFICES ASSUME TypeOK, StepsInStep, [Next]_vars PROVE TypeOK'
  OBVIOUS
<1> USE PipelineAssumption DEF TypeOK, progress, make, store, history, Goto, Fail, Keep
<1>0. pc # "idle" => \A step \in Steps : ids[step] \in RunIds
  OBVIOUS
<1>r. RunIds \subseteq Nat /\ RunIds \subseteq 0 .. Named
  BY SMTT(30) DEF RunIds, Named
<1> DEFINE Typed == /\ clock' \in 1 .. MaxClock /\ ids' \in [Steps -> Nat] /\ status' \in {0, 1}
                    /\ (pc' # "idle" => ids' \in [Steps -> RunIds])
                    /\ raised' \subseteq {"normalized", "latest", "report"}
                    /\ saved' \in BOOLEAN /\ failed' \in BOOLEAN
<1>l. Leave => Typed
  <2>1. NoIds \in [Steps -> Nat]
    BY DEF NoIds, Steps
  <2>2. Leave => /\ ids' = NoIds /\ pc' = "idle" /\ clock' = clock /\ status' = 0
                 /\ raised' = {} /\ saved' = FALSE /\ failed' = FALSE
    BY DEF Leave
  <2> QED
    BY <2>1, <2>2
<1>b. ASSUME NEW next, NEW what \in {"normalized", "latest"}, Broken(next, what), pc # "idle"
      PROVE  Typed
  <2>1. CASE Leave
    BY <2>1, <1>l
  <2>2. CASE ~Leave
    <3>1. /\ UNCHANGED <<clock, ids, saved, failed>> /\ status' \in {status, 1}
          /\ raised' = raised \cup {what}
      BY <1>b, <2>2, WriteBreaks
    <3> QED
      BY <1>b, <3>1
  <2> QED
    BY <2>1, <2>2
<1>1. CASE Tick
  BY <1>1 DEF Tick
<1>2. CASE StartPipelineGiven \/ StartPipeline \/ StartFollowup \/ StartPublish
  <2>1. /\ clock' \in 1 .. MaxClock /\ ids' \in [Steps -> RunIds]
        /\ status' = 0 /\ saved' = FALSE /\ failed' = FALSE /\ raised' = {}
        /\ UNCHANGED <<lastRun, store, history>>
    BY <1>2, TargetStarts
  <2>2. ids' \in [Steps -> Nat]
    BY <1>r, <2>1
  <2> QED
    BY <2>1, <2>2
<1>3. CASE NoteRunId
  BY <1>3, <1>0, <1>r DEF NoteRunId, Steps
<1>3a. CASE NoteFails
  <2>1. lastRun' \in 0 .. Named
    BY <1>3a DEF NoteFails, Named
  <2> QED
    BY <1>3a, <1>l, <2>1 DEF NoteFails
<1>4. CASE RunSaves \/ RunRaises
  <2> HIDE DEF TypeOK
  <2>1. /\ ids.run \in RunIds /\ runs' = runs + 1
        /\ raw' = [raw EXCEPT ![ids.run] = runs'] \/ raw' = raw
        /\ count' = [count EXCEPT ![ids.run] = @ + 1]
        /\ UNCHANGED <<lastRun, normalized, latest, report, torn, gists, converted, cut>>
    BY <1>4, RunChanges
  <2>2. /\ clock' \in 1 .. MaxClock /\ ids' \in [Steps -> Nat] /\ status' \in {0, 1}
        /\ pc' # "idle" => ids' \in [Steps -> RunIds]
        /\ raised' \subseteq {"normalized", "latest", "report"}
        /\ saved' \in BOOLEAN /\ failed' \in BOOLEAN
    <3>1. CASE Leave
      BY <3>1, <1>l
    <3>2. CASE ~Leave
      <4>1. /\ pc = "run" /\ UNCHANGED <<clock, target, ids, raised>>
            /\ saved' \in BOOLEAN /\ failed' \in BOOLEAN
            /\ (status' = 1 /\ failed') \/ (status' = status /\ failed' = failed)
        BY <1>4, <3>2, RunChanges
      <4> QED
        BY <4>1 DEF TypeOK
    <3> QED
      BY <3>1, <3>2
  <2>3. /\ runs' \in Nat /\ raw' \in [RunIds -> Nat]
    <3>1. runs \in Nat /\ raw \in [RunIds -> Nat]
      BY DEF TypeOK
    <3>2. runs' \in Nat
      BY <2>1, <3>1
    <3> QED
      BY <2>1, <3>1, <3>2
  <2>4. count' \in [RunIds -> Nat]
    <3>1. count \in [RunIds -> Nat]
      BY DEF TypeOK
    <3>2. count[ids.run] + 1 \in Nat
      BY <2>1, <3>1
    <3> QED
      BY <2>1, <3>1, <3>2
  <2> QED
    BY <2>1, <2>2, <2>3, <2>4 DEF TypeOK
<1>5. CASE NormalizeFile
  BY <1>5, <1>0, <1>r DEF NormalizeFile, Steps
<1>5a. CASE TearNormalized
  <2>1. /\ ids.normalize \in RunIds /\ Broken("show", "normalized") /\ pc # "idle"
        /\ normalized' = [normalized EXCEPT ![ids.normalize] = 0]
        /\ torn' = torn \cup {<<"normalized", ids.normalize>>}
        /\ UNCHANGED <<lastRun, runs, raw, empty, latest, report, gists, converted, cut, count>>
    BY <1>5a, <1>0 DEF TearNormalized, Steps
  <2>2. normalized' \in [RunIds -> Nat] /\ torn' \subseteq {"normalized", "report"} \X RunIds
    BY <2>1
  <2> QED
    BY <1>b, <2>1, <2>2
<1>6. CASE NormalizeFails \/ Show \/ NoReport
  BY <1>6 DEF NormalizeFails, Show, NoReport, AtReport, AfterStep
<1>7. CASE WriteLatest
  BY <1>7, <1>0, <1>r DEF WriteLatest, AfterStep, Steps
<1>7a. CASE TearLatest
  <2>1. /\ Broken(AfterLatest, "latest") /\ pc # "idle" /\ cut' = TRUE
        /\ latest' \in Nat \X Nat
        /\ UNCHANGED <<lastRun, runs, raw, normalized, report, torn, gists, converted, count>>
    BY <1>7a DEF TearLatest, Nothing
  <2> QED
    BY <1>b, <2>1
<1>8. CASE WriteReport \/ TryGenerateReport
  BY <1>8, <1>0 DEF WriteReport, TryGenerateReport, ReportWritten, AtReport, AfterStep, Steps
<1>8a. CASE TearReport \/ GenerateFails
  <2>1. /\ ids.show \in RunIds /\ pc # "idle" /\ ReportNotWritten
        /\ UNCHANGED <<lastRun, runs, raw, normalized, latest, gists, converted, cut, count>>
        /\ \/ Leave
           \/ /\ UNCHANGED <<clock, ids, saved, failed>> /\ status' \in {status, 1}
              /\ raised' \subseteq raised \cup {"report"}
    BY <1>8a, <1>0 DEF TearReport, GenerateFails, AtReport, Steps
  <2>2. report' \in [RunIds -> Nat] /\ torn' \subseteq {"normalized", "report"} \X RunIds
    <3>1. CASE UNCHANGED <<report, torn>>
      BY <3>1
    <3>2. CASE /\ report' = [report EXCEPT ![ids.show] = 0]
               /\ torn' = torn \cup {<<"report", ids.show>>}
      BY <2>1, <3>2
    <3> QED
      BY <2>1, <3>1, <3>2 DEF ReportNotWritten
  <2> QED
    BY <1>l, <2>1, <2>2
<1>9. CASE ReportExists \/ NoReportToPublish \/ GhUnusable \/ GhAuthenticated
  BY <1>9 DEF ReportExists, NoReportToPublish, GhUnusable, GhAuthenticated, Proceed, StopPublish
<1>10. CASE CreateFails \/ NoPreview \/ PrintPreview
  BY <1>10 DEF CreateFails, NoPreview, PrintPreview, Proceed, StopPublish
<1>11. CASE CreateGist
  <2>1. <<ids.show, report[ids.show]>> \in RunIds \X Nat
    BY <1>11, <1>0 DEF CreateGist, Steps
  <2>2. gists' \in Seq(RunIds \X Nat)
    BY <1>11, <2>1, AppendProperties DEF CreateGist
  <2> QED
    BY <1>11, <2>2 DEF CreateGist
<1>12. CASE Interrupt
  BY <1>12, <1>l DEF Interrupt
<1>13. CASE Exit
  BY <1>13, <1>l DEF Exit
<1>14. CASE UNCHANGED vars
  BY <1>14 DEF vars
<1> HIDE DEF TypeOK, progress, make, store, history, Goto, Fail, Keep
<1> QED
  BY <1>1, <1>2, <1>3, <1>3a, <1>4, <1>5, <1>5a, <1>6, <1>7, <1>7a, <1>8, <1>8a, <1>9, <1>10,
     <1>11, <1>12, <1>13, <1>14 DEF Next, Publisher

\* A step of one kind of target leads to the next one of that kind.
LEMMA StepsInStepStep == TypeOK /\ StepsInStep /\ [Next]_vars => StepsInStep'
<1> SUFFICES ASSUME TypeOK, StepsInStep, [Next]_vars PROVE StepsInStep'
  OBVIOUS
<1> USE DEF StepsInStep, progress, make, store, history, Goto, Pipelines, Followups
<1>l. Leave => StepsInStep'
  BY DEF Leave
<1>1. CASE Tick
  BY <1>1 DEF Tick
<1>2. CASE StartPipelineGiven \/ StartPipeline \/ StartFollowup \/ StartPublish
  BY <1>2, TargetStarts
<1>3. CASE NoteRunId
  BY <1>3 DEF NoteRunId
<1>4. CASE RunSaves \/ RunRaises
  BY <1>4, <1>l, RunChanges
<1>5. CASE NormalizeFile
  BY <1>5 DEF NormalizeFile
<1>5a. CASE TearNormalized
  <2>1. pc = "normalize" /\ Broken("show", "normalized")
    BY <1>5a DEF TearNormalized
  <2> QED
    BY <1>l, <2>1, WriteBreaks
<1>6. CASE NormalizeFails \/ NoReport
  BY <1>6 DEF NormalizeFails, NoReport, AtReport, AfterStep
<1>7. CASE WriteLatest
  BY <1>7 DEF WriteLatest, AfterLatest, AfterStep
<1>7a. CASE TearLatest
  <2>1. pc = "latest" /\ Broken(AfterLatest, "latest")
    BY <1>7a DEF TearLatest
  <2> QED
    BY <1>l, <2>1, WriteBreaks DEF AfterLatest
<1>8. CASE Show
  <2>1. PICK bad \in BOOLEAN :
          AfterStep(bad, IF target \in {"full", "repeated"} THEN "report" ELSE "end")
    BY <1>8 DEF Show
  <2>2. pc = "show" /\ target' = target
        /\ pc' \in {"end", IF target \in {"full", "repeated"} THEN "report" ELSE "end"}
    BY <1>8, <2>1 DEF Show, AfterStep
  <2> QED
    BY <2>2
<1>9. CASE WriteReport \/ TryGenerateReport
  BY <1>9 DEF WriteReport, TryGenerateReport, AtReport, AfterStep
<1>9a. CASE TearReport \/ GenerateFails
  BY <1>9a, <1>l DEF TearReport, GenerateFails, AtReport
<1>10. CASE ReportExists \/ NoReportToPublish \/ GhUnusable \/ GhAuthenticated
  BY <1>10 DEF ReportExists, NoReportToPublish, GhUnusable, GhAuthenticated, Proceed, StopPublish
<1>11. CASE CreateFails \/ CreateGist \/ NoPreview \/ PrintPreview
  BY <1>11 DEF CreateFails, CreateGist, NoPreview, PrintPreview, Proceed, StopPublish
<1>12. CASE NoteFails \/ Interrupt \/ Exit
  BY <1>12, <1>l DEF NoteFails, Interrupt, Exit
<1>13. CASE UNCHANGED vars
  BY <1>13 DEF vars
<1> HIDE DEF StepsInStep, progress, make, store, history, Goto, Pipelines, Followups
<1> QED
  BY <1>1, <1>2, <1>3, <1>4, <1>5, <1>5a, <1>6, <1>7, <1>7a, <1>8, <1>9, <1>9a, <1>10, <1>11,
     <1>12, <1>13 DEF Next, Publisher

\* What a write to a report does to it: it has what the normalized file has, or nothing,
\* or what it had, and no normalized file is touched.
LEMMA ReportChanges ==
  ASSUME TypeOK, pc # "idle", ReportWritten \/ ReportNotWritten
  PROVE  /\ ids.show \in RunIds /\ report' \in [RunIds -> Nat]
         /\ \A r \in RunIds :
              /\ (<<"normalized", r>> \in torn') <=> (<<"normalized", r>> \in torn)
              /\ \/ report'[r] = normalized[r] /\ r = ids.show
                 \/ report'[r] = 0 /\ r = ids.show /\ <<"report", r>> \in torn'
                 \/ report'[r] = report[r] /\ (<<"report", r>> \in torn => <<"report", r>> \in torn')
<1>0. ids.show \in RunIds /\ report \in [RunIds -> Nat] /\ normalized \in [RunIds -> Nat]
  BY DEF TypeOK, Steps
<1>1. CASE ReportWritten
  BY <1>0, <1>1 DEF ReportWritten
<1>2. CASE ReportNotWritten
  BY <1>0, <1>2 DEF ReportNotWritten
<1> QED
  BY <1>1, <1>2

\* The steps that write to a report, and what they leave alone.
LEMMA ReportSteps ==
  ASSUME TypeOK, WriteReport \/ TryGenerateReport \/ TearReport \/ GenerateFails
  PROVE  /\ pc \in {"show", "report", "resolve"} /\ (ReportWritten \/ ReportNotWritten)
         /\ UNCHANGED <<runs, raw, empty, normalized, latest, gists, history>>
         /\ pc' \in {"idle", "gh", "end"}
BY DEF WriteReport, TryGenerateReport, TearReport, GenerateFails, AtReport, Goto, Leave

\* Versions only come from runs and are only handed on.
LEMMA VersionsInOrderStep ==
  TypeOK /\ VersionsInOrder /\ [Next]_vars => VersionsInOrder'
<1> SUFFICES ASSUME TypeOK, VersionsInOrder, [Next]_vars PROVE VersionsInOrder'
  OBVIOUS
<1>0. /\ runs \in Nat /\ raw \in [RunIds -> Nat] /\ normalized \in [RunIds -> Nat]
      /\ report \in [RunIds -> Nat] /\ count \in [RunIds -> Nat]
      /\ pc # "idle" => ids \in [Steps -> RunIds]
  BY DEF TypeOK
<1>a. ASSUME UNCHANGED <<runs, raw, normalized, report, torn, count>> PROVE VersionsInOrder'
  BY <1>a DEF VersionsInOrder, InNormalized
<1> USE DEF progress, make, store, history
<1>1. CASE Tick
  BY <1>1, <1>a DEF Tick
<1>2. CASE StartPipelineGiven \/ StartPipeline \/ StartFollowup \/ StartPublish
  BY <1>2, <1>a, TargetStarts
<1>3. CASE NoteRunId \/ NoteFails
  BY <1>3, <1>a DEF NoteRunId, NoteFails
<1>4. CASE RunSaves \/ RunRaises
  <2>1. PICK run \in RunIds :
          /\ runs' = runs + 1
          /\ raw' = [raw EXCEPT ![run] = runs + 1] \/ raw' = raw
          /\ count' = [count EXCEPT ![run] = @ + 1]
          /\ normalized' = normalized /\ report' = report /\ torn' = torn
    BY <1>4, RunChanges
  <2> SUFFICES ASSUME NEW r \in RunIds
               PROVE  /\ report[r] <= raw'[r] /\ normalized[r] <= raw'[r] /\ raw'[r] <= runs + 1
                      /\ count'[r] = 0 => raw'[r] = 0
                      /\ count'[r] <= 1 => normalized[r] \in {0, raw'[r]} /\ report[r] \in {0, raw'[r]}
    BY <2>1 DEF VersionsInOrder, InNormalized
  <2>2. /\ report[r] \in Nat /\ normalized[r] \in Nat /\ raw[r] \in Nat /\ count[r] \in Nat
        /\ report[r] <= raw[r] /\ normalized[r] <= raw[r] /\ raw[r] <= runs
        /\ count[r] = 0 => raw[r] = 0
        /\ count[r] <= 1 => normalized[r] \in {0, raw[r]} /\ report[r] \in {0, raw[r]}
    BY <1>0 DEF VersionsInOrder
  <2>3. CASE r = run
    <3>1. raw'[r] \in {raw[r], runs + 1} /\ count'[r] = count[r] + 1
      BY <1>0, <2>1, <2>3
    <3> QED
      BY <1>0, <2>2, <3>1
  <2>4. CASE r # run
    <3>1. raw'[r] = raw[r] /\ count'[r] = count[r]
      BY <1>0, <2>1, <2>4
    <3> QED
      BY <1>0, <2>2, <3>1
  <2> QED
    BY <2>3, <2>4
<1>5. CASE NormalizeFile
  <2>1. PICK q \in RunIds :
          /\ normalized' = [normalized EXCEPT ![q] = raw[q]]
          /\ torn' = torn \ {<<"normalized", q>>}
          /\ UNCHANGED <<runs, raw, report, count>>
    BY <1>0, <1>5 DEF NormalizeFile, Steps
  <2> SUFFICES ASSUME NEW r \in RunIds
               PROVE  /\ normalized'[r] <= raw[r] /\ InNormalized(report[r], r)'
                      /\ <<"normalized", r>> \in torn' => normalized'[r] = 0
                      /\ count[r] <= 1 => normalized'[r] \in {0, raw[r]}
    BY <2>1 DEF VersionsInOrder
  <2>2. CASE r = q
    <3>1. normalized'[r] = raw[r] /\ <<"normalized", r>> \notin torn' /\ report'[r] = report[r]
      BY <1>0, <2>1, <2>2
    <3>2. report[r] <= raw[r] /\ raw[r] \in Nat
      BY <1>0 DEF VersionsInOrder
    <3> QED
      BY <3>1, <3>2 DEF InNormalized
  <2>3. CASE r # q
    BY <1>0, <2>1, <2>3 DEF VersionsInOrder, InNormalized
  <2> QED
    BY <2>2, <2>3
<1>5a. CASE TearNormalized
  <2>1. PICK q \in RunIds :
          /\ normalized' = [normalized EXCEPT ![q] = 0]
          /\ torn' = torn \cup {<<"normalized", q>>}
          /\ UNCHANGED <<runs, raw, report, count>>
    BY <1>0, <1>5a DEF TearNormalized, Steps
  <2> SUFFICES ASSUME NEW r \in RunIds
               PROVE  /\ normalized'[r] <= raw[r] /\ InNormalized(report[r], r)'
                      /\ <<"normalized", r>> \in torn' => normalized'[r] = 0
                      /\ count[r] <= 1 => normalized'[r] \in {0, raw[r]}
    BY <2>1 DEF VersionsInOrder
  <2>2. raw[r] \in Nat
    BY <1>0
  <2>3. CASE r = q
    BY <1>0, <2>1, <2>2, <2>3 DEF InNormalized
  <2>4. CASE r # q
    BY <1>0, <2>1, <2>4 DEF VersionsInOrder, InNormalized
  <2> QED
    BY <2>3, <2>4
<1>6. CASE NormalizeFails \/ Show \/ NoReport
  BY <1>6, <1>a DEF NormalizeFails, Show, NoReport
<1>7. CASE WriteLatest \/ TearLatest
  BY <1>7, <1>a DEF WriteLatest, TearLatest
<1>8. CASE WriteReport \/ TryGenerateReport \/ TearReport \/ GenerateFails
  <2>1. /\ pc # "idle" /\ (ReportWritten \/ ReportNotWritten)
        /\ UNCHANGED <<runs, raw, normalized, count>>
    BY <1>8, ReportSteps
  <2> SUFFICES ASSUME NEW r \in RunIds
               PROVE  /\ report'[r] <= raw[r] /\ InNormalized(report[r], r)'
                      /\ <<"normalized", r>> \in torn' => normalized[r] = 0
                      /\ count[r] <= 1 => report'[r] \in {0, raw[r]}
    BY <2>1 DEF VersionsInOrder
  <2>2. /\ (<<"normalized", r>> \in torn') <=> (<<"normalized", r>> \in torn)
        /\ report'[r] \in {0, normalized[r], report[r]}
    BY <2>1, ReportChanges
  <2> QED
    BY <1>0, <2>1, <2>2 DEF VersionsInOrder, InNormalized
<1>9. CASE ReportExists \/ NoReportToPublish \/ GhUnusable \/ GhAuthenticated
  BY <1>9, <1>a DEF ReportExists, NoReportToPublish, GhUnusable, GhAuthenticated, Proceed, StopPublish
<1>10. CASE CreateFails \/ CreateGist \/ NoPreview \/ PrintPreview
  BY <1>10, <1>a DEF CreateFails, CreateGist, NoPreview, PrintPreview, Proceed, StopPublish
<1>11. CASE Interrupt \/ Exit
  BY <1>11, <1>a DEF Interrupt, Exit
<1>12. CASE UNCHANGED vars
  BY <1>12, <1>a DEF vars
<1> HIDE DEF progress, make, store, history
<1> QED
  BY <1>1, <1>2, <1>3, <1>4, <1>5, <1>5a, <1>6, <1>7, <1>8, <1>9, <1>10, <1>11, <1>12
     DEF Next, Publisher

\* What is in the normalized file of its run, or was before this was cut short, stays so:
\* a run is measured and normalized anew, but never goes back.
LEMMA ConvertedStays ==
  ASSUME TypeOK, VersionsInOrder, [Next]_vars, NEW version \in Nat, NEW r \in RunIds,
         version <= raw[r], InNormalized(version, r)
  PROVE  version <= raw'[r] /\ InNormalized(version, r)'
<1>0. /\ runs \in Nat /\ raw \in [RunIds -> Nat] /\ normalized \in [RunIds -> Nat]
      /\ pc # "idle" => ids \in [Steps -> RunIds]
  BY DEF TypeOK
<1>a. ASSUME UNCHANGED <<raw, normalized, torn>> PROVE version <= raw'[r] /\ InNormalized(version, r)'
  BY <1>a DEF InNormalized
<1> USE DEF progress, make, store, history
<1>1. CASE Tick \/ NoteRunId \/ NoteFails
  BY <1>1, <1>a DEF Tick, NoteRunId, NoteFails
<1>2. CASE StartPipelineGiven \/ StartPipeline \/ StartFollowup \/ StartPublish
  BY <1>2, <1>a, TargetStarts
<1>4. CASE RunSaves \/ RunRaises
  <2>1. PICK run \in RunIds :
          /\ runs' = runs + 1
          /\ raw' = [raw EXCEPT ![run] = runs + 1] \/ raw' = raw
          /\ normalized' = normalized /\ torn' = torn
    BY <1>4, RunChanges
  <2>2. raw'[r] \in {raw[r], runs + 1} /\ raw[r] <= runs
    BY <1>0, <2>1 DEF VersionsInOrder
  <2> QED
    BY <1>0, <2>1, <2>2 DEF InNormalized
<1>5. CASE NormalizeFile
  <2>1. PICK q \in RunIds :
          /\ normalized' = [normalized EXCEPT ![q] = raw[q]]
          /\ torn' = torn \ {<<"normalized", q>>} /\ raw' = raw
    BY <1>0, <1>5 DEF NormalizeFile, Steps
  <2>2. CASE r = q
    BY <1>0, <2>1, <2>2 DEF InNormalized
  <2>3. CASE r # q
    BY <1>0, <2>1, <2>3 DEF InNormalized
  <2> QED
    BY <2>2, <2>3
<1>5a. CASE TearNormalized
  <2>1. PICK q \in RunIds :
          /\ normalized' = [normalized EXCEPT ![q] = 0]
          /\ torn' = torn \cup {<<"normalized", q>>} /\ raw' = raw
    BY <1>0, <1>5a DEF TearNormalized, Steps
  <2> QED
    BY <1>0, <2>1 DEF InNormalized
<1>6. CASE NormalizeFails \/ Show \/ NoReport
  BY <1>6, <1>a DEF NormalizeFails, Show, NoReport
<1>7. CASE WriteLatest \/ TearLatest
  BY <1>7, <1>a DEF WriteLatest, TearLatest
<1>8. CASE WriteReport \/ TryGenerateReport \/ TearReport \/ GenerateFails
  <2>1. /\ pc # "idle" /\ (ReportWritten \/ ReportNotWritten)
        /\ UNCHANGED <<raw, normalized>>
    BY <1>8, ReportSteps
  <2>2. (<<"normalized", r>> \in torn') <=> (<<"normalized", r>> \in torn)
    BY <2>1, ReportChanges
  <2> QED
    BY <2>1, <2>2 DEF InNormalized
<1>9. CASE ReportExists \/ NoReportToPublish \/ GhUnusable \/ GhAuthenticated
  BY <1>9, <1>a DEF ReportExists, NoReportToPublish, GhUnusable, GhAuthenticated, Proceed, StopPublish
<1>10. CASE CreateFails \/ CreateGist \/ NoPreview \/ PrintPreview
  BY <1>10, <1>a DEF CreateFails, CreateGist, NoPreview, PrintPreview, Proceed, StopPublish
<1>11. CASE Interrupt \/ Exit
  BY <1>11, <1>a DEF Interrupt, Exit
<1>12. CASE UNCHANGED vars
  BY <1>12, <1>a DEF vars
<1> HIDE DEF progress, make, store, history
<1> QED
  BY <1>1, <1>2, <1>4, <1>5, <1>5a, <1>6, <1>7, <1>8, <1>9, <1>10, <1>11, <1>12
     DEF Next, Publisher

\* Between the normalized file and the website is one step, which may be cut off.
LEMMA WebsiteInOrderStep ==
  TypeOK /\ StepsInStep /\ VersionsInOrder /\ WebsiteInOrder /\ [Next]_vars => WebsiteInOrder'
<1> SUFFICES ASSUME TypeOK, StepsInStep, VersionsInOrder, WebsiteInOrder, [Next]_vars PROVE WebsiteInOrder'
  OBVIOUS
<1>0. /\ raw \in [RunIds -> Nat] /\ normalized \in [RunIds -> Nat]
      /\ latest \in Nat \X Nat /\ converted \in Nat \X Nat
      /\ pc # "idle" => ids \in [Steps -> RunIds]
  BY DEF TypeOK
<1>c. ASSUME NEW p \in Nat \X Nat, Converted(p)
      PROVE  p[1] \in RunIds /\ p[2] \in 1 .. raw'[p[1]] /\ InNormalized(p[2], p[1])'
  <2>1. PICK version \in Nat, r \in RunIds : p = <<r, version>> /\ version \in 1 .. raw[r]
                                             /\ InNormalized(version, r)
    BY <1>c DEF Converted
  <2>2. version <= raw'[r] /\ InNormalized(version, r)'
    BY <1>0, <2>1, ConvertedStays
  <2>3. raw'[r] \in Nat
    BY TypeStep DEF TypeOK
  <2> QED
    BY <2>1, <2>2, <2>3 DEF InNormalized
<1>d. /\ converted' = converted => converted' = Nothing \/ Converted(converted)'
      /\ latest' = latest => latest' = Nothing \/ Converted(latest)'
  BY <1>0, <1>c DEF WebsiteInOrder, Converted, InNormalized
<1>a. ASSUME UNCHANGED <<latest, converted, cut>>, pc # "latest", pc' # "latest"
      PROVE  WebsiteInOrder'
  BY <1>a, <1>d DEF WebsiteInOrder
<1>l. Leave => pc' # "latest"
  BY DEF Leave
<1> USE DEF progress, make, store, history, Goto
<1>1. CASE Tick
  BY <1>1, <1>a DEF Tick
<1>2. CASE StartPipelineGiven \/ StartPipeline \/ StartFollowup \/ StartPublish
  BY <1>2, <1>a, TargetStarts
<1>3. CASE NoteRunId \/ NoteFails
  BY <1>3, <1>a, <1>l DEF NoteRunId, NoteFails
<1>4. CASE RunSaves \/ RunRaises
  BY <1>4, <1>a, <1>l, RunChanges
<1>5. CASE NormalizeFile
  <2>1. PICK r \in RunIds :
          /\ r = ids.normalize /\ raw[r] # 0
          /\ normalized' = [normalized EXCEPT ![r] = raw[r]]
          /\ converted' = <<r, raw[r]>>
          /\ pc' = "latest" /\ UNCHANGED <<latest, ids, raw>>
    BY <1>0, <1>5 DEF NormalizeFile, Steps
  <2>2. normalized'[r] = raw[r] /\ raw[r] \in 1 .. raw'[r]
    BY <1>0, <2>1
  <2>3. Converted(converted)'
    BY <1>0, <2>1, <2>2 DEF Converted, InNormalized
  <2> QED
    BY <1>d, <2>1, <2>2, <2>3 DEF WebsiteInOrder
<1>5a. CASE TearNormalized
  <2>1. pc = "normalize" /\ UNCHANGED <<latest, converted, cut>> /\ Broken("show", "normalized")
    BY <1>5a DEF TearNormalized
  <2>2. pc' # "latest"
    BY <1>l, <2>1, WriteBreaks
  <2> QED
    BY <1>a, <2>1, <2>2
<1>6. CASE NormalizeFails \/ Show \/ NoReport
  <2>1. pc # "latest" /\ UNCHANGED <<latest, converted, cut>>
    BY <1>6 DEF NormalizeFails, Show, NoReport, AtReport
  <2>2. pc' # "latest"
    BY <1>6 DEF NormalizeFails, Show, NoReport, AfterStep
  <2> QED
    BY <1>a, <2>1, <2>2
<1>7. CASE WriteLatest
  <2>1. /\ latest' = <<ids.normalize, normalized[ids.normalize]>> /\ pc = "latest"
        /\ UNCHANGED <<converted, raw, normalized, torn>>
    BY <1>7 DEF WriteLatest
  <2>2. pc' # "latest"
    BY <1>7 DEF WriteLatest, AfterLatest, AfterStep
  <2>3. latest' = converted'
    BY <2>1 DEF WebsiteInOrder
  <2>4. converted' = Nothing \/ Converted(converted)'
    BY <1>d, <2>1
  <2>5. latest' = Nothing \/ Converted(latest)'
    BY <2>3, <2>4 DEF Converted, InNormalized
  <2> QED
    BY <2>2, <2>3, <2>4, <2>5 DEF WebsiteInOrder
<1>7a. CASE TearLatest
  <2>1. /\ pc = "latest" /\ latest' \in {latest, Nothing} /\ cut' = TRUE
        /\ converted' = converted /\ Broken(AfterLatest, "latest")
    BY <1>7a DEF TearLatest
  <2>2. pc' # "latest"
    BY <1>l, <2>1, WriteBreaks DEF AfterLatest
  <2> QED
    BY <1>d, <2>1, <2>2 DEF WebsiteInOrder, Nothing
<1>8. CASE WriteReport \/ TryGenerateReport \/ TearReport \/ GenerateFails
  BY <1>8, <1>a, ReportSteps
<1>9. CASE ReportExists \/ NoReportToPublish \/ GhUnusable \/ GhAuthenticated
  <2>1. pc \in {"resolve", "gh"} /\ pc' # "latest" /\ UNCHANGED <<latest, converted, cut>>
    BY <1>9 DEF ReportExists, NoReportToPublish, GhUnusable, GhAuthenticated, Proceed, StopPublish
  <2> QED
    BY <1>a, <2>1
<1>10. CASE CreateFails \/ CreateGist \/ NoPreview \/ PrintPreview
  <2>1. pc \in {"create", "preview"} /\ pc' # "latest" /\ UNCHANGED <<latest, converted, cut>>
    BY <1>10 DEF CreateFails, CreateGist, NoPreview, PrintPreview, Proceed, StopPublish
  <2> QED
    BY <1>a, <2>1
<1>11. CASE Interrupt
  <2>1. cut' = (cut \/ pc = "latest") /\ UNCHANGED <<latest, converted>> /\ Leave
    BY <1>11 DEF Interrupt
  <2> QED
    BY <1>d, <1>l, <2>1 DEF WebsiteInOrder
<1>12. CASE Exit
  BY <1>12, <1>a, <1>l DEF Exit
<1>13. CASE UNCHANGED vars
  <2>1. UNCHANGED <<latest, converted, cut, pc, ids, normalized>>
    BY <1>13 DEF vars
  <2> QED
    BY <1>d, <2>1 DEF WebsiteInOrder
<1> HIDE DEF progress, make, store, history, Goto
<1> QED
  BY <1>1, <1>2, <1>3, <1>4, <1>5, <1>5a, <1>6, <1>7, <1>7a, <1>8, <1>9, <1>10, <1>11, <1>12, <1>13
     DEF Next, Publisher

\* What a gist shows stays in order with the report of its run, whatever follows.
LEMMA GistsInOrderStep ==
  TypeOK /\ StepsInStep /\ VersionsInOrder /\ GistsInOrder /\ [Next]_vars => GistsInOrder'
<1> SUFFICES ASSUME TypeOK, StepsInStep, VersionsInOrder, GistsInOrder, [Next]_vars
             PROVE  GistsInOrder'
  OBVIOUS
<1>0. /\ runs \in Nat /\ raw \in [RunIds -> Nat] /\ report \in [RunIds -> Nat]
      /\ normalized \in [RunIds -> Nat] /\ count \in [RunIds -> Nat]
      /\ gists \in Seq(RunIds \X Nat)
      /\ pc # "idle" => ids \in [Steps -> RunIds]
  BY DEF TypeOK
<1>g. \A i \in DOMAIN gists :
        gists[i][1] \in RunIds /\ gists[i][2] \in Nat /\ Agrees(gists[i][2], gists[i][1])
  <2> SUFFICES ASSUME NEW i \in DOMAIN gists
               PROVE  gists[i][1] \in RunIds /\ gists[i][2] \in Nat /\ Agrees(gists[i][2], gists[i][1])
    OBVIOUS
  <2>1. gists[i] \in RunIds \X Nat
    BY <1>0
  <2> QED
    BY <2>1 DEF GistsInOrder
<1>p. pc \in {"note", "run", "normalize", "latest", "show", "report"} =>
        target \notin {"publish", "elsewhere"}
  BY DEF StepsInStep, Pipelines, Followups
\* A version that agreed goes on to, if the reports and what was measured allow it.
<1>v. ASSUME NEW version \in Nat, NEW r \in RunIds, Agrees(version, r),
             version <= report'[r] \/ <<"report", r>> \in torn',
             count'[r] = 1 => version \in {0, raw'[r]}
      PROVE  Agrees(version, r)'
  BY <1>v, ConvertedStays DEF Agrees
<1>k. ASSUME UNCHANGED <<report, raw, count>>,
             \A r \in RunIds : <<"report", r>> \in torn => <<"report", r>> \in torn',
             NEW version \in Nat, NEW r \in RunIds, Agrees(version, r)
      PROVE  Agrees(version, r)'
  BY <1>k, <1>v DEF Agrees
<1>e. ASSUME gists' = gists,
             \A version \in Nat, r \in RunIds : Agrees(version, r) => Agrees(version, r)'
      PROVE  \A i \in DOMAIN gists' : Agrees(gists[i][2], gists[i][1])'
  <2> SUFFICES ASSUME NEW i \in DOMAIN gists PROVE Agrees(gists[i][2], gists[i][1])'
    BY <1>e
  <2>1. PICK version \in Nat, r \in RunIds :
          version = gists[i][2] /\ r = gists[i][1] /\ Agrees(version, r)
    BY <1>g
  <2>2. Agrees(version, r)'
    BY <1>e, <2>1
  <2> QED
    BY <1>e, <2>1, <2>2 DEF Agrees, InNormalized
<1>a. ASSUME UNCHANGED <<raw, report, gists, count>>,
             \A r \in RunIds : <<"report", r>> \in torn => <<"report", r>> \in torn',
             pc' \notin {"gh", "create", "preview"},
             pc' = "end" /\ target' = "publish" => status' # 0
      PROVE  GistsInOrder'
  BY <1>a, <1>e, <1>k DEF GistsInOrder
<1>s. ASSUME UNCHANGED <<raw, report, torn, gists, count>>
      PROVE  \A i \in DOMAIN gists' : Agrees(gists[i][2], gists[i][1])'
  BY <1>s, <1>e, <1>k
<1>l. Leave => pc' = "idle"
  BY DEF Leave
<1> USE DEF progress, make, store, history, Goto
<1>1. CASE Tick
  BY <1>1, <1>a DEF Tick
<1>2. CASE StartPipelineGiven \/ StartPipeline \/ StartFollowup \/ StartPublish
  <2>1. /\ UNCHANGED <<raw, report, torn, gists, count>>
        /\ pc' \in {"note", "normalize", "show", "resolve"}
    BY <1>2, TargetStarts
  <2> QED
    BY <1>a, <2>1
<1>3. CASE NoteRunId \/ NoteFails
  BY <1>3, <1>a, <1>l DEF NoteRunId, NoteFails
<1>4. CASE RunSaves \/ RunRaises
  <2>1. PICK run \in RunIds :
          /\ pc = "run"
          /\ count' = [count EXCEPT ![run] = @ + 1]
          /\ raw' = [raw EXCEPT ![run] = runs'] \/ raw' = raw
          /\ UNCHANGED <<report, torn, gists>>
    BY <1>4, RunChanges
  <2>2. pc' \in {"idle", "run", "normalize", "end"} /\ (pc' = "end" => target' # "publish")
    BY <1>4, <1>l, <1>p, RunChanges
  <2>3. ASSUME NEW version \in Nat, NEW r \in RunIds, Agrees(version, r)
        PROVE  Agrees(version, r)'
    <3>1. CASE r = run
      <4>1. count'[r] = count[r] + 1 /\ count[r] \in Nat /\ raw[r] \in Nat
        BY <1>0, <2>1, <3>1
      <4>2. count'[r] = 1 => version = 0
        <5>1. count[r] = 0 => raw[r] = 0
          BY DEF VersionsInOrder
        <5>2. version <= raw[r]
          BY <2>3 DEF Agrees
        <5> QED
          BY <2>3, <4>1, <5>1, <5>2
      <4> QED
        BY <1>v, <2>1, <2>3, <4>2 DEF Agrees
    <3>2. CASE r # run
      <4>1. raw'[r] = raw[r] /\ count'[r] = count[r]
        BY <1>0, <2>1, <3>2
      <4> QED
        BY <1>v, <2>1, <2>3, <4>1 DEF Agrees
    <3> QED
      BY <3>1, <3>2
  <2> QED
    BY <1>e, <2>1, <2>2, <2>3 DEF GistsInOrder
<1>5. CASE NormalizeFile
  BY <1>5, <1>a DEF NormalizeFile
<1>5a. CASE TearNormalized
  <2>1. /\ pc = "normalize" /\ Broken("show", "normalized")
        /\ torn \subseteq torn' /\ UNCHANGED <<raw, report, gists, count>>
    BY <1>5a DEF TearNormalized
  <2>2. pc' \in {"idle", "show", "end"} /\ (pc' = "end" => target' # "publish")
    BY <1>l, <1>p, <2>1, WriteBreaks
  <2> QED
    BY <1>a, <2>1, <2>2
<1>6. CASE NormalizeFails \/ Show \/ NoReport
  <2>1. target' = target /\ pc \in {"normalize", "show", "report"} /\ pc' \in {"show", "report", "end"}
        /\ UNCHANGED <<raw, report, torn, gists, count>>
    BY <1>6 DEF NormalizeFails, Show, NoReport, AtReport, AfterStep
  <2> QED
    BY <1>a, <1>p, <2>1
<1>7. CASE WriteLatest
  <2>1. target' = target /\ pc = "latest" /\ pc' \in {"show", "end"}
        /\ UNCHANGED <<raw, report, torn, gists, count>>
    BY <1>7 DEF WriteLatest, AfterLatest, AfterStep
  <2> QED
    BY <1>a, <1>p, <2>1
<1>7a. CASE TearLatest
  <2>1. /\ pc = "latest" /\ Broken(AfterLatest, "latest")
        /\ UNCHANGED <<raw, report, torn, gists, count>>
    BY <1>7a DEF TearLatest
  <2>2. pc' \in {"idle", "show", "end"} /\ (pc' = "end" => target' # "publish")
    BY <1>l, <1>p, <2>1, WriteBreaks DEF AfterLatest
  <2> QED
    BY <1>a, <2>1, <2>2
<1>8. CASE WriteReport \/ TryGenerateReport \/ TearReport \/ GenerateFails
  <2>0. /\ pc # "idle" /\ (ReportWritten \/ ReportNotWritten)
        /\ UNCHANGED <<raw, normalized, gists, count>>
    BY <1>8, ReportSteps
  <2>n. normalized[ids.show] # 0
    BY <1>8 DEF WriteReport, TryGenerateReport, TearReport, GenerateFails, HasRows
  <2>1. ASSUME NEW version \in Nat, NEW r \in RunIds, Agrees(version, r)
        PROVE  Agrees(version, r)'
    <3>1. version <= report'[r] \/ <<"report", r>> \in torn'
      <4>1. CASE report'[r] = normalized[r] /\ r = ids.show /\ normalized[r] # 0
        BY <2>1, <4>1 DEF Agrees, InNormalized, VersionsInOrder
      <4>2. CASE <<"report", r>> \in torn'
        BY <4>2
      <4>3. CASE report'[r] = report[r] /\ (<<"report", r>> \in torn => <<"report", r>> \in torn')
        BY <2>1, <4>3 DEF Agrees
      <4> QED
        BY <2>0, <2>n, <4>1, <4>2, <4>3, ReportChanges
    <3> QED
      BY <1>v, <2>0, <2>1, <3>1 DEF Agrees
  <2>2. \A i \in DOMAIN gists' : Agrees(gists[i][2], gists[i][1])'
    BY <1>e, <2>0, <2>1
  <2>3. /\ pc' = "gh" => ReportFile(ids.show)'
        /\ pc' \in {"gh", "end", "idle"}
        /\ pc' = "end" /\ target' = "publish" => status' # 0
    <3>1. CASE WriteReport \/ TearReport
      BY <1>l, <1>p, <3>1 DEF WriteReport, TearReport, AtReport
    <3>2. CASE GenerateFails
      BY <1>l, <3>2 DEF GenerateFails, Fail
    <3>3. CASE TryGenerateReport
      <4>1. /\ ids' = ids /\ target' = target /\ ReportWritten /\ HasRows(ids.show)
            /\ IF target = "publish" THEN pc' = "gh" ELSE pc' = "end"
        BY <3>3 DEF TryGenerateReport
      <4>2. report'[ids.show] # 0
        BY <1>0, <2>0, <4>1 DEF ReportWritten, HasRows, Steps
      <4> QED
        BY <4>1, <4>2 DEF ReportFile
    <3> QED
      BY <1>8, <3>1, <3>2, <3>3
  <2> QED
    BY <2>2, <2>3 DEF GistsInOrder
<1>10. CASE ReportExists
  <2>1. /\ ReportFile(ids.show) /\ pc' = "gh" /\ UNCHANGED <<raw, report, torn, gists, count, ids>>
    BY <1>10 DEF ReportExists, Proceed
  <2> QED
    BY <1>s, <2>1 DEF GistsInOrder, ReportFile
<1>11. CASE NoReportToPublish \/ GhUnusable \/ CreateFails \/ NoPreview
  BY <1>11, <1>a DEF NoReportToPublish, GhUnusable, CreateFails, NoPreview, StopPublish, Fail
<1>12. CASE GhAuthenticated
  <2>1. pc = "gh" /\ pc' = "create" /\ UNCHANGED <<raw, report, torn, gists, count, ids>>
    BY <1>12 DEF GhAuthenticated, Proceed
  <2> QED
    BY <1>s, <2>1 DEF GistsInOrder, ReportFile
<1>13. CASE CreateGist
  <2>1. PICK r \in RunIds :
          /\ r = ids.show /\ ids' = ids /\ pc' = "preview" /\ ReportFile(r)
          /\ gists' = Append(gists, <<r, report[r]>>)
          /\ UNCHANGED <<raw, normalized, report, torn, count>>
    BY <1>0, <1>13 DEF CreateGist, GistsInOrder, Steps
  <2>2. report[r] \in Nat /\ <<r, report[r]>> \in RunIds \X Nat
    BY <1>0
  <2>3. Agrees(report[r], r)
    <3>1. raw[r] \in Nat /\ count[r] \in Nat
      BY <1>0
    <3>2. /\ report[r] <= raw[r] /\ InNormalized(report[r], r)
          /\ count[r] <= 1 => report[r] \in {0, raw[r]}
      BY DEF VersionsInOrder
    <3> QED
      BY <2>2, <3>1, <3>2 DEF Agrees
  <2>4. /\ gists' \in Seq(RunIds \X Nat) /\ Len(gists') = Len(gists) + 1
        /\ gists'[Len(gists')] = <<r, report[r]>>
        /\ \A i \in 1 .. Len(gists) : gists'[i] = gists[i]
    BY <1>0, <2>1, <2>2, AppendProperties
  <2>5. ASSUME NEW i \in DOMAIN gists' PROVE Agrees(gists[i][2], gists[i][1])'
    <3>1. i \in 1 .. Len(gists) \/ i = Len(gists')
      BY <1>0, <2>4
    <3>2. CASE i \in 1 .. Len(gists)
      <4>1. gists'[i] = gists[i] /\ i \in DOMAIN gists
        <5>1. DOMAIN gists = 1 .. Len(gists)
          BY <1>0, LenProperties
        <5> QED
          BY <2>4, <3>2, <5>1
      <4>2. Agrees(gists[i][2], gists[i][1])
        BY <1>g, <4>1
      <4> QED
        BY <2>1, <4>1, <4>2 DEF Agrees, InNormalized
    <3>3. CASE i = Len(gists')
      <4>1. gists'[i][1] = r /\ gists'[i][2] = report[r]
        BY <2>4, <3>3
      <4>2. Agrees(report[r], r)'
        BY <2>1, <2>3 DEF Agrees, InNormalized
      <4> QED
        BY <2>1, <4>1, <4>2 DEF Agrees, InNormalized
    <3> QED
      BY <3>1, <3>2, <3>3
  <2>6. gists' # <<>>
    BY <1>0, <2>4
  <2>7. gists'[Len(gists')] = <<ids'.show, report'[ids'.show]>> /\ ReportFile(ids.show)'
    BY <2>1, <2>4 DEF ReportFile
  <2> QED
    BY <2>1, <2>5, <2>6, <2>7 DEF GistsInOrder
<1>14. CASE PrintPreview
  <2>1. pc = "preview" /\ pc' = "end" /\ UNCHANGED <<raw, report, torn, gists, count, ids>>
    BY <1>14 DEF PrintPreview, Proceed
  <2> QED
    BY <1>s, <2>1 DEF GistsInOrder, ReportFile
<1>15. CASE Interrupt \/ Exit
  BY <1>15, <1>a, <1>l DEF Interrupt, Exit
<1>16. CASE UNCHANGED vars
  <2>1. UNCHANGED <<raw, report, torn, gists, count, ids, pc, target, status>>
    BY <1>16 DEF vars
  <2> QED
    BY <1>s, <2>1 DEF GistsInOrder, ReportFile
<1> HIDE DEF progress, make, store, history, Goto
<1> QED
  BY <1>1, <1>2, <1>3, <1>4, <1>5, <1>5a, <1>6, <1>7, <1>7a, <1>8, <1>10, <1>11, <1>12, <1>13,
     <1>14, <1>15, <1>16 DEF Next, Publisher

\* A pipeline hands on, from step to step, what it owes at its end.
LEMMA PipelineInStepStep ==
  /\ TypeOK /\ StepsInStep /\ VersionsInOrder /\ WebsiteInOrder /\ PipelineInStep
  /\ [Next]_vars
  => PipelineInStep'
<1> SUFFICES ASSUME TypeOK, StepsInStep, VersionsInOrder, WebsiteInOrder, PipelineInStep, [Next]_vars
             PROVE  PipelineInStep'
  OBVIOUS
<1>0. /\ runs \in Nat /\ raw \in [RunIds -> Nat] /\ normalized \in [RunIds -> Nat]
      /\ converted \in Nat \X Nat /\ status \in {0, 1} /\ saved \in BOOLEAN /\ failed \in BOOLEAN
      /\ pc # "idle" => ids \in [Steps -> RunIds]
  BY DEF TypeOK
<1>a. ASSUME target' \notin Pipelines \/ pc' = "idle" PROVE PipelineInStep'
  BY <1>a DEF PipelineInStep
<1>p. /\ pc \in {"resolve", "gh", "create", "preview"} => target \notin Pipelines
      /\ target \in Pipelines => target \notin Followups
  BY DEF StepsInStep, Pipelines, Followups
<1>l. Leave => PipelineInStep'
  BY <1>a DEF Leave
<1>s. pc # "idle" => ids.run \in RunIds /\ ids.normalize \in RunIds /\ ids.show \in RunIds
  BY <1>0 DEF Steps
<1> USE DEF progress, make, store, history, Goto
<1>1. CASE Tick
  BY <1>1, <1>a DEF Tick
<1>2. CASE StartPipelineGiven \/ StartPipeline \/ StartFollowup \/ StartPublish
  <2>1. \/ pc' = "note" /\ saved' = FALSE /\ failed' = FALSE /\ status' = 0 /\ raised' = {}
        \/ target' \notin Pipelines
    BY <1>2, TargetStarts DEF Pipelines, Followups
  <2> QED
    BY <2>1, <1>a DEF PipelineInStep
<1>3. CASE NoteRunId
  <2>1. /\ pc = "note" /\ pc' = "run" /\ lastRun' = ids.note
        /\ UNCHANGED <<ids, target, status, saved, failed, raised>>
    BY <1>3 DEF NoteRunId, Keep
  <2> QED
    BY <2>1 DEF PipelineInStep
<1>3a. CASE NoteFails
  BY <1>3a, <1>l DEF NoteFails
<1>4. CASE RunSaves \/ RunRaises
  <2> SUFFICES ASSUME ~Leave, target \in Pipelines PROVE PipelineInStep'
    <3>1. Leave \/ target' = target
      BY <1>4, RunChanges
    <3> QED
      BY <1>a, <1>l, <3>1
  <2>1. /\ pc = "run" /\ ids.run \in RunIds /\ runs' = runs + 1
        /\ \/ raw' = [raw EXCEPT ![ids.run] = runs'] /\ (raw[ids.run] # 0 \/ saved')
           \/ raw' = raw /\ saved' = saved
        /\ UNCHANGED <<target, ids, raised, lastRun, normalized, report, converted, cut>>
        /\ pc' \in {"run", "normalize", "end"}
        /\ pc' = "end" => target = "strict" /\ status' = 1
        /\ failed' \in BOOLEAN
        /\ (status' = 1 /\ failed') \/ (status' = status /\ failed' = failed)
    BY <1>4, RunChanges
  <2>2. lastRun' = ids'.note
    BY <2>1 DEF PipelineInStep
  <2>3. converted[2] <= runs
    <3>1. CASE converted = Nothing
      BY <1>0, <3>1 DEF Nothing
    <3>2. CASE converted # Nothing
      <4>1. PICK q \in RunIds : converted[2] \in 1 .. raw[q]
        BY <3>2 DEF WebsiteInOrder, Converted
      <4>2. raw[q] \in Nat /\ raw[q] <= runs
        BY <1>0 DEF VersionsInOrder
      <4> QED
        BY <1>0, <4>1, <4>2
    <3> QED
      BY <3>1, <3>2
  <2>4. saved' => raw'[ids.run] # 0 /\ converted[2] < raw'[ids.run]
    <3>1. CASE raw' = [raw EXCEPT ![ids.run] = runs']
      <4>1. raw'[ids.run] = runs + 1
        BY <1>0, <2>1, <3>1
      <4>2. converted[2] \in Nat
        BY <1>0
      <4> QED
        BY <1>0, <2>3, <4>1, <4>2
    <3>2. CASE raw' = raw /\ saved' = saved
      BY <2>1, <3>2 DEF PipelineInStep
    <3> QED
      BY <2>1, <3>1, <3>2
  <2>5. target # "strict" => (failed' => status' = 1) /\ (status' = 1 => failed')
    BY <2>1 DEF PipelineInStep
  <2>6. target = "strict" /\ status' = 0 => ~failed' /\ raised' = {} /\ pc' \in {"run", "normalize"}
    BY <2>1 DEF PipelineInStep
  <2>7. target \in {"full", "repeated"} => pc' # "end"
    BY <2>1
  <2> HIDE DEF Goto
  <2> QED
    BY <2>1, <2>2, <2>4, <2>5, <2>6, <2>7 DEF PipelineInStep
<1>5. CASE NormalizeFile
  <2>1. /\ pc = "normalize" /\ pc' = "latest" /\ converted' = <<ids.normalize, raw[ids.normalize]>>
        /\ UNCHANGED <<target, ids, status, lastRun, raw, saved, failed, raised>>
    BY <1>5 DEF NormalizeFile, Keep
  <2> QED
    BY <2>1 DEF PipelineInStep
<1>5a. CASE TearNormalized
  <2> SUFFICES ASSUME ~Leave, target \in Pipelines PROVE PipelineInStep'
    BY <1>5a, <1>a, <1>l, WriteBreaks DEF TearNormalized
  <2>1. /\ pc = "normalize" /\ UNCHANGED <<lastRun, raw, report, converted, cut>>
        /\ Broken("show", "normalized")
    BY <1>5a DEF TearNormalized
  <2>2. /\ UNCHANGED <<target, ids, saved, failed>>
        /\ \/ pc' = "show" /\ status' = status /\ target # "strict"
           \/ pc' = "end" /\ status' = 1 /\ target = "strict"
    BY <1>p, <2>1, WriteBreaks
  <2> QED
    BY <2>1, <2>2 DEF PipelineInStep
<1>6. CASE NormalizeFails
  <2> SUFFICES ASSUME target \in Pipelines PROVE PipelineInStep'
    BY <1>6, <1>a DEF NormalizeFails, AfterStep
  <2>1. /\ pc = "normalize" /\ pc' \in {"show", "end"} /\ (target # "strict" => pc' = "show")
        /\ IF target = "strict" THEN status' = 1 ELSE status' = status
        /\ UNCHANGED <<target, ids, lastRun, raw, normalized, saved, failed, raised, converted, cut>>
    BY <1>6, <1>p DEF NormalizeFails, AfterStep, Keep, Fail
  <2> QED
    BY <2>1 DEF PipelineInStep
<1>7. CASE WriteLatest
  <2> SUFFICES ASSUME target \in Pipelines PROVE PipelineInStep'
    BY <1>7, <1>a DEF WriteLatest, AfterStep
  <2>1. /\ pc = "latest" /\ pc' = "show" /\ cut' = FALSE
        /\ UNCHANGED <<target, ids, status, lastRun, raw, normalized, saved, failed, raised, converted>>
    BY <1>7, <1>p DEF WriteLatest, AfterLatest, AfterStep, Keep, Followups
  <2>2. converted = <<ids.normalize, normalized[ids.normalize]>>
    BY <2>1, <1>7 DEF WriteLatest, WebsiteInOrder
  <2> QED
    BY <2>1, <2>2 DEF PipelineInStep
<1>7a. CASE TearLatest
  <2> SUFFICES ASSUME ~Leave, target \in Pipelines PROVE PipelineInStep'
    BY <1>7a, <1>a, <1>l, WriteBreaks DEF TearLatest
  <2>1. /\ pc = "latest" /\ UNCHANGED <<lastRun, raw, normalized, report, converted>>
        /\ Broken(AfterLatest, "latest") /\ AfterLatest = "show"
    BY <1>7a, <1>p DEF TearLatest, AfterLatest, Followups
  <2>2. /\ UNCHANGED <<target, ids, saved, failed>> /\ "latest" \in raised'
        /\ \/ pc' = "show" /\ status' = status /\ target # "strict"
           \/ pc' = "end" /\ status' = 1 /\ target = "strict"
    BY <1>p, <2>1, WriteBreaks
  <2>3. converted = <<ids.normalize, normalized[ids.normalize]>>
    BY <2>1 DEF WebsiteInOrder
  <2> QED
    BY <2>1, <2>2, <2>3 DEF PipelineInStep
<1>8. CASE Show
  <2> SUFFICES ASSUME target \in Pipelines PROVE PipelineInStep'
    BY <1>8, <1>a DEF Show, AfterStep
  <2>1. PICK bad \in BOOLEAN :
          AfterStep(bad, IF target \in {"full", "repeated"} THEN "report" ELSE "end")
    BY <1>8 DEF Show
  <2>2. /\ pc = "show" /\ pc' \in {"report", "end"}
        /\ target \in {"full", "repeated"} => pc' = "report"
        /\ target = "strict" => pc' = "end" /\ status' \in {status, 1}
        /\ target # "strict" => status' = status
        /\ UNCHANGED <<target, ids, lastRun, raw, normalized, saved, failed, raised, converted, cut>>
    BY <1>8, <1>p, <2>1 DEF Show, AfterStep, Keep, Fail
  <2> QED
    BY <2>2 DEF PipelineInStep
<1>9. CASE WriteReport \/ NoReport
  <2> SUFFICES ASSUME target \in Pipelines PROVE PipelineInStep'
    BY <1>9, <1>a DEF WriteReport, NoReport, AfterStep
  <2>1. /\ pc = "report" /\ pc' = "end" /\ target \in {"full", "repeated"}
        /\ UNCHANGED <<target, ids, status, lastRun, raw, empty, normalized, saved, failed, raised, converted, cut>>
    BY <1>9, <1>p DEF WriteReport, NoReport, AtReport, AfterStep, Keep, StepsInStep, Followups
  <2>2. ids.show \in RunIds
    BY <1>0, <2>1 DEF Steps
  <2>3. HasRows(ids.show) => report'[ids.show] = normalized[ids.show]
    <3>1. report \in [RunIds -> Nat]
      BY DEF TypeOK
    <3> QED
      BY <1>9, <2>2, <3>1 DEF WriteReport, ReportWritten, NoReport
  <2>4. HasRows(ids.show)' => report'[ids'.show] = normalized'[ids'.show]
    BY <2>1, <2>3 DEF HasRows
  <2> QED
    BY <2>1, <2>4 DEF PipelineInStep
<1>9a. CASE TearReport
  <2> SUFFICES ASSUME ~Leave, target \in Pipelines PROVE PipelineInStep'
    BY <1>9a, <1>a, <1>l DEF TearReport
  <2>1. /\ pc = "report" /\ pc' = "end" /\ target \in {"full", "repeated"} /\ "report" \in raised'
        /\ "latest" \in raised => "latest" \in raised'
        /\ UNCHANGED <<target, ids, status, lastRun, raw, normalized, saved, failed, converted, cut>>
    BY <1>9a, <1>p DEF TearReport, AtReport, Keep, StepsInStep, Followups
  <2> QED
    BY <2>1 DEF PipelineInStep
<1>10. CASE Publisher
  <2>1. pc \in {"resolve", "gh", "create", "preview"} /\ (Leave \/ target' = target)
    BY <1>10 DEF Publisher, ReportExists, NoReportToPublish, TryGenerateReport, GenerateFails, GhUnusable,
                GhAuthenticated, CreateFails, CreateGist, NoPreview, PrintPreview, Proceed, StopPublish
  <2> QED
    BY <1>a, <1>l, <1>p, <2>1
<1>11. CASE Interrupt \/ Exit
  BY <1>11, <1>l DEF Interrupt, Exit
<1>12. CASE UNCHANGED vars
  BY <1>12 DEF vars, PipelineInStep, HasRows
<1> HIDE DEF progress, make, store, history, Goto
<1> QED
  BY <1>1, <1>2, <1>3, <1>3a, <1>4, <1>5, <1>5a, <1>6, <1>7, <1>7a, <1>8, <1>9, <1>9a, <1>10,
     <1>11, <1>12 DEF Next

--------------------------------------------------------------------------------
(* The theorems *)

LEMMA InitIInv == Init => IInv
<1> SUFFICES ASSUME Init PROVE IInv
  OBVIOUS
<1> USE PipelineAssumption DEF Init
<1>1. TypeOK
  <2>1. ids \in [Steps -> Nat] /\ clock \in 1 .. MaxClock /\ lastRun \in 0 .. Named
    BY DEF NoIds, Steps, Named
  <2>2. gists \in Seq(RunIds \X Nat)
    OBVIOUS
  <2> QED
    BY <2>1, <2>2 DEF TypeOK, Nothing
<1>2. StepsInStep
  BY DEF StepsInStep, Followups
<1>3. VersionsInOrder
  BY DEF VersionsInOrder, InNormalized
<1>4. WebsiteInOrder
  BY DEF WebsiteInOrder
<1>5. GistsInOrder
  BY DEF GistsInOrder
<1>6. PipelineInStep
  BY DEF PipelineInStep, Pipelines
<1> QED
  BY <1>1, <1>2, <1>3, <1>4, <1>5, <1>6 DEF IInv

LEMMA NextIInv == IInv /\ [Next]_vars => IInv'
BY TypeStep, StepsInStepStep, VersionsInOrderStep, WebsiteInOrderStep, GistsInOrderStep,
   PipelineInStepStep DEF IInv

\* The inductive invariant holds in every state that make, benchctl and the publisher
\* can reach.
THEOREM Invariance == Spec => []IInv
BY InitIInv, NextIInv, PTL DEF Spec

\* However make is interrupted, and whichever file cannot be written, or not to its end:
\* the website shows what was normalized last or was itself not written after that, and
\* never more of a run than was measured and normalized.
THEOREM WebsiteIsCurrent == Spec => []WebsiteCurrent
<1>1. IInv => WebsiteCurrent
  BY DEF IInv, WebsiteInOrder, Converted, InNormalized, WebsiteCurrent
<1> QED
  BY Invariance, <1>1, PTL

\* Reports and gists are of the run they are named after, and publish succeeds only
\* with a gist of the report it was asked for, whole or cut short.
THEOREM PublishedIsCurrent == Spec => []PublishedCurrent
<1>1. IInv => PublishedCurrent
  <2> SUFFICES ASSUME IInv PROVE PublishedCurrent
    OBVIOUS
  <2>1. \A r \in RunIds :
          /\ normalized[r] <= raw[r] /\ report[r] <= raw[r]
          /\ report[r] <= normalized[r] \/ <<"normalized", r>> \in torn
          /\ count[r] <= 1 => {normalized[r], report[r]} \subseteq {0, raw[r]}
    BY DEF IInv, VersionsInOrder, InNormalized
  <2> QED
    BY <2>1 DEF IInv, GistsInOrder, Agrees, PublishedCurrent
<1> QED
  BY Invariance, <1>1, PTL

\* A recipe expands $(RUN_ID) once per line: its steps are of one run iff the four ids
\* are one.
LEMMA OneRun ==
  ASSUME ids \in [Steps -> Nat], Cardinality({ids[step] : step \in DOMAIN ids}) = 1
  PROVE  \A step \in Steps : ids[step] = ids.run
<1> DEFINE S == {ids[step] : step \in DOMAIN ids}
<1>1. S = {ids.note, ids.run, ids.normalize, ids.show}
  BY DEF Steps
<1>2. IsFiniteSet({}) /\ IsFiniteSet({} \cup {ids.note})
  BY FS_EmptySet, FS_AddElement
<1>3. IsFiniteSet({} \cup {ids.note} \cup {ids.run})
  BY <1>2, FS_AddElement
<1>4. IsFiniteSet({} \cup {ids.note} \cup {ids.run} \cup {ids.normalize})
  BY <1>3, FS_AddElement
<1>5. IsFiniteSet({} \cup {ids.note} \cup {ids.run} \cup {ids.normalize} \cup {ids.show})
  BY <1>4, FS_AddElement
<1>6. S = {} \cup {ids.note} \cup {ids.run} \cup {ids.normalize} \cup {ids.show}
  BY <1>1
<1>7. IsFiniteSet(S)
  BY <1>5, <1>6
<1>8. PICK x : S = {x}
  <2> HIDE DEF S
  <2> QED
    BY <1>7, FS_Singleton DEF S
<1>9. \A step \in Steps : ids[step] \in S
  OBVIOUS
<1> QED
  BY <1>8, <1>9 DEF Steps

\* What a pipeline delivers at its end: if its steps meant one run, and that run saved
\* its metadata, then what was made is of this run, and the status tells the rest.
THEOREM PipelinesDeliver == Spec => []PipelineDelivers
<1>1. IInv => PipelineDelivers
  <2> SUFFICES ASSUME IInv, pc = "end", target \in Pipelines, saved,
                      Cardinality({ids[step] : step \in DOMAIN ids}) = 1,
                      NEW r, r = ids.run
               PROVE  LET delivered == converted = <<r, raw[r]>> /\ normalized[r] = raw[r] IN
                      /\ lastRun = r
                      /\ converted = <<r, raw[r]>> =>
                           delivered /\ (latest = <<r, raw[r]>> \/ "latest" \in raised)
                      /\ delivered /\ target \in {"full", "repeated"} /\ raw[r] \notin empty =>
                           report[r] = raw[r] \/ "report" \in raised
                      /\ IF target = "strict" THEN status = 0 => delivered /\ ~failed /\ raised = {}
                         ELSE status = 1 <=> failed
    BY DEF PipelineDelivers
  <2>1. /\ r \in RunIds /\ \A step \in Steps : ids[step] = r
        /\ raw[r] \in Nat /\ normalized[r] \in Nat /\ status \in {0, 1}
    BY OneRun DEF IInv, TypeOK, Steps
  <2>2. ids.note = r /\ ids.normalize = r /\ ids.show = r
    BY <2>1 DEF Steps
  <2>3. lastRun = r /\ raw[r] # 0
    BY <2>2 DEF IInv, PipelineInStep
  <2>4. converted = <<r, raw[r]>> =>
          normalized[r] = raw[r] /\ (latest = <<r, raw[r]>> \/ "latest" \in raised)
    <3> SUFFICES ASSUME converted = <<r, raw[r]>>
                 PROVE  normalized[r] = raw[r] /\ (latest = <<r, raw[r]>> \/ "latest" \in raised)
      OBVIOUS
    <3>1. ~(converted[2] < raw[ids.run])
      BY <2>1
    <3>2. converted = <<r, normalized[r]>> /\ (cut => "latest" \in raised)
      BY <2>2, <3>1 DEF IInv, PipelineInStep
    <3>3. latest = converted \/ cut
      BY DEF IInv, WebsiteInOrder
    <3> QED
      BY <3>2, <3>3
  <2>5. normalized[r] = raw[r] /\ target \in {"full", "repeated"} /\ raw[r] \notin empty =>
          report[r] = raw[r] \/ "report" \in raised
    BY <2>2, <2>3 DEF IInv, PipelineInStep, HasRows
  <2>6. IF target = "strict" THEN status = 0 => converted = <<r, raw[r]>> /\ ~failed /\ raised = {}
        ELSE status = 1 <=> failed
    BY <2>1, <2>2 DEF IInv, PipelineInStep
  <2> QED
    BY <2>3, <2>4, <2>5, <2>6
<1> QED
  BY Invariance, <1>1, PTL

================================================================================
