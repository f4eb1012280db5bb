--------------------------- MODULE LaneRunner_proofs ----------------------------
(***************************************************************************)
(* Proofs about LaneRunner, for any number of lanes of any kinds and any   *)
(* number of cells: its type invariant, that cells and servers are cleaned *)
(* up on every path, and that the lanes implement Lane.                    *)
(***************************************************************************)
EXTENDS LaneRunner, TLAPS

(***************************************************************************)
(* The inductive invariant                                                 *)
(***************************************************************************)

InTry == {"wait", "nextCell", "load", "loadDone", "loadFailed", "except"}
InFinally == {"finally", "stopGroup", "waitGroup", "leave"}

\* Where the runner can be: there is a lane until the last one has returned, and an
\* exception that nothing catches ends the run.
RunnerInStep ==
  /\ pc # "exited" => current \in LaneIds
  /\ pc = "exited" /\ current \in LaneIds => aborted
  /\ aborted => pc = "exited"
  /\ interrupt => pc \in {"loadFailed", "exited"} \cup InFinally
  /\ InCell => done < Cells

\* In a cell there is the one sampler of this cell, and rows can be in the table; out
\* of it there is none, and rows only if they could not be truncated.
CellInStep ==
  /\ sampler = IF InCell THEN {<<current, done + 1>>} ELSE {}
  /\ table = "rows" /\ truncated => InCell /\ Api(current) = "http.db-write"

\* Every lane has its process from Launch on, and has none that lives when it leaves.
LeaderInStep ==
  \A l \in LaneIds :
    /\ l > current \/ (l = current /\ pc = "prepare") => leader[l] = "none" /\ server[l] = "none"
    /\ l = current /\ pc \in InTry \cup InFinally => leader[l] # "none"
    /\ Left(l) \/ (l = current /\ pc = "leave") => leader[l] # "alive"

\* A server that is the process benchctl has started does not outlive it.
ServerFollowsLeader ==
  \A l \in LaneIds :
    Mode(l) = "hostExec" /\ server[l] \in {"starting", "up"} => leader[l] = "alive"

\* From the docker stop of a lane on, its container exists only if this stop failed.
ContainerInStep ==
  \A l \in LaneIds :
    Docker(l) /\ server[l] \in {"starting", "up"} =>
      \/ l = current /\ pc \in InTry \cup {"finally"}
      \/ l \in unstopped

\* The file of a lane is written once, before the finally clause, unless the lane was
\* interrupted.
FileInStep ==
  \A l \in LaneIds :
    /\ l > current \/ (l = current /\ pc \in {"prepare"} \cup InTry) => file[l] = "absent"
    /\ l = current /\ pc \in InFinally /\ ~interrupt => file[l] # "absent"

IInv ==
  /\ TypeOK
  /\ RunnerInStep
  /\ CellInStep
  /\ LeaderInStep
  /\ ServerFollowsLeader
  /\ ContainerInStep
  /\ FileInStep

--------------------------------------------------------------------------------
(* Each conjunct is kept by each step *)

\* What may happen to order_writes is well typed.
LEMMA CleanupType ==
  ASSUME TypeOK, Cleanup
  PROVE  /\ table' \in {"empty", "rows", "late"} /\ orphans' \subseteq LaneIds
         /\ truncated' \in BOOLEAN
BY DEF TypeOK, Cleanup

\* So is what a load leaves behind in it.
LEMMA InsertType ==
  ASSUME TypeOK, current \in LaneIds, Insert
  PROVE  table' \in {"empty", "rows", "late"} /\ orphans' \subseteq LaneIds
BY DEF TypeOK, Insert

\* Every step keeps every variable in its type.
LEMMA TypeStep == TypeOK /\ RunnerInStep /\ [Next]_vars => TypeOK'
<1> SUFFICES ASSUME TypeOK, RunnerInStep, [Next]_vars PROVE TypeOK'
  OBVIOUS
<1>0. /\ pc # "exited" => current \in LaneIds
      /\ InCell => done < Cells
  BY DEF RunnerInStep
<1> USE <1>0, LaneAssumption DEF TypeOK, lane, procs, storage, result, LaneIds
<1>1. CASE PrepareRaises
  BY <1>1 DEF PrepareRaises
<1>2. CASE Launch
  BY <1>2 DEF Launch
<1>3. CASE ServerAnswers \/ ServerSilent
  BY <1>3 DEF ServerAnswers, ServerSilent
<1>4. CASE StartCell
  <2>1. current \in LaneIds /\ done + 1 \in 1 .. Cells
    BY <1>4 DEF StartCell
  <2> QED
    BY <1>4, <2>1, CleanupType DEF StartCell
<1>5. CASE LoadSucceeds \/ LoadFails
  BY <1>5, InsertType DEF LoadSucceeds, LoadFails
<1>6. CASE EndCell
  BY <1>6, CleanupType DEF EndCell, InCell
<1>7. CASE WriteResults \/ WriteError \/ ResultsRaise \/ ErrorRaises
  BY <1>7 DEF WriteResults, WriteError, WriteFile, ResultsRaise, ErrorRaises
<1>8. CASE StopContainer
  BY <1>8 DEF StopContainer
<1>9. CASE GroupAlreadyGone \/ GroupExits
  BY <1>9 DEF GroupAlreadyGone, GroupExits
<1>10. CASE Terminate
  BY <1>10 DEF Terminate
<1>11. CASE Kill
  BY <1>11 DEF Kill
<1>12. CASE Leave
  <2>1. CASE interrupt
    BY <1>12, <2>1 DEF Leave
  <2>2. CASE ~interrupt
    BY <1>12, <2>2 DEF Leave
  <2> QED
    BY <2>1, <2>2
<1>13. CASE Interrupted
  BY <1>13, InsertType DEF Interrupted
<1>14. CASE ServerStep
  <2>1. PICK l \in LaneIds : ServerStarts(l) \/ ServerDies(l) \/ LeaderNotices(l)
    BY <1>14 DEF ServerStep
  <2>2. CASE ServerStarts(l)
    BY <2>2 DEF ServerStarts
  <2>3. CASE ServerDies(l)
    BY <2>3 DEF ServerDies
  <2>4. CASE LeaderNotices(l)
    BY <2>4 DEF LeaderNotices
  <2> QED
    BY <2>1, <2>2, <2>3, <2>4
<1>15. CASE LateInsert
  BY <1>15 DEF LateInsert
<1>16. CASE UNCHANGED vars
  BY <1>16 DEF vars
<1> HIDE DEF TypeOK, lane, procs, storage, result, LaneIds
<1> QED
  BY <1>1, <1>2, <1>3, <1>4, <1>5, <1>6, <1>7, <1>8, <1>9, <1>10, <1>11, <1>12, <1>13,
     <1>14, <1>15, <1>16 DEF Next, RunnerStep, Finished

\* Every step keeps the runner in step.
LEMMA RunnerInStepStep == TypeOK /\ RunnerInStep /\ [Next]_vars => RunnerInStep'
<1> SUFFICES ASSUME TypeOK, RunnerInStep, [Next]_vars PROVE RunnerInStep'
  OBVIOUS
<1> USE LaneAssumption DEF RunnerInStep, InFinally, lane, procs, storage, result, LaneIds, InCell
<1>0. current \in 1 .. Lanes + 1 /\ done \in 0 .. Cells
  BY DEF TypeOK
<1>1. CASE PrepareRaises
  BY <1>1 DEF PrepareRaises
<1>2. CASE Launch
  BY <1>2 DEF Launch
<1>3. CASE ServerAnswers \/ ServerSilent
  BY <1>3 DEF ServerAnswers, ServerSilent
<1>4. CASE StartCell
  BY <1>4 DEF StartCell
<1>5. CASE LoadSucceeds \/ LoadFails
  BY <1>5 DEF LoadSucceeds, LoadFails
<1>6. CASE EndCell
  BY <1>0, <1>6 DEF EndCell
<1>7. CASE WriteResults \/ WriteError \/ ResultsRaise \/ ErrorRaises
  BY <1>7 DEF WriteResults, WriteError, WriteFile, ResultsRaise, ErrorRaises
<1>8. CASE StopContainer
  BY <1>8 DEF StopContainer
<1>9. CASE GroupAlreadyGone \/ GroupExits
  BY <1>9 DEF GroupAlreadyGone, GroupExits
<1>10. CASE Terminate
  BY <1>10 DEF Terminate
<1>11. CASE Kill
  BY <1>11 DEF Kill
<1>12. CASE Leave
  BY <1>0, <1>12 DEF Leave
<1>13. CASE Interrupted
  BY <1>13 DEF Interrupted
<1>14. CASE ServerStep
  BY <1>14 DEF ServerStep, ServerStarts, ServerDies, LeaderNotices
<1>15. CASE LateInsert
  BY <1>15 DEF LateInsert
<1>16. CASE UNCHANGED vars
  BY <1>16 DEF vars
<1> HIDE DEF RunnerInStep, InFinally, lane, procs, storage, result, LaneIds, InCell
<1> QED
  BY <1>1, <1>2, <1>3, <1>4, <1>5, <1>6, <1>7, <1>8, <1>9, <1>10, <1>11, <1>12, <1>13,
     <1>14, <1>15, <1>16 DEF Next, RunnerStep, Finished

\* Only the steps inside a cell, its beginning and its end touch the sampler or fill
\* the table: every step keeps the cells bracketed.
LEMMA CellInStepStep == TypeOK /\ CellInStep /\ [Next]_vars => CellInStep'
<1> SUFFICES ASSUME TypeOK, CellInStep, [Next]_vars PROVE CellInStep'
  OBVIOUS
<1>0. current \in Nat /\ done \in Nat /\ table \in {"empty", "rows", "late"}
  BY LaneAssumption DEF TypeOK
<1> USE DEF CellInStep, lane, procs, storage, result, InCell, Api
<1>1. CASE StartCell
  BY <1>0, <1>1 DEF StartCell, Cleanup
<1>2. CASE LoadSucceeds \/ LoadFails
  BY <1>0, <1>2 DEF LoadSucceeds, LoadFails, Insert
<1>3. CASE EndCell
  BY <1>0, <1>3 DEF EndCell, Cleanup
<1>4. CASE Interrupted
  BY <1>0, <1>4 DEF Interrupted, Insert
<1>5. CASE LateInsert
  BY <1>5 DEF LateInsert
<1>6. CASE ServerStep
  BY <1>6 DEF ServerStep, ServerStarts, ServerDies, LeaderNotices
<1>7. CASE PrepareRaises \/ Launch \/ ServerAnswers \/ ServerSilent
  BY <1>7 DEF PrepareRaises, Launch, ServerAnswers, ServerSilent
<1>8. CASE WriteResults \/ WriteError \/ ResultsRaise \/ ErrorRaises
  BY <1>8 DEF WriteResults, WriteError, WriteFile, ResultsRaise, ErrorRaises
<1>9. CASE StopContainer \/ GroupAlreadyGone \/ Terminate
  BY <1>9 DEF StopContainer, GroupAlreadyGone, Terminate
<1>10. CASE GroupExits \/ Kill
  BY <1>10 DEF GroupExits, Kill
<1>11. CASE Leave
  BY <1>11 DEF Leave
<1>12. CASE UNCHANGED vars
  BY <1>12 DEF vars
<1> HIDE DEF CellInStep, lane, procs, storage, result, InCell, Api
<1> QED
  BY <1>1, <1>2, <1>3, <1>4, <1>5, <1>6, <1>7, <1>8, <1>9, <1>10, <1>11, <1>12
     DEF Next, RunnerStep, Finished

\* No step loses a process that has been started, nor leaves one alive.
LEMMA LeaderInStepStep ==
  TypeOK /\ RunnerInStep /\ LeaderInStep /\ [Next]_vars => LeaderInStep'
<1> SUFFICES ASSUME TypeOK, RunnerInStep, LeaderInStep, [Next]_vars PROVE LeaderInStep'
  OBVIOUS
<1>0. /\ current \in 1 .. Lanes + 1
      /\ pc # "exited" => current \in LaneIds
      /\ server \in [LaneIds -> {"none", "starting", "up", "gone"}]
      /\ leader \in [LaneIds -> {"none", "alive", "exited"}]
  BY DEF TypeOK, RunnerInStep
<1> USE <1>0, LaneAssumption
        DEF LeaderInStep, Left, InTry, InFinally, lane, procs, storage, result, LaneIds
<1>1. CASE PrepareRaises
  BY <1>1 DEF PrepareRaises
<1>2. CASE Launch
  BY <1>2 DEF Launch
<1>3. CASE ServerAnswers \/ ServerSilent
  BY <1>3 DEF ServerAnswers, ServerSilent
<1>4. CASE StartCell
  BY <1>4 DEF StartCell
<1>5. CASE LoadSucceeds \/ LoadFails
  BY <1>5 DEF LoadSucceeds, LoadFails
<1>6. CASE EndCell
  BY <1>6 DEF EndCell
<1>7. CASE WriteResults \/ WriteError \/ ResultsRaise \/ ErrorRaises
  BY <1>7 DEF WriteResults, WriteError, WriteFile, ResultsRaise, ErrorRaises
<1>8. CASE StopContainer
  BY <1>8 DEF StopContainer
<1>9. CASE GroupAlreadyGone \/ GroupExits
  BY <1>9 DEF GroupAlreadyGone, GroupExits
<1>10. CASE Terminate
  BY <1>10 DEF Terminate
<1>11. CASE Kill
  BY <1>11 DEF Kill
<1>12. CASE Leave
  BY <1>12 DEF Leave
<1>13. CASE Interrupted
  BY <1>13 DEF Interrupted
<1>14. CASE ServerStep
  BY <1>14 DEF ServerStep, ServerStarts, ServerDies, LeaderNotices
<1>15. CASE LateInsert
  BY <1>15 DEF LateInsert
<1>16. CASE UNCHANGED vars
  BY <1>16 DEF vars
<1> HIDE DEF LeaderInStep, Left, InTry, InFinally, lane, procs, storage, result, LaneIds
<1> QED
  BY <1>1, <1>2, <1>3, <1>4, <1>5, <1>6, <1>7, <1>8, <1>9, <1>10, <1>11, <1>12, <1>13,
     <1>14, <1>15, <1>16 DEF Next, RunnerStep, Finished

\* No step ends a process without the server that depends on it.
LEMMA ServerFollowsLeaderStep ==
  TypeOK /\ RunnerInStep /\ ServerFollowsLeader /\ [Next]_vars => ServerFollowsLeader'
<1> SUFFICES ASSUME TypeOK, RunnerInStep, ServerFollowsLeader, [Next]_vars
             PROVE  ServerFollowsLeader'
  OBVIOUS
<1>0. /\ current \in 1 .. Lanes + 1
      /\ pc # "exited" => current \in LaneIds
      /\ kind \in [LaneIds -> Kinds]
      /\ server \in [LaneIds -> {"none", "starting", "up", "gone"}]
      /\ leader \in [LaneIds -> {"none", "alive", "exited"}]
  BY DEF TypeOK, RunnerInStep
<1> USE <1>0 DEF ServerFollowsLeader, lane, procs, storage, result
<1>1. CASE Launch
  BY <1>1 DEF Launch, Mode
<1>2. CASE StopContainer
  BY <1>2 DEF StopContainer, Mode
<1>3. CASE Terminate
  BY <1>3 DEF Terminate, Mode
<1>4. CASE Kill
  BY <1>4 DEF Kill, Mode, Docker
<1>5. CASE ServerStep
  BY <1>5 DEF ServerStep, ServerStarts, ServerDies, LeaderNotices, Mode, Docker
<1>6. CASE UNCHANGED <<kind, server, leader>>
  BY <1>6 DEF Mode
<1>7. CASE PrepareRaises \/ ServerAnswers \/ ServerSilent \/ StartCell
  BY <1>6, <1>7 DEF PrepareRaises, ServerAnswers, ServerSilent, StartCell
<1>8. CASE LoadSucceeds \/ LoadFails \/ EndCell
  BY <1>6, <1>8 DEF LoadSucceeds, LoadFails, EndCell
<1>11. CASE WriteResults \/ WriteError \/ ResultsRaise \/ ErrorRaises
  BY <1>6, <1>11 DEF WriteResults, WriteError, WriteFile, ResultsRaise, ErrorRaises
<1>9. CASE GroupAlreadyGone \/ GroupExits \/ Leave
  BY <1>6, <1>9 DEF GroupAlreadyGone, GroupExits, Leave
<1>10. CASE Interrupted \/ LateInsert \/ UNCHANGED vars
  BY <1>6, <1>10 DEF Interrupted, LateInsert, vars
<1> HIDE DEF ServerFollowsLeader, lane, procs, storage, result
<1> QED
  BY <1>1, <1>2, <1>3, <1>4, <1>5, <1>7, <1>8, <1>9, <1>10, <1>11
     DEF Next, RunnerStep, Finished

\* No step but a docker stop that fails leaves a container behind.
LEMMA ContainerInStepStep ==
  TypeOK /\ RunnerInStep /\ LeaderInStep /\ ContainerInStep /\ [Next]_vars => ContainerInStep'
<1> SUFFICES ASSUME TypeOK, RunnerInStep, LeaderInStep, ContainerInStep, [Next]_vars
             PROVE  ContainerInStep'
  OBVIOUS
<1>0. /\ current \in 1 .. Lanes + 1
      /\ pc # "exited" => current \in LaneIds
      /\ kind \in [LaneIds -> Kinds]
      /\ server \in [LaneIds -> {"none", "starting", "up", "gone"}]
      /\ pc = "prepare" => server[current] = "none"
  BY DEF TypeOK, RunnerInStep, LeaderInStep
<1> USE <1>0 DEF ContainerInStep, InTry, Docker, Mode, lane, procs, storage, result
<1>1. CASE PrepareRaises \/ Launch
  BY <1>1 DEF PrepareRaises, Launch
<1>2. CASE ServerAnswers \/ ServerSilent \/ StartCell
  BY <1>2 DEF ServerAnswers, ServerSilent, StartCell
<1>3. CASE LoadSucceeds \/ LoadFails
  BY <1>3 DEF LoadSucceeds, LoadFails
<1>4. CASE EndCell
  BY <1>4 DEF EndCell
<1>5. CASE WriteResults \/ WriteError \/ ResultsRaise \/ ErrorRaises
  BY <1>5 DEF WriteResults, WriteError, WriteFile, ResultsRaise, ErrorRaises
<1>6. CASE StopContainer
  BY <1>6 DEF StopContainer
<1>7. CASE GroupAlreadyGone \/ Terminate \/ GroupExits
  BY <1>7 DEF GroupAlreadyGone, Terminate, GroupExits
<1>8. CASE Kill
  BY <1>8 DEF Kill
<1>9. CASE Leave
  BY <1>9 DEF Leave
<1>10. CASE Interrupted
  BY <1>10 DEF Interrupted
<1>11. CASE ServerStep
  BY <1>11 DEF ServerStep, ServerStarts, ServerDies, LeaderNotices
<1>12. CASE LateInsert \/ UNCHANGED vars
  BY <1>12 DEF LateInsert, vars
<1> HIDE DEF ContainerInStep, InTry, Docker, Mode, lane, procs, storage, result
<1> QED
  BY <1>1, <1>2, <1>3, <1>4, <1>5, <1>6, <1>7, <1>8, <1>9, <1>10, <1>11, <1>12
     DEF Next, RunnerStep, Finished

\* No step writes a second file for a lane, nor skips the first.
LEMMA FileInStepStep ==
  TypeOK /\ RunnerInStep /\ FileInStep /\ [Next]_vars => FileInStep'
<1> SUFFICES ASSUME TypeOK, RunnerInStep, FileInStep, [Next]_vars PROVE FileInStep'
  OBVIOUS
<1>0. /\ current \in 1 .. Lanes + 1
      /\ pc # "exited" => current \in LaneIds
      /\ interrupt => pc \in {"loadFailed", "exited"} \cup InFinally
      /\ file \in [LaneIds -> {"absent", "results", "error"}]
  BY DEF TypeOK, RunnerInStep
<1> USE <1>0, LaneAssumption
        DEF FileInStep, InTry, InFinally, lane, procs, storage, result, LaneIds
<1>1. CASE PrepareRaises
  BY <1>1 DEF PrepareRaises
<1>2. CASE Launch
  BY <1>2 DEF Launch
<1>3. CASE ServerAnswers \/ ServerSilent
  BY <1>3 DEF ServerAnswers, ServerSilent
<1>4. CASE StartCell
  BY <1>4 DEF StartCell
<1>5. CASE LoadSucceeds \/ LoadFails
  BY <1>5 DEF LoadSucceeds, LoadFails
<1>6. CASE EndCell
  BY <1>6 DEF EndCell
<1>7. CASE WriteResults \/ WriteError \/ ResultsRaise \/ ErrorRaises
  BY <1>7 DEF WriteResults, WriteError, WriteFile, ResultsRaise, ErrorRaises
<1>8. CASE StopContainer
  BY <1>8 DEF StopContainer
<1>9. CASE GroupAlreadyGone \/ GroupExits
  BY <1>9 DEF GroupAlreadyGone, GroupExits
<1>10. CASE Terminate
  BY <1>10 DEF Terminate
<1>11. CASE Kill
  BY <1>11 DEF Kill
<1>12. CASE Leave
  BY <1>12 DEF Leave
<1>13. CASE Interrupted
  BY <1>13 DEF Interrupted
<1>14. CASE ServerStep
  BY <1>14 DEF ServerStep, ServerStarts, ServerDies, LeaderNotices
<1>15. CASE LateInsert
  BY <1>15 DEF LateInsert
<1>16. CASE UNCHANGED vars
  BY <1>16 DEF vars
<1> HIDE DEF FileInStep, InTry, InFinally, lane, procs, storage, result, LaneIds
<1> QED
  BY <1>1, <1>2, <1>3, <1>4, <1>5, <1>6, <1>7, <1>8, <1>9, <1>10, <1>11, <1>12, <1>13,
     <1>14, <1>15, <1>16 DEF Next, RunnerStep, Finished

--------------------------------------------------------------------------------
(* The theorems *)

\* The invariant holds of the initial states, ...
LEMMA InitIInv == Init => IInv
<1> SUFFICES ASSUME Init PROVE IInv
  OBVIOUS
<1> USE LaneAssumption DEF Init, LaneIds
<1>1. TypeOK
  <2>1. /\ sampler \subseteq LaneIds \X (1 .. Cells)
        /\ orphans \subseteq LaneIds /\ unstopped \subseteq LaneIds
    OBVIOUS
  <2>2. current \in 1 .. Lanes + 1 /\ done \in 0 .. Cells
    OBVIOUS
  <2>3. truncated \in BOOLEAN /\ interrupt \in BOOLEAN /\ aborted \in BOOLEAN
    OBVIOUS
  <2>4. /\ server \in [LaneIds -> {"none", "starting", "up", "gone"}]
        /\ leader \in [LaneIds -> {"none", "alive", "exited"}]
        /\ file \in [LaneIds -> {"absent", "results", "error"}]
        /\ code \in [LaneIds -> 0 .. 2]
    BY DEF Unknown
  <2> QED
    BY <2>1, <2>2, <2>3, <2>4 DEF TypeOK
<1>2. RunnerInStep /\ CellInStep
  BY DEF RunnerInStep, CellInStep, InCell, InFinally
<1>3. LeaderInStep /\ ServerFollowsLeader /\ ContainerInStep
  BY DEF LeaderInStep, ServerFollowsLeader, ContainerInStep, Left, InTry, InFinally
<1>4. FileInStep
  BY DEF FileInStep, InTry, InFinally
<1> QED
  BY <1>1, <1>2, <1>3, <1>4 DEF IInv

\* ... and every step keeps it.
LEMMA NextIInv == IInv /\ [Next]_vars => IInv'
BY TypeStep, RunnerInStepStep, CellInStepStep, LeaderInStepStep, ServerFollowsLeaderStep,
   ContainerInStepStep, FileInStepStep DEF IInv

\* A lane is always where the invariant says, with what the invariant says it has
\* started, written and still to clean up.
THEOREM Invariance == Spec => []IInv
BY InitIInv, NextIInv, PTL DEF Spec

\* The variables keep their types: no counter leaves its range, no lane of the run is
\* passed over.
THEOREM TypeCorrect == Spec => []TypeOK
<1>1. IInv => TypeOK
  BY DEF IInv
<1> QED
  BY Invariance, <1>1, PTL

\* However a load ends, its sampler has been stopped and its rows truncated, unless the
\* truncate failed.
THEOREM CellsAreBracketed == Spec => []CellsBracketed
<1>1. IInv => CellsBracketed
  BY DEF IInv, TypeOK, CellInStep, CellsBracketed
<1> QED
  BY Invariance, <1>1, PTL

\* No server that the shell became survives its lane, and no container unless docker
\* stop failed.
THEOREM ServersAreStopped == Spec => []ServerStopped
<1>1. ASSUME IInv PROVE ServerStopped
  <2> SUFFICES ASSUME NEW l \in LaneIds, Leftover(l), Mode(l) # "hostFork"
               PROVE  Docker(l) /\ l \in unstopped
    BY DEF ServerStopped
  <2>1. leader[l] # "alive" /\ server[l] \in {"starting", "up"} /\ Left(l)
    BY <1>1 DEF IInv, LeaderInStep, Leftover
  <2>2. Mode(l) \in {"hostExec", "hostFork", "docker"} /\ current \in Nat
    BY <1>1, LaneAssumption DEF IInv, TypeOK, Mode, Kinds
  <2>3. Docker(l)
    BY <1>1, <2>1, <2>2 DEF IInv, ServerFollowsLeader, Docker
  <2>4. ~ (l = current /\ pc \in InTry \cup {"finally"})
    BY <2>1, <2>2 DEF Left, InTry, LaneIds
  <2> QED
    BY <1>1, <2>1, <2>3, <2>4 DEF IInv, ContainerInStep
<1> QED
  BY Invariance, <1>1, PTL

\* A step of the runner is a step of Lane or changes nothing that Lane speaks of: the
\* file is written once, before the lane returns, and the exit code follows the file.
LEMMA StepRefines == IInv /\ [Next]_vars => [L!LNext]_(L!lvars)
<1> SUFFICES ASSUME IInv, [Next]_vars PROVE [L!LNext]_(L!lvars)
  OBVIOUS
<1>0. /\ current \in 1 .. Lanes + 1
      /\ pc # "exited" => current \in LaneIds
      /\ aborted => pc = "exited"
      /\ aborted \in BOOLEAN
      /\ file \in [LaneIds -> {"absent", "results", "error"}]
      /\ FileInStep
  BY DEF IInv, TypeOK, RunnerInStep
<1>1. pc # "exited" => L!LActive
  BY <1>0, LaneAssumption DEF L!LActive, LaneIds
<1> USE <1>0, <1>1 DEF lane, procs, storage, result
<1>2. CASE PrepareRaises \/ (Leave /\ interrupt)
  <2>1. L!LAbort
    BY <1>2 DEF PrepareRaises, Leave, L!LAbort
  <2> QED
    BY <2>1 DEF L!LNext
<1>3. CASE Leave /\ ~interrupt
  <2>1. L!LReturn
    BY <1>3 DEF Leave, L!LReturn, FileInStep, InFinally
  <2> QED
    BY <2>1 DEF L!LNext
<1>4. CASE WriteResults \/ WriteError
  <2>1. L!LWrite
    BY <1>4 DEF WriteResults, WriteError, WriteFile, L!LWrite, FileInStep, InTry
  <2> QED
    BY <2>1 DEF L!LNext
<1>5. CASE UNCHANGED <<current, file, code, aborted>>
  BY <1>5 DEF L!lvars
<1>6. CASE Launch \/ ServerAnswers \/ ServerSilent \/ StartCell \/ EndCell
  BY <1>5, <1>6 DEF Launch, ServerAnswers, ServerSilent, StartCell, EndCell
<1>7. CASE LoadSucceeds \/ LoadFails \/ StopContainer \/ GroupAlreadyGone \/ Terminate
  BY <1>5, <1>7 DEF LoadSucceeds, LoadFails, StopContainer, GroupAlreadyGone, Terminate
<1>8. CASE GroupExits \/ Kill \/ Interrupted \/ LateInsert \/ UNCHANGED vars
  BY <1>5, <1>8 DEF GroupExits, Kill, Interrupted, LateInsert, vars
<1>10. CASE ResultsRaise \/ ErrorRaises
  BY <1>5, <1>10 DEF ResultsRaise, ErrorRaises
<1>9. CASE ServerStep
  BY <1>5, <1>9 DEF ServerStep, ServerStarts, ServerDies, LeaderNotices
<1> HIDE DEF lane, procs, storage, result
<1> QED
  BY <1>2, <1>3, <1>4, <1>6, <1>7, <1>8, <1>9, <1>10 DEF Next, RunnerStep, Finished

\* The lanes keep every promise of Lane, whatever the servers do.
THEOREM Refinement == Spec => ImplementsLane
<1>1. Init => L!LInit
  BY DEF Init, L!LInit, Unknown, L!Unknown, LaneIds
<1> QED
  BY Invariance, <1>1, StepRefines, PTL DEF Spec, ImplementsLane, L!LSpec

================================================================================
