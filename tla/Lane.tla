--------------------------------- MODULE Lane ----------------------------------
(***************************************************************************)
(* What run_benchmarks relies on when it runs its API lanes one after the  *)
(* other: a lane leaves one result file, either with every cell measured   *)
(* or with an error, before it returns; its exit code is 0 exactly for the *)
(* first; the file of a lane that has returned no longer changes; and a    *)
(* lane that does not return ends the whole run.                           *)
(***************************************************************************)
EXTENDS Naturals

CONSTANT Lanes  (* the number of lanes of a run *)

VARIABLES
  current,  (* the lane being run, Lanes + 1 after the last one            *)
  file,     (* per lane: what is in its result file                        *)
  code,     (* per lane: its exit code, Unknown before it returns          *)
  aborted   (* has an exception ended the run?                             *)

lvars == <<current, file, code, aborted>>

Unknown == 2

LInit ==
  /\ current = 1
  /\ file = [l \in 1 .. Lanes |-> "absent"]
  /\ code = [l \in 1 .. Lanes |-> Unknown]
  /\ aborted = FALSE

LActive == current <= Lanes /\ ~aborted

LWrite ==
  /\ LActive
  /\ file[current] = "absent"
  /\ \E f \in {"results", "error"} : file' = [file EXCEPT ![current] = f]
  /\ UNCHANGED <<current, code, aborted>>

LReturn ==
  /\ LActive
  /\ file[current] # "absent"
  /\ code' = [code EXCEPT ![current] = IF file[current] = "results" THEN 0 ELSE 1]
  /\ current' = current + 1
  /\ UNCHANGED <<file, aborted>>

LAbort ==
  /\ LActive
  /\ aborted' = TRUE
  /\ UNCHANGED <<current, file, code>>

LNext == LWrite \/ LReturn \/ LAbort

LSpec == LInit /\ [][LNext]_lvars

===============================================================================
