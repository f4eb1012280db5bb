------------------------------ MODULE Measurement ------------------------------
(***************************************************************************)
(* What a load generator promises to its caller (benchctl.py), whatever    *)
(* goroutines it uses to keep the promise: it makes requests, each of      *)
(* which succeeds or fails once; it reports at most once, and the report   *)
(* carries exactly the totals reached, with one latency sample for every   *)
(* request that succeeded; its exit status is 0 only for a reported        *)
(* measurement in which something succeeded and nothing failed.            *)
(***************************************************************************)
EXTENDS Naturals

VARIABLES
  succeeded,  (* requests of the measured run that have succeeded so far   *)
  failed,     (* requests of the measured run that have failed so far      *)
  report,     (* <<requests, failures, samples>> once computed, else <<>>  *)
  status      (* exit status of the process, Running before it exits       *)

mvars == <<succeeded, failed, report, status>>

Running == 3

MInit ==
  /\ succeeded = 0
  /\ failed = 0
  /\ report = <<>>
  /\ status = Running

\* The process gives up before it measures anything: bad flags, no connection.
MReject ==
  /\ report = <<>> /\ status = Running
  /\ succeeded = 0 /\ failed = 0
  /\ status' \in {1, 2}
  /\ UNCHANGED <<succeeded, failed, report>>

MSucceed ==
  /\ report = <<>> /\ status = Running
  /\ succeeded' = succeeded + 1
  /\ UNCHANGED <<failed, report, status>>

MFail ==
  /\ report = <<>> /\ status = Running
  /\ failed' = failed + 1
  /\ UNCHANGED <<succeeded, report, status>>

MReport ==
  /\ report = <<>> /\ status = Running
  /\ report' = <<succeeded, failed, succeeded>>
  /\ UNCHANGED <<succeeded, failed, status>>

MExit ==
  /\ report # <<>> /\ status = Running
  /\ status' \in {0, 1}
  /\ status' = 0 => succeeded > 0 /\ failed = 0
  /\ UNCHANGED <<succeeded, failed, report>>

MNext == MReject \/ MSucceed \/ MFail \/ MReport \/ MExit

MSpec == MInit /\ [][MNext]_mvars

===============================================================================
