------------------------------ MODULE JobStates ------------------------------
(***************************************************************************)
(* The vocabulary of the job ledger and of the two schedulers.             *)
(*                                                                         *)
(* A ledger record is a JSON object of some twenty fields.  Three of them  *)
(* steer the program and are kept: the state, whether a scheduler_job_id   *)
(* is present, and the exit code.  Timestamps, the spec, the submission    *)
(* diagnostics and the cached scheduler properties are left out: the code  *)
(* writes them and never branches on them (the cached properties of a      *)
(* direct unit are overwritten by the call that reads them).               *)
(***************************************************************************)
EXTENDS Integers

\* Every value the code stores in record["state"].
JobStateNames == {"accepted", "blocked", "submitted", "running",
                  "succeeded", "failed", "canceled", "unknown"}

TerminalStates == {"blocked", "failed", "canceled", "succeeded"}

\* No exit_code yet; 1 stands for every nonzero code.
NoExit == -1
ExitCodes == {NoExit, 0, 1}

Records == [state : JobStateNames, sid : BOOLEAN, exit : ExitCodes]

\* The job has no file in the ledger (or a handler holds no copy of it).
NoRecord == [state |-> "absent", sid |-> FALSE, exit |-> NoExit]

Slots == Records \cup {NoRecord}

WithExit(rec, code) == IF code = NoExit THEN rec ELSE [rec EXCEPT !.exit = code]

(***************************************************************************)
(* What has become of a job at its scheduler (Slurm, or systemd for a      *)
(* direct job).  "NONE": never handed over.                                *)
(***************************************************************************)
LiveStates == {"PENDING", "RUNNING"}
EndStates  == {"COMPLETED", "FAILED", "CANCELLED"}
SchedStates == {"NONE"} \cup LiveStates \cup EndStates
=============================================================================
