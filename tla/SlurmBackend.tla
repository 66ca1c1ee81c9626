---------------------------- MODULE SlurmBackend ----------------------------
(***************************************************************************)
(* The Slurm observer as pure operators: what squeue, sacct and scontrol   *)
(* may answer for a job (external), and what each answer does to the       *)
(* handler's copy of the record.                                           *)
(***************************************************************************)
EXTENDS JobStates

\* A state column.  "OTHER" is any name the mapping does not know, such as
\* SUSPENDED or sacct's "CANCELLED by 1000" (the name of the user who cancelled
\* comes with the state); "" is an empty answer, a failed command or one that
\* timed out.
SlurmStates == (SchedStates \ {"NONE"}) \cup {"OTHER", ""}

\* dispatch_state_from_slurm_state, on the classes of names it tells apart.
DispatchState(s) ==
    CASE s = "PENDING"   -> "submitted"
      [] s = "RUNNING"   -> "running"
      [] s = "COMPLETED" -> "succeeded"
      [] s = "CANCELLED" -> "canceled"
      [] s = "FAILED"    -> "failed"
      [] OTHER           -> "none"

\* Mutants of ApplyState: an unknown name clears the state; a pending job is recorded as
\* blocked; a recorded cancellation is not respected.
ApplyStateUnmapped(rec, s) ==
    IF s = "" \/ rec.state = "canceled" THEN rec ELSE [rec EXCEPT !.state = DispatchState(s)]
ApplyStatePending(rec, s) == IF s = "PENDING" THEN [rec EXCEPT !.state = "blocked"] ELSE rec
ApplyStateAlways(rec, s) ==
    IF DispatchState(s) = "none" THEN rec ELSE [rec EXCEPT !.state = DispatchState(s)]

\* A copy that already says canceled keeps its state.
ApplyState(rec, s) ==
    IF DispatchState(s) = "none" \/ rec.state = "canceled"
    THEN rec
    ELSE [rec EXCEPT !.state = DispatchState(s)]

Rows == [state : SlurmStates, exit : ExitCodes]

\* Mutants of ApplyRow: the exit code is not kept; the exit code decides (a job killed by
\* a signal has 0:15).
ApplyRowNoExit(rec, row) == ApplyState(rec, row.state)
ApplyRowByExit(rec, row) ==
    ApplyState(WithExit(rec, row.exit),
               CASE row.exit = 0 -> "COMPLETED" [] row.exit = 1 -> "FAILED" [] OTHER -> "")

\* A row of sacct or scontrol: exit code and state, or nothing at all.
ApplyRow(rec, row) ==
    IF row.state = "" THEN rec ELSE ApplyState(WithExit(rec, row.exit), row.state)

\* squeue lists live jobs only.
SqueueReports(s, faults) ==
    {a \in SlurmStates :
        \/ a = s /\ s \in LiveStates
        \/ a = "" /\ (s \notin LiveStates \/ "query_error" \in faults)
        \/ a = "OTHER" /\ s \in LiveStates /\ "unmapped" \in faults}

\* Only a failed job has a nonzero code, and a job killed by a signal or by a
\* time limit fails with code 0.
RowExits(s) == IF s = "FAILED" THEN {0, 1} ELSE {0}

\* scontrol show job, and sacct but for the text of a cancellation.
AccountingRows(s, faults) ==
    {r \in Rows :
        \/ /\ r.state = "" /\ r.exit = NoExit
           /\ s = "NONE" \/ "query_error" \in faults
        \/ /\ s # "NONE" /\ r.exit \in RowExits(s)
           /\ r.state = s \/ (r.state = "OTHER" /\ "unmapped" \in faults)}

\* sacct, asked for State: a cancelled job is "CANCELLED by" somebody as a rule, and plain
\* CANCELLED at times, fault or no fault.  scontrol's JobState has no such addition.
SacctRows(s, faults) ==
    AccountingRows(s, IF s = "CANCELLED" THEN faults \cup {"unmapped"} ELSE faults)

\* Mutant of SlurmEligible: final records are refreshed as well.
SlurmEligibleAny(rec) == rec.sid

\* A record bulk refresh looks at: it has a scheduler id and is not final.
SlurmEligible(rec) == rec.sid /\ rec.state \notin TerminalStates
=============================================================================
