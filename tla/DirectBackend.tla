---------------------------- MODULE DirectBackend ----------------------------
(***************************************************************************)
(* The observer of direct jobs (transient systemd units) as pure           *)
(* operators: what `systemctl show` may print for a unit (external), and   *)
(* the state inferred from it.                                             *)
(***************************************************************************)
EXTENDS JobStates

\* The five properties asked for; "" and NoExit: not printed, "active": active, activating
\* or reloading, exit code 1: any but 0.
ScopeReports == [load   : {"loaded", "not-found", ""},
                 active : {"active", "deactivating", "inactive", "failed", "not-found", ""},
                 sub    : {"running", "stop", "dead", "failed", ""},
                 result : {"success", "exit-code", "signal", ""},
                 exit   : ExitCodes]

Scope(load, active, sub, result, exit) ==
    [load |-> load, active |-> active, sub |-> sub, result |-> result, exit |-> exit]

\* A unit that ended is garbage-collected sooner or later, after which systemd
\* knows nothing of it or still reports a zero ExecMainStatus.
GoneReports == {Scope("not-found", "not-found", "", "", NoExit),
                Scope("not-found", "inactive", "dead", "success", 0)}

\* A unit that is told to stop is deactivating until its processes are gone; meanwhile the
\* status is that of a unit that runs.
Stopping(exit) == Scope("loaded", "deactivating", "stop", "success", exit)

\* s: the job; stopping: may its unit have been told to stop?  ExecMainStatus is 0 from
\* the start: while the unit is queued (systemd-run --no-block does not wait), runs or is
\* being stopped.  The query does not check the exit status of systemctl: a failed one
\* prints nothing.
ShowReports(s, stopping, faults) ==
    (CASE s = "PENDING"   -> {Scope("loaded", "inactive", "dead", "success", 0)}
       [] s = "RUNNING"   -> {Scope("loaded", "active", "running", "success", 0)}
                             \cup (IF stopping THEN {Stopping(0)} ELSE {})
       [] s = "COMPLETED" -> GoneReports \cup
                             {Scope("loaded", "inactive", "dead", "success", 0)}
       [] s = "FAILED"    -> GoneReports \cup
                             {Scope("loaded", "failed", "failed", "exit-code", 1)}
       [] s = "CANCELLED" -> GoneReports \cup
                             {Stopping(e) : e \in {0, 1}} \cup
                             {Scope("loaded", "inactive", "dead", "success", e) : e \in {0, 1}} \cup
                             {Scope("loaded", "failed", "failed", "signal", 1)}
       [] OTHER           -> GoneReports)
    \cup (IF "query_error" \in faults THEN {Scope("", "", "", "", NoExit)} ELSE {})

\* Mutant of Observed: an exit code is trusted although the unit is still active.
ObservedEager(exit, scope) ==
    CASE exit = 0                 -> "succeeded"
      [] exit = 1                 -> "failed"
      [] scope.load = "not-found" -> "unknown"
      [] OTHER                    -> "running"

\* What the exit code and the properties say by themselves; "none": nothing.
Observed(exit, scope) ==
    LET up   == scope.active = "active"
        down == scope.active \in {"inactive", "failed", "deactivating"}
    IN  IF ~up /\ exit # NoExit           THEN IF exit = 0 THEN "succeeded" ELSE "failed"
        ELSE IF scope.load = "not-found"  THEN "unknown"
        ELSE IF up                        THEN "running"
        ELSE IF down /\ scope.result = "success"                 THEN "succeeded"
        ELSE IF down /\ scope.result \in {"exit-code", "signal"} THEN "failed"
        ELSE IF down /\ scope.sub \in {"dead", "failed"}         THEN "unknown"
        ELSE "none"

\* Mutant of Infer: a known success is forgotten.
InferForgetful(state, exit, scope) == Observed(exit, scope)

\* infer_direct_job_state_from_scope: a success stands, unless the unit is seen running.
Infer(state, exit, scope) ==
    LET seen == Observed(exit, scope)
    IN  IF state = "succeeded" /\ seen \in {"failed", "unknown"} THEN state ELSE seen

\* refresh_direct_record_from_systemctl_show, up to the write.
ApplyShow(rec, scope, inferring) ==
    LET seen     == WithExit(rec, scope.exit)
        inferred == Infer(seen.state, seen.exit, scope)
    IN  IF inferring /\ inferred # "none" THEN [seen EXCEPT !.state = inferred] ELSE seen

\* A record bulk refresh looks at: no final state is recorded.
DirectEligible(rec) == rec.state \in JobStateNames \ TerminalStates
=============================================================================
