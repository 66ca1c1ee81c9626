---------------------------- MODULE JobServerProps ----------------------------
(***************************************************************************)
(* What the server must guarantee, over the machine of JobServer.          *)
(***************************************************************************)
EXTENDS JobServer

-----------------------------------------------------------------------------
(* Safety of single states.                                                *)

\* A submission answered 202 is on disk for good, crash or no crash, and one that
\* Slurm was to run carries its scheduler id there unless drain or a missing payload
\* blocked it: no later handler, however old its copy, loses the id.
AcknowledgedIsTracked ==
    \A j \in acked :
        /\ Exists(j)
        /\ Slurm(j) /\ "exec" \in Gates => ledger[j].sid \/ ledger[j].state = "blocked"

\* What Slurm holds of j can be found from the ledger, or is about to be written there.
Tracked(j) ==
    sched[j] # "NONE" => \/ ledger[j].sid
                         \/ \E p \in Procs : pc[p] = "commit" /\ job[p] = j /\ copy[p][j].sid

\* As long as the server does not crash and sbatch's answer is not lost, every job Slurm
\* holds is tracked.
SubmittedIsTracked ==
    Faults \cap {"crash", "launch_timeout"} = {} => \A j \in Jobs \ Direct : Tracked(j)

\* A Slurm job is recorded as succeeded only if it completed, and with exit code 0,
\* whatever the order in which concurrent refreshes and cancellations write.
SuccessIsReal ==
    \A j \in Jobs \ Direct : ledger[j].state = "succeeded" =>
        sched[j] = "COMPLETED" /\ ledger[j].exit = 0

\* A job is recorded as canceled only after the scheduler accepted a cancel command for
\* it or reported it cancelled: no canceled job is left to run on undisturbed.
CanceledWasKilled ==
    \A j \in Jobs : ledger[j].state = "canceled" => killed[j] \/ sched[j] = "CANCELLED"

\* A submission that was not admitted is never executed.
BlockedNeverRuns ==
    \A j \in Jobs : ledger[j].state = "blocked" => sched[j] = "NONE"

\* ExecMainStatus reads 0 from the start, and there are three ways in which it makes a job
\* that is not over succeed in the record: its unit was asked about while it was queued, it
\* was asked about while it was being stopped, or a query failed.  The order of refreshes,
\* queries that time out and overtaken copies add no fourth.
DirectSuccessExplained ==
    "query_error" \notin Faults =>
        \A j \in Direct : ledger[j].state = "succeeded" /\ sched[j] \in LiveStates =>
            hasty[j] \/ Stoppable(j)

-----------------------------------------------------------------------------
(* Action properties.                                                      *)

\* The handler p lets go of its copy of job j in this step: it has written it.
Releases(p, j) == copy[p][j] # NoRecord /\ copy'[p][j] = NoRecord

\* A state in S becomes one in T only by the hand of a cancellation, or of a handler
\* whose copy was overtaken by another write.
LostOnlyToStale(j, S, T) ==
    ledger[j].state \in S /\ ledger'[j].state \in T =>
        \E p \in Procs : Releases(p, j) /\ (pc[p] = "killwrite" \/ j \in stale[p])

\* A refresh of a Slurm job that read the record after the cancellation was recorded
\* keeps it, whatever the scheduler reports.
CancelLostOnlyToStale ==
    [][\A j \in Jobs \ Direct :
          LostOnlyToStale(j, {"canceled"}, JobStateNames \ {"canceled"})]_vars

\* A refresh of a direct job does not regress a success that it has read, however
\* little the later observations show.
SuccessLostOnlyToStale ==
    [][\A j \in Direct : LostOnlyToStale(j, {"succeeded"}, {"failed", "unknown"})]_vars

\* Bulk refresh, by request or at startup, rewrites no record in a terminal state
\* unless that state was recorded after it read the ledger.
BulkSparesTerminal ==
    [][\A j \in Jobs :
          ledger[j].state \in TerminalStates /\ ledger'[j] # ledger[j] =>
              \E p \in Procs : Releases(p, j) /\ (pc[p] \in {"write", "killwrite"}
                                                  \/ j \in stale[p])]_vars

\* A record never disappears, and whether the record of a Slurm job carries a scheduler id
\* is decided once: no write of a handler, however old its copy, adds or loses the id.
SchedulerIdKept ==
    [][\A j \in Jobs : Exists(j) =>
          Exists(j)' /\ (Slurm(j) => ledger'[j].sid = ledger[j].sid)]_vars

\* A Slurm job that no record will tell of comes about in two ways only: the server goes down
\* between sbatch and the write of the record, or sbatch's answer does not come.  No other
\* fault, restart or reconciliation loses a job.
OrphanedOnlyInFlight ==
    [][\A j \in Jobs \ Direct : Tracked(j) /\ ~Tracked(j)' =>
          \E p \in Procs :
              /\ job[p] = j
              /\ \/ pc[p] = "commit" /\ server' = "down"
                 \/ pc[p] = "launch" /\ "launch_timeout" \in Faults]_vars

\* A drain file without a text, on which every submission fails, has a writer; it is left
\* behind only by a crash between the truncation and the write.
DrainTorn == drain = "torn" /\ \A p \in Procs : pc[p] \notin {"drain_on", "drain_off"}
DrainTornOnlyByCrash == [][~DrainTorn /\ DrainTorn' => server' = "down"]_vars

-----------------------------------------------------------------------------
(* The promise to clients, job by job: JobService.                         *)

VerdictOn(state) ==
    IF state \in {"absent", "blocked", "succeeded", "canceled"} THEN state ELSE "open"

Service == INSTANCE JobService WITH
    SlurmJobs <- Jobs \ Direct,
    Executing <- "exec" \in Gates,
    verdict   <- [j \in Jobs |-> VerdictOn(ledger[j].state)],
    named     <- {j \in Jobs \ Direct : ledger[j].sid},
    fate      <- sched,
    told      <- killed,
    answered  <- acked

\* Whatever handlers, crashes and restarts do in whatever order, no job is handed over twice
\* or after it was entered, and no write, however old the copy, makes the ledger say of a job
\* what has no ground.
ImplementsService == Service!Spec

-----------------------------------------------------------------------------
(* Liveness.  Every scheduler command has a timeout, so a handler always   *)
(* goes on; Slurm runs what it accepted; clients poll.                     *)

HandlersGoOn == \A p \in Procs : WF_vars(Continue(p))
JobsEnd      == \A j \in Jobs : WF_vars(SchedStep(j))
PollEach     == \A j \in Jobs : SF_vars(\E p \in Workers : Get(p, j))
PollList     == SF_vars(\E p \in Workers : List(p))

GetSpec  == Spec /\ HandlersGoOn /\ JobsEnd /\ PollEach
ListSpec == Spec /\ HandlersGoOn /\ JobsEnd /\ PollList

\* The end of a Slurm job that ended by itself and that the ledger knows of is recorded in
\* the end, and stays recorded once the handlers with older copies are through.
EndedByItself(j) == sched[j] \in {"COMPLETED", "FAILED"}
EndIsRecorded ==
    \A j \in Jobs \ Direct :
        (EndedByItself(j) /\ ledger[j].sid) ~> [](ledger[j].state \in TerminalStates)

\* While clients poll, such a job comes to be recorded with its own outcome (time and
\* again, should a late cancel command that fails mark it failed), or as canceled.
Outcome(j) == IF sched[j] = "COMPLETED" THEN "succeeded" ELSE "failed"
OutcomeIsRecorded ==
    \A j \in Jobs \ Direct :
        (EndedByItself(j) /\ ledger[j].sid) ~> (ledger[j].state \in {Outcome(j), "canceled"})

-----------------------------------------------------------------------------
(* What the repository says of the program and the program does not do.    *)

\* "Do not override explicit cancel state recorded by the API."
CancelIsSticky ==
    [][\A j \in Jobs \ Direct :
          ledger[j].state = "canceled" /\ ledger'[j].state # "canceled" =>
              \E p \in Procs : Releases(p, j) /\ pc[p] = "killwrite"]_vars

\* "If we have an exit code, trust it for terminal inference as long as the unit is not
\* currently active."
\* (Of units that were not asked about before they started, and that nobody stops.)
NoSuccessWhileActive ==
    \A j \in Direct :
        ledger[j].state = "succeeded" /\ sched[j] = "RUNNING" => hasty[j] \/ Stoppable(j)
=============================================================================
