-------------------------- MODULE GracefulShutdown --------------------------
(***************************************************************************)
(* `dispatch server shutdown`: a second process that drains, cancels every *)
(* job without a final state, waits for final states until a deadline, and *)
(* stops the server.  It works on the ledger and the drain file of the     *)
(* server, which serves requests until it is stopped, and like the server  *)
(* it locks nothing: it reads records, commands the schedulers, and writes *)
(* whole records back.                                                     *)
(*                                                                         *)
(* The command runs once.  It sees the same SCHED_ORCH_ENABLE_* variables  *)
(* as the server.  Sleeping and printing are no steps.                     *)
(***************************************************************************)
EXTENDS JobServerProps

CONSTANTS
    Options,    \* command line options an operator may give
    Deadline    \* may the graceful timeout pass?

OptionNames == {"no_drain", "no_cancel", "no_slurm_cancel", "no_direct_cancel"}

ASSUME OptionsAssumption == Options \subseteq OptionNames
ASSUME DeadlineAssumption == Deadline \in BOOLEAN

VARIABLES
    step,     \* where the command is
    opts,     \* the options it was given
    ignored,  \* the jobs with records older than --ignore-older-than-hours
    mine,     \* its private copies of records
    left,     \* jobs of the loop it is in still to be handled
    expired,  \* has the graceful timeout passed?
    result,   \* "none", "clean" or "timed_out"
    early,    \* history: submissions in flight when drain was written
    late      \* history: jobs for which a command was started after the timeout

watched == <<early, late>>
command == <<step, opts, ignored, mine, left, expired, result>>
allVars == <<vars, command, watched>>

Steps == {"off", "drain", "snapshot", "cancel", "mark", "round", "refresh", "keep",
          "stop", "ended"}

ShutdownTypeOK ==
    /\ TypeOK
    /\ step \in Steps
    /\ opts \subseteq Options
    /\ ignored \subseteq Jobs
    /\ mine \in [Jobs -> Slots]
    /\ left \subseteq Jobs
    /\ expired \in BOOLEAN
    /\ result \in {"none", "clean", "timed_out"}
    /\ early \subseteq Jobs
    /\ late \subseteq Direct

ShutdownInit ==
    /\ Init
    /\ step = "off" /\ opts = {} /\ ignored = {}
    /\ mine = Nothing /\ left = {}
    /\ expired = FALSE /\ result = "none"
    /\ early = {} /\ late = {}

-----------------------------------------------------------------------------
(* The pieces of its steps.                                                *)

\* Mutant of Pending: only the jobs that are seen running.
PendingRunning == {j \in Jobs \ ignored : ledger[j].state = "running"}

\* get_non_terminal_records, less the ignored ones.
Pending == {j \in Jobs \ ignored : Exists(j) /\ ledger[j].state \notin TerminalStates}

\* The loop over the jobs S starts, with a copy of each record.
Loop(S, label) ==
    /\ mine' = [j \in Jobs |-> IF j \in S THEN ledger[j] ELSE NoRecord]
    /\ left' = S
    /\ step' = label

\* The loop is done with job j; after the last one the next round begins.
Handled(j, label) ==
    /\ mine' = [mine EXCEPT ![j] = NoRecord]
    /\ left' = left \ {j}
    /\ step' = IF left = {j} THEN "round" ELSE label

\* Mutant of WriteMine: the copy is written after it was given up.
WriteMineLate(j) ==
    /\ ledger' = [ledger EXCEPT ![j] = NoRecord]
    /\ stale' = [q \in Procs |-> IF copy[q][j] # NoRecord THEN stale[q] \cup {j} ELSE stale[q]]

WriteMine(j) ==
    /\ ledger' = [ledger EXCEPT ![j] = mine[j]]
    /\ stale' = [q \in Procs |-> IF copy[q][j] # NoRecord THEN stale[q] \cup {j} ELSE stale[q]]

-----------------------------------------------------------------------------
(* Drain.                                                                  *)

Begin ==
    /\ step = "off"
    /\ opts' \in SUBSET Options
    /\ ignored' \in SUBSET {j \in Jobs : Exists(j)}
    /\ IF "no_drain" \in opts'
       THEN step' = "snapshot" /\ UNCHANGED drain
       ELSE step' = "drain" /\ drain' = "torn"
    /\ UNCHANGED <<server, ledger, acked, jobs, handler, stale, mine, left, expired, result>>

WriteDrainOn ==
    /\ step = "drain"
    /\ drain' = "on"
    /\ step' = "snapshot"
    /\ UNCHANGED <<server, ledger, acked, jobs, handler, stale,
                   opts, ignored, mine, left, expired, result>>

-----------------------------------------------------------------------------
(* Cancel.                                                                 *)

Snapshot ==
    /\ step = "snapshot"
    /\ IF "no_cancel" \in opts \/ Pending = {}
       THEN step' = "round" /\ UNCHANGED <<mine, left>>
       ELSE Loop(Pending, "cancel")
    /\ UNCHANGED <<vars, opts, ignored, expired, result>>

\* May the command cancel j, and can it name the job to the scheduler?
Cancelable(j) ==
    IF Slurm(j) THEN "no_slurm_cancel" \notin opts /\ mine[j].sid
                ELSE "no_direct_cancel" \notin opts

\* No cancel command is run; the copy goes back with the reason in it.
CancelNot(j) ==
    /\ step = "cancel" /\ First(j, left) /\ ~Cancelable(j)
    /\ WriteMine(j)
    /\ Handled(j, "cancel")
    /\ UNCHANGED <<server, drain, acked, jobs, handler, opts, ignored, expired, result>>

\* scancel or systemctl stop, with the execution gates open: killed or failed, or
\* killed with the answer lost.  The copy keeps its state in each case.
CancelOne(j) ==
    /\ step = "cancel" /\ First(j, left) /\ Cancelable(j)
    /\ \/ killed' = [killed EXCEPT ![j] = TRUE]
       \/ ("kill_error" \in Faults \/ sched[j] \notin LiveStates) /\ UNCHANGED killed
    /\ step' = "mark"
    /\ UNCHANGED <<server, files, sched, hasty, handler, stale,
                   opts, ignored, mine, left, expired, result>>

\* Mutants of Mark: the request is marked as the state of the job, by a name of its own or
\* as canceled.
MarkState(j, state) ==
    /\ step = "mark" /\ First(j, left)
    /\ ledger' = [ledger EXCEPT ![j] = [mine[j] EXCEPT !.state = state]]
    /\ Handled(j, "cancel")
    /\ UNCHANGED <<server, drain, acked, jobs, handler, stale, opts, ignored, expired, result>>
MarkRequested(j) == MarkState(j, "cancel_requested")
MarkCanceled(j)  == MarkState(j, "canceled")

Mark(j) ==
    /\ step = "mark" /\ First(j, left)
    /\ WriteMine(j)
    /\ Handled(j, "cancel")
    /\ UNCHANGED <<server, drain, acked, jobs, handler, opts, ignored, expired, result>>

-----------------------------------------------------------------------------
(* Wait.  The timeout is counted from the end of the cancel loop.          *)

Expire ==
    /\ Deadline /\ ~expired
    /\ step \in {"round", "refresh", "keep"}
    /\ expired' = TRUE
    /\ UNCHANGED <<vars, step, opts, ignored, mine, left, result>>

Finish(outcome) ==
    /\ result' = outcome
    /\ step' = "stop"
    /\ UNCHANGED <<mine, left>>

\* Mutant of Round: another round as long as there is something to wait for.
RoundPatient ==
    /\ step = "round"
    /\ \/ Pending = {} /\ Finish("clean")
       \/ Pending # {} /\ Loop(Pending, "refresh") /\ UNCHANGED result
    /\ UNCHANGED <<vars, opts, ignored, expired>>

Round ==
    /\ step = "round"
    /\ \/ Pending = {} /\ Finish("clean")
       \/ Pending # {} /\ expired /\ Finish("timed_out")
       \/ Pending # {} /\ ~expired /\ Loop(Pending, "refresh") /\ UNCHANGED result
    /\ UNCHANGED <<vars, opts, ignored, expired>>

\* refresh_job gets its third argument by position.  Slurm's takes it by keyword only
\* and the direct one raises when its gate is closed; either error is swallowed.
RefreshFails(j) ==
    /\ step = "refresh" /\ First(j, left)
    /\ Slurm(j) \/ "direct_refresh" \notin Gates
    /\ Handled(j, "refresh")
    /\ UNCHANGED <<vars, opts, ignored, expired, result>>

\* Mutant of RefreshDirect: a query that times out is repeated.
RefreshDirectAgain(j) ==
    /\ step = "refresh" /\ First(j, left)
    /\ ~Slurm(j) /\ "direct_refresh" \in Gates
    /\ \/ /\ \E s \in Answers(j) :
                mine' = [mine EXCEPT ![j] = ApplyShow(@, s, "inference" \in Gates)]
          /\ Answered(j)
          /\ step' = "keep"
       \/ "query_timeout" \in Faults /\ UNCHANGED <<mine, step, hasty>>
    /\ UNCHANGED <<server, files, sched, killed, handler, stale,
                   opts, ignored, left, expired, result>>

\* systemctl show, which may time out.
RefreshDirect(j) ==
    /\ step = "refresh" /\ First(j, left)
    /\ ~Slurm(j) /\ "direct_refresh" \in Gates
    /\ \/ /\ \E s \in Answers(j) :
                mine' = [mine EXCEPT ![j] = ApplyShow(@, s, "inference" \in Gates)]
          /\ Answered(j)
          /\ step' = "keep"
          /\ UNCHANGED left
       \/ "query_timeout" \in Faults /\ Handled(j, "refresh") /\ UNCHANGED hasty
    /\ UNCHANGED <<server, files, sched, killed, handler, stale,
                   opts, ignored, expired, result>>

KeepDirect(j) ==
    /\ step = "keep" /\ First(j, left)
    /\ WriteMine(j)
    /\ Handled(j, "refresh")
    /\ UNCHANGED <<server, drain, acked, jobs, handler, opts, ignored, expired, result>>

-----------------------------------------------------------------------------
(* Stop: SIGTERM and, after a while, SIGKILL.  The handlers still at work  *)
(* then are gone.  A server that no pid file leads to goes on.             *)

Stop ==
    /\ step = "stop"
    /\ step' = "ended"
    /\ \/ server' = "down" /\ ForgetHandlers
       \/ UNCHANGED <<server, handler, stale>>
    /\ UNCHANGED <<files, jobs, opts, ignored, mine, left, expired, result>>

-----------------------------------------------------------------------------
ShutdownStep ==
    \/ Begin \/ WriteDrainOn \/ Snapshot \/ Round \/ Stop
    \/ \E j \in Jobs : \/ CancelNot(j) \/ CancelOne(j) \/ Mark(j)
                       \/ RefreshFails(j) \/ RefreshDirect(j) \/ KeepDirect(j)

\* The history: what slipped past the drain, and what the timeout did not stop.
Watch ==
    /\ early' = IF step = "drain" /\ step' = "snapshot"
                THEN {job[p] : p \in {q \in Workers : pc[q] \in {"launch", "commit"}}}
                ELSE early
    /\ late' = late \cup {j \in Jobs : expired /\ RefreshDirect(j)}

\* The server and the schedulers, until the server is stopped for good.
ServerStep ==
    /\ Next
    /\ step = "ended" => server' = server
    /\ UNCHANGED command

ShutdownNext ==
    /\ ServerStep \/ ShutdownStep \/ Expire
    /\ Watch

ShutdownSpec == ShutdownInit /\ [][ShutdownNext]_allVars

-----------------------------------------------------------------------------
(* Properties.                                                             *)

CancelsDone == step \in {"round", "refresh", "keep", "stop", "ended"}
MayCancel(j) ==
    {"no_cancel", IF Slurm(j) THEN "no_slurm_cancel" ELSE "no_direct_cancel"} \cap opts = {}

\* Once the cancel loop is through, and for every job once the result is clean, a job
\* that still runs has been told to stop or was in flight when drain was written:
\* nothing slips through between the drain, the snapshot and the handlers at work, unless
\* a queued unit was asked about and taken for one that succeeded.
\* (Where no answer is lost or wrong, the server does not die between sbatch and the record
\* and nobody else sets drain or stops jobs; and for the jobs that are not ignored.)
Undisturbed == /\ "drain" \notin Requests
               /\ Faults \cap {"launch_timeout", "kill_error", "query_error", "foreign_cancel",
                               "crash"} = {}
NothingLeftRunning ==
    Undisturbed /\ CancelsDone /\ "no_drain" \notin opts
    => \A j \in Jobs \ ignored :
          sched[j] \in LiveStates =>
              \/ killed[j] \/ j \in early \/ hasty[j]
              \/ result # "clean" /\ ~MayCancel(j)

\* Drain lets in only the submissions that were in flight when it was written.
DrainStopsAdmissions ==
    [][\A j \in Jobs :
          /\ "drain" \notin Requests /\ drain = "on"
          /\ sched[j] = "NONE" /\ sched'[j] # "NONE"
          => j \in early]_allVars

\* The timeout is tested between rounds only, so commands are still started after it, but
\* no more than one for each direct job.
OneRoundOverrun == [][\A j \in Jobs : expired /\ RefreshDirect(j) => j \notin late]_allVars

\* Every command and every file access of shutdown ends, and time passes.
CommandGoesOn == WF_command(ShutdownStep) /\ WF_command(Expire)
FairShutdown  == ShutdownSpec /\ CommandGoesOn

\* Shutdown ends, whatever the server, the schedulers and the jobs do meanwhile.
ShutdownEnds == step # "off" ~> step = "ended"

\* The same with handlers that go on and jobs that end.
PatientShutdown == FairShutdown /\ HandlersGoOn /\ JobsEnd

\* "Mark cancellation requested; refresh below will converge to a scheduler terminal
\* state."
RefreshConverges ==
    step = "round" /\ (\A j \in Jobs : sched[j] \notin LiveStates) ~> result = "clean"
=============================================================================
