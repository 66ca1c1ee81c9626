------------------------------ MODULE JobServer ------------------------------
(***************************************************************************)
(* The server: request handlers on a pool of threads, the job ledger, the  *)
(* drain file, the two schedulers, crash and restart.                      *)
(*                                                                         *)
(* A handler is a private copy of some records and a program counter.  It  *)
(* runs in steps cut where the code touches what others touch: the read of *)
(* a file, each scheduler command, each write of a record.  Nothing is     *)
(* locked, so any number of handlers interleave at these points.  A        *)
(* request that ends before its first effect (401, 404, a closed gate, a   *)
(* malformed spec, a drain file that does not parse) changes nothing and   *)
(* is no step; nor are the handlers that only read.                        *)
(*                                                                         *)
(* A scheduler command takes effect and is answered in one step.  Faults   *)
(* says which misbehaviours the environment shows in an instance, Requests *)
(* which requests clients send, Gates which SCHED_ORCH_ENABLE_* are set.   *)
(***************************************************************************)
EXTENDS SlurmBackend, DirectBackend, FiniteSets

CONSTANTS
    Jobs,        \* server_job_ids, in the order their files sort
    Direct,      \* the jobs whose execution_backend is "direct"; others are "slurm"
    Workers,     \* threads of the pool
    Boot,        \* the startup reconciliation, run before the pool
    Gates, Requests, Faults,
    BulkMax, StartupMax     \* SCHED_ORCH_*_MAX_JOBS, any numbers

GateNames == {"exec", "direct_exec", "direct_cancel", "direct_refresh",
              "inference", "bulk", "startup"}
RequestNames == {"submit", "get", "list", "cancel", "drain"}
FaultNames == {"launch_error", "launch_timeout", "query_error", "query_timeout",
               "unmapped", "kill_error", "kill_timeout", "foreign_cancel", "crash"}

ASSUME JobsAssumption == Jobs \subseteq Nat \ {0} /\ Direct \subseteq Jobs
ASSUME BootAssumption == Boot \notin Workers
ASSUME NamesAssumption == /\ Gates \subseteq GateNames
                          /\ Requests \subseteq RequestNames
                          /\ Faults \subseteq FaultNames
ASSUME CapsAssumption == BulkMax \in Int /\ StartupMax \in Int

NoJob == 0
Procs == Workers \cup {Boot}

VARIABLES
    server,  \* "down", "starting" (reconciling) or "up"
    drain,   \* the drain file: "absent", "torn" (truncated), "on" or "off"
    ledger,  \* the record on disk of each job
    sched,   \* what has become of each job at its scheduler
    killed,  \* has the scheduler accepted a cancel command for the job?
    hasty,   \* history: has the unit of a direct job been queried before it started?
    pc,      \* where each handler is
    job,     \* the job it is about
    copy,    \* its private copies of records
    todo,    \* bulk refresh: jobs left to query one by one
    out,     \* bulk refresh: Slurm jobs whose copies are still to be written
    acked,   \* history: jobs whose submission was answered 202
    stale    \* history: copies whose record was written by others since the read

files   == <<drain, ledger, acked>>
jobs    == <<sched, killed, hasty>>
handler == <<pc, job, copy, todo, out>>
vars    == <<server, files, jobs, handler, stale>>

PCs == {"idle", "launch", "commit", "squeue", "sacct", "scontrol", "show", "write",
        "kill", "killwrite", "bshow", "bshowwrite", "bsqueue", "bsacct", "bwrite",
        "drain_on", "drain_off"}

TypeOK ==
    /\ server \in {"down", "starting", "up"}
    /\ drain \in {"absent", "torn", "on", "off"}
    /\ ledger \in [Jobs -> Slots]
    /\ sched \in [Jobs -> SchedStates]
    /\ killed \in [Jobs -> BOOLEAN]
    /\ hasty \in [Jobs -> BOOLEAN]
    /\ pc \in [Procs -> PCs]
    /\ job \in [Procs -> Jobs \cup {NoJob}]
    /\ copy \in [Procs -> [Jobs -> Slots]]
    /\ todo \in [Procs -> SUBSET Jobs]
    /\ out \in [Procs -> SUBSET Jobs]
    /\ acked \subseteq Jobs
    /\ stale \in [Procs -> SUBSET Jobs]

Nothing == [j \in Jobs |-> NoRecord]

Init ==
    /\ server = "up" /\ drain = "absent"
    /\ ledger = Nothing
    /\ sched = [j \in Jobs |-> "NONE"]
    /\ killed = [j \in Jobs |-> FALSE]
    /\ hasty = [j \in Jobs |-> FALSE]
    /\ pc = [p \in Procs |-> "idle"]
    /\ job = [p \in Procs |-> NoJob]
    /\ copy = [p \in Procs |-> Nothing]
    /\ todo = [p \in Procs |-> {}]
    /\ out = [p \in Procs |-> {}]
    /\ acked = {}
    /\ stale = [p \in Procs |-> {}]

-----------------------------------------------------------------------------
(* Handlers: starting, moving on, returning, writing.                      *)

Slurm(j) == j \notin Direct
Exists(j) == ledger[j] # NoRecord
First(j, S) == j \in S /\ \A k \in S : j <= k

Idle(p) == p \in Workers /\ server = "up" /\ pc[p] = "idle"

ExecutionEnabled(j) == IF Slurm(j) THEN "exec" \in Gates ELSE "direct_exec" \in Gates

Goto(p, label) == pc' = [pc EXCEPT ![p] = label]

\* The handler takes up job j with the copy r of its record.
TakeUp(p, j, r, label) ==
    /\ Goto(p, label)
    /\ job' = [job EXCEPT ![p] = j]
    /\ copy' = [copy EXCEPT ![p] = [Nothing EXCEPT ![j] = r]]
    /\ UNCHANGED <<todo, out, stale>>

\* The handler goes on with r in place of its copy of j.
Keep(p, j, r, label) ==
    /\ Goto(p, label)
    /\ copy' = [copy EXCEPT ![p][j] = r]
    /\ UNCHANGED <<job, todo, out, stale>>

\* The handler is done: its locals are gone.
Return(p) ==
    /\ Goto(p, "idle")
    /\ job' = [job EXCEPT ![p] = NoJob]
    /\ copy' = [copy EXCEPT ![p] = Nothing]
    /\ todo' = [todo EXCEPT ![p] = {}]
    /\ out' = [out EXCEPT ![p] = {}]
    /\ server' = IF p = Boot THEN "up" ELSE server

\* write_job_record: the whole record is replaced by the handler's copy, in one
\* step, whatever it says by now.
WriteRecord(p, j) ==
    /\ ledger' = [ledger EXCEPT ![j] = copy[p][j]]
    /\ stale' = [q \in Procs |-> IF q = p THEN stale[q] \ {j}
                                 ELSE IF copy[q][j] # NoRecord THEN stale[q] \cup {j}
                                 ELSE stale[q]]

-----------------------------------------------------------------------------
(* POST /v1/jobs.  The id is a new uuid.                                   *)

\* Mutant of Fresh: the id is free if no record on disk has it.
FreshOnDisk(j) == ~Exists(j)

Fresh(j) == /\ ~Exists(j) /\ sched[j] = "NONE"
            /\ \A p \in Procs : job[p] # j

NewRecord(state) == [state |-> state, sid |-> FALSE, exit |-> NoExit]

\* Mutant of SlurmPlans: drain is not asked.
SlurmPlansAlways == {"accepted", "blocked"}

\* build_submission_plan: drain blocks, and so does a spec with no payload.
SlurmPlans == IF drain = "on" THEN {"blocked"} ELSE {"accepted", "blocked"}

\* build_direct_submission_plan: only drain blocks.
DirectPlans == IF drain = "on" THEN {"blocked"} ELSE {"accepted"}

Plan(p, j) ==
    /\ "submit" \in Requests /\ Idle(p) /\ Fresh(j) /\ drain # "torn"
    /\ \E state \in IF Slurm(j) THEN SlurmPlans ELSE DirectPlans :
          TakeUp(p, j, NewRecord(state),
                 IF state = "accepted" /\ ExecutionEnabled(j) THEN "launch" ELSE "commit")
    /\ UNCHANGED <<server, files, jobs>>

\* Mutant of Launch: the id that sbatch printed is not kept.
LaunchLosesId(p) ==
    LET j == job[p] IN
    /\ pc[p] = "launch"
    /\ sched' = [sched EXCEPT ![j] = "PENDING"]
    /\ Keep(p, j, [copy[p][j] EXCEPT !.state = "submitted"], "commit")
    /\ UNCHANGED <<server, files, killed, hasty>>

\* sbatch, or systemd-run --no-block: either puts the job into a queue.
Launch(p) ==
    LET j == job[p] IN
    /\ pc[p] = "launch"
    /\ \/ /\ sched' = [sched EXCEPT ![j] = "PENDING"]
          /\ Keep(p, j, [copy[p][j] EXCEPT !.state = "submitted", !.sid = Slurm(j)], "commit")
       \/ /\ "launch_error" \in Faults
          /\ Keep(p, j, [copy[p][j] EXCEPT !.state = "failed"], "commit")
          /\ UNCHANGED sched
       \/ /\ "launch_timeout" \in Faults   \* the answer is lost, not the job
          /\ sched' = [sched EXCEPT ![j] = "PENDING"]
          /\ Keep(p, j, [copy[p][j] EXCEPT !.state = "failed"], "commit")
    /\ UNCHANGED <<server, files, killed, hasty>>

\* Mutant of RejectSpec: the overrides are looked at after the launch.
RejectSpecLate(p) ==
    /\ pc[p] = "commit" /\ copy[p][job[p]].sid
    /\ Return(p)
    /\ UNCHANGED <<files, jobs, stale>>

\* Environment overrides that are no shell variables: 500, and no record.
RejectSpec(p) ==
    /\ pc[p] = "launch" /\ Slurm(job[p])
    /\ Return(p)
    /\ UNCHANGED <<files, jobs, stale>>

\* The record is written after the launch, then the request is answered.
Commit(p) ==
    LET j == job[p] IN
    /\ pc[p] = "commit"
    /\ WriteRecord(p, j)
    /\ acked' = IF Slurm(j) /\ "exec" \in Gates
                   /\ copy[p][j].state \notin {"submitted", "blocked"}
                THEN acked ELSE acked \cup {j}
    /\ Return(p)
    /\ UNCHANGED <<drain, jobs>>

-----------------------------------------------------------------------------
(* GET /v1/jobs/{id}?refresh=1                                             *)

Get(p, j) ==
    /\ "get" \in Requests /\ Idle(p) /\ Exists(j)
    /\ \/ Slurm(j) /\ ledger[j].sid /\ TakeUp(p, j, ledger[j], "squeue")
       \/ ~Slurm(j) /\ "direct_refresh" \in Gates /\ TakeUp(p, j, ledger[j], "show")
    /\ UNCHANGED <<server, files, jobs>>

\* Mutant of Squeue: a job that squeue does not list is not looked up elsewhere.
SqueueOnly(p) ==
    LET j == job[p] IN
    /\ pc[p] = "squeue"
    /\ \E a \in SqueueReports(sched[j], Faults) : Keep(p, j, ApplyState(copy[p][j], a), "write")
    /\ UNCHANGED <<server, files, jobs>>

Squeue(p) ==
    LET j == job[p] IN
    /\ pc[p] = "squeue"
    /\ \E a \in SqueueReports(sched[j], Faults) :
          Keep(p, j, ApplyState(copy[p][j], a), IF a = "" THEN "sacct" ELSE "write")
    /\ UNCHANGED <<server, files, jobs>>

Sacct(p) ==
    LET j == job[p] IN
    /\ pc[p] = "sacct"
    /\ \E row \in SacctRows(sched[j], Faults) :
          Keep(p, j, ApplyRow(copy[p][j], row), IF row.state = "" THEN "scontrol" ELSE "write")
    /\ UNCHANGED <<server, files, jobs>>

Scontrol(p) ==
    LET j == job[p] IN
    /\ pc[p] = "scontrol"
    /\ \E row \in AccountingRows(sched[j], Faults) :
          Keep(p, j, ApplyRow(copy[p][j], row), "write")
    /\ UNCHANGED <<server, files, jobs>>

\* May the unit of j have been told to stop, by us or by somebody else?
Stoppable(j) == killed[j] \/ "foreign_cancel" \in Faults

\* What `systemctl show` may answer for the unit of j now, and the history of an answer.
Answers(j)  == ShowReports(sched[j], Stoppable(j), Faults)
Answered(j) == hasty' = [hasty EXCEPT ![j] = @ \/ sched[j] = "PENDING"]

Show(p) ==
    LET j == job[p] IN
    /\ pc[p] = "show"
    /\ \/ /\ \E s \in Answers(j) :
                Keep(p, j, ApplyShow(copy[p][j], s, "inference" \in Gates), "write")
          /\ Answered(j)
          /\ UNCHANGED server
       \/ "query_timeout" \in Faults /\ Return(p) /\ UNCHANGED <<stale, hasty>>   \* no write
    /\ UNCHANGED <<files, sched, killed>>

Write(p) ==
    /\ pc[p] \in {"write", "killwrite"}
    /\ WriteRecord(p, job[p])
    /\ Return(p)
    /\ UNCHANGED <<drain, acked, jobs>>

-----------------------------------------------------------------------------
(* DELETE /v1/jobs/{id}                                                    *)

\* Mutant of Cancel: a record without a scheduler id is not turned away.
CancelUnnamed(p, j) ==
    /\ "cancel" \in Requests /\ Idle(p) /\ Exists(j)
    /\ IF Slurm(j) THEN "exec" \in Gates ELSE "direct_cancel" \in Gates
    /\ TakeUp(p, j, ledger[j], "kill")
    /\ UNCHANGED <<server, files, jobs>>

Cancel(p, j) ==
    /\ "cancel" \in Requests /\ Idle(p) /\ Exists(j)
    /\ IF Slurm(j) THEN "exec" \in Gates /\ ledger[j].sid ELSE "direct_cancel" \in Gates
    /\ TakeUp(p, j, ledger[j], "kill")
    /\ UNCHANGED <<server, files, jobs>>

\* Mutant of Kill: a canceled record gives up its scheduler id.
KillDropsId(p) ==
    /\ pc[p] = "kill"
    /\ killed' = [killed EXCEPT ![job[p]] = TRUE]
    /\ Keep(p, job[p], [copy[p][job[p]] EXCEPT !.state = "canceled", !.sid = FALSE], "killwrite")
    /\ UNCHANGED <<server, files, sched, hasty>>

\* scancel, or systemctl stop.  A command for a job that is over may fail.
Kill(p) ==
    LET j == job[p] IN
    /\ pc[p] = "kill"
    /\ \/ /\ killed' = [killed EXCEPT ![j] = TRUE]
          /\ Keep(p, j, [copy[p][j] EXCEPT !.state = "canceled"], "killwrite")
       \/ /\ "kill_error" \in Faults \/ sched[j] \notin LiveStates
          /\ Keep(p, j, [copy[p][j] EXCEPT !.state = "failed"], "killwrite")
          /\ UNCHANGED killed
       \/ /\ "kill_timeout" \in Faults
          /\ killed' = [killed EXCEPT ![j] = TRUE]
          /\ Keep(p, j, [copy[p][j] EXCEPT !.state = "failed"], "killwrite")
    /\ UNCHANGED <<server, files, sched, hasty>>

-----------------------------------------------------------------------------
(* Bulk refresh, by GET /v1/jobs?refresh=1 and at startup: all records are *)
(* read, then the direct jobs are queried and written one by one, then the *)
(* Slurm jobs are queried together and written together.                   *)

\* _cap_reconcile_job_limit: what a configured number of jobs comes to.
CapLimit(n) == IF n < 0 THEN 0 ELSE IF n > 1000 THEN 1000 ELSE n

\* The first n of S in the order of the files.
Capped(S, n) == {j \in S : Cardinality({k \in S : k < j}) < n}

\* Mutant of DirectCandidates: every record of a direct job is refreshed.
DirectCandidatesAll(n) ==
    IF "direct_refresh" \in Gates THEN Capped({j \in Direct : Exists(j)}, n) ELSE {}

DirectCandidates(n) ==
    IF "direct_refresh" \in Gates
    THEN Capped({j \in Direct : DirectEligible(ledger[j])}, n) ELSE {}

SlurmCandidates(p, n) ==
    IF p = Boot \/ "bulk" \in Gates
    THEN Capped({j \in Jobs \ Direct : SlurmEligible(ledger[j])}, n) ELSE {}

StartBulk(p, n) ==
    LET D == DirectCandidates(n)
        S == SlurmCandidates(p, n)
    IN  /\ D \cup S # {}
        /\ Goto(p, IF D # {} THEN "bshow" ELSE "bsqueue")
        /\ copy' = [copy EXCEPT ![p] =
                       [j \in Jobs |-> IF j \in D \cup S THEN ledger[j] ELSE NoRecord]]
        /\ todo' = [todo EXCEPT ![p] = D]
        /\ out' = [out EXCEPT ![p] = S]
        /\ UNCHANGED <<job, stale>>

List(p) ==
    /\ "list" \in Requests /\ Idle(p)
    /\ StartBulk(p, CapLimit(BulkMax))
    /\ UNCHANGED <<server, files, jobs>>

\* The direct job j is done with: the next one, or the Slurm jobs, or the end.
NextDirect(p, j) ==
    IF todo[p] = {j} /\ out[p] = {}
    THEN Return(p)
    ELSE /\ Goto(p, IF todo[p] = {j} THEN "bsqueue" ELSE "bshow")
         /\ todo' = [todo EXCEPT ![p] = @ \ {j}]
         /\ copy' = [copy EXCEPT ![p][j] = NoRecord]
         /\ UNCHANGED <<server, job, out>>

BulkShow(p) ==
    /\ pc[p] = "bshow"
    /\ \E j \in todo[p] :
        /\ First(j, todo[p])
        /\ \/ /\ \E s \in Answers(j) :
                    Keep(p, j, ApplyShow(copy[p][j], s, "inference" \in Gates), "bshowwrite")
              /\ Answered(j)
              /\ UNCHANGED server
           \/ /\ "query_timeout" \in Faults
              /\ NextDirect(p, j)
              /\ stale' = [stale EXCEPT ![p] = @ \ {j}]
              /\ UNCHANGED hasty
    /\ UNCHANGED <<files, sched, killed>>

BulkShowWrite(p) ==
    /\ pc[p] = "bshowwrite"
    /\ \E j \in todo[p] : First(j, todo[p]) /\ WriteRecord(p, j) /\ NextDirect(p, j)
    /\ UNCHANGED <<drain, acked, jobs>>

\* One listing for all; a failed one ends the refresh with nothing written.
BulkSqueue(p) ==
    /\ pc[p] = "bsqueue"
    /\ \/ \E answer \in [out[p] -> SlurmStates] :
            /\ \A j \in out[p] : answer[j] \in SqueueReports(sched[j], Faults \ {"query_error"})
            /\ LET missing == {j \in out[p] : answer[j] = ""} IN
                /\ Goto(p, IF missing = {} THEN "bwrite" ELSE "bsacct")
                /\ todo' = [todo EXCEPT ![p] = missing]
            /\ copy' = [copy EXCEPT ![p] = [j \in Jobs |->
                          IF j \in out[p] THEN ApplyState(copy[p][j], answer[j]) ELSE NoRecord]]
            /\ UNCHANGED <<server, job, out, stale>>
       \/ /\ "query_error" \in Faults
          /\ Return(p)
          /\ stale' = [stale EXCEPT ![p] = {}]
    /\ UNCHANGED <<files, jobs>>

BulkSacct(p) ==
    /\ pc[p] = "bsacct"
    /\ \E j \in todo[p] :
        /\ First(j, todo[p])
        /\ \E row \in SacctRows(sched[j], Faults) :
              copy' = [copy EXCEPT ![p][j] = ApplyRow(@, row)]
        /\ todo' = [todo EXCEPT ![p] = @ \ {j}]
        /\ Goto(p, IF todo[p] = {j} THEN "bwrite" ELSE "bsacct")
    /\ UNCHANGED <<server, files, jobs, job, out, stale>>

BulkWrite(p) ==
    /\ pc[p] = "bwrite"
    /\ \E j \in out[p] :
        /\ First(j, out[p])
        /\ WriteRecord(p, j)
        /\ IF out[p] = {j}
           THEN Return(p)
           ELSE /\ copy' = [copy EXCEPT ![p][j] = NoRecord]
                /\ out' = [out EXCEPT ![p] = @ \ {j}]
                /\ UNCHANGED <<server, pc, job, todo>>
    /\ UNCHANGED <<drain, acked, jobs>>

-----------------------------------------------------------------------------
(* POST /v1/drain: write_text truncates the file, then writes it.          *)

SetDrain(p) ==
    /\ "drain" \in Requests /\ Idle(p)
    /\ drain' = "torn"
    /\ \E label \in {"drain_on", "drain_off"} : Goto(p, label)
    /\ UNCHANGED <<server, ledger, acked, jobs, job, copy, todo, out, stale>>

\* Mutant of WriteDrain: the request is answered with the text still in a buffer.
WriteDrainUnflushed(p) ==
    /\ pc[p] \in {"drain_on", "drain_off"}
    /\ Return(p)
    /\ UNCHANGED <<files, jobs, stale>>

\* Of two writes that overlap the later one counts: the text of "off" is one byte longer
\* than that of "on", and what it leaves behind is the newline at its end.
WriteDrain(p) ==
    /\ pc[p] \in {"drain_on", "drain_off"}
    /\ drain' = IF pc[p] = "drain_on" THEN "on" ELSE "off"
    /\ Return(p)
    /\ UNCHANGED <<ledger, acked, jobs, stale>>

-----------------------------------------------------------------------------
(* The process: crash, restart, reconciliation.                            *)

\* The process is gone, and the locals of every handler with it.
ForgetHandlers ==
    /\ pc' = [p \in Procs |-> "idle"]
    /\ job' = [p \in Procs |-> NoJob]
    /\ copy' = [p \in Procs |-> Nothing]
    /\ todo' = [p \in Procs |-> {}]
    /\ out' = [p \in Procs |-> {}]
    /\ stale' = [p \in Procs |-> {}]

Crash ==
    /\ "crash" \in Faults /\ server # "down"
    /\ server' = "down"
    /\ ForgetHandlers
    /\ UNCHANGED <<files, jobs>>

StartupLimit == CapLimit(StartupMax)

Reconciling == /\ "startup" \in Gates
               /\ DirectCandidates(StartupLimit) \cup SlurmCandidates(Boot, StartupLimit) # {}

Restart ==
    /\ server = "down"
    /\ IF Reconciling
       THEN server' = "starting" /\ StartBulk(Boot, StartupLimit)
       ELSE server' = "up" /\ UNCHANGED <<handler, stale>>
    /\ UNCHANGED <<files, jobs>>

-----------------------------------------------------------------------------
(* The schedulers (external): a job starts, ends by itself, or dies of a   *)
(* cancel command, ours or a foreign one.                                  *)

SchedStart(j) == sched[j] = "PENDING" /\ sched' = [sched EXCEPT ![j] = "RUNNING"]

SchedEnd(j) ==
    /\ sched[j] = "RUNNING"
    /\ \E s \in {"COMPLETED", "FAILED"} : sched' = [sched EXCEPT ![j] = s]

SchedCancel(j) ==
    /\ sched[j] \in LiveStates
    /\ Stoppable(j)
    /\ sched' = [sched EXCEPT ![j] = "CANCELLED"]

SchedStep(j) == /\ SchedStart(j) \/ SchedEnd(j) \/ SchedCancel(j)
                /\ UNCHANGED <<server, files, killed, hasty, handler, stale>>

-----------------------------------------------------------------------------
Request(p) == \/ \E j \in Jobs : Plan(p, j) \/ Get(p, j) \/ Cancel(p, j)
              \/ List(p) \/ SetDrain(p)

Continue(p) == \/ Launch(p) \/ RejectSpec(p) \/ Commit(p)
               \/ Squeue(p) \/ Sacct(p) \/ Scontrol(p) \/ Show(p) \/ Write(p)
               \/ Kill(p)
               \/ BulkShow(p) \/ BulkShowWrite(p)
               \/ BulkSqueue(p) \/ BulkSacct(p) \/ BulkWrite(p)
               \/ WriteDrain(p)

Next == \/ \E p \in Procs : Request(p) \/ Continue(p)
        \/ \E j \in Jobs : SchedStep(j)
        \/ Crash \/ Restart

Spec == Init /\ [][Next]_vars
=============================================================================
