--------------------------- MODULE JobServiceProofs ---------------------------
(***************************************************************************)
(* JobServer implements JobService, step by step: what the handlers do to  *)
(* a job is what the service promises to do to it, or nothing.             *)
(***************************************************************************)
EXTENDS GracefulShutdownProofs

-----------------------------------------------------------------------------
(* A scheduler id in the hand of a submission is that of a job which was   *)
(* handed over.                                                            *)

Named(p) == Submitting(p) /\ copy[p][job[p]].sid => sched[job[p]] # "NONE"

NamedInv == \A p \in Procs : Named(p)

\* What a step of p leaves as it was.
OthersStand(p) ==
    \A q \in Procs \ {p} : pc'[q] = pc[q] /\ job'[q] = job[q] /\ copy'[q] = copy[q]

\* No job is taken back by its scheduler.
HandedOverStay == \A j \in Jobs : sched[j] # "NONE" => sched'[j] # "NONE"

LEMMA OthersNamed ==
    ASSUME IInv, NamedInv, HandedOverStay, NEW p \in Procs, OthersStand(p), Named(p)'
    PROVE  NamedInv'
<1>1. ASSUME NEW q \in Procs \ {p} PROVE Named(q)'
  <2>1. Named(q) /\ (Submitting(q) => job[q] \in Jobs)
    BY DEF NamedInv, IInv, TInv, HandlerOK, Locals, Submitting, SinglePCs
  <2> QED
    BY <2>1 DEF Named, Submitting, OthersStand, HandedOverStay
<1> QED
  BY <1>1 DEF NamedInv

LEMMA NextNamed == IInv /\ NamedInv /\ [Next]_vars => NamedInv'
<1> SUFFICES ASSUME IInv, NamedInv, [Next]_vars PROVE NamedInv'
  OBVIOUS
<1>1. CASE UNCHANGED <<files, jobs, handler, stale>>
  BY <1>1 DEF NamedInv, Named, Submitting, files, jobs, handler
<1>2. ASSUME NEW p \in Procs, OrdinaryStep(p) PROVE NamedInv'
  <2>1. HandedOverStay /\ OthersStand(p) /\ Named(p)'
    BY <1>2 DEF OrdinaryStep, HandedOverStay, OthersStand, Named, Submitting
  <2> QED
    BY <2>1, OthersNamed
<1>3. ASSUME NEW p \in Procs, NEW j \in Jobs, Plan(p, j) PROVE NamedInv'
  <2>1. HandedOverStay /\ OthersStand(p)
    BY <1>3 DEF Plan, TakeUp, Goto, IInv, TInv, HandlerOK, HandedOverStay, OthersStand, jobs
  <2>2. PICK state : copy' = [copy EXCEPT ![p] = [Nothing EXCEPT ![j] = NewRecord(state)]]
                     /\ job' = [job EXCEPT ![p] = j]
    BY <1>3 DEF Plan, TakeUp
  <2>3. copy'[p][j] = NewRecord(state) /\ job'[p] = j
    BY <2>2 DEF IInv, TInv, HandlerOK, Nothing
  <2>4. Named(p)'
    BY <2>3 DEF Named, NewRecord
  <2> QED
    BY <2>1, <2>4, OthersNamed
<1>4. ASSUME NEW p \in Procs, Launch(p) PROVE NamedInv'
  <2>1. /\ pc[p] = "launch" /\ job[p] \in Jobs /\ copy[p][job[p]] \in Records
        /\ sched[job[p]] = "NONE" /\ ~copy[p][job[p]].sid
    BY <1>4, SingleCopy DEF Launch, SinglePCs, IInv, Owned, NamedInv, Named, Submitting
  <2>2. OthersStand(p) /\ job' = job
    BY <1>4 DEF Launch, Keep, Goto, IInv, TInv, HandlerOK, OthersStand
  <2>3. /\ sched' = sched \/ sched' = [sched EXCEPT ![job[p]] = "PENDING"]
        /\ sched \in [Jobs -> SchedStates]
    BY <1>4 DEF Launch, IInv, TInv, RestOK
  <2>4. HandedOverStay
    BY <2>3 DEF HandedOverStay
  <2>5. sched' = sched => copy'[p][job[p]] = [copy[p][job[p]] EXCEPT !.state = "failed"]
    BY <1>4, <2>1, <2>3 DEF Launch, Keep, IInv, TInv, HandlerOK
  <2>6. Named(p)'
    BY <2>1, <2>2, <2>3, <2>5 DEF Named, Records
  <2> QED
    BY <2>2, <2>4, <2>6, OthersNamed
<1>5. ASSUME NEW p \in Procs, Commit(p) PROVE NamedInv'
  <2>1. /\ HandedOverStay /\ OthersStand(p) /\ pc'[p] = "idle"
    BY <1>5 DEF Commit, Return, Goto, IInv, TInv, HandlerOK, HandedOverStay, OthersStand, jobs
  <2> QED
    BY <2>1, OthersNamed DEF Named, Submitting
<1>6. ASSUME NEW j \in Jobs, SchedStep(j) PROVE NamedInv'
  <2>1. HandedOverStay
    BY <1>6 DEF SchedStep, SchedStart, SchedEnd, SchedCancel, HandedOverStay, IInv, TInv, RestOK
  <2>2. \A p \in Procs : Submitting(p) => job[p] \in Jobs
    BY DEF IInv, TInv, HandlerOK, Locals, Submitting, SinglePCs
  <2> QED
    BY <1>6, <2>1, <2>2 DEF SchedStep, handler, NamedInv, Named, Submitting, HandedOverStay
<1>7. CASE Crash
  BY <1>7 DEF Crash, ForgetHandlers, NamedInv, Named, Submitting
<1> QED
  BY <1>1, <1>2, <1>3, <1>4, <1>5, <1>6, <1>7, StepKinds DEF vars

\* A submission that holds a scheduler id has handed its job over.
THEOREM AlwaysNamed == Spec => []NamedInv
<1>1. Init => NamedInv
  BY DEF Init, NamedInv, Named, Submitting
<1> QED
  BY <1>1, NextNamed, AlwaysInv, PTL DEF Spec
-----------------------------------------------------------------------------
(* What a step does to the ledger and to the jobs.                         *)

\* A handler that is no submission writes its copy of j, and does nothing else to any job.
Rewrites(p, j) ==
    /\ ~Submitting(p) /\ copy[p][j] # NoRecord
    /\ WriteRecord(p, j)
    /\ UNCHANGED <<sched, killed, acked>>

LEMMA Effects ==
    ASSUME IInv, [Next]_vars
    PROVE  \/ UNCHANGED <<ledger, sched, killed, acked>>
           \/ \E p \in Procs : Launch(p) \/ Commit(p) \/ Kill(p)
           \/ \E p \in Procs, j \in Jobs : Rewrites(p, j)
           \/ \E j \in Jobs : SchedStep(j)
<1>1. TInv
  BY DEF IInv
<1>2. ASSUME NEW p \in Procs, Continue(p)
      PROVE  \/ UNCHANGED <<ledger, sched, killed, acked>>
             \/ Launch(p) \/ Commit(p) \/ Kill(p)
             \/ \E j \in Jobs : Rewrites(p, j)
  <2>1. CASE Write(p)
    <3>1. job[p] \in Jobs /\ copy[p][job[p]] # NoRecord
      BY <1>1, <2>1, SingleCopy DEF Write, SinglePCs
    <3> QED
      BY <2>1, <3>1 DEF Write, Rewrites, Submitting, jobs
  <2>2. CASE BulkShowWrite(p)
    <3>1. PICK k \in todo[p] : WriteRecord(p, k)
      BY <2>2 DEF BulkShowWrite
    <3>2. k \in Jobs /\ copy[p][k] # NoRecord
      BY <1>1, <2>2, RecordFacts DEF BulkShowWrite, TInv, HandlerOK, Locals
    <3> QED
      BY <2>2, <3>1, <3>2 DEF BulkShowWrite, Rewrites, Submitting, jobs
  <2>3. CASE BulkWrite(p)
    <3>1. PICK k \in out[p] : WriteRecord(p, k)
      BY <2>3 DEF BulkWrite
    <3>2. k \in Jobs /\ copy[p][k] # NoRecord
      BY <1>1, <2>3, RecordFacts DEF BulkWrite, TInv, HandlerOK, Locals
    <3> QED
      BY <2>3, <3>1, <3>2 DEF BulkWrite, Rewrites, Submitting, jobs
  <2> QED
    BY <1>2, <2>1, <2>2, <2>3 DEF Continue, RejectSpec, Squeue, Sacct, Scontrol,
       Show, BulkShow, BulkSqueue, BulkSacct, WriteDrain, files, jobs
<1>3. ASSUME NEW p \in Procs, Request(p) PROVE UNCHANGED <<ledger, sched, killed, acked>>
  BY <1>3 DEF Request, Plan, Get, Cancel, List, SetDrain, files, jobs
<1> QED
  BY <1>2, <1>3 DEF Next, Crash, Restart, vars, files, jobs

-----------------------------------------------------------------------------
(* The records as the service sees them.                                   *)

Verdict == [j \in Jobs |-> VerdictOn(ledger[j].state)]
HasId   == {j \in Jobs \ Direct : ledger[j].sid}

LEMMA VerdictFacts ==
    /\ VerdictOn(NoRecord.state) = "absent"
    /\ \A r \in Records :
          /\ VerdictOn(r.state) \in Service!Verdicts
          /\ \A s \in {"blocked", "succeeded", "canceled"} : VerdictOn(r.state) = s => r.state = s
BY DEF VerdictOn, NoRecord, Records, JobStateNames, Service!Verdicts

LEMMA EnteredFacts ==
    ASSUME IInv, NEW j \in Jobs
    PROVE  Service!Entered(j) <=> Exists(j)
<1>1. ledger[j] # NoRecord => ledger[j] \in Records
  BY RecordFacts DEF IInv, TInv, RestOK
<1>2. Service!Entered(j) <=> VerdictOn(ledger[j].state) # "absent"
  BY DEF Service!Entered
<1>3. "absent" \notin Service!Verdicts
  BY DEF Service!Verdicts
<1> QED
  BY <1>1, <1>2, <1>3, VerdictFacts DEF Exists

\* A truthful copy has a ground.
LEMMA CopyGrounded ==
    ASSUME IInv, NEW p \in Procs, NEW j \in Jobs, copy[p][j] # NoRecord
    PROVE  /\ VerdictOn(copy[p][j].state) \in Service!Verdicts
           /\ Service!Grounded(j, VerdictOn(copy[p][j].state))
<1>1. copy[p][j] \in Records
  BY RecordFacts DEF IInv, TInv, HandlerOK
<1>2. Truth(j, copy[p][j], sched[j], killed[j], hasty[j])
  BY DEF IInv, Truthful
<1> QED
  BY <1>1, <1>2, VerdictFacts DEF Truth, Service!Grounded, Slurm

\* What the write of a record changes.
LEMMA WriteVerdict ==
    ASSUME IInv, NEW p \in Procs, NEW j \in Jobs, WriteRecord(p, j)
    PROVE  /\ Verdict' = [Verdict EXCEPT ![j] = VerdictOn(copy[p][j].state)]
           /\ HasId' = {k \in Jobs \ Direct : IF k = j THEN copy[p][k].sid ELSE ledger[k].sid}
<1>1. \A k \in Jobs : ledger'[k] = IF k = j THEN copy[p][k] ELSE ledger[k]
  BY DEF WriteRecord, IInv, TInv, RestOK
<1> QED
  BY <1>1 DEF Verdict, HasId

-----------------------------------------------------------------------------
(* Step by step.                                                           *)

LEMMA LaunchHandsOver ==
    ASSUME IInv, NEW p \in Procs, Launch(p)
    PROVE  Service!HandOver(job[p]) \/ UNCHANGED Service!vars
<1>1. /\ job[p] \in Jobs /\ ~Exists(job[p]) /\ sched[job[p]] = "NONE"
      /\ UNCHANGED <<ledger, killed, acked>>
  BY SingleCopy DEF Launch, SinglePCs, IInv, Owned, Submitting, files
<1>2. \/ sched' = sched
      \/ \E s \in Service!Live : sched' = [sched EXCEPT ![job[p]] = s]
  BY DEF Launch, Service!Live
<1>3. ~Service!Entered(job[p])
  BY <1>1, EnteredFacts
<1> QED
  BY <1>1, <1>2, <1>3 DEF Service!HandOver, Service!vars

LEMMA CommitEnters ==
    ASSUME IInv, NamedInv, NEW p \in Procs, Commit(p)
    PROVE  Service!Enter(job[p])
<1> DEFINE j == job[p]
           r == copy[p][j]
           v == VerdictOn(r.state)
           known == Slurm(j) /\ r.sid
<1>1. /\ pc[p] = "commit" /\ Submitting(p) /\ j \in Jobs /\ r # NoRecord /\ r \in Records
      /\ WriteRecord(p, j) /\ UNCHANGED <<sched, killed>>
  BY SingleCopy DEF Commit, SinglePCs, Submitting, jobs, IInv
<1>2. ~Exists(j) /\ (Slurm(j) /\ r.state = "submitted" => r.sid) /\ (r.sid => sched[j] # "NONE")
  BY <1>1 DEF IInv, Owned, NamedInv, Named
<1>3. ~Service!Entered(j)
  BY <1>1, <1>2, EnteredFacts
<1>4. v \in Service!Verdicts /\ Service!Grounded(j, v) /\ Verdict' = [Verdict EXCEPT ![j] = v]
  BY <1>1, CopyGrounded, WriteVerdict
<1>5. HasId' = IF known THEN HasId \cup {j} ELSE HasId
  <2>1. ~ledger[j].sid
    BY <1>2, NoRecordFacts DEF Exists
  <2> QED
    BY <1>1, <2>1, WriteVerdict DEF HasId, Slurm
<1>6. \/ acked' = acked
      \/ /\ acked' = acked \cup {j}
         /\ Slurm(j) /\ "exec" \in Gates => r.state \in {"submitted", "blocked"}
  BY DEF Commit
<1>7. known \in BOOLEAN /\ (known => j \in Jobs \ Direct /\ sched[j] # "NONE")
  BY <1>1, <1>2 DEF Slurm
<1>8. r.state = "blocked" => v = "blocked"
  BY DEF VerdictOn
<1>9. \/ acked' = acked
      \/ /\ acked' = acked \cup {j}
         /\ j \in Jobs \ Direct /\ "exec" \in Gates => known \/ v = "blocked"
  BY <1>2, <1>6, <1>8 DEF Slurm
<1> HIDE DEF j, r, v, known
<1>10. Service!Enter(j)
  BY <1>1, <1>3, <1>4, <1>5, <1>7, <1>9 DEF Service!Enter, Verdict, HasId
<1> QED
  BY <1>10 DEF j

LEMMA RewriteRevises ==
    ASSUME IInv, NEW p \in Procs, NEW j \in Jobs, Rewrites(p, j)
    PROVE  Service!Revise(j)
<1>1. ~Submitting(p) /\ copy[p][j] # NoRecord /\ WriteRecord(p, j) /\ UNCHANGED <<sched, killed, acked>>
  BY DEF Rewrites
<1>2. Exists(j) /\ (Slurm(j) => copy[p][j].sid /\ ledger[j].sid)
  BY <1>1 DEF IInv, Held
<1>3. Service!Entered(j) /\ (j \in Jobs \ Direct => j \in HasId)
  BY <1>2, EnteredFacts DEF HasId, Slurm
<1>4. \E v \in Service!Verdicts : Service!Grounded(j, v) /\ Verdict' = [Verdict EXCEPT ![j] = v]
  BY <1>1, CopyGrounded, WriteVerdict
<1>5. HasId' = HasId
  BY <1>1, <1>2, WriteVerdict DEF HasId, Slurm
<1> QED
  BY <1>1, <1>3, <1>4, <1>5 DEF Service!Revise, Verdict, HasId

LEMMA KillTells ==
    ASSUME IInv, NEW p \in Procs, Kill(p)
    PROVE  Service!Tell(job[p]) \/ UNCHANGED Service!vars
<1>1. /\ pc[p] = "kill" /\ job[p] \in Jobs /\ copy[p][job[p]] # NoRecord /\ ~Submitting(p)
      /\ UNCHANGED <<ledger, sched, acked>>
  BY SingleCopy DEF Kill, SinglePCs, Submitting, IInv, files
<1>2. Exists(job[p]) /\ (Slurm(job[p]) => ledger[job[p]].sid)
  BY <1>1 DEF IInv, Held
<1>3. Service!Entered(job[p]) /\ (job[p] \in Jobs \ Direct => job[p] \in HasId)
  BY <1>1, <1>2, EnteredFacts DEF HasId, Slurm
<1>4. killed' = killed \/ killed' = [killed EXCEPT ![job[p]] = TRUE]
  BY DEF Kill
<1> QED
  BY <1>1, <1>3, <1>4 DEF Service!Tell, Service!vars, HasId

LEMMA SchedProceeds ==
    ASSUME NEW j \in Jobs, SchedStep(j)
    PROVE  Service!Proceed(j)
BY DEF SchedStep, SchedStart, SchedEnd, SchedCancel, LiveStates, files, Service!Proceed, Service!Live

LEMMA InitServes == Init => Service!Init
BY NoRecordFacts, VerdictFacts DEF Init, Nothing, Service!Init

LEMMA NextServes ==
    IInv /\ NamedInv /\ [Next]_vars => [Service!Next]_(Service!vars)
<1> SUFFICES ASSUME IInv, NamedInv, [Next]_vars PROVE Service!Next \/ UNCHANGED Service!vars
  OBVIOUS
<1>1. CASE UNCHANGED <<ledger, sched, killed, acked>>
  BY <1>1 DEF Service!vars
<1>2. ASSUME NEW p \in Procs, Launch(p) \/ Commit(p) \/ Kill(p)
      PROVE  Service!Next \/ UNCHANGED Service!vars
  <2>1. job[p] \in Jobs
    BY <1>2, SingleCopy DEF Launch, Commit, Kill, SinglePCs, IInv
  <2>2. CASE Launch(p)
    BY <2>1, <2>2, LaunchHandsOver DEF Service!Next
  <2>3. CASE Commit(p)
    BY <2>1, <2>3, CommitEnters DEF Service!Next, Service!Enter
  <2>4. CASE Kill(p)
    BY <2>1, <2>4, KillTells DEF Service!Next
  <2> QED
    BY <1>2, <2>2, <2>3, <2>4
<1>3. ASSUME NEW p \in Procs, NEW j \in Jobs, Rewrites(p, j) PROVE Service!Next
  BY <1>3, RewriteRevises DEF Service!Next
<1>4. ASSUME NEW j \in Jobs, SchedStep(j) PROVE Service!Next
  BY <1>4, SchedProceeds DEF Service!Next
<1> QED
  BY <1>1, <1>2, <1>3, <1>4, Effects

\* For every set of jobs, handlers, gates and faults, and for any interleaving, crash and
\* restart: a job is handed over at most once and before it is entered, the entry stays, and
\* what is written has a ground.
THEOREM ServiceImplemented == Spec => ImplementsService
<1>1. Init => Service!Init
  BY InitServes
<1>2. IInv /\ NamedInv /\ [Next]_vars => [Service!Next]_(Service!vars)
  BY NextServes
<1> QED
  BY <1>1, <1>2, AlwaysInv, AlwaysNamed, PTL DEF Spec, ImplementsService, Service!Spec
-----------------------------------------------------------------------------
(* The same beside `dispatch server shutdown`, which writes to the ledger  *)
(* and commands the schedulers of its own accord.                          *)

LEMMA ShutdownNamed == SInv /\ NamedInv /\ [ShutdownNext]_allVars => NamedInv'
<1> SUFFICES ASSUME SInv, NamedInv, [ShutdownNext]_allVars PROVE NamedInv'
  OBVIOUS
<1>1. CASE [Next]_vars
  BY <1>1, NextNamed DEF SInv
<1>2. CASE Stop
  BY <1>2 DEF Stop, ForgetHandlers, jobs, handler, NamedInv, Named, Submitting
<1>3. CASE UNCHANGED <<pc, job, copy, sched>>
  BY <1>3 DEF NamedInv, Named, Submitting
<1>4. ShutdownStep /\ ~Stop => UNCHANGED vars \/ UNCHANGED <<pc, job, copy, sched>>
  BY DEF ShutdownStep, Begin, WriteDrainOn, Snapshot, Round, CancelNot, CancelOne, Mark,
         RefreshFails, RefreshDirect, KeepDirect, handler, jobs
<1> QED
  BY <1>1, <1>2, <1>3, <1>4 DEF ShutdownNext, ServerStep, Expire, allVars

\* A copy that the command writes back revises the entry, or leaves the verdict as it is: the
\* record of a Slurm job without a scheduler id has not changed since the copy was taken.
LEMMA WriteMineRevises ==
    ASSUME SInv, NEW j \in left, WriteMine(j), UNCHANGED <<acked, jobs>>
    PROVE  Service!Revise(j) \/ UNCHANGED Service!vars
<1> DEFINE r == mine[j]
           v == VerdictOn(r.state)
<1>1. /\ j \in Jobs /\ Exists(j) /\ r \in Records /\ Truth(j, r, sched[j], killed[j], hasty[j])
      /\ Slurm(j) => r.sid = ledger[j].sid
      /\ Slurm(j) /\ ~ledger[j].sid => r.state = ledger[j].state
  BY RecordFacts DEF SInv, CommandOK, MineOK
<1>2. \A k \in Jobs : ledger'[k] = IF k = j THEN r ELSE ledger[k]
  BY DEF WriteMine, SInv, IInv, TInv, RestOK
<1>3. HasId' = HasId
  BY <1>1, <1>2 DEF HasId, Slurm
<1>4. Verdict' = [Verdict EXCEPT ![j] = v]
  BY <1>1, <1>2 DEF Verdict
<1>5. v \in Service!Verdicts /\ Service!Grounded(j, v)
  BY <1>1, VerdictFacts DEF Truth, Service!Grounded, Slurm
<1>6. Service!Entered(j)
  BY <1>1, EnteredFacts DEF SInv
<1>7. CASE Slurm(j) /\ ~ledger[j].sid
  <2>1. Verdict' = Verdict
    BY <1>1, <1>2, <1>7 DEF Verdict
  <2> QED
    BY <1>3, <2>1 DEF Service!vars, Verdict, HasId, jobs
<1>8. CASE ~(Slurm(j) /\ ~ledger[j].sid)
  <2>1. j \in Jobs \ Direct => j \in HasId
    BY <1>8 DEF HasId, Slurm
  <2> HIDE DEF r, v
  <2> QED
    BY <1>3, <1>4, <1>5, <1>6, <2>1 DEF Service!Revise, Verdict, HasId, jobs
<1> QED
  BY <1>7, <1>8

LEMMA CancelOneTells ==
    ASSUME SInv, NEW j \in Jobs, CancelOne(j)
    PROVE  Service!Tell(j) \/ UNCHANGED Service!vars
<1>1. /\ j \in left /\ UNCHANGED <<ledger, sched, acked>>
      /\ Slurm(j) => mine[j].sid
      /\ killed' = killed \/ killed' = [killed EXCEPT ![j] = TRUE]
  BY DEF CancelOne, First, Cancelable, files
<1>2. Exists(j) /\ (Slurm(j) => ledger[j].sid)
  BY <1>1 DEF SInv, MineOK
<1>3. Service!Entered(j) /\ (j \in Jobs \ Direct => j \in HasId)
  BY <1>2, EnteredFacts DEF SInv, HasId, Slurm
<1> QED
  BY <1>1, <1>3 DEF Service!Tell, Service!vars, HasId

LEMMA ShutdownServes ==
    SInv /\ NamedInv /\ [ShutdownNext]_allVars => [Service!Next]_(Service!vars)
<1> SUFFICES ASSUME SInv, NamedInv, [ShutdownNext]_allVars
             PROVE  Service!Next \/ UNCHANGED Service!vars
  OBVIOUS
<1>1. CASE [Next]_vars
  BY <1>1, NextServes DEF SInv
<1>2. CASE UNCHANGED <<ledger, sched, killed, acked>>
  BY <1>2 DEF Service!vars
<1>3. CASE Begin \/ WriteDrainOn \/ Stop
  BY <1>2, <1>3 DEF Begin, WriteDrainOn, Stop, files, jobs
<1>4. ASSUME NEW j \in Jobs, CancelNot(j) \/ Mark(j) \/ KeepDirect(j)
      PROVE  Service!Next \/ UNCHANGED Service!vars
  <2>1. j \in left /\ WriteMine(j) /\ UNCHANGED <<acked, jobs>>
    BY <1>4 DEF CancelNot, Mark, KeepDirect, First
  <2> QED
    BY <2>1, WriteMineRevises DEF Service!Next
<1>5. ASSUME NEW j \in Jobs, CancelOne(j) PROVE Service!Next \/ UNCHANGED Service!vars
  BY <1>5, CancelOneTells DEF Service!Next
<1>6. ASSUME NEW j \in Jobs, RefreshFails(j) \/ RefreshDirect(j)
      PROVE  Service!Next \/ UNCHANGED Service!vars
  <2>1. UNCHANGED <<ledger, sched, killed, acked>>
    BY <1>6 DEF RefreshFails, RefreshDirect, vars, files, jobs
  <2> QED
    BY <1>2, <2>1
<1> QED
  BY <1>1, <1>2, <1>3, <1>4, <1>5, <1>6
     DEF ShutdownNext, ServerStep, ShutdownStep, Snapshot, Round, Expire, allVars

\* The second process breaks none of it, at whatever moment it runs.
THEOREM ServiceSurvivesShutdown == ShutdownSpec => ImplementsService
<1>1. ShutdownInit => Service!Init /\ NamedInv
  BY InitServes DEF ShutdownInit, Init, NamedInv, Named, Submitting
<1>2. SInv /\ NamedInv /\ [ShutdownNext]_allVars => NamedInv'
  BY ShutdownNamed
<1>3. SInv /\ NamedInv /\ [ShutdownNext]_allVars => [Service!Next]_(Service!vars)
  BY ShutdownServes
<1> QED
  BY <1>1, <1>2, <1>3, AlwaysSInv, PTL DEF ShutdownSpec, ImplementsService, Service!Spec
=============================================================================
