----------------------- MODULE GracefulShutdownProofs -----------------------
(***************************************************************************)
(* What `dispatch server shutdown` and the server guarantee together.  The *)
(* command writes to the ledger behind the server's back; that the         *)
(* server's invariant survives it rests on what its copies keep in common  *)
(* with the records they were taken from, whatever the handlers write in   *)
(* between.                                                                *)
(***************************************************************************)
EXTENDS GracefulShutdown, JobServerProofs

-----------------------------------------------------------------------------
(* The records stay true.                                                  *)

\* The command holds copies of the jobs left to it, and a copy is as good as the record:
\* truthful, of a record that still exists, with the scheduler id that is there; and a Slurm
\* record without one has not changed at all.
MineOK ==
    /\ left = {j \in Jobs : mine[j] # NoRecord}
    /\ \A j \in left :
          /\ Exists(j) /\ Truth(j, mine[j], sched[j], killed[j], hasty[j])
          /\ Slurm(j) => mine[j].sid = ledger[j].sid
          /\ Slurm(j) /\ ~ledger[j].sid => mine[j].state = ledger[j].state

CommandOK ==
    /\ step \in Steps
    /\ opts \subseteq Options
    /\ ignored \subseteq Jobs
    /\ mine \in [Jobs -> Slots]
    /\ left \subseteq Jobs
    /\ expired \in BOOLEAN
    /\ result \in {"none", "clean", "timed_out"}
    /\ early \subseteq Jobs
    /\ late \subseteq Direct

SInv == IInv /\ CommandOK /\ MineOK

\* What is true of a job whose record exists stays true in a step of the server: only the
\* submission of a job starts it, and that job has no record yet.
LEMMA TruthStays ==
    ASSUME IInv, [Next]_vars, NEW j \in Jobs, Exists(j)
    PROVE  /\ sched'[j] = sched[j] \/ (sched[j] \in LiveStates /\ sched'[j] # "NONE")
           /\ (killed[j] => killed'[j]) /\ (hasty[j] => hasty'[j])
           /\ \A r : Truth(j, r, sched[j], killed[j], hasty[j])
                  => Truth(j, r, sched'[j], killed'[j], hasty'[j])
<1>1. /\ sched'[j] = sched[j] \/ (sched[j] \in LiveStates /\ sched'[j] # "NONE")
      /\ (killed[j] => killed'[j]) /\ (hasty[j] => hasty'[j])
  <2>1. CASE UNCHANGED jobs
    BY <2>1 DEF jobs
  <2>2. ASSUME NEW p \in Procs, OrdinaryStep(p)
        PROVE  sched'[j] = sched[j] /\ (killed[j] => killed'[j]) /\ (hasty[j] => hasty'[j])
    BY <2>2 DEF OrdinaryStep
  <2>3. ASSUME NEW p \in Procs, Launch(p)
        PROVE  sched'[j] = sched[j] /\ (killed[j] => killed'[j]) /\ (hasty[j] => hasty'[j])
    <3>1. pc[p] = "launch" /\ job[p] # j
      BY <2>3 DEF Launch, IInv, Owned, Submitting
    <3>2. /\ killed' = killed /\ hasty' = hasty
          /\ sched' = sched \/ sched' = [sched EXCEPT ![job[p]] = "PENDING"]
      BY <2>3 DEF Launch
    <3>3. DOMAIN sched = Jobs
      BY DEF IInv, TInv, RestOK
    <3> QED
      BY <3>1, <3>2, <3>3
  <2>4. ASSUME NEW k \in Jobs, SchedStep(k)
        PROVE  /\ sched'[j] = sched[j] \/ (sched[j] \in LiveStates /\ sched'[j] # "NONE")
               /\ killed'[j] = killed[j] /\ hasty'[j] = hasty[j]
    <3>1. PICK s : s # "NONE" /\ sched[k] \in LiveStates /\ sched' = [sched EXCEPT ![k] = s]
      BY <2>4 DEF SchedStep, SchedStart, SchedEnd, SchedCancel, LiveStates
    <3>2. sched'[j] = IF k = j THEN s ELSE sched[j]
      BY <3>1 DEF IInv, TInv, RestOK
    <3> QED
      BY <2>4, <3>1, <3>2 DEF SchedStep
  <2> QED
    <3>1. (\E p \in Procs, k \in Jobs : Plan(p, k)) \/ (\E p \in Procs : Commit(p)) \/ Crash
          \/ UNCHANGED <<files, jobs, handler, stale>> \/ UNCHANGED vars => UNCHANGED jobs
      BY DEF Plan, Commit, Crash, vars
    <3> QED
      BY <2>1, <2>2, <2>3, <2>4, <3>1, StepKinds
<1>2. \A r : Truth(j, r, sched[j], killed[j], hasty[j])
          => Truth(j, r, sched'[j], killed'[j], hasty'[j])
  BY <1>1 DEF Truth, LiveStates
<1> QED
  BY <1>1, <1>2

LEMMA ServerSInv ==
    ASSUME SInv, ServerStep, Watch, CommandOK'
    PROVE  SInv'
<1>1. IInv /\ IInv' /\ [Next]_vars /\ UNCHANGED <<mine, left>>
  BY NextInv DEF SInv, ServerStep, command
<1>2. ASSUME NEW j \in left
      PROVE  /\ Exists(j)' /\ Truth(j, mine[j], sched'[j], killed'[j], hasty'[j])
             /\ Slurm(j) => mine[j].sid = ledger'[j].sid
             /\ Slurm(j) /\ ~ledger'[j].sid => mine[j].state = ledger'[j].state
  <2>1. /\ j \in Jobs /\ Exists(j) /\ Truth(j, mine[j], sched[j], killed[j], hasty[j])
        /\ Slurm(j) => mine[j].sid = ledger[j].sid
        /\ Slurm(j) /\ ~ledger[j].sid => mine[j].state = ledger[j].state
    BY DEF SInv, MineOK
  <2>2. Exists(j)' /\ (Slurm(j) => ledger'[j].sid = ledger[j].sid)
    BY <1>1, <2>1, NextKeepsIds DEF IdsKept
  <2>3. Truth(j, mine[j], sched'[j], killed'[j], hasty'[j])
    BY <1>1, <2>1, TruthStays
  <2>4. Slurm(j) /\ ~ledger[j].sid => ledger'[j] = ledger[j]
    BY <1>1, <2>1, NextKeepsUnnamed
  <2> QED
    BY <2>1, <2>2, <2>3, <2>4
<1>3. MineOK'
  BY <1>1, <1>2 DEF SInv, MineOK, Slurm
<1> QED
  BY <1>1, <1>3 DEF SInv

\* The command writes one of its copies.
LEMMA WriteMineInv ==
    ASSUME SInv, NEW j \in left, WriteMine(j), UNCHANGED <<server, drain, acked, jobs, handler>>
    PROVE  /\ IInv' /\ \A k \in Jobs : Exists(k) => Exists(k)'
           /\ \A k \in Jobs : k # j => ledger'[k] = ledger[k]
<1>1. /\ j \in Jobs /\ Exists(j) /\ mine[j] # NoRecord
      /\ Truth(j, mine[j], sched[j], killed[j], hasty[j])
      /\ Slurm(j) => mine[j].sid = ledger[j].sid
      /\ Slurm(j) /\ ~ledger[j].sid => mine[j].state = ledger[j].state
  BY DEF SInv, MineOK
<1>2. \A k \in Jobs : ledger'[k] = IF k = j THEN mine[j] ELSE ledger[k]
  BY DEF WriteMine, SInv, IInv, TInv, RestOK
<1>3. UNCHANGED <<sched, killed, hasty, pc, job, copy, acked>>
  BY DEF jobs, handler
<1>4. TInv'
  <2>1. HandlerOK'
    BY <1>3 DEF SInv, IInv, TInv, HandlerOK, Locals, handler
  <2>2. RestOK'
    BY <1>1, <1>3 DEF SInv, IInv, TInv, RestOK, CommandOK, WriteMine
  <2>3. StaleOK'
    BY <1>1 DEF SInv, IInv, TInv, StaleOK, WriteMine
  <2> QED
    BY <2>1, <2>2, <2>3 DEF TInv
<1>5. Truthful'
  BY <1>1, <1>2, <1>3 DEF SInv, IInv, Truthful
<1>6. \A k \in Jobs : (Exists(k)' <=> Exists(k)) /\ (Slurm(k) => ledger'[k].sid = ledger[k].sid)
  BY <1>1, <1>2 DEF Exists
<1>7. \A p \in Procs : Submitting(p) => job[p] \in Jobs
  BY SingleCopy DEF SInv, Submitting, SinglePCs
<1>8. \A p \in Procs : Owned(p)' /\ Held(p)'
  BY <1>3, <1>6, <1>7 DEF SInv, IInv, Owned, Held, Submitting
<1>9. AcknowledgedIsTracked'
  <2>1. \A k \in acked : k \in Jobs
    BY DEF SInv, IInv, TInv, RestOK
  <2>2. \A k \in Jobs : Slurm(k) /\ ~ledger[k].sid => ledger'[k].state = ledger[k].state
    BY <1>1, <1>2
  <2> QED
    BY <1>3, <1>6, <2>1, <2>2 DEF SInv, IInv, AcknowledgedIsTracked
<1>10. IInv'
  BY <1>3, <1>4, <1>5, <1>8, <1>9 DEF SInv, IInv, Submitting
<1> QED
  BY <1>2, <1>6, <1>10

LEMMA LoopFacts ==
    ASSUME SInv, NEW S \in SUBSET Jobs, \A j \in S : Exists(j), NEW label, Loop(S, label)
    PROVE  /\ mine' \in [Jobs -> Slots] /\ left' = {j \in Jobs : mine'[j] # NoRecord}
           /\ left' = S /\ \A j \in S : mine'[j] = ledger[j]
BY NothingType, RecordFacts DEF SInv, IInv, TInv, RestOK, Loop, Exists

LEMMA HandledFacts ==
    ASSUME SInv, NEW j \in left, NEW label, Handled(j, label)
    PROVE  /\ mine' \in [Jobs -> Slots] /\ left' = {k \in Jobs : mine'[k] # NoRecord}
           /\ left' = left \ {j} /\ \A k \in left' : mine'[k] = mine[k]
           /\ step' \in {"round", label}
BY RecordFacts DEF SInv, CommandOK, MineOK, Handled

\* Each step of the command, and each of the server, leaves the types right.
LEMMA WatchTypes ==
    ASSUME SInv, Watch
    PROVE  early' \subseteq Jobs /\ late' \subseteq Direct
<1>1. \A p \in Workers : pc[p] \in {"launch", "commit"} => job[p] \in Jobs
  BY SingleCopy DEF SInv, SinglePCs, Procs
<1>2. \A j \in Jobs : RefreshDirect(j) => j \in Direct
  BY DEF RefreshDirect, Slurm
<1> QED
  BY <1>1, <1>2 DEF Watch, SInv, CommandOK

LEMMA CommandTypes == SInv /\ [ShutdownNext]_allVars => CommandOK'
<1> SUFFICES ASSUME SInv, [ShutdownNext]_allVars PROVE CommandOK'
  OBVIOUS
<1>1. CASE UNCHANGED allVars
  BY <1>1 DEF SInv, CommandOK, allVars, command, watched
<1> SUFFICES ASSUME ShutdownNext, early' \subseteq Jobs, late' \subseteq Direct PROVE CommandOK'
  BY <1>1, WatchTypes DEF ShutdownNext
<1> USE DEF CommandOK, Steps
<1>2. CASE ServerStep
  BY <1>2 DEF SInv, ServerStep, command
<1>3. CASE Expire \/ Begin \/ WriteDrainOn \/ Stop
  BY <1>3 DEF SInv, Expire, Begin, WriteDrainOn, Stop
<1>4. CASE Snapshot \/ Round
  <2>1. Pending \in SUBSET Jobs /\ \A j \in Pending : Exists(j)
    BY DEF Pending
  <2>2. CASE Loop(Pending, "cancel") /\ Snapshot
    BY <2>1, <2>2, LoopFacts DEF SInv, Snapshot, Loop
  <2>3. CASE Loop(Pending, "refresh") /\ Round /\ UNCHANGED result
    BY <2>1, <2>3, LoopFacts DEF SInv, Round, Loop
  <2> QED
    BY <1>4, <2>2, <2>3 DEF SInv, Snapshot, Round, Finish
<1>5. ASSUME NEW j \in Jobs, CancelNot(j) \/ Mark(j) \/ RefreshFails(j) \/ KeepDirect(j)
      PROVE  CommandOK'
  <2>1. PICK label \in {"cancel", "refresh"} : Handled(j, label) /\ j \in left
    BY <1>5 DEF CancelNot, Mark, RefreshFails, KeepDirect, First
  <2>2. /\ mine' \in [Jobs -> Slots] /\ left' \subseteq Jobs /\ step' \in {"round", "cancel", "refresh"}
    BY <2>1, HandledFacts DEF SInv
  <2>3. UNCHANGED <<opts, ignored, expired, result>>
    BY <1>5 DEF CancelNot, Mark, RefreshFails, KeepDirect
  <2> QED
    BY <2>2, <2>3 DEF SInv
<1>6. ASSUME NEW j \in Jobs, CancelOne(j) PROVE CommandOK'
  BY <1>6 DEF SInv, CancelOne
<1>7. ASSUME NEW j \in Jobs, RefreshDirect(j) PROVE CommandOK'
  <2>1. j \in left /\ UNCHANGED <<opts, ignored, expired, result>>
    BY <1>7 DEF RefreshDirect, First
  <2>2. CASE Handled(j, "refresh")
    BY <2>1, <2>2, HandledFacts DEF SInv
  <2>3. CASE ~Handled(j, "refresh")
    <3>1. PICK o \in Answers(j) :
             /\ mine' = [mine EXCEPT ![j] = ApplyShow(mine[j], o, "inference" \in Gates)]
             /\ step' = "keep" /\ UNCHANGED left
      BY <1>7, <2>3 DEF RefreshDirect
    <3>2. mine[j] \in Records /\ o.exit \in ExitCodes
      BY <2>1, RecordFacts, ShowReportTypes DEF SInv, MineOK, Answers
    <3>3. ApplyShow(mine[j], o, "inference" \in Gates) \in Slots
      BY <3>2, ApplyShowType, RecordFacts
    <3> QED
      BY <2>1, <3>1, <3>3 DEF SInv
  <2> QED
    BY <2>2, <2>3
<1> QED
  BY <1>2, <1>3, <1>4, <1>5, <1>6, <1>7 DEF ShutdownNext, ShutdownStep

\* The steps of the command, one lemma for each way of touching the ledger.
LEMMA WriteMineStep ==
    ASSUME SInv, CommandOK', NEW j \in left, NEW label,
           WriteMine(j), Handled(j, label), UNCHANGED <<server, drain, acked, jobs, handler>>
    PROVE  SInv'
<1>1. /\ IInv' /\ \A k \in Jobs : Exists(k) => Exists(k)'
      /\ \A k \in Jobs : k # j => ledger'[k] = ledger[k]
  BY WriteMineInv
<1>2. /\ left' = {k \in Jobs : mine'[k] # NoRecord}
      /\ left' = left \ {j} /\ \A k \in left' : mine'[k] = mine[k]
  BY HandledFacts
<1>3. MineOK'
  BY <1>1, <1>2 DEF SInv, MineOK, jobs, Slurm
<1> QED
  BY <1>1, <1>3 DEF SInv

\* No record and no job is touched, and the copies are kept, dropped or taken afresh.
LEMMA LookStep ==
    ASSUME SInv, CommandOK', UNCHANGED vars,
           \/ UNCHANGED <<mine, left>>
           \/ \E label : Loop(Pending, label)
           \/ \E j \in left : \E label : Handled(j, label)
    PROVE  SInv'
<1>1. IInv' /\ UNCHANGED <<ledger, sched, killed, hasty>>
  BY NextInv DEF SInv, vars, files, jobs
<1>2. /\ left' = {k \in Jobs : mine'[k] # NoRecord}
      /\ \A k \in left' : (mine'[k] = ledger[k] /\ Exists(k)) \/ (mine'[k] = mine[k] /\ k \in left)
  <2>1. Pending \in SUBSET Jobs /\ \A j \in Pending : Exists(j)
    BY DEF Pending
  <2> QED
    BY <2>1, LoopFacts, HandledFacts DEF SInv, MineOK
<1>3. \A k \in left' : Exists(k)' /\ Truth(k, mine'[k], sched'[k], killed'[k], hasty'[k])
  BY <1>1, <1>2 DEF SInv, MineOK, IInv, Truthful, Exists
<1>4. MineOK'
  BY <1>1, <1>2, <1>3 DEF SInv, MineOK
<1> QED
  BY <1>1, <1>4 DEF SInv

LEMMA BeginStep ==
    ASSUME SInv, CommandOK', Begin \/ WriteDrainOn
    PROVE  SInv'
<1>1. /\ UNCHANGED <<server, ledger, acked, jobs, handler, stale, mine, left>>
      /\ drain' \in {drain, "torn", "on"}
  BY DEF Begin, WriteDrainOn
<1>2. TInv'
  BY <1>1 DEF SInv, IInv, TInv, HandlerOK, Locals, RestOK, StaleOK, jobs, handler
<1>3. Truthful' /\ AcknowledgedIsTracked' /\ \A p \in Procs : Owned(p)' /\ Held(p)'
  BY <1>1 DEF SInv, IInv, Truthful, Owned, Held, Submitting, AcknowledgedIsTracked, Exists,
              jobs, handler
<1>4. IInv'
  BY <1>1, <1>2, <1>3 DEF SInv, IInv, Submitting, jobs, handler
<1>5. MineOK'
  BY <1>1 DEF SInv, MineOK, Exists, jobs
<1> QED
  BY <1>4, <1>5 DEF SInv

LEMMA CancelOneStep ==
    ASSUME SInv, CommandOK', NEW j \in Jobs, CancelOne(j)
    PROVE  SInv'
<1>1. /\ \A k \in Jobs : killed[k] => killed'[k]
      /\ UNCHANGED <<server, files, sched, hasty, handler, stale, mine, left>>
      /\ killed' \in [Jobs -> BOOLEAN]
  BY DEF CancelOne, SInv, IInv, TInv, RestOK
<1>2. TInv'
  BY <1>1 DEF SInv, IInv, TInv, HandlerOK, Locals, RestOK, StaleOK, handler, files
<1>3. \A k \in Jobs : \A r : Truth(k, r, sched[k], killed[k], hasty[k])
                          => Truth(k, r, sched'[k], killed'[k], hasty'[k])
  BY <1>1 DEF Truth
<1>4. Truthful'
  BY <1>1, <1>3 DEF SInv, IInv, Truthful, files, handler
<1>5. AcknowledgedIsTracked' /\ \A p \in Procs : Owned(p)' /\ Held(p)'
  BY <1>1 DEF SInv, IInv, Owned, Held, Submitting, AcknowledgedIsTracked, Exists, files, handler
<1>6. IInv'
  BY <1>1, <1>2, <1>4, <1>5 DEF SInv, IInv, Submitting, handler
<1>7. MineOK'
  BY <1>1, <1>3 DEF SInv, MineOK, Exists, files
<1> QED
  BY <1>6, <1>7 DEF SInv

\* An answered query changes the history of queries only, and what is true stays true.
LEMMA AnsweredInv ==
    ASSUME SInv, NEW j \in Jobs, Answered(j),
           UNCHANGED <<server, files, sched, killed, handler, stale>>
    PROVE  /\ IInv' /\ UNCHANGED <<ledger, sched, killed>>
           /\ \A k \in Jobs : \A r : Truth(k, r, sched[k], killed[k], hasty[k])
                                    => Truth(k, r, sched'[k], killed'[k], hasty'[k])
<1>1. hasty' \in [Jobs -> BOOLEAN] /\ \A k \in Jobs : hasty[k] => hasty'[k]
  BY AnsweredFacts DEF SInv, IInv, TInv
<1>2. TInv'
  BY <1>1 DEF SInv, IInv, TInv, HandlerOK, Locals, RestOK, StaleOK, handler, files
<1>3. \A k \in Jobs : \A r : Truth(k, r, sched[k], killed[k], hasty[k])
                            => Truth(k, r, sched'[k], killed'[k], hasty'[k])
  BY <1>1 DEF Truth
<1>4. Truthful'
  BY <1>3 DEF SInv, IInv, Truthful, files, handler
<1>5. AcknowledgedIsTracked' /\ \A p \in Procs : Owned(p)' /\ Held(p)'
  BY DEF SInv, IInv, Owned, Held, Submitting, AcknowledgedIsTracked, Exists, files, handler
<1>6. IInv'
  BY <1>2, <1>4, <1>5 DEF SInv, IInv, Submitting, handler
<1> QED
  BY <1>3, <1>6 DEF files

LEMMA RefreshDirectStep ==
    ASSUME SInv, CommandOK', NEW j \in Jobs, RefreshDirect(j),
           ~(Handled(j, "refresh") /\ UNCHANGED hasty)
    PROVE  SInv'
<1>1. PICK o \in Answers(j) :
         /\ mine' = [mine EXCEPT ![j] = ApplyShow(mine[j], o, "inference" \in Gates)]
         /\ Answered(j) /\ UNCHANGED left
  BY DEF RefreshDirect
<1>2. j \in left /\ j \in Direct /\ UNCHANGED <<server, files, sched, killed, handler, stale>>
  BY DEF RefreshDirect, First, Slurm
<1>3. mine[j] \in Records /\ RestOK
  BY <1>2, RecordFacts DEF SInv, CommandOK, MineOK, IInv, TInv
<1> DEFINE r == ApplyShow(mine[j], o, "inference" \in Gates)
<1>4. r \in Records
  BY <1>3, ApplyShowType, ShowReportTypes DEF Answers
<1>5. Truth(j, r, sched[j], killed'[j], hasty'[j])
  BY <1>1, <1>2, <1>3, AnswerTruth DEF SInv, MineOK
<1> HIDE DEF r
<1>6. \A k \in Jobs : mine'[k] = IF k = j THEN r ELSE mine[k]
  BY <1>1 DEF SInv, CommandOK, r
<1>7. /\ IInv' /\ UNCHANGED <<ledger, sched, killed>>
      /\ \A k \in Jobs : \A x : Truth(k, x, sched[k], killed[k], hasty[k])
                               => Truth(k, x, sched'[k], killed'[k], hasty'[k])
  BY <1>1, <1>2, AnsweredInv
<1>8. MineOK'
  BY <1>1, <1>2, <1>4, <1>5, <1>6, <1>7, RecordFacts DEF SInv, MineOK, Exists, Slurm
<1> QED
  BY <1>7, <1>8 DEF SInv

\* The server process is killed: its handlers are gone, its files stay.
LEMMA StopStep ==
    ASSUME SInv, CommandOK', Stop
    PROVE  SInv'
<1>1. UNCHANGED <<files, jobs, mine, left>>
  BY DEF Stop
<1>2. CASE UNCHANGED <<server, handler, stale>>
  BY <1>1, <1>2, LookStep DEF vars
<1>3. CASE server' = "down" /\ ForgetHandlers
  <2>1. /\ \A p \in Procs : pc'[p] = "idle" /\ \A k \in Jobs : copy'[p][k] = NoRecord
        /\ UNCHANGED <<ledger, acked, sched, killed, hasty>>
    BY <1>1, <1>3 DEF ForgetHandlers, Nothing, files, jobs
  <2>2. TInv'
    <3>1. HandlerOK'
      BY <1>3, NothingType DEF ForgetHandlers, HandlerOK, Locals, PCs, SinglePCs
    <3> QED
      BY <1>1, <1>3, <3>1 DEF SInv, IInv, TInv, RestOK, StaleOK, ForgetHandlers, files, jobs
  <2>3. Truthful'
    BY <2>1, NoRecordFacts DEF SInv, IInv, Truthful
  <2>4. IInv'
    BY <2>1, <2>2, <2>3 DEF SInv, IInv, Owned, Held, Submitting, AcknowledgedIsTracked, Exists, Procs
  <2>5. MineOK'
    BY <1>1, <2>1 DEF SInv, MineOK, Exists
  <2> QED
    BY <2>4, <2>5 DEF SInv
<1> QED
  BY <1>2, <1>3 DEF Stop

LEMMA NextSInv == SInv /\ [ShutdownNext]_allVars => SInv'
<1> SUFFICES ASSUME SInv, [ShutdownNext]_allVars PROVE SInv'
  OBVIOUS
<1>1. CommandOK'
  BY CommandTypes
<1>2. CASE UNCHANGED allVars
  BY <1>1, <1>2, LookStep DEF allVars, command
<1>3. CASE ServerStep /\ Watch
  BY <1>1, <1>3, ServerSInv
<1>4. CASE Expire \/ Snapshot \/ Round
  BY <1>1, <1>4, LookStep DEF Expire, Snapshot, Round, Finish
<1>5. ASSUME NEW j \in Jobs, CancelNot(j) \/ Mark(j) \/ KeepDirect(j) PROVE SInv'
  BY <1>1, <1>5, WriteMineStep DEF CancelNot, Mark, KeepDirect, First
<1>6. ASSUME NEW j \in Jobs, RefreshFails(j) \/ RefreshDirect(j) PROVE SInv'
  <2>1. j \in left
    BY <1>6 DEF RefreshFails, RefreshDirect, First
  <2>2. CASE RefreshFails(j)
    BY <1>1, <2>1, <2>2, LookStep DEF RefreshFails
  <2>3. CASE RefreshDirect(j) /\ Handled(j, "refresh") /\ UNCHANGED hasty
    <3>1. UNCHANGED vars
      BY <2>3 DEF RefreshDirect, vars, jobs
    <3> QED
      BY <1>1, <2>1, <2>3, <3>1, LookStep
  <2> QED
    BY <1>1, <1>6, <2>2, <2>3, RefreshDirectStep
<1> QED
  BY <1>1, <1>2, <1>3, <1>4, <1>5, <1>6, BeginStep, CancelOneStep, StopStep
     DEF ShutdownNext, ShutdownStep

THEOREM AlwaysSInv == ShutdownSpec => []SInv
<1>1. ShutdownInit => SInv
  <2> SUFFICES ASSUME ShutdownInit PROVE SInv
    OBVIOUS
  <2>1. MineOK /\ CommandOK
    BY NothingType DEF ShutdownInit, MineOK, CommandOK, Nothing, Steps
  <2> QED
    BY <2>1, InitInv DEF ShutdownInit, SInv
<1> QED
  BY <1>1, NextSInv, PTL DEF ShutdownSpec

\* Every variable of the command and of the server beside it keeps its type.
THEOREM ShutdownTypeCorrect == ShutdownSpec => []ShutdownTypeOK
<1>1. SInv => ShutdownTypeOK
  BY DEF SInv, CommandOK, IInv, TInv, HandlerOK, RestOK, StaleOK, ShutdownTypeOK, TypeOK
<1> QED
  BY <1>1, AlwaysSInv, PTL

\* An acknowledged submission stays on disk with its scheduler id although the command writes
\* back records it read before.
THEOREM AcknowledgedSurvivesShutdown == ShutdownSpec => []AcknowledgedIsTracked
<1>1. SInv => AcknowledgedIsTracked
  BY DEF SInv, IInv
<1> QED
  BY <1>1, AlwaysSInv, PTL

\* Neither the command nor the server beside it records as canceled what was not told to stop.
THEOREM CanceledKilledInShutdown == ShutdownSpec => []CanceledWasKilled
<1>1. SInv => CanceledWasKilled
  BY DEF SInv, IInv, Truthful, Truth, CanceledWasKilled
<1> QED
  BY <1>1, AlwaysSInv, PTL

-----------------------------------------------------------------------------
(* The timeout.                                                            *)

\* A job that was queried after the timeout is not left to be queried again.
RoundInv ==
    /\ ~expired => late = {}
    /\ step = "refresh" => late \cap left = {}
    /\ step = "keep" => \A j \in late \cap left : First(j, left)

LEMMA FirstIsOne ==
    ASSUME SInv, NEW j \in left, NEW k \in left, First(j, left), First(k, left)
    PROVE  j = k
BY JobsAssumption DEF SInv, CommandOK, First

LEMMA WatchLate ==
    ASSUME SInv, Watch
    PROVE  /\ (\A j \in Jobs : ~RefreshDirect(j)) \/ ~expired => late' = late
           /\ \A j \in Jobs : RefreshDirect(j) => late' \subseteq late \cup {j}
<1>1. \A j, k \in Jobs : RefreshDirect(j) /\ RefreshDirect(k) => j = k
  BY FirstIsOne DEF RefreshDirect, First
<1> QED
  BY <1>1 DEF Watch

LEMMA NextRound == SInv /\ RoundInv /\ [ShutdownNext]_allVars => RoundInv'
<1> SUFFICES ASSUME SInv, RoundInv, [ShutdownNext]_allVars PROVE RoundInv'
  OBVIOUS
<1>1. CASE UNCHANGED <<step, left, expired, late>>
  BY <1>1 DEF RoundInv, First
<1>2. ASSUME NEW j \in Jobs, RefreshDirect(j), Watch PROVE RoundInv'
  <2>1. /\ step = "refresh" /\ j \in left /\ First(j, left) /\ expired' = expired
        /\ late \cap left = {} /\ late' \subseteq late \cup {j} /\ (~expired => late' = late)
    BY <1>2, WatchLate DEF RefreshDirect, First, RoundInv
  <2>2. CASE step' = "keep" /\ UNCHANGED left
    BY <2>1, <2>2 DEF RoundInv, First
  <2>3. CASE Handled(j, "refresh")
    BY <2>1, <2>3 DEF RoundInv, Handled
  <2> QED
    BY <1>2, <2>2, <2>3 DEF RefreshDirect
<1>3. ASSUME Watch, \A j \in Jobs : ~RefreshDirect(j), ShutdownStep \/ ServerStep \/ Expire
      PROVE  RoundInv'
  <2>1. late' = late
    BY <1>3, WatchLate
  <2>2. CASE Expire
    BY <2>1, <2>2 DEF Expire, RoundInv, First
  <2>3. CASE ServerStep
    BY <1>1, <2>1, <2>3 DEF ServerStep, command
  <2>4. CASE Begin \/ WriteDrainOn \/ Snapshot \/ Stop
    BY <2>1, <2>4 DEF Begin, WriteDrainOn, Snapshot, Stop, Loop, RoundInv
  <2>5. CASE Round
    <3>1. expired' = expired /\ (step' = "stop" \/ (step' = "refresh" /\ ~expired))
      BY <2>5 DEF Round, Finish, Loop
    <3> QED
      BY <2>1, <3>1 DEF RoundInv
  <2>6. ASSUME NEW j \in Jobs, CancelNot(j) \/ CancelOne(j) \/ Mark(j) PROVE RoundInv'
    BY <2>1, <2>6 DEF CancelNot, CancelOne, Mark, Handled, RoundInv
  <2>7. ASSUME NEW j \in Jobs, RefreshFails(j) PROVE RoundInv'
    BY <2>1, <2>7 DEF RefreshFails, Handled, RoundInv
  <2>8. ASSUME NEW j \in Jobs, KeepDirect(j) PROVE RoundInv'
    <3>1. /\ step = "keep" /\ j \in left /\ First(j, left) /\ expired' = expired
          /\ left' = left \ {j} /\ step' \in {"round", "refresh"}
      BY <2>8 DEF KeepDirect, Handled, First
    <3>2. \A k \in late \cap left : k = j
      BY <3>1, FirstIsOne DEF RoundInv
    <3> QED
      BY <2>1, <3>1, <3>2 DEF RoundInv
  <2> QED
    BY <1>3, <2>2, <2>3, <2>4, <2>5, <2>6, <2>7, <2>8 DEF ShutdownStep
<1> QED
  BY <1>1, <1>2, <1>3 DEF ShutdownNext, allVars, command, watched

\* After the timeout at most one more command is started for each direct job.
THEOREM OverrunAlwaysOneRound == ShutdownSpec => OneRoundOverrun
<1>1. ShutdownInit => RoundInv
  BY DEF ShutdownInit, RoundInv
<1>2. RoundInv /\ [ShutdownNext]_allVars =>
        [\A j \in Jobs : expired /\ RefreshDirect(j) => j \notin late]_allVars
  BY DEF RoundInv, RefreshDirect, First
<1> QED
  BY <1>1, <1>2, NextRound, AlwaysSInv, PTL DEF ShutdownSpec, OneRoundOverrun

-----------------------------------------------------------------------------
(* Admissions.                                                             *)

Begun == step \notin {"off", "drain"}

\* Nobody else writes the drain file; once it says "on" every submission that is still to
\* be launched was in flight when the command wrote that.
DrainInv ==
    "drain" \notin Requests =>
        /\ \A p \in Procs : pc[p] \notin {"drain_on", "drain_off"}
        /\ Begun /\ "no_drain" \notin opts => drain = "on"
        /\ drain = "on" => \A p \in Procs : pc[p] = "launch" => job[p] \in early

\* How a handler comes to be about to launch.
LEMMA ServerLaunches ==
    ASSUME IInv, Next, NEW p \in Procs, pc'[p] = "launch"
    PROVE  (pc[p] = "launch" /\ job'[p] = job[p]) \/ drain # "on"
<1> DEFINE Stays == pc[p] = "launch" /\ job'[p] = job[p]
<1>1. ASSUME NEW q \in Procs, OrdinaryStep(q) PROVE Stays
  BY <1>1 DEF OrdinaryStep
<1>2. ASSUME NEW q \in Procs, NEW j \in Jobs, Plan(q, j) PROVE Stays \/ drain # "on"
  <2>1. CASE q # p
    BY <1>2, <2>1 DEF Plan, TakeUp, Goto, IInv, TInv, HandlerOK
  <2>2. CASE q = p /\ drain = "on"
    <3>1. PICK s \in {"blocked"} :
            TakeUp(p, j, NewRecord(s), IF s = "accepted" /\ ExecutionEnabled(j) THEN "launch" ELSE "commit")
      BY <1>2, <2>2 DEF Plan, SlurmPlans, DirectPlans
    <3>2. pc'[p] = "commit"
      BY <3>1 DEF TakeUp, Goto, IInv, TInv, HandlerOK
    <3> QED
      BY <3>2
  <2> QED
    BY <2>1, <2>2
<1>3. ASSUME NEW q \in Procs, Launch(q) \/ Commit(q) PROVE Stays
  <2>1. \E label \in {"commit", "idle"} : pc' = [pc EXCEPT ![q] = label]
    BY <1>3 DEF Launch, Commit, Keep, Return, Goto
  <2>2. \A r \in Procs \ {q} : job'[r] = job[r]
    BY <1>3 DEF Launch, Commit, Keep, Return, IInv, TInv, HandlerOK
  <2> QED
    BY <2>1, <2>2 DEF IInv, TInv, HandlerOK
<1>4. CASE UNCHANGED handler
  BY <1>4 DEF handler
<1>5. ~Crash
  BY DEF Crash, ForgetHandlers
<1> QED
  BY <1>1, <1>2, <1>3, <1>4, <1>5, StepKinds DEF SchedStep

\* Without drain requests the server leaves the drain file alone.
LEMMA ServerDrainsNot ==
    ASSUME TInv, Next, "drain" \notin Requests,
           \A p \in Procs : pc[p] \notin {"drain_on", "drain_off"}
    PROVE  drain' = drain /\ \A p \in Procs : pc'[p] \notin {"drain_on", "drain_off"}
<1>1. ASSUME NEW p \in Procs, NEW label \in PCs \ {"drain_on", "drain_off"}, Goto(p, label)
      PROVE  \A q \in Procs : pc'[q] \notin {"drain_on", "drain_off"}
  BY <1>1 DEF Goto, TInv, HandlerOK
<1>2. ASSUME NEW p \in Procs, Request(p)
      PROVE  drain' = drain /\ \E label \in PCs \ {"drain_on", "drain_off"} : Goto(p, label)
  BY <1>2 DEF Request, Plan, Get, Cancel, List, SetDrain, TakeUp, StartBulk, files, PCs
<1>3. ASSUME NEW p \in Procs, Continue(p)
      PROVE  /\ drain' = drain
             /\ UNCHANGED pc \/ \E label \in PCs \ {"drain_on", "drain_off"} : Goto(p, label)
  BY <1>3 DEF Continue, Launch, RejectSpec, Commit, Squeue, Sacct, Scontrol, Show, Write, Kill,
              BulkShow, BulkShowWrite, BulkSqueue, BulkSacct, BulkWrite, WriteDrain,
              NextDirect, Keep, Return, files, PCs
<1>4. CASE Restart
  BY <1>1, <1>4 DEF Restart, StartBulk, files, handler, Procs, PCs
<1>5. CASE Crash \/ \E j \in Jobs : SchedStep(j)
  BY <1>5 DEF Crash, ForgetHandlers, SchedStep, files, handler
<1> QED
  BY <1>1, <1>2, <1>3, <1>4, <1>5 DEF Next

\* The history of admissions is written once.
LEMMA WatchEarly ==
    ASSUME SInv, Watch
    PROVE  IF step = "drain" /\ step' = "snapshot"
           THEN \A p \in Procs : Submitting(p) => job[p] \in early'
           ELSE early' = early
BY DEF Watch, SInv, IInv, Submitting, Procs

LEMMA NextDrain == SInv /\ DrainInv /\ [ShutdownNext]_allVars => DrainInv'
<1> SUFFICES ASSUME SInv, DrainInv, [ShutdownNext]_allVars, "drain" \notin Requests
             PROVE  DrainInv'
  BY DEF DrainInv
<1>1. CASE UNCHANGED allVars
  BY <1>1 DEF DrainInv, Begun, allVars, vars, command, watched, files, handler
<1>2. CASE ServerStep /\ Watch
  <2>1. IInv /\ TInv /\ Next /\ UNCHANGED <<step, opts>> /\ early' = early
    BY <1>2, WatchEarly DEF SInv, IInv, ServerStep, command
  <2>2. drain' = drain /\ \A p \in Procs : pc'[p] \notin {"drain_on", "drain_off"}
    BY <2>1, ServerDrainsNot DEF DrainInv
  <2> QED
    BY <2>1, <2>2, ServerLaunches DEF DrainInv, Begun
<1>3. CASE Begin /\ Watch
  BY <1>3, WatchEarly DEF Begin, DrainInv, Begun, handler
<1>4. CASE WriteDrainOn /\ Watch
  <2>1. drain' = "on" /\ UNCHANGED <<pc, job>> /\ \A p \in Procs : Submitting(p) => job[p] \in early'
    BY <1>4, WatchEarly DEF WriteDrainOn, handler
  <2> QED
    BY <2>1 DEF DrainInv, Submitting
<1>5. CASE Stop /\ Watch
  BY <1>5, WatchEarly DEF Stop, ForgetHandlers, DrainInv, Begun, files, handler
<1>6. ASSUME Watch, Expire \/ (ShutdownStep /\ ~Begin /\ ~WriteDrainOn /\ ~Stop) PROVE DrainInv'
  <2>1. UNCHANGED <<drain, pc, job, opts>> /\ step \notin {"off", "drain"} /\ Begun
    BY <1>6 DEF ShutdownStep, Expire, Snapshot, Round, CancelNot, CancelOne, Mark, RefreshFails,
                RefreshDirect, KeepDirect, vars, files, handler, Begun
  <2>2. early' = early
    BY <1>6, <2>1, WatchEarly
  <2> QED
    BY <2>1, <2>2 DEF DrainInv
<1> QED
  BY <1>1, <1>2, <1>3, <1>4, <1>5, <1>6 DEF ShutdownNext, ShutdownStep

THEOREM AlwaysDrainInv == ShutdownSpec => []DrainInv
<1>1. ShutdownInit => DrainInv
  BY DEF ShutdownInit, Init, DrainInv, Begun
<1> QED
  BY <1>1, NextDrain, AlwaysSInv, PTL DEF ShutdownSpec

\* A job is started only by the submission that is about to launch it.
LEMMA Starts ==
    ASSUME IInv, Next, NEW j \in Jobs, sched[j] \notin LiveStates, sched'[j] # sched[j]
    PROVE  \E p \in Procs : pc[p] = "launch" /\ job[p] = j /\ Launch(p)
<1>1. ~\E k \in Jobs : SchedStep(k)
  BY DEF SchedStep, SchedStart, SchedEnd, SchedCancel, LiveStates, IInv, TInv, RestOK
<1>2. ASSUME NEW p \in Procs, Launch(p) PROVE pc[p] = "launch" /\ job[p] = j
  <2>1. pc[p] = "launch" /\ (sched' = sched \/ sched' = [sched EXCEPT ![job[p]] = "PENDING"])
    BY <1>2 DEF Launch
  <2> QED
    BY <2>1 DEF IInv, TInv, RestOK
<1> QED
  BY <1>1, <1>2, StepKinds DEF OrdinaryStep, Plan, Commit, Crash, jobs

\* Drain lets in only the submissions that were in flight when it was written.
THEOREM DrainAlwaysStopsAdmissions == ShutdownSpec => DrainStopsAdmissions
<1>1. SInv /\ DrainInv /\ [ShutdownNext]_allVars =>
        [\A j \in Jobs :
          /\ "drain" \notin Requests /\ drain = "on"
          /\ sched[j] = "NONE" /\ sched'[j] # "NONE"
          => j \in early]_allVars
  <2> SUFFICES ASSUME SInv, DrainInv, ShutdownNext, NEW j \in Jobs,
                      "drain" \notin Requests, drain = "on",
                      sched[j] = "NONE", sched'[j] # "NONE"
               PROVE  j \in early
    OBVIOUS
  <2>1. CASE ServerStep
    BY <2>1, Starts DEF ServerStep, SInv, DrainInv, LiveStates
  <2>2. CASE ~ServerStep
    <3>1. sched' = sched
      BY <2>2 DEF ShutdownNext, ShutdownStep, Begin, WriteDrainOn, Stop, Expire, Snapshot, Round,
                  CancelNot, CancelOne, Mark, RefreshFails, RefreshDirect, KeepDirect, vars, jobs
    <3> QED
      BY <3>1
  <2> QED
    BY <2>1, <2>2
<1> QED
  BY <1>1, AlwaysSInv, AlwaysDrainInv, PTL DEF ShutdownSpec, DrainStopsAdmissions

-----------------------------------------------------------------------------
(* Nothing is left running.                                                *)

Recorded(j) == Exists(j) /\ (Slurm(j) => ledger[j].sid)

\* The submission of j has launched it and will record it.
Launched(j) == \E p \in Procs : /\ pc[p] = "commit" /\ job[p] = j
                                /\ Slurm(j) => copy[p][j].sid

\* A job that runs is on record; the exceptions are in flight before drain is written, and
\* known to have been in flight afterwards.
SeenInv ==
    Undisturbed =>
        \A j \in Jobs : sched[j] \in LiveStates =>
            \/ Recorded(j)
            \/ ~Begun /\ Launched(j)
            \/ Begun /\ ("no_drain" \in opts \/ j \in early)

\* The jobs that the property is about.
Slipped(j) == /\ j \notin ignored /\ j \notin early
              /\ sched[j] \in LiveStates /\ ~killed[j] /\ ~hasty[j]

\* None of them leaves the cancel loop unless the options spare it, and a clean result
\* leaves none at all.
LoopInv ==
    /\ result # "none" => step \in {"stop", "ended"}
    /\ Undisturbed /\ "no_drain" \notin opts =>
           \A j \in Jobs : Slipped(j) =>
               /\ step = "cancel" => j \in left \/ ~MayCancel(j)
               /\ step = "mark" => (j \in left /\ ~First(j, left)) \/ ~MayCancel(j)
               /\ CancelsDone => ~MayCancel(j)
               /\ result # "clean"

LEMMA ServerSeen ==
    ASSUME SInv, DrainInv, SeenInv, Undisturbed, ServerStep, Watch, SInv'
    PROVE  SeenInv'
<1> SUFFICES ASSUME NEW j \in Jobs, sched'[j] \in LiveStates, ~Recorded(j)'
             PROVE  (~Begun /\ Launched(j)') \/ (Begun /\ ("no_drain" \in opts \/ j \in early))
  <2>1. UNCHANGED <<step, opts>> /\ early' = early
    BY WatchEarly DEF ServerStep, command
  <2> QED
    BY <2>1 DEF SeenInv, Begun
<1>1. IInv /\ Next /\ "drain" \notin Requests /\ HonestCommands /\ "crash" \notin Faults
  BY DEF SInv, ServerStep, Undisturbed, HonestCommands
<1>2. ~Recorded(j)
  BY <1>1, NextKeepsIds DEF IdsKept, Recorded
<1>3. CASE sched[j] \notin LiveStates
  <2>1. PICK p \in Procs : pc[p] = "launch" /\ job[p] = j /\ Launch(p)
    BY <1>1, <1>3, Starts
  <2>2. sched[j] = "NONE"
    BY <1>1, <2>1 DEF IInv, Owned, Submitting
  <2>3. copy' = [copy EXCEPT ![p][j] = [copy[p][j] EXCEPT !.state = "submitted", !.sid = Slurm(j)]]
    BY <1>1, <1>3, <2>1 DEF Launch, Keep, HonestCommands
  <2>4. /\ pc'[p] = "commit" /\ job'[p] = j /\ copy[p][j] \in Records
        /\ copy \in [Procs -> [Jobs -> Slots]]
    BY <1>1, <2>1, SingleCopy DEF Launch, Keep, Goto, SinglePCs, IInv, TInv, HandlerOK
  <2>5. copy'[p][j].sid = Slurm(j)
    BY <2>3, <2>4 DEF Records
  <2>6. Launched(j)'
    BY <2>4, <2>5 DEF Launched, Slurm
  <2>7. Begun /\ "no_drain" \notin opts => j \in early
    BY <1>1, <2>1 DEF DrainInv
  <2> QED
    BY <2>6, <2>7
<1>4. CASE sched[j] \in LiveStates /\ ~Begun
  <2>1. PICK p \in Procs : pc[p] = "commit" /\ job[p] = j /\ (Slurm(j) => copy[p][j].sid)
    BY <1>2, <1>4 DEF SeenInv, Launched
  <2>2. ~Commit(p)
    <3> SUFFICES ASSUME Commit(p) PROVE FALSE
      OBVIOUS
    <3>1. ledger' = [ledger EXCEPT ![j] = copy[p][j]] /\ copy[p][j] \in Records
      BY <1>1, <2>1, SingleCopy DEF Commit, WriteRecord, SinglePCs
    <3>2. ledger'[j] = copy[p][j]
      BY <1>1, <3>1 DEF IInv, TInv, RestOK
    <3> QED
      BY <2>1, <3>1, <3>2, RecordFacts DEF Recorded, Exists
  <2>3. pc'[p] = pc[p] /\ job'[p] = job[p] /\ copy'[p] = copy[p]
    <3>1. ASSUME NEW q \in Procs, OrdinaryStep(q) PROVE pc'[p] = pc[p] /\ job'[p] = job[p] /\ copy'[p] = copy[p]
      BY <2>1, <3>1 DEF OrdinaryStep
    <3>2. ASSUME NEW q \in Procs, q # p, Launch(q) \/ Commit(q) \/ \E k \in Jobs : Plan(q, k)
          PROVE  pc'[p] = pc[p] /\ job'[p] = job[p] /\ copy'[p] = copy[p]
      BY <1>1, <3>2 DEF Launch, Commit, Plan, Keep, Return, TakeUp, Goto, IInv, TInv, HandlerOK
    <3>3. ~Launch(p) /\ \A k \in Jobs : ~Plan(p, k)
      BY <2>1 DEF Launch, Plan, Idle
    <3> QED
      BY <1>1, <2>2, <3>1, <3>2, <3>3, StepKinds DEF SchedStep, Crash, handler
  <2> QED
    BY <1>4, <2>1, <2>3 DEF Launched
<1>5. CASE sched[j] \in LiveStates /\ Begun
  BY <1>2, <1>5 DEF SeenInv
<1> QED
  BY <1>3, <1>4, <1>5

\* What a step of the command leaves in place.
LEMMA CommandKeeps ==
    ASSUME SInv, ShutdownStep \/ Expire
    PROVE  /\ sched' = sched
           /\ \A j \in Jobs : Recorded(j) => Recorded(j)'
           /\ \A j \in Jobs : (killed[j] => killed'[j]) /\ (hasty[j] => hasty'[j])
           /\ ~Begin => UNCHANGED <<opts, ignored>>
<1>1. ASSUME NEW i \in left, WriteMine(i), NEW j \in Jobs, Recorded(j) PROVE Recorded(j)'
  <2>1. ledger'[j] = ledger[j] \/ (j = i /\ ledger'[j] = mine[j])
    BY <1>1 DEF WriteMine, SInv, IInv, TInv, RestOK
  <2>2. mine[i] # NoRecord /\ (Slurm(i) => mine[i].sid = ledger[i].sid)
    BY DEF SInv, MineOK
  <2> QED
    BY <1>1, <2>1, <2>2 DEF Recorded, Exists
<1>2. ASSUME UNCHANGED ledger, NEW j \in Jobs, Recorded(j) PROVE Recorded(j)'
  BY <1>2 DEF Recorded, Exists
<1>3. UNCHANGED ledger \/ \E i \in left : WriteMine(i)
  BY DEF ShutdownStep, Begin, WriteDrainOn, Stop, Expire, Snapshot, Round, CancelNot, CancelOne, Mark,
         RefreshFails, RefreshDirect, KeepDirect, First, vars, files
<1>4. sched' = sched /\ (~Begin => UNCHANGED <<opts, ignored>>)
  BY DEF ShutdownStep, Begin, WriteDrainOn, Stop, Expire, Snapshot, Round, CancelNot, CancelOne, Mark,
         RefreshFails, RefreshDirect, KeepDirect, vars, jobs
<1>5. \A j \in Jobs : killed[j] => killed'[j]
  <2>1. killed' = killed \/ \E i \in Jobs : killed' = [killed EXCEPT ![i] = TRUE]
    BY DEF ShutdownStep, Begin, WriteDrainOn, Stop, Expire, Snapshot, Round, CancelNot, CancelOne, Mark,
           RefreshFails, RefreshDirect, KeepDirect, vars, jobs
  <2> QED
    BY <2>1 DEF SInv, IInv, TInv, RestOK
<1>6. \A j \in Jobs : hasty[j] => hasty'[j]
  <2>1. CASE UNCHANGED hasty
    BY <2>1
  <2>2. ASSUME NEW i \in Jobs, Answered(i) PROVE \A j \in Jobs : hasty[j] => hasty'[j]
    BY <2>2, AnsweredFacts DEF SInv, IInv, TInv
  <2>3. UNCHANGED hasty \/ \E i \in Jobs : Answered(i)
    BY DEF ShutdownStep, Begin, WriteDrainOn, Stop, Expire, Snapshot, Round, CancelNot, CancelOne,
           Mark, RefreshFails, RefreshDirect, KeepDirect, vars, jobs
  <2> QED
    BY <2>1, <2>2, <2>3
<1> QED
  BY <1>1, <1>2, <1>3, <1>4, <1>5, <1>6

\* Begin and the end of the drain file apart, drain is settled and the history of it written.
LEMMA CommandBegun ==
    ASSUME ShutdownStep \/ Expire, ~Begin, ~WriteDrainOn
    PROVE  Begun /\ Begun'
BY DEF ShutdownStep, Stop, Expire, Snapshot, Round, CancelNot, CancelOne, Mark, RefreshFails,
       RefreshDirect, KeepDirect, Loop, Finish, Handled, Begun

LEMMA NextSeen == SInv /\ DrainInv /\ SeenInv /\ [ShutdownNext]_allVars => SeenInv'
<1> SUFFICES ASSUME SInv, DrainInv, SeenInv, [ShutdownNext]_allVars, Undisturbed PROVE SeenInv'
  BY DEF SeenInv
<1>1. SInv'
  BY NextSInv
<1>2. CASE UNCHANGED allVars
  BY <1>2 DEF SeenInv, Recorded, Launched, Begun, Exists, allVars, vars, command, watched, files,
              jobs, handler
<1>3. CASE ServerStep /\ Watch
  BY <1>1, <1>3, ServerSeen
<1>4. ASSUME ShutdownStep \/ Expire, Watch PROVE SeenInv'
  <2>1. sched' = sched /\ \A j \in Jobs : Recorded(j) => Recorded(j)'
    BY <1>4, CommandKeeps
  <2>2. CASE Begin
    <3>1. /\ ~Begun /\ (Begun' => "no_drain" \in opts')
          /\ \A j \in Jobs : Launched(j) => Launched(j)'
      BY <2>2 DEF Begin, Begun, Launched, handler
    <3> QED
      BY <2>1, <3>1 DEF SeenInv
  <2>3. CASE WriteDrainOn
    <3>1. ~Begun /\ Begun' /\ \A j \in Jobs : Launched(j) => j \in early'
      BY <1>4, <2>3, WatchEarly DEF WriteDrainOn, Begun, Launched, Submitting
    <3> QED
      BY <2>1, <3>1 DEF SeenInv
  <2>4. CASE ~Begin /\ ~WriteDrainOn
    <3>1. Begun /\ Begun' /\ opts' = opts
      BY <1>4, <2>4, CommandBegun, CommandKeeps
    <3>2. early' = early
      BY <1>4, <3>1, WatchEarly DEF Begun
    <3> QED
      BY <2>1, <3>1, <3>2 DEF SeenInv
  <2> QED
    BY <2>2, <2>3, <2>4
<1> QED
  BY <1>2, <1>3, <1>4 DEF ShutdownNext

THEOREM AlwaysSeenInv == ShutdownSpec => []SeenInv
<1>1. ShutdownInit => SeenInv
  BY DEF ShutdownInit, Init, SeenInv, LiveStates
<1> QED
  BY <1>1, NextSeen, AlwaysSInv, AlwaysDrainInv, PTL DEF ShutdownSpec

\* A job that slipped through is one that the command still looks for.
LEMMA SlippedPending ==
    ASSUME SInv, SeenInv, Undisturbed, Begun, "no_drain" \notin opts, NEW j \in Jobs, Slipped(j)
    PROVE  Recorded(j) /\ j \in Pending
<1>1. Recorded(j) /\ sched[j] \in LiveStates /\ ~killed[j] /\ ~hasty[j]
  BY DEF SeenInv, Slipped
<1>2. ledger[j].state \notin TerminalStates
  BY <1>1 DEF SInv, IInv, Truthful, Truth, Undisturbed, HonestCommands, TerminalStates, LiveStates
<1> QED
  BY <1>1, <1>2 DEF Slipped, Pending, Recorded

\* No job comes to slip through later on.
LEMMA SlippedStays ==
    ASSUME SInv, DrainInv, SeenInv, Undisturbed, Begun, "no_drain" \notin opts,
           ShutdownNext, NEW j \in Jobs, Slipped(j)'
    PROVE  Slipped(j) /\ early' = early /\ UNCHANGED <<opts, ignored>>
<1>1. early' = early
  BY WatchEarly DEF ShutdownNext, Begun
<1>2. CASE ServerStep
  <2>1. IInv /\ Next /\ UNCHANGED <<opts, ignored>>
    BY <1>2 DEF SInv, ServerStep, command
  <2>2. j \notin early /\ j \notin ignored /\ sched'[j] \in LiveStates /\ ~killed'[j] /\ ~hasty'[j]
    BY <1>1, <2>1 DEF Slipped
  <2>3. \A p \in Procs : pc[p] = "launch" => job[p] # j
    BY <2>2 DEF DrainInv, Undisturbed
  <2>4. sched[j] \in LiveStates
    BY <2>1, <2>2, <2>3, Starts
  <2>5. Exists(j)
    BY <2>2, <2>4 DEF SeenInv, Recorded
  <2>6. ~killed[j] /\ ~hasty[j]
    BY <2>1, <2>2, <2>5, TruthStays
  <2> QED
    BY <1>1, <2>1, <2>2, <2>4, <2>6 DEF Slipped
<1>3. CASE ShutdownStep \/ Expire
  <2>1. ~Begin
    BY DEF Begin, Begun
  <2> QED
    BY <1>1, <1>3, <2>1, CommandKeeps DEF Slipped
<1> QED
  BY <1>2, <1>3 DEF ShutdownNext

LEMMA NextLoop == SInv /\ DrainInv /\ SeenInv /\ LoopInv /\ [ShutdownNext]_allVars => LoopInv'
<1> SUFFICES ASSUME SInv, DrainInv, SeenInv, LoopInv, [ShutdownNext]_allVars PROVE LoopInv'
  OBVIOUS
<1>1. (result # "none" => step \in {"stop", "ended"})'
  BY DEF LoopInv, ShutdownNext, ShutdownStep, ServerStep, Begin, WriteDrainOn, Stop, Expire,
         Snapshot, Round, CancelNot, CancelOne, Mark, RefreshFails, RefreshDirect, KeepDirect,
         Loop, Finish, Handled, allVars, command
<1> SUFFICES ASSUME Undisturbed, "no_drain" \notin opts', NEW j \in Jobs, Slipped(j)'
             PROVE  (/\ step = "cancel" => j \in left \/ ~MayCancel(j)
                     /\ step = "mark" => (j \in left /\ ~First(j, left)) \/ ~MayCancel(j)
                     /\ CancelsDone => ~MayCancel(j)
                     /\ result # "clean")'
  BY <1>1 DEF LoopInv
<1>2. CASE UNCHANGED allVars
  BY <1>2 DEF LoopInv, Slipped, MayCancel, Slurm, First, CancelsDone, allVars, vars, jobs,
              command, watched
<1>3. CASE ShutdownNext /\ ~Begun
  <2>1. result' = "none" /\ step' \in {"off", "drain", "snapshot"}
    BY <1>3 DEF LoopInv, Begun, ShutdownNext, ShutdownStep, ServerStep, Begin, WriteDrainOn, Stop,
                Expire, Snapshot, Round, CancelNot, CancelOne, Mark, RefreshFails, RefreshDirect,
                KeepDirect, command
  <2> QED
    BY <2>1 DEF CancelsDone
<1>4. CASE ShutdownNext /\ Begun
  <2>1. ~Begin /\ ~WriteDrainOn
    BY <1>4 DEF Begin, WriteDrainOn, Begun
  <2>2. opts' = opts
    BY <1>4, <2>1, CommandKeeps DEF ShutdownNext, ServerStep, command
  <2>3. Slipped(j) /\ (MayCancel(j)' <=> MayCancel(j))
    BY <1>4, <2>2, SlippedStays DEF MayCancel, Slurm
  <2>4. Recorded(j) /\ j \in Pending
    BY <1>4, <2>2, <2>3, SlippedPending
  <2>5. /\ step = "cancel" => j \in left \/ ~MayCancel(j)
        /\ step = "mark" => (j \in left /\ ~First(j, left)) \/ ~MayCancel(j)
        /\ CancelsDone => ~MayCancel(j)
        /\ result # "clean"
    BY <2>2, <2>3 DEF LoopInv
  <2>6. CASE ServerStep
    BY <2>3, <2>5, <2>6 DEF ServerStep, command, First, CancelsDone
  <2>7. CASE Expire \/ Stop
    BY <2>3, <2>5, <2>7 DEF Expire, Stop, First, CancelsDone
  <2>8. CASE Snapshot
    <3>1. result' = result /\ (step' = "round" => ~MayCancel(j)) /\ (step' = "cancel" => j \in left')
          /\ step' \in {"round", "cancel"}
      BY <2>4, <2>8 DEF Snapshot, Loop, MayCancel
    <3> QED
      BY <2>3, <2>5, <3>1 DEF CancelsDone
  <2>9. CASE Round
    <3>1. CancelsDone /\ result' # "clean" /\ step' \in {"stop", "refresh"}
      BY <2>4, <2>5, <2>9 DEF Round, Finish, Loop, CancelsDone
    <3> QED
      BY <2>3, <2>5, <3>1
  <2>10. ASSUME NEW i \in Jobs, CancelNot(i) \/ Mark(i)
         PROVE  /\ step' \in {"cancel", "round"} /\ result' = result
                /\ j \in left' \/ ~MayCancel(j)
                /\ step' = "round" => j \notin left'
    <3>1. /\ i \in left /\ First(i, left) /\ Handled(i, "cancel") /\ result' = result
          /\ step \in {"cancel", "mark"}
      BY <2>10 DEF CancelNot, Mark, First
    <3>2. /\ left' = left \ {i} /\ step' \in {"cancel", "round"}
          /\ step' = "round" => left' = {}
      BY <3>1 DEF Handled
    <3>3. j = i => ~MayCancel(j)
      <4>1. CASE CancelNot(i)
        <5>1. Slurm(i) => mine[i].sid = ledger[i].sid
          BY <3>1 DEF SInv, MineOK
        <5> QED
          BY <2>4, <4>1, <5>1 DEF CancelNot, Cancelable, MayCancel, Recorded
      <4>2. CASE Mark(i)
        BY <2>5, <3>1, <4>2 DEF Mark
      <4> QED
        BY <2>10, <4>1, <4>2
    <3>4. j # i => j \in left' \/ ~MayCancel(j)
      BY <2>5, <3>1, <3>2
    <3> QED
      BY <3>1, <3>2, <3>3, <3>4
  <2>11. ASSUME NEW i \in Jobs, CancelOne(i)
         PROVE  /\ step' = "mark" /\ result' = result /\ left' = left
                /\ (j \in left /\ ~First(j, left)) \/ ~MayCancel(j)
    <3>1. /\ i \in left /\ First(i, left) /\ step = "cancel"
          /\ step' = "mark" /\ result' = result /\ left' = left /\ sched' = sched
      BY <2>11 DEF CancelOne, First
    <3>2. killed'[i] \/ sched'[i] \notin LiveStates
      BY <2>11 DEF CancelOne, Undisturbed, SInv, IInv, TInv, RestOK
    <3>3. j # i
      BY <3>2 DEF Slipped
    <3> QED
      BY <2>5, <3>1, <3>3, FirstIsOne
  <2>12. ASSUME NEW i \in Jobs, RefreshFails(i) \/ RefreshDirect(i) \/ KeepDirect(i)
         PROVE  CancelsDone /\ step' \in {"round", "refresh", "keep"} /\ result' = result
    BY <2>12 DEF RefreshFails, RefreshDirect, KeepDirect, Handled, CancelsDone
  <2>13. ASSUME NEW i \in Jobs, CancelNot(i) \/ Mark(i) \/ CancelOne(i) \/ RefreshFails(i)
                                \/ RefreshDirect(i) \/ KeepDirect(i)
         PROVE  (/\ step = "cancel" => j \in left \/ ~MayCancel(j)
                 /\ step = "mark" => (j \in left /\ ~First(j, left)) \/ ~MayCancel(j)
                 /\ CancelsDone => ~MayCancel(j)
                 /\ result # "clean")'
    BY <2>3, <2>5, <2>10, <2>11, <2>12, <2>13 DEF CancelsDone, First
  <2> QED
    BY <1>4, <2>1, <2>6, <2>7, <2>8, <2>9, <2>13 DEF ShutdownNext, ShutdownStep
<1> QED
  BY <1>2, <1>3, <1>4

\* Where nothing disturbs it, a drain and its cancel loop leave no job running that was not in
\* flight, told to stop or exempted; a clean result leaves not even the exempted ones.
THEOREM NothingEverLeftRunning == ShutdownSpec => []NothingLeftRunning
<1>1. ShutdownInit => LoopInv
  BY DEF ShutdownInit, Init, LoopInv, Slipped, LiveStates
<1>2. LoopInv => NothingLeftRunning
  BY DEF LoopInv, NothingLeftRunning, Slipped
<1> QED
  BY <1>1, <1>2, NextLoop, AlwaysSInv, AlwaysDrainInv, AlwaysSeenInv, PTL DEF ShutdownSpec
=============================================================================
