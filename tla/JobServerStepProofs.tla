------------------------- MODULE JobServerStepProofs -------------------------
(***************************************************************************)
(* Theorems about the steps of JobServer: what a write may do to a record  *)
(* that others have written since the handler read it, and to the drain    *)
(* file.                                                                   *)
(***************************************************************************)
EXTENDS JobServerProofs

-----------------------------------------------------------------------------
(* What a handler knows of a record that nobody has written since it read  *)
(* it.                                                                     *)

BulkPCs == {"bshow", "bshowwrite", "bsqueue", "bsacct", "bwrite"}

\* The copy r of the record l of job j is what a handler at the label may hold of it.
UpToDate(j, r, l, label) ==
    /\ label \in BulkPCs => l.state \notin TerminalStates
    /\ label \in {"squeue", "show"} => r = l
    /\ label \in {"sacct", "scontrol", "write"} /\ Slurm(j) /\ l.state = "canceled" =>
          r.state = "canceled"
    /\ label = "write" /\ ~Slurm(j) /\ l.state = "succeeded" =>
          r.state \notin {"failed", "unknown"}

Current(p) ==
    \A j \in Jobs : copy[p][j] # NoRecord /\ j \notin stale[p] =>
        UpToDate(j, copy[p][j], ledger[j], pc[p])

\* A handler of one job holds one copy; the Slurm commands are for Slurm jobs.
Lone(p) ==
    /\ pc[p] \in SinglePCs => \A j \in Jobs : copy[p][j] # NoRecord => j = job[p]
    /\ pc[p] \in {"squeue", "sacct", "scontrol"} => Slurm(job[p])

Drains(p) == pc[p] \in {"drain_on", "drain_off"}

KInv ==
    /\ \A p \in Procs : Current(p) /\ Lone(p)
    /\ ~Drains(Boot)

\* Handler p makes a step; the copies of a record it writes become stale.
StepOf(p) ==
    /\ \A q \in Procs \ {p} : /\ pc'[q] = pc[q] /\ job'[q] = job[q] /\ copy'[q] = copy[q]
                              /\ stale[q] \subseteq stale'[q]
    /\ \A q \in Procs \ {p}, j \in Jobs :
          ledger'[j] # ledger[j] /\ copy[q][j] # NoRecord => j \in stale'[q]

\* It comes to hold only copies it may hold.
GoodStep(p) == StepOf(p) /\ Current(p)' /\ Lone(p)' /\ (p = Boot => ~Drains(p)')

LEMMA GoodStepKInv ==
    ASSUME KInv, NEW p \in Procs, GoodStep(p)
    PROVE  KInv'
<1>1. ASSUME NEW q \in Procs \ {p} PROVE Current(q)' /\ Lone(q)'
  <2>1. /\ pc'[q] = pc[q] /\ job'[q] = job[q] /\ copy'[q] = copy[q] /\ stale[q] \subseteq stale'[q]
        /\ \A j \in Jobs : copy[q][j] # NoRecord /\ j \notin stale'[q] => ledger'[j] = ledger[j]
    BY DEF GoodStep, StepOf
  <2>2. Current(q) /\ Lone(q)
    BY DEF KInv
  <2> QED
    BY <2>1, <2>2 DEF Current, Lone
<1>2. ~Drains(Boot)'
  BY DEF KInv, GoodStep, StepOf, Drains, Procs
<1> QED
  BY <1>1, <1>2 DEF KInv, GoodStep

\* A step without a write, of which the others see nothing.
LEMMA QuietStepOf ==
    ASSUME TInv, NEW p \in Procs, UNCHANGED ledger,
           \A q \in Procs \ {p} : /\ pc'[q] = pc[q] /\ job'[q] = job[q] /\ copy'[q] = copy[q]
                                  /\ stale'[q] = stale[q]
    PROVE  StepOf(p)
BY DEF StepOf

LEMMA WriteStepOf ==
    ASSUME TInv, NEW p \in Procs, NEW k \in Jobs, WriteRecord(p, k),
           \A q \in Procs \ {p} : pc'[q] = pc[q] /\ job'[q] = job[q] /\ copy'[q] = copy[q]
    PROVE  StepOf(p) /\ \A j \in Jobs : ledger'[j] = IF j = k THEN copy[p][k] ELSE ledger[j]
BY DEF StepOf, WriteRecord, TInv, StaleOK, RestOK

\* A handler that returns holds nothing.
LEMMA ReturnGood ==
    ASSUME TInv, NEW p \in Procs, Return(p), StepOf(p)
    PROVE  GoodStep(p)
<1>1. pc'[p] = "idle" /\ \A j \in Jobs : copy'[p][j] = NoRecord
  BY DEF Return, Goto, TInv, HandlerOK, Nothing
<1> QED
  BY <1>1 DEF GoodStep, Current, Lone, SinglePCs, Drains

LEMMA OthersStay ==
    ASSUME TInv, NEW p \in Procs,
           \/ Return(p)
           \/ \E j, r, label : TakeUp(p, j, r, label) \/ Keep(p, j, r, label)
    PROVE  \A q \in Procs \ {p} : pc'[q] = pc[q] /\ job'[q] = job[q] /\ copy'[q] = copy[q]
BY DEF Return, TakeUp, Keep, Goto, TInv, HandlerOK

\* A handler that takes up a record has it as it is.
LEMMA TakeUpGood ==
    ASSUME TInv, NEW p \in Procs, NEW j \in Jobs, NEW r,
           NEW label \in {"launch", "commit", "squeue", "show", "kill"},
           TakeUp(p, j, r, label), UNCHANGED ledger,
           label \in {"squeue", "show"} => r = ledger[j],
           label = "squeue" => Slurm(j)
    PROVE  GoodStep(p)
<1>1. /\ pc'[p] = label /\ job'[p] = j
      /\ \A k \in Jobs : copy'[p][k] = IF k = j THEN r ELSE NoRecord
  BY DEF TakeUp, Goto, TInv, HandlerOK, Nothing
<1>2. StepOf(p)
  BY OthersStay, QuietStepOf DEF TakeUp
<1> QED
  BY <1>1, <1>2 DEF GoodStep, Current, Lone, UpToDate, BulkPCs, Drains

\* A handler that goes on with its only copy.
LEMMA KeepGood ==
    ASSUME TInv, KInv, NEW p \in Procs, pc[p] \in SinglePCs,
           NEW r, NEW label \in {"commit", "sacct", "scontrol", "write", "killwrite"},
           Keep(p, job[p], r, label), UNCHANGED ledger,
           job[p] \notin stale[p] => UpToDate(job[p], r, ledger[job[p]], label),
           label \in {"sacct", "scontrol"} => Slurm(job[p])
    PROVE  GoodStep(p)
<1>1. job[p] \in Jobs
  BY DEF TInv, HandlerOK, Locals
<1>2. /\ pc'[p] = label /\ job'[p] = job[p] /\ stale'[p] = stale[p]
      /\ \A k \in Jobs : copy'[p][k] = IF k = job[p] THEN r ELSE copy[p][k]
  BY <1>1 DEF Keep, Goto, TInv, HandlerOK
<1>3. \A k \in Jobs : k # job[p] => copy[p][k] = NoRecord
  BY DEF KInv, Lone
<1>4. StepOf(p)
  BY OthersStay, QuietStepOf DEF Keep
<1> QED
  BY <1>1, <1>2, <1>3, <1>4 DEF GoodStep, Current, Lone, Drains

-----------------------------------------------------------------------------
(* The observers respect what a copy says.                                 *)

LEMMA ApplyStateKeepsCancel ==
    ASSUME NEW r \in Records, r.state = "canceled", NEW s
    PROVE  ApplyState(r, s).state = "canceled"
BY DEF ApplyState

LEMMA ApplyRowKeepsCancel ==
    ASSUME NEW r \in Records, r.state = "canceled", NEW row \in Rows
    PROVE  ApplyRow(r, row).state = "canceled"
<1>1. WithExit(r, row.exit) \in Records /\ WithExit(r, row.exit).state = "canceled"
  BY RecordUpdates DEF WithExit, Records, Rows
<1> QED
  BY <1>1, ApplyStateKeepsCancel DEF ApplyRow

LEMMA ApplyShowKeepsSuccess ==
    ASSUME NEW r \in Records, r.state = "succeeded", NEW o, o.exit \in ExitCodes, NEW b
    PROVE  ApplyShow(r, o, b).state \notin {"failed", "unknown"}
<1> DEFINE seen == WithExit(r, o.exit)
           inferred == Infer(seen.state, seen.exit, o)
<1>1. seen \in Records /\ seen.state = "succeeded"
  BY RecordUpdates DEF WithExit, Records
<1>2. inferred \notin {"failed", "unknown"}
  BY <1>1 DEF Infer
<1>3. ApplyShow(r, o, b) = IF b /\ inferred # "none" THEN [seen EXCEPT !.state = inferred] ELSE seen
  BY DEF ApplyShow
<1> HIDE DEF seen, inferred
<1>4. [seen EXCEPT !.state = inferred].state = inferred
  BY <1>1 DEF Records
<1> QED
  BY <1>1, <1>2, <1>3, <1>4

-----------------------------------------------------------------------------
(* The steps.                                                              *)

\* The candidates of a bulk refresh have no final state when they are read.
LEMMA StartBulkGood ==
    ASSUME TInv, NEW p \in Procs, NEW n, StartBulk(p, n), UNCHANGED ledger
    PROVE  GoodStep(p)
<1> DEFINE D == DirectCandidates(n)
           S == SlurmCandidates(p, n)
           mine == [j \in Jobs |-> IF j \in D \cup S THEN ledger[j] ELSE NoRecord]
<1>1. \A j \in D \cup S : ledger[j].state \notin TerminalStates
  BY DEF DirectCandidates, SlurmCandidates, Capped, DirectEligible, SlurmEligible
<1>2. \A k \in Jobs : mine[k] # NoRecord => k \in D \cup S
  OBVIOUS
<1>3. /\ pc' = [pc EXCEPT ![p] = IF D # {} THEN "bshow" ELSE "bsqueue"]
      /\ copy' = [copy EXCEPT ![p] = mine] /\ UNCHANGED <<job, stale>>
  BY DEF StartBulk, Goto
<1> HIDE DEF D, S, mine
<1>4. /\ \A q \in Procs \ {p} : pc'[q] = pc[q] /\ job'[q] = job[q] /\ copy'[q] = copy[q]
      /\ pc'[p] \in {"bshow", "bsqueue"} /\ copy'[p] = mine
  BY <1>3 DEF TInv, HandlerOK
<1>5. StepOf(p)
  BY <1>3, <1>4, QuietStepOf
<1> QED
  BY <1>1, <1>2, <1>4, <1>5 DEF GoodStep, Current, Lone, UpToDate, BulkPCs, SinglePCs, Drains

LEMMA RequestGood ==
    ASSUME IInv, KInv, NEW p \in Procs, Request(p)
    PROVE  GoodStep(p)
<1>1. TInv
  BY DEF IInv
<1>2. ASSUME NEW j \in Jobs, Plan(p, j) \/ Get(p, j) \/ Cancel(p, j) PROVE GoodStep(p)
  BY <1>1, <1>2, TakeUpGood DEF Plan, Get, Cancel, files
<1>3. CASE List(p)
  BY <1>1, <1>3, StartBulkGood DEF List, files
<1>4. CASE SetDrain(p)
  <2>1. /\ pc'[p] \in {"drain_on", "drain_off"} /\ p # Boot
        /\ \A q \in Procs \ {p} : pc'[q] = pc[q]
        /\ UNCHANGED <<ledger, job, copy, stale>>
    BY <1>1, <1>4, BootAssumption DEF SetDrain, Idle, Goto, TInv, HandlerOK
  <2>2. StepOf(p)
    BY <1>1, <2>1, QuietStepOf
  <2> QED
    BY <2>1, <2>2 DEF GoodStep, Current, Lone, UpToDate, BulkPCs, SinglePCs
<1> QED
  BY <1>2, <1>3, <1>4 DEF Request

LEMMA SingleGood ==
    ASSUME IInv, KInv, NEW p \in Procs,
           \/ Launch(p) \/ RejectSpec(p) \/ Commit(p) \/ Squeue(p) \/ Sacct(p)
           \/ Scontrol(p) \/ Show(p) \/ Write(p) \/ Kill(p)
    PROVE  GoodStep(p)
<1> DEFINE j == job[p]
           rec == copy[p][j]
<1>1. TInv /\ pc[p] \in SinglePCs
  BY DEF IInv, Launch, RejectSpec, Commit, Squeue, Sacct, Scontrol, Show, Write, Kill, SinglePCs
<1>2. /\ j \in Jobs /\ rec \in Records /\ rec # NoRecord
      /\ j \notin stale[p] => UpToDate(j, rec, ledger[j], pc[p])
      /\ pc[p] \in {"squeue", "sacct", "scontrol"} => Slurm(j)
  BY <1>1, SingleCopy DEF KInv, Current, Lone
<1>3. CASE RejectSpec(p) \/ (Show(p) /\ Return(p))
  <2>1. Return(p) /\ UNCHANGED <<ledger, stale>>
    BY <1>3 DEF RejectSpec, Show, Keep, files
  <2> QED
    BY <1>1, <2>1, OthersStay, QuietStepOf, ReturnGood
<1>4. CASE Commit(p) \/ Write(p)
  <2>1. Return(p) /\ WriteRecord(p, j)
    BY <1>4 DEF Commit, Write
  <2> QED
    BY <1>1, <1>2, <2>1, OthersStay, WriteStepOf, ReturnGood
<1>5. CASE Launch(p) \/ Kill(p)
  <2>1. PICK label \in {"commit", "killwrite"} : \E r : Keep(p, j, r, label) /\ UNCHANGED ledger
    <3>1. CASE Launch(p)
      BY <3>1 DEF Launch, files
    <3>2. CASE Kill(p)
      BY <3>2 DEF Kill, files
    <3> QED
      BY <1>5, <3>1, <3>2
  <2>3. PICK r : Keep(p, j, r, label) /\ UNCHANGED ledger
    BY <2>1
  <2>2. UpToDate(j, r, ledger[j], label)
    BY DEF UpToDate, BulkPCs
  <2> QED
    BY <1>1, <2>1, <2>3, <2>2, KeepGood
<1>6. CASE Squeue(p)
  <2>1. PICK a : Keep(p, j, ApplyState(rec, a), IF a = "" THEN "sacct" ELSE "write") /\ UNCHANGED ledger
    BY <1>6 DEF Squeue, files
  <2>2. pc[p] = "squeue" /\ Slurm(j)
    BY <1>2, <1>6 DEF Squeue
  <2>3. j \notin stale[p] => \A label \in {"sacct", "write"} : UpToDate(j, ApplyState(rec, a), ledger[j], label)
    BY <1>2, <2>2, ApplyStateKeepsCancel DEF UpToDate, BulkPCs
  <2> QED
    BY <1>1, <2>1, <2>2, <2>3, KeepGood
<1>7. CASE Sacct(p) \/ Scontrol(p)
  <2>1. PICK row \in Rows, label \in {"scontrol", "write"} :
          Keep(p, j, ApplyRow(rec, row), label) /\ UNCHANGED ledger
    BY <1>7, ReportTypes DEF Sacct, Scontrol, files
  <2>2. pc[p] \in {"sacct", "scontrol"} /\ Slurm(j)
    BY <1>2, <1>7 DEF Sacct, Scontrol
  <2>3. j \notin stale[p] => UpToDate(j, ApplyRow(rec, row), ledger[j], label)
    BY <1>2, <2>2, ApplyRowKeepsCancel DEF UpToDate, BulkPCs
  <2> QED
    BY <1>1, <2>1, <2>2, <2>3, KeepGood
<1>8. CASE Show(p) /\ ~Return(p)
  <2>1. PICK o \in Answers(j) :
          Keep(p, j, ApplyShow(rec, o, "inference" \in Gates), "write")
    BY <1>8 DEF Show
  <2>2. pc[p] = "show" /\ ~Slurm(j) /\ UNCHANGED ledger
    BY <1>8 DEF Show, IInv, Slurm, files
  <2>3. j \notin stale[p] => UpToDate(j, ApplyShow(rec, o, "inference" \in Gates), ledger[j], "write")
    BY <1>2, <2>2, ApplyShowKeepsSuccess, ShowReportTypes DEF UpToDate, BulkPCs, Answers
  <2> QED
    BY <1>1, <2>1, <2>2, <2>3, KeepGood
<1> QED
  BY <1>3, <1>4, <1>5, <1>6, <1>7, <1>8

\* In a bulk refresh: no new copies, and every copy that is up to date is of a record
\* without a final state.
LEMMA BulkGood ==
    ASSUME IInv, KInv, NEW p \in Procs, pc[p] \in BulkPCs, StepOf(p),
           pc'[p] \in BulkPCs,
           \A j \in Jobs : copy'[p][j] # NoRecord =>
               copy[p][j] # NoRecord /\ ledger'[j] = ledger[j] /\ (j \in stale[p] => j \in stale'[p])
    PROVE  GoodStep(p)
<1>1. Current(p)'
  BY DEF KInv, Current, UpToDate, BulkPCs
<1>2. Lone(p)' /\ ~Drains(p)'
  BY DEF Lone, SinglePCs, BulkPCs, Drains
<1> QED
  BY <1>1, <1>2 DEF GoodStep

LEMMA NextDirectGood ==
    ASSUME IInv, KInv, NEW p \in Procs, pc[p] \in {"bshow", "bshowwrite"}, NEW j \in todo[p],
           NextDirect(p, j),
           \/ WriteRecord(p, j)
           \/ UNCHANGED ledger /\ stale' = [stale EXCEPT ![p] = stale[p] \ {j}]
    PROVE  GoodStep(p)
<1>1. TInv /\ j \in Jobs
  BY DEF IInv, TInv, HandlerOK
<1>2. CASE Return(p)
  <2>1. StepOf(p)
    BY <1>1, <1>2, OthersStay, WriteStepOf, QuietStepOf DEF TInv, StaleOK
  <2> QED
    BY <1>1, <1>2, <2>1, ReturnGood
<1>3. CASE ~Return(p)
  <2>1. /\ pc' = [pc EXCEPT ![p] = IF todo[p] = {j} THEN "bsqueue" ELSE "bshow"]
        /\ copy' = [copy EXCEPT ![p][j] = NoRecord] /\ job' = job
    BY <1>3 DEF NextDirect, Goto
  <2>2. /\ \A q \in Procs \ {p} : pc'[q] = pc[q] /\ job'[q] = job[q] /\ copy'[q] = copy[q]
        /\ pc'[p] \in {"bsqueue", "bshow"}
        /\ \A k \in Jobs : copy'[p][k] = IF k = j THEN NoRecord ELSE copy[p][k]
    BY <1>1, <2>1 DEF TInv, HandlerOK
  <2>3. StepOf(p)
    BY <1>1, <2>2, WriteStepOf, QuietStepOf DEF TInv, StaleOK
  <2>4. \A k \in Jobs : k # j => ledger'[k] = ledger[k] /\ (k \in stale[p] => k \in stale'[p])
    BY <1>1 DEF WriteRecord, TInv, StaleOK, RestOK
  <2> QED
    BY <2>2, <2>3, <2>4, BulkGood DEF BulkPCs
<1> QED
  BY <1>2, <1>3

LEMMA BulkStepGood ==
    ASSUME IInv, KInv, NEW p \in Procs,
           \/ BulkShow(p) \/ BulkShowWrite(p)
           \/ BulkSqueue(p) \/ BulkSacct(p) \/ BulkWrite(p)
    PROVE  GoodStep(p)
<1>1. /\ TInv /\ pc[p] \in BulkPCs
      /\ out[p] \subseteq Jobs /\ \A j \in out[p] : copy[p][j] \in Records /\ copy[p][j] # NoRecord
  <2>1. TInv /\ pc[p] \in BulkPCs
    BY DEF IInv, BulkPCs, BulkShow, BulkShowWrite, BulkSqueue, BulkSacct, BulkWrite
  <2>2. Locals(p)
    BY <2>1 DEF TInv, HandlerOK
  <2>3. out[p] \subseteq Jobs \ Direct /\ \A j \in out[p] : copy[p][j] \in Records
    BY <2>1, <2>2 DEF Locals, BulkPCs
  <2> QED
    BY <2>1, <2>3, RecordFacts
<1>2. ASSUME NEW j \in Jobs, copy[p][j] # NoRecord, NEW r, NEW label \in BulkPCs, Goto(p, label),
             copy' = [copy EXCEPT ![p][j] = r], UNCHANGED <<ledger, job, stale>>
      PROVE  GoodStep(p)
  <2>1. /\ \A q \in Procs \ {p} : pc'[q] = pc[q] /\ job'[q] = job[q] /\ copy'[q] = copy[q]
        /\ pc'[p] = label
        /\ \A k \in Jobs : copy'[p][k] = IF k = j THEN r ELSE copy[p][k]
    BY <1>1, <1>2 DEF Goto, TInv, HandlerOK
  <2>2. StepOf(p)
    BY <1>1, <1>2, <2>1, QuietStepOf
  <2> QED
    BY <1>1, <1>2, <2>1, <2>2, BulkGood
<1>3. CASE BulkShow(p)
  <2>1. PICK j \in todo[p] :
          \/ \E o \in Answers(j) :
                Keep(p, j, ApplyShow(copy[p][j], o, "inference" \in Gates), "bshowwrite")
          \/ NextDirect(p, j) /\ stale' = [stale EXCEPT ![p] = stale[p] \ {j}]
    BY <1>3 DEF BulkShow
  <2>2. pc[p] = "bshow" /\ UNCHANGED ledger
    BY <1>3 DEF BulkShow, files
  <2>3. j \in Jobs /\ copy[p][j] # NoRecord
    BY <2>2, RecordFacts DEF IInv, TInv, HandlerOK, Locals
  <2> QED
    BY <1>2, <2>1, <2>2, <2>3, NextDirectGood DEF Keep, BulkPCs
<1>4. CASE BulkShowWrite(p)
  BY <1>4, NextDirectGood DEF BulkShowWrite
<1>5. CASE BulkSqueue(p)
  <2>1. CASE Return(p)
    <3>1. UNCHANGED ledger /\ \A q \in Procs \ {p} : stale'[q] = stale[q]
      BY <1>1, <1>5 DEF BulkSqueue, files, TInv, StaleOK
    <3> QED
      BY <1>1, <2>1, <3>1, OthersStay, QuietStepOf, ReturnGood
  <2>2. CASE ~Return(p)
    <3>1. PICK answer :
            /\ \E label \in {"bwrite", "bsacct"} : Goto(p, label)
            /\ copy' = [copy EXCEPT ![p] = [j \in Jobs |->
                          IF j \in out[p] THEN ApplyState(copy[p][j], answer[j]) ELSE NoRecord]]
            /\ UNCHANGED <<job, stale, ledger>>
      BY <1>5, <2>2 DEF BulkSqueue, files
    <3>2. /\ \A q \in Procs \ {p} : pc'[q] = pc[q] /\ job'[q] = job[q] /\ copy'[q] = copy[q]
          /\ pc'[p] \in BulkPCs
          /\ \A k \in Jobs : copy'[p][k] # NoRecord => k \in out[p]
      BY <1>1, <3>1 DEF Goto, TInv, HandlerOK, BulkPCs
    <3>3. StepOf(p)
      BY <1>1, <3>1, <3>2, QuietStepOf
    <3> QED
      BY <1>1, <3>1, <3>2, <3>3, BulkGood
  <2> QED
    BY <2>1, <2>2
<1>6. CASE BulkSacct(p)
  <2>1. PICK j \in todo[p] : \E row : copy' = [copy EXCEPT ![p][j] = ApplyRow(copy[p][j], row)]
    BY <1>6 DEF BulkSacct
  <2>2. j \in Jobs /\ copy[p][j] # NoRecord
    BY <1>1, <1>6 DEF BulkSacct, TInv, HandlerOK, Locals
  <2>3. PICK label \in BulkPCs : Goto(p, label)
    BY <1>6 DEF BulkSacct, BulkPCs
  <2> QED
    BY <1>2, <1>6, <2>1, <2>2, <2>3 DEF BulkSacct, files
<1>7. CASE BulkWrite(p)
  <2>1. PICK j \in out[p] :
          /\ WriteRecord(p, j)
          /\ \/ Return(p)
             \/ copy' = [copy EXCEPT ![p][j] = NoRecord] /\ UNCHANGED <<pc, job>>
    BY <1>7 DEF BulkWrite
  <2>2. CASE Return(p)
    BY <1>1, <2>1, <2>2, OthersStay, WriteStepOf, ReturnGood
  <2>3. CASE ~Return(p)
    <3>1. /\ \A q \in Procs \ {p} : copy'[q] = copy[q]
          /\ \A k \in Jobs : copy'[p][k] = IF k = j THEN NoRecord ELSE copy[p][k]
          /\ UNCHANGED <<pc, job>>
      BY <1>1, <2>1, <2>3 DEF TInv, HandlerOK
    <3>2. StepOf(p)
      BY <1>1, <2>1, <3>1, WriteStepOf
    <3>3. \A k \in Jobs : k # j => ledger'[k] = ledger[k] /\ (k \in stale[p] => k \in stale'[p])
      BY <1>1, <2>1 DEF WriteRecord, TInv, StaleOK, RestOK
    <3> QED
      BY <1>1, <3>1, <3>2, <3>3, BulkGood
  <2> QED
    BY <2>2, <2>3
<1> QED
  BY <1>3, <1>4, <1>5, <1>6, <1>7

-----------------------------------------------------------------------------
(* The invariant.                                                          *)

LEMMA InitKInv == Init => KInv
BY DEF Init, KInv, Current, Lone, Nothing, SinglePCs, Drains, Procs

LEMMA NextKInv == IInv /\ KInv /\ [Next]_vars => KInv'
<1> SUFFICES ASSUME IInv, KInv, [Next]_vars PROVE KInv'
  OBVIOUS
<1>1. ASSUME NEW p \in Procs, Request(p) PROVE KInv'
  BY <1>1, RequestGood, GoodStepKInv
<1>2. ASSUME NEW p \in Procs, Continue(p) PROVE KInv'
  <2>1. CASE WriteDrain(p)
    <3>1. TInv /\ Return(p) /\ UNCHANGED <<ledger, stale>>
      BY <2>1 DEF WriteDrain, IInv
    <3> QED
      BY <3>1, OthersStay, QuietStepOf, ReturnGood, GoodStepKInv
  <2> QED
    BY <1>2, <2>1, SingleGood, BulkStepGood, GoodStepKInv DEF Continue
<1>3. CASE UNCHANGED <<handler, ledger, stale>>
  BY <1>3 DEF handler, KInv, Current, Lone, Drains
<1>4. ASSUME NEW j \in Jobs, SchedStep(j) PROVE KInv'
  BY <1>3, <1>4 DEF SchedStep, files
<1>5. CASE Crash
  BY <1>5 DEF Crash, ForgetHandlers, KInv, Current, Lone, Nothing, SinglePCs, Drains, Procs
<1>6. CASE Restart
  <2>1. CASE Reconciling
    <3>1. TInv /\ Boot \in Procs
      BY DEF IInv, Procs
    <3> QED
      BY <1>6, <2>1, <3>1, StartBulkGood, GoodStepKInv DEF Restart, files
  <2> QED
    BY <1>3, <1>6, <2>1 DEF Restart, files
<1> QED
  BY <1>1, <1>2, <1>3, <1>4, <1>5, <1>6 DEF Next, vars, files

\* What handlers know of the records that nobody has written since they read them.
THEOREM AlwaysKInv == Spec => []KInv
BY InitKInv, NextKInv, AlwaysInv, PTL DEF Spec

-----------------------------------------------------------------------------
(* Who writes a record.                                                    *)

Writes(p, j) ==
    /\ Releases(p, j) /\ ledger'[j] = copy[p][j]
    /\ \/ pc[p] \in {"write", "killwrite", "bshowwrite", "bwrite"}
       \/ pc[p] = "commit" /\ ~Exists(j)

LEMMA Writers ==
    ASSUME IInv, [Next]_vars, NEW j \in Jobs, ledger'[j] # ledger[j]
    PROVE  \E p \in Procs : Writes(p, j)
<1>1. TInv
  BY DEF IInv
<1>2. ASSUME NEW p \in Procs, NEW k \in Jobs, WriteRecord(p, k), Return(p) \/ copy' = [copy EXCEPT ![p][k] = NoRecord],
             copy[p][k] # NoRecord
      PROVE  Releases(p, j) /\ ledger'[j] = copy[p][j] /\ j = k
  <2>1. \A i \in Jobs : ledger'[i] = IF i = k THEN copy[p][k] ELSE ledger[i]
    BY <1>1, <1>2 DEF WriteRecord, TInv, RestOK
  <2>2. copy'[p][k] = NoRecord
    BY <1>1, <1>2 DEF Return, Nothing, TInv, HandlerOK
  <2> QED
    BY <1>2, <2>1, <2>2 DEF Releases
<1>3. ASSUME NEW p \in Procs, Continue(p) PROVE Writes(p, j)
  <2>1. CASE Commit(p)
    <3>1. pc[p] = "commit" /\ job[p] \in Jobs /\ copy[p][job[p]] # NoRecord /\ ~Exists(job[p])
      BY <2>1, SingleCopy DEF Commit, IInv, Owned, Submitting, SinglePCs
    <3> QED
      BY <1>2, <2>1, <3>1 DEF Commit, Writes
  <2>2. CASE Write(p)
    <3>1. job[p] \in Jobs /\ copy[p][job[p]] # NoRecord
      BY <2>2, SingleCopy DEF Write, SinglePCs
    <3> QED
      BY <1>2, <2>2, <3>1 DEF Write, Writes
  <2>3. CASE BulkShowWrite(p)
    <3>1. PICK k \in todo[p] : WriteRecord(p, k) /\ NextDirect(p, k)
      BY <2>3 DEF BulkShowWrite
    <3>2. k \in Jobs /\ copy[p][k] # NoRecord
      BY <1>1, <2>3, RecordFacts DEF BulkShowWrite, TInv, HandlerOK, Locals
    <3> QED
      BY <1>2, <2>3, <3>1, <3>2 DEF NextDirect, BulkShowWrite, Writes
  <2>4. CASE BulkWrite(p)
    <3>1. PICK k \in out[p] : WriteRecord(p, k) /\ (Return(p) \/ copy' = [copy EXCEPT ![p][k] = NoRecord])
      BY <2>4 DEF BulkWrite
    <3>2. k \in Jobs /\ copy[p][k] # NoRecord
      BY <1>1, <2>4, RecordFacts DEF BulkWrite, TInv, HandlerOK, Locals
    <3> QED
      BY <1>2, <2>4, <3>1, <3>2 DEF BulkWrite, Writes
  <2> QED
    BY <1>3, <2>1, <2>2, <2>3, <2>4 DEF Continue, Launch, RejectSpec, Squeue, Sacct, Scontrol,
       Show, Kill, BulkShow, BulkSqueue, BulkSacct, WriteDrain, files
<1>4. ASSUME NEW p \in Procs, Request(p) PROVE FALSE
  BY <1>4 DEF Request, Plan, Get, Cancel, List, SetDrain, files
<1> QED
  BY <1>3, <1>4 DEF Next, SchedStep, Crash, Restart, vars, files

\* A handler that writes j with a copy that is up to date.
LEMMA WrittenUpToDate ==
    ASSUME IInv, KInv, NEW j \in Jobs, NEW p \in Procs, Writes(p, j), j \notin stale[p]
    PROVE  /\ pc[p] \in {"bshowwrite", "bwrite", "commit"} => ledger[j].state \notin TerminalStates
           /\ Slurm(j) /\ ledger[j].state = "canceled" /\ pc[p] # "killwrite" =>
                  ledger'[j].state = "canceled"
           /\ ~Slurm(j) /\ ledger[j].state = "succeeded" /\ pc[p] # "killwrite" =>
                  ledger'[j].state \notin {"failed", "unknown"}
<1>1. UpToDate(j, copy[p][j], ledger[j], pc[p]) /\ ledger'[j] = copy[p][j]
  BY DEF KInv, Current, Writes, Releases
<1>2. pc[p] = "commit" => ledger[j].state \notin TerminalStates
  BY NoRecordFacts, RecordFacts DEF Writes, Exists
<1>3. {"canceled", "succeeded"} \subseteq TerminalStates
  BY DEF TerminalStates
<1> QED
  BY <1>1, <1>2, <1>3 DEF UpToDate, BulkPCs, Writes

\* Bulk refresh leaves final states alone, those it has not seen excepted.
THEOREM BulkAlwaysSparesTerminal == Spec => BulkSparesTerminal
<1>1. IInv /\ KInv /\ [Next]_vars =>
        [\A j \in Jobs :
          ledger[j].state \in TerminalStates /\ ledger'[j] # ledger[j] =>
              \E p \in Procs : Releases(p, j) /\ (pc[p] \in {"write", "killwrite"}
                                                  \/ j \in stale[p])]_vars
  <2> SUFFICES ASSUME IInv, KInv, [Next]_vars, NEW j \in Jobs,
                      ledger[j].state \in TerminalStates, ledger'[j] # ledger[j]
               PROVE  \E p \in Procs : Releases(p, j) /\ (pc[p] \in {"write", "killwrite"}
                                                          \/ j \in stale[p])
    OBVIOUS
  <2>1. PICK p \in Procs : Writes(p, j)
    BY Writers
  <2> QED
    BY <2>1, WrittenUpToDate DEF Writes
<1> QED
  BY <1>1, AlwaysInv, AlwaysKInv, PTL DEF Spec, BulkSparesTerminal

\* The cancellation of a Slurm job is overwritten only from a copy read before it, or by
\* another cancellation.
THEOREM CancelAlwaysLostToStale == Spec => CancelLostOnlyToStale
<1>1. IInv /\ KInv /\ [Next]_vars =>
        [\A j \in Jobs \ Direct :
            LostOnlyToStale(j, {"canceled"}, JobStateNames \ {"canceled"})]_vars
  <2> SUFFICES ASSUME IInv, KInv, [Next]_vars, NEW j \in Jobs \ Direct,
                      ledger[j].state = "canceled", ledger'[j].state # "canceled"
               PROVE  \E p \in Procs : Releases(p, j) /\ (pc[p] = "killwrite" \/ j \in stale[p])
    BY DEF LostOnlyToStale
  <2>1. PICK p \in Procs : Writes(p, j)
    BY Writers
  <2> QED
    BY <2>1, WrittenUpToDate DEF Writes, Slurm
<1> QED
  BY <1>1, AlwaysInv, AlwaysKInv, PTL DEF Spec, CancelLostOnlyToStale

\* A success of a direct job regresses only by a copy read before it, or by a cancellation.
THEOREM SuccessAlwaysLostToStale == Spec => SuccessLostOnlyToStale
<1>1. IInv /\ KInv /\ [Next]_vars =>
        [\A j \in Direct : LostOnlyToStale(j, {"succeeded"}, {"failed", "unknown"})]_vars
  <2> SUFFICES ASSUME IInv, KInv, [Next]_vars, NEW j \in Direct,
                      ledger[j].state = "succeeded", ledger'[j].state \in {"failed", "unknown"}
               PROVE  \E p \in Procs : Releases(p, j) /\ (pc[p] = "killwrite" \/ j \in stale[p])
    BY DEF LostOnlyToStale
  <2>1. j \in Jobs
    BY JobsAssumption
  <2>2. PICK p \in Procs : Writes(p, j)
    BY <2>1, Writers
  <2> QED
    BY <2>1, <2>2, WrittenUpToDate DEF Writes, Slurm
<1> QED
  BY <1>1, AlwaysInv, AlwaysKInv, PTL DEF Spec, SuccessLostOnlyToStale

-----------------------------------------------------------------------------
(* The drain file.                                                         *)

\* A handler that writes the drain file goes on to do so, unless the server goes down.
LEMMA DrainsOn ==
    ASSUME TInv, KInv, Next, server' # "down", NEW p \in Procs, Drains(p)
    PROVE  Drains(p)' \/ drain' # "torn"
<1>1. ASSUME NEW q \in Procs, NEW label, Goto(q, label), ~Drains(q)
      PROVE  Drains(p)'
  BY <1>1 DEF Goto, TInv, HandlerOK, Drains
<1>2. ASSUME NEW q \in Procs, Request(q) PROVE Drains(p)'
  <2>1. pc[q] = "idle" /\ \E label : Goto(q, label)
    BY <1>2 DEF Request, Plan, Get, Cancel, List, SetDrain, Idle, TakeUp, StartBulk
  <2> QED
    BY <1>1, <2>1 DEF Drains
<1>3. ASSUME NEW q \in Procs, Continue(q), ~WriteDrain(q) PROVE Drains(p)'
  <2>1. \/ \E label : Goto(q, label)
        \/ UNCHANGED pc
    BY <1>3 DEF Continue, Launch, RejectSpec, Commit, Squeue, Sacct, Scontrol, Show, Write, Kill,
                BulkShow, BulkShowWrite, BulkSqueue, BulkSacct, BulkWrite, NextDirect, Keep, Return
  <2>2. ~Drains(q)
    BY <1>3 DEF Continue, Launch, RejectSpec, Commit, Squeue, Sacct, Scontrol, Show, Write, Kill,
                BulkShow, BulkShowWrite, BulkSqueue, BulkSacct, BulkWrite, Drains
  <2> QED
    BY <1>1, <2>1, <2>2 DEF Drains
<1>4. CASE Restart
  <2>1. Boot \in Procs /\ ~Drains(Boot)
    BY DEF KInv, Procs
  <2> QED
    BY <1>1, <1>4, <2>1 DEF Restart, StartBulk, handler, Drains
<1>5. ASSUME NEW j \in Jobs, SchedStep(j) PROVE Drains(p)'
  BY <1>5 DEF SchedStep, handler, Drains
<1>6. ASSUME NEW q \in Procs, WriteDrain(q) PROVE drain' # "torn"
  BY <1>6 DEF WriteDrain
<1> QED
  BY <1>2, <1>3, <1>4, <1>5, <1>6 DEF Next, Crash

\* A drain file comes to be torn by a handler that will write it.
LEMMA TornByDrain ==
    ASSUME TInv, Next, drain # "torn", drain' = "torn"
    PROVE  \E p \in Procs : Drains(p)'
<1>1. ASSUME NEW p \in Procs, Request(p) PROVE Drains(p)'
  BY <1>1 DEF Request, Plan, Get, Cancel, List, SetDrain, Goto, files, TInv, HandlerOK, Drains
<1>2. ASSUME NEW p \in Procs, Continue(p) PROVE FALSE
  BY <1>2 DEF Continue, Launch, RejectSpec, Commit, Squeue, Sacct, Scontrol, Show, Write, Kill,
              BulkShow, BulkShowWrite, BulkSqueue, BulkSacct, BulkWrite, WriteDrain, files
<1> QED
  BY <1>1, <1>2 DEF Next, SchedStep, Crash, Restart, files

\* A drain file without a text has a writer; only a crash leaves it behind.
THEOREM DrainAlwaysWritten == Spec => DrainTornOnlyByCrash
<1>1. TInv /\ KInv /\ [Next]_vars => [~DrainTorn /\ DrainTorn' => server' = "down"]_vars
  <2> SUFFICES ASSUME TInv, KInv, Next, ~DrainTorn, DrainTorn', server' # "down"
               PROVE  FALSE
    OBVIOUS
  <2>1. drain' = "torn" /\ \A p \in Procs : ~Drains(p)'
    BY DEF DrainTorn, Drains
  <2>2. CASE drain # "torn"
    BY <2>1, <2>2, TornByDrain
  <2>3. CASE drain = "torn"
    <3>1. PICK p \in Procs : Drains(p)
      BY <2>3 DEF DrainTorn, Drains
    <3> QED
      BY <2>1, <3>1, DrainsOn
  <2> QED
    BY <2>2, <2>3
<1> QED
  BY <1>1, AlwaysTInv, AlwaysKInv, PTL DEF Spec, DrainTornOnlyByCrash
=============================================================================
