--------------------------- MODULE JobServerProofs ---------------------------
(***************************************************************************)
(* Theorems about JobServer, for every set of jobs and workers, every      *)
(* combination of gates, requests and faults, and every cap.               *)
(***************************************************************************)
EXTENDS JobServerProps, TLAPS

-----------------------------------------------------------------------------
(* The operators on records.                                               *)

LEMMA RecordFacts ==
    /\ NoRecord \notin Records /\ NoRecord \in Slots /\ Records \subseteq Slots
    /\ \A r \in Slots : r # NoRecord => r \in Records
    /\ TerminalStates \subseteq JobStateNames
BY DEF NoRecord, Records, Slots, JobStateNames, TerminalStates, ExitCodes, NoExit

\* Changing the state of a record, or its exit code, gives a record.
LEMMA RecordUpdates ==
    ASSUME NEW r \in Records
    PROVE  /\ \A s \in JobStateNames : [r EXCEPT !.state = s] \in Records
           /\ \A s \in JobStateNames, b \in BOOLEAN :
                 [r EXCEPT !.state = s, !.sid = b] \in Records
           /\ \A e \in ExitCodes : WithExit(r, e) \in Records
           /\ r.state \in JobStateNames /\ r.sid \in BOOLEAN /\ r.exit \in ExitCodes
BY DEF Records, WithExit

LEMMA NewRecordType == \A s \in JobStateNames : NewRecord(s) \in Records
BY DEF NewRecord, Records, NoExit, ExitCodes

LEMMA DispatchStateType ==
    ASSUME NEW s, DispatchState(s) # "none"
    PROVE  DispatchState(s) \in JobStateNames
BY DEF DispatchState, JobStateNames

LEMMA ApplyStateType ==
    ASSUME NEW r \in Records, NEW s
    PROVE  ApplyState(r, s) \in Records
BY DispatchStateType, RecordUpdates DEF ApplyState

LEMMA ApplyRowType ==
    ASSUME NEW r \in Records, NEW row \in Rows
    PROVE  ApplyRow(r, row) \in Records
BY ApplyStateType, RecordUpdates DEF ApplyRow, Rows

LEMMA ReportTypes ==
    ASSUME NEW s, NEW f
    PROVE  /\ SqueueReports(s, f) \subseteq SlurmStates
           /\ AccountingRows(s, f) \subseteq Rows
           /\ SacctRows(s, f) \subseteq Rows
BY DEF SqueueReports, AccountingRows, SacctRows

LEMMA ShowReportTypes ==
    ASSUME NEW s, NEW stopping, NEW f, NEW o \in ShowReports(s, stopping, f)
    PROVE  o.exit \in ExitCodes
<1>1. \A a, b, c, d, e : Scope(a, b, c, d, e).exit = e
  BY DEF Scope
<1>2. NoExit \in ExitCodes /\ 0 \in ExitCodes /\ 1 \in ExitCodes
  BY DEF ExitCodes, NoExit
<1>3. \E a, b, c, d, e : e \in {NoExit, 0, 1} /\ o = Scope(a, b, c, d, e)
  <2>1. CASE o \in GoneReports
    BY <2>1 DEF GoneReports
  <2>2. CASE "query_error" \in f /\ o = Scope("", "", "", "", NoExit)
    BY <2>2
  <2>3. CASE o \notin GoneReports /\ ~("query_error" \in f /\ o = Scope("", "", "", "", NoExit))
    BY <2>3 DEF ShowReports, Stopping
  <2> QED
    BY <2>1, <2>2, <2>3
<1> QED
  BY <1>1, <1>2, <1>3

LEMMA InferType ==
    ASSUME NEW st, NEW e, NEW o, Infer(st, e, o) # "none"
    PROVE  Infer(st, e, o) \in {"succeeded", "failed", "unknown", "running"}
BY DEF Infer, Observed

LEMMA ApplyShowType ==
    ASSUME NEW r \in Records, NEW o, o.exit \in ExitCodes, NEW b
    PROVE  ApplyShow(r, o, b) \in Records
<1> DEFINE seen == WithExit(r, o.exit)
           inferred == Infer(seen.state, seen.exit, o)
<1>1. seen \in Records
  BY RecordUpdates
<1>2. ApplyShow(r, o, b) = IF b /\ inferred # "none" THEN [seen EXCEPT !.state = inferred] ELSE seen
  BY DEF ApplyShow
<1>3. inferred # "none" => inferred \in JobStateNames
  BY InferType DEF JobStateNames
<1> HIDE DEF seen, inferred
<1>4. inferred # "none" => [seen EXCEPT !.state = inferred] \in Records
  BY <1>1, <1>3, RecordUpdates
<1> QED
  BY <1>1, <1>2, <1>4

-----------------------------------------------------------------------------
(* Type correctness.  TypeOK alone is not inductive: a step updates the    *)
(* state of a copy, which is a record only if the handler holds one.       *)

SinglePCs == {"launch", "commit", "squeue", "sacct", "scontrol", "show", "write",
              "kill", "killwrite"}

\* What the handler p holds at each point of its code.
Locals(p) ==
    /\ pc[p] \in SinglePCs => job[p] \in Jobs /\ copy[p][job[p]] \in Records
    /\ pc[p] \in {"bshow", "bshowwrite"} =>
          /\ todo[p] \subseteq Direct
          /\ \A j \in todo[p] : copy[p][j] \in Records
    /\ pc[p] \in {"bshow", "bshowwrite", "bsqueue", "bsacct", "bwrite"} =>
          /\ out[p] \subseteq Jobs \ Direct
          /\ \A j \in out[p] : copy[p][j] \in Records
    /\ pc[p] = "bsacct" => todo[p] \subseteq out[p]

HandlerOK ==
    /\ pc \in [Procs -> PCs]
    /\ job \in [Procs -> Jobs \cup {NoJob}]
    /\ copy \in [Procs -> [Jobs -> Slots]]
    /\ todo \in [Procs -> SUBSET Jobs]
    /\ out \in [Procs -> SUBSET Jobs]
    /\ \A p \in Procs : Locals(p)

RestOK ==
    /\ server \in {"down", "starting", "up"}
    /\ drain \in {"absent", "torn", "on", "off"}
    /\ ledger \in [Jobs -> Slots]
    /\ sched \in [Jobs -> SchedStates]
    /\ killed \in [Jobs -> BOOLEAN]
    /\ hasty \in [Jobs -> BOOLEAN]
    /\ acked \subseteq Jobs

StaleOK == stale \in [Procs -> SUBSET Jobs]

TInv == HandlerOK /\ RestOK /\ StaleOK

\* An answered query adds to the history.
LEMMA AnsweredFacts ==
    ASSUME RestOK, NEW j \in Jobs, Answered(j)
    PROVE  /\ hasty' \in [Jobs -> BOOLEAN]
           /\ \A k \in Jobs : hasty[k] => hasty'[k]
           /\ sched[j] = "PENDING" => hasty'[j]
<1>1. hasty \in [Jobs -> BOOLEAN] /\ (hasty[j] \/ sched[j] = "PENDING") \in BOOLEAN
  BY DEF RestOK
<1> QED
  BY <1>1 DEF Answered

LEMMA NothingType == Nothing \in [Jobs -> Slots]
BY RecordFacts DEF Nothing

LEMMA TakeUpOK ==
    ASSUME HandlerOK, NEW p \in Procs, NEW j \in Jobs, NEW r \in Records,
           NEW label \in SinglePCs, TakeUp(p, j, r, label)
    PROVE  HandlerOK' /\ stale' = stale
<1>1. label \in PCs /\ label \notin {"bshow", "bshowwrite", "bsqueue", "bsacct", "bwrite"}
  BY DEF SinglePCs, PCs
<1>2. [Nothing EXCEPT ![j] = r] \in [Jobs -> Slots] /\ [Nothing EXCEPT ![j] = r][j] = r
  BY NothingType, RecordFacts
<1> QED
  BY <1>1, <1>2 DEF HandlerOK, TakeUp, Goto, Locals

LEMMA KeepOK ==
    ASSUME HandlerOK, NEW p \in Procs, pc[p] \in SinglePCs, NEW r \in Records,
           NEW label \in SinglePCs, Keep(p, job[p], r, label)
    PROVE  HandlerOK' /\ stale' = stale
<1>1. label \in PCs /\ label \notin {"bshow", "bshowwrite", "bsqueue", "bsacct", "bwrite"}
  BY DEF SinglePCs, PCs
<1>2. job[p] \in Jobs /\ r \in Slots
  BY RecordFacts DEF HandlerOK, Locals
<1>3. copy' \in [Procs -> [Jobs -> Slots]] /\ copy'[p][job[p]] = r
  BY <1>2 DEF HandlerOK, Keep
<1>4. \A q \in Procs : q # p => Locals(q)'
  BY DEF HandlerOK, Keep, Goto, Locals
<1> QED
  BY <1>1, <1>2, <1>3, <1>4 DEF HandlerOK, Keep, Goto, Locals

LEMMA ReturnOK ==
    ASSUME HandlerOK, NEW p \in Procs, Return(p)
    PROVE  HandlerOK'
<1>1. "idle" \in PCs /\ "idle" \notin SinglePCs
  BY DEF SinglePCs, PCs
<1> QED
  BY <1>1, NothingType DEF HandlerOK, Return, Goto, Locals

LEMMA WriteRecordOK ==
    ASSUME RestOK, StaleOK, NEW p \in Procs, NEW j \in Jobs, copy[p][j] \in Records,
           WriteRecord(p, j)
    PROVE  ledger' \in [Jobs -> Slots] /\ StaleOK'
BY RecordFacts DEF WriteRecord, RestOK, StaleOK

LEMMA StartBulkOK ==
    ASSUME HandlerOK, RestOK, NEW p \in Procs, NEW n, StartBulk(p, n)
    PROVE  HandlerOK' /\ stale' = stale
<1> DEFINE D == DirectCandidates(n)
           S == SlurmCandidates(p, n)
           mine == [j \in Jobs |-> IF j \in D \cup S THEN ledger[j] ELSE NoRecord]
<1>1. /\ D \subseteq Direct /\ D \subseteq Jobs
      /\ S \subseteq Jobs \ Direct
      /\ \A j \in D : DirectEligible(ledger[j])
      /\ \A j \in S : SlurmEligible(ledger[j])
  BY JobsAssumption DEF DirectCandidates, SlurmCandidates, Capped
<1>2. \A j \in D \cup S : ledger[j] \in Records
  <2>1. NoRecord.state \notin JobStateNames /\ NoRecord.sid = FALSE
    BY DEF NoRecord, JobStateNames
  <2> QED
    BY <1>1, <2>1, RecordFacts DEF RestOK, DirectEligible, SlurmEligible
<1>3. mine \in [Jobs -> Slots]
  BY RecordFacts DEF RestOK
<1>4. /\ pc' = [pc EXCEPT ![p] = IF D # {} THEN "bshow" ELSE "bsqueue"]
      /\ copy' = [copy EXCEPT ![p] = mine]
      /\ todo' = [todo EXCEPT ![p] = D]
      /\ out' = [out EXCEPT ![p] = S]
      /\ job' = job /\ stale' = stale
  BY DEF StartBulk, Goto
<1>5. \A j \in D \cup S : mine[j] \in Records
  BY <1>1, <1>2
<1> HIDE DEF D, S, mine
<1>6. {"bshow", "bsqueue"} \subseteq PCs \ SinglePCs
  BY DEF PCs, SinglePCs
<1> QED
  BY <1>1, <1>3, <1>4, <1>5, <1>6 DEF HandlerOK, Locals

LEMMA NextDirectOK ==
    ASSUME HandlerOK, NEW p \in Procs, pc[p] \in {"bshow", "bshowwrite"}, NEW j \in todo[p],
           NextDirect(p, j)
    PROVE  HandlerOK' /\ server' \in {server, "up"}
<1>1. CASE Return(p)
  BY <1>1, ReturnOK DEF Return
<1>2. CASE ~Return(p)
  <2>1. /\ pc' = [pc EXCEPT ![p] = IF todo[p] = {j} THEN "bsqueue" ELSE "bshow"]
        /\ todo' = [todo EXCEPT ![p] = todo[p] \ {j}]
        /\ copy' = [copy EXCEPT ![p][j] = NoRecord]
        /\ UNCHANGED <<server, job, out>>
    BY <1>2 DEF NextDirect, Goto
  <2>2. j \in Jobs /\ j \in Direct /\ j \notin out[p]
    BY DEF HandlerOK, Locals
  <2>3. {"bshow", "bsqueue"} \subseteq PCs \ SinglePCs
    BY DEF PCs, SinglePCs
  <2>4. copy' \in [Procs -> [Jobs -> Slots]]
    BY <2>1, <2>2, RecordFacts DEF HandlerOK
  <2>5. Locals(p)'
    BY <2>1, <2>2, <2>3 DEF HandlerOK, Locals
  <2>6. \A q \in Procs : q # p => Locals(q)'
    BY <2>1 DEF HandlerOK, Locals
  <2> QED
    BY <2>1, <2>3, <2>4, <2>5, <2>6 DEF HandlerOK
<1> QED
  BY <1>1, <1>2

LEMMA InitTInv == Init => TInv
<1> SUFFICES ASSUME Init PROVE TInv
  OBVIOUS
<1>1. "idle" \in PCs /\ "idle" \notin SinglePCs
  BY DEF PCs, SinglePCs
<1>2. Nothing \in [Jobs -> Slots]
  BY NothingType
<1> QED
  BY <1>1, <1>2 DEF Init, TInv, HandlerOK, RestOK, StaleOK, Locals, SchedStates

LEMMA RequestTInv ==
    ASSUME TInv, NEW p \in Procs, Request(p)
    PROVE  TInv'
<1> USE DEF TInv
<1>1. ASSUME NEW j \in Jobs, Plan(p, j) PROVE TInv'
  <2>1. HandlerOK' /\ stale' = stale
    BY <1>1, TakeUpOK, NewRecordType DEF Plan, SlurmPlans, DirectPlans, SinglePCs, JobStateNames
  <2> QED
    BY <1>1, <2>1 DEF Plan, RestOK, StaleOK, files, jobs
<1>2. ASSUME NEW j \in Jobs, Get(p, j) PROVE TInv'
  <2>1. ledger[j] \in Records
    BY <1>2, RecordFacts DEF Get, Exists, RestOK
  <2>2. HandlerOK' /\ stale' = stale
    BY <1>2, <2>1, TakeUpOK DEF Get, SinglePCs
  <2> QED
    BY <1>2, <2>2 DEF Get, RestOK, StaleOK, files, jobs
<1>3. ASSUME NEW j \in Jobs, Cancel(p, j) PROVE TInv'
  <2>1. ledger[j] \in Records
    BY <1>3, RecordFacts DEF Cancel, Exists, RestOK
  <2>2. HandlerOK' /\ stale' = stale
    BY <1>3, <2>1, TakeUpOK DEF Cancel, SinglePCs
  <2> QED
    BY <1>3, <2>2 DEF Cancel, RestOK, StaleOK, files, jobs
<1>4. CASE List(p)
  <2>1. HandlerOK' /\ stale' = stale
    BY <1>4, StartBulkOK DEF List
  <2> QED
    BY <1>4, <2>1 DEF List, RestOK, StaleOK, files, jobs
<1>5. CASE SetDrain(p)
  <2>1. {"drain_on", "drain_off"} \subseteq PCs \ SinglePCs
    BY DEF PCs, SinglePCs
  <2>2. HandlerOK'
    BY <1>5, <2>1 DEF SetDrain, Goto, HandlerOK, Locals
  <2> QED
    BY <1>5, <2>2 DEF SetDrain, RestOK, StaleOK, jobs
<1> QED
  BY <1>1, <1>2, <1>3, <1>4, <1>5 DEF Request

\* The steps of a handler that is about one job.
LEMMA SingleTInv ==
    ASSUME TInv, NEW p \in Procs,
           \/ Launch(p) \/ RejectSpec(p) \/ Commit(p) \/ Squeue(p) \/ Sacct(p)
           \/ Scontrol(p) \/ Show(p) \/ Write(p) \/ Kill(p)
    PROVE  TInv'
<1> USE DEF TInv
<1> DEFINE j == job[p]
           rec == copy[p][j]
<1>1. pc[p] \in SinglePCs
  BY DEF Launch, RejectSpec, Commit, Squeue, Sacct, Scontrol, Show, Write, Kill, SinglePCs
<1>2. j \in Jobs /\ rec \in Records
  BY <1>1 DEF HandlerOK, Locals
<1>3. {"commit", "sacct", "scontrol", "write", "killwrite"} \subseteq SinglePCs
  BY DEF SinglePCs
<1>4. /\ [rec EXCEPT !.state = "submitted", !.sid = Slurm(j)] \in Records
      /\ [rec EXCEPT !.state = "failed"] \in Records
      /\ [rec EXCEPT !.state = "canceled"] \in Records
  <2>1. {"submitted", "failed", "canceled"} \subseteq JobStateNames /\ Slurm(j) \in BOOLEAN
    BY DEF JobStateNames, Slurm
  <2> QED
    BY <1>2, <2>1, RecordUpdates
<1>5. CASE Launch(p)
  <2>1. HandlerOK' /\ stale' = stale
    BY <1>1, <1>3, <1>4, <1>5, KeepOK DEF Launch
  <2>2. sched' \in [Jobs -> SchedStates]
    BY <1>5 DEF Launch, RestOK, SchedStates, LiveStates
  <2> QED
    BY <1>5, <2>1, <2>2 DEF Launch, RestOK, StaleOK, files
<1>6. CASE RejectSpec(p)
  BY <1>6, ReturnOK DEF RejectSpec, Return, RestOK, StaleOK, files, jobs
<1>7. CASE Commit(p)
  BY <1>2, <1>7, ReturnOK, WriteRecordOK DEF Commit, Return, RestOK, jobs
<1>8. CASE Squeue(p)
  <2>1. HandlerOK' /\ stale' = stale
    BY <1>1, <1>2, <1>3, <1>8, KeepOK, ApplyStateType DEF Squeue
  <2> QED
    BY <1>8, <2>1 DEF Squeue, RestOK, StaleOK, files, jobs
<1>9. CASE Sacct(p)
  <2>1. HandlerOK' /\ stale' = stale
    BY <1>1, <1>2, <1>3, <1>9, KeepOK, ApplyRowType, ReportTypes DEF Sacct
  <2> QED
    BY <1>9, <2>1 DEF Sacct, RestOK, StaleOK, files, jobs
<1>10. CASE Scontrol(p)
  <2>1. HandlerOK' /\ stale' = stale
    BY <1>1, <1>2, <1>3, <1>10, KeepOK, ApplyRowType, ReportTypes DEF Scontrol
  <2> QED
    BY <1>10, <2>1 DEF Scontrol, RestOK, StaleOK, files, jobs
<1>11. CASE Show(p)
  <2>1. CASE Return(p) /\ UNCHANGED <<stale, hasty>>
    BY <1>11, <2>1, ReturnOK DEF Show, Return, RestOK, StaleOK, files
  <2>2. CASE /\ \E s \in Answers(j) : Keep(p, j, ApplyShow(rec, s, "inference" \in Gates), "write")
             /\ Answered(j) /\ UNCHANGED server
    <3>1. HandlerOK' /\ stale' = stale
      BY <1>1, <1>2, <1>3, <2>2, KeepOK, ApplyShowType, ShowReportTypes DEF Answers
    <3>2. hasty' \in [Jobs -> BOOLEAN]
      BY <1>2, <2>2, AnsweredFacts
    <3> QED
      BY <1>11, <2>2, <3>1, <3>2 DEF Show, RestOK, StaleOK, files
  <2> QED
    BY <1>11, <2>1, <2>2 DEF Show
<1>12. CASE Write(p)
  BY <1>2, <1>12, ReturnOK, WriteRecordOK DEF Write, Return, RestOK, jobs
<1>13. CASE Kill(p)
  <2>1. HandlerOK' /\ stale' = stale
    BY <1>1, <1>3, <1>4, <1>13, KeepOK DEF Kill
  <2>2. killed' \in [Jobs -> BOOLEAN]
    BY <1>13 DEF Kill, RestOK
  <2> QED
    BY <1>13, <2>1, <2>2 DEF Kill, RestOK, StaleOK, files
<1> QED
  BY <1>5, <1>6, <1>7, <1>8, <1>9, <1>10, <1>11, <1>12, <1>13

LEMMA BulkShowTInv ==
    ASSUME TInv, NEW p \in Procs, BulkShow(p) \/ BulkShowWrite(p)
    PROVE  TInv'
<1> USE DEF TInv
<1>1. pc[p] \in {"bshow", "bshowwrite"}
  BY DEF BulkShow, BulkShowWrite
<1>2. PICK j \in todo[p] :
         \/ \E s \in Answers(j) :
               /\ Keep(p, j, ApplyShow(copy[p][j], s, "inference" \in Gates), "bshowwrite")
               /\ Answered(j) /\ UNCHANGED <<server, files, sched, killed>>
         \/ /\ NextDirect(p, j) /\ stale' = [stale EXCEPT ![p] = stale[p] \ {j}]
            /\ UNCHANGED <<files, jobs>>
         \/ WriteRecord(p, j) /\ NextDirect(p, j) /\ UNCHANGED <<drain, acked, jobs>>
  BY DEF BulkShow, BulkShowWrite, jobs
<1>3. j \in Jobs /\ j \notin out[p] /\ copy[p][j] \in Records
  BY <1>1 DEF HandlerOK, Locals
<1>4. ASSUME NEW s \in Answers(j),
             Keep(p, j, ApplyShow(copy[p][j], s, "inference" \in Gates), "bshowwrite"),
             Answered(j), UNCHANGED <<server, files, sched, killed>>
      PROVE  TInv'
  <2> DEFINE r == ApplyShow(copy[p][j], s, "inference" \in Gates)
  <2>1. r \in Records /\ r \in Slots
    BY <1>3, ApplyShowType, ShowReportTypes, RecordFacts DEF Answers
  <2>2. "bshowwrite" \in PCs /\ "bshowwrite" \notin SinglePCs
    BY DEF PCs, SinglePCs
  <2>3. /\ pc' = [pc EXCEPT ![p] = "bshowwrite"]
        /\ copy' = [copy EXCEPT ![p][j] = r]
        /\ UNCHANGED <<job, todo, out, stale>>
    BY <1>4 DEF Keep, Goto
  <2> HIDE DEF r
  <2>4. copy' \in [Procs -> [Jobs -> Slots]]
    BY <1>3, <2>1, <2>3 DEF HandlerOK
  <2>5. Locals(p)'
    BY <1>1, <1>3, <2>1, <2>2, <2>3 DEF HandlerOK, Locals
  <2>6. \A q \in Procs : q # p => Locals(q)'
    BY <2>3 DEF HandlerOK, Locals
  <2>7. HandlerOK'
    BY <2>2, <2>3, <2>4, <2>5, <2>6 DEF HandlerOK
  <2>8. hasty' \in [Jobs -> BOOLEAN]
    BY <1>3, <1>4, AnsweredFacts
  <2> QED
    BY <1>4, <2>3, <2>7, <2>8 DEF RestOK, StaleOK, files
<1>5. ASSUME NextDirect(p, j), stale' = [stale EXCEPT ![p] = stale[p] \ {j}], UNCHANGED <<files, jobs>>
      PROVE  TInv'
  BY <1>1, <1>5, NextDirectOK DEF RestOK, StaleOK, files, jobs
<1>6. ASSUME WriteRecord(p, j), NextDirect(p, j), UNCHANGED <<drain, acked, jobs>>
      PROVE  TInv'
  BY <1>1, <1>3, <1>6, NextDirectOK, WriteRecordOK DEF RestOK, jobs
<1> QED
  BY <1>2, <1>4, <1>5, <1>6

LEMMA BulkSlurmTInv ==
    ASSUME TInv, NEW p \in Procs, BulkSqueue(p) \/ BulkSacct(p) \/ BulkWrite(p)
    PROVE  TInv'
<1> USE DEF TInv
<1>1. /\ pc[p] \in {"bsqueue", "bsacct", "bwrite"}
      /\ out[p] \subseteq Jobs \ Direct
      /\ \A j \in out[p] : copy[p][j] \in Records
  BY DEF BulkSqueue, BulkSacct, BulkWrite, HandlerOK, Locals
<1>2. {"bsacct", "bwrite", "bsqueue"} \subseteq PCs \ SinglePCs
  BY DEF PCs, SinglePCs
<1>3. CASE BulkSqueue(p)
  <2>1. CASE Return(p) /\ stale' = [stale EXCEPT ![p] = {}]
    BY <1>3, <2>1, ReturnOK DEF BulkSqueue, Return, RestOK, StaleOK, files, jobs
  <2>2. CASE ~(Return(p) /\ stale' = [stale EXCEPT ![p] = {}])
    <3>1. PICK answer \in [out[p] -> SlurmStates] :
            LET missing == {j \in out[p] : answer[j] = ""} IN
            /\ Goto(p, IF missing = {} THEN "bwrite" ELSE "bsacct")
            /\ todo' = [todo EXCEPT ![p] = missing]
            /\ copy' = [copy EXCEPT ![p] = [j \in Jobs |->
                          IF j \in out[p] THEN ApplyState(copy[p][j], answer[j]) ELSE NoRecord]]
            /\ UNCHANGED <<server, job, out, stale>>
      BY <1>3, <2>2 DEF BulkSqueue
    <3> DEFINE missing == {j \in out[p] : answer[j] = ""}
               mine == [j \in Jobs |->
                          IF j \in out[p] THEN ApplyState(copy[p][j], answer[j]) ELSE NoRecord]
    <3>2. mine \in [Jobs -> Slots] /\ \A j \in out[p] : mine[j] \in Records
      BY <1>1, ApplyStateType, RecordFacts
    <3>3. missing \subseteq out[p]
      OBVIOUS
    <3>4. /\ pc' = [pc EXCEPT ![p] = IF missing = {} THEN "bwrite" ELSE "bsacct"]
          /\ todo' = [todo EXCEPT ![p] = missing]
          /\ copy' = [copy EXCEPT ![p] = mine]
          /\ UNCHANGED <<server, job, out, stale>>
      BY <3>1 DEF Goto
    <3> HIDE DEF missing, mine
    <3>5. HandlerOK'
      BY <1>1, <1>2, <3>2, <3>3, <3>4 DEF HandlerOK, Locals
    <3> QED
      BY <1>3, <3>4, <3>5 DEF BulkSqueue, RestOK, StaleOK, files, jobs
  <2> QED
    BY <2>1, <2>2
<1>4. CASE BulkSacct(p)
  <2>1. PICK j \in todo[p] : \E row \in SacctRows(sched[j], Faults) :
          /\ copy' = [copy EXCEPT ![p][j] = ApplyRow(copy[p][j], row)]
          /\ todo' = [todo EXCEPT ![p] = todo[p] \ {j}]
          /\ pc' = [pc EXCEPT ![p] = IF todo[p] = {j} THEN "bwrite" ELSE "bsacct"]
    BY <1>4 DEF BulkSacct, Goto
  <2>2. PICK row \in SacctRows(sched[j], Faults) :
          copy' = [copy EXCEPT ![p][j] = ApplyRow(copy[p][j], row)]
    BY <2>1
  <2>3. UNCHANGED <<server, files, jobs, job, out, stale>>
    BY <1>4 DEF BulkSacct
  <2>4. todo[p] \subseteq out[p] /\ j \in Jobs /\ copy[p][j] \in Records
    BY <1>1, <1>4 DEF BulkSacct, HandlerOK, Locals
  <2>5. ApplyRow(copy[p][j], row) \in Records
    BY <2>4, ApplyRowType, ReportTypes
  <2>6. copy' \in [Procs -> [Jobs -> Slots]]
    BY <2>2, <2>4, <2>5, RecordFacts DEF HandlerOK
  <2>7. Locals(p)'
    BY <1>1, <1>2, <2>1, <2>2, <2>3, <2>4, <2>5 DEF HandlerOK, Locals
  <2>8. \A q \in Procs : q # p => Locals(q)'
    BY <2>1, <2>2, <2>3 DEF HandlerOK, Locals
  <2>9. HandlerOK'
    BY <1>2, <2>1, <2>3, <2>4, <2>6, <2>7, <2>8 DEF HandlerOK
  <2> QED
    BY <2>3, <2>9 DEF RestOK, StaleOK, files, jobs
<1>5. CASE BulkWrite(p)
  <2>1. PICK j \in out[p] :
          /\ WriteRecord(p, j)
          /\ \/ Return(p)
             \/ /\ copy' = [copy EXCEPT ![p][j] = NoRecord]
                /\ out' = [out EXCEPT ![p] = out[p] \ {j}]
                /\ UNCHANGED <<server, pc, job, todo>>
          /\ UNCHANGED <<drain, acked, jobs>>
    BY <1>5 DEF BulkWrite
  <2>2. ledger' \in [Jobs -> Slots] /\ StaleOK'
    BY <1>1, <2>1, WriteRecordOK
  <2>3. CASE Return(p)
    BY <2>1, <2>2, <2>3, ReturnOK DEF Return, RestOK, jobs
  <2>4. CASE ~Return(p)
    <3>1. /\ copy' = [copy EXCEPT ![p][j] = NoRecord]
          /\ out' = [out EXCEPT ![p] = out[p] \ {j}]
          /\ UNCHANGED <<server, pc, job, todo>>
      BY <2>1, <2>4
    <3>2. copy' \in [Procs -> [Jobs -> Slots]]
      BY <1>1, <3>1, RecordFacts DEF HandlerOK
    <3>3. Locals(p)'
      BY <1>1, <1>2, <1>5, <3>1 DEF BulkWrite, HandlerOK, Locals
    <3>4. \A q \in Procs : q # p => Locals(q)'
      BY <3>1 DEF HandlerOK, Locals
    <3>5. HandlerOK'
      BY <3>1, <3>2, <3>3, <3>4 DEF HandlerOK
    <3> QED
      BY <2>1, <2>2, <3>1, <3>5 DEF RestOK, jobs
  <2> QED
    BY <2>3, <2>4
<1> QED
  BY <1>3, <1>4, <1>5

LEMMA WriteDrainTInv ==
    ASSUME TInv, NEW p \in Procs, WriteDrain(p)
    PROVE  TInv'
BY ReturnOK DEF TInv, WriteDrain, Return, RestOK, StaleOK, jobs

LEMMA CrashTInv == TInv /\ Crash => TInv'
<1> SUFFICES ASSUME TInv, Crash PROVE TInv'
  OBVIOUS
<1>1. "idle" \in PCs /\ "idle" \notin SinglePCs
  BY DEF PCs, SinglePCs
<1> QED
  BY <1>1, NothingType DEF Crash, ForgetHandlers, TInv, HandlerOK, RestOK, StaleOK, Locals, files, jobs

LEMMA RestartTInv == TInv /\ Restart => TInv'
<1> SUFFICES ASSUME TInv, Restart PROVE TInv'
  OBVIOUS
<1>1. HandlerOK' /\ stale' = stale /\ server' \in {"starting", "up"}
  <2>1. CASE Reconciling
    BY <2>1, StartBulkOK DEF Restart, TInv, Procs
  <2>2. CASE ~Reconciling
    BY <2>2 DEF Restart, TInv, HandlerOK, Locals, handler
  <2> QED
    BY <2>1, <2>2
<1> QED
  BY <1>1 DEF Restart, TInv, RestOK, StaleOK, files, jobs

LEMMA SchedTInv ==
    ASSUME TInv, NEW j \in Jobs, SchedStep(j)
    PROVE  TInv'
<1>1. sched' \in [Jobs -> SchedStates]
  BY DEF SchedStep, SchedStart, SchedEnd, SchedCancel, TInv, RestOK, SchedStates,
         LiveStates, EndStates
<1> QED
  BY <1>1 DEF SchedStep, TInv, HandlerOK, Locals, RestOK, StaleOK, files, handler

LEMMA NextTInv == TInv /\ [Next]_vars => TInv'
<1> SUFFICES ASSUME TInv, [Next]_vars PROVE TInv'
  OBVIOUS
<1>1. ASSUME NEW p \in Procs, Request(p) PROVE TInv'
  BY <1>1, RequestTInv
<1>2. ASSUME NEW p \in Procs, Continue(p) PROVE TInv'
  BY <1>2, SingleTInv, BulkShowTInv, BulkSlurmTInv, WriteDrainTInv DEF Continue
<1>3. ASSUME NEW j \in Jobs, SchedStep(j) PROVE TInv'
  BY <1>3, SchedTInv
<1>4. CASE Crash \/ Restart
  BY <1>4, CrashTInv, RestartTInv
<1>5. CASE UNCHANGED vars
  BY <1>5 DEF vars, files, jobs, handler, TInv, HandlerOK, Locals, RestOK, StaleOK
<1> QED
  BY <1>1, <1>2, <1>3, <1>4, <1>5 DEF Next

THEOREM AlwaysTInv == Spec => []TInv
BY InitTInv, NextTInv, PTL DEF Spec

\* Every variable keeps its type: no handler updates a copy it does not hold, however
\* requests, crashes and reconciliation interleave.
THEOREM TypeCorrect == Spec => []TypeOK
<1>1. TInv => TypeOK
  BY DEF TInv, HandlerOK, RestOK, StaleOK, TypeOK
<1> QED
  BY <1>1, AlwaysTInv, PTL

-----------------------------------------------------------------------------
(* What the records say is true.  The ledger alone is not inductive: what  *)
(* a handler will write is in its copy, so the same must hold of every     *)
(* copy, and a copy must belong to a record that exists, or to the one     *)
(* submission that is about to create it.                                  *)

\* No command lies about what it did: a failure is one.
HonestCommands == Faults \cap {"launch_timeout", "kill_error", "query_error"} = {}

\* What a record r of job j may claim when the scheduler's state of it is s, k says whether
\* a cancel command was accepted, and h whether its unit was queried before it started.
Truth(j, r, s, k, h) ==
    /\ Slurm(j) /\ r.state = "succeeded" => s = "COMPLETED" /\ r.exit = 0
    /\ "query_error" \notin Faults /\ r.state = "succeeded" =>
          s \notin LiveStates \/ k \/ h \/ "foreign_cancel" \in Faults
    /\ HonestCommands /\ r.state = "failed" => k \/ s \notin LiveStates
    /\ r.state = "canceled" => k \/ s = "CANCELLED"
    /\ r.state = "blocked" => s = "NONE"

Truthful == \A j \in Jobs :
    /\ Truth(j, ledger[j], sched[j], killed[j], hasty[j])
    /\ \A p \in Procs : Truth(j, copy[p][j], sched[j], killed[j], hasty[j])

Submitting(p) == pc[p] \in {"launch", "commit"}

\* A submission owns its job: nobody else knows the id.
Owned(p) ==
    Submitting(p) =>
        /\ ~Exists(job[p])
        /\ \A q \in Procs \ {p} : Submitting(q) => job[q] # job[p]
        /\ pc[p] = "launch" => /\ sched[job[p]] = "NONE"
                              /\ copy[p][job[p]].state = "accepted"
        /\ Slurm(job[p]) /\ copy[p][job[p]].state = "submitted" => copy[p][job[p]].sid

\* Every other copy is of a record that exists, and a copy of a Slurm record is taken
\* only when there is a scheduler id.
Held(p) ==
    \A j \in Jobs : copy[p][j] # NoRecord =>
        IF Submitting(p) THEN j = job[p]
        ELSE Exists(j) /\ (Slurm(j) => copy[p][j].sid /\ ledger[j].sid)

IInv ==
    /\ TInv
    /\ Truthful
    /\ \A p \in Procs : Owned(p) /\ Held(p) /\ (pc[p] = "show" => job[p] \in Direct)
    /\ ~Submitting(Boot)
    /\ AcknowledgedIsTracked

LEMMA NoRecordFacts ==
    /\ NoRecord.state \notin JobStateNames /\ NoRecord.sid = FALSE
    /\ \A j \in Jobs : \A s, k, h : Truth(j, NoRecord, s, k, h)
BY DEF NoRecord, Truth, JobStateNames

LEMMA UpdateTruth ==
    ASSUME NEW j \in Jobs, NEW r \in Records, NEW s, NEW k, NEW h,
           NEW state \in {"submitted", "running", "unknown"}
    PROVE  Truth(j, [r EXCEPT !.state = state], s, k, h)
BY DEF Truth, Records

LEMMA SqueueTruth ==
    ASSUME NEW j \in Jobs, NEW r \in Records, NEW s, NEW k, NEW h, Truth(j, r, s, k, h),
           NEW f, NEW a \in SqueueReports(s, f)
    PROVE  Truth(j, ApplyState(r, a), s, k, h) /\ ApplyState(r, a).sid = r.sid
<1>1. a \in LiveStates \cup {"", "OTHER"}
  BY DEF SqueueReports
<1>2. CASE a \in LiveStates
  <2>1. DispatchState(a) \in {"submitted", "running"}
    BY <1>2 DEF LiveStates, DispatchState
  <2>2. Truth(j, [r EXCEPT !.state = DispatchState(a)], s, k, h)
    BY <2>1, UpdateTruth
  <2>3. [r EXCEPT !.state = DispatchState(a)].sid = r.sid
    BY DEF Records
  <2> QED
    BY <2>2, <2>3 DEF ApplyState
<1>3. CASE a \in {"", "OTHER"}
  BY <1>3 DEF ApplyState, DispatchState
<1> QED
  BY <1>1, <1>2, <1>3

LEMMA RowTruth ==
    ASSUME NEW j \in Jobs, NEW r \in Records, NEW s \in SchedStates, NEW k, NEW h,
           Truth(j, r, s, k, h),
           NEW f, NEW row \in AccountingRows(s, f)
    PROVE  Truth(j, ApplyRow(r, row), s, k, h) /\ ApplyRow(r, row).sid = r.sid
<1> DEFINE seen == WithExit(r, row.exit)
<1>1. CASE row.state = ""
  BY <1>1 DEF ApplyRow
<1>2. CASE row.state # ""
  <2>1. /\ s # "NONE" /\ row.exit \in RowExits(s)
        /\ row.state = s \/ row.state = "OTHER"
    BY <1>2 DEF AccountingRows
  <2>2. row.exit \in ExitCodes /\ (s = "COMPLETED" => row.exit = 0)
    BY <2>1 DEF RowExits, ExitCodes, NoExit
  <2>3. /\ seen \in Records /\ seen.state = r.state /\ seen.sid = r.sid
        /\ seen.exit = row.exit \/ seen.exit = r.exit
    BY <2>2, RecordUpdates DEF WithExit, Records
  <2>4. s = "COMPLETED" => seen.exit = 0
    BY <2>2 DEF WithExit, Records, NoExit
  <2>5. Truth(j, seen, s, k, h)
    BY <2>3, <2>4 DEF Truth
  <2>6. ApplyRow(r, row) = ApplyState(seen, row.state)
    BY <1>2 DEF ApplyRow
  <2> HIDE DEF seen
  <2>7. CASE ApplyState(seen, row.state) = seen
    BY <2>3, <2>5, <2>6, <2>7
  <2>8. CASE ApplyState(seen, row.state) # seen
    <3>1. DispatchState(row.state) # "none" /\ row.state = s
      BY <2>1, <2>8 DEF ApplyState, DispatchState
    <3>2. ApplyState(seen, row.state) = [seen EXCEPT !.state = DispatchState(s)]
      BY <2>8, <3>1 DEF ApplyState
    <3>3. s \in LiveStates \cup EndStates
      BY <2>1 DEF SchedStates
    <3>4. Truth(j, [seen EXCEPT !.state = DispatchState(s)], s, k, h)
      BY <2>3, <2>4, <3>3 DEF Truth, DispatchState, LiveStates, EndStates, Records
    <3>5. [seen EXCEPT !.state = DispatchState(s)].sid = seen.sid
      BY <2>3 DEF Records
    <3> QED
      BY <2>3, <2>6, <3>2, <3>4, <3>5
  <2> QED
    BY <2>7, <2>8
<1> QED
  BY <1>1, <1>2

\* A unit that is queued, runs or is being stopped shows the code 0 and is taken to run or
\* to have succeeded; one that runs, and that nobody stops, is taken to run.
LEMMA ShowRunning ==
    ASSUME NEW f, "query_error" \notin f, NEW s \in LiveStates, NEW stopping,
           NEW o \in ShowReports(s, stopping, f), NEW st
    PROVE  /\ Infer(st, 0, o) \in {"running", "succeeded"}
           /\ o.exit = 0
           /\ s = "RUNNING" /\ ~stopping => Infer(st, 0, o) = "running"
<1>1. /\ o \in {Scope("loaded", "inactive", "dead", "success", 0),
                Scope("loaded", "active", "running", "success", 0), Stopping(0)}
      /\ s = "RUNNING" /\ ~stopping => o = Scope("loaded", "active", "running", "success", 0)
  BY DEF ShowReports, LiveStates
<1>2. /\ o.load = "loaded" /\ o.exit = 0 /\ o.active \in {"inactive", "active", "deactivating"}
      /\ s = "RUNNING" /\ ~stopping => o.active = "active"
  BY <1>1 DEF Scope, Stopping
<1>3. Observed(0, o) = IF o.active = "active" THEN "running" ELSE "succeeded"
  BY <1>2 DEF Observed, NoExit
<1> QED
  BY <1>2, <1>3 DEF Infer

LEMMA ShowTruth ==
    ASSUME NEW j \in Direct, NEW r \in Records, NEW s \in SchedStates, NEW k, NEW h, NEW h2,
           Truth(j, r, s, k, h), h => h2, s = "PENDING" => h2,
           NEW stopping, stopping => k \/ "foreign_cancel" \in Faults,
           NEW o \in ShowReports(s, stopping, Faults), NEW b
    PROVE  Truth(j, ApplyShow(r, o, b), s, k, h2)
<1> DEFINE seen == WithExit(r, o.exit)
           inferred == Infer(seen.state, seen.exit, o)
<1>1. o.exit \in ExitCodes
  BY ShowReportTypes
<1>2. /\ seen \in Records /\ seen.state = r.state
      /\ o.exit = 0 => seen.exit = 0
  <2>1. seen \in Records
    BY <1>1, RecordUpdates
  <2> QED
    BY <2>1 DEF WithExit, Records, NoExit
<1>3. ~Slurm(j)
  BY DEF Slurm
<1>4. Truth(j, seen, s, k, h2)
  BY <1>2, <1>3 DEF Truth
<1>5. ApplyShow(r, o, b) = IF b /\ inferred # "none" THEN [seen EXCEPT !.state = inferred] ELSE seen
  BY DEF ApplyShow
<1>6. inferred # "none" => inferred \in {"succeeded", "failed", "unknown", "running"}
  BY InferType
<1>7. "query_error" \notin Faults /\ s \in LiveStates =>
         /\ inferred \in {"running", "succeeded"}
         /\ inferred = "succeeded" => k \/ h2 \/ "foreign_cancel" \in Faults
  <2> SUFFICES ASSUME "query_error" \notin Faults, s \in LiveStates
               PROVE  /\ inferred \in {"running", "succeeded"}
                      /\ inferred = "succeeded" => k \/ h2 \/ "foreign_cancel" \in Faults
    OBVIOUS
  <2>1. o.exit = 0
    BY ShowRunning
  <2>2. inferred = Infer(seen.state, 0, o)
    BY <1>2, <2>1
  <2> HIDE DEF seen, inferred
  <2>3. /\ inferred \in {"running", "succeeded"}
        /\ s = "RUNNING" /\ ~stopping => inferred = "running"
    BY <2>2, ShowRunning
  <2> QED
    BY <2>3 DEF LiveStates
<1> HIDE DEF seen, inferred
<1>8. HonestCommands => "query_error" \notin Faults
  BY DEF HonestCommands
<1>9. inferred # "none" => Truth(j, [seen EXCEPT !.state = inferred], s, k, h2)
  BY <1>2, <1>3, <1>6, <1>7, <1>8 DEF Truth, Records
<1> QED
  BY <1>4, <1>5, <1>9

LEMMA ApplyShowSid ==
    ASSUME NEW r \in Records, NEW o, o.exit \in ExitCodes, NEW b
    PROVE  ApplyShow(r, o, b).sid = r.sid
<1> DEFINE seen == WithExit(r, o.exit)
<1>1. seen \in Records /\ seen.sid = r.sid
  BY RecordUpdates DEF WithExit, Records
<1> QED
  BY <1>1 DEF ApplyShow, Records

\* What a handler makes of an answer about the unit of j.
LEMMA AnswerTruth ==
    ASSUME RestOK, NEW j \in Direct, NEW r \in Records,
           Truth(j, r, sched[j], killed[j], hasty[j]),
           NEW o \in Answers(j), Answered(j), UNCHANGED killed, NEW b
    PROVE  /\ Truth(j, ApplyShow(r, o, b), sched[j], killed'[j], hasty'[j])
           /\ ApplyShow(r, o, b).sid = r.sid
           /\ \A k \in Jobs : hasty[k] => hasty'[k]
<1>1. j \in Jobs /\ sched[j] \in SchedStates
  BY JobsAssumption DEF RestOK
<1>2. /\ \A k \in Jobs : hasty[k] => hasty'[k]
      /\ hasty[j] => hasty'[j]
      /\ sched[j] = "PENDING" => hasty'[j]
  BY <1>1, AnsweredFacts
<1>3. o \in ShowReports(sched[j], Stoppable(j), Faults)
  BY DEF Answers
<1>4. Stoppable(j) => killed[j] \/ "foreign_cancel" \in Faults
  BY DEF Stoppable
<1>5. Truth(j, ApplyShow(r, o, b), sched[j], killed[j], hasty'[j])
  BY <1>1, <1>2, <1>3, <1>4, ShowTruth, Zenon
<1>6. ApplyShow(r, o, b).sid = r.sid
  BY <1>3, ShowReportTypes, ApplyShowSid
<1> QED
  BY <1>2, <1>5, <1>6

-----------------------------------------------------------------------------
(* Most steps are ordinary: handler p, which is not submitting, writes at  *)
(* most what it holds, and then holds only truthful copies of records that *)
(* exist.                                                                  *)

OrdinaryStep(p) ==
    /\ sched' = sched /\ acked' = acked
    /\ \A k \in Jobs : (killed[k] => killed'[k]) /\ (hasty[k] => hasty'[k])
    /\ \A k \in Jobs : \/ ledger'[k] = ledger[k]
                       \/ /\ ~Submitting(p) /\ copy[p][k] # NoRecord
                          /\ ledger'[k] = copy[p][k]
    /\ \A q \in Procs \ {p} : pc'[q] = pc[q] /\ job'[q] = job[q] /\ copy'[q] = copy[q]
    /\ pc[p] # "commit" /\ pc'[p] \notin {"launch", "commit"}
    /\ pc'[p] = "show" => job'[p] \in Direct
    /\ \A k \in Jobs : copy'[p][k] # NoRecord =>
          /\ Truth(k, copy[p][k], sched[k], killed[k], hasty[k])'
          /\ ~Submitting(p) /\ Exists(k)
          /\ Slurm(k) => copy'[p][k].sid /\ ledger[k].sid

LEMMA OrdinaryInv ==
    ASSUME IInv, TInv', NEW p \in Procs, OrdinaryStep(p)
    PROVE  IInv'
<1>1. \A k \in Jobs : Exists(k)' <=> Exists(k)
  BY DEF IInv, Held, OrdinaryStep, Exists
<1>2. \A k \in Jobs : Slurm(k) /\ ledger'[k] # ledger[k] => ledger'[k].sid /\ ledger[k].sid
  BY DEF IInv, Held, OrdinaryStep
<1>3. Truthful'
  <2>1. \A k \in Jobs : \A r : Truth(k, r, sched[k], killed[k], hasty[k])
                            => Truth(k, r, sched'[k], killed'[k], hasty'[k])
    BY DEF OrdinaryStep, Truth
  <2>2. \A k \in Jobs : Truth(k, ledger'[k], sched'[k], killed'[k], hasty'[k])
    BY <2>1 DEF IInv, Truthful, OrdinaryStep
  <2>3. \A k \in Jobs, q \in Procs : Truth(k, copy'[q][k], sched'[k], killed'[k], hasty'[k])
    BY <2>1, NoRecordFacts DEF IInv, Truthful, OrdinaryStep
  <2> QED
    BY <2>2, <2>3 DEF Truthful
<1>4. \A q \in Procs : Owned(q)'
  <2>1. \A q \in Procs : Submitting(q)' => Submitting(q) /\ pc'[q] = pc[q] /\ job'[q] = job[q] /\ copy'[q] = copy[q]
    BY DEF OrdinaryStep, Submitting
  <2>2. \A q \in Procs : Submitting(q) => job[q] \in Jobs
    BY DEF IInv, TInv, HandlerOK, Locals, Submitting, SinglePCs
  <2> QED
    BY <1>1, <2>1, <2>2 DEF IInv, Owned, OrdinaryStep
<1>5. \A q \in Procs : Held(q)'
  <2>1. ASSUME NEW q \in Procs, NEW k \in Jobs, (copy[q][k] # NoRecord)', q # p
        PROVE  IF Submitting(q)' THEN k = job'[q]
               ELSE Exists(k)' /\ (Slurm(k) => copy'[q][k].sid /\ ledger'[k].sid)
    BY <1>1, <1>2, <2>1 DEF IInv, Held, OrdinaryStep, Submitting
  <2>2. ASSUME NEW k \in Jobs, (copy[p][k] # NoRecord)'
        PROVE  ~Submitting(p)' /\ Exists(k)' /\ (Slurm(k) => copy'[p][k].sid /\ ledger'[k].sid)
    BY <1>1, <1>2, <2>2 DEF OrdinaryStep, Submitting
  <2> QED
    BY <2>1, <2>2 DEF Held
<1>6. \A q \in Procs : (pc[q] = "show" => job[q] \in Direct)'
  BY DEF IInv, OrdinaryStep
<1>7. AcknowledgedIsTracked'
  <2>1. \A k \in acked : k \in Jobs
    BY DEF IInv, TInv, RestOK
  <2> QED
    BY <1>1, <1>2, <2>1 DEF IInv, AcknowledgedIsTracked, OrdinaryStep
<1>8. ~Submitting(Boot)'
  BY DEF IInv, OrdinaryStep, Submitting, Procs
<1> QED
  BY <1>3, <1>4, <1>5, <1>6, <1>7, <1>8 DEF IInv

\* Taking up an existing record.
LEMMA TakeUpOrdinary ==
    ASSUME IInv, NEW p \in Procs, pc[p] = "idle", NEW j \in Jobs, Exists(j),
           Slurm(j) => ledger[j].sid,
           NEW label \in PCs \ {"launch", "commit"}, label = "show" => j \in Direct,
           TakeUp(p, j, ledger[j], label), UNCHANGED <<server, files, jobs>>
    PROVE  OrdinaryStep(p)
<1>1. /\ pc' = [pc EXCEPT ![p] = label] /\ job' = [job EXCEPT ![p] = j]
      /\ copy' = [copy EXCEPT ![p] = [Nothing EXCEPT ![j] = ledger[j]]]
      /\ UNCHANGED <<sched, killed, hasty, ledger, acked>>
  BY DEF TakeUp, Goto, files, jobs
<1>2. /\ pc'[p] = label /\ job'[p] = j
      /\ \A k \in Jobs : copy'[p][k] = IF k = j THEN ledger[j] ELSE NoRecord
      /\ \A q \in Procs \ {p} : pc'[q] = pc[q] /\ job'[q] = job[q] /\ copy'[q] = copy[q]
  BY <1>1 DEF IInv, TInv, HandlerOK, Nothing
<1>3. Truth(j, ledger[j], sched[j], killed[j], hasty[j])
  BY DEF IInv, Truthful
<1> QED
  BY <1>1, <1>2, <1>3 DEF OrdinaryStep, Submitting

\* Going on with a new version r of a copy.
LEMMA UpdateOrdinary ==
    ASSUME IInv, NEW p \in Procs, ~Submitting(p), NEW j \in Jobs, copy[p][j] # NoRecord,
           NEW r, r.sid = copy[p][j].sid, Truth(j, r, sched[j], killed'[j], hasty'[j]),
           NEW label \in PCs \ {"launch", "commit", "show"},
           Goto(p, label), copy' = [copy EXCEPT ![p][j] = r], UNCHANGED <<files, sched, job>>,
           \A k \in Jobs : (killed[k] => killed'[k]) /\ (hasty[k] => hasty'[k])
    PROVE  OrdinaryStep(p)
<1>1. /\ pc' = [pc EXCEPT ![p] = label] /\ job' = job
      /\ UNCHANGED <<sched, ledger, acked>>
  BY DEF Goto, files
<1>2. /\ pc'[p] = label
      /\ \A k \in Jobs : copy'[p][k] = IF k = j THEN r ELSE copy[p][k]
      /\ \A q \in Procs \ {p} : pc'[q] = pc[q] /\ job'[q] = job[q] /\ copy'[q] = copy[q]
  BY <1>1 DEF IInv, TInv, HandlerOK
<1>3. \A k \in Jobs : copy[p][k] # NoRecord =>
         Exists(k) /\ (Slurm(k) => copy[p][k].sid /\ ledger[k].sid)
  BY DEF IInv, Held
<1>4. \A k \in Jobs : k # j => Truth(k, copy'[p][k], sched'[k], killed'[k], hasty'[k])
  BY <1>1, <1>2 DEF IInv, Truthful, Truth
<1> QED
  BY <1>1, <1>2, <1>3, <1>4 DEF OrdinaryStep, Submitting

LEMMA KeepOrdinary ==
    ASSUME IInv, NEW p \in Procs, ~Submitting(p), NEW j \in Jobs, copy[p][j] # NoRecord,
           NEW r, r.sid = copy[p][j].sid, Truth(j, r, sched[j], killed'[j], hasty'[j]),
           NEW label \in PCs \ {"launch", "commit", "show"},
           Keep(p, j, r, label), UNCHANGED <<files, sched>>,
           \A k \in Jobs : (killed[k] => killed'[k]) /\ (hasty[k] => hasty'[k])
    PROVE  OrdinaryStep(p)
BY UpdateOrdinary DEF Keep

\* Returning, after the write of a copy or without one.
LEMMA ReturnOrdinary ==
    ASSUME IInv, NEW p \in Procs, pc[p] # "commit", Return(p), UNCHANGED <<acked, jobs>>,
           \/ UNCHANGED ledger
           \/ \E j \in Jobs : ~Submitting(p) /\ copy[p][j] # NoRecord /\ WriteRecord(p, j)
    PROVE  OrdinaryStep(p)
<1>1. /\ pc'[p] = "idle" /\ \A k \in Jobs : copy'[p][k] = NoRecord
      /\ \A q \in Procs \ {p} : pc'[q] = pc[q] /\ job'[q] = job[q] /\ copy'[q] = copy[q]
  BY DEF Return, Goto, IInv, TInv, HandlerOK, Nothing
<1>2. \A k \in Jobs : \/ ledger'[k] = ledger[k]
                     \/ /\ ~Submitting(p) /\ copy[p][k] # NoRecord
                        /\ ledger'[k] = copy[p][k]
  BY DEF WriteRecord, IInv, TInv, RestOK
<1> QED
  BY <1>1, <1>2 DEF OrdinaryStep, jobs

\* Dropping one copy of several, after its write or without one.
LEMMA DropOrdinary ==
    ASSUME IInv, NEW p \in Procs, pc[p] \notin {"launch", "commit"}, NEW j \in Jobs,
           copy[p][j] # NoRecord, copy' = [copy EXCEPT ![p][j] = NoRecord],
           NEW label \in PCs \ {"launch", "commit", "show"},
           pc' = [pc EXCEPT ![p] = label], UNCHANGED <<drain, acked, jobs, job>>,
           UNCHANGED ledger \/ WriteRecord(p, j)
    PROVE  OrdinaryStep(p)
<1>1. /\ pc'[p] = label
      /\ \A k \in Jobs : copy'[p][k] = IF k = j THEN NoRecord ELSE copy[p][k]
      /\ \A q \in Procs \ {p} : pc'[q] = pc[q] /\ job'[q] = job[q] /\ copy'[q] = copy[q]
      /\ sched' = sched /\ killed' = killed /\ hasty' = hasty
  BY DEF IInv, TInv, HandlerOK, jobs
<1>2. \A k \in Jobs : ledger'[k] = ledger[k] \/ (k = j /\ ledger'[k] = copy[p][k])
  BY DEF WriteRecord, IInv, TInv, RestOK
<1>3. \A k \in Jobs : copy[p][k] # NoRecord =>
         Exists(k) /\ (Slurm(k) => copy[p][k].sid /\ ledger[k].sid)
  BY DEF IInv, Held, Submitting
<1>4. \A k \in Jobs : k # j => Truth(k, copy'[p][k], sched'[k], killed'[k], hasty'[k])
  BY <1>1 DEF IInv, Truthful
<1> QED
  BY <1>1, <1>2, <1>3, <1>4 DEF OrdinaryStep, Submitting

LEMMA StartBulkOrdinary ==
    ASSUME IInv, NEW p \in Procs, ~Submitting(p), NEW n, StartBulk(p, n), UNCHANGED <<files, jobs>>
    PROVE  OrdinaryStep(p)
<1> DEFINE S == SlurmCandidates(p, n)
           all == DirectCandidates(n) \cup S
           mine == [j \in Jobs |-> IF j \in all THEN ledger[j] ELSE NoRecord]
<1>1. /\ pc' = [pc EXCEPT ![p] = IF DirectCandidates(n) # {} THEN "bshow" ELSE "bsqueue"]
      /\ copy' = [copy EXCEPT ![p] = mine] /\ job' = job
      /\ UNCHANGED <<sched, killed, hasty, ledger, acked>>
  BY DEF StartBulk, Goto, files, jobs
<1>2. \A j \in all : Slurm(j) => ledger[j].sid
  BY JobsAssumption DEF DirectCandidates, SlurmCandidates, Capped, SlurmEligible, Slurm
<1>3. \A k \in Jobs : mine[k] # NoRecord => mine[k] = ledger[k] /\ Exists(k) /\ k \in all
  BY DEF Exists
<1> HIDE DEF mine, all
<1>4. /\ pc'[p] \in {"bshow", "bsqueue"} /\ copy'[p] = mine
      /\ \A q \in Procs \ {p} : pc'[q] = pc[q] /\ job'[q] = job[q] /\ copy'[q] = copy[q]
  BY <1>1 DEF IInv, TInv, HandlerOK
<1>5. \A k \in Jobs : Truth(k, ledger[k], sched'[k], killed'[k], hasty'[k])
  BY <1>1 DEF IInv, Truthful
<1> QED
  BY <1>1, <1>2, <1>3, <1>4, <1>5 DEF OrdinaryStep, Submitting

\* The copy that a handler of one job works on.
LEMMA SingleCopy ==
    ASSUME IInv, NEW p \in Procs, pc[p] \in SinglePCs
    PROVE  /\ job[p] \in Jobs /\ copy[p][job[p]] \in Records /\ copy[p][job[p]] # NoRecord
           /\ Truth(job[p], copy[p][job[p]], sched[job[p]], killed[job[p]], hasty[job[p]])
           /\ sched[job[p]] \in SchedStates
BY RecordFacts DEF IInv, TInv, HandlerOK, Locals, Truthful, RestOK

LEMMA SingleOrdinary ==
    ASSUME IInv, NEW p \in Procs,
           \/ RejectSpec(p) \/ Squeue(p) \/ Sacct(p) \/ Scontrol(p) \/ Show(p)
           \/ Write(p) \/ Kill(p)
    PROVE  OrdinaryStep(p)
<1> DEFINE j == job[p]
           rec == copy[p][j]
<1>1. pc[p] \in SinglePCs /\ pc[p] # "commit"
  BY DEF RejectSpec, Squeue, Sacct, Scontrol, Show, Write, Kill, SinglePCs
<1>2. /\ j \in Jobs /\ rec \in Records /\ rec # NoRecord
      /\ Truth(j, rec, sched[j], killed[j], hasty[j]) /\ sched[j] \in SchedStates
  BY <1>1, SingleCopy
<1>3. {"sacct", "scontrol", "write", "killwrite"} \subseteq PCs \ {"launch", "commit", "show"}
  BY DEF PCs
<1>4. CASE RejectSpec(p)
  BY <1>4, ReturnOrdinary DEF RejectSpec, files, jobs
<1>5. CASE Write(p)
  BY <1>2, <1>5, ReturnOrdinary DEF Write, Submitting
<1>6. CASE Squeue(p)
  <2>1. PICK a \in SqueueReports(sched[j], Faults) :
          Keep(p, j, ApplyState(rec, a), IF a = "" THEN "sacct" ELSE "write")
    BY <1>6 DEF Squeue
  <2>2. /\ Truth(j, ApplyState(rec, a), sched[j], killed[j], hasty[j])
        /\ ApplyState(rec, a).sid = rec.sid
    BY <1>2, SqueueTruth
  <2>3. UNCHANGED <<files, sched, killed, hasty>> /\ ~Submitting(p)
    BY <1>6 DEF Squeue, jobs, Submitting
  <2> HIDE DEF rec, j
  <2> QED
    BY <1>2, <1>3, <2>1, <2>2, <2>3, KeepOrdinary DEF rec, j
<1>7. CASE Sacct(p)
  <2>1. PICK row \in SacctRows(sched[j], Faults) :
          Keep(p, j, ApplyRow(rec, row), IF row.state = "" THEN "scontrol" ELSE "write")
    BY <1>7 DEF Sacct
  <2>2. /\ Truth(j, ApplyRow(rec, row), sched[j], killed[j], hasty[j])
        /\ ApplyRow(rec, row).sid = rec.sid
    BY <1>2, RowTruth DEF SacctRows
  <2>3. UNCHANGED <<files, sched, killed, hasty>> /\ ~Submitting(p)
    BY <1>7 DEF Sacct, jobs, Submitting
  <2> QED
    BY <1>2, <1>3, <2>1, <2>2, <2>3, KeepOrdinary
<1>8. CASE Scontrol(p)
  <2>1. PICK row \in AccountingRows(sched[j], Faults) : Keep(p, j, ApplyRow(rec, row), "write")
    BY <1>8 DEF Scontrol
  <2>2. /\ Truth(j, ApplyRow(rec, row), sched[j], killed[j], hasty[j])
        /\ ApplyRow(rec, row).sid = rec.sid
    BY <1>2, RowTruth
  <2>3. UNCHANGED <<files, sched, killed, hasty>> /\ ~Submitting(p)
    BY <1>8 DEF Scontrol, jobs, Submitting
  <2> QED
    BY <1>2, <1>3, <2>1, <2>2, <2>3, KeepOrdinary
<1>9. CASE Show(p)
  <2>1. CASE Return(p) /\ UNCHANGED hasty
    BY <1>1, <1>9, <2>1, ReturnOrdinary DEF Show, files, jobs
  <2>2. CASE ~(Return(p) /\ UNCHANGED hasty)
    <3>1. PICK o \in Answers(j) : Keep(p, j, ApplyShow(rec, o, "inference" \in Gates), "write")
      BY <1>9, <2>2 DEF Show
    <3>2. j \in Direct /\ Answered(j) /\ UNCHANGED <<files, sched, killed>> /\ ~Submitting(p)
      BY <1>9, <2>2 DEF Show, Submitting, IInv
    <3>3. /\ Truth(j, ApplyShow(rec, o, "inference" \in Gates), sched[j], killed'[j], hasty'[j])
          /\ ApplyShow(rec, o, "inference" \in Gates).sid = rec.sid
          /\ \A k \in Jobs : hasty[k] => hasty'[k]
      BY <1>2, <3>1, <3>2, AnswerTruth DEF IInv, TInv
    <3> QED
      BY <1>2, <1>3, <3>1, <3>2, <3>3, KeepOrdinary
  <2> QED
    BY <2>1, <2>2
<1>10. CASE Kill(p)
  <2>1. PICK state \in {"canceled", "failed"} :
          /\ Keep(p, j, [rec EXCEPT !.state = state], "killwrite")
          /\ state = "canceled" => killed' = [killed EXCEPT ![j] = TRUE]
    BY <1>10 DEF Kill
  <2>2. killed' = killed \/ killed' = [killed EXCEPT ![j] = TRUE]
    BY <1>10 DEF Kill
  <2>3. state = "canceled" => killed'[j]
    BY <1>2, <2>1 DEF IInv, TInv, RestOK
  <2>4. /\ \A k \in Jobs : (killed[k] => killed'[k]) /\ (hasty[k] => hasty'[k])
        /\ hasty' = hasty
    BY <1>10, <2>2 DEF Kill, IInv, TInv, RestOK
  <2>5. state = "failed" /\ HonestCommands => killed'[j] \/ sched[j] \notin LiveStates
    <3>1. [rec EXCEPT !.state = state].state = state
      BY <1>2 DEF Records
    <3>2. copy'[p][j] = [rec EXCEPT !.state = state]
      BY <1>2, <2>1 DEF Keep, IInv, TInv, HandlerOK
    <3>3. killed' = [killed EXCEPT ![j] = TRUE] => killed'[j]
      BY <1>2 DEF IInv, TInv, RestOK
    <3> QED
      BY <1>10, <3>3 DEF Kill, HonestCommands
  <2>6. /\ Truth(j, [rec EXCEPT !.state = state], sched[j], killed'[j], hasty'[j])
        /\ [rec EXCEPT !.state = state].sid = rec.sid
    BY <1>2, <2>3, <2>4, <2>5 DEF Truth, Records
  <2>7. UNCHANGED <<files, sched>> /\ ~Submitting(p)
    BY <1>10 DEF Kill, Submitting
  <2> QED
    BY <1>2, <1>3, <2>1, <2>4, <2>6, <2>7, KeepOrdinary
<1> QED
  BY <1>4, <1>5, <1>6, <1>7, <1>8, <1>9, <1>10

LEMMA NextDirectOrdinary ==
    ASSUME IInv, NEW p \in Procs, pc[p] \in {"bshow", "bshowwrite"}, NEW j \in todo[p],
           NextDirect(p, j), UNCHANGED <<drain, acked, jobs>>,
           UNCHANGED ledger \/ WriteRecord(p, j)
    PROVE  OrdinaryStep(p)
<1>1. j \in Jobs /\ copy[p][j] # NoRecord
  BY RecordFacts DEF IInv, TInv, HandlerOK, Locals
<1>2. CASE Return(p)
  BY <1>1, <1>2, ReturnOrdinary DEF Submitting
<1>3. CASE ~Return(p)
  <2>1. /\ pc' = [pc EXCEPT ![p] = IF todo[p] = {j} THEN "bsqueue" ELSE "bshow"]
        /\ copy' = [copy EXCEPT ![p][j] = NoRecord] /\ job' = job
    BY <1>3 DEF NextDirect, Goto
  <2>2. {"bshow", "bsqueue"} \subseteq PCs \ {"launch", "commit", "show"}
    BY DEF PCs
  <2> QED
    BY <1>1, <2>1, <2>2, DropOrdinary
<1> QED
  BY <1>2, <1>3

LEMMA BulkOrdinary ==
    ASSUME IInv, NEW p \in Procs,
           \/ BulkShow(p) \/ BulkShowWrite(p)
           \/ BulkSqueue(p) \/ BulkSacct(p) \/ BulkWrite(p)
    PROVE  OrdinaryStep(p)
<1>1. /\ pc[p] \in {"bshow", "bshowwrite", "bsqueue", "bsacct", "bwrite"}
      /\ pc[p] \notin {"launch", "commit"} /\ ~Submitting(p)
      /\ out[p] \subseteq Jobs \ Direct /\ \A j \in out[p] : copy[p][j] \in Records
  BY DEF BulkShow, BulkShowWrite, BulkSqueue, BulkSacct, BulkWrite, IInv, TInv, HandlerOK,
         Locals, Submitting
<1>2. {"bshowwrite", "bwrite", "bsacct"} \subseteq PCs \ {"launch", "commit", "show"}
  BY DEF PCs
<1>3. CASE BulkShow(p)
  <2>1. PICK j \in todo[p] :
          \/ /\ \E o \in Answers(j) :
                   Keep(p, j, ApplyShow(copy[p][j], o, "inference" \in Gates), "bshowwrite")
             /\ Answered(j)
          \/ NextDirect(p, j) /\ UNCHANGED hasty
    BY <1>3 DEF BulkShow
  <2>2. /\ j \in Direct /\ j \in Jobs /\ copy[p][j] \in Records /\ copy[p][j] # NoRecord
        /\ Truth(j, copy[p][j], sched[j], killed[j], hasty[j])
        /\ sched[j] \in SchedStates
    BY <1>3, RecordFacts DEF BulkShow, IInv, TInv, HandlerOK, RestOK, Locals, Truthful
  <2>3. CASE NextDirect(p, j) /\ UNCHANGED hasty
    BY <1>3, <2>3, NextDirectOrdinary DEF BulkShow, files, jobs
  <2>4. ASSUME NEW o \in Answers(j), Answered(j),
               Keep(p, j, ApplyShow(copy[p][j], o, "inference" \in Gates), "bshowwrite")
        PROVE  OrdinaryStep(p)
    <3>1. UNCHANGED <<files, sched, killed>>
      BY <1>3 DEF BulkShow
    <3>2. /\ Truth(j, ApplyShow(copy[p][j], o, "inference" \in Gates),
                   sched[j], killed'[j], hasty'[j])
          /\ ApplyShow(copy[p][j], o, "inference" \in Gates).sid = copy[p][j].sid
          /\ \A k \in Jobs : hasty[k] => hasty'[k]
      BY <2>2, <2>4, <3>1, AnswerTruth DEF IInv, TInv
    <3> QED
      BY <1>1, <1>2, <2>2, <2>4, <3>1, <3>2, KeepOrdinary
  <2> QED
    BY <2>1, <2>3, <2>4
<1>4. CASE BulkShowWrite(p)
  BY <1>4, NextDirectOrdinary DEF BulkShowWrite
<1>5. CASE BulkSqueue(p)
  <2>1. CASE Return(p)
    BY <1>1, <1>5, <2>1, ReturnOrdinary DEF BulkSqueue, files
  <2>2. CASE ~Return(p)
    <3>1. PICK answer \in [out[p] -> SlurmStates] :
            /\ \A j \in out[p] : answer[j] \in SqueueReports(sched[j], Faults \ {"query_error"})
            /\ \E label \in {"bwrite", "bsacct"} : Goto(p, label)
            /\ copy' = [copy EXCEPT ![p] = [j \in Jobs |->
                          IF j \in out[p] THEN ApplyState(copy[p][j], answer[j]) ELSE NoRecord]]
            /\ UNCHANGED <<server, job, out, stale>>
      BY <1>5, <2>2 DEF BulkSqueue
    <3>2. \A k \in Jobs : copy'[p][k] =
             IF k \in out[p] THEN ApplyState(copy[p][k], answer[k]) ELSE NoRecord
      BY <3>1 DEF IInv, TInv, HandlerOK
    <3>3. /\ pc'[p] \in {"bwrite", "bsacct"} /\ job' = job
          /\ \A q \in Procs \ {p} : pc'[q] = pc[q] /\ copy'[q] = copy[q]
      BY <3>1 DEF IInv, TInv, HandlerOK, Goto
    <3>4. \A k \in out[p] :
             /\ Truth(k, ApplyState(copy[p][k], answer[k]), sched[k], killed[k], hasty[k])
             /\ ApplyState(copy[p][k], answer[k]).sid = copy[p][k].sid
             /\ Exists(k) /\ (Slurm(k) => copy[p][k].sid /\ ledger[k].sid)
      <4> SUFFICES ASSUME NEW k \in out[p]
                   PROVE  /\ Truth(k, ApplyState(copy[p][k], answer[k]),
                                   sched[k], killed[k], hasty[k])
                          /\ ApplyState(copy[p][k], answer[k]).sid = copy[p][k].sid
                          /\ Exists(k) /\ (Slurm(k) => copy[p][k].sid /\ ledger[k].sid)
        OBVIOUS
      <4>1. k \in Jobs /\ copy[p][k] \in Records /\ copy[p][k] # NoRecord
        BY <1>1, RecordFacts
      <4>2. Truth(k, copy[p][k], sched[k], killed[k], hasty[k])
        BY <4>1 DEF IInv, Truthful
      <4> QED
        BY <1>1, <3>1, <4>1, <4>2, SqueueTruth DEF IInv, Held
    <3>5. sched' = sched /\ killed' = killed /\ hasty' = hasty /\ ledger' = ledger /\ acked' = acked
      BY <1>5 DEF BulkSqueue, files, jobs
    <3> QED
      BY <1>1, <3>2, <3>3, <3>4, <3>5 DEF OrdinaryStep
  <2> QED
    BY <2>1, <2>2
<1>6. CASE BulkSacct(p)
  <2>1. PICK j \in todo[p] : \E row \in SacctRows(sched[j], Faults) :
          copy' = [copy EXCEPT ![p][j] = ApplyRow(copy[p][j], row)]
    BY <1>6 DEF BulkSacct
  <2>2. PICK row \in SacctRows(sched[j], Faults) :
          copy' = [copy EXCEPT ![p][j] = ApplyRow(copy[p][j], row)]
    BY <2>1
  <2>3. PICK label \in {"bwrite", "bsacct"} : Goto(p, label)
    BY <1>6 DEF BulkSacct
  <2>4. UNCHANGED <<files, sched, job, killed, hasty>>
    BY <1>6 DEF BulkSacct, jobs
  <2>5. j \in Jobs /\ copy[p][j] \in Records /\ copy[p][j] # NoRecord
    BY <1>1, <1>6, RecordFacts DEF BulkSacct, IInv, TInv, HandlerOK, Locals
  <2>6. Truth(j, copy[p][j], sched[j], killed[j], hasty[j]) /\ sched[j] \in SchedStates
    BY <2>5 DEF IInv, Truthful, TInv, RestOK
  <2>7. /\ Truth(j, ApplyRow(copy[p][j], row), sched[j], killed'[j], hasty'[j])
        /\ ApplyRow(copy[p][j], row).sid = copy[p][j].sid
    BY <2>4, <2>5, <2>6, RowTruth DEF SacctRows
  <2> QED
    BY <1>1, <1>2, <2>2, <2>3, <2>4, <2>5, <2>7, UpdateOrdinary
<1>7. CASE BulkWrite(p)
  <2>1. PICK j \in out[p] :
          /\ WriteRecord(p, j)
          /\ \/ Return(p)
             \/ copy' = [copy EXCEPT ![p][j] = NoRecord] /\ UNCHANGED <<pc, job>>
          /\ UNCHANGED <<drain, acked, jobs>>
    BY <1>7 DEF BulkWrite
  <2>2. j \in Jobs /\ copy[p][j] # NoRecord
    BY <1>1, RecordFacts
  <2>3. CASE Return(p)
    BY <1>1, <2>1, <2>2, <2>3, ReturnOrdinary
  <2>4. CASE ~Return(p)
    <3>1. pc' = [pc EXCEPT ![p] = "bwrite"]
      BY <1>7, <2>1, <2>4 DEF BulkWrite, IInv, TInv, HandlerOK
    <3> QED
      BY <1>1, <1>2, <2>1, <2>2, <2>4, <3>1, DropOrdinary
  <2> QED
    BY <2>3, <2>4
<1> QED
  BY <1>3, <1>4, <1>5, <1>6, <1>7

LEMMA RequestOrdinary ==
    ASSUME IInv, NEW p \in Procs, Request(p), \A j \in Jobs : ~Plan(p, j)
    PROVE  OrdinaryStep(p)
<1>1. ASSUME NEW j \in Jobs, Get(p, j) PROVE OrdinaryStep(p)
  <2>1. {"squeue", "show"} \subseteq PCs \ {"launch", "commit"}
    BY DEF PCs
  <2>2. Slurm(j) <=> j \notin Direct
    BY DEF Slurm
  <2> QED
    BY <1>1, <2>1, <2>2, TakeUpOrdinary DEF Get, Idle
<1>2. ASSUME NEW j \in Jobs, Cancel(p, j) PROVE OrdinaryStep(p)
  BY <1>2, TakeUpOrdinary DEF Cancel, Idle, PCs
<1>3. CASE List(p)
  BY <1>3, StartBulkOrdinary DEF List, Idle, Submitting
<1>4. CASE SetDrain(p)
  <2>1. /\ pc[p] = "idle" /\ pc'[p] \in {"drain_on", "drain_off"}
        /\ \A q \in Procs \ {p} : pc'[q] = pc[q]
        /\ UNCHANGED <<ledger, acked, sched, killed, hasty, job, copy>>
    BY <1>4 DEF SetDrain, Idle, Goto, jobs, IInv, TInv, HandlerOK
  <2>2. \A k \in Jobs : copy[p][k] # NoRecord =>
           Exists(k) /\ (Slurm(k) => copy[p][k].sid /\ ledger[k].sid)
    BY <2>1 DEF IInv, Held, Submitting
  <2>3. \A k \in Jobs : Truth(k, copy'[p][k], sched'[k], killed'[k], hasty'[k])
    BY <2>1 DEF IInv, Truthful
  <2> QED
    BY <2>1, <2>2, <2>3 DEF OrdinaryStep, Submitting
<1> QED
  BY <1>1, <1>2, <1>3, <1>4 DEF Request

-----------------------------------------------------------------------------
(* The other steps: a submission, a crash, a step of a scheduler.          *)

LEMMA PlanInv ==
    ASSUME IInv, TInv', NEW p \in Procs, NEW j \in Jobs, Plan(p, j)
    PROVE  IInv'
<1>1. PICK state \in {"blocked", "accepted"}, label \in {"launch", "commit"} :
        /\ TakeUp(p, j, NewRecord(state), label)
        /\ label = "launch" => state = "accepted"
  BY DEF Plan, SlurmPlans, DirectPlans
<1>2. p \in Workers /\ pc[p] = "idle" /\ Fresh(j) /\ UNCHANGED <<files, jobs>>
  BY DEF Plan, Idle
<1>3. /\ pc'[p] = label /\ job'[p] = j
      /\ \A k \in Jobs : copy'[p][k] = IF k = j THEN NewRecord(state) ELSE NoRecord
      /\ \A q \in Procs \ {p} : pc'[q] = pc[q] /\ job'[q] = job[q] /\ copy'[q] = copy[q]
      /\ UNCHANGED <<ledger, acked, sched, killed, hasty>>
  BY <1>1, <1>2 DEF TakeUp, Goto, Nothing, IInv, TInv, HandlerOK, files, jobs
<1>4. sched[j] = "NONE" /\ ~Exists(j) /\ \A q \in Procs : job[q] # j
  BY <1>2 DEF Fresh
<1>5. NewRecord(state).state = state /\ NewRecord(state).sid = FALSE
  BY DEF NewRecord
<1>6. Truthful'
  <2>1. Truth(j, NewRecord(state), sched[j], killed[j], hasty[j])
    BY <1>4, <1>5 DEF Truth
  <2> QED
    BY <1>3, <2>1, NoRecordFacts DEF IInv, Truthful
<1>7. \A q \in Procs : Owned(q)' /\ Held(q)'
  BY <1>1, <1>3, <1>4, <1>5 DEF IInv, Owned, Held, Submitting, Exists
<1>8. AcknowledgedIsTracked' /\ ~Submitting(Boot)'
  BY <1>2, <1>3, BootAssumption DEF IInv, AcknowledgedIsTracked, Exists, Submitting, Procs
<1> QED
  BY <1>1, <1>3, <1>6, <1>7, <1>8 DEF IInv

LEMMA LaunchInv ==
    ASSUME IInv, TInv', NEW p \in Procs, Launch(p)
    PROVE  IInv'
<1> DEFINE j == job[p]
           rec == copy[p][j]
<1>1. pc[p] = "launch" /\ pc[p] \in SinglePCs /\ Submitting(p)
  BY DEF Launch, Submitting, SinglePCs
<1>2. j \in Jobs /\ rec \in Records /\ rec # NoRecord
  BY <1>1, SingleCopy
<1>3. /\ ~Exists(j) /\ sched[j] = "NONE" /\ rec.state = "accepted"
      /\ \A q \in Procs \ {p} : Submitting(q) => job[q] # j
  BY <1>1 DEF IInv, Owned
<1>4. PICK r \in Records :
        /\ copy' = [copy EXCEPT ![p][j] = r] /\ pc' = [pc EXCEPT ![p] = "commit"] /\ job' = job
        /\ \/ r.state = "submitted" /\ r.sid = Slurm(j)
           \/ r.state = "failed" /\ (sched' = sched \/ "launch_timeout" \in Faults)
  <2>1. Slurm(j) \in BOOLEAN
    BY DEF Slurm
  <2>2. /\ [rec EXCEPT !.state = "submitted", !.sid = Slurm(j)] \in Records
        /\ [rec EXCEPT !.state = "submitted", !.sid = Slurm(j)].state = "submitted"
        /\ [rec EXCEPT !.state = "submitted", !.sid = Slurm(j)].sid = Slurm(j)
        /\ [rec EXCEPT !.state = "failed"] \in Records
        /\ [rec EXCEPT !.state = "failed"].state = "failed"
    BY <1>2, <2>1 DEF Records, JobStateNames
  <2> QED
    BY <2>2 DEF Launch, Keep, Goto
<1>5. /\ pc'[p] = "commit" /\ job'[p] = j
      /\ \A k \in Jobs : copy'[p][k] = IF k = j THEN r ELSE copy[p][k]
      /\ \A q \in Procs \ {p} : pc'[q] = pc[q] /\ job'[q] = job[q] /\ copy'[q] = copy[q]
      /\ UNCHANGED <<ledger, acked, killed, hasty>>
  BY <1>2, <1>4 DEF Launch, IInv, TInv, HandlerOK, files
<1>6. \A k \in Jobs : k # j => sched'[k] = sched[k]
  BY DEF Launch, IInv, TInv, RestOK
<1>7. ledger[j] = NoRecord /\ \A q \in Procs \ {p} : copy[q][j] = NoRecord
  BY <1>2, <1>3 DEF Exists, IInv, Held
<1>8. Truthful'
  <2>1. Truth(j, r, sched'[j], killed'[j], hasty'[j])
    BY <1>3, <1>4 DEF Truth, HonestCommands, LiveStates
  <2>2. \A k \in Jobs : Truth(k, ledger'[k], sched'[k], killed'[k], hasty'[k])
    BY <1>5, <1>6, <1>7, NoRecordFacts DEF IInv, Truthful
  <2>3. \A k \in Jobs, q \in Procs : Truth(k, copy'[q][k], sched'[k], killed'[k], hasty'[k])
    BY <1>5, <1>6, <1>7, <2>1, NoRecordFacts DEF IInv, Truthful
  <2> QED
    BY <2>2, <2>3 DEF Truthful
<1>9. \A q \in Procs : Owned(q)'
  <2>1. \A q \in Procs : Submitting(q) => job[q] \in Jobs
    BY SingleCopy DEF Submitting, SinglePCs
  <2>2. ASSUME NEW q \in Procs, q # p PROVE Owned(q)'
    BY <1>1, <1>3, <1>5, <1>6, <2>1, <2>2 DEF IInv, Owned, Submitting, Exists
  <2>3. Owned(p)'
    BY <1>2, <1>3, <1>4, <1>5 DEF Owned, Submitting, Exists, IInv
  <2> QED
    BY <2>2, <2>3
<1>10. \A q \in Procs : Held(q)'
  BY <1>1, <1>5 DEF IInv, Held, Submitting, Exists
<1>11. AcknowledgedIsTracked' /\ ~Submitting(Boot)'
  BY <1>1, <1>5 DEF IInv, AcknowledgedIsTracked, Exists, Submitting, Procs
<1> QED
  BY <1>5, <1>8, <1>9, <1>10, <1>11 DEF IInv

LEMMA CommitInv ==
    ASSUME IInv, TInv', NEW p \in Procs, Commit(p)
    PROVE  IInv'
<1> DEFINE j == job[p]
           rec == copy[p][j]
<1>1. pc[p] = "commit" /\ pc[p] \in SinglePCs /\ Submitting(p)
  BY DEF Commit, Submitting, SinglePCs
<1>2. /\ j \in Jobs /\ rec \in Records /\ rec # NoRecord
      /\ Truth(j, rec, sched[j], killed[j], hasty[j])
  BY <1>1, SingleCopy
<1>3. /\ ~Exists(j)
      /\ \A q \in Procs \ {p} : Submitting(q) => job[q] # j
      /\ Slurm(j) /\ rec.state = "submitted" => rec.sid
  BY <1>1 DEF IInv, Owned
<1>4. \A q \in Procs \ {p} : copy[q][j] = NoRecord
  BY <1>2, <1>3 DEF IInv, Held
<1>5. /\ pc'[p] = "idle" /\ \A k \in Jobs : copy'[p][k] = NoRecord
      /\ \A q \in Procs \ {p} : pc'[q] = pc[q] /\ job'[q] = job[q] /\ copy'[q] = copy[q]
      /\ UNCHANGED <<sched, killed, hasty>>
  BY DEF Commit, Return, Goto, IInv, TInv, HandlerOK, Nothing, jobs
<1>6. \A k \in Jobs : ledger'[k] = IF k = j THEN rec ELSE ledger[k]
  BY DEF Commit, WriteRecord, IInv, TInv, RestOK
<1>7. /\ acked' \subseteq acked \cup {j}
      /\ j \in acked' /\ j \notin acked /\ Slurm(j) /\ "exec" \in Gates =>
            rec.state \in {"submitted", "blocked"}
  BY DEF Commit
<1>8. Truthful'
  BY <1>2, <1>5, <1>6, NoRecordFacts DEF IInv, Truthful
<1>9. \A q \in Procs : Owned(q)'
  <2>1. \A q \in Procs : Submitting(q) => job[q] \in Jobs
    BY SingleCopy DEF Submitting, SinglePCs
  <2> QED
    BY <1>3, <1>5, <1>6, <2>1 DEF IInv, Owned, Submitting, Exists
<1>10. \A q \in Procs : Held(q)'
  BY <1>2, <1>4, <1>5, <1>6 DEF IInv, Held, Submitting, Exists
<1>11. AcknowledgedIsTracked'
  <2>1. \A k \in acked : k \in Jobs /\ Exists(k)
    BY DEF IInv, TInv, RestOK, AcknowledgedIsTracked
  <2>2. j \notin acked
    BY <1>3, <2>1
  <2> QED
    BY <1>2, <1>3, <1>6, <1>7, <2>1, <2>2 DEF IInv, AcknowledgedIsTracked, Exists
<1>12. \A q \in Procs : (pc[q] = "show" => job[q] \in Direct)' /\ ~Submitting(Boot)'
  BY <1>5 DEF IInv, Submitting, Procs
<1> QED
  BY <1>8, <1>9, <1>10, <1>11, <1>12 DEF IInv, Procs

LEMMA CrashInv == IInv /\ TInv' /\ Crash => IInv'
<1> SUFFICES ASSUME IInv, TInv', Crash PROVE IInv'
  OBVIOUS
<1>1. /\ \A p \in Procs : pc'[p] = "idle" /\ \A k \in Jobs : copy'[p][k] = NoRecord
      /\ UNCHANGED <<ledger, acked, sched, killed, hasty>>
  BY DEF Crash, ForgetHandlers, Nothing, files, jobs
<1>2. Truthful'
  BY <1>1, NoRecordFacts DEF IInv, Truthful
<1> QED
  BY <1>1, <1>2 DEF IInv, Owned, Held, Submitting, AcknowledgedIsTracked, Exists, Procs

\* Only the server's own state changes, or nothing.
LEMMA QuietInv == IInv /\ TInv' /\ UNCHANGED <<files, jobs, handler, stale>> => IInv'
BY DEF IInv, Truthful, Owned, Held, Submitting, AcknowledgedIsTracked, Exists, files, jobs, handler

LEMMA SchedInv ==
    ASSUME IInv, TInv', NEW j \in Jobs, SchedStep(j)
    PROVE  IInv'
<1>1. PICK s : s # "NONE"
        /\ sched[j] \in LiveStates /\ sched' = [sched EXCEPT ![j] = s]
        /\ UNCHANGED <<ledger, acked, killed, hasty, pc, job, copy>>
  BY DEF SchedStep, SchedStart, SchedEnd, SchedCancel, LiveStates, SchedStates, EndStates,
         files, handler
<1>2. \A k \in Jobs : \/ sched'[k] = sched[k]
                      \/ sched[k] \in LiveStates /\ sched'[k] # "NONE"
  <2>1. DOMAIN sched = Jobs
    BY DEF IInv, TInv, RestOK
  <2>2. \A k \in Jobs : sched'[k] = IF k = j THEN s ELSE sched[k]
    BY <1>1, <2>1
  <2>3. s # "NONE" /\ sched[j] \in LiveStates
    BY <1>1
  <2> QED
    BY <2>2, <2>3
<1>3. \A k \in Jobs : \A r : Truth(k, r, sched[k], killed[k], hasty[k])
                          => Truth(k, r, sched'[k], killed'[k], hasty'[k])
  <2>1. \A k \in Jobs : \A r : sched[k] \in LiveStates /\ Truth(k, r, sched[k], killed[k], hasty[k])
                               => Truth(k, r, sched'[k], killed[k], hasty[k])
    BY DEF Truth, LiveStates
  <2> QED
    BY <1>1, <1>2, <2>1
<1>4. Truthful'
  BY <1>1, <1>3 DEF IInv, Truthful
<1>5. \A k \in Jobs : sched'[k] = "NONE" <=> sched[k] = "NONE"
  BY <1>2 DEF LiveStates
<1>6. \A p \in Procs : Submitting(p) => job[p] \in Jobs
  BY SingleCopy DEF Submitting, SinglePCs
<1>7. \A p \in Procs : Owned(p)' /\ Held(p)'
  BY <1>1, <1>5, <1>6 DEF IInv, Owned, Held, Submitting, Exists
<1>8. AcknowledgedIsTracked'
  BY <1>1 DEF IInv, AcknowledgedIsTracked, Exists
<1> QED
  BY <1>1, <1>4, <1>7, <1>8 DEF IInv, Submitting

-----------------------------------------------------------------------------
(* The invariant, and what it says.                                        *)

LEMMA InitInv == Init => IInv
<1> SUFFICES ASSUME Init PROVE IInv
  OBVIOUS
<1>1. /\ \A p \in Procs : pc[p] = "idle" /\ \A k \in Jobs : copy[p][k] = NoRecord
      /\ \A k \in Jobs : ledger[k] = NoRecord /\ sched[k] = "NONE"
      /\ acked = {}
  BY DEF Init, Nothing
<1>2. Truthful
  BY <1>1, NoRecordFacts DEF Truthful
<1> QED
  BY <1>1, <1>2, InitTInv DEF IInv, Owned, Held, Submitting, AcknowledgedIsTracked,
                              Exists, Procs

\* Every step is an ordinary one, or one of those above.
LEMMA StepKinds ==
    ASSUME IInv, Next
    PROVE  \/ \E p \in Procs : OrdinaryStep(p)
           \/ \E p \in Procs, j \in Jobs : Plan(p, j)
           \/ \E p \in Procs : Launch(p) \/ Commit(p)
           \/ \E j \in Jobs : SchedStep(j)
           \/ Crash
           \/ UNCHANGED <<files, jobs, handler, stale>>
<1>1. ASSUME NEW p \in Procs, Continue(p)
      PROVE  OrdinaryStep(p) \/ Launch(p) \/ Commit(p)
  <2>1. CASE WriteDrain(p)
    <3>1. pc[p] # "commit" /\ Return(p) /\ UNCHANGED <<ledger, acked, jobs>>
      BY <2>1 DEF WriteDrain
    <3> QED
      BY <3>1, ReturnOrdinary
  <2>2. CASE ~WriteDrain(p) /\ ~Launch(p) /\ ~Commit(p)
    BY <1>1, <2>2, SingleOrdinary, BulkOrdinary DEF Continue
  <2> QED
    BY <2>1, <2>2
<1>2. CASE Restart
  <2>1. CASE Reconciling
    <3>1. Boot \in Procs /\ ~Submitting(Boot)
      BY DEF IInv, Procs
    <3> QED
      BY <1>2, <2>1, <3>1, StartBulkOrdinary DEF Restart
  <2> QED
    BY <1>2, <2>1 DEF Restart
<1> QED
  BY <1>1, <1>2, RequestOrdinary DEF Next

LEMMA NextInv == IInv /\ [Next]_vars => IInv'
<1> SUFFICES ASSUME IInv, [Next]_vars PROVE IInv'
  OBVIOUS
<1>1. TInv'
  BY NextTInv DEF IInv
<1>2. CASE Next
  BY <1>1, <1>2, StepKinds, OrdinaryInv, PlanInv, LaunchInv, CommitInv, SchedInv, CrashInv, QuietInv
<1>3. CASE UNCHANGED vars
  BY <1>1, <1>3, QuietInv DEF vars
<1> QED
  BY <1>2, <1>3

THEOREM AlwaysInv == Spec => []IInv
BY InitInv, NextInv, PTL DEF Spec

\* An acknowledged submission is on disk for good, with the scheduler id if it was run.
THEOREM AcknowledgedAlwaysTracked == Spec => []AcknowledgedIsTracked
<1>1. IInv => AcknowledgedIsTracked
  BY DEF IInv
<1> QED
  BY <1>1, AlwaysInv, PTL

\* A Slurm job recorded as succeeded completed with exit code 0.
THEOREM SuccessAlwaysReal == Spec => []SuccessIsReal
<1>1. IInv => SuccessIsReal
  BY DEF IInv, Truthful, Truth, SuccessIsReal, Slurm
<1> QED
  BY <1>1, AlwaysInv, PTL

\* A canceled job was told to stop, or stopped.
THEOREM CanceledAlwaysKilled == Spec => []CanceledWasKilled
<1>1. IInv => CanceledWasKilled
  BY DEF IInv, Truthful, Truth, CanceledWasKilled
<1> QED
  BY <1>1, AlwaysInv, PTL

\* A submission that was not admitted is never executed.
THEOREM BlockedNeverExecuted == Spec => []BlockedNeverRuns
<1>1. IInv => BlockedNeverRuns
  BY DEF IInv, Truthful, Truth, BlockedNeverRuns
<1> QED
  BY <1>1, AlwaysInv, PTL

\* While the queries get through, a direct job that is not over is recorded as succeeded only
\* if its unit was asked about before it started or may have been told to stop.
THEOREM DirectSuccessAlwaysExplained == Spec => []DirectSuccessExplained
<1>1. IInv => DirectSuccessExplained
  BY JobsAssumption DEF IInv, Truthful, Truth, DirectSuccessExplained, Stoppable
<1> QED
  BY <1>1, AlwaysInv, PTL

-----------------------------------------------------------------------------
(* No step of a handler loses a scheduler id: what it writes is a copy of  *)
(* a record that has one, or the first record of its job.                  *)

IdsKept == \A j \in Jobs : Exists(j) =>
               Exists(j)' /\ (Slurm(j) => ledger'[j].sid = ledger[j].sid)

LEMMA OrdinaryKeepsIds ==
    ASSUME IInv, NEW p \in Procs, OrdinaryStep(p)
    PROVE  IdsKept
<1> SUFFICES ASSUME NEW j \in Jobs, Exists(j)
             PROVE  Exists(j)' /\ (Slurm(j) => ledger'[j].sid = ledger[j].sid)
  BY DEF IdsKept
<1>1. CASE ledger'[j] = ledger[j]
  BY <1>1 DEF Exists
<1>2. CASE ~Submitting(p) /\ copy[p][j] # NoRecord /\ ledger'[j] = copy[p][j]
  <2>1. Slurm(j) => copy[p][j].sid /\ ledger[j].sid
    BY <1>2 DEF IInv, Held
  <2>2. copy[p][j] \in Records /\ ledger[j] \in Records
    BY <1>2, RecordFacts DEF IInv, TInv, HandlerOK, RestOK, Exists
  <2>3. copy[p][j].sid \in BOOLEAN /\ ledger[j].sid \in BOOLEAN
    BY <2>2 DEF Records
  <2> QED
    BY <1>2, <2>1, <2>3 DEF Exists
<1> QED
  BY <1>1, <1>2 DEF OrdinaryStep

\* A step that is not ordinary writes no record, or the first one of its job.
LEMMA OtherStepsWriteNew ==
    ASSUME IInv, Next, \A p \in Procs : ~OrdinaryStep(p), NEW j \in Jobs, Exists(j)
    PROVE  ledger'[j] = ledger[j]
<1>1. CASE UNCHANGED ledger
  BY <1>1
<1>2. ASSUME NEW p \in Procs, Commit(p) PROVE ledger'[j] = ledger[j]
  <2>1. pc[p] = "commit" /\ \A k \in Jobs : k # job[p] => ledger'[k] = ledger[k]
    BY <1>2 DEF Commit, WriteRecord, IInv, TInv, RestOK
  <2>2. ~Exists(job[p])
    BY <2>1 DEF IInv, Owned, Submitting
  <2> QED
    BY <2>1, <2>2
<1> QED
  BY <1>1, <1>2, StepKinds DEF Plan, Launch, SchedStep, Crash, files

LEMMA NextKeepsIds == IInv /\ [Next]_vars => IdsKept
<1> SUFFICES ASSUME IInv, [Next]_vars PROVE IdsKept
  OBVIOUS
<1>1. CASE UNCHANGED vars
  BY <1>1 DEF IdsKept, Exists, vars, files
<1>2. CASE Next /\ \A p \in Procs : ~OrdinaryStep(p)
  BY <1>2, OtherStepsWriteNew DEF IdsKept, Exists
<1> QED
  BY <1>1, <1>2, OrdinaryKeepsIds

\* No write of a handler, however old its copy, deletes a record or changes whether the
\* record of a Slurm job carries a scheduler id.
THEOREM IdsAlwaysKept == Spec => SchedulerIdKept
<1>1. IInv /\ [Next]_vars => [IdsKept]_vars
  BY NextKeepsIds
<1> QED
  BY <1>1, AlwaysInv, PTL DEF Spec, SchedulerIdKept, IdsKept

\* A Slurm record without a scheduler id is never written again.
LEMMA NextKeepsUnnamed ==
    ASSUME IInv, [Next]_vars, NEW j \in Jobs, Slurm(j), Exists(j), ~ledger[j].sid
    PROVE  ledger'[j] = ledger[j]
<1>1. CASE UNCHANGED vars
  BY <1>1 DEF vars, files
<1>2. ASSUME NEW p \in Procs, OrdinaryStep(p) PROVE ledger'[j] = ledger[j]
  BY <1>2 DEF OrdinaryStep, IInv, Held
<1> QED
  BY <1>1, <1>2, OtherStepsWriteNew

-----------------------------------------------------------------------------
(* How a Slurm job gets lost.                                              *)

\* The submission p holds the scheduler id of j and will write it.
Carries(p, j) == pc[p] = "commit" /\ job[p] = j /\ copy[p][j].sid

LEMMA TrackedFacts ==
    ASSUME NEW j
    PROVE  /\ Tracked(j) <=> (sched[j] # "NONE" => ledger[j].sid \/ \E p \in Procs : Carries(p, j))
           /\ Tracked(j)' <=> (sched'[j] # "NONE" =>
                                  ledger'[j].sid \/ \E p \in Procs : Carries(p, j)')
BY DEF Tracked, Carries

LEMMA LaunchTracks ==
    ASSUME IInv, NEW p \in Procs, Launch(p), NEW j \in Jobs \ Direct, Tracked(j),
           ~(job[p] = j /\ "launch_timeout" \in Faults)
    PROVE  Tracked(j)'
<1>1. /\ pc[p] = "launch" /\ job[p] \in Jobs /\ copy[p][job[p]] \in Records
      /\ pc' = [pc EXCEPT ![p] = "commit"] /\ job' = job /\ ledger' = ledger
  BY SingleCopy DEF Launch, Keep, Goto, SinglePCs, files
<1>2. \A q \in Procs \ {p} : copy'[q] = copy[q] /\ pc'[q] = pc[q]
  BY DEF Launch, Keep, Goto, IInv, TInv, HandlerOK
<1>3. \A q \in Procs : Carries(q, j) => Carries(q, j)'
  BY <1>1, <1>2 DEF Carries
<1>4. CASE sched'[j] = sched[j]
  BY <1>1, <1>3, <1>4, TrackedFacts
<1>5. CASE sched'[j] # sched[j]
  <2>1. job[p] = j
    BY <1>1, <1>5 DEF Launch, IInv, TInv, RestOK
  <2>2. copy' = [copy EXCEPT ![p][j] = [copy[p][j] EXCEPT !.state = "submitted", !.sid = Slurm(j)]]
    BY <1>5, <2>1 DEF Launch, Keep
  <2>3. copy'[p][j].sid = Slurm(j)
    BY <1>1, <2>1, <2>2 DEF IInv, TInv, HandlerOK, Records
  <2>4. pc'[p] = "commit"
    BY <1>1 DEF IInv, TInv, HandlerOK
  <2> QED
    BY <1>1, <2>1, <2>3, <2>4, TrackedFacts DEF Carries, Slurm
<1> QED
  BY <1>4, <1>5

LEMMA CommitTracks ==
    ASSUME IInv, NEW p \in Procs, Commit(p), NEW j \in Jobs \ Direct, Tracked(j)
    PROVE  Tracked(j)'
<1>1. /\ pc[p] = "commit" /\ job[p] \in Jobs /\ sched' = sched
      /\ \A k \in Jobs : ledger'[k] = IF k = job[p] THEN copy[p][k] ELSE ledger[k]
      /\ \A q \in Procs \ {p} : pc'[q] = pc[q] /\ job'[q] = job[q] /\ copy'[q] = copy[q]
  BY SingleCopy DEF Commit, WriteRecord, Return, Goto, SinglePCs, IInv, TInv, HandlerOK, RestOK, jobs
<1>2. Carries(p, j) => ledger'[j].sid
  BY <1>1 DEF Carries
<1>3. ledger[j].sid => ledger'[j].sid
  <2>1. ~Exists(job[p])
    BY <1>1 DEF IInv, Owned, Submitting
  <2> QED
    BY <1>1, <2>1, NoRecordFacts DEF Exists
<1>4. \A q \in Procs : Carries(q, j) => Carries(q, j)' \/ q = p
  BY <1>1 DEF Carries
<1> QED
  BY <1>1, <1>2, <1>3, <1>4, TrackedFacts

\* The two ways in which a tracked job comes to be untracked.
LEMMA LossOfTrack ==
    ASSUME IInv, [Next]_vars, NEW j \in Jobs \ Direct, Tracked(j), ~Tracked(j)'
    PROVE  \E p \in Procs : /\ job[p] = j
                            /\ \/ pc[p] = "commit" /\ Crash
                               \/ pc[p] = "launch" /\ "launch_timeout" \in Faults
<1>1. ASSUME UNCHANGED <<sched, ledger>>, \A p \in Procs : Carries(p, j) => Carries(p, j)'
      PROVE  FALSE
  BY <1>1, TrackedFacts
<1>2. CASE UNCHANGED <<files, jobs, handler, stale>>
  BY <1>1, <1>2 DEF files, jobs, handler, Carries
<1>3. ASSUME NEW p \in Procs, OrdinaryStep(p) PROVE FALSE
  <2>1. ledger[j].sid => ledger'[j].sid
    BY <1>3 DEF OrdinaryStep, IInv, Held, Slurm
  <2>2. \A q \in Procs : Carries(q, j) => Carries(q, j)'
    BY <1>3 DEF OrdinaryStep, Carries
  <2> QED
    BY <1>3, <2>1, <2>2, TrackedFacts DEF OrdinaryStep
<1>4. ASSUME NEW p \in Procs, NEW k \in Jobs, Plan(p, k) PROVE FALSE
  <2>1. pc[p] = "idle" /\ \A q \in Procs \ {p} : pc'[q] = pc[q] /\ job'[q] = job[q] /\ copy'[q] = copy[q]
    BY <1>4 DEF Plan, Idle, TakeUp, Goto, IInv, TInv, HandlerOK
  <2> QED
    BY <1>1, <1>4, <2>1 DEF Plan, files, jobs, Carries
<1>5. ASSUME NEW k \in Jobs, SchedStep(k) PROVE FALSE
  <2>1. sched'[j] = sched[j] \/ sched[j] # "NONE"
    BY <1>5 DEF SchedStep, SchedStart, SchedEnd, SchedCancel, LiveStates, IInv, TInv, RestOK
  <2>2. UNCHANGED <<ledger, pc, job, copy>>
    BY <1>5 DEF SchedStep, files, handler
  <2> QED
    BY <2>1, <2>2, TrackedFacts DEF Carries
<1>6. CASE Crash
  <2>1. UNCHANGED <<sched, ledger>>
    BY <1>6 DEF Crash, files, jobs
  <2>2. \E p \in Procs : Carries(p, j)
    BY <2>1, TrackedFacts
  <2> QED
    BY <1>6, <2>2 DEF Carries
<1>7. ASSUME NEW p \in Procs, Launch(p) PROVE job[p] = j /\ pc[p] = "launch" /\ "launch_timeout" \in Faults
  BY <1>7, LaunchTracks DEF Launch
<1> QED
  BY <1>2, <1>3, <1>4, <1>5, <1>6, <1>7, CommitTracks, StepKinds DEF vars

\* Without a crash or a lost answer of sbatch no job Slurm holds is unknown to the ledger.
THEOREM SubmittedAlwaysTracked == Spec => []SubmittedIsTracked
<1>1. Init => SubmittedIsTracked
  BY DEF Init, SubmittedIsTracked, Tracked
<1>2. IInv /\ SubmittedIsTracked /\ [Next]_vars => SubmittedIsTracked'
  BY LossOfTrack DEF SubmittedIsTracked, Crash
<1> QED
  BY <1>1, <1>2, AlwaysInv, PTL DEF Spec

\* Whatever else fails, a Slurm job is lost only with the process that submits it, between
\* sbatch and the write, or with the answer of sbatch.
THEOREM OrphanedAlwaysInFlight == Spec => OrphanedOnlyInFlight
<1>1. IInv /\ [Next]_vars =>
        [\A j \in Jobs \ Direct : Tracked(j) /\ ~Tracked(j)' =>
          \E p \in Procs :
              /\ job[p] = j
              /\ \/ pc[p] = "commit" /\ server' = "down"
                 \/ pc[p] = "launch" /\ "launch_timeout" \in Faults]_vars
  BY LossOfTrack DEF Crash
<1> QED
  BY <1>1, AlwaysInv, PTL DEF Spec, OrphanedOnlyInFlight
=============================================================================
