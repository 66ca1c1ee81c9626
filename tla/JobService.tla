----------------------------- MODULE JobService -----------------------------
(***************************************************************************)
(* What the server promises about each job, with its handlers, their       *)
(* copies and their interleaving left out: a job is given to its scheduler *)
(* at most once, and before it is entered in the ledger; an entry is made  *)
(* once, never removed, and revised only where the scheduler can be asked; *)
(* what it says has a ground in what has become of the job; and only a job *)
(* that is entered is told to stop.                                        *)
(***************************************************************************)
CONSTANTS
    Jobs,
    SlurmJobs,  \* the others are direct
    Executing   \* are accepted Slurm jobs given to Slurm?

VARIABLES
    verdict,    \* what the ledger says of each job
    named,      \* the Slurm jobs that the ledger has a scheduler id for
    fate,       \* what has become of each job at its scheduler
    told,       \* has the scheduler accepted a cancel command for it?
    answered    \* the jobs whose submission was answered 202

vars == <<verdict, named, fate, told, answered>>

Live == {"PENDING", "RUNNING"}
Verdicts == {"blocked", "open", "succeeded", "canceled"}

\* Verdict v on job j has a ground.
Grounded(j, v) ==
    /\ v = "blocked" => fate[j] = "NONE"
    /\ v = "succeeded" /\ j \in SlurmJobs => fate[j] = "COMPLETED"
    /\ v = "canceled" => told[j] \/ fate[j] = "CANCELLED"

Entered(j) == verdict[j] # "absent"

Init ==
    /\ verdict = [j \in Jobs |-> "absent"]
    /\ named = {}
    /\ fate = [j \in Jobs |-> "NONE"]
    /\ told = [j \in Jobs |-> FALSE]
    /\ answered = {}

HandOver(j) ==
    /\ ~Entered(j) /\ fate[j] = "NONE"
    /\ \E s \in Live : fate' = [fate EXCEPT ![j] = s]
    /\ UNCHANGED <<verdict, named, told, answered>>

\* Whether the scheduler id is known is settled here, and 202 is not answered to an execution
\* that the ledger has no id for.
Enter(j) ==
    /\ ~Entered(j)
    /\ \E v \in Verdicts, known \in BOOLEAN :
        /\ Grounded(j, v) /\ (known => j \in SlurmJobs /\ fate[j] # "NONE")
        /\ verdict' = [verdict EXCEPT ![j] = v]
        /\ named' = IF known THEN named \cup {j} ELSE named
        /\ \/ answered' = answered
           \/ /\ answered' = answered \cup {j}
              /\ j \in SlurmJobs /\ Executing => known \/ v = "blocked"
    /\ UNCHANGED <<fate, told>>

Revise(j) ==
    /\ Entered(j) /\ (j \in SlurmJobs => j \in named)
    /\ \E v \in Verdicts : Grounded(j, v) /\ verdict' = [verdict EXCEPT ![j] = v]
    /\ UNCHANGED <<named, fate, told, answered>>

Tell(j) ==
    /\ Entered(j) /\ (j \in SlurmJobs => j \in named)
    /\ told' = [told EXCEPT ![j] = TRUE]
    /\ UNCHANGED <<verdict, named, fate, answered>>

\* The scheduler, of itself, or because it or another was told to.
Proceed(j) ==
    /\ \/ fate[j] = "PENDING" /\ fate' = [fate EXCEPT ![j] = "RUNNING"]
       \/ /\ fate[j] = "RUNNING"
          /\ \E s \in {"COMPLETED", "FAILED"} : fate' = [fate EXCEPT ![j] = s]
       \/ fate[j] \in Live /\ fate' = [fate EXCEPT ![j] = "CANCELLED"]
    /\ UNCHANGED <<verdict, named, told, answered>>

Next == \E j \in Jobs : HandOver(j) \/ Enter(j) \/ Revise(j) \/ Tell(j) \/ Proceed(j)

Spec == Init /\ [][Next]_vars
=============================================================================
