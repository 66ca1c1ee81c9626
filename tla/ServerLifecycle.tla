--------------------------- MODULE ServerLifecycle ---------------------------
(***************************************************************************)
(* The server as a process: `server start`, `server stop` and the pid file *)
(* of a runtime directory, which is all that ties them together.           *)
(*                                                                         *)
(* Commands run beside each other and beside the servers: nothing is       *)
(* locked.  A server may exit by itself, a command may be killed, and the  *)
(* system gives a process id that has become free to whom it likes.  All   *)
(* servers listen on one port.                                             *)
(*                                                                         *)
(* A process is "booting" from its spawning until it binds the port; by    *)
(* then it has run the startup reconciliation over the ledger of its       *)
(* directory.  Told to stop, it closes the port and finishes its requests. *)
(* A process that exits is gone at once; one that gets SIGKILL runs no     *)
(* further, but keeps its pid, and maybe the port, until the system has    *)
(* cleared it away.  A command that is refused (already running, another   *)
(* runtime on the port, no pid file) changes nothing and is no step.       *)
(***************************************************************************)
EXTENDS Naturals

CONSTANTS
    Commands,   \* slots for operator commands
    Dirs,       \* runtime directories
    Pids,       \* process ids
    None        \* no pid: what a file that is absent or holds no number reads as

ASSUME NoneAssumption == None \notin Pids \cup Dirs

VARIABLES
    proc,       \* what each process id stands for
    pidfile,    \* the pid in dispatch-server.pid of each directory
    tmpfile,    \* the pid in dispatch-server.pid.tmp
    cmd,        \* what each command is doing
    irregular,  \* history: directories whose commands overlapped or went astray
    deserted    \* history: [pid, dir] of servers that exited without being told to

vars == <<proc, pidfile, tmpfile, cmd, irregular, deserted>>

States == {"booting", "listening", "stopping"}
Server(s, d) == [is |-> s, dir |-> d]
Free    == [is |-> "free", dir |-> None]
Foreign == [is |-> "foreign", dir |-> None]
Doomed  == [is |-> "doomed", dir |-> None]

StartSteps == {"spawn", "tmp", "rename", "attend"}
StopSteps  == {"signal", "wait", "kill", "remove"}
Steps == StartSteps \cup StopSteps \cup {"idle"}
Doing(step, d, p) == [at |-> step, dir |-> d, pid |-> p]
Idle == Doing("idle", None, None)

Serves(p, d) == \E s \in States : proc[p] = Server(s, d)
Entry(p, d) == [pid |-> p, dir |-> d]
Running(p) == proc[p] # Free

TypeOK ==
    /\ proc \in [Pids -> [is : States \cup {"free", "foreign", "doomed"}, dir : Dirs \cup {None}]]
    /\ \A p \in Pids : proc[p] \in {Free, Foreign, Doomed} \/ \E d \in Dirs : Serves(p, d)
    /\ pidfile \in [Dirs -> Pids \cup {None}]
    /\ tmpfile \in [Dirs -> Pids \cup {None}]
    /\ cmd \in [Commands -> [at : Steps, dir : Dirs \cup {None}, pid : Pids \cup {None}]]
    /\ \A c \in Commands : \/ cmd[c] = Idle
                           \/ /\ cmd[c].at # "idle" /\ cmd[c].dir \in Dirs
                              /\ cmd[c].pid \in Pids \/ cmd[c].at = "spawn"
    /\ irregular \subseteq Dirs
    /\ deserted \subseteq [pid : Pids, dir : Dirs]

Init ==
    /\ proc = [p \in Pids |-> Free]
    /\ pidfile = [d \in Dirs |-> None]
    /\ tmpfile = [d \in Dirs |-> None]
    /\ cmd = [c \in Commands |-> Idle]
    /\ irregular = {}
    /\ deserted = {}

-----------------------------------------------------------------------------
(* The commands.                                                           *)

Goto(c, step) == cmd' = [cmd EXCEPT ![c].at = step]

\* Mutant of End: the slot keeps its directory and pid.
EndPartly(c) == cmd' = [cmd EXCEPT ![c].at = "idle"]

End(c) == cmd' = [cmd EXCEPT ![c] = Idle]

\* Some other command of these kinds is at work in d.
Busy(c, d, steps) == \E b \in Commands \ {c} : cmd[b].at \in steps /\ cmd[b].dir = d

\* The command begins in d; it overlaps with those whose steps are given.
Begin(c, d, step, p, rivals) ==
    /\ cmd[c] = Idle
    /\ cmd' = [cmd EXCEPT ![c] = Doing(step, d, p)]
    /\ irregular' = IF Busy(c, d, rivals) THEN irregular \cup {d} ELSE irregular

\* Mutant of Start: the process that the pid file names is not looked for.
StartUnchecked(c, d) ==
    /\ Begin(c, d, "spawn", None, StartSteps \cup StopSteps)
    /\ UNCHANGED <<proc, pidfile, tmpfile, deserted>>

\* The probes of the port, which may refuse as well, are best effort: they may pass.
Start(c, d) ==
    /\ pidfile[d] # None => ~Running(pidfile[d])
    /\ Begin(c, d, "spawn", None, StartSteps \cup StopSteps)
    /\ UNCHANGED <<proc, pidfile, tmpfile, deserted>>

\* The preflight is over; in the foreground no pid will be written.
Spawn(c, p, step) ==
    /\ cmd[c].at = "spawn" /\ proc[p] = Free
    /\ proc' = [proc EXCEPT ![p] = Server("booting", cmd[c].dir)]
    /\ cmd' = [cmd EXCEPT ![c] = Doing(step, cmd[c].dir, p)]
    /\ irregular' = IF step = "attend" THEN irregular \cup {cmd[c].dir} ELSE irregular
    /\ deserted' = deserted \ {Entry(p, cmd[c].dir)}
    /\ UNCHANGED <<pidfile, tmpfile>>

\* The few bytes of the temporary file are written in one step.
WriteTmp(c) ==
    /\ cmd[c].at = "tmp"
    /\ tmpfile' = [tmpfile EXCEPT ![cmd[c].dir] = cmd[c].pid]
    /\ Goto(c, "rename")
    /\ UNCHANGED <<proc, pidfile, irregular, deserted>>

\* The name of the temporary file is fixed: another command's rename may have taken it,
\* and then this one fails.
Rename(c) ==
    LET d == cmd[c].dir IN
    /\ cmd[c].at = "rename"
    /\ pidfile' = [pidfile EXCEPT ![d] = IF tmpfile[d] = None THEN @ ELSE tmpfile[d]]
    /\ tmpfile' = [tmpfile EXCEPT ![d] = None]
    /\ End(c)
    /\ UNCHANGED <<proc, irregular, deserted>>

\* A foreground start lasts as long as its server.
Attend(c) ==
    /\ cmd[c].at = "attend" /\ ~Running(cmd[c].pid)
    /\ End(c)
    /\ UNCHANGED <<proc, pidfile, tmpfile, irregular, deserted>>

\* stop reads the pid file; two of them do each other no harm.
Stop(c, d) ==
    /\ pidfile[d] # None
    /\ Begin(c, d, IF Running(pidfile[d]) THEN "signal" ELSE "remove", pidfile[d], StartSteps)
    /\ UNCHANGED <<proc, pidfile, tmpfile, deserted>>

\* The pid was given to a server of another directory since the file was written.
Astray(c) == irregular' = irregular \cup {d \in Dirs \ {cmd[c].dir} : Serves(cmd[c].pid, d)}

\* SIGTERM: a server begins to stop, a foreign process may die, a killed one is cleared
\* away or not yet.
Signal(c) ==
    LET p == cmd[c].pid IN
    /\ cmd[c].at = "signal"
    /\ IF Running(p)
       THEN /\ Goto(c, "wait")
            /\ \/ \E d \in Dirs : Serves(p, d) /\ proc' = [proc EXCEPT ![p] = Server("stopping", d)]
               \/ proc[p] \in {Foreign, Doomed} /\ proc' \in {proc, [proc EXCEPT ![p] = Free]}
       ELSE Goto(c, "remove") /\ UNCHANGED proc
    /\ Astray(c)
    /\ UNCHANGED <<pidfile, tmpfile, deserted>>

\* A process of another user cannot be signalled: the command fails.
SignalDenied(c) ==
    /\ cmd[c].at \in {"signal", "kill"} /\ proc[cmd[c].pid] = Foreign
    /\ irregular' = irregular \cup {cmd[c].dir}
    /\ End(c)
    /\ UNCHANGED <<proc, pidfile, tmpfile, deserted>>

Wait(c) ==
    /\ cmd[c].at = "wait" /\ ~Running(cmd[c].pid)
    /\ Goto(c, "remove")
    /\ UNCHANGED <<proc, pidfile, tmpfile, irregular, deserted>>

\* Mutant of Timeout: time is up, and the pid file goes all the same.
TimeoutOnly(c) ==
    /\ cmd[c].at = "wait"
    /\ Goto(c, "remove")
    /\ UNCHANGED <<proc, pidfile, tmpfile, irregular, deserted>>

\* Mutant of Timeout: the command gives up where it should send SIGKILL.
TimeoutGivesUp(c) ==
    /\ cmd[c].at = "wait"
    /\ End(c)
    /\ UNCHANGED <<proc, pidfile, tmpfile, irregular, deserted>>

Timeout(c) ==
    /\ cmd[c].at = "wait"
    /\ Goto(c, "kill")
    /\ UNCHANGED <<proc, pidfile, tmpfile, irregular, deserted>>

\* SIGKILL.  The command does not wait for the process to go.
Kill(c) ==
    /\ cmd[c].at = "kill"
    /\ proc' = [proc EXCEPT ![cmd[c].pid] = IF @ = Free THEN Free ELSE Doomed]
    /\ Goto(c, "remove")
    /\ Astray(c)
    /\ UNCHANGED <<pidfile, tmpfile, deserted>>

\* The file is removed unread, whatever it names by now.
Remove(c) ==
    /\ cmd[c].at = "remove"
    /\ pidfile' = [pidfile EXCEPT ![cmd[c].dir] = None]
    /\ End(c)
    /\ UNCHANGED <<proc, tmpfile, irregular, deserted>>

\* The operator interrupts a command, or it is killed.
Interrupt(c) ==
    /\ cmd[c].at # "idle"
    /\ irregular' = irregular \cup {cmd[c].dir}
    /\ End(c)
    /\ UNCHANGED <<proc, pidfile, tmpfile, deserted>>

-----------------------------------------------------------------------------
(* The processes.                                                          *)

\* A server that finds the port taken exits.
Bind(p) ==
    /\ proc[p].is = "booting"
    /\ \/ /\ \E q \in Pids : proc[q].is \in {"listening", "doomed"}
          /\ proc' = [proc EXCEPT ![p] = Free]
          /\ deserted' = deserted \cup {Entry(p, proc[p].dir)}
       \/ /\ \A q \in Pids : proc[q].is # "listening"
          /\ proc' = [proc EXCEPT ![p] = Server("listening", proc[p].dir)]
          /\ UNCHANGED deserted
    /\ UNCHANGED <<pidfile, tmpfile, cmd, irregular>>

Exit(p) ==
    /\ Running(p)
    /\ proc' = [proc EXCEPT ![p] = Free]
    /\ deserted' = IF proc[p].is \in {"booting", "listening"}
                   THEN deserted \cup {Entry(p, proc[p].dir)} ELSE deserted
    /\ UNCHANGED <<pidfile, tmpfile, cmd, irregular>>

Reuse(p) ==
    /\ proc[p] = Free
    /\ proc' = [proc EXCEPT ![p] = Foreign]
    /\ UNCHANGED <<pidfile, tmpfile, cmd, irregular, deserted>>

-----------------------------------------------------------------------------
Proceed(c) ==
    \/ \E p \in Pids, step \in {"tmp", "attend"} : Spawn(c, p, step)
    \/ WriteTmp(c) \/ Rename(c) \/ Attend(c)
    \/ Signal(c) \/ SignalDenied(c) \/ Wait(c) \/ Timeout(c) \/ Kill(c) \/ Remove(c)

Next ==
    \/ \E c \in Commands : \/ \E d \in Dirs : Start(c, d) \/ Stop(c, d)
                           \/ Proceed(c) \/ Interrupt(c)
    \/ \E p \in Pids : Bind(p) \/ Exit(p) \/ Reuse(p)

Spec == Init /\ [][Next]_vars

\* A command that was begun goes on; servers need not do anything.
FairSpec == Spec /\ \A c \in Commands : WF_vars(Proceed(c))

-----------------------------------------------------------------------------
(* Properties.  Commands in a directory are regular as long as no start    *)
(* overlaps with another start or a stop there, none is interrupted, none  *)
(* runs in the foreground and none meets a pid that has changed hands.     *)

\* At most one process serves a directory, so that one server at a time reconciles and
\* writes its ledger: start looks for the process that the pid file names, and stop removes
\* the file only when that process is gone.
SoleServer ==
    \A d \in Dirs \ irregular : \A p, q \in Pids : Serves(p, d) /\ Serves(q, d) => p = q

\* A server can be found by `server status` and `server stop`: the pid file names it, or the
\* start that spawned it is about to write its pid.
ServersAreManaged ==
    \A d \in Dirs \ irregular : \A p \in Pids :
        Serves(p, d) => \/ pidfile[d] = p
                        \/ \E c \in Commands : /\ cmd[c].at \in {"tmp", "rename"}
                                               /\ cmd[c].dir = d /\ cmd[c].pid = p

\* A pid file that names no server of its directory, and so may name a process that stop
\* should not signal, is due to a server that exited unasked, or a stop is about to remove it.
StaleIsExplained ==
    \A d \in Dirs \ irregular : \A p \in Pids :
        pidfile[d] = p => \/ Serves(p, d)
                          \/ Entry(p, d) \in deserted
                          \/ \E c \in Commands : /\ cmd[c].at \in StopSteps
                                                 /\ cmd[c].dir = d /\ cmd[c].pid = p

\* A server that stop has signalled ends, whether or not it heeds the signal.
StopIsEffective ==
    \A c \in Commands, p \in Pids, d \in Dirs :
        (cmd[c] = Doing("wait", d, p) /\ Serves(p, d)) ~> (~Serves(p, d) \/ d \in irregular)
=============================================================================
