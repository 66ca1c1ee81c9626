------------------------ MODULE ServerLifecycleProofs ------------------------
(***************************************************************************)
(* Proofs about ServerLifecycle, for any numbers of commands, directories  *)
(* and pids.                                                               *)
(*                                                                         *)
(* SoleServer, ServersAreManaged and StaleIsExplained are not inductive.   *)
(* What they rest on is what a command may take for granted in a directory *)
(* that is regular: who else is at work there (NoRivals), whether the      *)
(* directory has a server (StartsAlone), which pid the file still holds    *)
(* (StopsKnowTheFile), and that only a stop makes a server stop            *)
(* (StoppingHasStop).                                                      *)
(***************************************************************************)
EXTENDS ServerLifecycle, TLAPS

Regular == Dirs \ irregular
Active(c, d) == cmd[c].at # "idle" /\ cmd[c].dir = d
Stops(c, d, p) == cmd[c].at \in StopSteps /\ cmd[c].dir = d /\ cmd[c].pid = p

\* Commands that are at work in one directory are all stops.
NoRivals ==
    \A d \in Regular : \A b, c \in Commands :
        b # c /\ Active(b, d) /\ Active(c, d) => cmd[b].at \in StopSteps

\* A start has the directory to itself and its child.
IsAlone(c, d) ==
    /\ cmd[c].at # "attend"
    /\ cmd[c].at = "spawn" => \A p \in Pids : ~Serves(p, d)
    /\ cmd[c].at \in {"tmp", "rename"} =>
          /\ \A p \in Pids : Serves(p, d) => p = cmd[c].pid
          /\ \/ proc[cmd[c].pid] \in {Server("booting", d), Server("listening", d)}
             \/ Entry(cmd[c].pid, d) \in deserted
    /\ cmd[c].at = "rename" => tmpfile[d] = cmd[c].pid
StartsAlone ==
    \A d \in Regular : \A c \in Commands : cmd[c].dir = d => IsAlone(c, d)

\* The pid file holds what a stop has read, or nothing any more.
StopsKnowTheFile ==
    \A d \in Regular : \A c \in Commands :
        cmd[c].at \in StopSteps /\ cmd[c].dir = d =>
            /\ pidfile[d] \in {cmd[c].pid, None}
            /\ cmd[c].at = "remove" => ~Serves(cmd[c].pid, d)

\* A server that stops has been told so by a stop that goes on.
StoppingHasStop ==
    \A d \in Regular : \A p \in Pids :
        proc[p] = Server("stopping", d) => \E c \in Commands : Stops(c, d, p)

IInv == /\ TypeOK
        /\ NoRivals
        /\ StartsAlone
        /\ StopsKnowTheFile
        /\ StoppingHasStop
        /\ ServersAreManaged
        /\ StaleIsExplained

LEMMA SpawnStep ==
    ASSUME IInv, NEW c \in Commands, NEW p \in Pids, NEW step \in {"tmp", "attend"},
           Spawn(c, p, step)
    PROVE  IInv'
<1> DEFINE d0 == cmd[c].dir
<1> USE NoneAssumption DEF IInv, Regular, Active, Stops, IsAlone, Entry, StartSteps, StopSteps, Steps, Idle, Doing
<1>1. cmd[c].at = "spawn" /\ d0 \in Dirs
  BY DEF Spawn, TypeOK
<1>2. cmd' = [cmd EXCEPT ![c] = Doing(step, d0, p)]
  BY DEF Spawn
<1>3. /\ proc' = [proc EXCEPT ![p] = Server("booting", d0)]
      /\ deserted' = deserted \ {Entry(p, d0)} /\ UNCHANGED <<pidfile, tmpfile>>
      /\ irregular' = IF step = "attend" THEN irregular \cup {d0} ELSE irregular
  BY DEF Spawn
<1>4. \A q \in Pids, e \in Dirs : Serves(q, e)' <=> Serves(q, e) \/ (q = p /\ e = d0)
  BY <1>1, <1>3 DEF Spawn, TypeOK, Serves, Server, States, Free
<1>5. TypeOK'
  <2>1. /\ proc' \in [Pids -> [is : States \cup {"free", "foreign", "doomed"}, dir : Dirs \cup {None}]]
        /\ \A q \in Pids : proc'[q] \in {Free, Foreign, Doomed} \/ \E d \in Dirs : Serves(q, d)'
    BY <1>1, <1>3, <1>4 DEF TypeOK, Server, States
  <2> QED BY <2>1, <1>1, <1>2, <1>3 DEF TypeOK
<1>6. NoRivals'
  BY <1>1, <1>2, <1>3 DEF TypeOK, NoRivals
<1>7. StartsAlone'
  <2> SUFFICES ASSUME NEW d \in Regular', NEW b \in Commands, cmd'[b].dir = d
               PROVE  IsAlone(b, d)'
    BY DEF StartsAlone
  <2>1. d \in Regular /\ d \in Dirs
    BY <1>3
  <2>2. CASE b = c
    <3>1. cmd'[b] = Doing(step, d0, p) /\ d = d0
      BY <2>2, <1>2 DEF TypeOK
    <3>2. step = "tmp"
      BY <3>1, <1>3, <1>1
    <3>3. \A q \in Pids : ~Serves(q, d)
      BY <2>1, <3>1, <1>1 DEF StartsAlone
    <3>4. proc'[p] = Server("booting", d)
      BY <3>1, <1>3 DEF TypeOK
    <3> QED BY <2>1, <3>1, <3>2, <3>3, <3>4, <1>4
  <2>3. CASE b # c
    <3>1. cmd'[b] = cmd[b]
      BY <2>3, <1>2 DEF TypeOK
    <3>2. d = d0 => cmd[b].at \in StopSteps \cup {"idle"}
      BY <2>1, <2>3, <3>1, <1>1 DEF NoRivals, TypeOK
    <3>3. CASE d = d0
      BY <3>1, <3>2, <3>3
    <3>4. CASE d # d0
      <4>1. \A q \in Pids : Serves(q, d)' <=> Serves(q, d)
        BY <3>4, <2>1, <1>4
      <4>2. cmd[b].at \in {"tmp", "rename"} => cmd[b].pid \in Pids
        BY <2>1, <3>1 DEF TypeOK
      <4>3. \A q \in Pids : proc[q] \in {Server("booting", d), Server("listening", d)} => proc'[q] = proc[q]
        BY <1>3, <2>1, <3>4 DEF Spawn, TypeOK, Server, Free
      <4> QED BY <2>1, <3>1, <3>4, <4>1, <4>2, <4>3, <1>3 DEF StartsAlone
    <3> QED BY <3>3, <3>4
  <2> QED BY <2>2, <2>3
<1>8. \A b \in Commands : cmd'[b].at \in StopSteps => b # c /\ cmd'[b] = cmd[b]
  BY <1>1, <1>2 DEF TypeOK
<1>9. StopsKnowTheFile'
  BY <1>1, <1>2, <1>3, <1>4, <1>8 DEF TypeOK, StopsKnowTheFile, NoRivals
<1>10. StoppingHasStop'
  <2> SUFFICES ASSUME NEW d \in Regular', NEW q \in Pids, proc'[q] = Server("stopping", d)
               PROVE  \E b \in Commands : Stops(b, d, q)'
    BY DEF StoppingHasStop
  <2>1. d \in Regular /\ proc[q] = Server("stopping", d)
    BY <1>3 DEF TypeOK, Server
  <2>2. PICK b \in Commands : Stops(b, d, q)
    BY <2>1 DEF StoppingHasStop
  <2>3. cmd'[b] = cmd[b]
    BY <2>2, <1>1, <1>2 DEF TypeOK
  <2> QED BY <2>2, <2>3
<1>11. ServersAreManaged'
  <2> SUFFICES ASSUME NEW d \in Regular', NEW q \in Pids, Serves(q, d)'
               PROVE  pidfile'[d] = q \/ \E b \in Commands : /\ cmd'[b].at \in {"tmp", "rename"}
                                                             /\ cmd'[b].dir = d /\ cmd'[b].pid = q
    BY DEF ServersAreManaged
  <2>1. d \in Regular
    BY <1>3
  <2>2. CASE q = p /\ d = d0
    BY <2>1, <2>2, <1>2, <1>3 DEF TypeOK
  <2>3. CASE ~(q = p /\ d = d0)
    <3>1. Serves(q, d)
      BY <2>1, <2>3, <1>4
    <3>2. \A b \in Commands : cmd[b].at \in {"tmp", "rename"} => cmd'[b] = cmd[b]
      BY <1>1, <1>2 DEF TypeOK
    <3> QED BY <2>1, <3>1, <3>2, <1>3 DEF ServersAreManaged
  <2> QED BY <2>2, <2>3
<1>12. StaleIsExplained'
  <2> SUFFICES ASSUME NEW d \in Regular', NEW q \in Pids, pidfile'[d] = q
               PROVE  \/ Serves(q, d)' \/ Entry(q, d) \in deserted'
                      \/ \E b \in Commands : Stops(b, d, q)'
    BY DEF StaleIsExplained
  <2>1. d \in Regular /\ pidfile[d] = q
    BY <1>3
  <2>2. Serves(q, d) \/ Entry(q, d) \in deserted \/ \E b \in Commands : Stops(b, d, q)
    BY <2>1 DEF StaleIsExplained
  <2>3. ASSUME NEW b \in Commands, Stops(b, d, q) PROVE Stops(b, d, q)'
    BY <2>3, <1>1, <1>2 DEF TypeOK
  <2> QED BY <2>1, <2>2, <2>3, <1>3, <1>4
<1> QED BY <1>5, <1>6, <1>7, <1>9, <1>10, <1>11, <1>12

LEMMA StartStep ==
    ASSUME IInv, NEW c \in Commands, NEW d0 \in Dirs, Start(c, d0)
    PROVE  IInv'
<1> USE NoneAssumption DEF IInv, Regular, Active, Stops, IsAlone, Entry, StartSteps, StopSteps, Steps, Idle, Doing
<1>1. /\ cmd[c] = Idle
      /\ \A b \in Commands : cmd'[b] = IF b = c THEN Doing("spawn", d0, None) ELSE cmd[b]
      /\ UNCHANGED <<proc, pidfile, tmpfile, deserted>>
      /\ irregular \subseteq irregular' /\ irregular' \subseteq irregular \cup {d0}
  BY DEF Start, Begin, TypeOK
<1>2. \A q \in Pids, e \in Dirs : Serves(q, e)' <=> Serves(q, e)
  BY <1>1 DEF Serves
<1>3. d0 \in Regular' => \A b \in Commands \ {c} : ~Active(b, d0)
  BY DEF Start, Begin, Busy, TypeOK
<1>4. TypeOK'
  BY DEF Start, Begin, TypeOK, Serves
<1>5. NoRivals'
  BY <1>1, <1>3 DEF TypeOK, NoRivals
<1>6. d0 \in Regular' => \A q \in Pids : ~Serves(q, d0)
  <2> SUFFICES ASSUME d0 \in Regular', NEW q \in Pids, Serves(q, d0) PROVE FALSE
    OBVIOUS
  <2>1. d0 \in Regular
    BY <1>1
  <2>2. pidfile[d0] # q
    BY DEF Start, Running, Serves, Server, Free, States
  <2>3. PICK b \in Commands : cmd[b].at \in {"tmp", "rename"} /\ cmd[b].dir = d0
    BY <2>1, <2>2 DEF ServersAreManaged
  <2> QED BY <2>3, <1>1, <1>3
<1>7. StartsAlone'
  <2> SUFFICES ASSUME NEW d \in Regular', NEW b \in Commands, cmd'[b].dir = d
               PROVE  IsAlone(b, d)'
    BY DEF StartsAlone
  <2>1. CASE b = c
    BY <2>1, <1>1, <1>2, <1>6
  <2>2. CASE b # c
    BY <2>2, <1>1, <1>2 DEF StartsAlone, Serves
  <2> QED BY <2>1, <2>2
<1>8. StopsKnowTheFile'
  BY <1>1 DEF StopsKnowTheFile, Serves
<1>9. StoppingHasStop'
  BY <1>1 DEF StoppingHasStop
<1>10. ServersAreManaged'
  BY <1>1 DEF ServersAreManaged, Serves
<1>11. StaleIsExplained'
  BY <1>1 DEF StaleIsExplained, Serves
<1> QED BY <1>4, <1>5, <1>7, <1>8, <1>9, <1>10, <1>11

LEMMA WriteTmpStep ==
    ASSUME IInv, NEW c \in Commands, WriteTmp(c)
    PROVE  IInv'
<1> DEFINE d0 == cmd[c].dir
<1> USE NoneAssumption DEF IInv, Regular, Active, Stops, IsAlone, Entry, StartSteps, StopSteps, Steps, Idle, Doing
<1>1. /\ cmd[c].at = "tmp" /\ d0 \in Dirs /\ cmd[c].pid \in Pids
      /\ \A b \in Commands : cmd'[b] = IF b = c THEN Doing("rename", d0, cmd[c].pid) ELSE cmd[b]
      /\ \A d \in Dirs : tmpfile'[d] = IF d = d0 THEN cmd[c].pid ELSE tmpfile[d]
      /\ UNCHANGED <<proc, pidfile, irregular, deserted>>
  BY DEF WriteTmp, Goto, TypeOK
<1>2. \A q \in Pids, e \in Dirs : Serves(q, e)' <=> Serves(q, e)
  BY <1>1 DEF Serves
<1>3. TypeOK'
  BY <1>1 DEF WriteTmp, Goto, TypeOK, Serves
<1>4. NoRivals'
  BY <1>1 DEF TypeOK, NoRivals
<1>5. StartsAlone'
  <2> SUFFICES ASSUME NEW d \in Regular', NEW b \in Commands, cmd'[b].dir = d
               PROVE  IsAlone(b, d)'
    BY DEF StartsAlone
  <2>1. CASE b = c
    BY <2>1, <1>1, <1>2 DEF StartsAlone
  <2>2. CASE b # c
    <3>1. cmd[b].at = "rename" => d # d0
      BY <2>2, <1>1 DEF NoRivals
    <3> QED BY <2>2, <3>1, <1>1, <1>2 DEF StartsAlone
  <2> QED BY <2>1, <2>2
<1>6. StopsKnowTheFile'
  BY <1>1, <1>2 DEF StopsKnowTheFile, Serves
<1>7. StoppingHasStop'
  BY <1>1 DEF StoppingHasStop
<1>8. ServersAreManaged'
  BY <1>1, <1>2 DEF ServersAreManaged
<1>9. StaleIsExplained'
  BY <1>1, <1>2 DEF StaleIsExplained
<1> QED BY <1>3, <1>4, <1>5, <1>6, <1>7, <1>8, <1>9

LEMMA RenameStep ==
    ASSUME IInv, NEW c \in Commands, Rename(c)
    PROVE  IInv'
<1> DEFINE d0 == cmd[c].dir
<1> USE NoneAssumption DEF IInv, Regular, Active, Stops, IsAlone, Entry, StartSteps, StopSteps, Steps, Idle, Doing
<1>1. /\ cmd[c].at = "rename" /\ d0 \in Dirs /\ cmd[c].pid \in Pids
      /\ \A b \in Commands : cmd'[b] = IF b = c THEN Idle ELSE cmd[b]
      /\ \A d \in Dirs : d # d0 => pidfile'[d] = pidfile[d] /\ tmpfile'[d] = tmpfile[d]
      /\ UNCHANGED <<proc, irregular, deserted>>
  BY DEF Rename, End, TypeOK
<1>2. d0 \in Regular => pidfile'[d0] = cmd[c].pid
  <2>1. d0 \in Regular => tmpfile[d0] = cmd[c].pid
    BY <1>1 DEF StartsAlone
  <2>2. pidfile'[d0] = IF tmpfile[d0] = None THEN pidfile[d0] ELSE tmpfile[d0]
    BY <1>1 DEF Rename, TypeOK
  <2> QED BY <2>1, <2>2, <1>1
<1>3. \A q \in Pids, e \in Dirs : Serves(q, e)' <=> Serves(q, e)
  BY <1>1 DEF Serves
<1>4. \A b \in Commands : d0 \in Regular /\ b # c => ~Active(b, d0)
  BY <1>1 DEF NoRivals
<1>5. TypeOK'
  BY <1>1 DEF Rename, End, TypeOK, Serves
<1>6. NoRivals'
  BY <1>1 DEF TypeOK, NoRivals
<1>7. StartsAlone'
  <2> SUFFICES ASSUME NEW d \in Regular', NEW b \in Commands, cmd'[b].dir = d
               PROVE  IsAlone(b, d)'
    BY DEF StartsAlone
  <2>1. b # c /\ cmd'[b] = cmd[b]
    BY <1>1
  <2>2. CASE d = d0
    BY <2>1, <2>2, <1>1, <1>4
  <2>3. CASE d # d0
    BY <2>1, <2>3, <1>1, <1>3 DEF StartsAlone
  <2> QED BY <2>2, <2>3
<1>8. StopsKnowTheFile'
  BY <1>1, <1>3, <1>4 DEF StopsKnowTheFile, Serves
<1>9. StoppingHasStop'
  BY <1>1 DEF StoppingHasStop
<1>10. ServersAreManaged'
  <2> SUFFICES ASSUME NEW d \in Regular', NEW q \in Pids, Serves(q, d)'
               PROVE  pidfile'[d] = q \/ \E b \in Commands : /\ cmd'[b].at \in {"tmp", "rename"}
                                                             /\ cmd'[b].dir = d /\ cmd'[b].pid = q
    BY DEF ServersAreManaged
  <2>1. d \in Regular /\ Serves(q, d)
    BY <1>1, <1>3
  <2>2. CASE d = d0
    BY <2>1, <2>2, <1>1, <1>2 DEF StartsAlone
  <2>3. CASE d # d0
    BY <2>1, <2>3, <1>1 DEF ServersAreManaged
  <2> QED BY <2>2, <2>3
<1>11. StaleIsExplained'
  <2> SUFFICES ASSUME NEW d \in Regular', NEW q \in Pids, pidfile'[d] = q
               PROVE  \/ Serves(q, d)' \/ Entry(q, d) \in deserted'
                      \/ \E b \in Commands : Stops(b, d, q)'
    BY DEF StaleIsExplained
  <2>1. d \in Regular
    BY <1>1
  <2>2. CASE d = d0
    <3>1. q = cmd[c].pid
      BY <2>1, <2>2, <1>2
    <3>2. Serves(q, d) \/ Entry(q, d) \in deserted
      BY <2>1, <2>2, <3>1, <1>1 DEF StartsAlone, Serves, States
    <3> QED BY <2>1, <3>2, <1>1, <1>3
  <2>3. CASE d # d0
    BY <2>1, <2>3, <1>1, <1>3 DEF StaleIsExplained
  <2> QED BY <2>2, <2>3
<1> QED BY <1>5, <1>6, <1>7, <1>8, <1>9, <1>10, <1>11

LEMMA SignalStep ==
    ASSUME IInv, NEW c \in Commands, Signal(c)
    PROVE  IInv'
<1> DEFINE d0 == cmd[c].dir
           p  == cmd[c].pid
           next == IF Running(p) THEN "wait" ELSE "remove"
<1> USE NoneAssumption DEF IInv, Regular, Active, Stops, IsAlone, Entry, StartSteps, StopSteps, Steps, Idle, Doing
<1>1. /\ cmd[c].at = "signal" /\ d0 \in Dirs /\ p \in Pids
      /\ \A b \in Commands : cmd'[b] = IF b = c THEN Doing(next, d0, p) ELSE cmd[b]
      /\ UNCHANGED <<pidfile, tmpfile, deserted>>
  BY DEF Signal, Goto, TypeOK
<1>2. /\ irregular' \subseteq Dirs
      /\ \A d \in Dirs : d \in irregular' <=> d \in irregular \/ (d # d0 /\ Serves(p, d))
  BY DEF Signal, Astray, TypeOK
<1>3. /\ \A q \in Pids : q # p => proc'[q] = proc[q]
      /\ \/ proc'[p] = proc[p]
         \/ \E d \in Dirs : Serves(p, d) /\ proc'[p] = Server("stopping", d)
         \/ proc[p] \in {Foreign, Doomed} /\ proc'[p] = Free
  BY <1>1 DEF Signal, TypeOK
<1>4. \A q \in Pids, e \in Dirs : Serves(q, e)' <=> Serves(q, e)
  <2> SUFFICES ASSUME NEW q \in Pids, NEW e \in Dirs, q = p
               PROVE  Serves(q, e)' <=> Serves(q, e)
    BY <1>3 DEF Serves
  <2>1. CASE proc'[q] = proc[q]
    BY <2>1 DEF Serves
  <2>2. ASSUME NEW d \in Dirs, Serves(q, d), proc'[q] = Server("stopping", d)
        PROVE  Serves(q, e)' <=> Serves(q, e)
    <3>1. Serves(q, e) <=> e = d
      <4>1. PICK s \in States : proc[q] = Server(s, d)
        BY <2>2 DEF Serves
      <4>2. proc[q].dir = d
        BY <4>1 DEF Server
      <4>3. Serves(q, e) => proc[q].dir = e
        BY DEF Serves, Server
      <4> QED BY <2>2, <4>2, <4>3
    <3>2. Serves(q, e)' <=> e = d
      BY <2>2 DEF Serves, Server, States
    <3> QED BY <3>1, <3>2
  <2>3. CASE proc[q] \in {Foreign, Doomed} /\ proc'[q] = Free
    BY <2>3 DEF Serves, Server, States, Free, Foreign, Doomed
  <2> QED BY <2>1, <2>2, <2>3, <1>3
<1>5. \A d \in Regular' : d \in Regular /\ (d = d0 \/ ~Serves(p, d))
  BY <1>2
<1>6. TypeOK'
  <2>1. proc' \in [Pids -> [is : States \cup {"free", "foreign", "doomed"}, dir : Dirs \cup {None}]]
    <3>1. \/ proc' = proc
          \/ proc' = [proc EXCEPT ![p] = Free]
          \/ \E d \in Dirs : proc' = [proc EXCEPT ![p] = Server("stopping", d)]
      BY DEF Signal
    <3>2. CASE proc' \in {proc, [proc EXCEPT ![p] = Free]}
      BY <3>2 DEF TypeOK, States, Free
    <3>3. ASSUME NEW d \in Dirs, proc' = [proc EXCEPT ![p] = Server("stopping", d)]
          PROVE  proc' \in [Pids -> [is : States \cup {"free", "foreign", "doomed"}, dir : Dirs \cup {None}]]
      BY <3>3 DEF TypeOK, States, Server
    <3> QED BY <3>1, <3>2, <3>3
  <2>2. \A q \in Pids : proc'[q] \in {Free, Foreign, Doomed} \/ \E d \in Dirs : Serves(q, d)'
    BY <1>1, <1>3, <1>4 DEF TypeOK
  <2>3. cmd' \in [Commands -> [at : Steps, dir : Dirs \cup {None}, pid : Pids \cup {None}]]
    BY <1>1 DEF Signal, Goto, TypeOK
  <2> QED BY <2>1, <2>2, <2>3, <1>1, <1>2 DEF TypeOK
<1>7. NoRivals'
  BY <1>1, <1>5 DEF TypeOK, NoRivals
<1>8. StartsAlone'
  <2> SUFFICES ASSUME NEW d \in Regular', NEW b \in Commands, cmd'[b].dir = d
               PROVE  IsAlone(b, d)'
    BY DEF StartsAlone
  <2>1. CASE b = c
    BY <2>1, <1>1
  <2>2. CASE b # c
    <3>1. cmd[b].at \in {"tmp", "rename"} => d # d0 /\ cmd[b].pid \in Pids
      BY <2>2, <1>1, <1>5 DEF NoRivals, TypeOK
    <3>2. cmd[b].at \in {"tmp", "rename"} /\ cmd[b].pid = p =>
             ~(proc[p] \in {Server("booting", d), Server("listening", d)})
      BY <3>1, <1>5 DEF Serves, States
    <3> QED BY <2>2, <3>1, <3>2, <1>1, <1>3, <1>4, <1>5 DEF StartsAlone
  <2> QED BY <2>1, <2>2
<1>9. StopsKnowTheFile'
  <2>1. next = "remove" => \A d \in Dirs : ~Serves(p, d)
    BY DEF Running, Serves, Server, States, Free
  <2>2. \A b \in Commands : cmd[b].at \in StopSteps => cmd[b].pid \in Pids
    BY DEF TypeOK
  <2> QED BY <2>1, <2>2, <1>1, <1>4, <1>5 DEF StopsKnowTheFile
<1>10. \A b \in Commands, d \in Dirs, q \in Pids : Stops(b, d, q) => Stops(b, d, q)'
  BY <1>1
<1>11. StoppingHasStop'
  <2> SUFFICES ASSUME NEW d \in Regular', NEW q \in Pids, proc'[q] = Server("stopping", d)
               PROVE  \E b \in Commands : Stops(b, d, q)'
    BY DEF StoppingHasStop
  <2>1. CASE proc[q] = Server("stopping", d)
    BY <2>1, <1>5, <1>10 DEF StoppingHasStop
  <2>2. CASE proc[q] # Server("stopping", d)
    <3>1. q = p /\ Serves(p, d)
      <4>1. q = p
        BY <2>2, <1>3
      <4>2. PICK e \in Dirs : Serves(p, e) /\ proc'[p] = Server("stopping", e)
        BY <4>1, <2>2, <1>3 DEF Server, Free
      <4> QED BY <4>1, <4>2 DEF Server
    <3> QED BY <3>1, <1>1, <1>5, <1>10
  <2> QED BY <2>1, <2>2
<1>12. ServersAreManaged'
  BY <1>1, <1>4, <1>5 DEF ServersAreManaged
<1>13. StaleIsExplained'
  <2> SUFFICES ASSUME NEW d \in Regular', NEW q \in Pids, pidfile'[d] = q
               PROVE  \/ Serves(q, d)' \/ Entry(q, d) \in deserted'
                      \/ \E b \in Commands : Stops(b, d, q)'
    BY DEF StaleIsExplained
  <2>1. Serves(q, d) \/ Entry(q, d) \in deserted \/ \E b \in Commands : Stops(b, d, q)
    BY <1>1, <1>5 DEF StaleIsExplained
  <2> QED BY <2>1, <1>1, <1>4, <1>5, <1>10
<1> QED BY <1>6, <1>7, <1>8, <1>9, <1>11, <1>12, <1>13

LEMMA KillStep ==
    ASSUME IInv, NEW c \in Commands, Kill(c)
    PROVE  IInv'
<1> DEFINE d0 == cmd[c].dir
           p  == cmd[c].pid
<1> USE NoneAssumption DEF IInv, Regular, Active, Stops, IsAlone, Entry, StartSteps, StopSteps, Steps, Idle, Doing
<1>1. /\ cmd[c].at = "kill" /\ d0 \in Dirs /\ p \in Pids
      /\ \A b \in Commands : cmd'[b] = IF b = c THEN Doing("remove", d0, p) ELSE cmd[b]
      /\ \A q \in Pids : proc'[q] = IF q = p THEN IF proc[p] = Free THEN Free ELSE Doomed ELSE proc[q]
      /\ UNCHANGED <<pidfile, tmpfile, deserted>>
  BY DEF Kill, Goto, TypeOK
<1>2. /\ irregular' \subseteq Dirs
      /\ \A d \in Regular' : d \in Regular /\ (d = d0 \/ ~Serves(p, d))
  BY DEF Kill, Astray, TypeOK
<1>3. \A q \in Pids, e \in Dirs : Serves(q, e)' <=> Serves(q, e) /\ q # p
  BY <1>1 DEF Serves, Server, States, Free, Doomed
<1>4. TypeOK'
  <2>1. proc' \in [Pids -> [is : States \cup {"free", "foreign", "doomed"}, dir : Dirs \cup {None}]]
    BY DEF Kill, TypeOK, Free, Doomed
  <2>2. cmd' \in [Commands -> [at : Steps, dir : Dirs \cup {None}, pid : Pids \cup {None}]]
    BY DEF Kill, Goto, TypeOK
  <2> QED BY <2>1, <2>2, <1>1, <1>2, <1>3 DEF TypeOK
<1>5. NoRivals'
  BY <1>1, <1>2 DEF TypeOK, NoRivals
<1>6. StartsAlone'
  <2> SUFFICES ASSUME NEW d \in Regular', NEW b \in Commands, cmd'[b].dir = d
               PROVE  IsAlone(b, d)'
    BY DEF StartsAlone
  <2>1. CASE b = c
    BY <2>1, <1>1
  <2>2. CASE b # c
    <3>1. cmd[b].at \in {"tmp", "rename"} => d # d0 /\ cmd[b].pid \in Pids
      BY <2>2, <1>1, <1>2 DEF NoRivals, TypeOK
    <3>2. cmd[b].at \in {"tmp", "rename"} /\ cmd[b].pid = p =>
             ~(proc[p] \in {Server("booting", d), Server("listening", d)})
      BY <3>1, <1>2 DEF Serves, States
    <3> QED BY <2>2, <3>1, <3>2, <1>1, <1>2, <1>3 DEF StartsAlone
  <2> QED BY <2>1, <2>2
<1>7. StopsKnowTheFile'
  <2>1. \A b \in Commands : cmd[b].at \in StopSteps => cmd[b].pid \in Pids
    BY DEF TypeOK
  <2> QED BY <2>1, <1>1, <1>2, <1>3 DEF StopsKnowTheFile
<1>8. \A b \in Commands, d \in Dirs, q \in Pids : Stops(b, d, q) => Stops(b, d, q)'
  BY <1>1
<1>9. StoppingHasStop'
  BY <1>1, <1>2, <1>8 DEF StoppingHasStop, Server, Free, Doomed
<1>10. ServersAreManaged'
  BY <1>1, <1>2, <1>3 DEF ServersAreManaged
<1>11. StaleIsExplained'
  <2> SUFFICES ASSUME NEW d \in Regular', NEW q \in Pids, pidfile'[d] = q
               PROVE  \/ Serves(q, d)' \/ Entry(q, d) \in deserted'
                      \/ \E b \in Commands : Stops(b, d, q)'
    BY DEF StaleIsExplained
  <2>1. Serves(q, d) \/ Entry(q, d) \in deserted \/ \E b \in Commands : Stops(b, d, q)
    BY <1>1, <1>2 DEF StaleIsExplained
  <2>2. Serves(q, d) /\ q = p => Stops(c, d, q)'
    BY <1>1, <1>2
  <2> QED BY <2>1, <2>2, <1>1, <1>3, <1>8
<1> QED BY <1>4, <1>5, <1>6, <1>7, <1>9, <1>10, <1>11

LEMMA RemoveStep ==
    ASSUME IInv, NEW c \in Commands, Remove(c)
    PROVE  IInv'
<1> DEFINE d0 == cmd[c].dir
           p  == cmd[c].pid
<1> USE NoneAssumption DEF IInv, Regular, Active, Stops, IsAlone, Entry, StartSteps, StopSteps, Steps, Idle, Doing
<1>1. /\ cmd[c].at = "remove" /\ d0 \in Dirs /\ p \in Pids
      /\ \A b \in Commands : cmd'[b] = IF b = c THEN Idle ELSE cmd[b]
      /\ \A d \in Dirs : pidfile'[d] = IF d = d0 THEN None ELSE pidfile[d]
      /\ UNCHANGED <<proc, tmpfile, irregular, deserted>>
  BY DEF Remove, End, TypeOK
<1>2. \A q \in Pids, e \in Dirs : Serves(q, e)' <=> Serves(q, e)
  BY <1>1 DEF Serves
<1>3. d0 \in Regular => \A q \in Pids : ~Serves(q, d0)
  <2> SUFFICES ASSUME d0 \in Regular, NEW q \in Pids, Serves(q, d0) PROVE FALSE
    OBVIOUS
  <2>1. \A b \in Commands : cmd[b].dir = d0 => cmd[b].at \notin {"tmp", "rename"}
    BY <1>1 DEF NoRivals
  <2>2. pidfile[d0] = q
    BY <2>1 DEF ServersAreManaged
  <2> QED BY <2>2, <1>1 DEF StopsKnowTheFile
<1>4. TypeOK'
  BY <1>1 DEF Remove, End, TypeOK, Serves
<1>5. NoRivals'
  BY <1>1 DEF TypeOK, NoRivals
<1>6. StartsAlone'
  BY <1>1, <1>2 DEF StartsAlone
<1>7. StopsKnowTheFile'
  BY <1>1, <1>2 DEF StopsKnowTheFile, Serves
<1>8. \A b \in Commands, d \in Dirs, q \in Pids : Stops(b, d, q) /\ b # c => Stops(b, d, q)'
  BY <1>1
<1>9. StoppingHasStop'
  <2> SUFFICES ASSUME NEW d \in Regular', NEW q \in Pids, proc'[q] = Server("stopping", d)
               PROVE  \E b \in Commands : Stops(b, d, q)'
    BY DEF StoppingHasStop
  <2>1. d \in Regular /\ proc[q] = Server("stopping", d)
    BY <1>1
  <2>2. d # d0
    BY <2>1, <1>3 DEF Serves, States
  <2> QED BY <2>1, <2>2, <1>1, <1>8 DEF StoppingHasStop
<1>10. ServersAreManaged'
  BY <1>1, <1>2, <1>3 DEF ServersAreManaged
<1>11. StaleIsExplained'
  BY <1>1, <1>2, <1>8 DEF StaleIsExplained
<1> QED BY <1>4, <1>5, <1>6, <1>7, <1>9, <1>10, <1>11

LEMMA BindStep ==
    ASSUME IInv, NEW p \in Pids, Bind(p)
    PROVE  IInv'
<1> USE NoneAssumption DEF IInv, Regular, Active, Stops, IsAlone, Entry, StartSteps, StopSteps, Steps, Idle, Doing
<1>1. PICK d0 \in Dirs : proc[p] = Server("booting", d0)
  BY DEF Bind, TypeOK, Serves, Server, States, Free, Foreign, Doomed
<1>2. \/ /\ proc' = [proc EXCEPT ![p] = Free]
         /\ deserted' = deserted \cup {Entry(p, d0)}
      \/ /\ proc' = [proc EXCEPT ![p] = Server("listening", d0)]
         /\ deserted' = deserted
  BY <1>1 DEF Bind, Server
<1>3. UNCHANGED <<pidfile, tmpfile, cmd, irregular>>
  BY DEF Bind
<1>4. \A q \in Pids, e \in Dirs :
         Serves(q, e)' <=> Serves(q, e) /\ ~(q = p /\ proc'[p] = Free)
  <2> SUFFICES ASSUME NEW q \in Pids, NEW e \in Dirs
               PROVE  Serves(q, e)' <=> Serves(q, e) /\ ~(q = p /\ proc'[p] = Free)
    OBVIOUS
  <2>1. CASE q # p
    BY <2>1, <1>2 DEF Serves, TypeOK
  <2>2. CASE q = p /\ proc'[p] = Free
    BY <2>2 DEF Serves, Server, States, Free
  <2>3. CASE q = p /\ proc'[p] = Server("listening", d0)
    <3>1. Serves(q, e) <=> e = d0
      BY <2>3, <1>1 DEF Serves, Server, States
    <3>2. Serves(q, e)' <=> e = d0
      BY <2>3 DEF Serves, Server, States
    <3> QED BY <2>3, <3>1, <3>2 DEF Server, Free
  <2> QED BY <2>1, <2>2, <2>3, <1>2 DEF TypeOK
<1>5. TypeOK'
  <2>1. proc' \in [Pids -> [is : States \cup {"free", "foreign", "doomed"}, dir : Dirs \cup {None}]]
    BY <1>2 DEF TypeOK, Server, States, Free
  <2>2. \A q \in Pids : proc'[q] \in {Free, Foreign, Doomed} \/ \E d \in Dirs : Serves(q, d)'
    <3>1. \A q \in Pids : q # p => proc'[q] = proc[q]
      BY <1>2 DEF TypeOK
    <3>2. proc'[p] = Free \/ Serves(p, d0)'
      BY <1>2 DEF TypeOK, Serves, States
    <3> QED BY <3>1, <3>2, <1>4 DEF TypeOK, Server, Free, Foreign, Doomed
  <2>3. deserted' \subseteq [pid : Pids, dir : Dirs]
    BY <1>2 DEF TypeOK
  <2> QED BY <2>1, <2>2, <2>3, <1>3 DEF TypeOK
<1>6. NoRivals'
  BY <1>3 DEF NoRivals
<1>7. deserted \subseteq deserted' /\ (proc'[p] = Free => Entry(p, d0) \in deserted')
  BY <1>2 DEF TypeOK, Server, Free
<1>8. StartsAlone'
  <2> SUFFICES ASSUME NEW d \in Regular', NEW b \in Commands, cmd'[b].dir = d
               PROVE  IsAlone(b, d)'
    BY DEF StartsAlone
  <2>1. ASSUME cmd[b].at \in {"tmp", "rename"}
        PROVE  \/ proc'[cmd[b].pid] \in {Server("booting", d), Server("listening", d)}
               \/ Entry(cmd[b].pid, d) \in deserted'
    <3>1. \/ proc[cmd[b].pid] \in {Server("booting", d), Server("listening", d)}
          \/ Entry(cmd[b].pid, d) \in deserted
      BY <2>1, <1>3 DEF StartsAlone
    <3>2. CASE cmd[b].pid # p
      BY <3>1, <3>2, <2>1, <1>2, <1>7 DEF TypeOK
    <3>3. CASE cmd[b].pid = p /\ Entry(cmd[b].pid, d) \notin deserted
      <4>1. d = d0
        BY <3>1, <3>3, <1>1 DEF Server
      <4> QED BY <4>1, <3>3, <1>2, <1>7 DEF TypeOK
    <3> QED BY <3>2, <3>3, <1>7
  <2> QED BY <2>1, <1>3, <1>4 DEF StartsAlone
<1>9. StopsKnowTheFile'
  <2>1. \A b \in Commands : cmd[b].at \in StopSteps => cmd[b].pid \in Pids
    BY DEF TypeOK
  <2> QED BY <2>1, <1>3, <1>4 DEF StopsKnowTheFile
<1>10. StoppingHasStop'
  BY <1>2, <1>3 DEF StoppingHasStop, TypeOK, Server, Free
<1>11. ServersAreManaged'
  BY <1>3, <1>4 DEF ServersAreManaged
<1>12. StaleIsExplained'
  <2> SUFFICES ASSUME NEW d \in Regular', NEW q \in Pids, pidfile'[d] = q
               PROVE  \/ Serves(q, d)' \/ Entry(q, d) \in deserted'
                      \/ \E b \in Commands : Stops(b, d, q)'
    BY DEF StaleIsExplained
  <2>1. Serves(q, d) \/ Entry(q, d) \in deserted \/ \E b \in Commands : Stops(b, d, q)
    BY <1>3 DEF StaleIsExplained
  <2>2. Serves(p, d) => d = d0
    BY <1>1 DEF Serves, Server
  <2> QED BY <2>1, <2>2, <1>3, <1>4, <1>7
<1> QED BY <1>5, <1>6, <1>8, <1>9, <1>10, <1>11, <1>12

LEMMA StopStep ==
    ASSUME IInv, NEW c \in Commands, NEW d0 \in Dirs, Stop(c, d0)
    PROVE  IInv'
<1> DEFINE p    == pidfile[d0]
           next == IF Running(p) THEN "signal" ELSE "remove"
<1> USE NoneAssumption DEF IInv, Regular, Active, Stops, IsAlone, Entry, StartSteps, StopSteps, Steps, Idle, Doing
<1>1. /\ cmd[c] = Idle /\ p \in Pids
      /\ \A b \in Commands : cmd'[b] = IF b = c THEN Doing(next, d0, p) ELSE cmd[b]
      /\ UNCHANGED <<proc, pidfile, tmpfile, deserted>>
      /\ irregular \subseteq irregular' /\ irregular' \subseteq irregular \cup {d0}
  BY DEF Stop, Begin, TypeOK
<1>2. \A q \in Pids, e \in Dirs : Serves(q, e)' <=> Serves(q, e)
  BY <1>1 DEF Serves
<1>3. TypeOK'
  BY <1>1 DEF Stop, Begin, TypeOK, Serves
<1>4. NoRivals'
  <2>1. d0 \in Regular' => \A b \in Commands \ {c} : Active(b, d0) => cmd[b].at \in StopSteps
    BY DEF Stop, Begin, Busy, TypeOK
  <2> QED BY <2>1, <1>1 DEF NoRivals
<1>5. StartsAlone'
  BY <1>1, <1>2 DEF StartsAlone
<1>6. StopsKnowTheFile'
  <2>1. next = "remove" => ~Serves(p, d0)
    BY DEF Running, Serves, Server, States, Free
  <2> QED BY <2>1, <1>1 DEF StopsKnowTheFile, Serves
<1>7. \A b \in Commands, d \in Dirs, q \in Pids : Stops(b, d, q) => Stops(b, d, q)'
  BY <1>1
<1>8. StoppingHasStop'
  BY <1>1, <1>7 DEF StoppingHasStop
<1>9. ServersAreManaged'
  BY <1>1, <1>2 DEF ServersAreManaged
<1>10. StaleIsExplained'
  BY <1>1, <1>2, <1>7 DEF StaleIsExplained
<1> QED BY <1>3, <1>4, <1>5, <1>6, <1>8, <1>9, <1>10

LEMMA ExitStep ==
    ASSUME IInv, NEW p \in Pids, Exit(p)
    PROVE  IInv'
<1> USE NoneAssumption DEF IInv, Regular, Active, Stops, IsAlone, Entry, StartSteps, StopSteps, Steps, Idle, Doing
<1>1. /\ \A q \in Pids : proc'[q] = IF q = p THEN Free ELSE proc[q]
      /\ deserted \subseteq deserted'
      /\ \A d \in Dirs : proc[p] \in {Server("booting", d), Server("listening", d)} => Entry(p, d) \in deserted'
      /\ UNCHANGED <<pidfile, tmpfile, cmd, irregular>>
  BY DEF Exit, TypeOK, Server
<1>2. \A q \in Pids, e \in Dirs : Serves(q, e)' <=> Serves(q, e) /\ q # p
  BY <1>1 DEF Serves, Server, States, Free
<1>3. TypeOK'
  <2>1. proc' \in [Pids -> [is : States \cup {"free", "foreign", "doomed"}, dir : Dirs \cup {None}]]
    BY DEF Exit, TypeOK, Free
  <2>2. deserted' \subseteq [pid : Pids, dir : Dirs]
    BY DEF Exit, TypeOK, Serves, Server, States, Free, Foreign, Doomed
  <2> QED BY <2>1, <2>2, <1>1, <1>2 DEF TypeOK
<1>4. NoRivals'
  BY <1>1 DEF NoRivals
<1>5. StartsAlone'
  BY <1>1, <1>2 DEF TypeOK, StartsAlone
<1>6. StopsKnowTheFile'
  <2>1. \A b \in Commands : cmd[b].at \in StopSteps => cmd[b].pid \in Pids
    BY DEF TypeOK
  <2> QED BY <2>1, <1>1, <1>2 DEF StopsKnowTheFile
<1>7. StoppingHasStop'
  BY <1>1 DEF StoppingHasStop, Server, Free
<1>8. ServersAreManaged'
  BY <1>1, <1>2 DEF ServersAreManaged
<1>9. StaleIsExplained'
  <2> SUFFICES ASSUME NEW d \in Regular', NEW q \in Pids, pidfile'[d] = q
               PROVE  \/ Serves(q, d)' \/ Entry(q, d) \in deserted'
                      \/ \E b \in Commands : Stops(b, d, q)'
    BY DEF StaleIsExplained
  <2>1. Serves(q, d) \/ Entry(q, d) \in deserted \/ \E b \in Commands : Stops(b, d, q)
    BY <1>1 DEF StaleIsExplained
  <2>2. Serves(p, d) => \/ proc[p] \in {Server("booting", d), Server("listening", d)}
                        \/ \E b \in Commands : Stops(b, d, p)
    BY <1>1 DEF Serves, States, StoppingHasStop
  <2> QED BY <2>1, <2>2, <1>1, <1>2
<1> QED BY <1>3, <1>4, <1>5, <1>6, <1>7, <1>8, <1>9

LEMMA ReuseStep ==
    ASSUME IInv, NEW p \in Pids, Reuse(p)
    PROVE  IInv'
<1> USE NoneAssumption DEF IInv, Regular, Active, Stops, IsAlone, Entry
<1>1. /\ proc[p] = Free
      /\ \A q \in Pids : proc'[q] = IF q = p THEN Foreign ELSE proc[q]
      /\ UNCHANGED <<pidfile, tmpfile, cmd, irregular, deserted>>
  BY DEF Reuse, TypeOK
<1>2. \A q \in Pids, e \in Dirs : Serves(q, e)' <=> Serves(q, e)
  BY <1>1 DEF Serves, Server, States, Free, Foreign, Doomed
<1>3. TypeOK'
  BY <1>1, <1>2 DEF Reuse, TypeOK, Foreign, Doomed, Server
<1>4. NoRivals'
  BY <1>1 DEF NoRivals
<1>5. StartsAlone'
  BY <1>1, <1>2 DEF TypeOK, StartsAlone, Server, Free, Idle, Doing
<1>6. StopsKnowTheFile'
  BY <1>1, <1>2 DEF TypeOK, StopsKnowTheFile, Idle, Doing, StopSteps
<1>7. StoppingHasStop'
  BY <1>1 DEF StoppingHasStop, Server, Foreign, Doomed
<1>8. ServersAreManaged'
  BY <1>1, <1>2 DEF ServersAreManaged
<1>9. StaleIsExplained'
  BY <1>1, <1>2 DEF StaleIsExplained
<1> QED BY <1>3, <1>4, <1>5, <1>6, <1>7, <1>8, <1>9

\* The steps that only move one command along.
LEMMA WaitOrTimeoutStep ==
    ASSUME IInv, NEW c \in Commands, Wait(c) \/ Timeout(c)
    PROVE  IInv'
<1> USE NoneAssumption DEF IInv, Regular, Active, Stops, IsAlone, Entry, StartSteps, StopSteps, Steps, Idle, Doing
<1>1. PICK next \in {"remove", "kill"} :
         /\ cmd[c].at = "wait" /\ cmd' = [cmd EXCEPT ![c].at = next]
         /\ next = "remove" => proc[cmd[c].pid] = Free
         /\ UNCHANGED <<proc, pidfile, tmpfile, irregular, deserted>>
  BY DEF Wait, Timeout, Goto, Running
<1>2. /\ cmd[c].dir \in Dirs /\ cmd[c].pid \in Pids
      /\ \A b \in Commands : cmd'[b] = IF b = c THEN Doing(next, cmd[c].dir, cmd[c].pid) ELSE cmd[b]
  BY <1>1 DEF TypeOK
<1>3. \A q \in Pids, e \in Dirs : Serves(q, e)' <=> Serves(q, e)
  BY <1>1 DEF Serves
<1>4. TypeOK'
  <2>1. cmd' \in [Commands -> [at : Steps, dir : Dirs \cup {None}, pid : Pids \cup {None}]]
    BY <1>1 DEF TypeOK
  <2> QED BY <2>1, <1>1, <1>2, <1>3 DEF TypeOK
<1>5. NoRivals'
  BY <1>1, <1>2 DEF NoRivals
<1>6. StartsAlone'
  BY <1>1, <1>2, <1>3 DEF StartsAlone
<1>7. StopsKnowTheFile'
  <2>1. next = "remove" => \A d \in Dirs : ~Serves(cmd[c].pid, d)
    BY <1>1 DEF Serves, Server, States, Free
  <2> QED BY <2>1, <1>1, <1>2 DEF StopsKnowTheFile, Serves
<1>8. \A b \in Commands, d \in Dirs, q \in Pids : Stops(b, d, q) => Stops(b, d, q)'
  BY <1>1, <1>2
<1>9. StoppingHasStop'
  BY <1>1, <1>8 DEF StoppingHasStop
<1>10. ServersAreManaged'
  BY <1>1, <1>2, <1>3 DEF ServersAreManaged
<1>11. StaleIsExplained'
  BY <1>1, <1>3, <1>8 DEF StaleIsExplained
<1> QED BY <1>4, <1>5, <1>6, <1>7, <1>9, <1>10, <1>11

\* The steps by which a command ends and leaves everything as it is: if it is cut short, its
\* directory is irregular from then on; and so is the directory of a foreground start.
LEMMA EndStep ==
    ASSUME IInv, NEW c \in Commands, Attend(c) \/ SignalDenied(c) \/ Interrupt(c)
    PROVE  IInv'
<1> USE NoneAssumption DEF IInv, Regular, Active, Stops, IsAlone, Entry, StartSteps, StopSteps, Steps, Idle, Doing
<1>1. /\ cmd[c].dir \in Dirs
      /\ \A b \in Commands : cmd'[b] = IF b = c THEN Idle ELSE cmd[b]
      /\ UNCHANGED <<proc, pidfile, tmpfile, deserted>>
  BY DEF Attend, SignalDenied, Interrupt, End, TypeOK
<1>2. irregular' = irregular \cup {cmd[c].dir}
  BY <1>1 DEF Attend, SignalDenied, Interrupt, StartsAlone
<1>3. \A q \in Pids, e \in Dirs : Serves(q, e)' <=> Serves(q, e)
  BY <1>1 DEF Serves
<1>4. TypeOK'
  <2>1. cmd' \in [Commands -> [at : Steps, dir : Dirs \cup {None}, pid : Pids \cup {None}]]
    BY DEF Attend, SignalDenied, Interrupt, End, TypeOK
  <2> QED BY <2>1, <1>1, <1>2, <1>3 DEF TypeOK
<1>5. \A d \in Regular' : d \in Regular /\ d # cmd[c].dir
  BY <1>2
<1>6. NoRivals'
  BY <1>1, <1>5 DEF NoRivals
<1>7. StartsAlone'
  BY <1>1, <1>3, <1>5 DEF StartsAlone
<1>8. StopsKnowTheFile'
  BY <1>1, <1>5 DEF StopsKnowTheFile, Serves
<1>9. \A b \in Commands, d \in Regular', q \in Pids : Stops(b, d, q) => Stops(b, d, q)'
  BY <1>1, <1>5
<1>10. StoppingHasStop'
  BY <1>1, <1>5, <1>9 DEF StoppingHasStop
<1>11. ServersAreManaged'
  <2> SUFFICES ASSUME NEW d \in Regular', NEW q \in Pids, Serves(q, d)'
               PROVE  pidfile'[d] = q \/ \E b \in Commands : /\ cmd'[b].at \in {"tmp", "rename"}
                                                             /\ cmd'[b].dir = d /\ cmd'[b].pid = q
    BY DEF ServersAreManaged
  <2> QED BY <1>1, <1>3, <1>5 DEF ServersAreManaged
<1>12. StaleIsExplained'
  BY <1>1, <1>3, <1>5, <1>9 DEF StaleIsExplained
<1> QED BY <1>4, <1>6, <1>7, <1>8, <1>10, <1>11, <1>12

-----------------------------------------------------------------------------
LEMMA InitIInv == Init => IInv
BY NoneAssumption
   DEF Init, IInv, TypeOK, NoRivals, StartsAlone, StopsKnowTheFile, StoppingHasStop,
       ServersAreManaged, StaleIsExplained, Regular, Active, Stops, IsAlone, Serves, Server, Free, Foreign, Doomed,
       States, Steps, StartSteps, StopSteps, Idle, Doing

LEMMA NextIInv == IInv /\ [Next]_vars => IInv'
<1> SUFFICES ASSUME IInv, [Next]_vars PROVE IInv'
  OBVIOUS
<1>1. ASSUME NEW c \in Commands, NEW d \in Dirs, Start(c, d) \/ Stop(c, d) PROVE IInv'
  BY <1>1, StartStep, StopStep
<1>2. ASSUME NEW c \in Commands, Proceed(c) PROVE IInv'
  BY <1>2, SpawnStep, WriteTmpStep, RenameStep, SignalStep, WaitOrTimeoutStep, KillStep,
     RemoveStep, EndStep DEF Proceed
<1>3. ASSUME NEW c \in Commands, Interrupt(c) PROVE IInv'
  BY <1>3, EndStep
<1>4. ASSUME NEW p \in Pids, Bind(p) \/ Exit(p) \/ Reuse(p) PROVE IInv'
  BY <1>4, BindStep, ExitStep, ReuseStep
<1>5. CASE UNCHANGED vars
  BY <1>5 DEF vars, IInv, TypeOK, NoRivals, StartsAlone, StopsKnowTheFile, StoppingHasStop,
       ServersAreManaged, StaleIsExplained, Regular, Active, Stops, IsAlone, Serves
<1> QED BY <1>1, <1>2, <1>3, <1>4, <1>5 DEF Next

\* In every reachable state the commands of a regular directory may take for granted what
\* IInv says.
THEOREM AlwaysIInv == Spec => []IInv
BY InitIInv, NextIInv, PTL DEF Spec

\* Every variable stays within its type, whatever commands and processes do.
THEOREM TypeCorrect == Spec => []TypeOK
<1>1. IInv => TypeOK
  BY DEF IInv
<1> QED BY <1>1, AlwaysIInv, PTL

\* As long as no start overlaps with another command and none is cut short, at most one
\* process serves a directory and writes its ledger.
THEOREM AlwaysSoleServer == Spec => []SoleServer
<1>1. IInv => SoleServer
  BY DEF IInv, SoleServer, ServersAreManaged, StartsAlone, IsAlone, Regular
<1> QED BY <1>1, AlwaysIInv, PTL

\* In such a directory the server can be found by its pid file from the moment the start
\* that spawned it ends, for as long as it lives.
THEOREM AlwaysManaged == Spec => []ServersAreManaged
<1>1. IInv => ServersAreManaged
  BY DEF IInv
<1> QED BY <1>1, AlwaysIInv, PTL

\* In such a directory only a server that exited unasked leaves a pid behind that may come to
\* name another process.
THEOREM AlwaysExplained == Spec => []StaleIsExplained
<1>1. IInv => StaleIsExplained
  BY DEF IInv
<1> QED BY <1>1, AlwaysIInv, PTL
=============================================================================
