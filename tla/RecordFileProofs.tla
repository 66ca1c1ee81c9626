-------------------------- MODULE RecordFileProofs --------------------------
(***************************************************************************)
(* A file replaced by RecordFile is whole at any moment, keeps what was    *)
(* returned, and implements AtomicFile, for any number of calls.           *)
(***************************************************************************)
EXTENDS RecordFile, TLAPS

\* Where each call stands with its inode: unseen until it is renamed, written and synced
\* by then, and older than what the name leads to until the directory is synced.
CallOK(c) ==
    /\ pc[c] \in {"create", "write", "fsync", "rename"} => c \notin maybe
    /\ pc[c] \in {"fsync", "rename"} => data[c] = "whole"
    /\ pc[c] = "rename" => c \in durable
    /\ pc[c] = "dirsync" => age[c] <= age[path]

IInv ==
    /\ TypeOK
    /\ path \in maybe
    /\ WholeAlways
    /\ \A c \in Calls : CallOK(c)
    /\ \A i \in Inodes : age[i] <= renamed
    /\ ReturnedIsDurable

-----------------------------------------------------------------------------
LEMMA InitInv == Init => IInv
  BY CallsAssumption
  DEF Init, IInv, TypeOK, WholeAlways, CallOK, ReturnedIsDurable, Inodes, Working

LEMMA WriteInv == ASSUME NEW c \in Calls, IInv, Create(c) \/ Write(c) PROVE IInv'
<1>1. TypeOK'
  BY DEF IInv, TypeOK, Create, Write, Goto, Working, Inodes
<1>2. c \notin maybe
  BY DEF IInv, CallOK, Create, Write
<1>3. UNCHANGED <<path, maybe, durable, renamed, age>> /\ \A i \in maybe : data'[i] = data[i]
  BY <1>2 DEF Create, Write, IInv, TypeOK
<1>4. \A d \in Calls : CallOK(d)'
  BY DEF Create, Write, IInv, CallOK, TypeOK, Goto, Inodes
<1>5. ReturnedIsDurable'
  BY <1>3 DEF Create, Write, IInv, ReturnedIsDurable, Goto, TypeOK
<1> QED
  BY <1>1, <1>3, <1>4, <1>5 DEF IInv, WholeAlways

LEMMA FsyncInv == ASSUME NEW c \in Calls, IInv, Fsync(c) PROVE IInv'
<1>1. TypeOK'
  BY DEF IInv, TypeOK, Fsync, Goto, Working, Inodes
<1>2. \A d \in Calls : CallOK(d)'
  BY DEF Fsync, IInv, CallOK, TypeOK, Goto
<1>3. ReturnedIsDurable'
  BY DEF Fsync, IInv, ReturnedIsDurable, Goto, TypeOK
<1> QED
  BY <1>1, <1>2, <1>3 DEF Fsync, IInv, WholeAlways

LEMMA RenameInv == ASSUME NEW c \in Calls, IInv, Rename(c) PROVE IInv'
<1>1. TypeOK'
  BY DEF IInv, TypeOK, Rename, Goto, Working, Inodes
<1>2. c \in Inodes /\ age'[c] = renamed + 1 /\ renamed' = renamed + 1 /\ renamed \in Nat
  BY DEF Rename, IInv, TypeOK, Inodes
<1>3. \A i \in Inodes : i # c => age'[i] = age[i]
  BY DEF Rename, IInv, TypeOK
<1>4. \A i \in Inodes : age[i] \in Nat /\ age[i] <= renamed
  BY DEF IInv, TypeOK
<1>5. \A i \in Inodes : age'[i] <= renamed'
  BY <1>2, <1>3, <1>4
<1>6. \A d \in Calls : CallOK(d)'
  BY <1>2, <1>5 DEF Rename, IInv, CallOK, TypeOK, Goto, Inodes
<1>7. ReturnedIsDurable'
  <2> SUFFICES ASSUME NEW d \in Calls \ Unsynced, pc'[d] = "done", NEW i \in maybe'
               PROVE age'[d] <= age'[i]
    BY DEF ReturnedIsDurable
  <2>1. d # c /\ pc[d] = "done" /\ d \in Inodes
    BY DEF Rename, Goto, IInv, TypeOK, Inodes
  <2>2. CASE i = c
    BY <2>1, <2>2, <1>2, <1>3, <1>4
  <2>3. CASE i # c
    BY <2>1, <2>3, <1>3 DEF Rename, IInv, ReturnedIsDurable, TypeOK
  <2> QED
    BY <2>2, <2>3
<1>8. path' \in maybe' /\ WholeAlways'
  BY DEF Rename, IInv, CallOK, WholeAlways
<1> QED
  BY <1>1, <1>5, <1>6, <1>7, <1>8 DEF IInv

LEMMA DirsyncInv == ASSUME NEW c \in Calls, IInv, Dirsync(c) PROVE IInv'
<1>1. TypeOK'
  BY DEF IInv, TypeOK, Dirsync, Goto, Working, Inodes
<1>2. path' \in maybe' /\ maybe' \subseteq maybe /\ WholeAlways'
  BY DEF Dirsync, IInv, WholeAlways
<1>3. \A d \in Calls : CallOK(d)'
  BY <1>2 DEF Dirsync, IInv, CallOK, TypeOK, Goto
<1>4. ReturnedIsDurable'
  <2> SUFFICES ASSUME NEW d \in Calls \ Unsynced, pc'[d] = "done", NEW i \in maybe'
               PROVE age[d] <= age[i]
    BY DEF ReturnedIsDurable, Dirsync
  <2>1. CASE d = c
    BY <2>1 DEF Dirsync, IInv, CallOK
  <2>2. CASE d # c
    BY <2>2, <1>2 DEF Dirsync, Goto, IInv, TypeOK, ReturnedIsDurable
  <2> QED
    BY <2>1, <2>2
<1> QED
  BY <1>1, <1>2, <1>3, <1>4 DEF Dirsync, IInv

LEMMA FailInv == ASSUME NEW c \in Calls, IInv, Fail(c) PROVE IInv'
  BY DEF IInv, TypeOK, WholeAlways, CallOK, ReturnedIsDurable, Fail, Goto, Working, file

LEMMA PowerLossInv == ASSUME IInv, PowerLoss PROVE IInv'
<1>1. TypeOK'
  BY DEF IInv, TypeOK, PowerLoss, Working
<1>2. \A i \in maybe : data'[i] = "whole" /\ i \in durable'
  BY DEF IInv, TypeOK, WholeAlways, PowerLoss
<1>3. path' \in maybe' /\ maybe' \subseteq maybe
  BY DEF PowerLoss
<1>4. \A d \in Calls : CallOK(d)'
  BY <1>3 DEF PowerLoss, IInv, CallOK, TypeOK, Working
<1>5. ReturnedIsDurable'
  BY <1>3 DEF PowerLoss, IInv, ReturnedIsDurable, TypeOK, Working
<1> QED
  BY <1>1, <1>2, <1>3, <1>4, <1>5 DEF PowerLoss, IInv, WholeAlways

LEMMA StepInv == IInv /\ [Next]_vars => IInv'
<1> SUFFICES ASSUME IInv, [Next]_vars PROVE IInv'
  OBVIOUS
<1>1. CASE UNCHANGED vars
  BY <1>1 DEF IInv, TypeOK, WholeAlways, CallOK, ReturnedIsDurable, vars, file
<1>2. CASE \E c \in Calls : Step(c)
  BY <1>2, WriteInv, FsyncInv, RenameInv, DirsyncInv, FailInv DEF Step
<1>3. CASE PowerLoss
  BY <1>3, PowerLossInv
<1> QED
  BY <1>1, <1>2, <1>3 DEF Next

\* The inductive invariant: the file and every inode the name may lead to are whole and
\* on disk, and no call has shown its inode before it is.
THEOREM AlwaysInv == Spec => []IInv
  BY InitInv, StepInv, PTL DEF Spec

\* Every variable keeps its type.
THEOREM TypeCorrect == Spec => []TypeOK
<1>1. IInv => TypeOK
  BY DEF IInv
<1> QED
  BY <1>1, AlwaysInv, PTL

\* A reader finds a whole file, at any moment and after a power loss at any moment.
THEOREM AlwaysWhole == Spec => []WholeAlways
<1>1. IInv => WholeAlways
  BY DEF IInv
<1> QED
  BY <1>1, AlwaysInv, PTL

\* What a call that returned has written is never undone by a power loss.
THEOREM ReturnedAlwaysDurable == Spec => []ReturnedIsDurable
<1>1. IInv => ReturnedIsDurable
  BY DEF IInv
<1> QED
  BY <1>1, AlwaysInv, PTL

-----------------------------------------------------------------------------
(* The refinement.                                                         *)

LEMMA InitRefines == Init => Atomic!Init
<1> SUFFICES ASSUME Init PROVE Atomic!Init
  OBVIOUS
<1>1. Content = Original
  BY DEF Init, Content, Inodes
<1>2. \A c \in Calls : Progress(c) = "open"
  BY DEF Init, Progress
<1> QED
  BY <1>1, <1>2 DEF Init, Atomic!Init

LEMMA StepRefines ==
    IInv /\ IInv' /\ [Next]_vars => [Atomic!Next]_<<Content, maybe, [c \in Calls |-> Progress(c)]>>
<1> SUFFICES ASSUME IInv, IInv', [Next]_vars
             PROVE Atomic!Next \/ UNCHANGED <<Content, maybe, [c \in Calls |-> Progress(c)]>>
  OBVIOUS
<1>0. Content = path /\ Content' = path'
  BY DEF IInv, WholeAlways, Content
<1>1. CASE UNCHANGED vars
  BY <1>1 DEF vars, file, Content, Progress
<1>2. ASSUME NEW c \in Calls, Create(c) \/ Write(c) \/ Fsync(c)
      PROVE UNCHANGED <<Content, maybe, [d \in Calls |-> Progress(d)]>>
  <2>1. UNCHANGED <<path, maybe>>
    BY <1>2 DEF Create, Write, Fsync
  <2>2. \A d \in Calls : Progress(d)' = Progress(d)
    BY <1>2 DEF Create, Write, Fsync, Goto, Progress, IInv, TypeOK
  <2> QED
    BY <1>0, <2>1, <2>2
<1>3. ASSUME NEW c \in Calls, Rename(c) PROVE Atomic!Take(c)
  <2>1. Progress(c) = "open" /\ Progress(c)' = "taken"
    BY <1>3 DEF Rename, Goto, Progress, IInv, TypeOK
  <2>2. \A d \in Calls : d # c => Progress(d)' = Progress(d)
    BY <1>3 DEF Rename, Goto, Progress, IInv, TypeOK
  <2> QED
    BY <1>0, <1>3, <2>1, <2>2 DEF Rename, Atomic!Take
<1>4. ASSUME NEW c \in Calls, Dirsync(c) PROVE Atomic!Return(c)
  <2>1. Progress(c) = "taken" /\ Progress(c)' = "returned"
    BY <1>4 DEF Dirsync, Goto, Progress, IInv, TypeOK
  <2>2. \A d \in Calls : d # c => Progress(d)' = Progress(d)
    BY <1>4 DEF Dirsync, Goto, Progress, IInv, TypeOK
  <2> QED
    BY <1>0, <1>4, <2>1, <2>2 DEF Dirsync, Atomic!Return
<1>5. ASSUME NEW c \in Calls, Fail(c) PROVE Atomic!Abandon(c)
  <2>1. Progress(c) \in {"open", "taken"} /\ Progress(c)' = "gone"
    BY <1>5 DEF Fail, Goto, Progress, Working, IInv, TypeOK
  <2>2. \A d \in Calls : d # c => Progress(d)' = Progress(d)
    BY <1>5 DEF Fail, Goto, Progress, IInv, TypeOK
  <2>3. UNCHANGED <<path, maybe>>
    BY <1>5 DEF Fail, file
  <2> QED
    BY <1>0, <2>1, <2>2, <2>3 DEF Atomic!Abandon
<1>6. ASSUME PowerLoss PROVE Atomic!PowerLoss
  <2> DEFINE begun == {c \in Calls : pc[c] \in {"write", "fsync", "rename"}}
  <2>1. \A c \in Calls : c \in begun => Progress(c) = "open"
    BY DEF Progress
  <2>2. \A c \in Calls : Progress(c)' = IF Progress(c) = "taken" \/ c \in begun
                                        THEN "gone" ELSE Progress(c)
    BY <1>6 DEF PowerLoss, Progress, Working, IInv, TypeOK
  <2>3. begun \in SUBSET {c \in Calls : Progress(c) = "open"}
    BY <2>1
  <2> HIDE DEF begun
  <2> QED
    BY <1>0, <1>6, <2>2, <2>3 DEF PowerLoss, Atomic!PowerLoss
<1>7. CASE \E c \in Calls : Step(c)
  BY <1>2, <1>3, <1>4, <1>5, <1>7 DEF Step, Atomic!Next
<1> QED
  BY <1>1, <1>6, <1>7 DEF Next, Atomic!Next

\* The protocol of temporary file, sync, rename and directory sync is one atomic step to
\* its readers, whatever calls overlap, fail or die, and whenever the power goes.
THEOREM ReplacementIsAtomic == Spec => ReplacesAtomically
<1>1. Init => Atomic!Init
  BY InitRefines
<1>2. IInv /\ IInv' /\ [Next]_vars => [Atomic!Next]_<<Content, maybe, [c \in Calls |-> Progress(c)]>>
  BY StepRefines
<1> QED
  BY <1>1, <1>2, AlwaysInv, PTL DEF Spec, ReplacesAtomically, Atomic!Spec
=============================================================================
