----------------------------- MODULE RecordFile -----------------------------
(***************************************************************************)
(* How one file is replaced: atomic_write_private_json of the job ledger,  *)
(* which auth_store has a copy of for its sessions, users, projects and    *)
(* keys.  Each call writes a temporary file of its own, syncs it, renames  *)
(* it over the file and syncs the directory.  Calls of any number of       *)
(* threads and processes overlap; each may fail or die between two steps,  *)
(* and the power may go.                                                   *)
(*                                                                         *)
(* The file system (external): an inode per call, named after the call.    *)
(* An inode that was not synced may be torn after a power loss, and a      *)
(* rename may be undone by one until the directory is synced.              *)
(***************************************************************************)
EXTENDS Naturals, FiniteSets

CONSTANTS
    Calls, Original,
    Unsynced    \* the calls that cannot open or sync the directory

ASSUME CallsAssumption == Original \notin Calls /\ Unsynced \subseteq Calls

Inodes == Calls \cup {Original}

VARIABLES
    path,     \* the inode the file name leads to
    data,     \* what each inode holds: "none", "torn" or "whole"
    durable,  \* the inodes whose data are on disk
    maybe,    \* the inodes the name may lead to after a power loss
    pc,       \* how far each call is
    renamed,  \* history: how many renames there have been
    age       \* history: which rename brought the inode to the name

file == <<path, data, durable, maybe>>
vars == <<file, pc, renamed, age>>

Init ==
    /\ path = Original
    /\ data = [i \in Inodes |-> IF i = Original THEN "whole" ELSE "none"]
    /\ durable = {Original}
    /\ maybe = {Original}
    /\ pc = [c \in Calls |-> "create"]
    /\ renamed = 0
    /\ age = [i \in Inodes |-> 0]

Working == {"write", "fsync", "rename", "dirsync"}

TypeOK ==
    /\ path \in Inodes
    /\ data \in [Inodes -> {"none", "torn", "whole"}]
    /\ durable \subseteq Inodes
    /\ maybe \subseteq Inodes
    /\ pc \in [Calls -> {"create", "done", "gone"} \cup Working]
    /\ renamed \in Nat
    /\ age \in [Inodes -> Nat]

-----------------------------------------------------------------------------
Goto(c, label) == pc' = [pc EXCEPT ![c] = label]

\* mkstemp: an empty file that nobody else writes.
Create(c) ==
    /\ pc[c] = "create"
    /\ data' = [data EXCEPT ![c] = "torn"]
    /\ Goto(c, "write")
    /\ UNCHANGED <<path, durable, maybe, renamed, age>>

Write(c) ==
    /\ pc[c] = "write"
    /\ data' = [data EXCEPT ![c] = "whole"]
    /\ Goto(c, "fsync")
    /\ UNCHANGED <<path, durable, maybe, renamed, age>>

\* Mutant of Fsync: flushed, but not synced.
FsyncNot(c) ==
    /\ pc[c] = "fsync"
    /\ Goto(c, "rename")
    /\ UNCHANGED <<file, renamed, age>>

Fsync(c) ==
    /\ pc[c] = "fsync"
    /\ durable' = durable \cup {c}
    /\ Goto(c, "rename")
    /\ UNCHANGED <<path, data, maybe, renamed, age>>

\* Mutants of Rename: the old file is unlinked first; the new content is copied over it.
RenameByUnlink(c) ==
    /\ pc[c] = "rename"
    /\ path' = "nowhere"
    /\ UNCHANGED <<data, durable, maybe, pc, renamed, age>>
RenameByCopy(c) ==
    /\ pc[c] = "rename"
    /\ path' = c
    /\ data' = [data EXCEPT ![c] = "torn"]
    /\ Goto(c, "dirsync")
    /\ renamed' = renamed + 1
    /\ age' = [age EXCEPT ![c] = renamed + 1]
    /\ UNCHANGED <<durable, maybe>>

Rename(c) ==
    /\ pc[c] = "rename"
    /\ path' = c
    /\ maybe' = maybe \cup {c}
    /\ Goto(c, "dirsync")
    /\ renamed' = renamed + 1
    /\ age' = [age EXCEPT ![c] = renamed + 1]
    /\ UNCHANGED <<data, durable>>

\* Mutant of Dirsync: the directory is not synced.
DirsyncNot(c) ==
    /\ pc[c] = "dirsync"
    /\ Goto(c, "done")
    /\ UNCHANGED <<file, renamed, age>>

\* An error of the directory sync is swallowed.
Dirsync(c) ==
    /\ pc[c] = "dirsync"
    /\ maybe' = IF c \in Unsynced THEN maybe ELSE {path}
    /\ Goto(c, "done")
    /\ UNCHANGED <<path, data, durable, renamed, age>>

\* An exception on the way to the rename, after which the temporary file is removed; or
\* the process dies, wherever it is.  The data of an inode without a name do not matter.
Fail(c) ==
    /\ pc[c] \in Working
    /\ Goto(c, "gone")
    /\ UNCHANGED <<file, renamed, age>>

\* Data that were not synced may be lost, and every process is gone.
PowerLoss ==
    /\ path' \in maybe
    /\ maybe' = {path'}
    /\ \E lost \in SUBSET (Inodes \ durable) :
          data' = [i \in Inodes |-> IF i \in lost /\ data[i] = "whole" THEN "torn" ELSE data[i]]
    /\ durable' = {i \in Inodes : data[i] # "none"}
    /\ pc' = [c \in Calls |-> IF pc[c] \in Working THEN "gone" ELSE pc[c]]
    /\ UNCHANGED <<renamed, age>>

Step(c) == Create(c) \/ Write(c) \/ Fsync(c) \/ Rename(c) \/ Dirsync(c) \/ Fail(c)

Next == (\E c \in Calls : Step(c)) \/ PowerLoss

Spec == Init /\ [][Next]_vars

-----------------------------------------------------------------------------
(* Properties.                                                             *)

\* The name leads to a whole file at any moment, and does so after a power loss at any
\* moment, whatever calls overlap, fail or die.
WholeAlways == \A i \in maybe \cup {path} : data[i] = "whole" /\ i \in durable

\* A call that returned is not undone by a power loss: what can be read then was written
\* by it or came after it.
ReturnedIsDurable ==
    \A c \in Calls \ Unsynced : pc[c] = "done" => \A i \in maybe : age[c] <= age[i]

Content == IF data[path] = "whole" THEN path ELSE "torn"

Progress(c) == CASE pc[c] = "dirsync" -> "taken"
                 [] pc[c] = "done"    -> "returned"
                 [] pc[c] = "gone"    -> "gone"
                 [] OTHER             -> "open"

Atomic == INSTANCE AtomicFile WITH
    value <- Content, safe <- maybe, call <- [c \in Calls |-> Progress(c)]

\* The replacement is the one step that the rest of the program takes it for.
ReplacesAtomically == Atomic!Spec
=============================================================================
