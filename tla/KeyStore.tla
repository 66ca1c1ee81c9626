------------------------------ MODULE KeyStore ------------------------------
(***************************************************************************)
(* The API keys, auth/api_keys.json, beside the accounts of AccountStore.  *)
(* Three pieces of code write this file, each in its own way, and nothing  *)
(* is locked:                                                              *)
(*   - the endpoint that mints a project key replaces the file atomically; *)
(*   - the endpoint that revokes a key truncates it and writes it in place;*)
(*   - the legacy command line writes a temporary file, whose name is the  *)
(*     same for all its processes, and renames it.                         *)
(*                                                                         *)
(* A write goes to the inode that was opened, whatever name it has by      *)
(* then: fd says whether that is the key file, the temporary file or an    *)
(* inode without a name.  Power loss is left to RecordFile.                *)
(***************************************************************************)
EXTENDS AccountStore

CONSTANT Deaths     \* may processes die?

ASSUME DeathsAssumption == Deaths \in BOOLEAN

VARIABLES
    keyfile,    \* what the key file holds: "none", "live" or "revoked" for each serial
    tmpfile,    \* what the temporary file of the command line holds
    fd,         \* the inode a process has open for writing
    keyCopy,    \* its copy of the keys
    target,     \* the key it revokes
    minted,     \* history: keys whose minting was answered
    revoked     \* history: keys whose revocation was answered

keys == <<keyfile, tmpfile, fd, keyCopy, target, minted, revoked>>
vars == <<accounts, keys>>

KeyPCs == {"key_replace", "key_truncate", "key_fill", "tmp_open", "tmp_fill", "tmp_rename"}

NoKeys  == [k \in Serials |-> "none"]
Torn    == [k \in Serials |-> "torn"]       \* empty
Garbled == [k \in Serials |-> "garbled"]    \* the end of a longer text after a shorter one
NoFile  == [k \in Serials |-> "nofile"]

KeyRings == [Serials -> {"none", "live", "revoked"}]

TypeOK ==
    /\ users \subseteq [name : Names, id : Serials]
    /\ projects \subseteq Serials
    /\ sessions \in [Tokens -> {"none", "live", "revoked"}]
    /\ serial \in Serials
    /\ pc \in [Procs -> AccountPCs \cup KeyPCs]
    /\ token \in [Procs -> Tokens \cup {NoToken}]
    /\ mint \in [Procs -> 0 .. MaxSerial]
    /\ keyfile \in KeyRings \cup {Torn, Garbled}
    /\ tmpfile \in KeyRings \cup {Torn, Garbled, NoFile}
    /\ fd \in [Procs -> {"none", "key", "tmp", "unnamed"}]
    /\ keyCopy \in [Procs -> KeyRings]
    /\ clobbered \subseteq {"users", "projects", "sessions", "keys"}

Init ==
    /\ AccountInit
    /\ keyfile = NoKeys /\ tmpfile = NoFile
    /\ fd = [p \in Procs |-> "none"]
    /\ keyCopy = [p \in Procs |-> NoKeys]
    /\ target = [p \in Procs |-> 0]
    /\ minted = {} /\ revoked = {}

-----------------------------------------------------------------------------
(* Reading and writing the file.                                           *)

Readable(file) == file \notin {Torn, Garbled}

\* A file that cannot be parsed is taken for one without keys.
Load == IF Readable(keyfile) THEN keyfile ELSE NoKeys

\* p's copy becomes the ring; it is blind if the file could not be read.
Take(p, ring, label) ==
    /\ keyCopy' = [keyCopy EXCEPT ![p] = ring]
    /\ stale' = [stale EXCEPT ![p] = ~Readable(keyfile)]
    /\ Goto(p, label)

\* What an inode may hold after the ring was written from its beginning: if its text
\* was longer (lengths are left out), the end of that text stays behind.
Overwritten(file, ring) == IF file \in {Torn, ring} THEN {ring} ELSE {ring, Garbled}

\* The key file changes by p's doing.
Changed(p) == Overtake(p, KeyPCs)
Discard(p) == stale' = [stale EXCEPT ![p] = FALSE]
Blame(harm) == clobbered' = IF harm THEN clobbered \cup {"keys"} ELSE clobbered

\* Another inode gets the name of the key file: writes to the old one are lost, and
\* writes to the temporary file, if it is that one, reach the key file.
Renamed(f, tmp) == CASE f = "key"         -> "unnamed"
                     [] f = "tmp" /\ tmp  -> "key"
                     [] OTHER             -> f

Finish(p) ==
    /\ Forget(p)
    /\ keyCopy' = [keyCopy EXCEPT ![p] = NoKeys]
    /\ target' = [target EXCEPT ![p] = 0]

others == <<stores, issued, parent, contended>>

-----------------------------------------------------------------------------
(* POST /v1/projects/{id}/api-keys                                         *)

MintKey(p) ==
    /\ pc[p] = "authorized"
    /\ Draw(p)
    /\ Take(p, [Load EXCEPT ![serial'] = "live"], "key_replace")
    /\ UNCHANGED <<others, clobbered, token, userCopy, projectCopy, tokenCopy,
                   keyfile, tmpfile, fd, target, minted, revoked>>

ReplaceKeys(p) ==
    /\ pc[p] = "key_replace"
    /\ keyfile' = keyCopy[p]
    /\ fd' = [q \in Procs |-> Renamed(fd[q], FALSE)]
    /\ Changed(p) /\ Blame(stale[p])
    /\ minted' = minted \cup {mint[p]}
    /\ Finish(p)
    /\ UNCHANGED <<others, serial, tmpfile, revoked>>

-----------------------------------------------------------------------------
(* DELETE /v1/api-keys/{id}                                                *)

RevokeKey(p, k) ==
    /\ pc[p] = "authorized"
    /\ Readable(keyfile) /\ keyfile[k] # "none"
    /\ Take(p, [keyfile EXCEPT ![k] = "revoked"], "key_truncate")
    /\ target' = [target EXCEPT ![p] = k]
    /\ UNCHANGED <<others, clobbered, serial, mint, token, userCopy, projectCopy, tokenCopy,
                   keyfile, tmpfile, fd, minted, revoked>>

TruncateKeys(p) ==
    /\ pc[p] = "key_truncate"
    /\ keyfile' = Torn
    /\ fd' = [fd EXCEPT ![p] = "key"]
    /\ Goto(p, "key_fill")
    /\ Changed(p) /\ Blame(stale[p])
    /\ UNCHANGED <<others, serial, mint, token, userCopy, projectCopy, tokenCopy,
                   tmpfile, keyCopy, target, minted, revoked>>

\* Mutant of FillKeys: the file is closed unwritten, its text still in the buffer.
FillKeysNot(p) ==
    /\ pc[p] = "key_fill"
    /\ fd' = [fd EXCEPT ![p] = "none"]
    /\ revoked' = revoked \cup {target[p]}
    /\ Finish(p) /\ Discard(p)
    /\ UNCHANGED <<others, serial, clobbered, keyfile, tmpfile, minted>>

FillKeys(p) ==
    /\ pc[p] = "key_fill"
    /\ IF fd[p] = "key"
       THEN keyfile' \in Overwritten(keyfile, keyCopy[p]) /\ Changed(p)
       ELSE UNCHANGED keyfile /\ Discard(p)
    /\ Blame(stale[p])
    /\ fd' = [fd EXCEPT ![p] = "none"]
    /\ revoked' = revoked \cup {target[p]}
    /\ Finish(p)
    /\ UNCHANGED <<others, serial, tmpfile, minted>>

-----------------------------------------------------------------------------
(* keyring mint, in a process of its own.                                  *)

CliMint(c) ==
    /\ c \in Clis /\ pc[c] = "idle"
    /\ Draw(c)
    /\ Take(c, [Load EXCEPT ![serial'] = "live"], "tmp_open")
    /\ UNCHANGED <<others, clobbered, token, userCopy, projectCopy, tokenCopy,
                   keyfile, tmpfile, fd, target, minted, revoked>>

\* The temporary file is created, or truncated if there is one.
CliOpen(c) ==
    /\ pc[c] = "tmp_open"
    /\ tmpfile' = Torn
    /\ fd' = [fd EXCEPT ![c] = "tmp"]
    /\ Goto(c, "tmp_fill")
    /\ UNCHANGED <<others, clobbered, serial, stale, mint, token, userCopy, projectCopy,
                   tokenCopy, keyfile, keyCopy, target, minted, revoked>>

CliFill(c) ==
    /\ pc[c] = "tmp_fill"
    /\ \/ /\ fd[c] = "tmp"
          /\ tmpfile' \in Overwritten(tmpfile, keyCopy[c])
          /\ UNCHANGED <<keyfile, stale, clobbered>>
       \/ /\ fd[c] = "key"      \* another process has renamed the file
          /\ keyfile' \in Overwritten(keyfile, keyCopy[c])
          /\ Changed(c) /\ Blame(TRUE)
          /\ UNCHANGED tmpfile
       \/ /\ fd[c] = "unnamed"
          /\ UNCHANGED <<keyfile, tmpfile, stale, clobbered>>
    /\ fd' = [fd EXCEPT ![c] = "none"]
    /\ Goto(c, "tmp_rename")
    /\ UNCHANGED <<others, serial, mint, token, userCopy, projectCopy, tokenCopy,
                   keyCopy, target, minted, revoked>>

\* Mutant of CliRename: a command that finds no file to rename says that all is well.
CliRenameQuiet(c) ==
    /\ pc[c] = "tmp_rename"
    /\ minted' = minted \cup {mint[c]}
    /\ Finish(c)
    /\ UNCHANGED <<others, clobbered, serial, stale, keyfile, tmpfile, fd, revoked>>

\* Mutant of CliRename: the file goes under the new name, whether it is there or not.
CliRenameMissing(c) ==
    /\ pc[c] = "tmp_rename"
    /\ keyfile' = tmpfile
    /\ tmpfile' = NoFile
    /\ fd' = [q \in Procs |-> Renamed(fd[q], TRUE)]
    /\ Changed(c)
    /\ minted' = minted \cup {mint[c]}
    /\ Finish(c)
    /\ UNCHANGED <<others, clobbered, serial, revoked>>

\* There may be no file of that name any more: the command fails.
CliRename(c) ==
    /\ pc[c] = "tmp_rename"
    /\ IF tmpfile = NoFile
       THEN Discard(c) /\ UNCHANGED <<keyfile, tmpfile, fd, clobbered, minted>>
       ELSE /\ keyfile' = tmpfile
            /\ tmpfile' = NoFile
            /\ fd' = [q \in Procs |-> Renamed(fd[q], TRUE)]
            /\ Changed(c) /\ Blame(stale[c] \/ tmpfile # keyCopy[c])
            /\ minted' = minted \cup {mint[c]}
    /\ Finish(c)
    /\ UNCHANGED <<others, serial, revoked>>

-----------------------------------------------------------------------------
(* A process dies, with what it held: the server with all its threads.     *)

Die(S) ==
    /\ Deaths /\ \E p \in S : pc[p] # "idle"
    /\ pc' = [p \in Procs |-> IF p \in S THEN "idle" ELSE pc[p]]
    /\ token' = [p \in Procs |-> IF p \in S THEN NoToken ELSE token[p]]
    /\ mint' = [p \in Procs |-> IF p \in S THEN 0 ELSE mint[p]]
    /\ userCopy' = [p \in Procs |-> IF p \in S THEN {} ELSE userCopy[p]]
    /\ projectCopy' = [p \in Procs |-> IF p \in S THEN {} ELSE projectCopy[p]]
    /\ tokenCopy' = [p \in Procs |-> IF p \in S THEN NoTokens ELSE tokenCopy[p]]
    /\ keyCopy' = [p \in Procs |-> IF p \in S THEN NoKeys ELSE keyCopy[p]]
    /\ target' = [p \in Procs |-> IF p \in S THEN 0 ELSE target[p]]
    /\ fd' = [p \in Procs |-> IF p \in S THEN "none" ELSE fd[p]]
    /\ stale' = [p \in Procs |-> p \notin S /\ stale[p]]
    /\ Blame(\E p \in S : fd[p] = "key")
    /\ UNCHANGED <<others, serial, keyfile, tmpfile, minted, revoked>>

ServerDies == Die(Workers)
CliDies(c) == Die({c})

-----------------------------------------------------------------------------
KeyStep(p) ==
    \/ MintKey(p) \/ ReplaceKeys(p)
    \/ \E k \in Serials : RevokeKey(p, k)
    \/ TruncateKeys(p) \/ FillKeys(p)
    \/ CliMint(p) \/ CliOpen(p) \/ CliFill(p) \/ CliRename(p)

Next == \/ \E p \in Procs : (AccountStep(p) /\ UNCHANGED keys) \/ KeyStep(p)
        \/ ServerDies
        \/ \E c \in Clis : CliDies(c)

Spec == Init /\ [][Next]_vars

-----------------------------------------------------------------------------
(* Properties.                                                             *)

\* No two accounts have one name, also when two requests create it at once and one of
\* them is lost: the whole file is replaced, by a copy in which the names differ.
UsernamesUnique == \A u, v \in users : u.name = v.name => u = v

\* Tokens that a client was given stay in the file, and the refresh token that was
\* redeemed for them stays revoked, unless a handler has replaced the file by a copy
\* that had been overtaken.
AnsweredTokensAreKept ==
    "sessions" \notin clobbered =>
        \A n \in issued : /\ sessions[Access(n)] # "none" /\ sessions[Refresh(n)] # "none"
                          /\ parent[n] # 0 => sessions[Refresh(parent[n])] = "revoked"

\* A refresh token is redeemed once: refresh_session checks and revokes in two steps, and
\* only a request that finds the token revoked in between, or a lost update, redeems it again.
OneRefreshPerSession ==
    "sessions" \notin clobbered =>
        \A m, n \in issued : m # n /\ parent[m] = parent[n] /\ parent[m] # 0
                                => parent[m] \in contended

\* A key file that cannot be parsed, and so reads as one without keys, is being written:
\* revoke_api_key_endpoint has truncated it and will fill it.  It stays so only where
\* writers overlapped or one died.
TornHasWriter ==
    Readable(keyfile) \/ "keys" \in clobbered \/ \E p \in Procs : fd[p] = "key"

\* Keys whose minting was answered stay in the file, and revocations that were answered
\* stay recorded, whichever of the three writers follow, unless an update was lost.
AnsweredKeysAreKept ==
    Readable(keyfile) /\ "keys" \notin clobbered =>
        /\ \A k \in minted : keyfile[k] # "none"
        /\ \A k \in revoked : keyfile[k] = "revoked"
=============================================================================
