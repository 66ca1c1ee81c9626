--------------------------- MODULE KeyStoreProofs ---------------------------
(***************************************************************************)
(* What the account and key files keep, for any number of requests,        *)
(* command lines and deaths.  Nothing is locked, so the invariants speak   *)
(* of copies: what a handler that has not been overtaken knows of the file *)
(* it is about to replace, and what must be so however often it was.       *)
(***************************************************************************)
EXTENDS KeyStore, TLAPS

-----------------------------------------------------------------------------
(* Types.                                                                  *)

Marks == {"none", "live", "revoked"}
Accounts == [name : Names, id : Serials]

WritePCs == {"check_write", "revoke_write", "access_write", "refresh_write"}

CopiesOK ==
    /\ userCopy \in [Procs -> SUBSET Accounts]
    /\ projectCopy \in [Procs -> SUBSET Serials]
    /\ tokenCopy \in [Procs -> [Tokens -> Marks]]
    /\ stale \in [Procs -> BOOLEAN]
    /\ target \in [Procs -> 0 .. MaxSerial]

TInv == TypeOK /\ CopiesOK

LEMMA TokenFacts ==
    /\ \A n \in Serials : Access(n) \in Tokens /\ Refresh(n) \in Tokens
    /\ NoToken \notin Tokens /\ NoTokens \in [Tokens -> Marks]
    /\ \A m, n : (Access(m) = Access(n) => m = n) /\ (Refresh(m) = Refresh(n) => m = n)
    /\ \A m, n : Access(m) # Refresh(n)
BY DEF Access, Refresh, Tokens, NoToken, NoTokens, Marks

LEMMA RingFacts ==
    /\ NoKeys \in KeyRings /\ Torn \notin KeyRings /\ Garbled \notin KeyRings
    /\ NoFile \notin KeyRings \cup {Torn, Garbled}
<1>1. 1 \in Serials
  BY SerialAssumption DEF Serials
<1>2. /\ Torn[1] = "torn" /\ Garbled[1] = "garbled" /\ NoFile[1] = "nofile"
      /\ \A f \in KeyRings : f[1] \in {"none", "live", "revoked"}
  BY <1>1 DEF Torn, Garbled, NoFile, KeyRings
<1>3. NoKeys \in KeyRings
  BY DEF NoKeys, KeyRings
<1> QED
  BY <1>2, <1>3

\* What Load and Overwritten give, and a ring with one key marked.
LEMMA RingTypes ==
    ASSUME TInv
    PROVE  /\ Load \in KeyRings
           /\ \A k : \A f \in KeyRings, m \in Marks : [f EXCEPT ![k] = m] \in KeyRings
           /\ \A f, r : r \in KeyRings => Overwritten(f, r) \subseteq KeyRings \cup {Garbled}
           /\ Readable(keyfile) => keyfile \in KeyRings
BY RingFacts DEF TInv, TypeOK, Load, Readable, Overwritten, KeyRings, Marks

\* The handlers other than p see nothing of its step but the age of their copies.
OthersStay(p) ==
    \A q \in Procs \ {p} :
        /\ pc'[q] = pc[q] /\ token'[q] = token[q] /\ mint'[q] = mint[q]
        /\ userCopy'[q] = userCopy[q] /\ tokenCopy'[q] = tokenCopy[q]
        /\ keyCopy'[q] = keyCopy[q] /\ target'[q] = target[q]

LEMMA ForgetFacts ==
    ASSUME TInv, NEW p \in Procs, Forget(p)
    PROVE  /\ pc' \in [Procs -> AccountPCs \cup KeyPCs]
           /\ token' \in [Procs -> Tokens \cup {NoToken}]
           /\ mint' \in [Procs -> 0 .. MaxSerial]
           /\ userCopy' \in [Procs -> SUBSET Accounts]
           /\ projectCopy' \in [Procs -> SUBSET Serials]
           /\ tokenCopy' \in [Procs -> [Tokens -> Marks]]
           /\ pc'[p] = "idle" /\ token'[p] = NoToken /\ mint'[p] = 0 /\ userCopy'[p] = {}
           /\ \A q \in Procs \ {p} :
                 /\ pc'[q] = pc[q] /\ token'[q] = token[q] /\ mint'[q] = mint[q]
                 /\ userCopy'[q] = userCopy[q] /\ tokenCopy'[q] = tokenCopy[q]
BY TokenFacts, SerialAssumption DEF TInv, TypeOK, CopiesOK, Forget, Goto, AccountPCs

\* A fresh serial.
LEMMA DrawFacts ==
    ASSUME TInv, NEW p \in Procs, Draw(p)
    PROVE  /\ serial' \in Serials /\ serial' = serial + 1 /\ mint' \in [Procs -> 0 .. MaxSerial]
           /\ mint'[p] = serial' /\ \A q \in Procs \ {p} : mint'[q] = mint[q]
BY SerialAssumption DEF TInv, TypeOK, Draw, Serials

\* The age of copies.
LEMMA AgeFacts ==
    ASSUME TInv, NEW p \in Procs
    PROVE  /\ Read(p) \/ Discard(p) => /\ stale' \in [Procs -> BOOLEAN] /\ ~stale'[p]
                                       /\ \A q \in Procs \ {p} : stale'[q] = stale[q]
           /\ \A labels : Overtake(p, labels) =>
                 /\ stale' \in [Procs -> BOOLEAN] /\ ~stale'[p]
                 /\ \A q \in Procs \ {p} : stale'[q] = (stale[q] \/ pc[q] \in labels)
BY DEF TInv, CopiesOK, Read, Discard, Overtake

LEMMA HarmFacts ==
    ASSUME TInv, NEW p \in Procs, NEW store \in {"users", "projects", "sessions"}, NEW harm
    PROVE  /\ Account(p, store) \/ Blame(harm) =>
                 /\ clobbered' \subseteq {"users", "projects", "sessions", "keys"}
                 /\ clobbered \subseteq clobbered'
           /\ Account(p, store) => (\A s : s # store => (s \in clobbered' <=> s \in clobbered))
                                   /\ (stale[p] => store \in clobbered')
           /\ Blame(harm) => (\A s : s # "keys" => (s \in clobbered' <=> s \in clobbered))
                             /\ (harm => "keys" \in clobbered')
BY DEF TInv, TypeOK, Account, Blame

LEMMA GotoFacts ==
    ASSUME TInv, NEW p \in Procs, NEW label \in AccountPCs \cup KeyPCs, Goto(p, label)
    PROVE  /\ pc' \in [Procs -> AccountPCs \cup KeyPCs]
           /\ pc'[p] = label /\ \A q \in Procs \ {p} : pc'[q] = pc[q]
BY DEF TInv, TypeOK, Goto

LEMMA MarkFacts ==
    ASSUME TInv, NEW p \in Procs, NEW t, NEW mark \in Marks, NEW label \in AccountPCs,
           MarkToken(p, t, mark, label)
    PROVE  /\ pc' \in [Procs -> AccountPCs \cup KeyPCs]
           /\ pc'[p] = label /\ \A q \in Procs \ {p} : pc'[q] = pc[q]
           /\ tokenCopy' \in [Procs -> [Tokens -> Marks]]
           /\ tokenCopy'[p] = [sessions EXCEPT ![t] = mark]
           /\ \A q \in Procs \ {p} : tokenCopy'[q] = tokenCopy[q]
           /\ stale' \in [Procs -> BOOLEAN] /\ ~stale'[p]
           /\ \A q \in Procs \ {p} : stale'[q] = stale[q]
<1>1. [sessions EXCEPT ![t] = mark] \in [Tokens -> Marks]
  BY DEF TInv, TypeOK, Marks
<1>2. /\ tokenCopy' \in [Procs -> [Tokens -> Marks]]
      /\ tokenCopy'[p] = [sessions EXCEPT ![t] = mark]
      /\ \A q \in Procs \ {p} : tokenCopy'[q] = tokenCopy[q]
  BY <1>1 DEF MarkToken, TInv, CopiesOK
<1> QED
  BY <1>2, GotoFacts, AgeFacts DEF MarkToken

LEMMA CheckFacts ==
    ASSUME TInv, NEW p \in Procs, NEW t \in Tokens, NEW label \in AccountPCs, Check(p, t, label)
    PROVE  /\ pc' \in [Procs -> AccountPCs \cup KeyPCs]
           /\ pc'[p] \in {label, "check_write"} /\ \A q \in Procs \ {p} : pc'[q] = pc[q]
           /\ token' \in [Procs -> Tokens \cup {NoToken}]
           /\ token'[p] = t /\ \A q \in Procs \ {p} : token'[q] = token[q]
           /\ tokenCopy' \in [Procs -> [Tokens -> Marks]]
           /\ pc'[p] # label => tokenCopy'[p] = [sessions EXCEPT ![t] = "live"]
           /\ \A q \in Procs \ {p} : tokenCopy'[q] = tokenCopy[q]
           /\ stale' \in [Procs -> BOOLEAN]
           /\ \A q \in Procs \ {p} : stale'[q] = stale[q]
<1>1. /\ token' \in [Procs -> Tokens \cup {NoToken}]
      /\ token'[p] = t /\ \A q \in Procs \ {p} : token'[q] = token[q]
  BY DEF Check, TInv, TypeOK
<1>2. CASE Goto(p, label) /\ UNCHANGED <<tokenCopy, stale>>
  BY <1>1, <1>2, GotoFacts DEF TInv, CopiesOK
<1>3. CASE MarkToken(p, t, "live", "check_write")
  BY <1>1, <1>3, MarkFacts DEF Marks, AccountPCs
<1> QED
  BY <1>2, <1>3 DEF Check

\* The handler puts its copy in place of the sessions file.
LEMMA PutFacts ==
    ASSUME TInv, NEW p \in Procs, PutTokens(p)
    PROVE  /\ sessions' = tokenCopy[p] /\ sessions' \in [Tokens -> Marks]
           /\ stale' \in [Procs -> BOOLEAN]
           /\ \A q \in Procs \ {p} : stale'[q] = (stale[q] \/ pc[q] \in WritePCs)
           /\ clobbered' \subseteq {"users", "projects", "sessions", "keys"}
           /\ "sessions" \notin clobbered' => ~stale[p] /\ "sessions" \notin clobbered
           /\ "keys" \in clobbered' <=> "keys" \in clobbered
BY AgeFacts, HarmFacts DEF PutTokens, TInv, CopiesOK, WritePCs

\* The steps on users, projects and sessions.
LEMMA AccountTInv ==
    ASSUME TInv, NEW p \in Procs, AccountStep(p), UNCHANGED keys
    PROVE  TInv' /\ OthersStay(p)
<1> USE TokenFacts
<1>1. ASSUME NEW n \in Names, CreateUser(p, n) PROVE TInv' /\ OthersStay(p)
  <2>1. [name |-> n, id |-> serial'] \in Accounts
    BY <1>1, DrawFacts DEF CreateUser, Accounts
  <2>2. /\ userCopy' \in [Procs -> SUBSET Accounts]
        /\ \A q \in Procs \ {p} : userCopy'[q] = userCopy[q]
    BY <1>1, <2>1 DEF CreateUser, TInv, TypeOK, CopiesOK, Accounts
  <2>3. Goto(p, "user_write") /\ "user_write" \in AccountPCs /\ Draw(p) /\ Read(p)
        /\ UNCHANGED <<stores, token, projectCopy, tokenCopy, witnesses>>
    BY <1>1 DEF CreateUser, AccountPCs
  <2> QED
    BY <2>2, <2>3, DrawFacts, AgeFacts, GotoFacts
       DEF stores, witnesses, keys, TInv, TypeOK, CopiesOK, OthersStay
<1>2. ASSUME NEW n \in Serials, Rotate(p, n) PROVE TInv' /\ OthersStay(p)
  <2>1. /\ serial' \in Serials /\ mint' \in [Procs -> 0 .. MaxSerial]
        /\ \A q \in Procs \ {p} : mint'[q] = mint[q]
    BY <1>2, DrawFacts DEF Rotate
  <2>2. /\ Check(p, Refresh(n), "revoke_read") /\ "revoke_read" \in AccountPCs
        /\ UNCHANGED <<users, projects, sessions, userCopy, projectCopy, clobbered>>
    BY <1>2 DEF Rotate, AccountPCs, stores, witnesses
  <2>3. /\ pc' \in [Procs -> AccountPCs \cup KeyPCs]
        /\ token' \in [Procs -> Tokens \cup {NoToken}]
        /\ tokenCopy' \in [Procs -> [Tokens -> Marks]]
        /\ stale' \in [Procs -> BOOLEAN]
        /\ \A q \in Procs \ {p} :
              pc'[q] = pc[q] /\ token'[q] = token[q] /\ tokenCopy'[q] = tokenCopy[q]
    BY <2>2, CheckFacts
  <2> QED
    BY <2>1, <2>2, <2>3 DEF keys, TInv, TypeOK, CopiesOK, OthersStay
<1>3. ASSUME NEW n \in Serials, Authenticate(p, n) PROVE TInv' /\ OthersStay(p)
  <2>1. /\ Check(p, Access(n), "authorized") /\ "authorized" \in AccountPCs
        /\ UNCHANGED <<users, projects, sessions, serial, mint, userCopy, projectCopy, clobbered>>
    BY <1>3 DEF Authenticate, AccountPCs, stores, witnesses
  <2> QED
    BY <2>1, CheckFacts DEF keys, TInv, TypeOK, CopiesOK, OthersStay
<1>4. CASE WriteUsers(p) \/ WriteProjects(p)
  <2>1. Forget(p) /\ UNCHANGED <<sessions, serial>>
    BY <1>4 DEF WriteUsers, WriteProjects
  <2>2. /\ users' \subseteq Accounts /\ projects' \subseteq Serials
        /\ stale' \in [Procs -> BOOLEAN]
        /\ clobbered' \subseteq {"users", "projects", "sessions", "keys"}
    BY <1>4, AgeFacts, HarmFacts DEF WriteUsers, WriteProjects, TInv, TypeOK, CopiesOK, Accounts
  <2> QED
    BY <2>1, <2>2, ForgetFacts DEF TInv, TypeOK, CopiesOK, OthersStay, keys, Accounts
<1>5. CASE Login(p)
  BY <1>5, DrawFacts, GotoFacts
     DEF Login, stores, witnesses, keys, TInv, TypeOK, CopiesOK, OthersStay, AccountPCs
<1>6. CASE ReadAccess(p) \/ ReadRefresh(p)
  <2>1. /\ \E t : \E label \in AccountPCs : MarkToken(p, t, "live", label)
        /\ UNCHANGED <<stores, serial, token, mint, userCopy, projectCopy, witnesses>>
    BY <1>6 DEF ReadAccess, ReadRefresh, AccountPCs
  <2> QED
    BY <2>1, MarkFacts DEF Marks, stores, witnesses, keys, TInv, TypeOK, CopiesOK, OthersStay
<1>7. CASE WriteRefresh(p)
  <2>1. Forget(p) /\ PutTokens(p) /\ UNCHANGED <<users, projects, serial>>
    BY <1>7 DEF WriteRefresh
  <2> QED
    BY <2>1, ForgetFacts, PutFacts DEF TInv, TypeOK, CopiesOK, OthersStay, keys, Marks
<1>8. CASE WriteAccess(p) \/ WriteCheck(p) \/ WriteRevoke(p)
  <2>1. PutTokens(p) /\ UNCHANGED <<users, projects, serial, token, mint, userCopy, projectCopy>>
        /\ tokenCopy' = [tokenCopy EXCEPT ![p] = NoTokens]
        /\ \E label \in AccountPCs : Goto(p, label)
    BY <1>8 DEF WriteAccess, WriteCheck, WriteRevoke, AccountPCs
  <2>2. /\ tokenCopy' \in [Procs -> [Tokens -> Marks]]
        /\ \A q \in Procs \ {p} : tokenCopy'[q] = tokenCopy[q]
    BY <2>1 DEF TInv, CopiesOK
  <2> QED
    BY <2>1, <2>2, PutFacts, GotoFacts DEF TInv, TypeOK, CopiesOK, OthersStay, keys, Marks
<1>9. CASE ReadRevoke(p)
  <2>1. \/ MarkToken(p, token[p], "revoked", "revoke_write")
        \/ Goto(p, "access_read") /\ UNCHANGED <<tokenCopy, stale>>
    BY <1>9 DEF ReadRevoke
  <2>2. UNCHANGED <<stores, serial, token, mint, userCopy, projectCopy, clobbered>>
    BY <1>9 DEF ReadRevoke
  <2>3. "revoke_write" \in AccountPCs /\ "access_read" \in AccountPCs /\ "revoked" \in Marks
    BY DEF AccountPCs, Marks
  <2>4. /\ pc' \in [Procs -> AccountPCs \cup KeyPCs]
        /\ tokenCopy' \in [Procs -> [Tokens -> Marks]]
        /\ stale' \in [Procs -> BOOLEAN]
        /\ \A q \in Procs \ {p} : pc'[q] = pc[q] /\ tokenCopy'[q] = tokenCopy[q]
    <3>1. CASE MarkToken(p, token[p], "revoked", "revoke_write")
      BY <3>1, <2>3, MarkFacts
    <3>2. CASE Goto(p, "access_read") /\ UNCHANGED <<tokenCopy, stale>>
      BY <3>2, <2>3, GotoFacts DEF TInv, CopiesOK
    <3> QED
      BY <2>1, <3>1, <3>2
  <2> QED
    BY <2>2, <2>4 DEF stores, keys, TInv, TypeOK, CopiesOK, OthersStay
<1>10. CASE Refuse(p)
  BY <1>10, ForgetFacts
     DEF Refuse, stores, witnesses, keys, TInv, TypeOK, CopiesOK, OthersStay
<1>11. CASE CreateProject(p)
  <2>1. projectCopy' \in [Procs -> SUBSET Serials]
    BY <1>11, DrawFacts DEF CreateProject, TInv, TypeOK, CopiesOK
  <2>2. /\ Draw(p) /\ Goto(p, "project_write") /\ "project_write" \in AccountPCs /\ Read(p)
        /\ UNCHANGED <<users, projects, sessions, token, userCopy, tokenCopy, clobbered>>
    BY <1>11 DEF CreateProject, AccountPCs, stores, witnesses
  <2> QED
    BY <2>1, <2>2, DrawFacts, AgeFacts, GotoFacts DEF keys, TInv, TypeOK, CopiesOK, OthersStay
<1> QED
  BY <1>1, <1>2, <1>3, <1>4, <1>5, <1>6, <1>7, <1>8, <1>9, <1>10, <1>11 DEF AccountStep

LEMMA FinishFacts ==
    ASSUME TInv, NEW p \in Procs, Finish(p)
    PROVE  /\ Forget(p) /\ keyCopy' \in [Procs -> KeyRings] /\ target' \in [Procs -> 0 .. MaxSerial]
           /\ keyCopy'[p] = NoKeys /\ OthersStay(p)
BY ForgetFacts, RingFacts DEF TInv, TypeOK, CopiesOK, Finish, OthersStay

LEMMA TakeFacts ==
    ASSUME TInv, NEW p \in Procs, NEW ring \in KeyRings, NEW label \in KeyPCs, Take(p, ring, label)
    PROVE  /\ pc' \in [Procs -> AccountPCs \cup KeyPCs]
           /\ pc'[p] = label /\ \A q \in Procs \ {p} : pc'[q] = pc[q]
           /\ keyCopy' \in [Procs -> KeyRings]
           /\ keyCopy'[p] = ring /\ \A q \in Procs \ {p} : keyCopy'[q] = keyCopy[q]
           /\ stale' \in [Procs -> BOOLEAN]
           /\ stale'[p] = ~Readable(keyfile) /\ \A q \in Procs \ {p} : stale'[q] = stale[q]
<1>1. Readable(keyfile) \in BOOLEAN
  BY DEF Readable
<1> QED
  BY <1>1, GotoFacts DEF Take, TInv, TypeOK, CopiesOK

\* The steps on the keys.
LEMMA KeyTInv ==
    ASSUME TInv, NEW p \in Procs, KeyStep(p)
    PROVE  TInv' /\ OthersStay(p)
<1>1. CASE MintKey(p) \/ CliMint(p)
  <2>1. serial' \in Serials /\ [Load EXCEPT ![serial'] = "live"] \in KeyRings
    BY <1>1, DrawFacts, RingTypes DEF MintKey, CliMint, Marks
  <2>2. /\ \E label \in KeyPCs : Take(p, [Load EXCEPT ![serial'] = "live"], label)
        /\ Draw(p)
        /\ UNCHANGED <<others, clobbered, token, userCopy, projectCopy, tokenCopy,
                       keyfile, tmpfile, fd, target>>
    BY <1>1 DEF MintKey, CliMint, KeyPCs
  <2> QED
    BY <2>1, <2>2, DrawFacts, TakeFacts
       DEF others, stores, TInv, TypeOK, CopiesOK, OthersStay
<1>2. ASSUME NEW k \in Serials, RevokeKey(p, k) PROVE TInv' /\ OthersStay(p)
  <2>1. [keyfile EXCEPT ![k] = "revoked"] \in KeyRings
    BY <1>2, RingTypes DEF RevokeKey, Marks
  <2>2. k \in 0 .. MaxSerial
    BY SerialAssumption DEF Serials
  <2>3. /\ target' \in [Procs -> 0 .. MaxSerial]
        /\ \A q \in Procs \ {p} : target'[q] = target[q]
    BY <1>2, <2>2 DEF RevokeKey, TInv, CopiesOK
  <2>4. /\ Take(p, [keyfile EXCEPT ![k] = "revoked"], "key_truncate") /\ "key_truncate" \in KeyPCs
        /\ UNCHANGED <<users, projects, sessions, clobbered, serial, mint, token, userCopy,
                       projectCopy, tokenCopy, keyfile, tmpfile, fd>>
    BY <1>2 DEF RevokeKey, others, stores, KeyPCs
  <2> QED
    BY <2>1, <2>3, <2>4, TakeFacts DEF TInv, TypeOK, CopiesOK, OthersStay
<1>3. CASE ReplaceKeys(p)
  <2>1. /\ Finish(p) /\ UNCHANGED <<others, serial, tmpfile>> /\ keyfile' = keyCopy[p]
        /\ Changed(p) /\ Blame(stale[p]) /\ fd' = [q \in Procs |-> Renamed(fd[q], FALSE)]
    BY <1>3 DEF ReplaceKeys
  <2>2. fd' \in [Procs -> {"none", "key", "tmp", "unnamed"}]
    BY <2>1 DEF Renamed, TInv, TypeOK
  <2> QED
    BY <2>1, <2>2, FinishFacts, ForgetFacts, AgeFacts, HarmFacts
       DEF Changed, others, stores, TInv, TypeOK, CopiesOK
<1>4. CASE TruncateKeys(p) \/ CliOpen(p)
  <2>1. /\ stale' \in [Procs -> BOOLEAN]
        /\ clobbered' \subseteq {"users", "projects", "sessions", "keys"}
    BY <1>4, AgeFacts, HarmFacts DEF TruncateKeys, CliOpen, Changed, TInv, TypeOK, CopiesOK
  <2> QED
    BY <1>4, <2>1, GotoFacts
       DEF TruncateKeys, CliOpen, others, stores, TInv, TypeOK, CopiesOK, OthersStay, KeyPCs
<1>5. CASE FillKeys(p)
  <2>1. /\ Finish(p) /\ UNCHANGED <<others, serial, tmpfile>> /\ Blame(stale[p])
        /\ fd' = [fd EXCEPT ![p] = "none"]
        /\ keyfile' = keyfile \/ keyfile' \in Overwritten(keyfile, keyCopy[p])
        /\ Changed(p) \/ Discard(p)
    BY <1>5 DEF FillKeys
  <2>2. keyfile' \in KeyRings \cup {Torn, Garbled}
    BY <2>1, RingTypes DEF TInv, TypeOK
  <2> QED
    BY <2>1, <2>2, FinishFacts, ForgetFacts, AgeFacts, HarmFacts
       DEF Changed, others, stores, TInv, TypeOK, CopiesOK
<1>6. CASE CliFill(p)
  <2>1. /\ keyfile' \in KeyRings \cup {Torn, Garbled}
        /\ tmpfile' \in KeyRings \cup {Torn, Garbled, NoFile}
    <3>1. \A f : Overwritten(f, keyCopy[p]) \subseteq KeyRings \cup {Garbled}
      BY RingTypes DEF TInv, TypeOK
    <3>2. /\ keyfile' \in Overwritten(keyfile, keyCopy[p]) \/ keyfile' = keyfile
          /\ tmpfile' \in Overwritten(tmpfile, keyCopy[p]) \/ tmpfile' = tmpfile
      BY <1>6 DEF CliFill
    <3> QED
      BY <3>1, <3>2 DEF TInv, TypeOK
  <2>2. /\ stale' \in [Procs -> BOOLEAN]
        /\ clobbered' \subseteq {"users", "projects", "sessions", "keys"}
    BY <1>6, AgeFacts, HarmFacts DEF CliFill, Changed, TInv, TypeOK, CopiesOK
  <2> QED
    BY <1>6, <2>1, <2>2, GotoFacts
       DEF CliFill, others, stores, TInv, TypeOK, CopiesOK, OthersStay, KeyPCs
<1>7. CASE CliRename(p)
  <2>1. Finish(p) /\ UNCHANGED <<others, serial>>
    BY <1>7 DEF CliRename
  <2>2. /\ keyfile' \in KeyRings \cup {Torn, Garbled}
        /\ tmpfile' \in KeyRings \cup {Torn, Garbled, NoFile}
        /\ fd' \in [Procs -> {"none", "key", "tmp", "unnamed"}]
    BY <1>7 DEF CliRename, Renamed, TInv, TypeOK
  <2>3. /\ stale' \in [Procs -> BOOLEAN]
        /\ clobbered' \subseteq {"users", "projects", "sessions", "keys"}
    BY <1>7, AgeFacts, HarmFacts DEF CliRename, Changed, TInv, TypeOK
  <2> QED
    BY <2>1, <2>2, <2>3, FinishFacts, ForgetFacts DEF others, stores, TInv, TypeOK, CopiesOK
<1> QED
  BY <1>1, <1>2, <1>3, <1>4, <1>5, <1>6, <1>7 DEF KeyStep

LEMMA DieTInv ==
    ASSUME TInv, NEW S \in SUBSET Procs, Die(S)
    PROVE  TInv'
<1>1. /\ pc' \in [Procs -> AccountPCs \cup KeyPCs]
      /\ token' \in [Procs -> Tokens \cup {NoToken}]
  BY DEF Die, TInv, TypeOK, AccountPCs
<1>2. mint' \in [Procs -> 0 .. MaxSerial] /\ target' \in [Procs -> 0 .. MaxSerial]
  BY SerialAssumption DEF Die, TInv, TypeOK, CopiesOK
<1>3. userCopy' \in [Procs -> SUBSET Accounts] /\ projectCopy' \in [Procs -> SUBSET Serials]
  BY DEF Die, TInv, CopiesOK
<1>4. tokenCopy' \in [Procs -> [Tokens -> Marks]] /\ keyCopy' \in [Procs -> KeyRings]
  BY TokenFacts, RingFacts DEF Die, TInv, TypeOK, CopiesOK
<1>5. fd' \in [Procs -> {"none", "key", "tmp", "unnamed"}] /\ stale' \in [Procs -> BOOLEAN]
  BY DEF Die, TInv, TypeOK, CopiesOK
<1>6. clobbered' \subseteq {"users", "projects", "sessions", "keys"}
  BY DEF Die, Blame, TInv, TypeOK
<1>7. UNCHANGED <<users, projects, sessions, serial, keyfile, tmpfile>>
  BY DEF Die, others, stores
<1> QED
  BY <1>1, <1>2, <1>3, <1>4, <1>5, <1>6, <1>7 DEF TInv, TypeOK, CopiesOK

LEMMA NextTInv == TInv /\ [Next]_vars => TInv'
<1> SUFFICES ASSUME TInv, [Next]_vars PROVE TInv'
  OBVIOUS
<1>1. CASE UNCHANGED vars
  BY <1>1 DEF vars, accounts, stores, handler, witnesses, keys, TInv, TypeOK, CopiesOK
<1>2. CASE ServerDies \/ \E c \in Clis : CliDies(c)
  BY <1>2, DieTInv DEF ServerDies, CliDies, Procs
<1> QED
  BY <1>1, <1>2, AccountTInv, KeyTInv DEF Next

THEOREM AlwaysTInv == Spec => []TInv
<1>1. Init => TInv
  <2> SUFFICES ASSUME Init PROVE TInv
    OBVIOUS
  <2>1. 1 \in Serials /\ (CHOOSE n \in Names : TRUE) \in Names
    BY SerialAssumption, NamesAssumption DEF Serials
  <2> QED
    BY <2>1, TokenFacts, RingFacts, SerialAssumption
       DEF Init, AccountInit, TInv, TypeOK, CopiesOK, AccountPCs, Accounts
<1> QED
  BY <1>1, NextTInv, PTL DEF Spec

\* Every variable of the account and key files and of the handlers keeps its type.
THEOREM TypeCorrect == Spec => []TypeOK
BY AlwaysTInv, PTL DEF TInv

-----------------------------------------------------------------------------
(* Usernames: every copy of the users file has distinct names, so whichever*)
(* of them replaces the file leaves it with distinct names.                *)

Distinct(U) == \A u, v \in U : u.name = v.name => u = v
NamesOK == Distinct(users) /\ \A p \in Procs : Distinct(userCopy[p])

\* What one step does to the users and the copies of them.
LEMMA UsersStep ==
    ASSUME TInv, NEW p \in Procs, (AccountStep(p) /\ UNCHANGED keys) \/ KeyStep(p)
    PROVE  /\ \A q \in Procs \ {p} : userCopy'[q] = userCopy[q]
           /\ users' \in {users, userCopy[p]}
           /\ \/ userCopy'[p] \in {userCopy[p], {}}
              \/ \E n \in Names : /\ userCopy'[p] = users \cup {[name |-> n, id |-> serial']}
                                  /\ \A u \in users : u.name # n
<1>1. \A q \in Procs \ {p} : userCopy'[q] = userCopy[q]
  BY AccountTInv, KeyTInv DEF OthersStay
<1>2. ASSUME NEW n \in Names, CreateUser(p, n)
      PROVE  /\ userCopy'[p] = users \cup {[name |-> n, id |-> serial']} /\ users' = users
             /\ \A u \in users : u.name # n
  BY <1>2 DEF CreateUser, stores, TInv, CopiesOK
<1>3. CASE WriteUsers(p) \/ WriteRefresh(p) \/ Refuse(p) \/ WriteProjects(p)
  <2>1. userCopy'[p] = {}
    BY <1>3, ForgetFacts DEF WriteUsers, WriteRefresh, Refuse, WriteProjects
  <2>2. users' \in {users, userCopy[p]}
    BY <1>3 DEF WriteUsers, WriteRefresh, Refuse, WriteProjects, stores
  <2> QED
    BY <1>1, <2>1, <2>2
<1>4. ASSUME AccountStep(p), ~(\E n \in Names : CreateUser(p, n)),
             ~(WriteUsers(p) \/ WriteRefresh(p) \/ Refuse(p) \/ WriteProjects(p))
      PROVE  UNCHANGED <<users, userCopy>>
  BY <1>4 DEF AccountStep, Rotate, Authenticate, Login, ReadAccess, WriteAccess, ReadRefresh,
              WriteCheck, ReadRevoke, WriteRevoke, CreateProject, stores
<1>5. CASE KeyStep(p)
  <2>1. CASE UNCHANGED <<users, userCopy>>
    BY <2>1
  <2>2. CASE Finish(p) /\ UNCHANGED users
    BY <1>1, <2>2, FinishFacts, ForgetFacts
  <2>3. UNCHANGED users /\ (UNCHANGED userCopy \/ Finish(p))
    BY <1>5 DEF KeyStep, MintKey, ReplaceKeys, RevokeKey, TruncateKeys, FillKeys, CliMint, CliOpen,
                CliFill, CliRename, others, stores
  <2> QED
    BY <2>1, <2>2, <2>3
<1> QED
  BY <1>1, <1>2, <1>3, <1>4, <1>5

LEMMA NextNamesOK == TInv /\ NamesOK /\ [Next]_vars => NamesOK'
<1> SUFFICES ASSUME TInv, NamesOK, [Next]_vars PROVE NamesOK'
  OBVIOUS
<1>1. CASE UNCHANGED vars
  BY <1>1 DEF vars, accounts, stores, handler, NamesOK, Distinct
<1>2. ASSUME NEW S \in SUBSET Procs, Die(S) PROVE NamesOK'
  <2>1. users' = users /\ \A q \in Procs : userCopy'[q] \in {userCopy[q], {}}
    BY <1>2 DEF Die, others, stores
  <2> QED
    BY <2>1 DEF NamesOK, Distinct
<1>3. ASSUME NEW p \in Procs, (AccountStep(p) /\ UNCHANGED keys) \/ KeyStep(p) PROVE NamesOK'
  <2>1. Distinct(users)' /\ \A q \in Procs \ {p} : Distinct(userCopy'[q])
    BY <1>3, UsersStep DEF NamesOK, Distinct
  <2>2. CASE userCopy'[p] \in {userCopy[p], {}}
    BY <2>1, <2>2 DEF NamesOK, Distinct
  <2>3. ASSUME NEW n \in Names, userCopy'[p] = users \cup {[name |-> n, id |-> serial']},
               \A u \in users : u.name # n
        PROVE  Distinct(userCopy'[p])
    BY <2>3 DEF NamesOK, Distinct
  <2> QED
    BY <1>3, <2>1, <2>2, <2>3, UsersStep DEF NamesOK
<1> QED
  BY <1>1, <1>2, <1>3 DEF Next, ServerDies, CliDies, Procs

\* No two accounts have one name.
THEOREM UsernamesAlwaysUnique == Spec => []UsernamesUnique
<1>1. Init => NamesOK
  BY DEF Init, AccountInit, NamesOK, Distinct
<1>2. NamesOK => UsernamesUnique
  BY DEF NamesOK, Distinct, UsernamesUnique
<1> QED
  BY <1>1, <1>2, NextNamesOK, AlwaysTInv, PTL DEF Spec

-----------------------------------------------------------------------------
(* Serials and tokens: who has drawn what, and the token a handler acts    *)
(* for was given to a client.                                              *)

PastPCs   == {"access_read", "access_write", "refresh_read", "refresh_write"}
RevokePCs == {"revoke_read", "revoke_write"}

MintsOK ==
    /\ issued \subseteq 1 .. serial
    /\ parent \in [Serials -> 0 .. MaxSerial]
    /\ \A n \in issued : parent[n] \in issued \cup {0}
    /\ \A p \in Procs : mint[p] \in (0 .. serial) \ issued
    /\ \A p, q \in Procs : p # q /\ mint[p] # 0 => mint[p] # mint[q]

TokenOK(p) ==
    /\ token[p] # NoToken => token[p].serial \in issued
    /\ pc[p] = "idle" => token[p] = NoToken
    /\ pc[p] = "check_write" => token[p] # NoToken /\ (token[p].type = "refresh" => mint[p] # 0)
    /\ pc[p] \in RevokePCs \cup PastPCs => mint[p] # 0
    /\ pc[p] \in RevokePCs => token[p] = Refresh(token[p].serial)
    /\ pc[p] \in PastPCs /\ token[p] # NoToken => token[p] = Refresh(token[p].serial)

HandlersOK == MintsOK /\ \A p \in Procs : TokenOK(p)

\* A step that gives a client nothing, and at most draws a serial.
LEMMA HandlerStep ==
    ASSUME TInv, TInv', HandlersOK, NEW p \in Procs, OthersStay(p),
           UNCHANGED <<issued, parent>>,
           \/ serial' = serial /\ mint'[p] \in {mint[p], 0}
           \/ serial' = serial + 1 /\ mint'[p] \in {mint[p], 0, serial'},
           TokenOK(p)'
    PROVE  HandlersOK'
<1>1. serial \in Nat /\ serial' \in Nat /\ serial \in 1 .. serial'
  BY SerialAssumption DEF TInv, TypeOK, Serials
<1>2. /\ issued' \subseteq 1 .. serial'
      /\ parent' \in [Serials -> 0 .. MaxSerial]
      /\ \A n \in issued' : parent'[n] \in issued' \cup {0}
  BY <1>1 DEF HandlersOK, MintsOK
<1>3. \A q \in Procs \ {p} : mint'[q] = mint[q] /\ mint'[q] \in (0 .. serial) \ issued'
  BY DEF HandlersOK, MintsOK, OthersStay
<1>4. mint'[p] \in (0 .. serial') \ issued'
  BY <1>1 DEF HandlersOK, MintsOK
<1>5. \A q \in Procs \ {p} : mint'[q] # 0 => mint'[q] # mint'[p]
  BY <1>1, <1>3 DEF HandlersOK, MintsOK
<1>6. MintsOK'
  BY <1>1, <1>2, <1>3, <1>4, <1>5 DEF HandlersOK, MintsOK
<1>7. \A q \in Procs \ {p} : TokenOK(q)'
  BY DEF HandlersOK, OthersStay, TokenOK
<1> QED
  BY <1>6, <1>7 DEF HandlersOK

\* A handler that ends is idle and has let go of its token and its serial.
LEMMA ForgetHandlers ==
    ASSUME TInv, TInv', HandlersOK, NEW p \in Procs, OthersStay(p), Forget(p),
           UNCHANGED <<issued, parent, serial>>
    PROVE  HandlersOK'
<1>1. pc'[p] = "idle" /\ token'[p] = NoToken /\ mint'[p] = 0
  BY ForgetFacts
<1>2. TokenOK(p)'
  BY <1>1 DEF TokenOK, RevokePCs, PastPCs
<1> QED
  BY <1>1, <1>2, HandlerStep

LEMMA RefreshTokens ==
    \A t \in Tokens \cup {NoToken} :
        /\ t # NoToken => t.serial \in Serials /\ t.serial # 0
        /\ t # NoToken /\ t.type = "refresh" => t = Refresh(t.serial)
        /\ NoToken.serial = 0
        /\ \A n : t = Refresh(n) => t.serial = n /\ t # NoToken
BY DEF Tokens, NoToken, Refresh, Serials

LEMMA AccountHandlers ==
    ASSUME TInv, TInv', HandlersOK, NEW p \in Procs, AccountStep(p), UNCHANGED keys
    PROVE  HandlersOK'
<1>0. OthersStay(p)
  BY AccountTInv
<1>1. ASSUME NEW n \in Names, CreateUser(p, n) PROVE HandlersOK'
  <2>1. /\ pc'[p] = "user_write" /\ token'[p] = token[p]
        /\ UNCHANGED <<issued, parent>> /\ serial' = serial + 1 /\ mint'[p] = serial'
    BY <1>1, DrawFacts, GotoFacts DEF CreateUser, witnesses, AccountPCs
  <2>2. TokenOK(p)'
    BY <2>1 DEF TokenOK, HandlersOK, RevokePCs, PastPCs
  <2> QED
    BY <1>0, <2>1, <2>2, HandlerStep
<1>2. ASSUME NEW n \in Serials, Rotate(p, n) PROVE HandlersOK'
  <2>1. /\ serial' = serial + 1 /\ mint'[p] = serial' /\ serial' # 0
        /\ UNCHANGED <<issued, parent>> /\ n \in issued
    BY <1>2, DrawFacts DEF Rotate, witnesses, TInv, TypeOK, Serials
  <2>2. pc'[p] \in {"revoke_read", "check_write"} /\ token'[p] = Refresh(n)
    BY <1>2, CheckFacts, TokenFacts DEF Rotate, AccountPCs
  <2>3. Refresh(n) # NoToken /\ Refresh(n).serial = n /\ Refresh(n).type = "refresh"
    BY TokenFacts DEF Refresh
  <2>4. TokenOK(p)'
    BY <2>1, <2>2, <2>3 DEF TokenOK, RevokePCs, PastPCs
  <2> QED
    BY <1>0, <2>1, <2>4, HandlerStep
<1>3. ASSUME NEW n \in Serials, Authenticate(p, n) PROVE HandlersOK'
  <2>1. UNCHANGED <<issued, parent, serial, mint>> /\ n \in issued
    BY <1>3 DEF Authenticate, witnesses
  <2>2. pc'[p] \in {"authorized", "check_write"} /\ token'[p] = Access(n)
    BY <1>3, CheckFacts, TokenFacts DEF Authenticate, AccountPCs
  <2>3. Access(n) # NoToken /\ Access(n).serial = n /\ Access(n).type = "access"
    BY TokenFacts DEF Access
  <2>4. TokenOK(p)'
    BY <2>1, <2>2, <2>3 DEF TokenOK, RevokePCs, PastPCs
  <2> QED
    BY <1>0, <2>1, <2>4, HandlerStep
<1>4. CASE WriteUsers(p) \/ WriteProjects(p) \/ Refuse(p)
  <2>1. Forget(p) /\ UNCHANGED <<issued, parent, serial>>
    BY <1>4 DEF WriteUsers, WriteProjects, Refuse, witnesses
  <2> QED
    BY <1>0, <2>1, ForgetHandlers
<1>5. CASE Login(p)
  <2>1. /\ serial' = serial + 1 /\ mint'[p] = serial' /\ serial' # 0
        /\ UNCHANGED <<issued, parent>>
        /\ pc'[p] = "access_read" /\ token'[p] = token[p] /\ pc[p] = "idle"
    BY <1>5, DrawFacts, GotoFacts DEF Login, witnesses, TInv, TypeOK, Serials, AccountPCs, Idle
  <2>2. TokenOK(p)'
    BY <2>1 DEF HandlersOK, TokenOK, RevokePCs, PastPCs
  <2> QED
    BY <1>0, <2>1, <2>2, HandlerStep
<1>6. CASE ReadAccess(p) \/ WriteAccess(p) \/ ReadRefresh(p)
  <2>1. /\ UNCHANGED <<issued, parent, serial, token, mint>>
        /\ pc[p] \in PastPCs /\ \E label \in PastPCs : Goto(p, label)
    BY <1>6 DEF ReadAccess, WriteAccess, ReadRefresh, MarkToken, witnesses, PastPCs
  <2>2. pc'[p] \in PastPCs
    BY <2>1, GotoFacts DEF PastPCs, AccountPCs
  <2>3. TokenOK(p)'
    BY <2>1, <2>2 DEF HandlersOK, TokenOK, RevokePCs, PastPCs
  <2> QED
    BY <1>0, <2>1, <2>3, HandlerStep
<1>7. CASE ReadRevoke(p) \/ WriteRevoke(p)
  <2>1. /\ UNCHANGED <<issued, parent, serial, token, mint>>
        /\ pc[p] \in RevokePCs /\ \E label \in {"revoke_write", "access_read"} : Goto(p, label)
    BY <1>7 DEF ReadRevoke, WriteRevoke, MarkToken, RevokePCs
  <2>2. pc'[p] \in {"revoke_write", "access_read"}
    BY <2>1, GotoFacts DEF AccountPCs
  <2>3. TokenOK(p)'
    BY <2>1, <2>2 DEF HandlersOK, TokenOK, RevokePCs, PastPCs
  <2> QED
    BY <1>0, <2>1, <2>3, HandlerStep
<1>8. CASE WriteCheck(p)
  <2>1. /\ UNCHANGED <<issued, parent, serial, token, mint>> /\ pc[p] = "check_write"
        /\ Goto(p, IF token[p].type = "refresh" THEN "revoke_read" ELSE "authorized")
    BY <1>8 DEF WriteCheck
  <2>2. \/ pc'[p] = "revoke_read" /\ token[p].type = "refresh"
        \/ pc'[p] = "authorized"
    BY <2>1, GotoFacts DEF AccountPCs
  <2>3. token[p] \in Tokens \cup {NoToken}
    BY DEF TInv, TypeOK
  <2>4. TokenOK(p)'
    BY <2>1, <2>2, <2>3, RefreshTokens DEF HandlersOK, TokenOK, RevokePCs, PastPCs
  <2> QED
    BY <1>0, <2>1, <2>4, HandlerStep
<1>9. CASE CreateProject(p)
  <2>1. /\ pc'[p] = "project_write" /\ token'[p] = token[p]
        /\ UNCHANGED <<issued, parent>> /\ serial' = serial + 1 /\ mint'[p] = serial'
    BY <1>9, DrawFacts, GotoFacts DEF CreateProject, witnesses, AccountPCs
  <2>2. TokenOK(p)'
    BY <2>1 DEF TokenOK, HandlersOK, RevokePCs, PastPCs
  <2> QED
    BY <1>0, <2>1, <2>2, HandlerStep
<1>10. CASE WriteRefresh(p)
  <2> DEFINE n == mint[p]
             s == token[p].serial
  <2>1. /\ n \in 1 .. serial /\ n \notin issued /\ n \in Serials /\ serial \in Nat
        /\ s \in issued \cup {0} /\ s \in 0 .. MaxSerial
    BY <1>10, SerialAssumption, RefreshTokens
       DEF WriteRefresh, HandlersOK, MintsOK, TokenOK, PastPCs, TInv, TypeOK, Serials
  <2>2. /\ issued' = issued \cup {n} /\ parent' = [parent EXCEPT ![n] = s] /\ serial' = serial
        /\ pc'[p] = "idle" /\ token'[p] = NoToken /\ mint'[p] = 0
    BY <1>10, ForgetFacts DEF WriteRefresh
  <2> HIDE DEF n, s
  <2>3. /\ issued' \subseteq 1 .. serial'
        /\ parent' \in [Serials -> 0 .. MaxSerial]
        /\ \A m \in issued' : parent'[m] \in issued' \cup {0}
    <3>1. \A m \in issued : m \in Serials /\ parent[m] \in issued \cup {0}
      BY SerialAssumption DEF HandlersOK, MintsOK, TInv, TypeOK, Serials
    <3>2. parent'[n] = s /\ \A m \in issued : parent'[m] = parent[m]
      BY <2>1, <2>2, <3>1 DEF HandlersOK, MintsOK
    <3> QED
      BY <2>1, <2>2, <3>1, <3>2 DEF HandlersOK, MintsOK
  <2>4. \A q \in Procs \ {p} : mint'[q] = mint[q] /\ mint'[q] \in (0 .. serial) \ issued'
    BY <1>0, <2>1, <2>2 DEF HandlersOK, MintsOK, OthersStay, n
  <2>5. 0 \in (0 .. serial) \ issued'
    BY <2>1, <2>2 DEF HandlersOK, MintsOK
  <2>6. MintsOK'
    BY <2>2, <2>3, <2>4, <2>5 DEF HandlersOK, MintsOK
  <2>7. TokenOK(p)'
    BY <2>2 DEF TokenOK, RevokePCs, PastPCs
  <2>8. \A q \in Procs \ {p} : TokenOK(q)'
    BY <1>0, <2>2 DEF HandlersOK, OthersStay, TokenOK
  <2> QED
    BY <2>6, <2>7, <2>8 DEF HandlersOK
<1> QED
  BY <1>1, <1>2, <1>3, <1>4, <1>5, <1>6, <1>7, <1>8, <1>9, <1>10 DEF AccountStep

LEMMA KeyHandlers ==
    ASSUME TInv, TInv', HandlersOK, NEW p \in Procs, KeyStep(p)
    PROVE  /\ HandlersOK' /\ UNCHANGED <<sessions, issued, parent, contended>>
           /\ pc'[p] \in KeyPCs \cup {"idle"}
<1>0. OthersStay(p)
  BY KeyTInv
<1>1. UNCHANGED <<sessions, issued, parent, contended>>
  BY DEF KeyStep, MintKey, ReplaceKeys, RevokeKey, TruncateKeys, FillKeys, CliMint, CliOpen,
         CliFill, CliRename, others, stores
<1>2. CASE MintKey(p) \/ CliMint(p)
  <2>1. Draw(p) /\ token' = token /\ \E label \in KeyPCs : Goto(p, label)
    BY <1>2 DEF MintKey, CliMint, Take, KeyPCs
  <2>2. serial' = serial + 1 /\ mint'[p] = serial' /\ pc'[p] \in KeyPCs
    BY <2>1, DrawFacts, GotoFacts
  <2>3. TokenOK(p)'
    BY <1>1, <2>1, <2>2 DEF TokenOK, HandlersOK, RevokePCs, PastPCs, KeyPCs
  <2> QED
    BY <1>0, <1>1, <2>2, <2>3, HandlerStep
<1>3. CASE (\E k \in Serials : RevokeKey(p, k)) \/ TruncateKeys(p) \/ CliOpen(p) \/ CliFill(p)
  <2>1. UNCHANGED <<serial, mint, token>> /\ \E label \in KeyPCs : Goto(p, label)
    BY <1>3 DEF RevokeKey, TruncateKeys, CliOpen, CliFill, Take, KeyPCs
  <2>2. pc'[p] \in KeyPCs
    BY <2>1, GotoFacts
  <2>3. TokenOK(p)'
    BY <1>1, <2>1, <2>2 DEF TokenOK, HandlersOK, RevokePCs, PastPCs, KeyPCs
  <2> QED
    BY <1>0, <1>1, <2>1, <2>2, <2>3, HandlerStep
<1>4. CASE ReplaceKeys(p) \/ FillKeys(p) \/ CliRename(p)
  <2>1. Finish(p) /\ UNCHANGED serial
    BY <1>4 DEF ReplaceKeys, FillKeys, CliRename
  <2>2. Forget(p) /\ pc'[p] = "idle"
    BY <2>1, FinishFacts, ForgetFacts
  <2> QED
    BY <1>0, <1>1, <2>1, <2>2, ForgetHandlers
<1> QED
  BY <1>2, <1>3, <1>4 DEF KeyStep

LEMMA DieHandlers ==
    ASSUME TInv, HandlersOK, NEW S \in SUBSET Procs, Die(S)
    PROVE  HandlersOK'
<1>1. /\ UNCHANGED <<issued, parent, serial>>
      /\ \A p \in S : pc'[p] = "idle" /\ token'[p] = NoToken /\ mint'[p] = 0
      /\ \A p \in Procs \ S : pc'[p] = pc[p] /\ token'[p] = token[p] /\ mint'[p] = mint[p]
  BY DEF Die, others
<1>2. serial \in Nat
  BY SerialAssumption DEF TInv, TypeOK, Serials
<1>3. \A p \in Procs : mint'[p] \in (0 .. serial) \ issued /\ mint'[p] \in {mint[p], 0}
  BY <1>1, <1>2 DEF HandlersOK, MintsOK
<1>4. \A p, q \in Procs : p # q /\ mint'[p] # 0 => mint'[p] # mint'[q]
  BY <1>3 DEF HandlersOK, MintsOK
<1>5. MintsOK'
  BY <1>1, <1>3, <1>4 DEF HandlersOK, MintsOK
<1>6. \A p \in S : TokenOK(p)'
  BY <1>1 DEF TokenOK, RevokePCs, PastPCs
<1>7. \A p \in Procs \ S : TokenOK(p)'
  BY <1>1 DEF HandlersOK, TokenOK
<1> QED
  BY <1>5, <1>6, <1>7 DEF HandlersOK

LEMMA NextHandlersOK == TInv /\ HandlersOK /\ [Next]_vars => HandlersOK'
<1> SUFFICES ASSUME TInv, HandlersOK, [Next]_vars PROVE HandlersOK'
  OBVIOUS
<1>0. TInv'
  BY NextTInv
<1>1. CASE UNCHANGED vars
  BY <1>1 DEF vars, accounts, handler, witnesses, HandlersOK, MintsOK, TokenOK
<1>2. CASE ServerDies \/ \E c \in Clis : CliDies(c)
  BY <1>2, DieHandlers DEF ServerDies, CliDies, Procs
<1> QED
  BY <1>0, <1>1, <1>2, AccountHandlers, KeyHandlers DEF Next

LEMMA InitHandlersOK == Init => HandlersOK
<1> SUFFICES ASSUME Init PROVE HandlersOK
  OBVIOUS
<1>1. /\ issued = {1} /\ serial = 1 /\ \A n \in Serials : parent[n] = 0
      /\ \A p \in Procs : mint[p] = 0 /\ token[p] = NoToken /\ pc[p] = "idle"
      /\ parent \in [Serials -> 0 .. MaxSerial] /\ 1 \in Serials
  BY SerialAssumption DEF Init, AccountInit, Serials
<1> QED
  BY <1>1 DEF HandlersOK, MintsOK, TokenOK, RevokePCs, PastPCs

-----------------------------------------------------------------------------
(* Sessions: what the sessions file holds while no update of it was lost.  *)
(* A refresh token has at most one claim on it, a handler past its         *)
(* revocation or the pair of tokens that handler stored, unless it was     *)
(* found revoked by a request that had checked it before.                  *)

\* The copy of a handler that was not overtaken differs from the file in one token.
CopyOK(p) ==
    ~stale[p] =>
        /\ pc[p] = "check_write" => tokenCopy[p] = sessions
        /\ pc[p] = "revoke_write" => /\ tokenCopy[p] = [sessions EXCEPT ![token[p]] = "revoked"]
                                     /\ sessions[token[p]] = "live"
        /\ pc[p] = "access_write" => tokenCopy[p] = [sessions EXCEPT ![Access(mint[p])] = "live"]
        /\ pc[p] = "refresh_write" => tokenCopy[p] = [sessions EXCEPT ![Refresh(mint[p])] = "live"]

\* p goes on to store a pair for the refresh token r.
Past(p, r) == pc[p] \in PastPCs /\ token[p] = Refresh(r)

StoredOK ==
    /\ \A n \in issued : /\ sessions[Access(n)] # "none" /\ sessions[Refresh(n)] # "none"
                         /\ parent[n] # 0 => sessions[Refresh(parent[n])] = "revoked"
    /\ \A p \in Procs : pc[p] \in {"refresh_read", "refresh_write"} => sessions[Access(mint[p])] # "none"
    /\ \A p \in Procs, r \in issued : Past(p, r) => sessions[Refresh(r)] = "revoked"

ClaimsOK ==
    \A r \in issued \ contended :
        /\ \A m, n \in issued : parent[m] = r /\ parent[n] = r => m = n
        /\ \A p, q \in Procs : Past(p, r) /\ Past(q, r) => p = q
        /\ \A n \in issued, p \in Procs : ~(parent[n] = r /\ Past(p, r))

SessInv ==
    /\ \A p \in Procs : CopyOK(p)
    /\ "sessions" \notin clobbered => StoredOK /\ ClaimsOK

SessionPCs == WritePCs \cup RevokePCs \cup PastPCs

\* Steps that have nothing to do with the sessions: a handler stays as it was, or is
\* then nowhere on the way to a write of them.
LEMMA AsideStep ==
    ASSUME SessInv, UNCHANGED <<sessions, issued, parent, contended>>,
           "sessions" \in clobbered => "sessions" \in clobbered',
           \A p \in Procs :
              \/ /\ pc'[p] = pc[p] /\ token'[p] = token[p] /\ mint'[p] = mint[p]
                 /\ tokenCopy'[p] = tokenCopy[p]
                 /\ pc[p] \in SessionPCs => stale'[p] = stale[p]
              \/ pc'[p] \notin SessionPCs
    PROVE  SessInv'
<1>1. \A p \in Procs : CopyOK(p)'
  BY DEF SessInv, CopyOK, SessionPCs, WritePCs
<1>2. \A p \in Procs : \A r : Past(p, r)' => Past(p, r)
  BY DEF Past, SessionPCs
<1>3. \A p \in Procs : pc'[p] \in {"refresh_read", "refresh_write"} =>
          pc'[p] = pc[p] /\ mint'[p] = mint[p]
  BY DEF SessionPCs, PastPCs
<1>4. StoredOK => StoredOK'
  BY <1>2, <1>3 DEF StoredOK
<1>5. ClaimsOK => ClaimsOK'
  BY <1>2 DEF ClaimsOK
<1> QED
  BY <1>1, <1>4, <1>5 DEF SessInv

LEMMA KeySess ==
    ASSUME TInv, TInv', HandlersOK, SessInv, NEW p \in Procs, KeyStep(p)
    PROVE  SessInv'
<1>1. /\ UNCHANGED <<sessions, issued, parent, contended>> /\ pc'[p] \notin SessionPCs
      /\ OthersStay(p)
  BY KeyHandlers, KeyTInv DEF KeyPCs, SessionPCs, WritePCs, RevokePCs, PastPCs
<1>2. \A q \in Procs \ {p} : pc[q] \in SessionPCs => stale'[q] = stale[q]
  <2>1. CASE Changed(p)
    <3>1. KeyPCs \cap SessionPCs = {}
      BY DEF KeyPCs, SessionPCs, WritePCs, RevokePCs, PastPCs
    <3> QED
      BY <2>1, <3>1 DEF Changed, Overtake, TInv, CopiesOK
  <2>2. CASE Discard(p) \/ UNCHANGED stale
    BY <2>2, AgeFacts
  <2>3. CASE MintKey(p) \/ CliMint(p) \/ \E k \in Serials : RevokeKey(p, k)
    <3>1. stale' = [stale EXCEPT ![p] = ~Readable(keyfile)]
      BY <2>3 DEF MintKey, CliMint, RevokeKey, Take
    <3> QED
      BY <3>1 DEF TInv, CopiesOK
  <2> QED
    BY <2>1, <2>2, <2>3 DEF KeyStep, ReplaceKeys, TruncateKeys, FillKeys, CliOpen, CliFill, CliRename
<1>3. "sessions" \in clobbered => "sessions" \in clobbered'
  BY DEF KeyStep, MintKey, ReplaceKeys, RevokeKey, TruncateKeys, FillKeys, CliMint, CliOpen,
         CliFill, CliRename, Blame
<1> QED
  BY <1>1, <1>2, <1>3, AsideStep DEF OthersStay

LEMMA DieSess ==
    ASSUME TInv, SessInv, NEW S \in SUBSET Procs, Die(S)
    PROVE  SessInv'
<1>1. UNCHANGED <<sessions, issued, parent, contended>> /\ clobbered \subseteq clobbered'
  BY DEF Die, others, stores, Blame
<1>2. \A p \in S : pc'[p] = "idle"
  BY DEF Die
<1>3. \A p \in Procs \ S : /\ pc'[p] = pc[p] /\ token'[p] = token[p] /\ mint'[p] = mint[p]
                           /\ tokenCopy'[p] = tokenCopy[p] /\ stale'[p] = stale[p]
  BY DEF Die, TInv, CopiesOK
<1>4. "idle" \notin SessionPCs
  BY DEF SessionPCs, WritePCs, RevokePCs, PastPCs
<1> QED
  BY <1>1, <1>2, <1>3, <1>4, AsideStep

\* A handler reads the sessions, and goes on with a copy or without one; or it only
\* checks a token.  The file stays as it is.
LEMMA ReadStep ==
    ASSUME TInv, SessInv, NEW p \in Procs, OthersStay(p),
           UNCHANGED <<sessions, issued, parent, contended, clobbered>>,
           \A q \in Procs \ {p} : stale'[q] = stale[q],
           CopyOK(p)',
           pc'[p] \in {"refresh_read", "refresh_write"} =>
               pc[p] = "refresh_read" /\ mint'[p] = mint[p],
           \A r \in issued : Past(p, r)' => Past(p, r)
    PROVE  SessInv'
<1>1. \A q \in Procs \ {p} : CopyOK(q)'
  <2> SUFFICES ASSUME NEW q \in Procs \ {p} PROVE CopyOK(q)'
    OBVIOUS
  <2>1. /\ pc'[q] = pc[q] /\ token'[q] = token[q] /\ mint'[q] = mint[q]
        /\ tokenCopy'[q] = tokenCopy[q] /\ stale'[q] = stale[q] /\ CopyOK(q)
    BY DEF SessInv, OthersStay
  <2> QED
    BY <2>1 DEF CopyOK
<1>2. \A q \in Procs, r \in issued : Past(q, r)' => Past(q, r)
  BY DEF Past, OthersStay
<1>3. StoredOK => StoredOK'
  BY <1>2 DEF StoredOK, OthersStay
<1>4. ClaimsOK => ClaimsOK'
  BY <1>2 DEF ClaimsOK
<1> QED
  BY <1>1, <1>3, <1>4 DEF SessInv

\* After a write every other copy of the sessions is old.
LEMMA PutCopies ==
    ASSUME TInv, NEW p \in Procs, OthersStay(p), PutTokens(p), pc'[p] \notin WritePCs
    PROVE  \A q \in Procs : CopyOK(q)'
<1>1. \A q \in Procs \ {p} : ~stale'[q] => pc'[q] \notin WritePCs
  BY PutFacts DEF OthersStay
<1>2. \A q \in Procs : ~stale'[q] => pc'[q] \notin WritePCs
  BY <1>1
<1> QED
  BY <1>2 DEF CopyOK, WritePCs

LEMMA ReadSess ==
    ASSUME TInv, TInv', HandlersOK, SessInv, NEW p \in Procs, OthersStay(p),
           \/ \E n \in Serials : Rotate(p, n) \/ Authenticate(p, n)
           \/ Login(p) \/ ReadAccess(p) \/ ReadRefresh(p)
    PROVE  SessInv'
<1>1. ASSUME NEW n \in Serials, NEW t \in Tokens, NEW label \in {"revoke_read", "authorized"},
             Check(p, t, label), UNCHANGED <<sessions, issued, parent, contended, clobbered>>
      PROVE  SessInv'
  <2>1. /\ pc'[p] \in {label, "check_write"}
        /\ pc'[p] # label => tokenCopy'[p] = [sessions EXCEPT ![t] = "live"]
        /\ \A q \in Procs \ {p} : stale'[q] = stale[q]
    BY <1>1, CheckFacts DEF AccountPCs
  <2>2. [sessions EXCEPT ![t] = "live"] = sessions
    BY <1>1 DEF Check, TInv, TypeOK
  <2>3. CopyOK(p)'
    BY <1>1, <2>1, <2>2 DEF CopyOK
  <2>4. \A r : ~Past(p, r)'
    BY <2>1 DEF Past, PastPCs
  <2> QED
    BY <1>1, <2>1, <2>3, <2>4, ReadStep
<1>2. ASSUME NEW n \in Serials, Rotate(p, n) \/ Authenticate(p, n) PROVE SessInv'
  <2>1. /\ Check(p, Refresh(n), "revoke_read") \/ Check(p, Access(n), "authorized")
        /\ UNCHANGED <<sessions, issued, parent, contended, clobbered>>
    BY <1>2 DEF Rotate, Authenticate, stores, witnesses
  <2> QED
    BY <1>1, <2>1, TokenFacts
<1>3. CASE Login(p)
  <2>1. /\ UNCHANGED <<sessions, issued, parent, contended, clobbered, stale>>
        /\ pc'[p] = "access_read" /\ token'[p] = NoToken
    BY <1>3, GotoFacts DEF Login, stores, witnesses, Idle, HandlersOK, TokenOK, AccountPCs
  <2>2. CopyOK(p)'
    BY <2>1 DEF CopyOK
  <2>3. \A r \in issued : ~Past(p, r)'
    <3>1. \A r \in issued : r \in Serials
      BY SerialAssumption DEF HandlersOK, MintsOK, TInv, TypeOK, Serials
    <3> QED
      BY <2>1, <3>1, TokenFacts DEF Past
  <2> QED
    BY <2>1, <2>2, <2>3, ReadStep
<1>4. CASE ReadAccess(p)
  <2>1. /\ UNCHANGED <<sessions, issued, parent, contended, clobbered, token, mint>>
        /\ pc[p] = "access_read" /\ MarkToken(p, Access(mint[p]), "live", "access_write")
    BY <1>4 DEF ReadAccess, stores, witnesses
  <2>2. /\ pc'[p] = "access_write" /\ tokenCopy'[p] = [sessions EXCEPT ![Access(mint[p])] = "live"]
        /\ \A q \in Procs \ {p} : stale'[q] = stale[q]
    BY <2>1, MarkFacts DEF Marks, AccountPCs
  <2>3. CopyOK(p)'
    BY <2>1, <2>2 DEF CopyOK
  <2>4. \A r : Past(p, r)' => Past(p, r)
    BY <2>1 DEF Past, PastPCs
  <2> QED
    BY <2>1, <2>2, <2>3, <2>4, ReadStep
<1>5. CASE ReadRefresh(p)
  <2>1. /\ UNCHANGED <<sessions, issued, parent, contended, clobbered, token, mint>>
        /\ pc[p] = "refresh_read" /\ MarkToken(p, Refresh(mint[p]), "live", "refresh_write")
    BY <1>5 DEF ReadRefresh, stores, witnesses
  <2>2. /\ pc'[p] = "refresh_write" /\ tokenCopy'[p] = [sessions EXCEPT ![Refresh(mint[p])] = "live"]
        /\ \A q \in Procs \ {p} : stale'[q] = stale[q]
    BY <2>1, MarkFacts DEF Marks, AccountPCs
  <2>3. CopyOK(p)'
    BY <2>1, <2>2 DEF CopyOK
  <2>4. \A r : Past(p, r)' => Past(p, r)
    BY <2>1 DEF Past, PastPCs
  <2> QED
    BY <2>1, <2>2, <2>3, <2>4, ReadStep
<1> QED
  BY <1>2, <1>3, <1>4, <1>5

\* The refresh token is revoked in a copy; or it is found revoked, and is contended.
LEMMA RevokeReadSess ==
    ASSUME TInv, TInv', HandlersOK, SessInv, NEW p \in Procs, OthersStay(p), ReadRevoke(p)
    PROVE  SessInv'
<1> DEFINE s == token[p].serial
<1>1. /\ UNCHANGED <<sessions, issued, parent, clobbered, token, mint>>
      /\ pc[p] = "revoke_read" /\ s \in issued /\ token[p] = Refresh(s) /\ Refresh(s) \in Tokens
  BY SerialAssumption, TokenFacts, RefreshTokens
     DEF ReadRevoke, stores, HandlersOK, TokenOK, RevokePCs, TInv, TypeOK
<1>2. CASE sessions[token[p]] = "live"
  <2>1. MarkToken(p, token[p], "revoked", "revoke_write") /\ UNCHANGED contended
    BY <1>2 DEF ReadRevoke
  <2>2. /\ pc'[p] = "revoke_write" /\ tokenCopy'[p] = [sessions EXCEPT ![token[p]] = "revoked"]
        /\ \A q \in Procs \ {p} : stale'[q] = stale[q]
    BY <2>1, MarkFacts DEF Marks, AccountPCs
  <2>3. CopyOK(p)'
    BY <1>1, <1>2, <2>2 DEF CopyOK
  <2>4. \A r : ~Past(p, r)'
    BY <2>2 DEF Past, PastPCs
  <2> QED
    BY <1>1, <2>1, <2>2, <2>3, <2>4, ReadStep
<1>3. CASE sessions[token[p]] # "live"
  <2>1. /\ Goto(p, "access_read") /\ contended' = contended \cup {s}
        /\ UNCHANGED <<tokenCopy, stale>>
    BY <1>3 DEF ReadRevoke
  <2>2. pc'[p] = "access_read"
    BY <2>1, GotoFacts DEF AccountPCs
  <2>3. \A q \in Procs : CopyOK(q)'
    <3> SUFFICES ASSUME NEW q \in Procs PROVE CopyOK(q)'
      OBVIOUS
    <3>1. CASE q = p
      BY <2>2, <3>1 DEF CopyOK
    <3>2. CASE q # p
      <4>1. /\ pc'[q] = pc[q] /\ token'[q] = token[q] /\ mint'[q] = mint[q]
            /\ tokenCopy'[q] = tokenCopy[q] /\ stale'[q] = stale[q] /\ CopyOK(q)
        BY <2>1, <3>2 DEF SessInv, OthersStay
      <4> QED
        BY <1>1, <4>1 DEF CopyOK
    <3> QED
      BY <3>1, <3>2
  <2>4. /\ \A q \in Procs : \A r : Past(q, r)' => Past(q, r) \/ (q = p /\ r = s)
        /\ \A q \in Procs : \A r : r # s /\ Past(q, r)' => Past(q, r)
    BY <1>1, <2>2, TokenFacts DEF Past, OthersStay
  <2>5. StoredOK => sessions[Refresh(s)] = "revoked"
    BY <1>1, <1>3 DEF StoredOK, TInv, TypeOK
  <2>6. StoredOK => StoredOK'
    BY <1>1, <2>2, <2>4, <2>5 DEF StoredOK, OthersStay
  <2>7. ClaimsOK => ClaimsOK'
    BY <1>1, <2>1, <2>4 DEF ClaimsOK
  <2> QED
    BY <1>1, <2>3, <2>6, <2>7 DEF SessInv
<1> QED
  BY <1>2, <1>3

LEMMA PutStep ==
    ASSUME TInv, SessInv, NEW p \in Procs, OthersStay(p), PutTokens(p), pc'[p] \notin WritePCs,
           ~stale[p] /\ StoredOK /\ ClaimsOK => StoredOK' /\ ClaimsOK'
    PROVE  SessInv'
BY PutCopies, PutFacts DEF SessInv

\* The file is as it was, or one token of it is marked, before or after it was given out.
LEMMA WriteSess ==
    ASSUME TInv, TInv', HandlersOK, HandlersOK', SessInv, NEW p \in Procs, OthersStay(p),
           WriteCheck(p) \/ WriteRevoke(p) \/ WriteAccess(p) \/ WriteRefresh(p)
    PROVE  SessInv'
<1> DEFINE s == token[p].serial
           n == mint[p]
<1>0. /\ PutTokens(p) /\ sessions' = tokenCopy[p]
      /\ sessions \in [Tokens -> Marks] /\ CopyOK(p)
  BY DEF WriteCheck, WriteRevoke, WriteAccess, WriteRefresh, PutTokens, TInv, TypeOK, Marks, SessInv
<1>1. \A m \in issued : m \in Serials /\ m # 0 /\ parent[m] \in issued \cup {0}
  BY SerialAssumption DEF HandlersOK, MintsOK, TInv, TypeOK, Serials
<1>2. CASE WriteCheck(p)
  <2>1. /\ UNCHANGED <<token, mint, issued, parent, contended>> /\ pc[p] = "check_write"
        /\ \E label \in {"revoke_read", "authorized"} : Goto(p, label)
    BY <1>2 DEF WriteCheck
  <2>2. pc'[p] \in {"revoke_read", "authorized"}
    BY <2>1, GotoFacts DEF AccountPCs
  <2>3. ~stale[p] => sessions' = sessions
    BY <1>0, <2>1 DEF CopyOK
  <2>4. \A q \in Procs : \A r : Past(q, r)' => Past(q, r)
    BY <2>2 DEF Past, PastPCs, OthersStay
  <2>5. \A q \in Procs : pc'[q] \in {"refresh_read", "refresh_write"} =>
            pc[q] = pc'[q] /\ mint'[q] = mint[q]
    BY <2>2 DEF OthersStay
  <2>6. ~stale[p] /\ StoredOK /\ ClaimsOK => StoredOK' /\ ClaimsOK'
    BY <2>1, <2>3, <2>4, <2>5 DEF StoredOK, ClaimsOK
  <2> QED
    BY <1>0, <2>2, <2>6, PutStep DEF WritePCs
<1>3. CASE WriteRevoke(p)
  <2>1. /\ UNCHANGED <<token, mint, issued, parent, contended>> /\ pc[p] = "revoke_write"
        /\ Goto(p, "access_read")
    BY <1>3 DEF WriteRevoke
  <2>2. pc'[p] = "access_read" /\ s \in issued /\ token[p] = Refresh(s)
    BY <2>1, GotoFacts, RefreshTokens
       DEF AccountPCs, HandlersOK, TokenOK, RevokePCs, TInv, TypeOK
  <2> HIDE DEF s
  <2> SUFFICES ASSUME ~stale[p], StoredOK, ClaimsOK PROVE StoredOK' /\ ClaimsOK'
    BY <1>0, <2>2, PutStep DEF WritePCs
  <2>3. sessions' = [sessions EXCEPT ![Refresh(s)] = "revoked"] /\ sessions[Refresh(s)] = "live"
    BY <1>0, <2>1, <2>2 DEF CopyOK
  <2>4. /\ \A t \in Tokens : sessions[t] # "none" => sessions'[t] # "none"
        /\ \A t \in Tokens : sessions[t] = "revoked" => sessions'[t] = "revoked"
        /\ sessions'[Refresh(s)] = "revoked"
    BY <1>0, <1>1, <2>2, <2>3, TokenFacts
  <2>5. \A q \in Procs : \A r : Past(q, r)' => Past(q, r) \/ (q = p /\ r = s)
    BY <2>1, <2>2, TokenFacts DEF Past, OthersStay
  <2>6. StoredOK'
    <3>1. \A m \in issued : /\ sessions'[Access(m)] # "none" /\ sessions'[Refresh(m)] # "none"
                            /\ parent[m] # 0 => sessions'[Refresh(parent[m])] = "revoked"
      BY <1>1, <2>4, TokenFacts DEF StoredOK
    <3>2. \A q \in Procs, r \in issued : Past(q, r)' => sessions'[Refresh(r)] = "revoked"
      BY <1>1, <2>4, <2>5, TokenFacts DEF StoredOK
    <3>3. \A q \in Procs : pc'[q] \in {"refresh_read", "refresh_write"} =>
              pc[q] = pc'[q] /\ mint'[q] = mint[q] /\ mint[q] \in Serials
      BY <2>2, SerialAssumption
         DEF OthersStay, HandlersOK, TokenOK, PastPCs, TInv, TypeOK, Serials
    <3>4. \A q \in Procs : pc'[q] \in {"refresh_read", "refresh_write"} =>
              sessions'[Access(mint'[q])] # "none"
      BY <2>4, <3>3, TokenFacts DEF StoredOK
    <3> QED
      BY <2>1, <3>1, <3>2, <3>4 DEF StoredOK
  <2>7. /\ \A q \in Procs : ~Past(q, s)
        /\ \A m \in issued : parent[m] # s
    BY <1>1, <2>2, <2>3 DEF StoredOK
  <2>8. ClaimsOK'
    BY <2>1, <2>5, <2>7 DEF ClaimsOK
  <2> QED
    BY <2>6, <2>8
<1>4. CASE WriteAccess(p)
  <2>1. /\ UNCHANGED <<token, mint, issued, parent, contended>> /\ pc[p] = "access_write"
        /\ Goto(p, "refresh_read")
    BY <1>4 DEF WriteAccess
  <2>2. pc'[p] = "refresh_read" /\ n \in Serials /\ n \notin issued
    BY <2>1, GotoFacts, SerialAssumption
       DEF AccountPCs, HandlersOK, MintsOK, TokenOK, PastPCs, TInv, TypeOK, Serials
  <2> HIDE DEF n
  <2> SUFFICES ASSUME ~stale[p], StoredOK, ClaimsOK PROVE StoredOK' /\ ClaimsOK'
    BY <1>0, <2>2, PutStep DEF WritePCs
  <2>3. sessions' = [sessions EXCEPT ![Access(n)] = "live"]
    BY <1>0, <2>1 DEF CopyOK, n
  <2>4. /\ \A t \in Tokens : sessions[t] # "none" => sessions'[t] # "none"
        /\ \A m \in Serials : sessions'[Refresh(m)] = sessions[Refresh(m)]
        /\ sessions'[Access(n)] # "none"
    BY <1>0, <2>2, <2>3, TokenFacts
  <2>5. \A q \in Procs : \A r : Past(q, r)' => Past(q, r)
    BY <2>1, <2>2 DEF Past, OthersStay, PastPCs
  <2>6. StoredOK'
    <3>1. \A m \in issued : /\ sessions'[Access(m)] # "none" /\ sessions'[Refresh(m)] # "none"
                            /\ parent[m] # 0 => sessions'[Refresh(parent[m])] = "revoked"
      BY <1>1, <2>4, TokenFacts DEF StoredOK
    <3>2. \A q \in Procs, r \in issued : Past(q, r)' => sessions'[Refresh(r)] = "revoked"
      BY <1>1, <2>4, <2>5 DEF StoredOK
    <3>3. \A q \in Procs \ {p} : pc'[q] \in {"refresh_read", "refresh_write"} =>
              pc[q] = pc'[q] /\ mint'[q] = mint[q] /\ mint[q] \in Serials
      BY SerialAssumption DEF OthersStay, HandlersOK, TokenOK, PastPCs, TInv, TypeOK, Serials
    <3>4. \A q \in Procs : pc'[q] \in {"refresh_read", "refresh_write"} =>
              sessions'[Access(mint'[q])] # "none"
      BY <2>1, <2>4, <3>3, TokenFacts DEF StoredOK, n
    <3> QED
      BY <2>1, <3>1, <3>2, <3>4 DEF StoredOK
  <2>7. ClaimsOK'
    BY <2>1, <2>5 DEF ClaimsOK
  <2> QED
    BY <2>6, <2>7
<1>5. CASE WriteRefresh(p)
  <2>1. /\ issued' = issued \cup {n} /\ parent' = [parent EXCEPT ![n] = s]
        /\ UNCHANGED contended /\ pc[p] = "refresh_write" /\ pc'[p] = "idle"
    BY <1>5, ForgetFacts DEF WriteRefresh
  <2>2. /\ n \in Serials /\ n \notin issued /\ s \in issued \cup {0}
        /\ s # 0 => token[p] = Refresh(s)
        /\ \A q \in Procs : token[q] # Refresh(n)
    <3>1. /\ n \in Serials /\ n \notin issued
      BY <2>1, SerialAssumption DEF HandlersOK, MintsOK, TokenOK, PastPCs, TInv, TypeOK, Serials
    <3>2. \A q \in Procs : token[q] \in Tokens \cup {NoToken} /\ TokenOK(q)
      BY DEF TInv, TypeOK, HandlersOK
    <3>3. \A q \in Procs : token[q] # Refresh(n)
      BY <3>1, <3>2, RefreshTokens DEF TokenOK
    <3>4. s \in issued \cup {0} /\ (s # 0 => token[p] = Refresh(s))
      BY <2>1, <3>2, RefreshTokens DEF TokenOK, PastPCs
    <3> QED
      BY <3>1, <3>3, <3>4
  <2>3. /\ parent'[n] = s /\ \A m \in issued : parent'[m] = parent[m] /\ parent'[m] # n
    BY <1>1, <2>1, <2>2 DEF HandlersOK, MintsOK, Serials
  <2>4. s # 0 => Past(p, s)
    BY <2>1, <2>2 DEF Past, PastPCs
  <2>5. sessions' = tokenCopy[p] /\ (~stale[p] => tokenCopy[p] = [sessions EXCEPT ![Refresh(n)] = "live"])
    BY <1>0, <2>1 DEF CopyOK
  <2>6. StoredOK => sessions[Access(n)] # "none"
    BY <2>1 DEF StoredOK
  <2> HIDE DEF n, s
  <2> SUFFICES ASSUME ~stale[p], StoredOK, ClaimsOK PROVE StoredOK' /\ ClaimsOK'
    BY <1>0, <2>1, PutStep DEF WritePCs
  <2>7. /\ \A t \in Tokens : sessions[t] # "none" => sessions'[t] # "none"
        /\ \A m \in Serials \ {n} : sessions'[Refresh(m)] = sessions[Refresh(m)]
        /\ sessions'[Refresh(n)] # "none"
    BY <1>0, <2>2, <2>5, TokenFacts
  <2>8. \A q \in Procs : \A r : Past(q, r)' => Past(q, r) /\ q # p /\ r # n
    BY <2>1, <2>2 DEF Past, OthersStay, PastPCs
  <2>9. StoredOK'
    <3>1. \A m \in issued : /\ sessions'[Access(m)] # "none" /\ sessions'[Refresh(m)] # "none"
                            /\ parent'[m] # 0 => sessions'[Refresh(parent'[m])] = "revoked"
      BY <1>1, <2>2, <2>3, <2>7, TokenFacts DEF StoredOK
    <3>2. sessions'[Access(n)] # "none" /\ (s # 0 => sessions'[Refresh(s)] = "revoked")
      BY <1>1, <2>2, <2>7, <2>4, <2>6, TokenFacts DEF StoredOK
    <3>3. \A q \in Procs, r \in issued' : Past(q, r)' => sessions'[Refresh(r)] = "revoked"
      BY <1>1, <2>1, <2>2, <2>7, <2>8 DEF StoredOK
    <3>4. \A q \in Procs : pc'[q] \in {"refresh_read", "refresh_write"} =>
              pc[q] = pc'[q] /\ mint'[q] = mint[q] /\ mint[q] \in Serials
      BY <2>1, SerialAssumption
         DEF OthersStay, HandlersOK, TokenOK, PastPCs, TInv, TypeOK, Serials
    <3>5. \A q \in Procs : pc'[q] \in {"refresh_read", "refresh_write"} =>
              sessions'[Access(mint'[q])] # "none"
      BY <2>7, <3>4, TokenFacts DEF StoredOK
    <3> QED
      BY <2>1, <2>3, <2>7, <3>1, <3>2, <3>3, <3>5 DEF StoredOK
  <2>10. ClaimsOK'
    <3> SUFFICES ASSUME NEW r \in issued' \ contended
                 PROVE  /\ \A m, k \in issued' : parent'[m] = r /\ parent'[k] = r => m = k
                        /\ \A q, u \in Procs : Past(q, r)' /\ Past(u, r)' => q = u
                        /\ \A k \in issued', q \in Procs : ~(parent'[k] = r /\ Past(q, r)')
      BY <2>1 DEF ClaimsOK
    <3>1. CASE r = n
      BY <2>1, <2>2, <2>3, <2>8, <3>1
    <3>2. CASE r # n
      <4>1. r \in issued \ contended /\ r # 0
        BY <1>1, <2>1, <3>2
      <4>2. \A q, u \in Procs : Past(q, r)' /\ Past(u, r)' => q = u
        BY <2>8, <4>1 DEF ClaimsOK
      <4>3. \A m, k \in issued' : parent'[m] = r /\ parent'[k] = r => m = k
        BY <2>1, <2>3, <2>4, <4>1 DEF ClaimsOK
      <4>4. \A k \in issued', q \in Procs : ~(parent'[k] = r /\ Past(q, r)')
        BY <2>1, <2>3, <2>8, <2>4, <4>1 DEF ClaimsOK
      <4> QED
        BY <4>2, <4>3, <4>4
    <3> QED
      BY <3>1, <3>2
  <2> QED
    BY <2>9, <2>10
<1> QED
  BY <1>2, <1>3, <1>4, <1>5

LEMMA AccountSess ==
    ASSUME TInv, TInv', HandlersOK, HandlersOK', SessInv, NEW p \in Procs, AccountStep(p),
           UNCHANGED keys
    PROVE  SessInv'
<1>0. OthersStay(p)
  BY AccountTInv
<1>1. CASE (\E n \in Names : CreateUser(p, n)) \/ CreateProject(p)
  <2>1. /\ Read(p) /\ UNCHANGED <<sessions, issued, parent, contended, clobbered>>
        /\ \E label \in {"user_write", "project_write"} : Goto(p, label)
    BY <1>1 DEF CreateUser, CreateProject, stores, witnesses
  <2>2. pc'[p] \in {"user_write", "project_write"} /\ \A q \in Procs \ {p} : stale'[q] = stale[q]
    BY <2>1, GotoFacts, AgeFacts DEF AccountPCs
  <2> QED
    BY <1>0, <2>1, <2>2, AsideStep DEF OthersStay, SessionPCs, WritePCs, RevokePCs, PastPCs
<1>2. CASE WriteUsers(p) \/ WriteProjects(p) \/ Refuse(p)
  <2>1. /\ Forget(p) /\ UNCHANGED <<sessions, issued, parent, contended>>
        /\ "sessions" \in clobbered => "sessions" \in clobbered'
        /\ UNCHANGED stale \/ \E label \in {"user_write", "project_write"} : Overtake(p, {label})
    BY <1>2 DEF WriteUsers, WriteProjects, Refuse, Account, stores, witnesses
  <2>2. \A q \in Procs \ {p} : pc[q] \in SessionPCs => stale'[q] = stale[q]
    BY <2>1 DEF Overtake, TInv, CopiesOK, SessionPCs, WritePCs, RevokePCs, PastPCs
  <2>3. pc'[p] = "idle" /\ "idle" \notin SessionPCs
    BY <2>1, ForgetFacts DEF SessionPCs, WritePCs, RevokePCs, PastPCs
  <2> QED
    BY <1>0, <2>1, <2>2, <2>3, AsideStep DEF OthersStay
<1> QED
  BY <1>0, <1>1, <1>2, ReadSess, RevokeReadSess, WriteSess DEF AccountStep

LEMMA NextSessInv == TInv /\ HandlersOK /\ SessInv /\ [Next]_vars => SessInv'
<1> SUFFICES ASSUME TInv, HandlersOK, SessInv, [Next]_vars PROVE SessInv'
  OBVIOUS
<1>0. TInv' /\ HandlersOK'
  BY NextTInv, NextHandlersOK
<1>1. CASE UNCHANGED vars
  <2>1. /\ UNCHANGED <<sessions, issued, parent, contended, clobbered>>
        /\ UNCHANGED <<pc, token, mint, tokenCopy, stale>>
    BY <1>1 DEF vars, accounts, stores, handler, witnesses
  <2> QED
    BY <2>1, AsideStep
<1>2. CASE ServerDies \/ \E c \in Clis : CliDies(c)
  BY <1>2, DieSess DEF ServerDies, CliDies, Procs
<1> QED
  BY <1>0, <1>1, <1>2, AccountSess, KeySess DEF Next

LEMMA InitSessInv == Init => SessInv
<1> SUFFICES ASSUME Init PROVE SessInv
  OBVIOUS
<1>1. /\ issued = {1} /\ 1 \in Serials /\ parent[1] = 0
      /\ \A t \in Tokens : t.serial = 1 => sessions[t] = "live"
      /\ \A p \in Procs : pc[p] = "idle"
  BY SerialAssumption DEF Init, AccountInit, Serials
<1>2. sessions[Access(1)] = "live" /\ sessions[Refresh(1)] = "live"
  BY <1>1 DEF Access, Refresh, Tokens
<1>3. /\ \A p \in Procs : CopyOK(p)
      /\ \A p \in Procs : \A r : ~Past(p, r)
  BY <1>1 DEF CopyOK, Past, PastPCs
<1> QED
  BY <1>1, <1>2, <1>3 DEF SessInv, StoredOK, ClaimsOK

THEOREM AlwaysSessInv == Spec => [](TInv /\ HandlersOK /\ SessInv)
BY InitHandlersOK, InitSessInv, AlwaysTInv, NextHandlersOK, NextSessInv, PTL DEF Spec

\* Tokens a client was given stay in the file, and the refresh token that was redeemed for
\* them stays revoked, while no handler has replaced the file by an old copy.
THEOREM AnsweredTokensAlwaysKept == Spec => []AnsweredTokensAreKept
<1>1. SessInv => AnsweredTokensAreKept
  BY DEF SessInv, StoredOK, AnsweredTokensAreKept
<1> QED
  BY <1>1, AlwaysSessInv, PTL

\* One pair of tokens for one refresh token, unless a request found it revoked after it
\* had checked it, or an update of the sessions was lost.
THEOREM OneRefreshAlways == Spec => []OneRefreshPerSession
<1>1. HandlersOK /\ SessInv => OneRefreshPerSession
  BY DEF HandlersOK, MintsOK, SessInv, ClaimsOK, OneRefreshPerSession
<1> QED
  BY <1>1, AlwaysSessInv, PTL

-----------------------------------------------------------------------------
(* Keys: what is in the key file, in the temporary file and in the copies  *)
(* of them.  While no update was lost, every copy that was not overtaken   *)
(* holds all keys that were minted and all revocations.                    *)

\* No ring knows a key that is still to be drawn.
Low(f) == f \in KeyRings => \A k \in Serials : k > serial => f[k] = "none"

RingsOK ==
    /\ minted \subseteq 1 .. serial /\ revoked \subseteq 1 .. serial
    /\ Low(keyfile) /\ Low(tmpfile) /\ \A p \in Procs : Low(keyCopy[p])

\* What a handler is about to write, and to which inode.
HolderOK(p) ==
    /\ pc[p] \in {"key_replace", "tmp_open", "tmp_fill", "tmp_rename"} =>
          mint[p] # 0 /\ keyCopy[p][mint[p]] = "live"
    /\ pc[p] \in {"key_truncate", "key_fill"} =>
          target[p] \in 1 .. serial /\ keyCopy[p][target[p]] = "revoked"
    /\ pc[p] = "key_fill" => stale[p] \/ (fd[p] = "key" /\ keyfile = Torn)
    /\ pc[p] \notin {"key_fill", "tmp_fill"} => fd[p] = "none"

Keeps(f) == (\A k \in minted : f[k] # "none") /\ (\A k \in revoked : f[k] = "revoked")
KeptBy(p) == pc[p] \in KeyPCs /\ ~stale[p] => Keeps(keyCopy[p])

KeptOK ==
    "keys" \notin clobbered => /\ Readable(keyfile) => Keeps(keyfile)
                               /\ \A p \in Procs : KeptBy(p)

KeyInv == RingsOK /\ (\A p \in Procs : HolderOK(p)) /\ KeptOK /\ TornHasWriter

\* A handler other than the one that steps still holds what it held: the key file is as
\* it was, or the handler has been overtaken.
LEMMA OtherHolders ==
    ASSUME TInv, TInv', NEW p \in Procs, OthersStay(p), \A q \in Procs : HolderOK(q),
           serial' \in {serial, serial + 1},
           \A q \in Procs \ {p} : fd[q] = "none" => fd'[q] = "none",
           \A q \in Procs \ {p} : pc[q] \in KeyPCs =>
              stale'[q] \/ (stale'[q] = stale[q] /\ fd'[q] = fd[q] /\ keyfile' = keyfile)
    PROVE  \A q \in Procs \ {p} : HolderOK(q)'
<1> SUFFICES ASSUME NEW q \in Procs \ {p} PROVE HolderOK(q)'
  OBVIOUS
<1>1. /\ pc'[q] = pc[q] /\ mint'[q] = mint[q] /\ keyCopy'[q] = keyCopy[q]
      /\ target'[q] = target[q] /\ HolderOK(q)
  BY DEF OthersStay
<1>2. 1 .. serial \subseteq 1 .. serial'
  BY SerialAssumption DEF TInv, TypeOK, Serials
<1>3. pc[q] = "key_fill" => stale'[q] \/ (fd'[q] = "key" /\ keyfile' = Torn)
  BY <1>1 DEF HolderOK, KeyPCs
<1> QED
  BY <1>1, <1>2, <1>3 DEF HolderOK

\* Rings that know no later key.
LEMMA LowFacts ==
    ASSUME TInv, TInv', RingsOK, serial' \in {serial, serial + 1}
    PROVE  /\ \A f : Low(f) => (f \in KeyRings => \A k \in Serials : k > serial' => f[k] = "none")
           /\ minted \subseteq 1 .. serial' /\ revoked \subseteq 1 .. serial'
           /\ Load \in KeyRings /\ \A k \in Serials : k > serial => Load[k] = "none"
           /\ \A f, r : Low(r) /\ f \in Overwritten(keyfile, r) \cup Overwritten(tmpfile, r) => Low(f)
<1>1. serial \in Nat /\ serial' \in Nat /\ \A k \in Serials : k \in Nat
  BY SerialAssumption DEF TInv, TypeOK, Serials
<1>2. /\ \A f : Low(f) => (f \in KeyRings => \A k \in Serials : k > serial' => f[k] = "none")
      /\ minted \subseteq 1 .. serial' /\ revoked \subseteq 1 .. serial'
  BY <1>1 DEF Low, RingsOK
<1>3. Load \in KeyRings /\ \A k \in Serials : k > serial => Load[k] = "none"
  <2>1. CASE Readable(keyfile)
    BY <2>1, RingTypes DEF Load, Low, RingsOK
  <2>2. CASE ~Readable(keyfile)
    BY <2>2, RingFacts DEF Load, NoKeys
  <2> QED
    BY <2>1, <2>2
<1>4. \A f, r : Low(r) /\ f \in Overwritten(keyfile, r) \cup Overwritten(tmpfile, r) => Low(f)
  BY RingFacts DEF Overwritten, Low
<1> QED
  BY <1>2, <1>3, <1>4

\* Steps on the accounts leave the keys alone, and overtake no copy of them.
LEMMA AccountAside ==
    ASSUME TInv, NEW p \in Procs, AccountStep(p), UNCHANGED keys
    PROVE  /\ pc[p] \in AccountPCs /\ pc'[p] \in AccountPCs
           /\ \A q \in Procs \ {p} : pc[q] \in KeyPCs => stale'[q] = stale[q]
           /\ serial' \in {serial, serial + 1}
           /\ "keys" \in clobbered' <=> "keys" \in clobbered
<1>1. pc[p] \in AccountPCs
  BY DEF AccountStep, CreateUser, Rotate, Authenticate, WriteUsers, Login, ReadAccess, WriteAccess,
         ReadRefresh, WriteRefresh, WriteCheck, ReadRevoke, WriteRevoke, Refuse, CreateProject,
         WriteProjects, Idle, AccountPCs
<1>2. serial' \in {serial, serial + 1}
  BY DEF AccountStep, CreateUser, Rotate, Authenticate, WriteUsers, Login, ReadAccess, WriteAccess,
         ReadRefresh, WriteRefresh, WriteCheck, ReadRevoke, WriteRevoke, Refuse, CreateProject,
         WriteProjects, Draw
<1>3. "keys" \in clobbered' <=> "keys" \in clobbered
  BY DEF AccountStep, CreateUser, Rotate, Authenticate, WriteUsers, Login, ReadAccess, WriteAccess,
         ReadRefresh, WriteRefresh, WriteCheck, ReadRevoke, WriteRevoke, Refuse, CreateProject,
         WriteProjects, PutTokens, Account, witnesses
<1>4. \/ UNCHANGED stale \/ Read(p)
      \/ \E labels \in SUBSET AccountPCs : Overtake(p, labels)
  BY DEF AccountStep, CreateUser, Rotate, Authenticate, WriteUsers, Login, ReadAccess, WriteAccess,
         ReadRefresh, WriteRefresh, WriteCheck, ReadRevoke, WriteRevoke, Refuse, CreateProject,
         WriteProjects, PutTokens, Check, MarkToken, AccountPCs
<1>5. \A q \in Procs \ {p} : pc[q] \in KeyPCs => stale'[q] = stale[q]
  <2>1. CASE \E labels \in SUBSET AccountPCs : Overtake(p, labels)
    <3>1. KeyPCs \cap AccountPCs = {}
      BY DEF KeyPCs, AccountPCs
    <3> QED
      BY <2>1, <3>1 DEF Overtake, TInv, CopiesOK
  <2> QED
    BY <1>4, <2>1, AgeFacts
<1>6. pc'[p] \in AccountPCs
  <2>1. CASE \E label \in AccountPCs : Goto(p, label)
    BY <2>1, GotoFacts
  <2>2. \/ \E label \in AccountPCs : Goto(p, label)
        \/ Forget(p)
    BY DEF AccountStep, CreateUser, Rotate, Authenticate, WriteUsers, Login, ReadAccess, WriteAccess,
           ReadRefresh, WriteRefresh, WriteCheck, ReadRevoke, WriteRevoke, Refuse, CreateProject,
           WriteProjects, Check, MarkToken, AccountPCs
  <2> QED
    BY <2>1, <2>2, ForgetFacts DEF AccountPCs
<1> QED
  BY <1>1, <1>2, <1>3, <1>5, <1>6

LEMMA AccountKeys ==
    ASSUME TInv, TInv', KeyInv, NEW p \in Procs, AccountStep(p), UNCHANGED keys
    PROVE  KeyInv'
<1>1. /\ pc[p] \notin KeyPCs /\ pc'[p] \notin KeyPCs /\ OthersStay(p)
      /\ serial' \in {serial, serial + 1} /\ ("keys" \in clobbered' <=> "keys" \in clobbered)
      /\ \A q \in Procs \ {p} : pc[q] \in KeyPCs => stale'[q] = stale[q]
  BY AccountAside, AccountTInv DEF AccountPCs, KeyPCs
<1>2. UNCHANGED <<keyfile, tmpfile, fd, keyCopy, target, minted, revoked>>
  BY DEF keys
<1>3. RingsOK'
  BY <1>1, <1>2, LowFacts DEF KeyInv, RingsOK, Low
<1>4. \A q \in Procs \ {p} : HolderOK(q)'
  BY <1>1, <1>2, OtherHolders DEF KeyInv
<1>5. HolderOK(p)'
  BY <1>1, <1>2 DEF KeyInv, HolderOK, KeyPCs
<1>6. KeptOK'
  BY <1>1, <1>2 DEF KeyInv, KeptOK, KeptBy, Keeps, Readable, OthersStay
<1>7. TornHasWriter'
  BY <1>1, <1>2 DEF KeyInv, TornHasWriter, Readable
<1> QED
  BY <1>3, <1>4, <1>5, <1>6, <1>7 DEF KeyInv

\* A handler takes a copy, with one key more or one key revoked.
LEMMA TakeKeys ==
    ASSUME TInv, TInv', HandlersOK, KeyInv, NEW p \in Procs, OthersStay(p),
           MintKey(p) \/ CliMint(p) \/ \E k \in Serials : RevokeKey(p, k)
    PROVE  KeyInv'
<1>0. /\ UNCHANGED <<keyfile, tmpfile, fd, minted, revoked, clobbered>>
      /\ pc[p] \notin KeyPCs /\ fd[p] = "none"
  BY DEF MintKey, CliMint, RevokeKey, KeyInv, HolderOK, KeyPCs
<1>1. minted \subseteq 1 .. serial /\ revoked \subseteq 1 .. serial /\ serial \in Nat
      /\ 1 .. serial \subseteq Serials
  BY SerialAssumption DEF KeyInv, RingsOK, TInv, TypeOK, Serials
<1>2. ASSUME NEW ring \in KeyRings, NEW label \in {"key_replace", "tmp_open", "key_truncate"},
             Take(p, ring, label), serial' \in {serial, serial + 1},
             \A k \in Serials : k > serial' => ring[k] = "none",
             IF label = "key_truncate"
             THEN target'[p] \in 1 .. serial' /\ ring[target'[p]] = "revoked"
             ELSE mint'[p] # 0 /\ ring[mint'[p]] = "live",
             Readable(keyfile) /\ Keeps(keyfile) => Keeps(ring)
      PROVE  KeyInv'
  <2>1. /\ pc'[p] = label /\ keyCopy'[p] = ring /\ stale'[p] = ~Readable(keyfile)
        /\ \A q \in Procs \ {p} : keyCopy'[q] = keyCopy[q] /\ stale'[q] = stale[q] /\ pc'[q] = pc[q]
    BY <1>2, TakeFacts DEF KeyPCs
  <2>2. RingsOK'
    BY <1>0, <1>2, <2>1, LowFacts DEF KeyInv, RingsOK, Low
  <2>3. \A q \in Procs \ {p} : HolderOK(q)'
    BY <1>0, <1>2, <2>1, OtherHolders DEF KeyInv
  <2>4. HolderOK(p)'
    BY <1>0, <1>2, <2>1 DEF HolderOK
  <2>5. KeptOK'
    <3> SUFFICES ASSUME "keys" \notin clobbered
                 PROVE  (Readable(keyfile) => Keeps(keyfile))' /\ \A q \in Procs : KeptBy(q)'
      BY <1>0 DEF KeptOK
    <3>1. (Readable(keyfile) => Keeps(keyfile)) /\ \A q \in Procs : KeptBy(q)
      BY DEF KeyInv, KeptOK
    <3>2. (Readable(keyfile) => Keeps(keyfile))'
      BY <1>0, <3>1 DEF Keeps, Readable
    <3>3. \A q \in Procs \ {p} : KeptBy(q)'
      BY <1>0, <2>1, <3>1 DEF KeptBy, Keeps
    <3>4. ~stale'[p] => Keeps(ring)
      BY <1>2, <2>1, <3>1
    <3>5. KeptBy(p)'
      BY <1>0, <2>1, <3>4 DEF KeptBy, Keeps
    <3> QED
      BY <3>2, <3>3, <3>5
  <2>6. TornHasWriter'
    BY <1>0 DEF KeyInv, TornHasWriter, Readable
  <2> QED
    BY <2>2, <2>3, <2>4, <2>5, <2>6 DEF KeyInv
<1>3. CASE MintKey(p) \/ CliMint(p)
  <2> DEFINE ring == [Load EXCEPT ![serial'] = "live"]
  <2>1. /\ serial' \in Serials /\ serial' = serial + 1 /\ mint'[p] = serial' /\ serial' # 0
        /\ Load \in KeyRings /\ \A k \in Serials : k > serial => Load[k] = "none"
    BY <1>1, <1>3, DrawFacts, LowFacts DEF MintKey, CliMint, KeyInv
  <2>2. ring \in KeyRings
    BY <2>1, RingTypes DEF Marks
  <2>3. /\ ring[serial'] = "live"
        /\ \A k \in Serials : k # serial' => ring[k] = Load[k]
    BY <2>1 DEF KeyRings
  <2>4. \E label \in {"key_replace", "tmp_open"} : Take(p, ring, label)
    BY <1>3 DEF MintKey, CliMint
  <2> HIDE DEF ring
  <2>5. \A k \in Serials : k > serial' => ring[k] = "none"
    BY <1>1, <2>1, <2>3 DEF Serials
  <2>6. Readable(keyfile) /\ Keeps(keyfile) => Keeps(ring)
    BY <1>1, <2>1, <2>3 DEF Keeps, Load
  <2> QED
    BY <1>2, <2>1, <2>2, <2>3, <2>4, <2>5, <2>6
<1>4. ASSUME NEW k \in Serials, RevokeKey(p, k) PROVE KeyInv'
  <2> DEFINE ring == [keyfile EXCEPT ![k] = "revoked"]
  <2>1. /\ Readable(keyfile) /\ keyfile[k] # "none" /\ keyfile \in KeyRings
        /\ Take(p, ring, "key_truncate") /\ target'[p] = k /\ serial' = serial
    BY <1>4, RingTypes DEF RevokeKey, TInv, CopiesOK
  <2>2. k \in 1 .. serial
    BY <1>1, <2>1 DEF KeyInv, RingsOK, Low, Serials
  <2>3. ring \in KeyRings
    BY <2>1, RingTypes DEF Marks
  <2>4. ring[k] = "revoked" /\ \A m \in Serials : m # k => ring[m] = keyfile[m]
    BY <2>1 DEF KeyRings
  <2> HIDE DEF ring
  <2>5. \A m \in Serials : m > serial' => ring[m] = "none"
    BY <1>1, <2>1, <2>2, <2>4 DEF KeyInv, RingsOK, Low, Serials
  <2>6. Keeps(keyfile) => Keeps(ring)
    BY <1>1, <2>4 DEF Keeps
  <2> QED
    BY <1>2, <2>1, <2>2, <2>3, <2>4, <2>5, <2>6
<1> QED
  BY <1>3, <1>4

\* The key file becomes p's doing: every other copy of the keys is old, and it is enough
\* to say what the file holds now, if nobody is to blame.
LEMMA ChangeStep ==
    ASSUME TInv, TInv', KeyInv, NEW p \in Procs, OthersStay(p), Changed(p), serial' = serial,
           \A q \in Procs \ {p} : fd[q] = "none" => fd'[q] = "none",
           minted' \subseteq 1 .. serial, revoked' \subseteq 1 .. serial,
           Low(keyfile'), Low(tmpfile'), Low(keyCopy'[p]),
           HolderOK(p)',
           "keys" \notin clobbered' =>
               \/ /\ Readable(keyfile') /\ Keeps(keyfile)'
                  /\ pc'[p] \notin KeyPCs
               \/ keyfile' = Torn /\ fd'[p] = "key" /\ KeptBy(p)'
    PROVE  KeyInv'
<1>1. \A q \in Procs \ {p} : pc[q] \in KeyPCs => stale'[q]
  BY DEF Changed, Overtake
<1>2. \A q \in Procs \ {p} : HolderOK(q)'
  BY <1>1, OtherHolders DEF KeyInv
<1>3. \A q \in Procs \ {p} : KeptBy(q)'
  BY <1>1 DEF KeptBy, OthersStay
<1>4. RingsOK'
  BY DEF KeyInv, RingsOK, Low, OthersStay
<1>5. KeptOK' /\ TornHasWriter'
  BY <1>3 DEF KeptOK, KeptBy, TornHasWriter, Readable
<1> QED
  BY <1>2, <1>4, <1>5 DEF KeyInv

\* A step that leaves the key file as it is.
LEMMA KeepStep ==
    ASSUME TInv, TInv', KeyInv, NEW p \in Procs, OthersStay(p), UNCHANGED keyfile, serial' = serial,
           \A q \in Procs \ {p} : fd'[q] = fd[q] /\ stale'[q] = stale[q],
           fd[p] # "key" \/ "keys" \in clobbered',
           minted' = minted, revoked' \subseteq 1 .. serial,
           Low(tmpfile'), Low(keyCopy'[p]),
           HolderOK(p)',
           "keys" \notin clobbered' =>
               "keys" \notin clobbered /\ revoked' = revoked /\ KeptBy(p)'
    PROVE  KeyInv'
<1>1. \A q \in Procs \ {p} : HolderOK(q)'
  BY OtherHolders DEF KeyInv
<1>2. RingsOK'
  BY DEF KeyInv, RingsOK, Low, OthersStay
<1>3. KeptOK'
  BY DEF KeyInv, KeptOK, KeptBy, Keeps, OthersStay, Readable
<1>4. TornHasWriter'
  BY DEF KeyInv, TornHasWriter, Readable
<1> QED
  BY <1>1, <1>2, <1>3, <1>4 DEF KeyInv

LEMMA HolderSteps ==
    ASSUME TInv, TInv', HandlersOK, KeyInv, NEW p \in Procs, OthersStay(p),
           ReplaceKeys(p) \/ TruncateKeys(p) \/ FillKeys(p) \/ CliOpen(p) \/ CliFill(p) \/ CliRename(p)
    PROVE  KeyInv'
<1>0. /\ HolderOK(p) /\ minted \subseteq 1 .. serial /\ revoked \subseteq 1 .. serial
      /\ Low(keyfile) /\ Low(tmpfile) /\ Low(keyCopy[p])
      /\ keyCopy[p] \in KeyRings /\ mint[p] \in 0 .. serial /\ serial \in Nat /\ serial' = serial
      /\ \A f, r : Low(r) /\ f \in Overwritten(keyfile, r) \cup Overwritten(tmpfile, r) => Low(f)
      /\ \A f : Low(f) <=> Low(f)'
  <2>1. serial' = serial
    BY DEF ReplaceKeys, TruncateKeys, FillKeys, CliOpen, CliFill, CliRename
  <2>2. serial \in Nat
    BY SerialAssumption DEF TInv, TypeOK, Serials
  <2>3. \A f, r : Low(r) /\ f \in Overwritten(keyfile, r) \cup Overwritten(tmpfile, r) => Low(f)
    BY <2>1, LowFacts DEF KeyInv
  <2> QED
    BY <2>1, <2>2, <2>3 DEF KeyInv, RingsOK, HandlersOK, MintsOK, TInv, TypeOK, Low
<1>1. Low(Torn) /\ Low(NoFile) /\ Low(NoKeys)
  BY RingFacts DEF Low, NoKeys
<1>2. Finish(p) => /\ pc'[p] = "idle" /\ pc'[p] \notin KeyPCs /\ keyCopy'[p] = NoKeys
                   /\ (fd'[p] = "none" => HolderOK(p)')
  BY FinishFacts, ForgetFacts DEF HolderOK, KeyPCs
<1>3. /\ Readable(keyCopy[p])
      /\ ("keys" \notin clobbered /\ ~stale[p] /\ pc[p] \in KeyPCs => Keeps(keyCopy[p]))
  BY <1>0, RingFacts DEF Readable, KeyInv, KeptOK, KeptBy
<1>4. CASE ReplaceKeys(p)
  <2>1. /\ Finish(p) /\ Changed(p) /\ UNCHANGED <<tmpfile, revoked>> /\ pc[p] = "key_replace"
        /\ keyfile' = keyCopy[p] /\ minted' = minted \cup {mint[p]}
        /\ fd' = [q \in Procs |-> Renamed(fd[q], FALSE)] /\ Blame(stale[p])
    BY <1>4 DEF ReplaceKeys
  <2>2. /\ mint[p] \in 1 .. serial /\ keyCopy[p][mint[p]] = "live"
        /\ fd[p] = "none"
    BY <1>0, <2>1 DEF HolderOK
  <2>3. fd'[p] = "none" /\ \A q \in Procs : fd[q] = "none" => fd'[q] = "none"
    BY <2>1, <2>2 DEF Renamed
  <2>4. "keys" \notin clobbered' => Keeps(keyfile)'
    BY <1>3, <2>1, <2>2 DEF Blame, Keeps, KeyPCs
  <2>5. Readable(keyfile')
    BY <1>3, <2>1 DEF Readable
  <2>6. Low(keyfile') /\ Low(tmpfile') /\ Low(keyCopy'[p])
    BY <1>0, <1>1, <1>2, <2>1
  <2> QED
    BY <1>0, <1>2, <2>1, <2>2, <2>3, <2>4, <2>5, <2>6, ChangeStep
<1>5. CASE TruncateKeys(p)
  <2>1. /\ Changed(p) /\ UNCHANGED <<tmpfile, revoked, minted, keyCopy, target, mint>>
        /\ pc[p] = "key_truncate" /\ Goto(p, "key_fill")
        /\ keyfile' = Torn /\ fd' = [fd EXCEPT ![p] = "key"] /\ Blame(stale[p])
    BY <1>5 DEF TruncateKeys
  <2>2. /\ fd'[p] = "key" /\ pc'[p] = "key_fill"
        /\ \A q \in Procs \ {p} : fd'[q] = fd[q]
    BY <2>1, GotoFacts DEF KeyPCs, TInv, TypeOK
  <2>3. HolderOK(p)'
    BY <1>0, <2>1, <2>2 DEF HolderOK
  <2>4. "keys" \notin clobbered' => KeptBy(p)'
    BY <1>3, <2>1 DEF Blame, Keeps, KeptBy, KeyPCs
  <2> QED
    BY <1>0, <1>1, <2>1, <2>2, <2>3, <2>4, ChangeStep
<1>6. CASE FillKeys(p)
  <2>1. /\ Finish(p) /\ UNCHANGED <<tmpfile, minted>> /\ pc[p] = "key_fill"
        /\ revoked' = revoked \cup {target[p]} /\ Blame(stale[p])
        /\ fd' = [fd EXCEPT ![p] = "none"]
    BY <1>6 DEF FillKeys
  <2>2. /\ target[p] \in 1 .. serial /\ keyCopy[p][target[p]] = "revoked"
        /\ stale[p] \/ (fd[p] = "key" /\ keyfile = Torn)
    BY <1>0, <2>1 DEF HolderOK
  <2>3. fd'[p] = "none" /\ \A q \in Procs \ {p} : fd'[q] = fd[q]
    BY <2>1 DEF TInv, TypeOK
  <2>4. CASE fd[p] = "key"
    <3>1. keyfile' \in Overwritten(keyfile, keyCopy[p]) /\ Changed(p)
      BY <1>6, <2>4 DEF FillKeys
    <3>2. ~stale[p] => keyfile' = keyCopy[p]
      BY <2>2, <3>1 DEF Overwritten
    <3>3. "keys" \notin clobbered' => Readable(keyfile') /\ Keeps(keyfile)'
      BY <1>3, <2>1, <2>2, <3>2 DEF Blame, Keeps, KeyPCs, Readable
    <3>4. Low(keyfile') /\ Low(tmpfile') /\ Low(keyCopy'[p])
      BY <1>0, <1>1, <1>2, <2>1, <3>1
    <3> QED
      BY <1>0, <1>2, <2>1, <2>2, <2>3, <3>1, <3>3, <3>4, ChangeStep
  <2>5. CASE fd[p] # "key"
    <3>1. UNCHANGED keyfile /\ Discard(p) /\ "keys" \in clobbered'
      BY <1>6, <2>1, <2>2, <2>5 DEF FillKeys, Blame
    <3>2. \A q \in Procs \ {p} : stale'[q] = stale[q]
      BY <3>1, AgeFacts
    <3>3. Low(tmpfile') /\ Low(keyCopy'[p])
      BY <1>0, <1>1, <1>2, <2>1
    <3> QED
      BY <1>0, <1>2, <2>1, <2>2, <2>3, <3>1, <3>2, <3>3, KeepStep
  <2> QED
    BY <2>4, <2>5
<1>7. CASE CliOpen(p)
  <2>1. /\ UNCHANGED <<keyfile, revoked, minted, keyCopy, mint, stale, clobbered>>
        /\ pc[p] = "tmp_open" /\ Goto(p, "tmp_fill")
        /\ tmpfile' = Torn /\ fd' = [fd EXCEPT ![p] = "tmp"]
    BY <1>7 DEF CliOpen
  <2>2. /\ fd[p] = "none" /\ pc'[p] = "tmp_fill"
        /\ \A q \in Procs \ {p} : fd'[q] = fd[q]
    BY <1>0, <2>1, GotoFacts DEF HolderOK, KeyPCs, TInv, TypeOK
  <2>3. HolderOK(p)'
    BY <1>0, <2>1, <2>2 DEF HolderOK
  <2>4. "keys" \notin clobbered' => KeptBy(p)'
    BY <1>3, <2>1 DEF Keeps, KeptBy, KeyPCs
  <2> QED
    BY <1>0, <1>1, <2>1, <2>2, <2>3, <2>4, KeepStep
<1>8. CASE CliFill(p)
  <2>1. /\ UNCHANGED <<revoked, minted, keyCopy, mint>>
        /\ pc[p] = "tmp_fill" /\ Goto(p, "tmp_rename") /\ fd' = [fd EXCEPT ![p] = "none"]
    BY <1>8 DEF CliFill
  <2>2. /\ fd'[p] = "none" /\ pc'[p] = "tmp_rename"
        /\ \A q \in Procs \ {p} : fd'[q] = fd[q]
    BY <2>1, GotoFacts DEF KeyPCs, TInv, TypeOK
  <2>3. HolderOK(p)'
    BY <1>0, <2>1, <2>2 DEF HolderOK
  <2>4. CASE fd[p] = "key"
    <3>1. /\ keyfile' \in Overwritten(keyfile, keyCopy[p])
          /\ Changed(p) /\ Blame(TRUE) /\ UNCHANGED tmpfile
      BY <1>8, <2>4 DEF CliFill
    <3>2. "keys" \in clobbered'
      BY <3>1 DEF Blame
    <3>3. Low(keyfile') /\ Low(tmpfile') /\ Low(keyCopy'[p])
      BY <1>0, <2>1, <3>1
    <3> QED
      BY <1>0, <2>1, <2>2, <2>3, <3>1, <3>2, <3>3, ChangeStep
  <2>5. CASE fd[p] # "key"
    <3>1. /\ UNCHANGED <<keyfile, stale, clobbered>>
          /\ tmpfile' \in Overwritten(tmpfile, keyCopy[p]) \cup {tmpfile}
      BY <1>8, <2>5 DEF CliFill
    <3>2. "keys" \notin clobbered' => KeptBy(p)'
      BY <1>3, <2>1, <3>1 DEF Keeps, KeptBy, KeyPCs
    <3>3. Low(tmpfile') /\ Low(keyCopy'[p])
      BY <1>0, <2>1, <3>1
    <3> QED
      BY <1>0, <2>1, <2>2, <2>3, <2>5, <3>1, <3>2, <3>3, KeepStep
  <2> QED
    BY <2>4, <2>5
<1>9. CASE CliRename(p)
  <2>1. Finish(p) /\ UNCHANGED revoked /\ pc[p] = "tmp_rename"
    BY <1>9 DEF CliRename
  <2>2. /\ mint[p] \in 1 .. serial /\ keyCopy[p][mint[p]] = "live"
        /\ fd[p] = "none"
    BY <1>0, <2>1 DEF HolderOK
  <2>3. CASE tmpfile = NoFile
    <3>1. Discard(p) /\ UNCHANGED <<keyfile, tmpfile, fd, clobbered, minted>>
      BY <1>9, <2>3 DEF CliRename
    <3>2. \A q \in Procs \ {p} : stale'[q] = stale[q]
      BY <3>1, AgeFacts
    <3>3. KeptBy(p)'
      BY <1>2, <2>1 DEF KeptBy
    <3>4. Low(tmpfile') /\ Low(keyCopy'[p])
      BY <1>0, <1>1, <1>2, <2>1, <3>1
    <3> QED
      BY <1>0, <1>2, <2>1, <2>2, <3>1, <3>2, <3>3, <3>4, KeepStep
  <2>4. CASE tmpfile # NoFile
    <3>1. /\ keyfile' = tmpfile /\ tmpfile' = NoFile /\ minted' = minted \cup {mint[p]}
          /\ fd' = [q \in Procs |-> Renamed(fd[q], TRUE)]
          /\ Changed(p) /\ Blame(stale[p] \/ tmpfile # keyCopy[p])
      BY <1>9, <2>4 DEF CliRename
    <3>2. fd'[p] = "none" /\ \A q \in Procs : fd[q] = "none" => fd'[q] = "none"
      BY <2>2, <3>1 DEF Renamed
    <3>3. "keys" \notin clobbered' => keyfile' = keyCopy[p] /\ Keeps(keyCopy[p])
      BY <1>3, <2>1, <3>1 DEF Blame, KeyPCs
    <3>4. "keys" \notin clobbered' => Readable(keyfile') /\ Keeps(keyfile)'
      BY <1>3, <2>1, <2>2, <3>1, <3>3 DEF Keeps, Readable
    <3>5. Low(keyfile') /\ Low(tmpfile') /\ Low(keyCopy'[p])
      BY <1>0, <1>1, <1>2, <2>1, <3>1
    <3> QED
      BY <1>0, <1>2, <2>1, <2>2, <3>1, <3>2, <3>4, <3>5, ChangeStep
  <2> QED
    BY <2>3, <2>4
<1> QED
  BY <1>4, <1>5, <1>6, <1>7, <1>8, <1>9

LEMMA DieKeys ==
    ASSUME TInv, TInv', KeyInv, NEW S \in SUBSET Procs, Die(S)
    PROVE  KeyInv'
<1>1. /\ UNCHANGED <<serial, keyfile, tmpfile, minted, revoked>>
      /\ "keys" \in clobbered \/ (\E p \in S : fd[p] = "key") => "keys" \in clobbered'
      /\ "keys" \in clobbered => "keys" \in clobbered'
  BY DEF Die, others, Blame
<1>2. \A p \in S : pc'[p] = "idle" /\ keyCopy'[p] = NoKeys /\ fd'[p] = "none"
  BY DEF Die
<1>3. \A p \in Procs \ S : /\ pc'[p] = pc[p] /\ mint'[p] = mint[p] /\ keyCopy'[p] = keyCopy[p]
                           /\ target'[p] = target[p] /\ fd'[p] = fd[p] /\ stale'[p] = stale[p]
  BY DEF Die, TInv, CopiesOK
<1>4. Low(NoKeys)
  BY DEF Low, NoKeys
<1>5. \A p \in Procs : Low(keyCopy'[p])
  BY <1>2, <1>3, <1>4 DEF KeyInv, RingsOK
<1>6. RingsOK'
  BY <1>1, <1>5 DEF KeyInv, RingsOK, Low
<1>7. \A p \in Procs : HolderOK(p)'
  <2>1. \A p \in S : HolderOK(p)'
    BY <1>2 DEF HolderOK
  <2>2. \A p \in Procs \ S : HolderOK(p)'
    BY <1>1, <1>3 DEF KeyInv, HolderOK
  <2> QED
    BY <2>1, <2>2
<1>8. KeptOK'
  <2>1. \A p \in S : KeptBy(p)'
    BY <1>2 DEF KeptBy, KeyPCs
  <2>2. \A p \in Procs \ S : KeptBy(p) => KeptBy(p)'
    BY <1>1, <1>3 DEF KeptBy, Keeps
  <2> QED
    BY <1>1, <2>1, <2>2 DEF KeyInv, KeptOK, Keeps, Readable
<1>9. TornHasWriter'
  BY <1>1, <1>3 DEF KeyInv, TornHasWriter, Readable
<1> QED
  BY <1>6, <1>7, <1>8, <1>9 DEF KeyInv

LEMMA NextKeyInv == TInv /\ HandlersOK /\ KeyInv /\ [Next]_vars => KeyInv'
<1> SUFFICES ASSUME TInv, HandlersOK, KeyInv, [Next]_vars PROVE KeyInv'
  OBVIOUS
<1>0. TInv'
  BY NextTInv
<1>1. CASE UNCHANGED vars
  <2>1. /\ UNCHANGED <<serial, pc, mint, stale, clobbered>>
        /\ UNCHANGED <<keyfile, tmpfile, fd, keyCopy, target, minted, revoked>>
    BY <1>1 DEF vars, accounts, handler, witnesses, keys
  <2> QED
    BY <2>1 DEF KeyInv, RingsOK, Low, HolderOK, KeptOK, KeptBy, Keeps, TornHasWriter, Readable
<1>2. CASE ServerDies \/ \E c \in Clis : CliDies(c)
  BY <1>0, <1>2, DieKeys DEF ServerDies, CliDies, Procs
<1>3. ASSUME NEW p \in Procs, AccountStep(p), UNCHANGED keys PROVE KeyInv'
  BY <1>0, <1>3, AccountKeys
<1>4. ASSUME NEW p \in Procs, KeyStep(p) PROVE KeyInv'
  BY <1>0, <1>4, KeyTInv, TakeKeys, HolderSteps DEF KeyStep
<1> QED
  BY <1>1, <1>2, <1>3, <1>4 DEF Next

LEMMA InitKeyInv == Init => KeyInv
<1> SUFFICES ASSUME Init PROVE KeyInv
  OBVIOUS
<1>1. /\ keyfile = NoKeys /\ tmpfile = NoFile /\ minted = {} /\ revoked = {}
      /\ \A p \in Procs : fd[p] = "none" /\ keyCopy[p] = NoKeys /\ pc[p] = "idle"
  BY DEF Init, AccountInit
<1>2. Low(NoKeys) /\ Low(NoFile) /\ Readable(NoKeys)
  BY RingFacts DEF Low, NoKeys, Readable
<1>3. RingsOK
  BY <1>1, <1>2 DEF RingsOK
<1>4. \A p \in Procs : HolderOK(p) /\ KeptBy(p)
  BY <1>1 DEF HolderOK, KeptBy, KeyPCs
<1> QED
  BY <1>1, <1>2, <1>3, <1>4 DEF KeyInv, KeptOK, Keeps, TornHasWriter

THEOREM AlwaysKeyInv == Spec => []KeyInv
BY InitKeyInv, NextKeyInv, AlwaysSessInv, PTL DEF Spec

\* A key file that cannot be parsed is being written, unless writers overlapped or died.
THEOREM TornAlwaysHasWriter == Spec => []TornHasWriter
BY AlwaysKeyInv, PTL DEF KeyInv

\* Keys that were minted and revocations that were answered stay in the key file,
\* whichever writers follow, while no update of it was lost.
THEOREM AnsweredKeysAlwaysKept == Spec => []AnsweredKeysAreKept
<1>1. KeyInv => AnsweredKeysAreKept
  BY DEF KeyInv, KeptOK, Keeps, AnsweredKeysAreKept
<1> QED
  BY <1>1, AlwaysKeyInv, PTL
=============================================================================
