---------------------------- MODULE AccountStore ----------------------------
(***************************************************************************)
(* Accounts and sessions of the server: users.json, projects.json and      *)
(* sessions.json, and the requests that read and write them.               *)
(*                                                                         *)
(* A request reads a whole file, changes its copy and replaces the file,   *)
(* once or several times, and nothing is locked.  Each read and each       *)
(* replacement is a step (RecordFile shows that a replacement is one).     *)
(* A request that is refused changes nothing and is no step.               *)
(*                                                                         *)
(* User ids, token values and keys are random and never repeat: they are   *)
(* drawn from one counter, whose bound MaxSerial is the only one here.     *)
(* Every login and every rotation mints two tokens with one serial.        *)
(* Expiry is left out: it is a comparison with the clock, writes nothing,  *)
(* and only shortens the life of a token.                                  *)
(***************************************************************************)
EXTENDS Naturals, FiniteSets

CONSTANTS
    Workers,    \* threads of the server's pool
    Clis,       \* processes of the command line (used by KeyStore)
    Names,      \* usernames
    MaxSerial   \* bound on what is minted

ASSUME ProcsAssumption == Workers \cap Clis = {}
ASSUME SerialAssumption == MaxSerial \in Nat \ {0}
ASSUME NamesAssumption == Names # {}

Procs == Workers \cup Clis
Serials == 1 .. MaxSerial
Tokens == [serial : Serials, type : {"access", "refresh"}]
Access(n)  == [serial |-> n, type |-> "access"]
Refresh(n) == [serial |-> n, type |-> "refresh"]
NoToken == [serial |-> 0, type |-> "none"]

VARIABLES
    users,      \* the users file: a set of [name, id]
    projects,   \* the projects file: a set of serials
    sessions,   \* the sessions file: "none", "live" or "revoked" for each token
    serial,     \* the last serial drawn
    pc,         \* where each handler is
    token,      \* the token its request came with
    mint,       \* the serial it has drawn
    userCopy, projectCopy, tokenCopy,   \* its copy of a file, to be written
    stale,      \* history: has its file been replaced since it read it?
    issued,     \* history: the serials of the token pairs clients were given
    parent,     \* history: the refresh token a pair was minted for
    contended,  \* history: refresh tokens found revoked after they were checked
    clobbered   \* history: files written over from an old copy

stores    == <<users, projects, sessions>>
handler   == <<pc, token, mint, userCopy, projectCopy, tokenCopy>>
witnesses == <<issued, parent, contended, clobbered>>
accounts  == <<stores, serial, handler, stale, witnesses>>

AccountPCs == {"idle", "user_write", "project_write", "check_write", "revoke_read",
               "revoke_write", "access_read", "access_write", "refresh_read",
               "refresh_write", "authorized"}

NoTokens == [t \in Tokens |-> "none"]

AccountInit ==   \* one account, logged in once
    /\ users = {[name |-> CHOOSE n \in Names : TRUE, id |-> 1]}
    /\ projects = {}
    /\ sessions = [t \in Tokens |-> IF t.serial = 1 THEN "live" ELSE "none"]
    /\ serial = 1
    /\ pc = [p \in Procs |-> "idle"]
    /\ token = [p \in Procs |-> NoToken]
    /\ mint = [p \in Procs |-> 0]
    /\ userCopy = [p \in Procs |-> {}]
    /\ projectCopy = [p \in Procs |-> {}]
    /\ tokenCopy = [p \in Procs |-> NoTokens]
    /\ stale = [p \in Procs |-> FALSE]
    /\ issued = {1}
    /\ parent = [n \in Serials |-> 0]
    /\ contended = {}
    /\ clobbered = {}

-----------------------------------------------------------------------------
(* The pieces of the handlers.                                             *)

Idle(p) == p \in Workers /\ pc[p] = "idle"
Goto(p, label) == pc' = [pc EXCEPT ![p] = label]

\* A fresh serial for what p creates.
Draw(p) ==
    /\ serial < MaxSerial
    /\ serial' = serial + 1
    /\ mint' = [mint EXCEPT ![p] = serial + 1]

\* p's copy of a file is new; the others' copies of a file are old once p has written it.
Read(p) == stale' = [stale EXCEPT ![p] = FALSE]
Overtake(p, labels) == stale' = [q \in Procs |-> q # p /\ (stale[q] \/ pc[q] \in labels)]
Account(p, store) == clobbered' = IF stale[p] THEN clobbered \cup {store} ELSE clobbered

Forget(p) ==
    /\ Goto(p, "idle")
    /\ token' = [token EXCEPT ![p] = NoToken]
    /\ mint' = [mint EXCEPT ![p] = 0]
    /\ userCopy' = [userCopy EXCEPT ![p] = {}]
    /\ projectCopy' = [projectCopy EXCEPT ![p] = {}]
    /\ tokenCopy' = [tokenCopy EXCEPT ![p] = NoTokens]

-----------------------------------------------------------------------------
(* POST /v1/users                                                          *)

\* Between this read and the write the password is hashed, which takes long.
CreateUser(p, n) ==
    /\ Idle(p)
    /\ \A u \in users : u.name # n
    /\ Draw(p)
    /\ userCopy' = [userCopy EXCEPT ![p] = users \cup {[name |-> n, id |-> serial']}]
    /\ Goto(p, "user_write")
    /\ Read(p)
    /\ UNCHANGED <<stores, token, projectCopy, tokenCopy, witnesses>>

\* Mutant of WriteUsers: the new entry is added to whatever the file holds by now.
WriteUsersMerged(p) ==
    /\ pc[p] = "user_write"
    /\ users' = users \cup userCopy[p]
    /\ Forget(p)
    /\ UNCHANGED <<projects, sessions, serial, stale, witnesses>>

WriteUsers(p) ==
    /\ pc[p] = "user_write"
    /\ users' = userCopy[p]
    /\ Overtake(p, {"user_write"}) /\ Account(p, "users")
    /\ Forget(p)
    /\ UNCHANGED <<projects, sessions, serial, issued, parent, contended>>

-----------------------------------------------------------------------------
(* sessions.json: one read-modify-write per token stored, revoked or used. *)

\* The handler goes on with a copy of the sessions in which t is marked.
MarkToken(p, t, mark, label) ==
    /\ tokenCopy' = [tokenCopy EXCEPT ![p] = [sessions EXCEPT ![t] = mark]]
    /\ Goto(p, label)
    /\ Read(p)

\* It replaces the file by its copy.
PutTokens(p) ==
    /\ sessions' = tokenCopy[p]
    /\ Overtake(p, {"check_write", "revoke_write", "access_write", "refresh_write"})
    /\ Account(p, "sessions")

\* _store_session_token, first for the access token and then for the refresh token.
ReadAccess(p) ==
    /\ pc[p] = "access_read"
    /\ MarkToken(p, Access(mint[p]), "live", "access_write")
    /\ UNCHANGED <<stores, serial, token, mint, userCopy, projectCopy, witnesses>>

WriteAccess(p) ==
    /\ pc[p] = "access_write"
    /\ PutTokens(p)
    /\ tokenCopy' = [tokenCopy EXCEPT ![p] = NoTokens]
    /\ Goto(p, "refresh_read")
    /\ UNCHANGED <<users, projects, serial, token, mint, userCopy, projectCopy,
                   issued, parent, contended>>

\* Mutant of ReadRefresh: the list of tokens is begun anew.
ReadRefreshOnly(p) ==
    /\ pc[p] = "refresh_read"
    /\ tokenCopy' = [tokenCopy EXCEPT ![p] = [NoTokens EXCEPT ![Refresh(mint[p])] = "live"]]
    /\ Goto(p, "refresh_write")
    /\ Read(p)
    /\ UNCHANGED <<stores, serial, token, mint, userCopy, projectCopy, witnesses>>

ReadRefresh(p) ==
    /\ pc[p] = "refresh_read"
    /\ MarkToken(p, Refresh(mint[p]), "live", "refresh_write")
    /\ UNCHANGED <<stores, serial, token, mint, userCopy, projectCopy, witnesses>>

\* The request is answered with both tokens.
WriteRefresh(p) ==
    /\ pc[p] = "refresh_write"
    /\ PutTokens(p)
    /\ issued' = issued \cup {mint[p]}
    /\ parent' = [parent EXCEPT ![mint[p]] = token[p].serial]
    /\ Forget(p)
    /\ UNCHANGED <<users, projects, serial, contended>>

\* POST /v1/login: the user is found and the password right.
Login(p) ==
    /\ Idle(p) /\ users # {}
    /\ Draw(p)
    /\ Goto(p, "access_read")
    /\ UNCHANGED <<stores, token, userCopy, projectCopy, tokenCopy, stale, witnesses>>

\* _check_token: the token is good, and the file is written back with last_used_at of now,
\* unless the token was used earlier in this second.
Check(p, t, label) ==
    /\ sessions[t] = "live"
    /\ token' = [token EXCEPT ![p] = t]
    /\ \/ Goto(p, label) /\ UNCHANGED <<tokenCopy, stale>>
       \/ MarkToken(p, t, "live", "check_write")

WriteCheck(p) ==
    /\ pc[p] = "check_write"
    /\ PutTokens(p)
    /\ tokenCopy' = [tokenCopy EXCEPT ![p] = NoTokens]
    /\ Goto(p, IF token[p].type = "refresh" THEN "revoke_read" ELSE "authorized")
    /\ UNCHANGED <<users, projects, serial, token, mint, userCopy, projectCopy,
                   issued, parent, contended>>

\* POST /v1/token/refresh: check, revoke, store, store.
Rotate(p, n) ==
    /\ Idle(p) /\ n \in issued
    /\ Draw(p)
    /\ Check(p, Refresh(n), "revoke_read")
    /\ UNCHANGED <<stores, userCopy, projectCopy, witnesses>>

\* Mutant of ReadRevoke: the check is all there is.
ReadRevokeNot(p) ==
    /\ pc[p] = "revoke_read"
    /\ Goto(p, "access_read")
    /\ UNCHANGED <<stores, serial, token, mint, userCopy, projectCopy, tokenCopy, stale, witnesses>>

\* _revoke_token_hash: nothing is written, and nobody told, if there is nothing to revoke.
ReadRevoke(p) ==
    /\ pc[p] = "revoke_read"
    /\ IF sessions[token[p]] = "live"
       THEN MarkToken(p, token[p], "revoked", "revoke_write") /\ UNCHANGED contended
       ELSE /\ Goto(p, "access_read")
            /\ contended' = contended \cup {token[p].serial}
            /\ UNCHANGED <<tokenCopy, stale>>
    /\ UNCHANGED <<stores, serial, token, mint, userCopy, projectCopy, issued, parent, clobbered>>

WriteRevoke(p) ==
    /\ pc[p] = "revoke_write"
    /\ PutTokens(p)
    /\ tokenCopy' = [tokenCopy EXCEPT ![p] = NoTokens]
    /\ Goto(p, "access_read")
    /\ UNCHANGED <<users, projects, serial, token, mint, userCopy, projectCopy,
                   issued, parent, contended>>

-----------------------------------------------------------------------------
(* Requests with an access token; KeyStore has more of them.               *)

Authenticate(p, n) ==
    /\ Idle(p) /\ n \in issued
    /\ Check(p, Access(n), "authorized")
    /\ UNCHANGED <<stores, serial, mint, userCopy, projectCopy, witnesses>>

\* The request only lists something, or is refused after all.
Refuse(p) ==
    /\ pc[p] = "authorized"
    /\ Forget(p)
    /\ UNCHANGED <<stores, serial, stale, witnesses>>

\* POST /v1/projects
CreateProject(p) ==
    /\ pc[p] = "authorized"
    /\ Draw(p)
    /\ projectCopy' = [projectCopy EXCEPT ![p] = projects \cup {serial'}]
    /\ Goto(p, "project_write")
    /\ Read(p)
    /\ UNCHANGED <<stores, token, userCopy, tokenCopy, witnesses>>

WriteProjects(p) ==
    /\ pc[p] = "project_write"
    /\ projects' = projectCopy[p]
    /\ Overtake(p, {"project_write"}) /\ Account(p, "projects")
    /\ Forget(p)
    /\ UNCHANGED <<users, sessions, serial, issued, parent, contended>>

-----------------------------------------------------------------------------
AccountStep(p) ==
    \/ \E n \in Names : CreateUser(p, n)
    \/ \E n \in Serials : Rotate(p, n) \/ Authenticate(p, n)
    \/ WriteUsers(p) \/ Login(p)
    \/ ReadAccess(p) \/ WriteAccess(p) \/ ReadRefresh(p) \/ WriteRefresh(p)
    \/ WriteCheck(p) \/ ReadRevoke(p) \/ WriteRevoke(p)
    \/ Refuse(p) \/ CreateProject(p) \/ WriteProjects(p)
=============================================================================
