# Verification of scheduler-orchestration

TLA+ models of Dispatch, the service in `src/dispatch` that takes job submissions over HTTP, hands
them to Slurm or to systemd, and keeps one JSON record per job. The modules are model-checked with
TLC on small instances; every safety property that a passing run checks, and both refinements, are proved with
TLAPS for every instance.

## The system

| Part | Source | State it keeps | Operations |
|---|---|---|---|
| Job server | `dispatch/server/app.py` | none in memory: every handler works on private copies of files | submit, get, list, logs, cancel, drain, queue; reconciliation at startup |
| Slurm backend | `dispatch/backends.py`, `slurm_adapter.py`, `slurm_observer.py` | Slurm's own | plan, sbatch, scancel, squeue, then sacct, then scontrol; bulk refresh |
| Direct backend | `dispatch/backends.py`, `direct_backend.py`, `direct_observer.py` | transient user units of systemd | plan, systemd-run, systemctl stop, systemctl show, state inference |
| Job ledger | `dispatch/job_ledger.py` | `jobs/<id>.json` | write a record (temporary file, fsync, rename), read, list in name order |
| Drain state | `dispatch/drain_state.py` | `drain_state.json` | set (written in place), test |
| Graceful shutdown | `dispatch/graceful_shutdown.py` | none; works on the ledger from a second process | drain, cancel all, wait with a deadline, stop |
| Account and key store | `dispatch/auth_store.py`, endpoints in `app.py` | users, sessions, projects, keys: four JSON files | create users and projects; login, check and refresh tokens; mint, check, revoke keys |
| Legacy keyring | `dispatch/api_keyring.py`, `keyring.py` | the same keys file | mint, check, TTL parsing |
| Operator CLI | `dispatch/dispatch.py` | pid, log and meta files | server start, status, stop, shutdown; doctor, bootstrap |
| Python client | `dispatch_client/` | none | one HTTP request per call |

How they meet. The handlers are synchronous functions, so FastAPI runs them on a pool of threads:
any number of them are active at once. They share the ledger, the drain file and the key files
through the file system only, **without any lock**. A handler reads a record, asks a scheduler
(commands with timeouts of 5 or 10 seconds), changes its copy and replaces the whole file. Startup
reconciliation runs before the first request. The CLI's shutdown runs in another process against
the same files. The schedulers change under everybody's feet.

What is hard: whole-record writes of old copies; the launch that precedes its record; answers that
are lost after the command took effect; crashes between any two steps; exit codes and unit states
that mean something else later; caps that must not starve anybody. `PROJECT.json` lists these
hazards, each at its line, with the properties that cover it.

What makes each part correct:

- *Job server and backends*: an acknowledged job is on disk with its scheduler id and stays
  there; a record does not claim a success, a cancellation or a refusal that is not true; a final
  state is lost only in ways the code concedes; the end of a job that ends by itself is recorded. (Modelled.)
- *Drain*: a submission planned under drain is never launched. (Modelled.)
- *Ledger*: a record is replaced whole or not at all, whatever dies, and stays replaced. (Modelled.)
- *Shutdown*: lets in nothing after the drain, tells every job to stop that it may, never records what
  is not true, ends. (Modelled.)
- *Key store, keyring*: what was answered (tokens, keys, revocations) is kept, and a refresh token is
  redeemed once, as long as no update is lost; usernames are unique whatever is lost. (Modelled.)
- *Server lifecycle*: at most one managed server per runtime directory; the pid file leads to it; a pid
  file that leads elsewhere has a known cause; stop ends the server. (Modelled.)

## The modules

| Module | What it is |
|---|---|
| `JobStates` | records, states, the vocabulary of the schedulers |
| `SlurmBackend` | what squeue, sacct and scontrol may answer, and what an answer does to a copy |
| `DirectBackend` | what `systemctl show` may print, and the state inferred from it |
| `JobServer` | the machine: handlers, ledger, drain file, schedulers, crash, restart |
| `JobServerProps` | its safety, action and liveness properties, and the fairness they need |
| `JobService` | abstract: what the server promises about each job, without handlers, copies and interleaving |
| `GracefulShutdown` | `dispatch server shutdown` composed with `JobServer`, and its properties |
| `AtomicFile` | abstract: a file that is replaced in one step |
| `RecordFile` | how `atomic_write_private_json` replaces a file; implements `AtomicFile` |
| `AccountStore` | users, projects, sessions, and the requests that change them |
| `KeyStore` | `AccountStore` extended by the keys file and its three kinds of writers; properties |
| `ServerLifecycle` | servers as processes, `server start`, `server stop`, the pid file; properties |
| `JobServerProofs`, `JobServerStepProofs` | theorems about `JobServer`: invariants, and what a step may do |
| `GracefulShutdownProofs`, `KeyStoreProofs`, `RecordFileProofs`, `ServerLifecycleProofs` | theorems about these modules |
| `JobServiceProofs` | that `JobServer`, alone and beside `GracefulShutdown`, implements `JobService` |
| `MCJobServer`, `MCShutdown`, `MCRecordFile`, `MCKeyStore`, `MCLifecycle` | TLC instances; constants in the `.cfg` files |

`GracefulShutdown` shares the ledger, the drain file and the schedulers with `JobServer`: its next-state
relation takes the server's as it is. `KeyStore` does the same with `AccountStore`. `RecordFile`
justifies the single step that `JobServer` takes for a write of a record, and `AccountStore` for a
write of a file. `ServerLifecycle` stands beside the others: the server it starts and stops is
`JobServer`'s `Restart` and `Crash`, the stop at its end is `GracefulShutdown`'s `Stop`.

### JobService, the promise

`JobService` has one record per job and no handlers: what the ledger says of it (`verdict`, with the
states that promise nothing taken together as `open`), whether the ledger names it to Slurm (`named`), what
became of it at its scheduler (`fate`), whether the scheduler accepted a cancel command (`told`), and whether
its submission was `answered`. Five atomic actions: `HandOver` (once, and before there is an entry), `Enter`
(once; the scheduler id is settled here), `Revise` (never of a Slurm job that cannot be asked about), `Tell`,
and the scheduler's own `Proceed`. A verdict needs a ground (`Grounded`): `succeeded` a completed Slurm job,
`canceled` a command or a cancellation, `blocked` that the job was never handed over.
`JobServerProps!Service` maps `JobServer` to it: `verdict` and `named` are read off the ledger, `fate`, `told`
and `answered` are `sched`, `killed` and `acked`. What clients rely on is thereby stated without the
interleaving that makes it hard to see.

### JobServer and the code

A handler `p` is a program counter `pc[p]`, the job it is about (`job[p]`), its private copies of
records (`copy[p]`), and for a bulk refresh the jobs still to be queried (`todo[p]`) and to be
written (`out[p]`). Its steps are cut where the code touches something shared: reading a file,
each scheduler command, each write of a record.

| Request | Steps |
|---|---|
| `POST /v1/jobs` | `Plan` (drain is read) `-> Launch` (sbatch or systemd-run) `-> Commit` (the record is written, the request answered); `RejectSpec` leaves between `Plan` and the launch with a 500 and no record |
| `GET /v1/jobs/{id}?refresh=1`, Slurm | `Get -> Squeue -> Sacct -> Scontrol -> Write`, the middle ones only while there is no answer |
| the same, direct | `Get -> Show -> Write` |
| `DELETE /v1/jobs/{id}` | `Cancel -> Kill -> Write` |
| `GET /v1/jobs?refresh=1` | `List`, then for direct jobs `BulkShow -> BulkShowWrite` one by one, then for Slurm jobs `BulkSqueue -> BulkSacct -> BulkWrite` together |
| `POST /v1/drain` | `SetDrain` (truncate) `-> WriteDrain` |
| startup | `Restart`, then the bulk steps by the process `Boot` |

`Crash` stops everything at any point and loses all copies; `ledger`, `drain` and the schedulers
stay. `SchedStart`, `SchedEnd`, `SchedCancel` are the schedulers' own steps.

A record keeps three of its fields: the state, whether there is a `scheduler_job_id`, and the exit
code (none, 0, or 1 for any other). Those are the fields the code branches on. `acked`, `stale` and
`hasty` are history: which submissions were answered 202, which copies were overtaken by somebody
else's write, and which direct jobs were asked about while their units were queued. The two limits of bulk
refresh may be any integers; `CapLimit` cuts them as the code does.

Abstractions, and why they lose nothing the properties speak of. A scheduler command takes effect
and is answered in one step: nothing in the server happens inside it, and lost answers are outcomes
of the step (`launch_timeout`, which also stands for an answer that does not parse, and
`kill_timeout`). A bulk refresh reads all records in one step: no property relates two records. The
replacement of a record is one step, which `RecordFile` justifies. Requests that
end before their first effect, and handlers that only read, are no steps. The server is taken to run
with one setting of its environment variables (`Gates`), and `Direct` says which jobs were submitted
with the direct backend, so that jobs of both kinds can share a ledger, as they do after a change of
`SCHED_ORCH_EXECUTION_BACKEND`. What a scheduler may answer is modelled from how the code calls and
parses it, and is marked external in the map: squeue lists live jobs only; accounting knows a job's
state, but sacct says `CANCELLED by <uid>` of most cancelled jobs, a name the code does not know (`SacctRows`,
with or without faults); a unit that ended disappears sooner or later. Both launches only put the job into a
queue (`systemd-run --no-block` does not wait for the unit to start): a queued unit is `inactive` with status 0,
and one that is told to stop is `deactivating` with status 0 while its processes run (`ShowReports`). Whether a
unit may have been told to stop is `Stoppable`. An operator named "Mutant of ..." is a faulty
variant of the definition after it: a property has to notice the exchange.

Two writes of the drain file that overlap leave the later one's text: "false" is one byte longer than
"true", and what it leaves behind is the newline at its end. (The time stamps in the two texts are taken
to have one length; one without microseconds is shorter.)

`Faults` chooses what the environment may do: `launch_error`, `launch_timeout`, `query_error`
(commands that fail or print nothing), `query_timeout` (systemctl show is killed by its timeout, which
raises), `unmapped` (state names the mapping does not know), `kill_error`, `kill_timeout`,
`foreign_cancel` (somebody else's scancel), `crash`.

### GracefulShutdown and the code

`step` is where the command is, `mine` its private copies, `left` the records of the loop it is in.

| `graceful_shutdown.py` | Steps |
|---|---|
| options, then drain (110-112) | `Begin` (truncates the drain file, unless `--no-drain`) `-> WriteDrainOn` |
| records of jobs that are not final (120, 75-83) | `Snapshot`, read in one step |
| cancel loop (141-212) | per record `CancelOne -> Mark`, or `CancelNot` where an option forbids it or there is no scheduler id |
| wait loop (216-262) | `Round`, then per record `RefreshFails`, or for direct jobs `RefreshDirect -> KeepDirect` |
| deadline (214, 230) | `Expire` at any time in the wait loop; it is looked at in `Round` only |
| `_cmd_server_stop` | `Stop`: the server is gone with its handlers, and is not started again; or it goes on, if there is no pid file that names it |

The record keeps its state through the cancel loop: `Mark` writes back the copy from the snapshot with
a time stamp and nothing else new, and so undoes what a handler wrote since. `ignored` are the jobs
that `--ignore-older-than-hours` skips, any set of those that have a record when the command begins.
The queries of the wait loop see what `JobServer`'s handlers may see (`Answers`), a unit in the middle of its
stop included.
`early` (jobs whose submissions were in flight when drain was written) and `late` (direct jobs for
which a command was started after the deadline) are history.

### RecordFile and the code

Each call has an inode named after it; `path` is the inode the file name leads to. `Create` (mkstemp),
`Write`, `Fsync`, `Rename`, `Dirsync` are the lines of `atomic_write_private_json`, of which
`auth_store.py` has a copy. `Fail` is an exception or the death of the process, `PowerLoss` may tear
every inode that was not synced and undo every rename since the last directory sync (`maybe`).
`Unsynced` are the calls whose directory sync is refused: the code swallows that error, and for them
the abstract file makes no promise of durability. `renamed` and `age` are history.

### AccountStore and KeyStore and the code

A handler is a program counter and a copy of the file it is about to replace. Each request of
`auth_store.py` is cut at the read and at the write of each file:

| Request | Steps |
|---|---|
| `POST /v1/users` | `CreateUser` (reads; hashes) `-> WriteUsers` |
| `POST /v1/login` | `Login -> ReadAccess -> WriteAccess -> ReadRefresh -> WriteRefresh` (answered) |
| `POST /v1/token/refresh` | `Rotate -> WriteCheck -> ReadRevoke -> WriteRevoke ->` as after a login |
| any request with an access token | `Authenticate -> WriteCheck`, then one of the next four |
| `GET` of keys, and refusals | `Refuse` |
| `POST /v1/projects` | `CreateProject -> WriteProjects` |
| `POST /v1/projects/{id}/api-keys` | `MintKey -> ReplaceKeys` (atomic) |
| `DELETE /v1/api-keys/{id}` | `RevokeKey` (reads) `-> TruncateKeys -> FillKeys` (in place) |
| `keyring mint`, a process | `CliMint` (reads) `-> CliOpen -> CliFill` (fixed temporary name) `-> CliRename` |

`WriteCheck` is passed over when the token was used within the same second. `fd` follows the inode a
process has open: a rename may make an open temporary file the key file, or take the name from an open
key file. A file that was truncated reads as `Torn`, one with the rest of a longer text after a shorter
one as `Garbled`; neither parses. `ServerDies` takes all threads, `CliDies` one command.
`stale` and `clobbered` are history: whose copy was overtaken, and which files were written from such a
copy (or, for the keys, damaged by writers that overlapped or died). `contended` holds the refresh
tokens that a second request found revoked after it had checked them. Serials stand for whatever is
minted: user ids, pairs of tokens, projects, keys.

### ServerLifecycle and the code

`proc[p]` says what each pid stands for: free, foreign, or a server of a directory that is booting,
listening or stopping. `cmd[c]` is what a command is doing.

| Command | Steps |
|---|---|
| `server start` | `Start` (the pid file names nobody alive) `-> Spawn -> WriteTmp -> Rename` |
| `server start --foreground` | `Start -> Spawn -> Attend` (no pid is written) |
| `server stop` | `Stop` (the file is read) `-> Signal -> Wait -> Remove`, or `Timeout -> Kill -> Remove`; straight to `Remove` if the pid is not alive |

`Bind` (a server whose port is taken exits), `Exit`, `Reuse` and `Interrupt` are the environment's. `Kill` does not
wait for the process to go, nor does the code: what got SIGKILL is `Doomed`, it serves nobody but keeps its pid
and maybe the port until `Exit`.
`irregular` and `deserted` are history: the directories in which a start overlapped with another command,
a command was killed or denied, a server was started in the foreground, or a signal meant for another
directory's server arrived; and the servers that exited without being told to.

## What is checked

| Run | Instance | Shows |
|---|---|---|
| `slurm_races` | 1 Slurm job, 2 handlers, all faults but crash and lost sbatch answers | TypeOK, AcknowledgedIsTracked, SubmittedIsTracked, SuccessIsReal, BlockedNeverRuns, CancelLostOnlyToStale, BulkSparesTerminal, SchedulerIdKept, ImplementsService |
| `direct_races` | 1 direct job, 2 handlers, queries are answered or time out | DirectSuccessExplained, SuccessLostOnlyToStale |
| `restart` | 1 direct and 1 Slurm job, 1 handler, crashes, failing queries, lost sbatch answers, all gates | BulkSparesTerminal, OrphanedOnlyInFlight, DrainTornOnlyByCrash, ImplementsService |
| `polling` | 1 Slurm job, 2 handlers, clients poll it, cancel commands that fail or whose answers are lost, foreign cancellations | EndIsRecorded, OutcomeIsRecorded |
| `capped` | 2 Slurm jobs, 1 handler, cap 1, clients poll the list | EndIsRecorded |
| `shutdown` | a Slurm and a direct job, a server with 1 handler (submit, cancel), one shutdown with or without `--no-drain` and `--no-direct-cancel`, deadline, queries that time out | ShutdownTypeOK, AcknowledgedIsTracked, CanceledWasKilled, NothingLeftRunning, OneRoundOverrun, DrainStopsAdmissions, ShutdownEnds |
| `record_file` | 3 calls, one of which cannot sync the directory | TypeOK, WholeAlways, ReturnedIsDurable, ReplacesAtomically |
| `auth` | 2 threads, 2 command lines, 2 names, 3 serials, deaths | TypeOK, UsernamesUnique, AnsweredTokensAreKept, OneRefreshPerSession, TornHasWriter, AnsweredKeysAreKept |
| `lifecycle` | 2 commands, 1 directory, 2 pids | TypeOK, SoleServer, ServersAreManaged, StaleIsExplained, StopIsEffective |

Three more runs look for a violation and find it; they are listed below, under "Where the code and its
documents disagree".

Bounds. *JobServer*: the number of jobs, the number of handlers, the caps, the gates, the requests and the
faults. There is no bound on the number of requests or crashes: the state space is finite without
one. Two handlers on one job are enough for every race between a reader and a writer of a record;
records of different jobs meet only in a bulk refresh, which `restart` and `capped` exercise with two
jobs. *Shutdown*: two jobs, so that a loop has a first and a last record, and the second may be
submitted at any point of the first one's handling; the server takes one request at a time, the command
being the second actor. `--no-cancel` and `--no-slurm-cancel` are in the module and in the theorems, not in the
run. *RecordFile*: three calls, so that one may overtake another that has returned while
a third is under way; each call is made once. *KeyStore*: `MaxSerial = 3` is the account, logged in, and two
more things minted, that is two logins, rotations, users, projects or keys in any mixture; the requests
that mint nothing are not bounded. *ServerLifecycle*: commands and servers come and go without bound; two
commands are needed for a race, two pids for two servers. Commands of different directories meet only
when a pid changes hands, which the proofs cover for any number of directories; the safety properties
were also checked once with two.

Symmetry (of threads, of command lines) is used in `slurm_races`, `direct_races` and `auth`; runs with
liveness use none.

Deadlock is checked except in `shutdown`, where everything is over in the end, and in the runs that
look for a violation.

Fairness. `HandlersGoOn`: every scheduler command has a timeout and a file access ends, so a handler
that has started goes on. `JobsEnd`: what Slurm accepted is started and ends. `PollEach`, `PollList`:
clients keep asking, and are served whenever a thread is free again and again (strong fairness,
because other requests may take the thread in between). The server promises none of the last three by
itself: there is no background poller, so "the end is recorded" is a promise to polling clients. It is also
a promise about jobs that end by themselves (`EndedByItself`): of a job that was cancelled sacct may say
`CANCELLED by <uid>` at every poll, and then its end is never recorded. `polling` leaves out
queries that fail or that show other unknown names, which could likewise go on for ever.
`capped` needs `JobsEnd`: the cap takes the same first records every time, so as many jobs that run for
ever would hide the end of all others. A job that was cancelled does not stay in
the window of that run: nobody but DELETE cancels, and what it records is final. `FairShutdown`: each command and file access of
shutdown ends, and time passes (`Expire`); nothing is asked of the server or of the jobs, so `ShutdownEnds`
holds beside a server that hangs and jobs that never end. `PatientShutdown` adds `HandlersGoOn` and
`JobsEnd`, and has no deadline. `FairSpec` of the lifecycle: a command that was begun goes on; servers need
not heed a signal.

Some of the properties need a word:

- `CancelLostOnlyToStale`, `SuccessLostOnlyToStale`, `BulkSparesTerminal` state the strongest thing
  that does hold of final states. A handler whose copy is up to date respects them; one whose copy was
  overtaken does not, and `stale` says which is which.
- `OrphanedOnlyInFlight` and `DrainStopsAdmissions` say exactly what may be missed: the server goes down between
  sbatch and the record, or the answer of sbatch is lost; a submission that had read the drain file
  before drain was written is launched after it (`early`).
- `DirectSuccessExplained`: the status of a unit reads 0 from the start, so a direct job is recorded as succeeded
  too early if its unit is asked about while it is queued (`hasty`) or being stopped (`Stoppable`), or if a query
  fails. That these three are the only ways is what the property says; `stale_exit_code` shows
  the third at work. The second reaches further: after `systemctl stop` a unit may run on for a while, and a refresh,
  that of shutdown's wait loop included, records `succeeded` meanwhile, so shutdown may end cleanly while such a job
  still runs. A single refresh of a direct record that says `canceled` or `blocked` may make it
  `succeeded`; no property denies that.
- `NothingLeftRunning` is about jobs that are still live when the cancel loop is through: killed, or in
  flight when drain was written, or taken for a success while its unit was queued (`hasty`), or, unless the result
  is clean, spared by an option. It assumes drain that nobody else sets, no crash, no foreign cancellations, and
  that no answer of a scheduler is lost or wrong (`Undisturbed`); a job recorded
  as failed because an answer was lost is final to shutdown, which then leaves it alone.
- `OneRoundOverrun` bounds what the documented hard cap does not: the deadline is tested between rounds,
  so up to one command per direct job is started after it. It is about steps: no query of a job that was already
  queried after the deadline.
- `ImplementsService` says in one formula what single properties say apart, and of the order of things: no job
  is handed over twice or after it was entered, no entry is made twice, and no write of an old copy makes
  the ledger claim what has no ground. It implies `AcknowledgedIsTracked` and `CanceledWasKilled`, so the
  runs that check it do not all list these two again.
- `AnsweredTokensAreKept`, `OneRefreshPerSession`, `AnsweredKeysAreKept` hold until a file has been
  written from an overtaken copy (`clobbered`, `contended`). The code locks nothing, so updates can be lost, and
  these guards excuse just the races between two requests or processes: the properties do not catch them, they
  show that nothing else loses an update. That an answered revocation is kept means that it stays in the file;
  what a check makes of a revoked key is not modelled (the legacy keyring's check does not look at revocations).
  Mint and revoke are taken to use one key file, as they do unless its path is configured apart.
  `UsernamesUnique` holds in any case.
- `SoleServer`, `ServersAreManaged`, `StaleIsExplained` are about directories in regular use. That
  overlapping starts break them is what `irregular` concedes, and that a stop may signal a process which got a
  dead server's pid is what `deserted` concedes.

### Where the code and its documents disagree

| Run | The repository says | The program does |
|---|---|---|
| `cancel_overridden` | "Do not override explicit cancel state recorded by the API" (`backends.py:147`) | the guard looks at an old copy; a refresh in flight writes `running` over `canceled` |
| `stale_exit_code` | an exit code is trusted "as long as the unit is not currently active" (`direct_observer.py:41`) | status 0 is stored while the unit runs; a failed query then makes it `succeeded` |
| `shutdown_blind` | "refresh below will converge to a scheduler terminal state" (`graceful_shutdown.py:207`) | `refresh_job` is called with a positional third argument (line 257) where Slurm's takes it by keyword only (`backends.py:73`); the error is swallowed, no Slurm record changes, and shutdown waits for its timeout |

## What is proved

Every safety property that a passing run checks is proved for every value of the constants, under the
assumptions that the modules name: `JobServer`'s jobs are positive numbers (the order of their files), `Boot`
is no thread, the three sets contain known names, the limits of bulk refresh are integers; `GracefulShutdown`'s options are
known ones; `KeyStore`'s threads are no command lines, some user name exists (the initial account has one) and
at least one thing may be minted (the initial login has been); `RecordFile`'s original content is no call's;
`ServerLifecycle`'s `None` is neither a pid nor a directory. Nothing bounds the number of jobs, handlers,
calls, commands or directories.

### JobServerProofs

| Theorem | States |
|---|---|
| `TypeCorrect` | `Spec => []TypeOK` |
| `AlwaysInv` | the inductive invariant `IInv` |
| `AcknowledgedAlwaysTracked` | `Spec => []AcknowledgedIsTracked` |
| `SubmittedAlwaysTracked` | `Spec => []SubmittedIsTracked` |
| `SuccessAlwaysReal` | `Spec => []SuccessIsReal` |
| `CanceledAlwaysKilled` | `Spec => []CanceledWasKilled` |
| `BlockedNeverExecuted` | `Spec => []BlockedNeverRuns` |
| `DirectSuccessAlwaysExplained` | `Spec => []DirectSuccessExplained` |
| `IdsAlwaysKept` | `Spec => SchedulerIdKept` |
| `OrphanedAlwaysInFlight` | `Spec => OrphanedOnlyInFlight` |

The argument. `TypeOK` is not inductive: a step that changes the state of a copy yields a record only
if there is a copy. `TInv` adds what each handler holds at each point of its code (`Locals`). The
properties of the ledger are not inductive either: what will be written next is in the copies. `IInv`
therefore asks the same truth of every copy as of the ledger (`Truthful`), and adds that a submission
owns its job, no two submissions the same one (`Owned`), and that every other copy is of a record
that exists, with a scheduler id if it is a Slurm record (`Held`): this is why an old copy can lose a
state but never a record or an id. `Truth` of a success or of a failure of a direct job is relative to `Faults` and to the history of the job: while
queries get through, a running unit that nobody may have told to stop is always read as running, whatever exit
code is stored (`ShowRunning`), and a queued one that is asked about is `hasty` from then on (`AnswerTruth`);
this gives `DirectSuccessExplained`.
Most actions are instances of one `OrdinaryStep`, for which preservation is proved once (`OrdinaryInv`);
`Plan`, `Launch`, `Commit`, the schedulers and `Crash` have lemmas of their own, and `StepKinds` says that
these are all. `LossOfTrack` names the two steps in which a tracked job is lost; `SubmittedIsTracked` and
`OrphanedOnlyInFlight` are its corollaries.

### JobServerStepProofs

| Theorem | States |
|---|---|
| `AlwaysKInv` | the inductive invariant `KInv` |
| `BulkAlwaysSparesTerminal` | `Spec => BulkSparesTerminal` |
| `CancelAlwaysLostToStale` | `Spec => CancelLostOnlyToStale` |
| `SuccessAlwaysLostToStale` | `Spec => SuccessLostOnlyToStale` |
| `DrainAlwaysWritten` | `Spec => DrainTornOnlyByCrash` |

These are about one write, but what is written was read many steps before. `KInv` says what a copy that was
not overtaken has in common with the record at each point of the code (`UpToDate`): before the first query
they are equal; after it a recorded cancellation (for a Slurm job) or success (for a direct one) is still in the
copy; during a bulk refresh the record is not final. A write by another handler breaks this for the copies it
overtakes, and `stale` records that it does (`StepOf`). `Writers` finds the one handler that wrote a record.

### GracefulShutdownProofs

| Theorem | States |
|---|---|
| `AlwaysSInv` | the inductive invariant `SInv` |
| `ShutdownTypeCorrect` | `ShutdownSpec => []ShutdownTypeOK` |
| `AcknowledgedSurvivesShutdown` | `ShutdownSpec => []AcknowledgedIsTracked` |
| `CanceledKilledInShutdown` | `ShutdownSpec => []CanceledWasKilled` |
| `OverrunAlwaysOneRound` | `ShutdownSpec => OneRoundOverrun` |
| `AlwaysDrainInv`, `DrainAlwaysStopsAdmissions` | `DrainInv`, and `ShutdownSpec => DrainStopsAdmissions` |
| `AlwaysSeenInv`, `NothingEverLeftRunning` | `SeenInv`, and `ShutdownSpec => []NothingLeftRunning` |

The command writes to the ledger behind the server's back. `SInv` is `IInv` together with what its copies keep
in common with the records while handlers write in between (`MineOK`): they are truthful, the record still
exists and has the same scheduler id, and a Slurm record without an id has not changed at all, because nobody
ever writes one again (`NextKeepsUnnamed`). `SeenInv` says where a live job can be found: on record, in the
hands of a submission that drain has not been written for, or in `early`. With it `LoopInv` follows a job that
might slip through from the snapshot to the end: it is still in the loop, or was told to stop, or is spared by an
option. `RoundInv` bounds the commands after the deadline.

### JobServiceProofs

| Theorem | States |
|---|---|
| `ServiceImplemented` | `Spec => ImplementsService`, the refinement of `JobService` |
| `ServiceSurvivesShutdown` | `ShutdownSpec => ImplementsService` |
| `AlwaysNamed` | the strengthening `NamedInv` |

`Effects` reduces the server's actions to what they do to the ledger and the jobs: nothing, `Launch`, `Commit`,
`Kill`, a step of a scheduler, or a write of a copy by a handler that is no submission (`Rewrites`). `Launch` is
`HandOver` or a stutter, `Commit` is `Enter`, `Kill` is `Tell` or a stutter, a rewrite is `Revise`. That a verdict has a
ground is `Truthful`; that a revision finds an entry and a scheduler id is `Held`; that an entry with an id was
handed over is `NamedInv`. The command's cancel is `Tell`, and what it writes is `Revise`, or, for a Slurm record
without an id, leaves the verdict as it is.

### KeyStoreProofs

| Theorem | States |
|---|---|
| `AlwaysTInv`, `TypeCorrect` | `TInv`, and `Spec => []TypeOK` |
| `UsernamesAlwaysUnique` | `Spec => []UsernamesUnique` |
| `AlwaysSessInv` | the inductive invariant `SessInv` |
| `AnsweredTokensAlwaysKept` | `Spec => []AnsweredTokensAreKept` |
| `OneRefreshAlways` | `Spec => []OneRefreshPerSession` |
| `AlwaysKeyInv` | the inductive invariant `KeyInv` |
| `TornAlwaysHasWriter` | `Spec => []TornHasWriter` |
| `AnsweredKeysAlwaysKept` | `Spec => []AnsweredKeysAreKept` |

Names are distinct in every copy of the users file (`NamesOK`), so whichever copy replaces the file leaves them
distinct. The sessions: a copy that was not overtaken differs from the file in the one token its handler is about
(`CopyOK`), so writing it loses nothing; and a refresh token has at most one claim, a handler that is past
its revocation or a pair that was stored (`ClaimsOK`), unless a second request found it revoked after its own
check. The keys: `HolderOK` says what each of the three writers is about to write and to which inode, `KeptBy`
that a copy not overtaken holds every answered mint and revocation; `TornHasWriter` is part of the invariant,
because a reader that finds the file torn starts from an empty one.

### RecordFileProofs

| Theorem | States |
|---|---|
| `TypeCorrect` | `Spec => []TypeOK` |
| `AlwaysInv` | the inductive invariant `IInv` |
| `AlwaysWhole` | `Spec => []WholeAlways` |
| `ReturnedAlwaysDurable` | `Spec => []ReturnedIsDurable` |
| `ReplacementIsAtomic` | `Spec => ReplacesAtomically`, the refinement of `AtomicFile` |

`WholeAlways` is preserved by a rename only if the inode is whole and synced by then; `CallOK` says so of
each call, that its inode is unseen before its rename, and that a call whose directory is not synced yet is no
younger than the file. For the refinement each step is shown to be a step of the abstract file or to
change none of its variables: `Rename` is `Take`, `Dirsync` is `Return`, `Fail` is `Abandon`,
the others before the rename stutter.

### ServerLifecycleProofs

| Theorem | States |
|---|---|
| `TypeCorrect` | `Spec => []TypeOK` |
| `AlwaysIInv` | the inductive invariant `IInv` |
| `AlwaysSoleServer` | `Spec => []SoleServer` |
| `AlwaysManaged` | `Spec => []ServersAreManaged` |
| `AlwaysExplained` | `Spec => []StaleIsExplained` |

`SoleServer` follows from `ServersAreManaged` only together with what the commands at work know. `IInv`
adds, for directories in regular use: no start beside another command (`NoRivals`); while a start is at work
there is no other server (`StartsAlone`); a stop's pid is the one in the file or the file is gone
(`StopsKnowTheFile`); a server that is stopping has a stop that waits for it (`StoppingHasStop`).

Model-checked only: the liveness properties `EndIsRecorded`, `OutcomeIsRecorded`, `ShutdownEnds` and
`StopIsEffective`, which need fairness and ENABLED, out of reach of the prover. The three properties of the runs
that look for a violation are false. No recursive operator is used, so no induction over data is needed.

## Plan

Done: `JobServer`, `GracefulShutdown`, `RecordFile` and `JobService` with their refinements, `AccountStore` and
`KeyStore`, `ServerLifecycle`; their runs; and theorems for every safety property of the passing runs.

Left, in this order:

1. An abstract specification of the sessions and of the keys file (a set of keys that grows and of
   revocations that stay), and the steps that implement it until an update is lost.
2. The step properties that liveness rests on: a handler that goes on gets nearer to its end (a bound on its
   remaining steps that each step lowers), so that `HandlersGoOn` ends every request.

## Not modelled

- Parsing and formatting of command lines, scripts and JSON; log capture and truncation; HTTP error
  shapes, the web page, `/v1/queue`; resource limits of units.
- Doctor, bootstrap and logs (sequences of HTTP calls and of prints), the Python client (no state, no
  retry), templates and schemas.
- Expiry of tokens and keys: a comparison with the clock that writes nothing and only shortens their
  life. Password hashing. The checks of an API key, which only read.
- The server's meta file, which only diagnostics read; `--reload`; processes that have exited and were not
  waited for; the probes of the port before a start, which may pass at any time.
- Power loss in `KeyStore`: the files that are replaced atomically are `RecordFile`'s subject.
- Disk-full errors and permissions: the code has no handling of them to model. Corrupted records cannot
  arise from the program's own writes.
