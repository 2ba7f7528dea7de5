# detent in TLA+

A verification project for `detent`: one binary that edits root-owned
configuration files (hosts, resolver, chrony, mounts, nfs, samba, dhcp, network)
from a command line, an HTTP API, a web console, MCP and a C ABI. The promise
of the program is that a change of such a file is atomic, backed up, audited and,
where a mistake would cut the administrator off, taken back by itself unless it
is confirmed in time. This project models the code that keeps that promise, and
the parts around it that run for long, fail and race: the audit log, the
sign-in, the processes, the self-update and the renewal of certificates.

Paths below are relative to `src/`; `atomic.rs` is
`crates/detent-platform/src/fs/atomic.rs`, `monitor.rs` is
`crates/detent-platform/src/privsep/monitor.rs`, `engine.rs` is
`crates/detent-ops/src/engine.rs`, `audit.rs` is `crates/detent-ops/src/audit.rs`,
`serve.rs`, `run.rs` and `acme.rs` are in `crates/detent/src`, `auth/` is
`crates/detent-web/src/auth` and `install.rs`, `update.rs` are in
`crates/detent-update/src`.

## 1. The system

Under `detent serve` four processes run: the *runner* (root, unconfined: it
starts services and mounts), the *acme* process, the *monitor* (root, confined:
the only one that writes targets) and the *worker* (unprivileged: web server and
operations engine). The worker asks the monitor over a socket pair, one request
after the other; the monitor asks the runner for hooks; the acme process hands
certificates to the worker over a socket of its own. systemd restarts the
service when it ends (`packaging/systemd/detent.service`, `Restart=always`). A
one-shot command (`detent apply`) starts a monitor and a worker of its own; a file
lock admits one monitor at a time. `detent user`, `detent token` and
`detent update` are processes beside the service that share its files.

| Component | State | Operations | Talks to | What is hard | Correct when | Module |
|---|---|---|---|---|---|---|
| Atomic writes (`atomic.rs`) | target, temp file, backup directory, `write-in-progress.json` | write, restore, rotate, in-place fallback, recovery | called by the monitor | a kill, a power loss or a failing call between any two system calls; a clock that steps back; editors | torn contents are always covered and repaired; Ok means durable; nothing is destroyed without a copy | `AtomicWrite` |
| Monitor (`monitor.rs`) | journal, pending commit, deadline, `pending-commit.json`, state lock | WriteTarget, Restore, Service, ReloadUnitFiles, Mount, StartConfirmTimer, ConfirmCommit, RollbackCommit, Shutdown, deadline, recovery | worker (requests), runner (hooks) | confirm against deadline; crashes in rollbacks; edits during the window; two sources of truth (memory and marker) | each window closes exactly once, rolled back wholly or confirmed; the marker tells the truth | `Monitor`, `CommitConfirm` |
| Mount hooks (`privsep/mounts.rs`) | record of started units | start added, stop started, forget | runner | record and units updated at different moments | no rolled-back mount stays | `Monitor` |
| Operations engine (`engine.rs`) | next commit id | Plan, Apply, Restore, Service, ConfirmCommit, RollbackCommit, queries | monitor, audit log | state read twice with requests in between; a hook failing after the arming | no lost update; no unlogged mutation; a failed apply leaves nothing | `OpsEngine` |
| Audit log (`audit.rs`) | hash-chained JSON lines, one rotated file | record, query, verify | engine, web | torn appends, rotation, power losses, two processes | an unbroken chain that an append never breaks; an acknowledged record stays | `AuditLog`, `AuditTrail` |
| Channels, runner, process tree (`privsep/{transport,worker,runner,spawn}.rs`, `serve.rs`) | sockets, inherited descriptors, pids | spawn, call, serve, stop, reap | all | timeouts against late answers; the death of one at any moment; who waits for whom at the end | an answer belongs to its request; every wait ends | `Serve` |
| Engine bridge (`detent-web/src/engine.rs`) | job queue | execute, join | web, engine | clients that leave, a stopped thread | no call hangs | `Serve` |
| Web login (`auth/`) | sessions, `users.json` and its cache, TOTP counters | login, logout, rotate, step-up, enrol, change, revoke | command line, through the file | an awaited hash between check and effect; another process editing the file; eviction | no session outlives its credentials; a code works once while its key is enrolled | `WebAuth` |
| Limits and tokens (`auth/{ratelimit,tokenlimit,coalesce,token}.rs`) | bounded tables, `tokens.json` and its cache | check, fail, clear, evict, admit, issue, revoke | web, command line | attempts in parallel; tables at their capacity | lockouts and budgets hold; a revoked token ends at once | `Limits`, `WebLimits` |
| Self-update (`detent-update`, `run.rs`) | binary, kept previous binary, `bad.json`, `check.json` | check, prepare, swap, restart, health check, rollback | service manager | a crash between swap and health check; a failure after the rename; two updaters | a release that cannot serve is taken back; the binary is whole | `Update` |
| ACME (`detent-acme`, `acme.rs`, `privsep/acme.rs`) | order, schedule, held pair, socket | renew, retry, install, RenewNow | CA, DNS provider, worker | backoff against requests, partial orders, late answers | renewed before expiry; no order wasted; every record's deletion asked for | `Schedule`, `Acme` |
| Parsers and document model (`detent-core`, `crates/modules`) | none | parse, validate, render | engine | text | lossless round trip | none |

Everything else (release verification, sandbox tables, host probing, localisation,
console) is listed in `PROJECT.json` with the reason it is not modelled. The
`hazards` there are the list the properties work through.

How the components are cut: `OpsEngine` extends `Monitor` (an operation's request is the
monitor's action and the engine's step at once). `Monitor` takes a write as one step with
the outcomes `AtomicWrite` shows to be possible, and an exchange on the channel as one
step; `Serve` has the exchanges and says nothing of what a request does. `OpsEngine` takes
an audit record as one step that may fail, `AuditLog` is that step. `WebAuth` and
`WebLimits` share the sign-in: what the limiter refuses is a refusal in the one and the
subject of the other. `Acme` has the worker only as far as its socket goes; that the acme
process ends with it is in `Serve`.

## 2. Plan

Done: all modules of section 3. What is left, in this order:

1. Proofs: a bound on `DefaultKeep` from which the `Intact` of `RollbacksUndo` follows; in
   `AuditLog`, that an acknowledged record stays, as far as it can be said without the folds of
   `AuditTrail`'s refinement mapping (section 5).
2. Monitor: that rolled-back contents do not come back (an in-place restore that tears, then
   `recover_in_place`), and that an apply which fails with an I/O error after its rename leaves
   nothing.
3. The update listener of the console, and CSRF and notices of the web front end, as far as they
   keep state.
4. `detent-core`: the lossless edit of a document of lines, against a reference definition.

## 3. Modules

### AtomicWrite — `atomic.rs`, and `recover_in_place` of `monitor.rs`

One target and its backup directory. `pc` is the next system call of the one write
in progress; `w` is the `WriteRequest` and what `write_atomic` has learnt. Each
action is one call: `Read` (with the `expected_prev` check), `BackupCreate`,
`BackupWrite`, `Rotate`, then `TempCreate` … `DirSync`, or, when the directory refuses
a temp file (`roDir`, the packaged unit's `ProtectSystem`), `MarkCreate` … `UnmarkSync`.
`Recover` is `recover_in_place` at a start; its restore runs through the same steps in
mode `Guarded`. Contents are model values; a digest identifies contents, so a
comparison of digests is a comparison of contents. `Torn` is any empty or partial
file, `Scrap` a backup of one.

Durability: for the target, the temp file and the marker, a second variable holds
the set of states a power loss may leave; a write or an unlink adds to it, an fsync
reduces it to the present one. `Crash` keeps the files as a reader sees them.
`IoError` makes any step fail with the clean-up of its code path: `TempGuard` removes
the temp file and an unfinished backup, a marker stays except when the open of the
target failed.

### CommitConfirm — what ADR-012 promises

The abstract specification: at most one commit is open, each is closed exactly once
(confirmed or rolled back), and each armed commit is closed eventually while it is `attended`: a
monitor serves it, or will be started again. `Monitor` maps `attended` to `phase # "ended"`. With
`attended <- TRUE` the refinement is false: a confirm whose `clear_marker` fails ends the monitor's loop,
`run_monitor` waits for a worker that lives on (`serve.rs:650`), and the window stays open.

### Monitor — `monitor.rs`, `privsep/mounts.rs`

The serve loop as `phase`: `idle` reads a request, every request leads to `enforce`
(the deadline check after each read), a commit being armed, confirmed or rolled back is
`job`. The steps of a rollback are separate actions in the code's order: stop mounts,
restore newest first, reload unit files, replay the service, remove the marker; they
are shared by the four paths (deadline, request, exit, recovery), which differ in
where they come from and where they go. A write is one step here, with the outcomes
`AtomicWrite` has: `ok`, `failed` (old contents, with or without a new backup), `landed` (new contents,
but a later call failed: the sync of the directory, or the removal of the in-place marker), `torn` (in
place, under its marker); an error in place may leave the marker over whole contents too (`MayMark`). A
`Restore` writes whatever its backup holds, torn contents included. A start of mounts is two steps,
`Mount` (the record) and `MountUnits` (the units), and a kill between them may let the runner finish.
A loop that is over is phase `ended`: `run_monitor` waits for the worker, and only `Reaped` leads on to
`down` and the next `Start`. An arming may fail at the open of the marker, which leaves it as it was, or
in the middle of its write, which leaves one that does not parse (`ArmFails`).
`units`, `svc`, `mounted` are what the init system reflects, so that the order of hooks
matters. `fate` is a history variable; `prev` in an entry is one too.

The refinement mapping to `CommitConfirm` is `fate`, which changes in the step that
writes the complete marker (armed) and in the step that removes it.

### OpsEngine — `engine.rs`, over Monitor

Extends `Monitor`: each request the engine sends is the Monitor's action conjoined with
the engine's own step, so between two requests of an operation the monitor's deadline,
other tools and deaths interleave. A request that only reads is `Ask` of `Monitor`. `op` is the operation in progress. `idOf` maps the
model's armings to the number `next_commit` gave them, which restarts with each worker. `starter` is
history: the arming whose apply recorded the last start of mounts, until it is confirmed. A failed arming
is the end of the monitor's loop, so the requests of `undo_write` fail as the arming did, and `arm_or_undo`
changes nothing.

### AuditTrail, AuditLog — `audit.rs`

`AuditTrail` is the promise: one sequence of readable records, which grows at its end and is
shortened only at its front (by rotation) or by what a power loss takes of the unacknowledged.
`AuditLog` is the code, one system call per step of `record` (`app[p]`): scan and chain check,
the decision to rotate, rename, create, append with the torn-line note and the leading newline,
sync of file and directory. A file is its lines; a line is a record with its `AuditChain`, or a
fragment. `safe` and `back` are what a power loss may leave of contents and names. `reader` is a
`query` or `verify` in another process, reading file by file while appends go on. The refinement
mapping is the bodies of the lines that parse, of `log.1` and then of `log`.

### WebAuth — `auth/{users,session,routes,enrolment,stepup,sessions}.rs`, `webadmin.rs`

The runtime is single-threaded (`serve.rs`: `new_current_thread`), so a handler runs without
interruption between two awaits; its awaits are the Argon2 closures on the blocking pool. A request
is therefore two or three steps (`reqs[r].stage`: waiting for a permit, in the closure, `answer`),
with its account record as it was read (`snap`). `file`, `mem`, `fresh` are `users.json`, the cache
and whether the fingerprint still matches; `refresh` ends the sessions of changed users. The command
line's `detent user` replaces the file in one step per write; `totp enable` has two, `TotpEnable` (the key)
and `TotpNote` (its counter, which may fail or never come), with `cli` between them. A write by the worker may
fail before its rename (`WriteFails`: the file stays) or after it (`WriteLands`: the new file under the old
cache, which the next refresh finds); `Confirm` and `Disable` have two writes each, and either may fail.
`Timeout` drops a handler of any kind at its await and lets the closure go on, as `TimeoutLayer` does; `stale`
is history: a password change was cut in half this way, a rehash wrote an older password back, or an
enrolment stored its key and failed before it ended the older sessions. A password is the number of the call that set it, a TOTP
key that of its enrolment and a code its time step, so each property can ask what a session or a
step-up rests on (`born`, `by`).

### Limits, WebLimits — `auth/{ratelimit,tokenlimit,coalesce,token}.rs`

`Limits` holds the bounded tables as operators on a function from principals to entries
(`MakeRoom`, `Fail`, `Blocked`, `TokenCheck`, `Admit`); an eviction picks any of the oldest, as the
map's iteration order does, so these return sets of tables. `WebLimits` runs sign-ins over them,
checked with the clock of their start and counted with the same reading when their hash is done, or
dropped at the await and never counted (`Dropped`); API tokens with their store, cache and budget; and
the coalesced audit records of rejections. A change of `tokens.json` is what its code does: in the worker a
read with the change (`Mutate`; for `sweep_expired`, after a look of its own, `SweepLooks`), the write
(`MutateWrites`) and the fingerprint of whatever the file is by then (`MutatePrints`), each of which may fail
(`MutateFails`); by the command line a read and a write (`CliReads`, `CliWrites`, `CliFails`), at any point
of the other. Histories: `overrun` (a failure found the table of names full), `crowded` (a request found
the table of budgets full of draining buckets, and one of them had to go), `gone` (the tokens revoked
or swept), `crossed` (a process wrote while the other was in the middle of a change).

### Update — `detent-update`, `run.rs`

Each process of `Updaters` is an updater (from a shell, or the unit `detent-update@`) or a checker;
`proc[u].pc` is its next step: select, fetch and verify, write the staged file, sync it, remove an old
`.prev`, keep the old binary (hard link, or a copy), rename, sync, restart, health check, clear the stamp;
or mark bad, rename back, restart again. Files are inodes, so that a hard link is a second name; `tdur` is what
a power loss may leave behind the target's name, `written` and `copied` the inodes it may leave
incomplete (a staged file before its sync; a copy, which is never synced). `Select` is `policy.rs`: any feed, any subset of it past the age gate.
`overlap` and `unrepaired` are history: two processes ran at once, or a fault struck that no
updater repairs (a kill in the middle of the swap or after it, a failed sync after the rename, a way back that
itself failed, the second restart included, a stamp that `clear_stamp` could not remove).

### Schedule, Acme — `detent-acme/src/{schedule,order}.rs`, `acme.rs`, `privsep/acme.rs`, `tls.rs`

`Schedule` is the arithmetic of renewals over integers, both ways the code computes it
(`should_renew` rounds a percentage down, `due_at` rounds an instant up); `AcmeProofs` shows that
the two agree. `Acme` is `run_loop`: rounds, the order with one TXT record per name (`Authorize`, `Present`,
`Propagated`, `SetReady` for each authorization in turn, with the clean-up of each way out of
`present_challenges` and `issue` by itself: `OrderFails`, `PresentFails`, `ChallengeFails`, `Finish`), the install
over the socket, waits, the doubling backoff, and the flags in which a `RenewNow` may wait (`force`,
`pending_renew`, `renew_seen`). All times are relative and saturate where no comparison tells them
apart, so the state is finite without a bound on time. `presented` is the list the clean-up works from, `dns`
the records that went up and whose deletion was not asked for yet. The worker checks, stores and serves a pair in
separate steps.

### Serve — `serve.rs`, `privsep/{spawn,runner,transport,worker}.rs`, `detent-web/src/{engine,server}.rs`

The parent (`mon`) from the fork of the pair through `run_monitor` to the reaping of its children; the
runner; the acme process as far as its start and end; the worker's main thread (`worker`) and engine
thread (`eng`); connections. Requests and hooks are numbers, so that an answer can be told from
another's. An end of a channel counts as closed when no process holds a descriptor of it, those
included that a fork has inherited and not yet dropped (`RunnerClosed`, `AcmeClosed`), and the engine's
inbox when no handle is left (`HandlesDropped`). Every wait with a timeout may give up whenever what it
waits for is not there. `Stop` is the service manager's SIGTERM to the group, which the worker turns into
its grace; `Kill` ends a process at any point; faults of kind `start` fail a start-up step, those of
kind `loop` end the monitor's loop by itself.

### Instances, proofs, mutants

`MCxxx` holds the values of constants for TLC. `AtomicWriteProofs`, `CommitProofs` (of `Monitor` and
`OpsEngine`), `AuditLogProofs`, `WebAuthProofs`, `WebLimitsProofs`, `UpdateProofs`, `AcmeProofs` and
`ServeProofs` extend the modules they are about. Definitions whose names end in `_Something`
beside a mapped definition are mutants of it: plausible bugs, each of which makes TLC report a
property of the project violated. No specification uses them.

## 4. Runs

| Run | Shows |
|---|---|
| `atomic_crash` | Kills and failing calls at any step, a clock that steps back, a caller that keeps one backup: a torn target always has a complete marker, no contents are destroyed without a copy, and the next start on a working disk repairs a torn target. |
| `atomic_power` | Power lost twice, one edit between writes: torn contents are covered by a durable marker whose backup is intact; an Ok is durable. |
| `monitor_rollback` | One kill or power loss and one edit anywhere, also during recovery: every rollback (also one run twice, also one whose marker a power loss changed) undoes the whole commit, edits survive, and the service runs on the restored contents. |
| `monitor_refines` | Any two of kills, failing calls, torn in-place writes and failing hooks, over two windows: the marker tells the truth and `Monitor` implements `CommitConfirm`, liveness included: no window stays open for ever, unless the monitor's loop has ended under a worker that lives on. |
| `ops_apply` | All operations over two windows, with kills and failing calls, hooks and audit writes: no mutation without its Started record; a window covers exactly its apply; a rollback stops the mounts of its apply, also after a kill between their record and their start. |
| `ops_edits` | Edits between any two requests and failing hooks: no lost update; a failed apply leaves nothing. |
| `audit_log` | Two kills, failing calls or a power loss anywhere, over two rotations, with a reader beside: an append is never refused for the chain, a reader accepts what was written, and `AuditLog` implements `AuditTrail`. |
| `web_auth` | Two requests at a time and the command line beside them: but for the cases listed below, no session and no step-up outlives the credentials it rests on; a code is accepted once while its key is enrolled, an account that owes a password change has restricted sessions only. |
| `web_limits` | Overlapping sign-ins at as many names, from as many addresses, as the tables hold, some dropped half way; more tokens than that, issued, revoked and swept by the worker and the command line: until a table is full, guesses and budgets are bounded; until the changes of the two processes cross, a revoked token ends at once; the log accounts for every rejection. |
| `update` | Two updaters or checkers, beside each other or in turn, a release that never answers and one that fails verification, a kill, power loss or failing step anywhere: the binary is whole, and unless an updater was cut short or its way back failed, a failed update is undone, the offer is news and the service comes back. |
| `acme` | Three faults of the CA, the disk, the worker or the clock, requests at any time: no request is lost and, until an answer comes late, no issued pair; the deletion of every TXT record that went up is asked for, whichever step failed; a due certificate is replaced. |
| `serve` | All processes from the fork to the end, timeouts and a stop at any moment, one kill or failing step: answers match, the runner outlives the monitor's loop, no handler waits for ever, nobody waits for somebody who waits for him. |

`ops_apply` and `ops_edits` are two runs because an I/O error after the rename refutes
`FailedApplyUndone`, and because two windows with three contents and edits are too many states for
one. What `ops_apply` shows without edits is proved with them (section 5).

### Behaviours the models have and the properties step around

A property above is stated as strongly as the code keeps it. These are the behaviours that the models
contain and that a stronger statement would run into, each with the line where it happens. Some were
found by checking the stronger statement, others by reading the code; no run of the project shows them.

Files and commits:

* Retries of a failed in-place write rotate away the backup its marker names (`atomic.rs:1017`,
  against the description of the marker at `atomic.rs:39`); `TornRestorable` is checked with power
  losses, after which there are no retries in the same process.
* A kill before the fsync of an in-place write, a start that finds the target whole in the page cache and
  removes the marker (`monitor.rs:1444`), then a power loss: a torn target nothing covers. Hence
  `FaultsAssumption` of the proof, and the two atomic runs.
* A kill between the creation of the in-place marker and its contents (`atomic.rs:808`), or in the middle
  of a backup (`atomic.rs:967`), leaves a partial file under its name.
* An editor's change between the read and the rename is replaced (`atomic.rs:778`): the digest is of
  the read.
* `clear_marker` (`monitor.rs:1504`) unlinks without a sync of the directory: a power loss brings back the
  marker of a closed commit, which the next start rolls back again.
* `write_private` (`monitor.rs:1895`) truncates `pending-commit.json` before it writes it: a kill in between
  leaves a marker that does not parse, and each later start stops on it.
* The worker dies between `WriteTarget` and `StartConfirmTimer`: nothing is pending, so
  `rollback_pending_on_exit` (`monitor.rs:696`) does nothing, and there is no marker for a later start.
  ADR-012 says "every monitor exit rolls back an unconfirmed apply".
* A kill in `confirm_commit` between the runner's forget (`monitor.rs:1311`) and `clear_marker`: the next
  start rolls the file back and leaves its units mounted; `docs/SECURITY_HARDENING.md:123` says that every
  rollback path stops them. `MountsGone` is about `starter`, which a confirm resets, so the case is excepted; so
  is a `stop_started` that itself fails.
* There is one record of started mounts (`mounts.rs:113`). A start by an apply without a window, while
  another's window is open, replaces it, and `stop_started` stops what the record names; and a rollback
  that finds the target changed (by a restore, or an edit) drops the record and leaves the units
  (`mounts.rs:160`). `MountsGone` is about the commit whose apply made the last start (`starter`).
* An edit made over a torn write in place, before the next start, is replaced by the contents the write had
  found: `recover_in_place` compares the target with those and the new ones only. `KeepsEdits` excepts
  the target of such a marker.
* A restore that tears its target in place while a commit is closed (`monitor.rs:1724`): the next start
  repairs the tear from the backup the restore itself took, the contents just rolled back.
* Commit ids start at 1 in every worker (`engine.rs:141`): a confirm with an id from before a restart
  closes the window of a later apply with the same number.
* A change of the target between the two reads of an apply (`engine.rs:221`), by an editor or by the
  monitor's own rollback at a deadline: decided to be no change and not logged, then written.
  `docs/THREAT_MODEL.md:298` has "Intent record first". It needs an apply without an `expected_hash`,
  since the second read is compared with it; `MutationIsLogged` names that case.
* A marker of an older monitor may have entries without a digest (`new_digest: None`, `monitor.rs:415`),
  which are restored unconditionally. No monitor of this version writes one, and `Init` has no marker.
* `ServiceFollows` has `edits = 0`: a file edited during the window is not restored, and the service is
  replayed on what is there.

Audit log:

* Two processes that append (a second front end, or a worker that outlived its monitor) may take one
  sequence number: `APPEND_LOCK` (`audit.rs:73`) is per process. With `Proc <- TwoProcs`
  `NeverRefused` fails.
* A kill or an I/O error between the creation of the log and the sync of its directory, then an append
  that finds the log there, then a power loss: the acknowledged record is gone with the name. Hence
  `PowerAfterFault = FALSE`.
* A query or verify crossed by a rotation reports a broken chain, or no log between rename and
  create; hence `crossed` in `ReaderAccepts`.
* `AuditChain::hash` is described as covering "this record and its link to the preceding one"
  (`audit.rs:87`); it covers the record, and the next record's `prev` is the link.

Sign-in and limits:

* The timeout that drops the handler of a password change at its await lets the closure store the
  password; the lines after it (`routes.rs:520`, "none of them survives") do not run: history `stale`
  in `Settled`.
* A login in flight across a change made by the web (a new password, an enrolment) verified the old
  credentials and opens its session after the change has ended the others; nothing ends it later,
  since a refresh compares the file with a cache that has the change already. `born` is what the account
  has when the session opens, so `OldSessionsEnd` does not speak of it. One across a change by the command line
  ends at the next refresh, unless another request has read the change before the session opens; one across the removal of the account is one that a re-added account has.
* `confirm_enrolment` stores the key and then its counter (`enrolment.rs:410`); when the second write fails the
  key is in force, no new session is made and the older ones live on: history `stale`.
* A rehash on login writes back the password it verified (`users.rs:471`): history `stale`.
* Disabling the second factor clears its counter (`enrolment.rs:442`): `CodeOnceWhileEnrolled` ends
  with the enrolment.
* `users.json` and `tokens.json` have no lock between processes, and `mutate` takes its fingerprint after its
  write (`users.rs:608`, `token.rs:459`). A revocation by `detent token` between the two leaves the worker
  with the old table under the new fingerprint, and the token is accepted until the next change; a change
  that was read before the revocation and written after it brings the token back, where `token.rs:411` says "a
  revoked token can never come back". `WebLimits` has both; history `crossed` in `TokenEndsAtOnce`. `WebAuth`
  takes the write and the fingerprint of the worker, and each write of the command line, as one step: there
  the same crossing would leave the sessions of a user alive whose password the command line changed.
* A table of token budgets full of draining buckets evicts the fullest, whose token then starts with
  its whole burst (`tokenlimit.rs:168`): history `crowded`.
* `fail` makes room also for a principal that is tracked already (`ratelimit.rs:146`), so a table that is full
  of names drops one, and its failures, at the next failure of any: `GuessesBounded` is stated up to then
  (`overrun`). A
  `record_failure` with the clock reading of a start long ago may set an earlier end than the one in force. A
  sign-in whose handler is dropped at its await is not counted; nor is its answer seen by anybody.

Self-update:

* `swap` treats a failed sync of the directory, after the rename, as a failure that left the target alone
  (`install.rs:78`; its doc at line 63 says "On every error the target still holds the original binary").
* Two updaters are not excluded from each other: history `overlap`.
* The copy of `keep_previous` (`install.rs:132`, when hard links are not available) is not synced; after a
  rollback to it a power loss may leave a torn binary. `TargetSound` names the case.
* A rollback whose directory sync fails skips the second restart, and the second restart may return before it
  restarts, as the first may (`run.rs:928`), or leave the service down; `clear_stamp` is best effort
  (`run.rs:1279`), so an offer of the installed release may stay until it expires; a kill between the rename and the health
  check leaves a release nobody judged; a failed restart, or no certificate for the health check, marks a
  sound release bad: history `unrepaired`, or bounds on what `FailedUpdateRestores` says.
* With `--allow-downgrade` a newer release still under the age gate lets an older one be chosen; a cached
  check is offered under another policy; a check crossed by an install stamps the installed release;
  `write_cached` keeps a stamp that names a bad release (`Rejected`); `self_test` has no timeout.

ACME:

* An answer later than `ACME_TIMEOUT` is taken for the answer to the next install, or makes the socket
  readable in the backoff, is no `RenewNow`, and ends the renewals of this process (`acme.rs:585`): history
  `late`, and `pc = "ended"` in `DueIsRenewed`. A hello that times out ends it too.
* `forced_order_allowed` counts orders that succeeded; the doc of `MIN_FORCED_INTERVAL` speaks of orders.
* The deadline in the log of a `RenewNow` in the backoff counts from the start of the round, the wait from its
  end, so a request shortens the backoff of a long round. A forced round that fails is retried unforced.
* A provider whose `present` reports a failure although the record is up, or a kill in an order, leaves that
  record; errors of `delete` are ignored. `ChallengesWithdrawn` is about what the process asks for. The renewal window of the CA is known from the first order of the process on.

Processes:

* `Client::call` (`worker.rs:432`) goes on after a timeout. A service action may take 30 s and the status
  after it more, as long as the client waits: the late answer is taken for the next request's, and all
  after it are off by one until the service restarts. `AnswersMatch` holds for the worker up to its
  first such timeout, and for the runner's client always, since that one drops its channel.
* Connections open at the end of `SHUTDOWN_GRACE` keep their `EngineHandle` in tasks of a runtime that
  nobody drives, and `join` (`serve.rs:1017`) waits for them, where the comment before it says "so
  this does not hang"; the service manager's own stop timeout ends it. History `cut`.
* A monitor whose loop ended by itself waits for the worker (`serve.rs:650`) with the channel open; the
  worker serves on and each of its requests times out, until a stop. `monitor.rs:7` has "so the supervisor
  restarts the pair". `CallsEnd` and `TreeEnds` are about what does end then, and `CommitConfirm` promises
  the close of a window only while it is `attended`.

### Bounds, and why they are enough

* Contents: two, three in `ops_edits`, where an editor's contents must differ from
  those an apply read and wrote. Guards compare contents only for equality. In
  `monitor_rollback` the editor writes one of the two contents, so an edit may also
  coincide with what a commit wrote.
* One target. An apply writes one target, and a window covers one apply
  (`WindowCoversApply`), so the engine never mixes targets in a window. A monitor driven
  otherwise can have several entries in a window (writes while an earlier window is open
  enter the journal of the next): `monitor_rollback` has two windows so that
  this happens. The theorems hold for any number of targets.
* `LastStamp`, `MaxStamp`, `MaxWrites`: backup names are finite, so writes stop while
  names are left for every recovery the remaining faults may call for. Two writes per
  run suffice for two entries in one window, for rotation to remove a backup
  (`KeepBackups` is 1 or 2 in `AtomicWrite`), and for a write after a failed one;
  `monitor_refines`, which is about windows and not contents, has one. `ops_apply` has three: an apply
  that makes the target the contents an open window will take back is then followed by the write of
  another operation.
* `DefaultKeep` is 6 in `monitor_rollback`: a rollback takes a backup for each entry it
  restores and rotates with `DEFAULT_KEEP_BACKUPS`, so `RollbackUndoes` needs the number of
  entries, times the passes over them, to stay below it. With 4, two entries and a kill the run
  fails: the second pass rotates away the backup of its own older entry. The code's
  value is 20 and the engine's windows have one entry.
* `MaxFaults`, `MaxEdits`: two faults cover a crash during the recovery from a crash. `update` and
  `serve` have one (their recoveries do not retry), `acme` three (two failed installs around a failed order).
* `Commit`: one window, or two where a window must not influence the next.
* `MaxTimeout` one tick: only "before" and "at the deadline" differ in the code.
* `EditsMidWrite` (other tools edit between two system calls of a write) and `ListChanges` (a
  restart with an allow-list that lost the target) are FALSE in the runs. `MarkerCovers` is
  proved for either value of the first; with it `AckIsDurable` is false for a reason outside
  the code (an edit between the rename and the answer). A target that left the allow-list loses its
  marker unrepaired (`InPlaceOutcome::Refused`), which is why the theorem excludes the second.
* `audit_log`: six calls with a rotation every two lines give two rotations with records on both sides, so
  that one removes a `log.1`; two faults may tear two appends in a row; `MaxFiles` 4 allows a file that
  a reader or a power loss still refers to.
* `web_auth`: one account (no operation touches two), two requests in flight and four requests and commands in
  all, so that a change and a third request may follow on two; three session ids and two sessions at most, so
  that the cap refuses; two passwords set and two keys; the clock up to 3 with expiries of 1 and 2. Requests are
  symmetric.
* `web_limits`: tables of two entries with two names and two addresses, so that they fill and `fail`
  evicts; three tokens, of which one is there at a time, so that the table of budgets fills with those of
  revoked ones; two sign-ins in flight; two failures before a lockout, and a backoff that may double once; five
  calls, clock 1 to 3, one deadline inside the run; one command at a time. Addresses, names, slots and tokens are
  symmetric. Two different files are taken to have different fingerprints.
* `update`: four releases: the installed one, one that never answers, a sound newer one and one that fails
  verification; two processes, two runs and one fault.
* `acme`: a life of 6 ticks with a check every 4 and a timeout of 1 makes rounds before, at and after two
  thirds of it; two names, so that one record is up when the second fails. Time is unbounded.
* `serve`: two connections (one may wait while another leaves), three requests (the hello, one that is given
  up and one that meets its late answer), two hooks for the same reason.

### Deadlock

Checked except where the system may really stop: `web_auth`, `web_limits` (their bounds run out),
`update` (nobody has to update), `serve` (all processes have ended; that they end is `TreeEnds`).

### Fairness

`AtomicWrite` assumes weak fairness of the writer's steps, of recovery and of `Start`;
`Monitor` of its own steps, the 20 ms poll of its serve loop, the clock, and `Start`, but not of `Reaped`:
a monitor whose loop has ended waits for its worker, and nothing makes that one end. The
steps are sequential code that does not wait for others; `Start` is
`Restart=always` of the packaged unit. `Update` assumes that a started updater goes on (`Step`, weak).
`Acme` assumes weak fairness of the loop and of the worker, and strong fairness of the clock and of the end of
a wait: requests may go on for ever, but they are slower than the loop. `poll(2)` reports a message before
it reports that the time is up (`acme.rs:572`), so a worker that always had the next request on the socket
would keep a backoff from ending. `Serve` assumes weak fairness of each
thread (its timeouts are steps of it: a wait that has a timeout ends), of the acme process' start and its
end once its channel is closed, and of the service manager's signal to what is left once the parent has ended
(`KillMode` of the unit is the default, the control group). Nothing is assumed of workers' clients, editors,
command lines or faults, and of renewal requests only that; faults are bounded in number by a guard, not by fairness.
`OpsEngine`, `AuditLog`, `WebAuth` and `WebLimits` state no liveness.

## 5. Proofs

For every value of the constants (any number of targets, contents, backups, commits,
faults and edits), from the `ASSUME`s of the modules: sizes are naturals, subsets are
subsets, and the special values (no marker, torn, absent) differ from contents and
records.

* `AtomicWriteProofs!TypeCorrect`: `Spec => []TypeOK`.
* `AtomicWriteProofs!MarkerCovers`: `Spec => []TornCovered`, under `FaultsAssumption`: the
  allow-list keeps the target, and power losses do not mix with kills. Section 4 has the
  counterexample without the second part, and
  `InPlaceOutcome::Refused` is the reason for the first. `TornCovered` is not inductive;
  the invariant adds `StepInv` (what each step relies on: the modes and backups that lead
  to it), `CoverInv` (a write that read a torn target did so under a marker, so its own
  marker is refused; a marker is removed only from under a whole target; at each in-place
  step the marker is complete) and `DiskInv` (the same for what a power loss may
  leave: a torn state may be on the disk only while the marker is there durably).
* `AtomicWriteProofs!AcknowledgedIsDurable`: `Spec => AckIsDurable` when nobody edits in the middle of a
  write (an edit between the rename and the answer is none of the writer's doing), every kind of fault
  included. `DoneInv`: the new contents are in place from the rename on, and on the disk from the sync on.
* `AtomicWriteProofs!NothingIsDestroyed`: `Spec => BackedUp`, from no assumption. `BackupInv`: from the end of
  `write_backup` to the rename or the truncation, through the rotation and whatever the clock says, the backup
  the write has taken holds what it read.
* `AtomicWriteProofs!TornIsRestorable`: `Spec => []TornRestorable`, with power losses only, fewer of them
  than `DefaultKeep`, a clock that does not step back, no edits in the middle of a write and an
  unchanged allow-list (`PowerAssumption`; section 4 has why each is needed: a retry in the same process rotates
  without end). The invariant counts: a marker that stands, in memory or on the disk, names a backup to which
  the power losses so far have added fewer newer ones than rotation keeps.
* `CommitProofs!MonitorTypes`: `Spec => []TypeOK`, power losses included; among the
  types, that the time left never exceeds `MAX_CONFIRM_TIMEOUT_S`.
* `CommitProofs!MarkerTellsTruth`: without power losses, `Spec => []ArmedIsMarked`. The
  strengthening is `MirrorInv`: while the monitor serves, its memory and the marker file
  hold the same commit or none; while it closes one, the job is what the marker says.
  With power losses it is false: `clear_marker` is not synced.
* `CommitProofs!WindowsCloseOnce`: without power losses, `Spec => CC!Safety`: the safety
  half of the refinement. Every step leaves `fate` alone or is `Arm` or `Close`, by a monitor whose loop has not
  ended; that `Arm` finds no open window is `ArmedIsMarked` with `MirrorInv`.
* `CommitProofs!EditsAreKept`: `Spec => KeepsEdits`, with every kind of fault. `PrefixInv`: the entries
  still to be restored are the first of the job's, so what a step restores is what the job says.
* `CommitProofs!ServiceFollowsTheFile`: `Spec => []ServiceFollows` when hooks do not fail. `ReloadInv`:
  from the reload on, the unit files of a restored target reflect its file.
* `CommitProofs!RollbacksUndo`: without I/O errors, `RollbackUndoes` holds in every state in which the
  backups of the job are there (`Intact`) and each of its writes to a target found what the one before
  had left (`Chained`). Both are needed. Rotation may take a backup away when a commit has more entries, times
  the passes over them, than `DefaultKeep`; and a write that was not journaled may come between two entries, as
  the worker's protocol does not forbid it. The engine's windows have one entry (`WindowsCoverTheirApply`),
  which is chained as it stands. The argument is `KnownInv` (a backup that
  is there is of the entry's target and holds what the entry's write replaced; names are never
  used twice) and `WalkInv`: going from the newest entry to the oldest, each target is what the oldest
  of the entries passed has found, or what none of them left, or an edit. Kills and power losses start the
  walk again, over contents that the last one has partly restored.
* `CommitProofs!MutationsAreLogged`, `WindowsCoverTheirApply`, `NoUpdateIsLost`:
  `EngineSpec => []MutationIsLogged`, `[]WindowCoversApply` and the action property `NoLostUpdate`,
  with kills, failing calls and hooks, and edits at any time (`OpsEngine` has no power losses). `LogInv` says what the
  operation has established at each of its steps: past the decision it is logged, or it was taken for
  no change without an `expected_hash`; at the write, what it read is what its caller expected.
  `WindowInv` follows the entry of the write from the journal (which holds nothing else at the
  arming: the engine writes with a window only when none is pending, and the monitor's write
  clears what an earlier operation left) into the job and the pending commit. The attempt showed
  that two properties held in `ops_apply` only because of its bound of two writes: `MutationIsLogged`
  without its exception, and `MountsGone` without `starter` (section 4).
* `CommitProofs!FailedAppliesAreUndone`: `EngineSpec => []FailedApplyUndone` without I/O errors and with
  `KeepBackups # 0`; hooks may fail, and the monitor be killed, at any step. A write or a restore that fails
  with an I/O error, and a write without a backup, leave the apply's contents: the two assumptions. Lemma
  `Drives` shows that the engine's steps are steps of the monitor, so that the monitor's invariants hold of it;
  `ApplyInv` follows the apply: the backup of its write is there until its window is taken to be
  rolled back (`Held`), then the rollback has the one entry still before it, and after it the contents are gone.
* `CommitProofs!MountsAreStopped`: `EngineSpec => MountsGone`, from no assumption, with kills, failing calls
  and edits at any time. `MountInv`: while the marker of the last starter's window is there, the runner's record
  names its entry, through deaths and restarts; only a later start, the confirm and the rollback itself replace
  or drop it. `StartInv` says that an apply which starts mounts has a backed write, and a window that was armed.
* `AuditLogProofs!AppendsAreNeverRefused`, `ReadersAccept`: `Spec => []NeverRefused` and `[]ReaderAccepts` for any
  number of records, rotations, kills, failing calls and torn lines, for one process that appends (`Single`)
  and no power loss after another fault (`~PowerAfterFault`); section 4 has what happens without either. What
  a scan accepts is stated of the records of a file and their neighbours (`Sound`), not of the scan's
  recursion, so no induction is needed: an append adds one record that follows the last, a fault adds or
  leaves one fragment, a cut keeps a prefix. `TornInv` counts the fragments, at most one per fault and file,
  so that a rotated file has a record for the next to be chained to; `AppendInv` says what the append in
  progress has read and may still rely on; `ReaderInv` the same for the reader; `PowerInv` that before the first
  fault also the directories which a power loss may bring back are sound.
* `WebAuthProofs!OldSessionsAlwaysEnd`, `StepUpAlwaysCurrent`, `OwingIsAlwaysRestricted`: from
  `AuthInv`. The properties speak of stores that are settled; a step may settle them, so the invariant
  must say what is known before: `StoreInv` (a cache whose fingerprint matches is the file; ids not yet
  given out have no session), and `CalmInv`, in which `SessionInv` relates every session to the record in
  memory whether or not the file has changed since, and `RequestInv` says what a request that
  comes back from its hash may rely on (its snapshot is of the record in memory, or its session is
  gone). Each action is shown to be a step of four kinds (accounts, sessions, requests, counters),
  and the invariant is proved once for those. `CliInv` is the type of the command between its two writes.
* `WebAuthProofs!CodesOpenOneDoor`: `Spec => []CodeOnceWhileEnrolled`, with `KeyInv`: a key is enrolled
  for one account or pending in one session, and every code accepted for an enrolled key is at or below
  the counter stored with it. It does not need the stores to be settled: the counter is judged and stored
  on the file as it is read under the lock.
* `WebLimitsProofs!TokenBudgetAlwaysHolds`: for every rate, burst and table size. The invariant is the
  arithmetic of the bucket: what was served, at `Interval` each, ends no later than `fullAt` while there
  is a bucket and no later than now when there is none; dropping a full bucket keeps it, dropping a
  draining one (`crowded`) does not.
* `WebLimitsProofs!TokensEndAtOnce` (an action property), from `FreshInv`: until the processes cross, the cache
  is the file while its fingerprint matches and while the worker is inside a change, and a token that is gone
  is in neither the file nor what either process is about to write. A write beside the other's change breaks
  both parts.
* `WebLimitsProofs!RejectionsAlwaysAccounted`: only an address that was rejected is in the
  table, so while those fit no entry, and no count held in it, is evicted.
* `UpdateProofs!TargetIsAlwaysSound`, `OffersAreAlwaysNews` and the action property
  `FailedUpdatesAlwaysRestore`: for any number of updaters, releases, runs and faults. `DiskInv`
  (every inode is of a verified release or torn; one that has a name, now or after a power loss, is no
  unsynced staged file, and torn only if it is a copy), `ProcessInv` (what an updater has
  in hand at each step: its staged file is not torn, and synced from `StageSync` on) hold always; `AloneInv` (the binary that was found is in place up to the rename, and a
  complete copy of it is kept from then on) and `SettledInv` (between runs) until processes overlap
  or a fault is left unrepaired.
* `AcmeProofs!ChallengesAreWithdrawn`, `RequestIsKept`, and the action property `OrdersAreNotWasted`: for
  every set of names, any lifetimes and any number of faults and requests. The first needs that `presented`, from
  which each way out of the order cleans up, holds every record that is up (`OwedIsKnown`). The last needs `Lockstep`
  (until an answer is given up on, the socket holds the call or its answer while one is waited for, and
  only requests at other times) and `IssuedIsHeld` (an issued pair that is not served is the held one).
* `AcmeProofs!DueIsExact`, `DueIsExactInWindow`: for every lifetime, also a broken one whose end is not after its
  beginning, and every reading of the clock, `should_renew` (a percentage, rounded down) turns true exactly at `due_at` (an
  instant, rounded up), without a window and with one. The loop sleeps until the one and then asks the other;
  a difference of a second would be a round that does nothing. The argument is one lemma about integer
  quotients against a bound.
* `ServeProofs!AnswersAlwaysMatch`, `RunnerAlwaysOutlivesLoop`: for any number of connections, calls, hooks
  and faults. `HookInv` and `CallInv` say what a channel holds: nothing, the one request asked, or its
  answer, with the exception of channels nobody will ask on again; `RunnerInv` that a runner which got to its
  loop ends only after its channel was dropped.

`EngineInv`, `ApplyInv`, `WalkInv`, `AuditInv`, `PowerInv` and `UpdateInv` were checked with TLC on
the runs' instances before they were proved.

Only model-checked:

* liveness and everything under fairness (`TornIsRepaired`, the fairness of `CommitConfirm`,
  `ServiceRestored`, `DueIsRenewed`, `CallsEnd`, `TreeEnds`), which is out of the prover's reach;
* `GuessesBounded`, for the run's constants: until the table of names is full no failure is evicted, and the
  bound counts attempts per tick against a backoff of at least one;
* the refinement of `AuditTrail` in `AuditLog`: its mapping selects the readable lines of a file
  (`SelectSeq`), and what that returns for every file is an induction over data;
* of the theorems with an assumption on faults, what the runs check beyond it: `RollbackUndoes` with the
  `DefaultKeep` of the run in place of `Intact`, and `TornRestorable` and the properties of `AuditLog` on their
  instances.

## 6. What is left out, and why

* A process without the state lock (`StateLock::Unavailable`) answers reads and refuses
  every change: nothing to check beyond the refusal.
* Candidates refused by the content gate or by validators, requests for ids outside the
  allow-list, a digest conflict in `WriteTarget`: no state changes. The engine's conflict
  is modelled, since it decides the result of an apply.
* Ownership, modes, symlink and path checks of `atomic.rs`: they refuse before the first
  step.
* `RunCheck`, `ServiceStatus`, `ListBackups`, `ReadTarget`, `PendingCommit` change nothing; the
  engine's use of them is a read at that moment (`Ask`).
* The file locks' own semantics: `Start` waits for `down`.
* `OpsEngine` has the faults of `Monitor` but for power losses: like a kill they end
  the operation, and what they change besides (the marker that the next start finds) is checked in `Monitor`.
* In `Monitor` no crash tears a backup that is being taken (it does in `AtomicWrite`; a backup of a torn target
  is torn in both), and the clock does not step back.
* `Serve`: frames (a frame arrives whole, or the loop ends), what a process drops and how it is confined,
  a second fault in one run. The acme process' own life is `Acme`.
* `WebAuth`: CSRF, cookies, scopes, notices; hash parameters beyond "older build"; a change by the command line
  between a write of the worker and its fingerprint (section 4). `WebLimits`: the cut of IPv6
  addresses to a /64, which is the choice of `Ips`.
* `Update`: fetching and verifying a release are a verdict (`Refused`); bundles, time stamps and signatures are
  functions on bytes with their own test vectors.
* `Acme`: `publish`, which for this issuer does nothing; the protocol with the CA beyond its order of steps, the DNS providers, the account file.
* The parsers, validators and renderers of `crates/modules` and `detent-core`, about half of the
  repository's lines, are functions on text: their statement (what is not edited is kept byte for byte) is about
  every input, and the repository's conformance and fuzz tests run the real code. A model would be a second
  parser; a document of lines as an algorithm of its own is in the plan.
* Argument parsing, printing, localisation, the C ABI and MCP adapters keep no state.
* The wording of reports, logs, diffs and records.
