------------------------------ MODULE Monitor ------------------------------
(***************************************************************************)
(* The commit-confirm core of the privileged monitor                       *)
(* (crates/detent-platform/src/privsep/monitor.rs): journaled writes, the  *)
(* one pending commit with its deadline, its on-disk marker, the four      *)
(* rollback paths (deadline, request, exit, start-up recovery) and the     *)
(* hooks they run (mount units, unit files, the service).                  *)
(*                                                                         *)
(* A file write is one step with the outcomes that AtomicWrite shows for   *)
(* it; the pending-commit marker is written and removed in the steps its   *)
(* own code takes.  The worker is any sequence of requests.  The monitor   *)
(* may be killed between any two steps, calls may fail, and power may be   *)
(* lost.                                                                   *)
(***************************************************************************)
EXTENDS Integers, Sequences, FiniteSets

CONSTANTS
  Target,       \* allow-listed files, each with the service bound to it
  Content,      \* whole file contents; a digest identifies one
  Absent, Torn, \* no file; an empty or partial one (not told apart)
  None,         \* no record, no service, no backup
  Corrupt,      \* a pending-commit marker that does not parse
  Reloading,    \* targets of modules that declare reload_unit_files
  Mounting,     \* targets of modules that declare added_mounts
  Commit,       \* armings, in the order they happen: 1 .. n
  MaxStamp,     \* bound: backups ever taken, named 1, 2, ... as the clock runs
  MaxWrites,    \* bound: a worker's writes stop once this many were taken
  KeepBackups,  \* keep_backups of the configuration
  DefaultKeep,  \* DEFAULT_KEEP_BACKUPS, used by every restore
  MaxTimeout,   \* MAX_CONFIRM_TIMEOUT_S, in ticks
  Requested,    \* the timeouts a worker asks for, in ticks
  InPlace,      \* the directories refuse temp files, as under the packaged unit
  Faults,       \* which of "crash", "power", "io" and "hook" may happen
  MaxFaults,    \* bound: how many of them
  Edited,       \* the contents other tools write
  MaxEdits      \* bound: how many of those edits

ASSUME ConstantsAssumption ==
  /\ Reloading \subseteq Target /\ Mounting \subseteq Target
  /\ Commit \subseteq Nat \ {0} /\ Edited \subseteq Content
  /\ MaxStamp \in Nat /\ MaxWrites \in Nat /\ KeepBackups \in Nat /\ DefaultKeep \in Nat \ {0}
  /\ MaxTimeout \in Nat \ {0} /\ Requested \subseteq Nat
  /\ InPlace \in BOOLEAN
  /\ Faults \subseteq {"crash", "power", "io", "hook"}
  /\ MaxFaults \in Nat /\ MaxEdits \in Nat

ASSUME SentinelsAssumption ==
  /\ Absent \notin Content /\ Torn \notin Content /\ Absent # Torn
  /\ None \notin Content \cup {Absent, Torn} /\ None \notin Target
  /\ Corrupt # None

VARIABLES
  file,        \* the targets
  backups,     \* the backup directories: name -> target and contents, or None
  stamp,       \* the last backup name used
  ipMark,      \* write-in-progress.json
  journal,     \* journaled writes since the last arming
  pending,     \* the armed commit in memory
  left,        \* ticks until its deadline
  marker,      \* pending-commit.json
  markerDisk,  \* what pending-commit.json may be after a power loss
  phase,       \* the monitor's next step; "ended": its loop is over and it
               \* waits for its worker to end; "down": none runs
  job,         \* the commit being armed, confirmed or rolled back
  todo,        \* entries the rollback has not restored yet
  greeted,     \* the handshake is done
  units,       \* contents of each target the init system's unit files reflect
  svc,         \* contents of each target its service runs with
  mounted,     \* contents of each target whose mount units its last start
               \* started, and no confirm has made permanent
  mountRec,    \* the runner's record of them: a target and its contents
  fate,        \* history: what became of each arming
  faults, edits

fileVars == <<file, backups, stamp, ipMark>>
commitVars == <<journal, pending, left, marker, markerDisk, job, todo, fate>>
hookVars == <<units, svc, mounted, mountRec>>
bounds == <<faults, edits>>
vars == <<fileVars, commitVars, hookVars, phase, greeted, bounds>>

----------------------------------------------------------------------------
FileState == Content \cup {Absent, Torn}
Stamp == 1 .. MaxStamp

(* RollbackEntry; prev is history: the contents the write replaced.  The    *)
(* model starts without a marker, so none has an entry without a digest, as *)
(* a marker of an older monitor may (new_digest: None).                     *)
Entry == [target : Target, backup : Stamp, new : Content, prev : Content \cup {Torn}]

(* PendingCommitMarker, and Pending, which adds the deadline (left); cause  *)
(* says which path rolls it back.                                           *)
Causes == {"none", "deadline", "expired confirm", "request", "exit", "recovery"}
Armed == [commit : Commit, entries : Seq(Entry), service : Target \cup {None}]
Job == [commit : Commit \cup {0}, entries : Seq(Entry), service : Target \cup {None},
        cause : Causes]
NoJob == [commit |-> 0, entries |-> <<>>, service |-> None, cause |-> "none"]
JobOf(armed, why) ==
  [commit |-> armed.commit, entries |-> armed.entries,
   service |-> armed.service, cause |-> why]
ArmedOf(j) ==
  [commit |-> j.commit, entries |-> j.entries, service |-> j.service]

ASSUME MarkerAssumption == None \notin Armed /\ Corrupt \notin Armed

Backup == [target : Target, contents : Content \cup {Torn}]
InPlaceMarker == [target : Target, backup : Stamp,
                  prev : Content \cup {Torn}, new : Content \cup {Torn}]

ASSUME RecordsAssumption == None \notin Backup /\ None \notin InPlaceMarker

RollbackPhases == {"mounts", "restore", "reload", "replay", "clear"}
Phases == {"down", "start", "recover", "idle", "enforce", "mounting", "arm", "commit",
           "ended"} \cup RollbackPhases

FileTypes ==
  /\ file \in [Target -> FileState]
  /\ backups \in [Stamp -> Backup \cup {None}] /\ stamp \in 0 .. MaxStamp
  /\ ipMark \in InPlaceMarker \cup {None}

CommitTypes ==
  /\ journal \in Seq(Entry) /\ todo \in Seq(Entry)
  /\ pending \in Armed \cup {None} /\ left \in 0 .. MaxTimeout
  /\ marker \in Armed \cup {None, Corrupt}
  /\ markerDisk \subseteq Armed \cup {None, Corrupt}
  /\ job \in Job
  /\ fate \in [Commit -> {"unarmed", "armed", "confirmed", "rolled back"}]

HookTypes ==
  /\ units \in [Target -> FileState] /\ svc \in [Target -> FileState]
  /\ mounted \in [Target -> FileState \cup {None}]
  /\ mountRec \in [target : Target, contents : FileState] \cup {None}

ControlTypes ==
  /\ phase \in Phases /\ greeted \in BOOLEAN
  /\ faults \in 0 .. MaxFaults /\ edits \in 0 .. MaxEdits

TypeOK == FileTypes /\ CommitTypes /\ HookTypes /\ ControlTypes

Init ==
  /\ file \in [Target -> Content \cup {Absent}]
  /\ backups = [s \in Stamp |-> None] /\ stamp = 0 /\ ipMark = None
  /\ journal = <<>> /\ pending = None /\ left = 0
  /\ marker = None /\ markerDisk = {None}
  /\ phase = "down" /\ job = NoJob /\ todo = <<>> /\ greeted = FALSE
  /\ units = file /\ svc = file
  /\ mounted = [t \in Target |-> None] /\ mountRec = None
  /\ fate = [c \in Commit |-> "unarmed"]
  /\ faults = 0 /\ edits = 0

----------------------------------------------------------------------------
(* Faults.  A step that can fail takes `out`: "ok", or how it failed.       *)

Failing(kind) == kind \in Faults /\ faults < MaxFaults /\ faults' = faults + 1

(* write_atomic as one step (module AtomicWrite): a backup of what is       *)
(* there, rotated; then the new contents, or an error that left the old     *)
(* ones ("failed", before or after the backup), the new ones ("landed": the *)
(* directory sync or the marker's removal failed) or, in place, a torn file *)
(* ("torn").  In place, an error may leave the marker behind.               *)
Outcomes == {"ok", "failed", "landed", "torn"}

(* rotate_backups: the newest `keep` of the target's directory.             *)
Rotated(bk, t, keep) ==
  [s \in Stamp |->
     IF /\ bk[s] # None /\ bk[s].target = t
        /\ Cardinality({u \in Stamp : u > s /\ bk[u] # None /\ bk[u].target = t}) >= keep
       THEN None ELSE bk[s]]

TakeBackup(t, keep) ==
  IF file[t] # Absent /\ keep > 0
    THEN /\ stamp < MaxStamp
         /\ stamp' = stamp + 1
         /\ backups' = Rotated([backups EXCEPT ![stamp + 1] =
                                  [target |-> t, contents |-> file[t]]], t, keep)
    ELSE UNCHANGED <<stamp, backups>>

BackupTaken(t, keep) == file[t] # Absent /\ keep > 0

(* The fallback in place: an existing file, a backup, and no marker left by *)
(* an earlier write.                                                        *)
CanReplace(t, keep) ==
  ~InPlace \/ (BackupTaken(t, keep) /\ ipMark = None)

InPlaceMark(t, c) == [target |-> t, backup |-> stamp + 1, prev |-> file[t], new |-> c]

MayMark(t, c) == ipMark' = ipMark \/ (InPlace /\ ipMark' = InPlaceMark(t, c))

Replace(t, c, keep, out) ==
  \/ /\ out = "ok" /\ CanReplace(t, keep)
     /\ file' = [file EXCEPT ![t] = c] /\ UNCHANGED <<ipMark, faults>>
  \/ /\ out = "failed" /\ ~CanReplace(t, keep)
     /\ UNCHANGED <<file, ipMark, faults>>
  \/ /\ out = "failed" /\ CanReplace(t, keep) /\ Failing("io")
     /\ MayMark(t, c) /\ UNCHANGED file
  \/ /\ out = "landed" /\ CanReplace(t, keep) /\ Failing("io")
     /\ MayMark(t, c) /\ file' = [file EXCEPT ![t] = c]
  \/ /\ out = "torn" /\ InPlace /\ CanReplace(t, keep) /\ Failing("io")
     /\ ipMark' = InPlaceMark(t, c) /\ file' = [file EXCEPT ![t] = Torn]

WriteAtomic(t, c, keep, out) ==
  \/ TakeBackup(t, keep) /\ Replace(t, c, keep, out)
  \/ out = "failed" /\ Failing("io") /\ UNCHANGED fileVars

----------------------------------------------------------------------------
(* Requests of the worker.  serve_loop answers one, then enforces the       *)
(* deadline, then reads the next.                                           *)

Served == phase = "idle" /\ greeted /\ phase' = "enforce"

Room == stamp < MaxWrites

Hello ==
  /\ phase = "idle" /\ ~greeted
  /\ greeted' = TRUE /\ phase' = "enforce"
  /\ UNCHANGED <<fileVars, commitVars, hookVars, bounds>>

(* A request that only reads: the monitor answers and then enforces its     *)
(* deadline.                                                                *)
Ask == Served /\ UNCHANGED <<fileVars, commitVars, hookVars, greeted, bounds>>

(* write_target.  A refused candidate (content gate, validators) or a       *)
(* conflict changes nothing and is left out; so is a request for an id      *)
(* outside the allow-list.                                                  *)
Journaled(t, c) ==
  Append(IF pending = None THEN <<>> ELSE journal,
         [target |-> t, backup |-> stamp + 1, new |-> c, prev |-> file[t]])

WriteTarget(t, c, journaled, out) ==
  /\ Served /\ Room
  /\ WriteAtomic(t, c, KeepBackups, out)
  /\ journal' = IF out = "ok" /\ journaled /\ BackupTaken(t, KeepBackups)
                  THEN Journaled(t, c) ELSE journal
  /\ UNCHANGED <<pending, left, marker, markerDisk, job, todo, fate, hookVars,
                 greeted, edits>>

(* restore: any backup of the listing, whatever it holds, with no expected  *)
(* digest.                                                                  *)
Restore(s, out) ==
  /\ Served /\ Room
  /\ backups[s] # None
  /\ WriteAtomic(backups[s].target, backups[s].contents, DefaultKeep, out)
  /\ UNCHANGED <<commitVars, hookVars, greeted, edits>>

(* The hooks: service, reload_unit_files, mount.  A restarted service of a  *)
(* reloading module runs what the unit files reflect.                       *)
RunsWith(t) == IF t \in Reloading THEN units[t] ELSE file[t]

Service(t, out) ==
  /\ Served
  /\ \/ out = "ok" /\ svc' = [svc EXCEPT ![t] = RunsWith(t)] /\ UNCHANGED faults
     \/ out = "failed" /\ Failing("hook") /\ UNCHANGED svc
  /\ UNCHANGED <<fileVars, commitVars, units, mounted, mountRec, greeted, edits>>

ReloadUnitFiles(t, out) ==
  /\ Served /\ t \in Reloading
  /\ \/ out = "ok" /\ units' = [u \in Target |-> file[u]] /\ UNCHANGED faults
     \/ out = "failed" /\ Failing("hook") /\ UNCHANGED units
  /\ UNCHANGED <<fileVars, commitVars, svc, mounted, mountRec, greeted, edits>>

(* start_added, in the runner: the record comes first, then the start; with *)
(* no backup to compare with, or no record, nothing starts.  A start that   *)
(* fails may have started some.  Units that are mounted already are no part *)
(* of it.                                                                   *)
Comparable(t) ==
  file[t] \in Content /\ \E s \in Stamp : backups[s] # None /\ backups[s].target = t

Mount_Unrecorded(t, out) ==
  /\ Served /\ t \in Mounting /\ out = "ok"
  /\ mounted' = [mounted EXCEPT ![t] = file[t]]
  /\ UNCHANGED <<fileVars, commitVars, units, svc, mountRec, greeted, bounds>>

Mount(t, out) ==
  /\ phase = "idle" /\ greeted /\ t \in Mounting
  /\ \/ /\ out = "ok" /\ Comparable(t)
        /\ mountRec' = [target |-> t, contents |-> file[t]]
        /\ phase' = "mounting" /\ UNCHANGED faults
     \/ /\ out = "failed" /\ phase' = "enforce" /\ UNCHANGED mountRec
        /\ IF Comparable(t) THEN Failing("hook") ELSE UNCHANGED faults
  /\ UNCHANGED <<fileVars, commitVars, units, svc, mounted, greeted, edits>>

Started == [mounted EXCEPT ![mountRec.target] = mountRec.contents]

MountUnits(out) ==
  /\ phase = "mounting" /\ phase' = "enforce" /\ mountRec # None
  /\ \/ out = "ok" /\ mounted' = Started /\ UNCHANGED faults
     \/ out = "failed" /\ Failing("hook") /\ mounted' \in {mounted, Started}
  /\ UNCHANGED <<fileVars, commitVars, units, svc, mountRec, greeted, edits>>

----------------------------------------------------------------------------
(* Commit-confirm.                                                          *)

Clamped_Upwards(timeout) == IF timeout < 1 THEN 1 ELSE timeout

Clamped(timeout) ==
  IF timeout < 1 THEN 1 ELSE IF timeout > MaxTimeout THEN MaxTimeout ELSE timeout

(* start_confirm_timer: refused while a commit is pending.  The journal is  *)
(* taken, then write_private creates the marker, writes and syncs it (but   *)
(* not its directory); only then is the commit pending.                     *)
NextCommit(c) == fate[c] = "unarmed" /\ \A d \in Commit : d < c => fate[d] # "unarmed"

StartConfirmTimer_Forgets(c, timeout, service) ==
  /\ phase = "idle" /\ greeted /\ pending = None
  /\ NextCommit(c)
  /\ job' = [commit |-> c, entries |-> <<>>, service |-> service, cause |-> "none"]
  /\ left' = Clamped(timeout)
  /\ marker' = Corrupt /\ markerDisk' = markerDisk \cup {Corrupt}
  /\ phase' = "arm"
  /\ UNCHANGED <<fileVars, journal, pending, todo, fate, hookVars, greeted, bounds>>

StartConfirmTimer(c, timeout, service) ==
  /\ phase = "idle" /\ greeted /\ pending = None
  /\ NextCommit(c)
  /\ job' = [commit |-> c, entries |-> journal, service |-> service, cause |-> "none"]
  /\ journal' = <<>>
  /\ left' = Clamped(timeout)
  /\ marker' = Corrupt /\ markerDisk' = markerDisk \cup {Corrupt}
  /\ phase' = "arm"
  /\ UNCHANGED <<fileVars, pending, todo, fate, hookVars, greeted, bounds>>

Targets(entries) == {entries[i].target : i \in DOMAIN entries}

ArmMarker ==
  /\ phase = "arm"
  /\ marker' = ArmedOf(job)
  /\ markerDisk' = (markerDisk \ {Corrupt}) \cup {marker'}
  /\ pending' = marker' /\ fate' = [fate EXCEPT ![job.commit] = "armed"]
  /\ job' = NoJob /\ phase' = "enforce"
  /\ UNCHANGED <<fileVars, journal, left, todo, hookVars, greeted, bounds>>

(* The marker cannot be opened, or not be written: MonitorError ends the    *)
(* loop with nothing pending.                                               *)
ArmFails ==
  /\ phase = "arm" \/ (phase = "idle" /\ greeted /\ pending = None)
  /\ Failing("io")
  /\ phase' = "ended" /\ job' = NoJob /\ left' = 0
  /\ journal' = <<>> /\ greeted' = FALSE
  /\ UNCHANGED <<fileVars, pending, marker, markerDisk, todo, fate, hookVars,
                 edits>>

(* The pending commit is taken, and its entries rolled back.                *)
RollBack(why) ==
  /\ job' = JobOf(pending, why)
  /\ pending' = None /\ left' = 0
  /\ phase' = "mounts"
  /\ UNCHANGED <<fileVars, journal, marker, markerDisk, todo, fate, hookVars,
                 greeted, bounds>>

(* confirm_commit: an expired commit is rolled back; otherwise the pending  *)
(* commit is taken and the started mounts forgotten (a failure is logged),  *)
(* and then the marker is removed and the answer sent.                      *)
ConfirmExpired ==
  /\ phase = "idle" /\ greeted /\ pending # None /\ left = 0
  /\ RollBack("expired confirm")

StartsMounts(entries) == Targets(entries) \cap Mounting # {}

ConfirmCommit ==
  /\ phase = "idle" /\ greeted /\ pending # None /\ left > 0
  /\ job' = JobOf(pending, "none") /\ pending' = None /\ left' = 0
  /\ \/ /\ mountRec' = IF StartsMounts(pending.entries) THEN None ELSE mountRec
        /\ UNCHANGED faults
     \/ StartsMounts(pending.entries) /\ Failing("hook") /\ UNCHANGED mountRec
  /\ phase' = "commit"
  /\ UNCHANGED <<fileVars, journal, marker, markerDisk, todo, fate, units, svc,
                 mounted, greeted, edits>>

Committed_KeepsMarker ==
  /\ phase = "commit"
  /\ fate' = [fate EXCEPT ![job.commit] = "confirmed"]
  /\ job' = NoJob /\ phase' = "enforce"
  /\ UNCHANGED <<fileVars, journal, pending, left, marker, markerDisk, todo, hookVars,
                 greeted, bounds>>

Committed ==
  /\ phase = "commit"
  /\ marker' = None /\ markerDisk' = markerDisk \cup {None}
  /\ fate' = [fate EXCEPT ![job.commit] = "confirmed"]
  /\ mounted' = [t \in Target |-> IF t \in Targets(job.entries) THEN None ELSE mounted[t]]
  /\ job' = NoJob /\ phase' = "enforce"
  /\ UNCHANGED <<fileVars, journal, pending, left, todo, units, svc, mountRec,
                 greeted, bounds>>

RollbackCommit ==
  /\ phase = "idle" /\ greeted /\ pending # None
  /\ RollBack("request")

(* serve_loop: with a commit pending, the read returns every 20 ms; the     *)
(* deadline is enforced after every read.                                   *)
Poll ==
  /\ phase = "idle" /\ pending # None
  /\ phase' = "enforce"
  /\ UNCHANGED <<fileVars, commitVars, hookVars, greeted, bounds>>

EnforceDeadline ==
  /\ phase = "enforce"
  /\ IF pending # None /\ left = 0
       THEN RollBack("deadline")
       ELSE phase' = "idle" /\ UNCHANGED <<fileVars, commitVars, hookVars, greeted,
                                           bounds>>

(* The loop ends: Shutdown, a closed channel, a protocol violation, an      *)
(* answer that cannot be sent.  rollback_pending_on_exit follows.           *)
Exit ==
  /\ phase \in {"idle", "enforce"}
  /\ IF pending # None
       THEN RollBack("exit")
       ELSE /\ phase' = "ended" /\ journal' = <<>> /\ greeted' = FALSE
            /\ UNCHANGED <<fileVars, pending, left, marker, markerDisk, job, todo,
                           fate, hookVars, bounds>>

----------------------------------------------------------------------------
(* A rollback: stop the mounts the apply started, restore newest first,     *)
(* reload unit files, replay the service action, remove the marker.  A hook *)
(* or a restore that fails is logged and the rollback goes on.              *)

(* stop_started: the record goes first; the units stop only while the       *)
(* target still has the contents they were started for.                     *)
StopMounts(out) ==
  /\ phase = "mounts"
  /\ IF StartsMounts(job.entries) /\ mountRec # None
       THEN \/ /\ out = "ok" /\ UNCHANGED faults
               /\ mountRec' = None
               /\ mounted' = IF file[mountRec.target] = mountRec.contents
                               THEN [mounted EXCEPT ![mountRec.target] = None]
                               ELSE mounted
            \/ /\ out = "failed" /\ Failing("hook")
               /\ mountRec' \in {mountRec, None} /\ UNCHANGED mounted
       ELSE out = "ok" /\ UNCHANGED <<mountRec, mounted, faults>>
  /\ todo' = job.entries /\ phase' = "restore"
  /\ UNCHANGED <<fileVars, journal, pending, left, marker, markerDisk, job, fate,
                 units, svc, greeted, edits>>

(* restore_backup_with of one entry: skipped when its backup is gone or the *)
(* target no longer has the contents the apply wrote.                       *)
Unedited_Assumed(e) == TRUE

Unedited(e) == file[e.target] = e.new

RestoreOne(e, rest, out) ==
  /\ IF backups[e.backup] # None /\ Unedited(e)
       THEN WriteAtomic(e.target, backups[e.backup].contents, DefaultKeep, out)
       ELSE out = "ok" /\ UNCHANGED <<fileVars, faults>>
  /\ todo' = rest
  /\ UNCHANGED <<journal, pending, left, marker, markerDisk, job, fate, hookVars,
                 phase, greeted, edits>>

RestoreEntry_OldestFirst(out) ==
  /\ phase = "restore" /\ todo # <<>>
  /\ RestoreOne(Head(todo), Tail(todo), out)

RestoreEntry(out) ==
  /\ phase = "restore" /\ todo # <<>>
  /\ RestoreOne(todo[Len(todo)], SubSeq(todo, 1, Len(todo) - 1), out)

Restored ==
  /\ phase = "restore" /\ todo = <<>>
  /\ phase' = "reload"
  /\ UNCHANGED <<fileVars, commitVars, hookVars, greeted, bounds>>

ReplayReload_Skipped(out) ==
  /\ phase = "reload" /\ out = "ok"
  /\ phase' = "replay"
  /\ UNCHANGED <<fileVars, commitVars, hookVars, greeted, bounds>>

ReplayReload(out) ==
  /\ phase = "reload"
  /\ IF Targets(job.entries) \cap Reloading # {}
       THEN \/ out = "ok" /\ units' = [t \in Target |-> file[t]] /\ UNCHANGED faults
            \/ out = "failed" /\ Failing("hook") /\ UNCHANGED units
       ELSE out = "ok" /\ UNCHANGED <<units, faults>>
  /\ phase' = "replay"
  /\ UNCHANGED <<fileVars, commitVars, svc, mounted, mountRec, greeted, edits>>

ReplayService(out) ==
  /\ phase = "replay"
  /\ IF job.service # None
       THEN \/ /\ out = "ok" /\ svc' = [svc EXCEPT ![job.service] = RunsWith(job.service)]
               /\ UNCHANGED faults
            \/ out = "failed" /\ Failing("hook") /\ UNCHANGED svc
       ELSE out = "ok" /\ UNCHANGED <<svc, faults>>
  /\ phase' = "clear"
  /\ UNCHANGED <<fileVars, commitVars, units, mounted, mountRec, greeted, edits>>

(* clear_marker: an unlink, with no sync of the directory.                  *)
ClearMarker ==
  /\ phase = "clear"
  /\ marker' = None /\ markerDisk' = markerDisk \cup {None}
  /\ fate' = [fate EXCEPT ![job.commit] = "rolled back"]
  /\ job' = NoJob
  /\ IF job.cause = "exit"
       THEN phase' = "ended" /\ journal' = <<>> /\ greeted' = FALSE
       ELSE /\ phase' = IF job.cause \in {"deadline", "recovery"} THEN "idle" ELSE "enforce"
            /\ UNCHANGED <<journal, greeted>>
  /\ UNCHANGED <<fileVars, pending, left, todo, hookVars, bounds>>

(* It fails, there or in a confirm: MonitorError ends the loop.             *)
ClearFails ==
  /\ phase \in {"clear", "commit"} /\ Failing("io")
  /\ phase' = "ended" /\ job' = NoJob /\ journal' = <<>> /\ greeted' = FALSE
  /\ UNCHANGED <<fileVars, pending, left, marker, markerDisk, todo, fate, hookVars,
                 edits>>

----------------------------------------------------------------------------
(* run_monitor, after its loop: the lock is free, and handle.wait() returns *)
(* when the worker ends, which an open channel does not make it do.  A      *)
(* one-shot command's monitor may come first.                               *)
Reaped ==
  /\ phase = "ended" /\ phase' = "down"
  /\ UNCHANGED <<fileVars, commitVars, hookVars, greeted, bounds>>

(* Starting.  MONITOR_LOCK admits one monitor: a start waits for the one    *)
(* before to be gone.                                                       *)
Start ==
  /\ phase = "down"
  /\ phase' = "start"
  /\ UNCHANGED <<fileVars, commitVars, hookVars, greeted, bounds>>

(* recover_in_place (in steps, and with a corrupt marker: AtomicWrite).     *)
RecoverInPlace(out) ==
  /\ phase = "start" /\ phase' = "recover"
  /\ \/ ipMark = None /\ out = "ok" /\ UNCHANGED <<fileVars, faults>>
     \/ /\ ipMark # None /\ file[ipMark.target] \in {ipMark.new, ipMark.prev}
        /\ out = "ok" /\ ipMark' = None
        /\ UNCHANGED <<file, backups, stamp, faults>>
     \/ /\ ipMark # None /\ file[ipMark.target] \notin {ipMark.new, ipMark.prev}
        /\ IF backups[ipMark.backup] = None
             THEN out = "ok" /\ UNCHANGED <<fileVars, faults>>
             ELSE /\ TakeBackup(ipMark.target, DefaultKeep)
                  /\ \/ /\ out = "ok" /\ UNCHANGED faults
                        /\ file' = [file EXCEPT ![ipMark.target] =
                                      backups[ipMark.backup].contents]
                        /\ ipMark' = None
                     \/ out = "failed" /\ Failing("io") /\ UNCHANGED <<file, ipMark>>
  /\ UNCHANGED <<commitVars, hookVars, greeted, edits>>

(* recover_pending: a marker on disk is rolled back unconditionally; one    *)
(* that does not parse stops the start (MonitorError::CorruptMarker).       *)
RecoverPending_Discards ==
  /\ phase = "recover" /\ phase' = "idle"
  /\ marker' = None /\ markerDisk' = markerDisk \cup {None}
  /\ UNCHANGED <<fileVars, journal, pending, left, job, todo, fate, hookVars,
                 greeted, bounds>>

RecoverPending ==
  /\ phase = "recover"
  /\ \/ marker = None /\ phase' = "idle" /\ UNCHANGED job
     \/ marker = Corrupt /\ phase' = "down" /\ UNCHANGED job
     \/ /\ marker \notin {None, Corrupt}
        /\ job' = JobOf(marker, "recovery") /\ phase' = "mounts"
  /\ UNCHANGED <<fileVars, journal, pending, left, marker, markerDisk, todo, fate,
                 hookVars, greeted, bounds>>

----------------------------------------------------------------------------
(* The environment.                                                         *)

Tick ==
  /\ pending # None /\ left > 0
  /\ left' = left - 1
  /\ UNCHANGED <<fileVars, journal, pending, marker, markerDisk, job, todo, fate,
                 hookVars, phase, greeted, bounds>>

Edit ==
  /\ edits < MaxEdits /\ edits' = edits + 1
  /\ \E t \in Target, c \in Edited :
       /\ file[t] # c
       /\ file' = [file EXCEPT ![t] = c]
  /\ UNCHANGED <<backups, stamp, ipMark, commitVars, hookVars, phase, greeted, faults>>

Die ==
  /\ phase' = "down" /\ pending' = None /\ left' = 0 /\ journal' = <<>>
  /\ job' = NoJob /\ todo' = <<>> /\ greeted' = FALSE

(* A kill; the runner may finish what it was asked to start.                *)
Crash ==
  /\ phase # "down" /\ Failing("crash") /\ Die
  /\ mounted' = mounted \/ (phase = "mounting" /\ mountRec # None /\ mounted' = Started)
  /\ UNCHANGED <<fileVars, marker, markerDisk, fate, units, svc, mountRec, edits>>

(* The boot mounts and starts what the files say; the record in /run is     *)
(* gone.                                                                    *)
PowerLoss ==
  /\ Failing("power") /\ Die
  /\ marker' \in markerDisk /\ markerDisk' = {marker'}
  /\ units' = file /\ svc' = file
  /\ mountRec' = None /\ mounted' = [t \in Target |-> None]
  /\ UNCHANGED <<fileVars, fate, edits>>

----------------------------------------------------------------------------
Request ==
  \/ Hello \/ Ask
  \/ \E t \in Target, c \in Content, j \in BOOLEAN, out \in Outcomes :
       WriteTarget(t, c, j, out)
  \/ \E s \in Stamp, out \in Outcomes : Restore(s, out)
  \/ \E t \in Target, out \in Outcomes :
       Service(t, out) \/ ReloadUnitFiles(t, out) \/ Mount(t, out)
  \/ \E c \in Commit, timeout \in Requested, s \in Target \cup {None} :
       StartConfirmTimer(c, timeout, s)
  \/ ConfirmExpired \/ ConfirmCommit \/ RollbackCommit

(* What the monitor does by itself.                                         *)
Step ==
  \/ ArmMarker \/ Committed \/ EnforceDeadline
  \/ \E out \in Outcomes :
       \/ StopMounts(out) \/ RestoreEntry(out)
       \/ ReplayReload(out) \/ ReplayService(out) \/ RecoverInPlace(out)
       \/ MountUnits(out)
  \/ Restored \/ ClearMarker \/ ClearFails \/ RecoverPending

Next ==
  \/ Request \/ Step \/ ArmFails \/ Poll \/ Exit \/ Reaped \/ Start
  \/ Tick \/ Edit \/ Crash \/ PowerLoss

(* The monitor's own steps, its 20 ms poll, time, and the service manager's *)
(* restart of a dead monitor; workers (which may outlive the loop), editors *)
(* and faults owe nothing.                                                  *)
Fairness == WF_vars(Step) /\ WF_vars(Poll) /\ WF_vars(Tick) /\ WF_vars(Start)

Spec == Init /\ [][Next]_vars /\ Fairness

----------------------------------------------------------------------------
(* Properties.                                                              *)

(* The marker file and the fate of the commits agree at every step, so      *)
(* whenever the monitor dies the next start rolls back exactly the commit   *)
(* whose window was open: never one that was confirmed, never none          *)
(* (start_confirm_timer, confirm_commit, recover_pending).                  *)
ArmedIsMarked ==
  \A c \in Commit :
    fate[c] = "armed" <=> (marker \notin {None, Corrupt} /\ marker.commit = c)

(* A rollback undoes the whole commit: when roll_back has gone through its  *)
(* entries, also a second time after a crash, each target has the contents  *)
(* it had before the commit's first write, or contents that someone else    *)
(* put there.                                                               *)
First(entries, t) ==
  entries[CHOOSE i \in DOMAIN entries :
            entries[i].target = t /\ \A k \in 1 .. i - 1 : entries[k].target # t]

RollbackUndoes ==
  phase = "reload" =>
    \A t \in Targets(job.entries) :
      \/ file[t] = First(job.entries, t).prev \/ (edits > 0 /\ file[t] \in Edited)
      \/ \A i \in DOMAIN job.entries :
            job.entries[i].target = t => job.entries[i].new # file[t]

(* The monitor's own steps (every rollback path and both recoveries)        *)
(* replace only contents that the commit wrote, or what follows a write in  *)
(* place that was cut short: an edit made during the confirm window is kept *)
(* (restore_backup_with, recover_in_place).                                 *)
KeepsEdits ==
  [][(phase # "idle" /\ edits' = edits) =>
       \A t \in Target :
         file'[t] # file[t] =>
           \/ phase = "start" /\ ipMark # None /\ ipMark.target = t
           \/ \E i \in DOMAIN job.entries :
                job.entries[i].target = t /\ job.entries[i].new = file[t]]_vars

(* With working hooks and nobody else writing, a rollback ends with the     *)
(* service of a restored target running on the restored contents, through   *)
(* reloaded unit files where the module has them: replay_reload comes       *)
(* before replay_service.                                                   *)
ServiceFollows ==
  (phase = "clear" /\ edits = 0 /\ job.service \in Targets(job.entries)) =>
    svc[job.service] = file[job.service]

(* Commit-confirm as promised (CommitConfirm): one open window at a time,   *)
(* each closed once, and none open for ever while a monitor serves, is      *)
(* starting or will be started: the exception is a loop that has ended      *)
(* (run_monitor) under a worker that lives on.                              *)
CC == INSTANCE CommitConfirm WITH attended <- phase # "ended"
ImplementsCommitConfirm == CC!Spec

=============================================================================
