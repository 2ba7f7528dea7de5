----------------------------- MODULE OpsEngine -----------------------------
(***************************************************************************)
(* The operations engine of the worker (crates/detent-ops/src/engine.rs)   *)
(* driving the monitor: one operation at a time, each a sequence of        *)
(* requests on the privsep channel, with other tools, the deadline and     *)
(* process deaths in between.  Every request is the Monitor's own action,  *)
(* joined with what the engine does before and after it.                   *)
(*                                                                         *)
(* A model is abstracted to the contents it renders; a refusal that        *)
(* happens before the first request and changes nothing (authorization,    *)
(* validation, an unknown module) is left out.                             *)
(***************************************************************************)
EXTENDS Monitor

CONSTANTS
  Kinds,      \* which operations the callers use
  Confirming  \* targets of modules that declare commit_confirm

ASSUME EngineAssumption ==
  /\ Kinds \subseteq {"apply", "restore", "service", "confirm", "rollback"}
  /\ Confirming \subseteq Target

VARIABLES
  op,      \* the operation in progress, or the last one
  nextId,  \* next_commit: the id the next arming gets, from 1 in each worker
  idOf,    \* the id each arming got, as the monitor knows it; 0: none yet
  claims,  \* history: armings whose id an apply has returned to its caller
  starter  \* history: the arming whose apply recorded the mounts of its own
           \* contents, while no later start, confirm or rollback has
           \* replaced or dropped the record; 0: none

engineVars == <<op, nextId, idOf, claims, starter>>
allVars == <<vars, engineVars>>

(* An operation: its arguments (expected_hash, service_action, whether a    *)
(* confirm window is required, the commit or backup named) and what the     *)
(* engine has learnt; logged: its Started record is durable; armed: the     *)
(* commit it armed; wrote: it has changed the target.                       *)
Idle ==
  [step |-> "idle", kind |-> "none", target |-> None, new |-> None,
   expected |-> None, act |-> FALSE, window |-> FALSE, commit |-> 0, backup |-> 0,
   noop |-> FALSE, logged |-> FALSE, read |-> None, backed |-> FALSE,
   wrote |-> FALSE, armed |-> 0, result |-> "none"]

EngineInit ==
  /\ Init /\ op = Idle /\ nextId = 1 /\ idOf = [c \in Commit |-> 0] /\ claims = {}
  /\ starter = 0

----------------------------------------------------------------------------
At(step) == op.step = step

Goto(step) == op' = [op EXCEPT !.step = step]

(* The operation returns; its outcome record is best effort.                *)
Done(result) == op' = [op EXCEPT !.step = "done", !.result = result]

Keep == UNCHANGED <<nextId, idOf, claims, starter>>

Begin(kind) ==
  /\ op.step \in {"idle", "done"} /\ greeted /\ job.cause # "exit"
  /\ kind \in Kinds
  /\ Keep /\ UNCHANGED vars

BeginApply ==
  \E t \in Target, c \in Content, e \in Content \cup {None}, a, w \in BOOLEAN :
    /\ t \in Confirming => w
    /\ Room /\ (w => \E d \in Commit : NextCommit(d))
    /\ Begin("apply")
    /\ op' = [Idle EXCEPT !.kind = "apply", !.step = "noop", !.target = t, !.new = c,
                          !.expected = e, !.act = a, !.window = w]

BeginRestore ==
  \E s \in Stamp, e \in Content \cup {None} :
    /\ Room /\ backups[s] # None
    /\ Begin("restore")
    /\ op' = [Idle EXCEPT !.kind = "restore", !.step = "log", !.backup = s,
                          !.target = backups[s].target, !.expected = e]

BeginService ==
  \E t \in Target :
    /\ Begin("service")
    /\ op' = [Idle EXCEPT !.kind = "service", !.step = "log", !.target = t]

(* A caller names a commit by the id its apply returned.                    *)
BeginClose ==
  \E c \in claims, k \in {"confirm", "rollback"} :
    /\ Begin(k)
    /\ op' = [Idle EXCEPT !.kind = k, !.step = "log", !.commit = c]

----------------------------------------------------------------------------
(* execute.                                                                 *)

AsExpected(contents) == op.expected \in {None, contents}

(* apply_is_noop: a read of its own, before anything is logged.             *)
ApplyIsNoop ==
  /\ At("noop") /\ Ask
  /\ op' = [op EXCEPT !.step = "log",
                      !.noop = file[op.target] = op.new /\ AsExpected(op.new)]
  /\ Keep

(* The Started record, unless the apply looked like a no-op; without it     *)
(* nothing is done (AuditUnavailable).                                      *)
FirstStep == IF op.kind \in {"apply", "restore"} THEN "read" ELSE "send"

Log_BestEffort(out) ==
  /\ At("log")
  /\ \/ out = "ok" /\ UNCHANGED faults
     \/ out = "failed" /\ ~op.noop /\ Failing("io")
  /\ op' = [op EXCEPT !.step = FirstStep, !.logged = out = "ok" /\ ~op.noop]
  /\ Keep
  /\ UNCHANGED <<fileVars, commitVars, hookVars, phase, greeted, edits>>

Log(out) ==
  /\ At("log")
  /\ \/ /\ out = "ok" /\ UNCHANGED faults
        /\ op' = [op EXCEPT !.step = FirstStep, !.logged = ~op.noop]
     \/ out = "failed" /\ ~op.noop /\ Failing("io") /\ Done("error")
  /\ Keep
  /\ UNCHANGED <<fileVars, commitVars, hookVars, phase, greeted, edits>>

----------------------------------------------------------------------------
(* apply, and restore up to its read.                                       *)

Read ==
  /\ At("read") /\ Ask /\ Keep
  /\ LET found == file[op.target] IN
       IF found = Absent \/ ~AsExpected(found) THEN Done("error")
       ELSE IF op.kind = "restore" THEN Goto("send")
       ELSE IF found = op.new THEN Done("ok")
       ELSE op' = [op EXCEPT !.step = "check", !.read = found]

(* run_checks and the pending-commit query: either refuses before the       *)
(* write.                                                                   *)
Check(verdict) ==
  /\ At("check") /\ Ask /\ Keep
  /\ IF (op.window /\ pending # None) \/ verdict = "refused"
       THEN Done("error") ELSE Goto("write")

(* write_target with the digest just read: an edit since then is a          *)
(* conflict.                                                                *)
Conflict ==
  /\ At("write") /\ file[op.target] # op.read
  /\ Ask /\ Done("error") /\ Keep

Write_Unjournaled(out) ==
  /\ At("write") /\ file[op.target] = op.read
  /\ WriteTarget(op.target, op.new, FALSE, out)
  /\ op' = [op EXCEPT !.step = IF out # "ok" THEN "done"
                              ELSE IF op.window THEN "arm" ELSE "reload",
                      !.wrote = out = "ok", !.backed = BackupTaken(op.target, KeepBackups),
                      !.result = IF out = "ok" THEN "none" ELSE "error"]
  /\ Keep

Write_Unguarded(out) ==
  /\ At("write")
  /\ WriteTarget(op.target, op.new, op.window, out)
  /\ op' = [op EXCEPT !.step = IF op.window THEN "arm" ELSE "reload",
                      !.wrote = TRUE, !.backed = BackupTaken(op.target, KeepBackups)]
  /\ Keep

Write(out) ==
  /\ At("write") /\ file[op.target] = op.read
  /\ WriteTarget(op.target, op.new, op.window, out)
  /\ IF out = "ok"
       THEN op' = [op EXCEPT !.step = IF op.window THEN "arm" ELSE "reload",
                             !.wrote = TRUE,
                             !.backed = BackupTaken(op.target, KeepBackups)]
       ELSE op' = [op EXCEPT !.step = "done", !.result = "error",
                             !.wrote = file'[op.target] # file[op.target]]
  /\ Keep

(* arm_commit: the next id, and a window that replays the service action.   *)
(* No commit is pending here, so what arm_or_undo meets as a failed arming  *)
(* is a monitor whose loop has ended (ArmFails, Crash): the list and the    *)
(* restore of its undo_write fail as the arming did, and nothing changes.   *)
ArmCommit(c, timeout) ==
  /\ At("arm")
  /\ StartConfirmTimer(c, timeout, IF op.act THEN op.target ELSE None)
  /\ op' = [op EXCEPT !.step = "arming", !.armed = c]
  /\ idOf' = [idOf EXCEPT ![c] = nextId] /\ nextId' = nextId + 1
  /\ UNCHANGED <<claims, starter>>

(* The monitor's answer.  A write with no backup has nothing to roll back   *)
(* to: the window is discarded (NoBackup).                                  *)
ArmAnswered ==
  /\ At("arming") /\ ArmMarker
  /\ Goto(IF op.backed THEN "reload" ELSE "discard")
  /\ Keep

(* reload_or_discard, start_mounts (never fatal), act: a failed reload or   *)
(* action discards the window, if there is one.                             *)
AfterFailure == IF op.window THEN Goto("discard") ELSE Done("error")

Reload(out) ==
  /\ At("reload") /\ Keep
  /\ IF op.target \in Reloading
       THEN /\ ReloadUnitFiles(op.target, out)
            /\ IF out = "ok" THEN Goto("mount") ELSE AfterFailure
       ELSE out = "ok" /\ Goto("mount") /\ UNCHANGED vars

StartMounts(out) ==
  /\ At("mount") /\ UNCHANGED <<nextId, idOf, claims>>
  /\ \/ /\ op.target \in Mounting /\ Mount(op.target, out)
        /\ starter' = IF out = "ok" /\ file[op.target] = op.new THEN op.armed ELSE 0
        /\ Goto(IF phase' = "mounting" THEN "mounting" ELSE "act")
     \/ /\ op.target \notin Mounting /\ out = "ok" /\ UNCHANGED <<vars, starter>>
        /\ Goto("act")

MountsStarted(out) == At("mounting") /\ MountUnits(out) /\ Goto("act") /\ Keep

Returned ==
  /\ op' = [op EXCEPT !.step = "done", !.result = "ok"]
  /\ claims' = claims \cup ({op.armed} \ {0})
  /\ UNCHANGED <<nextId, idOf, starter>>

Act(out) ==
  /\ At("act")
  /\ IF op.act
       THEN Service(op.target, out) /\ (IF out = "ok" THEN Returned ELSE AfterFailure /\ Keep)
       ELSE out = "ok" /\ UNCHANGED vars /\ Returned

(* discard_commit: unknown to the monitor once the window has closed.       *)
Discard ==
  /\ At("discard") /\ Keep
  /\ \/ pending # None /\ RollbackCommit /\ Goto("closing")
     \/ pending = None /\ Ask /\ Done("error")

----------------------------------------------------------------------------
(* The other operations: one request each.  The monitor knows a pending     *)
(* commit by its id.                                                        *)

SendRestore(out) ==
  /\ At("send") /\ op.kind = "restore" /\ Keep
  /\ IF backups[op.backup] = None
       THEN Ask /\ Done("error") /\ out = "ok"
       ELSE /\ Restore(op.backup, out)
            /\ op' = [op EXCEPT !.step = "done", !.wrote = out = "ok",
                                !.result = IF out = "ok" THEN "ok" ELSE "error"]

SendService(out) ==
  /\ At("send") /\ op.kind = "service" /\ Keep
  /\ Service(op.target, out)
  /\ Done(IF out = "ok" THEN "ok" ELSE "error")

Matches == pending # None /\ idOf[pending.commit] = idOf[op.commit]

SendConfirm ==
  /\ At("send") /\ op.kind = "confirm" /\ UNCHANGED <<nextId, idOf, claims>>
  /\ \/ Matches /\ ConfirmCommit /\ Goto("closing") /\ starter' = 0
     \/ Matches /\ ConfirmExpired /\ Goto("closing") /\ UNCHANGED starter
     \/ ~Matches /\ Ask /\ Done("error") /\ UNCHANGED starter

SendRollback ==
  /\ At("send") /\ op.kind = "rollback" /\ Keep
  /\ \/ Matches /\ RollbackCommit /\ Goto("closing")
     \/ ~Matches /\ Ask /\ Done("error")

(* The monitor's answer, once the marker is gone.                           *)
Closed ==
  /\ Keep
  /\ \/ Committed /\ Done("ok")
     \/ /\ ClearMarker
        /\ IF At("closing") THEN Done(IF op.kind = "rollback" THEN "ok" ELSE "error")
                            ELSE UNCHANGED op

----------------------------------------------------------------------------
(* An operation whose monitor is gone ends with an error (a closed channel, *)
(* or no answer in time), and so does every other of that worker; the next  *)
(* worker counts ids from 1.                                                *)
Ended ==
  /\ op' = [op EXCEPT !.step = "idle",
                      !.result = IF op.step \in {"idle", "done"} THEN op.result ELSE "error"]
  /\ nextId' = 1 /\ UNCHANGED <<idOf, claims, starter>>

Dies ==
  /\ (ArmFails /\ op.step \in {"arm", "arming"}) \/ ClearFails \/ Crash \/ Exit
  /\ Ended

EngineStep ==
  \/ ApplyIsNoop \/ Read \/ Conflict \/ ArmAnswered \/ Discard
  \/ SendConfirm \/ SendRollback \/ Closed
  \/ \E out \in Outcomes :
       \/ Log(out) \/ Write(out) \/ Reload(out) \/ StartMounts(out)
       \/ MountsStarted(out) \/ Act(out) \/ SendRestore(out) \/ SendService(out)
  \/ \E verdict \in {"passed", "refused"} : Check(verdict)
  \/ \E c \in Commit, timeout \in Requested : ArmCommit(c, timeout)

MonitorStep ==
  /\ UNCHANGED engineVars
  /\ \/ Hello \/ Poll \/ Reaped \/ Start \/ Tick \/ Edit
     \/ EnforceDeadline \/ Restored \/ RecoverPending
     \/ \E out \in Outcomes :
          \/ RestoreEntry(out) \/ ReplayReload(out) \/ ReplayService(out)
          \/ RecoverInPlace(out)

Stops(out) == StopMounts(out) /\ starter' = 0 /\ UNCHANGED <<op, nextId, idOf, claims>>

EngineNext ==
  \/ BeginApply \/ BeginRestore \/ BeginService \/ BeginClose
  \/ EngineStep \/ MonitorStep \/ Dies \/ \E out \in Outcomes : Stops(out)

EngineSpec == EngineInit /\ [][EngineNext]_allVars

----------------------------------------------------------------------------
(* Properties.                                                              *)

(* Intent first: an operation that has changed a target wrote its Started   *)
(* record before (execute). The exception is an apply without an            *)
(* expected_hash that apply_is_noop took for no change, and whose target    *)
(* somebody (another tool, or a rollback of the monitor) changed before     *)
(* apply read it again.                                                     *)
MutationIsLogged == op.wrote => op.logged \/ (op.noop /\ op.expected = None)

(* Optimistic concurrency end to end: what an apply with an expected_hash   *)
(* overwrites is what its caller saw, whatever other tools did between the  *)
(* reads of apply_is_noop and apply and the write.                          *)
NoLostUpdate ==
  [][(op.kind = "apply" /\ ~op.wrote /\ op'.wrote) =>
       op.expected \in {None, file[op.target]}]_allVars

(* A window covers exactly the write of the apply that opened it, so a      *)
(* rollback undoes that apply and no other (write_target's journal,         *)
(* start_confirm_timer).                                                    *)
WindowCoversApply ==
  (pending # None /\ op.armed = pending.commit /\ op.backed) =>
    /\ Len(pending.entries) = 1
    /\ LET e == pending.entries[1] IN
         e.target = op.target /\ e.new = op.new /\ e.prev = op.read

(* An apply with a confirm window that answers an error leaves nothing of   *)
(* itself behind: with no window open, its contents are gone from the       *)
(* target again, whichever hook failed (reload_or_discard, discard_commit). *)
FailedApplyUndone ==
  (/\ At("done") /\ op.kind = "apply" /\ op.window /\ op.result = "error"
   /\ phase = "idle" /\ pending = None)
    => ~op.wrote \/ file[op.target] # op.new \/ op.new \in Edited

(* A rollback that finds the target as the apply left it stops the mounts   *)
(* which the apply started, before it takes the entries away from under     *)
(* them, also when the apply was killed between the record and the start:   *)
(* over any sequence of windows, kills and failing calls, but for a         *)
(* stop_started that itself fails (start_added, confirm_commit's forget,    *)
(* stop_started).                                                           *)
MountsGone ==
  [][(phase = "mounts" /\ phase' = "restore" /\ faults' = faults /\ starter = job.commit) =>
       \A i \in DOMAIN job.entries :
         LET e == job.entries[i] IN
           file[e.target] = e.new => mounted'[e.target] # e.new]_allVars
=============================================================================
