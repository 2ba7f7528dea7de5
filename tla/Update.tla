------------------------------- MODULE Update -------------------------------
(***************************************************************************)
(* `detent update`: choosing a release, the swap of the binary on disk,    *)
(* the restart with its health check, and the way back.                    *)
(*                                                                         *)
(* An updater is a process started from the shell or, for the web and MCP, *)
(* as an instance of the unit detent-update@<tag>.service; a checker is    *)
(* `detent update --check`. The service manager keeps two units from       *)
(* running at once; nothing keeps a shell's updater from running beside    *)
(* them. A file is a number (an inode) and files[n] what it holds, so a    *)
(* hard link is a second name with the same number. Releases are their     *)
(* version numbers; what a fetch of the feed lists and which of that is    *)
(* past the age gate is left open. A kill, a power loss and the failure of *)
(* a step may happen at any step of an updater.                            *)
(***************************************************************************)
EXTENDS Integers, Sequences, FiniteSets, FiniteSetsExt

CONSTANTS
  Updaters,  \* processes
  Releases,  \* the versions the project will ever publish
  Sick,      \* those which never answer /healthz
  Refused,   \* those that fail verification, the self-test or the feature check
  Partial,   \* the contents of a file that is being copied
  MaxRuns, MaxFaults  \* bounds

ASSUME UpdateAssumption ==
  /\ IsFiniteSet(Releases) /\ Releases \subseteq Nat \ {0} /\ Releases # {}
  /\ Sick \subseteq Releases /\ Refused \subseteq Releases
  /\ Partial \notin Releases
  /\ MaxRuns \in Nat /\ MaxFaults \in Nat

VARIABLES
  files,          \* the contents of each inode
  target, prev,   \* the binary and <target>.prev; 0 for no file
  tdur,           \* what a power loss may leave at target
  copied,         \* inodes that keep_previous copied, whose contents no sync wrote
  written,        \* staged inodes whose contents no sync wrote yet
  links,          \* the filesystem has hard links
  managed,        \* detent runs as a service of this host's init system
  service,        \* the inode the service runs, 0 when it is down
  bad,            \* bad.json
  stamp,          \* the release check.json offers; 0 for no offer, Rejected, None
  proc,           \* the updaters
  runs, faults,   \* counts for the bounds
  overlap,        \* history: two processes ran at once
  unrepaired      \* history: a fault struck that no updater repairs

fixed == <<copied, written, links>>
disk == <<files, target, prev, tdur, fixed>>
store == <<bad, stamp>>
count == <<runs, faults>>
history == <<overlap, unrepaired>>
vars == <<disk, managed, service, store, proc, count, history>>

None == -1
Rejected == -2  \* no offer, and the stamp names a release of the bad list
Idle == [pc |-> "idle"]
Version(n) == files[n]
Running(u) == proc[u] # Idle
At(u, pc) == proc[u].pc = pc
Goto(u, pc) == proc' = [proc EXCEPT ![u].pc = pc]
Checks == {"check", "force"}
End(u) == proc' = [proc EXCEPT ![u] = Idle]
Fault == faults < MaxFaults /\ faults' = faults + 1

(* current_exe and the compiled-in version of a process.                    *)
Current(u) == Version(proc[u].exe)

----------------------------------------------------------------------------
(* Choosing a release.                                                      *)

(* The list is tried from the newest version down; old are the releases of  *)
(* it that pass gate_age.                                                   *)
Select(current, list, old, downgrade) ==
  LET newer == {v \in list \cap old : v > current}
      young == {v \in list \ old : v > current}
      lower == {v \in list \cap old : v < current}
  IN  IF newer # {} THEN Max(newer)
      ELSE IF \/ current \in list /\ young = {}
              \/ ~downgrade
              \/ lower = {}
           THEN 0
           ELSE Max(lower)

(* What an updater chooses from a feed: the newest release that qualifies,  *)
(* or the tag it was given, and no release of the bad list.                 *)
Choice(u, feed, old) ==
  LET p == proc[u] IN
  Select(Current(u), (IF p.tag = 0 THEN feed ELSE feed \cap {p.tag}) \ bad, old, p.downgrade)

(* A start is a process of the binary that is installed now.                *)
Started(u, kind, tag, downgrade) ==
  /\ ~Running(u) /\ runs < MaxRuns
  /\ Version(target) \in Releases
  /\ proc' = [proc EXCEPT ![u] =
                [pc |-> "select", kind |-> kind, tag |-> tag, downgrade |-> downgrade,
                 exe |-> target, cand |-> 0, staged |-> 0, src |-> 0, dst |-> 0,
                 seen |-> {}]]
  /\ runs' = runs + 1
  /\ overlap' = (overlap \/ \E w \in Updaters : Running(w))
  /\ UNCHANGED <<disk, managed, service, store, faults, unrepaired>>

RunUpdate(u) == \E tag \in Releases \cup {0}, downgrade \in BOOLEAN :
                  Started(u, "cli", tag, downgrade)

(* SystemdManager::start_update, asked by the running service for a newer   *)
(* release.                                                                 *)
StartUpdate(u) ==
  /\ managed /\ service # 0
  /\ ~\E w \in Updaters : Running(w) /\ proc[w].kind = "unit"
  /\ \E tag \in Releases : tag > Version(service) /\ Started(u, "unit", tag, FALSE)

RunCheck(u) == \E kind \in Checks, downgrade \in BOOLEAN : Started(u, kind, 0, downgrade)

(* apply_update up to the choice: read_bad, then the feed.                  *)
Prepare(u) ==
  /\ At(u, "select") /\ proc[u].kind \notin Checks
  /\ \E feed \in SUBSET Releases : \E old \in SUBSET feed :
       LET chosen == Choice(u, feed, old) IN
       IF chosen = 0 THEN End(u)
       ELSE proc' = [proc EXCEPT ![u] = [@ EXCEPT !.pc = "verify", !.tag = 0, !.downgrade = FALSE,
                                                   !.cand = chosen]]
  /\ UNCHANGED <<disk, managed, service, store, count, history>>

(* The downloads, their digests and the bundle; then the self-test.         *)
Verify(u) ==
  /\ At(u, "verify")
  /\ IF proc[u].cand \in Refused THEN End(u) ELSE Goto(u, "stage")
  /\ UNCHANGED <<disk, managed, service, store, count, history>>

----------------------------------------------------------------------------
(* The swap.                                                                *)

(* The target is a regular file; a copy of the candidate is beside it.      *)
Stage(u) ==
  /\ At(u, "stage")
  /\ files' = Append(files, proc[u].cand) /\ written' = written \cup {Len(files) + 1}
  /\ proc' = [proc EXCEPT ![u] = [@ EXCEPT !.pc = "flush", !.staged = Len(files) + 1]]
  /\ UNCHANGED <<target, prev, tdur, copied, links, managed, service, store, count, history>>

(* A mutant of StageSync that does not wait for the disk.                   *)
StageSync_Skipped(u) ==
  /\ At(u, "flush") /\ Goto(u, "unlink")
  /\ UNCHANGED <<disk, managed, service, store, count, history>>

(* sync_all on the staged file.                                             *)
StageSync(u) ==
  /\ At(u, "flush")
  /\ written' = written \ {proc[u].staged}
  /\ Goto(u, "unlink")
  /\ UNCHANGED <<files, target, prev, tdur, copied, links, managed, service, store, count, history>>

RemovePrevious(u) ==
  /\ At(u, "unlink")
  /\ prev' = 0
  /\ Goto(u, "keep")
  /\ UNCHANGED <<files, target, tdur, fixed, managed, service, store, count, history>>

(* hard_link fails where links are not supported, and when the name exists. *)
KeepPrevious(u) ==
  /\ At(u, "keep")
  /\ IF links /\ prev = 0
     THEN prev' = target /\ Goto(u, "persist")
     ELSE Goto(u, "copy") /\ UNCHANGED prev
  /\ UNCHANGED <<files, target, tdur, fixed, managed, service, store, count, history>>

(* A file that is being executed cannot be opened for writing.              *)
Busy(n) == service = n \/ \E w \in Updaters : Running(w) /\ proc[w].exe = n

CopyOpen(u) ==
  /\ At(u, "copy")
  /\ LET n == IF prev = 0 THEN Len(files) + 1 ELSE prev IN
       IF prev # 0 /\ Busy(prev)
       THEN Goto(u, "cleanup") /\ UNCHANGED <<files, prev, copied>>
       ELSE /\ copied' = copied \cup {n}
            /\ files' = IF prev = 0 THEN Append(files, Partial)
                        ELSE [files EXCEPT ![prev] = Partial]
            /\ prev' = n
            /\ proc' = [proc EXCEPT ![u] = [@ EXCEPT !.pc = "copying", !.src = target,
                                                     !.dst = n]]
  /\ UNCHANGED <<target, tdur, written, links, managed, service, store, count, history>>

CopyDone(u) ==
  /\ At(u, "copying")
  /\ files' = [files EXCEPT ![proc[u].dst] = files[proc[u].src]]
  /\ proc' = [proc EXCEPT ![u] = [@ EXCEPT !.pc = "persist", !.src = 0, !.dst = 0]]
  /\ UNCHANGED <<target, prev, tdur, fixed, managed, service, store, count, history>>

Persist(u) ==
  /\ At(u, "persist")
  /\ target' = proc[u].staged /\ tdur' = tdur \cup {proc[u].staged}
  /\ Goto(u, "sync")
  /\ UNCHANGED <<files, prev, fixed, managed, service, store, count, history>>

SyncDirectory(u) ==
  /\ At(u, "sync")
  /\ tdur' = {target}
  /\ Goto(u, "restart")
  /\ UNCHANGED <<files, target, prev, fixed, managed, service, store, count, history>>

(* The error path of the swap.                                              *)
Cleanup(u) ==
  /\ At(u, "cleanup")
  /\ prev' = 0
  /\ End(u)
  /\ UNCHANGED <<files, target, tdur, fixed, managed, service, store, count, history>>

----------------------------------------------------------------------------
(* The restart, and the way back.                                           *)

(* A torn binary does not start.                                            *)
Runs(n) == IF files[n] = Partial THEN 0 ELSE n

(* A mutant of Installed that leaves the stamp.                             *)
Installed_KeepsStamp(u) ==
  /\ End(u)
  /\ UNCHANGED <<disk, managed, service, store, count, history>>

(* clear_stamp: the offer of check.json is the release that now runs.       *)
Installed(u) ==
  /\ stamp' = None /\ End(u)
  /\ UNCHANGED <<disk, managed, service, bad, count, history>>

RestartAndCheck(u) ==
  /\ At(u, "restart") /\ managed
  /\ service' = Runs(target)
  /\ Goto(u, "health")
  /\ UNCHANGED <<disk, managed, store, count, history>>

NotAService(u) == At(u, "restart") /\ ~managed /\ Installed(u)

(* wait_healthy asks whatever serves now.                                   *)
Serving == service # 0 /\ Version(service) \notin Sick

(* A mutant of Unhealthy that reports and ends.                             *)
Unhealthy_Ends(u) ==
  /\ At(u, "health") /\ ~Serving /\ End(u)
  /\ UNCHANGED <<disk, managed, service, store, count, history>>

Healthy(u) == At(u, "health") /\ Serving /\ Installed(u)

Unhealthy(u) ==
  /\ At(u, "health") /\ ~Serving
  /\ Goto(u, "mark")
  /\ UNCHANGED <<disk, managed, service, store, count, history>>

(* mark_bad reads the list; a tag that is listed ends it.                   *)
ReadBad(u) ==
  /\ At(u, "mark")
  /\ proc' = [proc EXCEPT ![u] = [@ EXCEPT !.pc = IF proc[u].cand \in bad THEN "rollback" ELSE "marking",
                                           !.seen = bad]]
  /\ UNCHANGED <<disk, managed, service, store, count, history>>

MarkBad(u) ==
  /\ At(u, "marking")
  /\ bad' = proc[u].seen \cup {proc[u].cand} /\ stamp' = None
  /\ proc' = [proc EXCEPT ![u] = [@ EXCEPT !.pc = "rollback", !.seen = {}]]
  /\ UNCHANGED <<disk, managed, service, count, history>>

(* Installed::rollback, which fails when the copy is gone.                  *)
Rollback(u) ==
  /\ At(u, "rollback")
  /\ IF prev = 0
     THEN End(u) /\ UNCHANGED disk
     ELSE /\ target' = prev /\ prev' = 0
          /\ tdur' = {prev}
          /\ Goto(u, "again")
          /\ UNCHANGED <<files, fixed>>
  /\ UNCHANGED <<managed, service, store, count, history>>

(* A mutant of RestartAgain that leaves the service as it is.               *)
RestartAgain_Forgotten(u) ==
  /\ At(u, "again") /\ End(u)
  /\ UNCHANGED <<disk, managed, service, store, count, history>>

(* The second restart. What its health check finds only chooses the words   *)
(* of the report.                                                           *)
RestartAgain(u) ==
  /\ At(u, "again")
  /\ service' = IF managed THEN Runs(target) ELSE service
  /\ End(u)
  /\ UNCHANGED <<disk, managed, store, count, history>>

----------------------------------------------------------------------------
(* `detent update --check`.                                                 *)

(* Without an offer the report may name the newest release held back.       *)
Reports(u, feed, old) ==
  LET chosen == Choice(u, feed, old) IN
  {chosen} \cup {r \in {Rejected} : chosen = 0 /\ \E v \in feed \cap bad : v > Current(u)}

(* A fresh stamp answers, unless it offers a release on the bad list.       *)
CheckReport(u) ==
  /\ At(u, "select") /\ proc[u].kind \in Checks
  /\ IF proc[u].kind = "check" /\ stamp \notin {None, Rejected} \cup bad
     THEN End(u)
     ELSE \E feed \in SUBSET Releases : \E old \in SUBSET feed :
          \E report \in Reports(u, feed, old) :
            proc' = [proc EXCEPT ![u] = [@ EXCEPT !.pc = "write", !.downgrade = FALSE, !.cand = report]]
  /\ UNCHANGED <<disk, managed, service, store, count, history>>

(* write_cached keeps a stamp that is still fresh, unless forced.           *)
WriteCached(u) ==
  /\ At(u, "write")
  /\ stamp' = IF stamp = None \/ proc[u].kind = "force" THEN proc[u].cand ELSE stamp
  /\ End(u)
  /\ UNCHANGED <<disk, managed, service, bad, count, history>>

----------------------------------------------------------------------------
(* The world.                                                               *)

(* CHECK_INTERVAL passes.                                                   *)
StampExpires ==
  /\ stamp # None /\ stamp' = None
  /\ UNCHANGED <<disk, managed, service, bad, proc, count, history>>

(* The init system starts a service that ended, from the installed binary.  *)
ServiceRestarts ==
  /\ managed /\ service # Runs(target)
  /\ service' = Runs(target)
  /\ UNCHANGED <<disk, managed, store, proc, count, history>>

----------------------------------------------------------------------------
(* Faults.                                                                  *)

(* From here on an updater leaves something behind when it is cut short.    *)
Swapping(u) == proc[u].pc \notin {"select", "verify", "stage", "flush", "unlink", "write"}

(* A step fails before it has an effect. That the removal of .prev failed   *)
(* nobody notices. After the rename the new binary stays, and the copy of   *)
(* the old one goes.                                                        *)
StepFails(u) ==
  /\ Running(u) /\ Fault
  /\ \/ /\ ~Swapping(u) /\ ~At(u, "unlink")
        /\ End(u) /\ UNCHANGED unrepaired
     \/ /\ At(u, "unlink")
        /\ Goto(u, "keep") /\ UNCHANGED unrepaired
     \/ /\ proc[u].pc \in {"copying", "persist"}
        /\ Goto(u, "cleanup") /\ UNCHANGED unrepaired
     \/ /\ At(u, "sync")
        /\ Goto(u, "cleanup") /\ unrepaired' = TRUE
     \/ /\ At(u, "rollback")
        /\ End(u) /\ unrepaired' = TRUE
  /\ UNCHANGED <<disk, managed, service, store, runs, overlap>>

(* The rename of the rollback is done when the sync of the directory fails: *)
(* the updater ends without the second restart.                             *)
RollbackSyncFails(u) ==
  /\ At(u, "rollback") /\ prev # 0 /\ Fault
  /\ target' = prev /\ prev' = 0
  /\ tdur' = tdur \cup {prev}
  /\ End(u) /\ unrepaired' = TRUE
  /\ UNCHANGED <<files, fixed, managed, service, store, runs, overlap>>

(* No configuration, or no certificate to pin: not restarted, and           *)
(* unhealthy, service or not. A restart that the service manager reports    *)
(* failed: down, and unhealthy. An answer that comes after the deadline:    *)
(* unhealthy.                                                               *)
LooksUnhealthy(u) ==
  /\ proc[u].pc \in {"restart", "health"} /\ Fault
  /\ service' \in IF At(u, "restart") THEN {0, service} ELSE {service}
  /\ Goto(u, "mark")
  /\ UNCHANGED <<disk, managed, store, runs, history>>

(* clear_stamp is best effort: an offer of the release that was installed   *)
(* stays until it expires.                                                  *)
StampStays(u) ==
  /\ Fault
  /\ (At(u, "restart") /\ ~managed) \/ (At(u, "health") /\ Serving)
  /\ End(u)
  /\ unrepaired' = (unrepaired \/ stamp = Version(target))
  /\ UNCHANGED <<disk, managed, service, store, runs, overlap>>

(* mark_bad is best effort, the list and the stamp each.                    *)
MarkFails(u) ==
  /\ At(u, "marking") /\ Fault
  /\ \/ bad' = bad /\ stamp' \in {stamp, None}
     \/ bad' = proc[u].seen \cup {proc[u].cand} /\ stamp' = stamp
  /\ Goto(u, "rollback")
  /\ UNCHANGED <<disk, managed, service, runs, history>>

(* The second restart returns before it restarts, as the first may, or      *)
(* leaves the service down.                                                 *)
AgainFails(u) ==
  /\ At(u, "again") /\ Fault
  /\ service' \in {0, service}
  /\ End(u) /\ unrepaired' = TRUE
  /\ UNCHANGED <<disk, managed, store, runs, overlap>>

(* The process is killed, by hand or by TimeoutStartSec. Nothing looks at   *)
(* an update that was cut short.                                            *)
Kill(u) ==
  /\ Running(u) /\ Fault
  /\ End(u)
  /\ unrepaired' = (unrepaired \/ Swapping(u))
  /\ UNCHANGED <<disk, managed, service, store, runs, overlap>>

(* What it leaves at .prev no updater reads: the next swap removes it.      *)
PowerLoss ==
  /\ Fault
  /\ target' \in tdur /\ prev' \in {0, prev}
  /\ \E lost \in SUBSET (copied \cup written) :
       /\ files' = [n \in DOMAIN files |-> IF n \in lost THEN Partial ELSE files[n]]
       /\ unrepaired' = (\/ unrepaired \/ lost \cap copied # {}
                         \/ \E u \in Updaters : Running(u) /\ Swapping(u))
  /\ tdur' = {target'}
  /\ proc' = [u \in Updaters |-> Idle]
  /\ service' = IF managed /\ files'[target'] # Partial THEN target' ELSE 0
  /\ UNCHANGED <<fixed, managed, store, runs, overlap>>

----------------------------------------------------------------------------

Init ==
  /\ files \in {<<v>> : v \in Releases \ (Sick \cup Refused)} /\ target = 1 /\ prev = 0
  /\ tdur = {1}
  /\ copied = {} /\ written = {} /\ links \in BOOLEAN /\ managed \in BOOLEAN
  /\ service = IF managed THEN 1 ELSE 0
  /\ bad = {} /\ stamp = None
  /\ proc = [u \in Updaters |-> Idle]
  /\ runs = 0 /\ faults = 0
  /\ overlap = FALSE /\ unrepaired = FALSE

Step(u) ==
  \/ Prepare(u) \/ Verify(u)
  \/ Stage(u) \/ StageSync(u) \/ RemovePrevious(u) \/ KeepPrevious(u) \/ CopyOpen(u) \/ CopyDone(u)
  \/ Persist(u) \/ SyncDirectory(u) \/ Cleanup(u)
  \/ RestartAndCheck(u) \/ NotAService(u) \/ Healthy(u) \/ Unhealthy(u)
  \/ ReadBad(u) \/ MarkBad(u) \/ Rollback(u) \/ RestartAgain(u)
  \/ CheckReport(u) \/ WriteCached(u)

Faulty(u) ==
  \/ StepFails(u) \/ LooksUnhealthy(u) \/ StampStays(u) \/ MarkFails(u)
  \/ RollbackSyncFails(u) \/ AgainFails(u) \/ Kill(u)

Next ==
  \/ \E u \in Updaters : RunUpdate(u) \/ StartUpdate(u) \/ RunCheck(u) \/ Step(u) \/ Faulty(u)
  \/ StampExpires \/ ServiceRestarts \/ PowerLoss

(* An updater that is not killed goes on: each of its waits has a deadline. *)
Spec == Init /\ [][Next]_vars /\ \A u \in Updaters : WF_vars(Step(u))

----------------------------------------------------------------------------
(* Properties.                                                              *)

(* The binary that is installed, or that a power loss would leave, is a     *)
(* complete one of a release that was verified and probed, whatever is      *)
(* killed or fails and whenever; save for a copy that keep_previous made in *)
(* place of a hard link, which is not synced and which a race may take.     *)
TargetSound ==
  \A n \in tdur : /\ files[n] \notin Refused
                  /\ files[n] = Partial => n \in copied /\ (overlap \/ unrepaired)

(* An updater that ran alone and did not install its release leaves the     *)
(* binary it found, and the service running it, unless its process was cut  *)
(* short or the way back itself failed (install_candidate, roll_back).      *)
FailedUpdateRestores ==
  [][\A u \in Updaters :
       /\ Running(u) /\ proc[u].kind \notin Checks /\ proc'[u] = Idle
       /\ ~overlap' /\ ~unrepaired'
       => \/ Version(target)' = Current(u) /\ service' \in {0, target'}
          \/ Version(target)' = proc[u].cand /\ (managed => Serving)]_vars

(* The cached offer of `detent update --check` is never the release that is *)
(* installed, while no check was crossed by an install and no install was   *)
(* cut short before clear_stamp, or could not remove the file.              *)
OfferIsNews ==
  ~overlap /\ ~unrepaired /\ (\A u \in Updaters : ~Running(u)) => stamp # Version(target)

(* A host whose service runs a release that does not answer gets back one   *)
(* that does.                                                               *)
ServiceRestored ==
  (service # 0 /\ Version(service) \in Sick) ~> (Serving \/ overlap \/ unrepaired)
=============================================================================
