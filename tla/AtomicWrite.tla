---------------------------- MODULE AtomicWrite ----------------------------
(***************************************************************************)
(* The write protocol of crates/detent-platform/src/fs/atomic.rs for one   *)
(* target file, one system call per step: backup, rotation, temp file and  *)
(* rename, or the in-place fallback under its write-in-progress marker;    *)
(* and the start-up recovery of that marker (recover_in_place of           *)
(* crates/detent-platform/src/privsep/monitor.rs).                         *)
(*                                                                         *)
(* Between any two steps the process may die (Crash), the machine may lose *)
(* power (PowerLoss: whatever no fsync covered comes back in any of the    *)
(* forms the disk may hold), and any step may fail (IoError).  An          *)
(* administrator may edit the file with other tools (Edit).                *)
(***************************************************************************)
EXTENDS Naturals, FiniteSets

CONSTANTS
  Content,        \* whole contents of the target; a digest identifies one
  Absent,         \* the target does not exist
  Torn,           \* the target holds an empty or partial write
  Scrap,          \* a backup file holding partial contents
  None,           \* no backup, no expected digest, no marker
  Partial,        \* a marker file that was created and is not yet written
  Stamp,          \* backup names, ordered as their timestamps sort
  KeepBackups,    \* keep_backups of the caller, from the configuration
  DefaultKeep,    \* DEFAULT_KEEP_BACKUPS, used by every restore
  Faults,         \* which of "crash", "power" and "io" may happen
  MaxFaults,      \* bound: how many of them
  MaxEdits,       \* bound: edits by other tools
  ClockStepsBack, \* TRUE: a new backup's name need not sort last
  EditsMidWrite,  \* TRUE: an edit may fall between two steps of a write
  ListChanges     \* TRUE: the allow-list may lose the target between starts

ASSUME ConstantsAssumption ==
  /\ Stamp \subseteq Nat /\ IsFiniteSet(Stamp)
  /\ KeepBackups \in Nat /\ DefaultKeep \in Nat \ {0}
  /\ Faults \subseteq {"crash", "power", "io"}
  /\ MaxFaults \in Nat /\ MaxEdits \in Nat
  /\ ClockStepsBack \in BOOLEAN /\ EditsMidWrite \in BOOLEAN
  /\ ListChanges \in BOOLEAN

ASSUME SentinelsAssumption ==
  /\ {Absent, Torn, Scrap, None, Partial} \cap Content = {}
  /\ Absent # Torn /\ Absent # Scrap /\ Torn # Scrap
  /\ None \notin {Absent, Torn, Scrap} /\ None \notin Stamp
  /\ Partial # None

VARIABLES
  target,      \* what a reader of the target sees
  targetDisk,  \* what it may hold after a power loss
  temp,        \* the writer's temp file: None, Torn or its contents
  tempDisk,    \* what the temp file may hold after a power loss
  backups,     \* the backup directory: name -> contents, None when unused
  mark,        \* write-in-progress.json: None, Partial or a Marker
  markDisk,    \* what the marker may be after a power loss
  pc,          \* the writer's next step; "down" when no monitor runs
  w,           \* the write in progress
  roDir,       \* the target's directory refuses a temp file
  faults, edits

vars == <<target, targetDisk, temp, tempDisk, backups, mark, markDisk,
          pc, w, roDir, faults, edits>>

----------------------------------------------------------------------------
Bytes == Content \cup {Scrap}               \* what a caller can ask to write
FileState == Bytes \cup {Absent, Torn}

(* InPlaceMarker: the backup taken, the previous and the new digest.        *)
Marker == [backup : Stamp, prev : Bytes \cup {Torn}, new : Bytes]

ASSUME MarkerAssumption == None \notin Marker /\ Partial \notin Marker

(* WriteRequest, and what write_atomic has learnt so far: the contents it   *)
(* read (found), whether the path still names that inode (same), the backup *)
(* it took; recovering: the restore of recover_in_place; ok: the result.    *)
Request == [new : Bytes, expected : Bytes \cup {Torn, None},
            mode : {"Never", "Marker", "Guarded"}, keep : Nat,
            found : FileState, same : BOOLEAN, backup : Stamp \cup {None},
            recovering : BOOLEAN, ok : BOOLEAN]

NewWrite(new, expected, mode, keep, recovering) ==
  [new |-> new, expected |-> expected, mode |-> mode, keep |-> keep,
   found |-> Absent, same |-> TRUE, backup |-> None,
   recovering |-> recovering, ok |-> TRUE]

NoWrite == NewWrite(Scrap, None, "Never", 0, FALSE)

Steps == {"read", "backup", "bkWrite", "rotate", "temp", "fill", "tempSync",
          "rename", "dirSync", "markCreate", "markWrite", "markSync", "open",
          "check", "inWrite", "inSync", "unmark", "unmarkSync"}

TypeOK ==
  /\ target \in FileState /\ targetDisk \subseteq FileState
  /\ temp \in Bytes \cup {Torn, None} /\ tempDisk \subseteq Bytes \cup {Torn, None}
  /\ backups \in [Stamp -> Bytes \cup {None}]
  /\ mark \in Marker \cup {None, Partial}
  /\ markDisk \subseteq Marker \cup {None, Partial}
  /\ pc \in Steps \cup {"down", "recover", "idle"}
  /\ w \in Request
  /\ roDir \in BOOLEAN
  /\ faults \in 0 .. MaxFaults /\ edits \in 0 .. MaxEdits

Init ==
  /\ target \in Content \cup {Absent} /\ targetDisk = {target}
  /\ temp = None /\ tempDisk = {None}
  /\ backups = [s \in Stamp |-> None]
  /\ mark = None /\ markDisk = {None}
  /\ pc = "down" /\ w = NoWrite /\ roDir = FALSE
  /\ faults = 0 /\ edits = 0

----------------------------------------------------------------------------
(* Callers.  One write runs at a time: the monitor answers one request      *)
(* after the other.                                                         *)

(* create_exclusive of write_backup: an unused name made from the wall      *)
(* clock.  A clock that never steps back gives names after every one in     *)
(* use, of which the first stands for all.                                  *)
Unused(s) ==
  /\ backups[s] = None
  /\ ClockStepsBack \/ \A u \in Stamp : backups[u] # None => u < s

FreshStamp(s) ==
  Unused(s) /\ (ClockStepsBack \/ \A u \in Stamp : u < s => ~Unused(u))

(* Bound: a write begins only while the finite set of names still holds one *)
(* for it, one for the recovery of a standing marker and one for each       *)
(* recovery the remaining faults and edits may call for.                    *)
Room ==
  Cardinality({s \in Stamp : Unused(s)}) > 1 + (MaxFaults - faults) + (MaxEdits - edits)

Begin(new, expected, mode, keep) ==
  /\ pc = "idle" /\ Room
  /\ pc' = "read" /\ w' = NewWrite(new, expected, mode, keep, FALSE)
  /\ UNCHANGED <<target, targetDisk, temp, tempDisk, backups, mark, markDisk,
                 roDir, faults, edits>>

(* A write of new contents, with the monitor's marker or (for the worker's  *)
(* own files) without.                                                      *)
Write ==
  \E c \in Content, e \in Content \cup {Torn, None}, m \in {"Never", "Marker"} :
    Begin(c, e, m, KeepBackups)

(* restore_backup_with: the contents of one backup, read before anything is *)
(* written; the request keeps DEFAULT_KEEP_BACKUPS.                         *)
Restore ==
  \E s \in Stamp, e \in Content \cup {None} :
    /\ backups[s] # None
    /\ Begin(backups[s], e, "Marker", DefaultKeep)

(* An administrator's editor, in place or by renaming a new file over it.   *)
Edit ==
  /\ edits < MaxEdits
  /\ pc \in {"down", "idle"} \/ (EditsMidWrite /\ pc \notin {"check", "inWrite", "inSync"})
  /\ \E c \in Content, sameInode \in BOOLEAN :
       /\ target' = c /\ targetDisk' = {c}
       /\ w' = IF pc \in Steps THEN [w EXCEPT !.same = @ /\ sameInode] ELSE w
  /\ edits' = edits + 1
  /\ UNCHANGED <<temp, tempDisk, backups, mark, markDisk, pc, roDir, faults>>

----------------------------------------------------------------------------
(* write_atomic.                                                            *)

(* The write is over; a failed restore of recover_in_place leaves the       *)
(* marker and the monitor serves on (InPlaceOutcome::Failed).               *)
Over == pc' = "idle" /\ w' = NoWrite

(* read_existing, and the expected_prev check: on a mismatch nothing is     *)
(* written (AtomicError::Conflict).                                         *)
Read ==
  /\ pc = "read"
  /\ IF w.expected # None /\ w.expected # target
       THEN Over
       ELSE pc' = "backup" /\ w' = [w EXCEPT !.found = target]
  /\ UNCHANGED <<target, targetDisk, temp, tempDisk, backups, mark, markDisk,
                 roDir, faults, edits>>

BackupCreate ==
  /\ pc = "backup"
  /\ IF w.found # Absent /\ w.keep > 0
       THEN \E s \in Stamp :
              /\ FreshStamp(s)
              /\ backups' = [backups EXCEPT ![s] = Scrap]
              /\ pc' = "bkWrite" /\ w' = [w EXCEPT !.backup = s]
       ELSE pc' = "temp" /\ UNCHANGED <<backups, w>>
  /\ UNCHANGED <<target, targetDisk, temp, tempDisk, mark, markDisk, roDir,
                 faults, edits>>

(* A backup of torn contents is itself partial.                             *)
BackupOf(found) == IF found = Torn THEN Scrap ELSE found

BackupWrite ==
  /\ pc = "bkWrite"
  /\ backups' = [backups EXCEPT ![w.backup] = BackupOf(w.found)]
  /\ pc' = "rotate"
  /\ UNCHANGED <<target, targetDisk, temp, tempDisk, mark, markDisk, w, roDir,
                 faults, edits>>

(* Mutants of Kept: by name only, and one backup too few.                   *)
Kept_ByName(s) ==
  Cardinality({u \in Stamp : backups[u] # None /\ u > s}) < w.keep

Kept_OneFewer(s) ==
  LET used   == {u \in Stamp : backups[u] # None}
      others == used \ {w.backup}
  IN  s = w.backup \/ Cardinality({u \in others : u > s}) < w.keep - 2

(* rotate_backups: keep the backup just written, by its path, and the       *)
(* keep - 1 others whose names sort last.                                   *)
Kept(s) ==
  LET used   == {u \in Stamp : backups[u] # None}
      others == used \ {w.backup}
  IN  \/ Cardinality(used) <= w.keep
      \/ s = w.backup
      \/ Cardinality({u \in others : u > s}) < w.keep - 1

Rotate ==
  /\ pc = "rotate"
  /\ backups' = [s \in Stamp |-> IF Kept(s) THEN backups[s] ELSE None]
  /\ pc' = "temp"
  /\ UNCHANGED <<target, targetDisk, temp, tempDisk, mark, markDisk, w, roDir,
                 faults, edits>>

(* Mutant of TempCreate: a missing target, too, is written in place.        *)
TempCreate_Missing ==
  /\ pc = "temp"
  /\ \/ ~roDir /\ temp' = Torn /\ tempDisk' = {None, Torn} /\ pc' = "fill"
     \/ roDir /\ pc' = "markCreate" /\ UNCHANGED <<temp, tempDisk>>
  /\ UNCHANGED <<target, targetDisk, backups, mark, markDisk, w, roDir, faults, edits>>

(* create_exclusive of replace_contents; when the directory refuses the     *)
(* temp file, an existing target may be written in place.                   *)
TempCreate ==
  /\ pc = "temp"
  /\ \/ /\ ~roDir
        /\ temp' = Torn /\ tempDisk' = {None, Torn}
        /\ pc' = "fill" /\ UNCHANGED w
     \/ /\ roDir /\ UNCHANGED <<temp, tempDisk>>
        /\ \/ /\ w.found # Absent /\ w.mode = "Marker" /\ w.backup # None
              /\ pc' = "markCreate" /\ UNCHANGED w
           \/ /\ w.found # Absent /\ w.mode = "Guarded"
              /\ pc' = "open" /\ UNCHANGED w
           \/ /\ \/ w.found = Absent
                 \/ w.mode = "Never"
                 \/ w.mode = "Marker" /\ w.backup = None
              /\ Over
  /\ UNCHANGED <<target, targetDisk, backups, mark, markDisk, roDir, faults, edits>>

Fill ==
  /\ pc = "fill"
  /\ temp' = w.new /\ tempDisk' = {None, Torn, w.new} /\ pc' = "tempSync"
  /\ UNCHANGED <<target, targetDisk, backups, mark, markDisk, w, roDir, faults, edits>>

TempSync ==
  /\ pc = "tempSync"
  /\ tempDisk' = {temp} /\ pc' = "rename"
  /\ UNCHANGED <<target, targetDisk, temp, backups, mark, markDisk, w, roDir,
                 faults, edits>>

(* renameat: until the directory is synced, the disk may hold the old file  *)
(* or whatever of the new one is on it.                                     *)
Rename ==
  /\ pc = "rename"
  /\ target' = temp /\ targetDisk' = targetDisk \cup tempDisk
  /\ temp' = None /\ tempDisk' = {None} /\ pc' = "dirSync"
  /\ UNCHANGED <<backups, mark, markDisk, w, roDir, faults, edits>>

(* A write by rename is done; the restore of recover_in_place then removes  *)
(* its marker.                                                              *)
AfterReplace == IF w.recovering THEN pc' = "unmark" /\ UNCHANGED w ELSE Over

(* Mutant of DirSync: the directory is not synced.                          *)
DirSync_None ==
  /\ pc = "dirSync"
  /\ AfterReplace
  /\ UNCHANGED <<target, targetDisk, temp, tempDisk, backups, mark, markDisk, roDir,
                 faults, edits>>

DirSync ==
  /\ pc = "dirSync"
  /\ targetDisk' = {target}
  /\ AfterReplace
  /\ UNCHANGED <<target, temp, tempDisk, backups, mark, markDisk, roDir, faults, edits>>

----------------------------------------------------------------------------
(* The in-place fallback.                                                   *)

(* write_marker: O_EXCL, so a marker left by an earlier write refuses.      *)
MarkCreate ==
  /\ pc = "markCreate"
  /\ \/ /\ mark = None
        /\ mark' = Partial /\ markDisk' = markDisk \cup {Partial}
        /\ pc' = "markWrite" /\ UNCHANGED w
     \/ /\ mark # None
        /\ Over /\ UNCHANGED <<mark, markDisk>>
  /\ UNCHANGED <<target, targetDisk, temp, tempDisk, backups, roDir, faults, edits>>

MarkWrite ==
  /\ pc = "markWrite"
  /\ mark' = [backup |-> w.backup, prev |-> w.found, new |-> w.new]
  /\ markDisk' = markDisk \cup {mark'} /\ pc' = "markSync"
  /\ UNCHANGED <<target, targetDisk, temp, tempDisk, backups, w, roDir, faults, edits>>

MarkSync ==
  /\ pc = "markSync"
  /\ markDisk' = {mark} /\ pc' = "open"
  /\ UNCHANGED <<target, targetDisk, temp, tempDisk, backups, mark, w, roDir,
                 faults, edits>>

(* write_in_place: the open truncates whatever file the path names now.     *)
Open ==
  /\ pc = "open"
  /\ target' = Torn /\ targetDisk' = targetDisk \cup {Torn} /\ pc' = "check"
  /\ UNCHANGED <<temp, tempDisk, backups, mark, markDisk, w, roDir, faults, edits>>

(* The inode check comes after it: another inode ends the write, with the   *)
(* marker left for recovery.                                                *)
Check ==
  /\ pc = "check"
  /\ IF w.same THEN pc' = "inWrite" /\ UNCHANGED w ELSE Over
  /\ UNCHANGED <<target, targetDisk, temp, tempDisk, backups, mark, markDisk,
                 roDir, faults, edits>>

InWrite ==
  /\ pc = "inWrite"
  /\ target' = w.new /\ targetDisk' = targetDisk \cup {w.new} /\ pc' = "inSync"
  /\ UNCHANGED <<temp, tempDisk, backups, mark, markDisk, w, roDir, faults, edits>>

InSync ==
  /\ pc = "inSync"
  /\ targetDisk' = {target} /\ pc' = "unmark"
  /\ UNCHANGED <<target, temp, tempDisk, backups, mark, markDisk, w, roDir,
                 faults, edits>>

(* remove_marker: unlink, then sync the directory.                          *)
Unmark ==
  /\ pc = "unmark"
  /\ mark' = None /\ markDisk' = markDisk \cup {None} /\ pc' = "unmarkSync"
  /\ UNCHANGED <<target, targetDisk, temp, tempDisk, backups, w, roDir, faults, edits>>

UnmarkSync ==
  /\ pc = "unmarkSync"
  /\ markDisk' = {mark} /\ Over
  /\ UNCHANGED <<target, targetDisk, temp, tempDisk, backups, mark, roDir,
                 faults, edits>>

----------------------------------------------------------------------------
(* Starting and stopping.                                                   *)

(* A monitor starts: under the packaged unit the directory is read-only,    *)
(* for a one-shot command it is not.                                        *)
Start ==
  /\ pc = "down"
  /\ pc' = "recover" /\ roDir' \in BOOLEAN
  /\ UNCHANGED <<target, targetDisk, temp, tempDisk, backups, mark, markDisk, w,
                 faults, edits>>

Stop ==
  /\ pc = "idle"
  /\ pc' = "down"
  /\ UNCHANGED <<target, targetDisk, temp, tempDisk, backups, mark, markDisk, w,
                 roDir, faults, edits>>

(* recover_in_place.  A marker whose target is whole is removed; any other  *)
(* contents are replaced by the backup, guarded by the marker itself; a     *)
(* backup that is gone leaves everything as it is (InPlaceOutcome::Failed); *)
(* an unreadable marker stops the start (MonitorError::CorruptMarker); a    *)
(* marker for a target no longer in the allow-list is only removed          *)
(* (InPlaceOutcome::Refused).                                               *)
Whole == mark \in Marker /\ target \in {mark.new, mark.prev}

(* Mutant of Recover: torn contents are reported and not restored.          *)
Recover_OnlyReports ==
  /\ pc = "recover"
  /\ \/ mark = None /\ pc' = "idle" /\ UNCHANGED w
     \/ mark = Partial /\ pc' = "down" /\ UNCHANGED w
     \/ Whole /\ pc' = "unmark" /\ w' = NewWrite(Scrap, None, "Never", 0, TRUE)
     \/ mark \in Marker /\ ~Whole /\ Over
  /\ UNCHANGED <<target, targetDisk, temp, tempDisk, backups, mark, markDisk,
                 roDir, faults, edits>>

Recover ==
  /\ pc = "recover"
  /\ \/ mark = None /\ pc' = "idle" /\ UNCHANGED w
     \/ mark = Partial /\ pc' = "down" /\ UNCHANGED w
     \/ /\ Whole \/ (mark \in Marker /\ ListChanges)
        /\ pc' = "unmark" /\ w' = NewWrite(Scrap, None, "Never", 0, TRUE)
     \/ /\ mark \in Marker /\ ~Whole
        /\ IF backups[mark.backup] = None
             THEN Over
             ELSE /\ pc' = "read"
                  /\ w' = NewWrite(backups[mark.backup], None, "Guarded",
                                   DefaultKeep, TRUE)
  /\ UNCHANGED <<target, targetDisk, temp, tempDisk, backups, mark, markDisk,
                 roDir, faults, edits>>

----------------------------------------------------------------------------
(* What can go wrong.                                                       *)

(* Mutant of IoError: every failed in-place write removes its marker.       *)
IoError_Unmarks ==
  /\ "io" \in Faults /\ pc \in Steps /\ faults < MaxFaults
  /\ faults' = faults + 1
  /\ temp' = None /\ tempDisk' = {None}
  /\ IF pc \in {"open", "check", "inWrite", "inSync"}
       THEN pc' = "unmark" /\ w' = [w EXCEPT !.ok = FALSE]
       ELSE Over
  /\ UNCHANGED <<target, targetDisk, backups, mark, markDisk, roDir, edits>>

(* The backup directory after a failed step: TempGuard unlinks a backup     *)
(* that was not finished, not one whose directory failed to sync; rotation  *)
(* had removed some of the excess, the last names first.                    *)
BackupsLeft ==
  CASE pc = "bkWrite" -> {[backups EXCEPT ![w.backup] = v] : v \in {None, BackupOf(w.found)}}
    [] pc = "rotate" -> {[u \in Stamp |-> IF ~Kept(u) /\ u > s THEN None ELSE backups[u]] :
                           s \in Stamp \cup {0}}
    [] OTHER -> {backups}

(* A system call fails.  The temp file is unlinked; a marker that was       *)
(* created stays; an open of the target that fails has truncated nothing,   *)
(* so its marker is removed; a marker that cannot be removed ends a start   *)
(* (MonitorError::State).                                                   *)
IoError ==
  /\ "io" \in Faults /\ pc \in Steps /\ faults < MaxFaults
  /\ faults' = faults + 1
  /\ temp' = None /\ tempDisk' = {None}
  /\ backups' \in BackupsLeft
  /\ \/ /\ pc = "open" /\ w.mode = "Marker"
        /\ pc' = "unmark" /\ w' = [w EXCEPT !.ok = FALSE]
     \/ /\ pc \in {"unmark", "unmarkSync"} /\ w.recovering
        /\ pc' = "down" /\ w' = NoWrite
     \/ /\ ~(pc = "open" /\ w.mode = "Marker")
        /\ ~(pc \in {"unmark", "unmarkSync"} /\ w.recovering)
        /\ Over
  /\ UNCHANGED <<target, targetDisk, mark, markDisk, roDir, edits>>

(* The monitor is killed; the files stay as a reader sees them.             *)
Crash ==
  /\ "crash" \in Faults /\ pc # "down" /\ faults < MaxFaults
  /\ faults' = faults + 1
  /\ temp' = None /\ tempDisk' = {None} /\ pc' = "down" /\ w' = NoWrite
  /\ UNCHANGED <<target, targetDisk, backups, mark, markDisk, roDir, edits>>

(* The machine loses power; what no fsync covered is lost or partial.       *)
PowerLoss ==
  /\ "power" \in Faults /\ faults < MaxFaults
  /\ faults' = faults + 1
  /\ target' \in targetDisk /\ targetDisk' = {target'}
  /\ mark' \in markDisk /\ markDisk' = {mark'}
  /\ IF pc = "bkWrite"
       THEN \E v \in {None, Scrap, BackupOf(w.found)} :
              backups' = [backups EXCEPT ![w.backup] = v]
       ELSE backups' = backups
  /\ temp' = None /\ tempDisk' = {None} /\ pc' = "down" /\ w' = NoWrite
  /\ UNCHANGED <<roDir, edits>>

----------------------------------------------------------------------------
Protocol ==
  \/ Read \/ BackupCreate \/ BackupWrite \/ Rotate \/ TempCreate \/ Fill
  \/ TempSync \/ Rename \/ DirSync \/ MarkCreate \/ MarkWrite \/ MarkSync
  \/ Open \/ Check \/ InWrite \/ InSync \/ Unmark \/ UnmarkSync

Next ==
  \/ Protocol \/ Start \/ Recover
  \/ Write \/ Restore \/ Edit \/ Stop
  \/ IoError \/ Crash \/ PowerLoss

(* The service manager starts the monitor again, and a running monitor      *)
(* takes its next step; callers, editors and faults owe nothing.            *)
Fairness == WF_vars(Protocol) /\ WF_vars(Start) /\ WF_vars(Recover)

Spec == Init /\ [][Next]_vars /\ Fairness

----------------------------------------------------------------------------
(* Properties.                                                              *)

(* The in-place marker covers every torn state: whenever the target is      *)
(* empty or partial, a complete marker stands for the next start to find    *)
(* (write_marker is synced before write_in_place truncates, and is removed  *)
(* only after the new contents are synced).                                 *)
TornCovered == target = Torn => mark \in Marker

(* ... and the backup which that marker names still holds the previous      *)
(* contents, so that start can put them back (rotate_backups must not       *)
(* remove it while the marker stands).                                      *)
TornRestorable ==
  target = Torn =>
    mark \in Marker /\ backups[mark.backup] = BackupOf(mark.prev)

(* A write that is answered with success is on the disk: the target holds   *)
(* the requested contents, and a power loss cannot take them back           *)
(* (replace_contents syncs the file and its directory, write_in_place the   *)
(* file, before write_atomic returns Ok).                                   *)
Answered == w.ok /\ ~w.recovering /\ (DirSync \/ UnmarkSync)
AckIsDurable ==
  [][Answered => target' = w.new /\ targetDisk' = {w.new}]_vars

(* No write destroys contents that have no copy: when a caller that keeps   *)
(* backups replaces or truncates the target as it was read, some backup     *)
(* holds those contents (write_backup comes first and rotate_backups keeps  *)
(* the new file by path, whatever the clock says).                          *)
BackedUp ==
  [][(Rename \/ Open) /\ w.keep > 0 /\ target \in Content /\ target = w.found
       => \E s \in Stamp : backups[s] = target]_vars

(* A start with a working disk repairs a torn target: once no more faults   *)
(* come, a stopped monitor's torn target whose backup is still there is     *)
(* whole again after the restart (recover_in_place).                        *)
Repairable == target = Torn /\ mark \in Marker /\ backups[mark.backup] # None
TornIsRepaired ==
  (pc = "down" /\ Repairable /\ faults = MaxFaults) ~> target # Torn
=============================================================================
