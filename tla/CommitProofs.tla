---------------------------- MODULE CommitProofs ----------------------------
(***************************************************************************)
(* Commit-confirm, from the monitor's marker to the operation that opened  *)
(* the window: what holds of the monitor for any worker, and of the        *)
(* operations engine that drives it, for any targets, contents, commits,   *)
(* timeouts and backup limits, and any number of kills, failing calls and  *)
(* edits.  A theorem that excludes a kind of fault says so.                *)
(***************************************************************************)
EXTENDS OpsEngine, FiniteSetTheorems, SequenceTheorems, TLAPS

(* What the monitor has in memory mirrors the marker on disk: an armed      *)
(* commit while it serves, the commit it closes while it closes it, nothing *)
(* otherwise.                                                               *)
Closing == RollbackPhases \cup {"commit"}

MirrorInv ==
  /\ pending # None => marker = pending /\ phase \in {"idle", "enforce", "mounting"}
  /\ phase \in {"idle", "enforce", "mounting"} /\ pending = None => marker = None
  /\ phase \in Closing => job.commit \in Commit /\ marker = ArmedOf(job)
  /\ phase = "arm" => /\ job.commit \in Commit /\ marker = Corrupt
                      /\ fate[job.commit] = "unarmed"

IInv == TypeOK /\ MirrorInv /\ ArmedIsMarked

----------------------------------------------------------------------------
(* What a step leaves alone keeps its type.                                 *)
LEMMA FileKept == ASSUME FileTypes, UNCHANGED fileVars PROVE FileTypes'
  BY DEF FileTypes, fileVars

(* The same for the commit's state.                                         *)
LEMMA CommitKept == ASSUME CommitTypes, UNCHANGED commitVars PROVE CommitTypes'
  BY DEF CommitTypes, commitVars

(* The same for the hooks' state.                                           *)
LEMMA HookKept == ASSUME HookTypes, UNCHANGED hookVars PROVE HookTypes'
  BY DEF HookTypes, hookVars

(* A failing step stays within the bound on faults.                         *)
LEMMA FailingType ==
  ASSUME faults \in 0 .. MaxFaults, NEW kind, Failing(kind)
  PROVE  faults' \in 0 .. MaxFaults
  BY ConstantsAssumption DEF Failing

(* The records of nothing: no commit, no entries, no time left.             *)
LEMMA NoneMade == NoJob \in Job /\ <<>> \in Seq(Entry) /\ 0 \in 0 .. MaxTimeout
<1>1. <<>> \in Seq(Entry)
  OBVIOUS
<1>2. 0 \in 0 .. MaxTimeout
  BY ConstantsAssumption
<1> QED
  BY <1>1, <1>2 DEF NoJob, Job, Causes

(* The parts of a commit being closed.                                      *)
LEMMA JobParts ==
  ASSUME NEW j \in Job
  PROVE  j.entries \in Seq(Entry) /\ j.service \in Target \cup {None}
  BY DEF Job

(* An armed commit, taken to be closed.                                     *)
LEMMA JobMade ==
  ASSUME NEW armed \in Armed, NEW why \in Causes PROVE JobOf(armed, why) \in Job
<1>1. /\ armed.commit \in Commit /\ armed.entries \in Seq(Entry)
      /\ armed.service \in Target \cup {None}
  BY DEF Armed
<1> QED
  BY <1>1 DEF JobOf, Job

(* A commit being armed, written to the marker.                             *)
LEMMA ArmedMade ==
  ASSUME NEW j \in Job, j.commit \in Commit PROVE ArmedOf(j) \in Armed
  BY JobParts DEF ArmedOf, Armed

(* Rotation keeps a directory of backups one.                               *)
LEMMA RotatedType ==
  ASSUME NEW bk \in [Stamp -> Backup \cup {None}], NEW t \in Target, NEW keep \in Nat
  PROVE  Rotated(bk, t, keep) \in [Stamp -> Backup \cup {None}]
  BY DEF Rotated

(* A backup takes the next name, of a file that was there.                  *)
LEMMA TakeBackupType ==
  ASSUME FileTypes, NEW t \in Target, NEW keep \in Nat, TakeBackup(t, keep)
  PROVE  /\ backups' \in [Stamp -> Backup \cup {None}] /\ stamp' \in 0 .. MaxStamp
         /\ BackupTaken(t, keep) => stamp + 1 \in Stamp /\ file[t] \in Content \cup {Torn}
<1>0. MaxStamp \in Nat
  BY ConstantsAssumption
<1>1. CASE BackupTaken(t, keep)
  <2>1. stamp \in 0 .. MaxStamp /\ stamp < MaxStamp /\ stamp' = stamp + 1
    BY <1>1 DEF FileTypes, TakeBackup, BackupTaken
  <2>2. stamp + 1 \in Stamp /\ stamp' \in 0 .. MaxStamp
    BY <1>0, <2>1 DEF Stamp
  <2>3. file[t] \in Content \cup {Torn}
    BY <1>1 DEF FileTypes, FileState, BackupTaken
  <2>4. [backups EXCEPT ![stamp + 1] = [target |-> t, contents |-> file[t]]]
          \in [Stamp -> Backup \cup {None}]
    BY <2>2, <2>3 DEF FileTypes, Backup
  <2>5. backups' = Rotated([backups EXCEPT ![stamp + 1] =
                              [target |-> t, contents |-> file[t]]], t, keep)
    BY <1>1 DEF TakeBackup, BackupTaken
  <2> QED
    BY <2>2, <2>3, <2>4, <2>5, RotatedType
<1>2. CASE ~BackupTaken(t, keep)
  BY <1>2 DEF FileTypes, TakeBackup, BackupTaken
<1> QED
  BY <1>1, <1>2

(* A write leaves the files well formed, whatever its outcome.              *)
LEMMA WriteAtomicType ==
  ASSUME FileTypes, faults \in 0 .. MaxFaults, NEW t \in Target,
         NEW c \in Content \cup {Torn}, NEW keep \in Nat, NEW out,
         WriteAtomic(t, c, keep, out)
  PROVE  FileTypes' /\ faults' \in 0 .. MaxFaults
<1>1. faults' \in 0 .. MaxFaults
  <2>1. UNCHANGED faults \/ Failing("io")
    BY DEF WriteAtomic, Replace
  <2> QED
    BY <2>1, FailingType
<1>2. CASE TakeBackup(t, keep) /\ Replace(t, c, keep, out)
  <2>1. /\ backups' \in [Stamp -> Backup \cup {None}] /\ stamp' \in 0 .. MaxStamp
        /\ BackupTaken(t, keep) => stamp + 1 \in Stamp /\ file[t] \in Content \cup {Torn}
    BY <1>2, TakeBackupType
  <2>2. file' \in [Target -> FileState]
    BY <1>2 DEF FileTypes, Replace, FileState
  <2>3. ipMark' \in InPlaceMarker \cup {None}
    <3>1. CASE InPlace /\ CanReplace(t, keep) /\ ipMark' = InPlaceMark(t, c)
      <4>1. BackupTaken(t, keep)
        BY <3>1 DEF CanReplace
      <4> QED
        BY <2>1, <3>1, <4>1 DEF InPlaceMarker, InPlaceMark
    <3>2. CASE ipMark' = ipMark
      BY <3>2 DEF FileTypes
    <3> QED
      BY <1>2, <3>1, <3>2 DEF Replace, MayMark
  <2> QED
    BY <1>1, <2>1, <2>2, <2>3 DEF FileTypes
<1>3. CASE UNCHANGED fileVars
  BY <1>1, <1>3, FileKept
<1> QED
  BY <1>2, <1>3 DEF WriteAtomic

----------------------------------------------------------------------------
(* Every step keeps the types.                                              *)
LEMMA TypeStep == ASSUME TypeOK, MirrorInv, [Next]_vars PROVE TypeOK'
<1>0. FileTypes /\ CommitTypes /\ HookTypes /\ ControlTypes
  BY DEF TypeOK
<1>1. CASE Hello \/ Ask
  <2>1. FileTypes'
    BY <1>0, <1>1, FileKept DEF Hello, Ask, Served, fileVars
  <2>2. CommitTypes'
    BY <1>0, <1>1, CommitKept DEF Hello, Ask, Served
  <2>3. HookTypes'
    BY <1>0, <1>1, HookKept DEF Hello, Ask, Served, hookVars
  <2>4. ControlTypes'
    BY <1>0, <1>1 DEF ControlTypes, Hello, Ask, Served, Phases, RollbackPhases, bounds
  <2> QED
    BY <2>1, <2>2, <2>3, <2>4 DEF TypeOK
<1>2. ASSUME NEW t \in Target, NEW out \in Outcomes, Service(t, out) PROVE TypeOK'
  <2>1. FileTypes'
    BY <1>0, <1>2, FileKept DEF Service, Served, fileVars
  <2>2. CommitTypes'
    BY <1>0, <1>2, CommitKept DEF Service, Served
  <2>3. HookTypes'
    BY <1>0, <1>2 DEF HookTypes, Service, FileTypes, RunsWith, Served
  <2>4. UNCHANGED faults \/ \E kind \in {"crash", "power", "io", "hook"} : Failing(kind)
    BY <1>2 DEF Service, Served
  <2>5. faults' \in 0 .. MaxFaults
    BY <1>0, <2>4, FailingType DEF ControlTypes
  <2>6. ControlTypes'
    BY <1>0, <1>2, <2>5 DEF ControlTypes, Service, Served, Phases, RollbackPhases
  <2> QED
    BY <2>1, <2>2, <2>3, <2>6 DEF TypeOK
<1>3. ASSUME NEW t \in Target, NEW out \in Outcomes, ReloadUnitFiles(t, out) PROVE TypeOK'
  <2>1. FileTypes'
    BY <1>0, <1>3, FileKept DEF ReloadUnitFiles, Served, fileVars
  <2>2. CommitTypes'
    BY <1>0, <1>3, CommitKept DEF ReloadUnitFiles, Served
  <2>3. HookTypes'
    BY <1>0, <1>3 DEF HookTypes, ReloadUnitFiles, FileTypes, Served
  <2>4. UNCHANGED faults \/ \E kind \in {"crash", "power", "io", "hook"} : Failing(kind)
    BY <1>3 DEF ReloadUnitFiles, Served
  <2>5. faults' \in 0 .. MaxFaults
    BY <1>0, <2>4, FailingType DEF ControlTypes
  <2>6. ControlTypes'
    BY <1>0, <1>3, <2>5 DEF ControlTypes, ReloadUnitFiles, Served, Phases, RollbackPhases
  <2> QED
    BY <2>1, <2>2, <2>3, <2>6 DEF TypeOK
<1>4. ASSUME NEW t \in Target, NEW out \in Outcomes, Mount(t, out) PROVE TypeOK'
  <2>1. FileTypes'
    BY <1>0, <1>4, FileKept DEF Mount, Served, fileVars
  <2>2. CommitTypes'
    BY <1>0, <1>4, CommitKept DEF Mount, Served
  <2>3. HookTypes'
    BY <1>0, <1>4 DEF HookTypes, Mount, FileTypes
  <2>4. UNCHANGED faults \/ \E kind \in {"crash", "power", "io", "hook"} : Failing(kind)
    BY <1>4 DEF Mount
  <2>5. faults' \in 0 .. MaxFaults
    BY <1>0, <2>4, FailingType DEF ControlTypes
  <2>6. ControlTypes'
    BY <1>0, <1>4, <2>5 DEF ControlTypes, Mount, Served, Phases, RollbackPhases
  <2> QED
    BY <2>1, <2>2, <2>3, <2>6 DEF TypeOK
<1>5. CASE ArmMarker
  <2>1. FileTypes'
    BY <1>0, <1>5, FileKept DEF ArmMarker, fileVars
  <2>2. CommitTypes'
    <3>1. journal' \in Seq(Entry) /\ todo' \in Seq(Entry)
      BY <1>0, <1>5, NoneMade DEF CommitTypes, ArmMarker
    <3>2. pending' \in Armed \cup {None} /\ left' \in 0 .. MaxTimeout
      BY <1>0, <1>5, NoneMade, ArmedMade DEF CommitTypes, ArmMarker, MirrorInv
    <3>3. marker' \in Armed \cup {None, Corrupt} /\ markerDisk' \subseteq Armed \cup {None, Corrupt}
      BY <1>0, <1>5, ArmedMade DEF CommitTypes, ArmMarker, MirrorInv
    <3>4. job' \in Job
      BY <1>0, <1>5, NoneMade DEF CommitTypes, ArmMarker
    <3>5. fate' \in [Commit -> {"unarmed", "armed", "confirmed", "rolled back"}]
      BY <1>0, <1>5 DEF CommitTypes, ArmMarker, MirrorInv
    <3> QED
      BY <3>1, <3>2, <3>3, <3>4, <3>5 DEF CommitTypes
  <2>3. HookTypes'
    BY <1>0, <1>5, HookKept DEF ArmMarker, hookVars
  <2>4. ControlTypes'
    BY <1>0, <1>5 DEF ControlTypes, ArmMarker, Phases, RollbackPhases, bounds
  <2> QED
    BY <2>1, <2>2, <2>3, <2>4 DEF TypeOK
<1>6. CASE ArmFails
  <2>1. FileTypes'
    BY <1>0, <1>6, FileKept DEF ArmFails, fileVars
  <2>2. CommitTypes'
    <3>1. journal' \in Seq(Entry) /\ todo' \in Seq(Entry)
      BY <1>0, <1>6, NoneMade DEF CommitTypes, ArmFails
    <3>2. pending' \in Armed \cup {None} /\ left' \in 0 .. MaxTimeout
      BY <1>0, <1>6, NoneMade DEF CommitTypes, ArmFails
    <3>3. marker' \in Armed \cup {None, Corrupt} /\ markerDisk' \subseteq Armed \cup {None, Corrupt}
      BY <1>0, <1>6 DEF CommitTypes, ArmFails
    <3>4. job' \in Job
      BY <1>0, <1>6, NoneMade DEF CommitTypes, ArmFails
    <3>5. fate' \in [Commit -> {"unarmed", "armed", "confirmed", "rolled back"}]
      BY <1>0, <1>6 DEF CommitTypes, ArmFails
    <3> QED
      BY <3>1, <3>2, <3>3, <3>4, <3>5 DEF CommitTypes
  <2>3. HookTypes'
    BY <1>0, <1>6, HookKept DEF ArmFails, hookVars
  <2>4. UNCHANGED faults \/ \E kind \in {"crash", "power", "io", "hook"} : Failing(kind)
    BY <1>6 DEF ArmFails
  <2>5. faults' \in 0 .. MaxFaults
    BY <1>0, <2>4, FailingType DEF ControlTypes
  <2>6. ControlTypes'
    BY <1>0, <1>6, <2>5 DEF ControlTypes, ArmFails, Phases, RollbackPhases
  <2> QED
    BY <2>1, <2>2, <2>3, <2>6 DEF TypeOK
<1>7. CASE ConfirmExpired
  <2>1. FileTypes'
    BY <1>0, <1>7, FileKept DEF ConfirmExpired, RollBack, fileVars
  <2>2. CommitTypes'
    <3>1. journal' \in Seq(Entry) /\ todo' \in Seq(Entry)
      BY <1>0, <1>7, NoneMade DEF CommitTypes, ConfirmExpired, RollBack
    <3>2. pending' \in Armed \cup {None} /\ left' \in 0 .. MaxTimeout
      BY <1>0, <1>7, NoneMade DEF CommitTypes, ConfirmExpired, RollBack
    <3>3. marker' \in Armed \cup {None, Corrupt} /\ markerDisk' \subseteq Armed \cup {None, Corrupt}
      BY <1>0, <1>7 DEF CommitTypes, ConfirmExpired, RollBack
    <3>4. job' \in Job
      BY <1>0, <1>7, JobMade DEF CommitTypes, ConfirmExpired, RollBack, Causes
    <3>5. fate' \in [Commit -> {"unarmed", "armed", "confirmed", "rolled back"}]
      BY <1>0, <1>7 DEF CommitTypes, ConfirmExpired, RollBack
    <3> QED
      BY <3>1, <3>2, <3>3, <3>4, <3>5 DEF CommitTypes
  <2>3. HookTypes'
    BY <1>0, <1>7, HookKept DEF ConfirmExpired, RollBack, hookVars
  <2>4. ControlTypes'
    BY <1>0, <1>7 DEF ControlTypes, ConfirmExpired, RollBack, Phases, RollbackPhases, bounds
  <2> QED
    BY <2>1, <2>2, <2>3, <2>4 DEF TypeOK
<1>8. CASE ConfirmCommit
  <2>1. FileTypes'
    BY <1>0, <1>8, FileKept DEF ConfirmCommit, fileVars
  <2>2. CommitTypes'
    <3>1. journal' \in Seq(Entry) /\ todo' \in Seq(Entry)
      BY <1>0, <1>8, NoneMade DEF CommitTypes, ConfirmCommit
    <3>2. pending' \in Armed \cup {None} /\ left' \in 0 .. MaxTimeout
      BY <1>0, <1>8, NoneMade DEF CommitTypes, ConfirmCommit
    <3>3. marker' \in Armed \cup {None, Corrupt} /\ markerDisk' \subseteq Armed \cup {None, Corrupt}
      BY <1>0, <1>8 DEF CommitTypes, ConfirmCommit
    <3>4. job' \in Job
      BY <1>0, <1>8, JobMade DEF CommitTypes, ConfirmCommit, Causes
    <3>5. fate' \in [Commit -> {"unarmed", "armed", "confirmed", "rolled back"}]
      BY <1>0, <1>8 DEF CommitTypes, ConfirmCommit
    <3> QED
      BY <3>1, <3>2, <3>3, <3>4, <3>5 DEF CommitTypes
  <2>3. HookTypes'
    BY <1>0, <1>8 DEF HookTypes, ConfirmCommit, FileTypes
  <2>4. ControlTypes'
    BY <1>0, <1>8, FailingType DEF ControlTypes, ConfirmCommit, Phases, RollbackPhases
  <2> QED
    BY <2>1, <2>2, <2>3, <2>4 DEF TypeOK
<1>9. CASE Committed
  <2>1. FileTypes'
    BY <1>0, <1>9, FileKept DEF Committed, fileVars
  <2>2. CommitTypes'
    <3>1. journal' \in Seq(Entry) /\ todo' \in Seq(Entry)
      BY <1>0, <1>9, NoneMade DEF CommitTypes, Committed
    <3>2. pending' \in Armed \cup {None} /\ left' \in 0 .. MaxTimeout
      BY <1>0, <1>9, NoneMade DEF CommitTypes, Committed
    <3>3. marker' \in Armed \cup {None, Corrupt} /\ markerDisk' \subseteq Armed \cup {None, Corrupt}
      BY <1>0, <1>9 DEF CommitTypes, Committed
    <3>4. job' \in Job
      BY <1>0, <1>9, NoneMade DEF CommitTypes, Committed
    <3>5. fate' \in [Commit -> {"unarmed", "armed", "confirmed", "rolled back"}]
      BY <1>0, <1>9 DEF CommitTypes, Committed
    <3> QED
      BY <3>1, <3>2, <3>3, <3>4, <3>5 DEF CommitTypes
  <2>3. HookTypes'
    BY <1>0, <1>9 DEF HookTypes, Committed, FileTypes
  <2>4. ControlTypes'
    BY <1>0, <1>9 DEF ControlTypes, Committed, Phases, RollbackPhases, bounds
  <2> QED
    BY <2>1, <2>2, <2>3, <2>4 DEF TypeOK
<1>10. CASE RollbackCommit
  <2>1. FileTypes'
    BY <1>0, <1>10, FileKept DEF RollbackCommit, RollBack, fileVars
  <2>2. CommitTypes'
    <3>1. journal' \in Seq(Entry) /\ todo' \in Seq(Entry)
      BY <1>0, <1>10, NoneMade DEF CommitTypes, RollbackCommit, RollBack
    <3>2. pending' \in Armed \cup {None} /\ left' \in 0 .. MaxTimeout
      BY <1>0, <1>10, NoneMade DEF CommitTypes, RollbackCommit, RollBack
    <3>3. marker' \in Armed \cup {None, Corrupt} /\ markerDisk' \subseteq Armed \cup {None, Corrupt}
      BY <1>0, <1>10 DEF CommitTypes, RollbackCommit, RollBack
    <3>4. job' \in Job
      BY <1>0, <1>10, JobMade DEF CommitTypes, RollbackCommit, RollBack, Causes
    <3>5. fate' \in [Commit -> {"unarmed", "armed", "confirmed", "rolled back"}]
      BY <1>0, <1>10 DEF CommitTypes, RollbackCommit, RollBack
    <3> QED
      BY <3>1, <3>2, <3>3, <3>4, <3>5 DEF CommitTypes
  <2>3. HookTypes'
    BY <1>0, <1>10, HookKept DEF RollbackCommit, RollBack, hookVars
  <2>4. ControlTypes'
    BY <1>0, <1>10
    DEF ControlTypes, RollbackCommit, RollBack, Phases, RollbackPhases, bounds
  <2> QED
    BY <2>1, <2>2, <2>3, <2>4 DEF TypeOK
<1>11. CASE Poll
  <2>1. FileTypes'
    BY <1>0, <1>11, FileKept DEF Poll, fileVars
  <2>2. CommitTypes'
    BY <1>0, <1>11, CommitKept DEF Poll
  <2>3. HookTypes'
    BY <1>0, <1>11, HookKept DEF Poll, hookVars
  <2>4. ControlTypes'
    BY <1>0, <1>11 DEF ControlTypes, Poll, Phases, RollbackPhases, bounds
  <2> QED
    BY <2>1, <2>2, <2>3, <2>4 DEF TypeOK
<1>12. CASE EnforceDeadline
  <2>1. FileTypes'
    BY <1>0, <1>12, FileKept DEF EnforceDeadline, RollBack, fileVars
  <2>2. CommitTypes'
    <3>1. journal' \in Seq(Entry) /\ todo' \in Seq(Entry)
      BY <1>0, <1>12, NoneMade DEF CommitTypes, EnforceDeadline, RollBack, commitVars
    <3>2. pending' \in Armed \cup {None} /\ left' \in 0 .. MaxTimeout
      BY <1>0, <1>12, NoneMade DEF CommitTypes, EnforceDeadline, RollBack, commitVars
    <3>3. marker' \in Armed \cup {None, Corrupt} /\ markerDisk' \subseteq Armed \cup {None, Corrupt}
      BY <1>0, <1>12 DEF CommitTypes, EnforceDeadline, RollBack, commitVars
    <3>4. job' \in Job
      BY <1>0, <1>12, JobMade DEF CommitTypes, EnforceDeadline, RollBack, commitVars, Causes
    <3>5. fate' \in [Commit -> {"unarmed", "armed", "confirmed", "rolled back"}]
      BY <1>0, <1>12 DEF CommitTypes, EnforceDeadline, RollBack, commitVars
    <3> QED
      BY <3>1, <3>2, <3>3, <3>4, <3>5 DEF CommitTypes
  <2>3. HookTypes'
    BY <1>0, <1>12, HookKept DEF EnforceDeadline, RollBack, hookVars
  <2>4. ControlTypes'
    BY <1>0, <1>12
    DEF ControlTypes, EnforceDeadline, RollBack, Phases, RollbackPhases, bounds
  <2> QED
    BY <2>1, <2>2, <2>3, <2>4 DEF TypeOK
<1>13. CASE Exit
  <2>1. FileTypes'
    BY <1>0, <1>13, FileKept DEF Exit, RollBack, fileVars
  <2>2. CommitTypes'
    <3>1. journal' \in Seq(Entry) /\ todo' \in Seq(Entry)
      BY <1>0, <1>13, NoneMade DEF CommitTypes, Exit, RollBack
    <3>2. pending' \in Armed \cup {None} /\ left' \in 0 .. MaxTimeout
      BY <1>0, <1>13, NoneMade DEF CommitTypes, Exit, RollBack
    <3>3. marker' \in Armed \cup {None, Corrupt} /\ markerDisk' \subseteq Armed \cup {None, Corrupt}
      BY <1>0, <1>13 DEF CommitTypes, Exit, RollBack
    <3>4. job' \in Job
      BY <1>0, <1>13, JobMade DEF CommitTypes, Exit, RollBack, Causes
    <3>5. fate' \in [Commit -> {"unarmed", "armed", "confirmed", "rolled back"}]
      BY <1>0, <1>13 DEF CommitTypes, Exit, RollBack
    <3> QED
      BY <3>1, <3>2, <3>3, <3>4, <3>5 DEF CommitTypes
  <2>3. HookTypes'
    BY <1>0, <1>13, HookKept DEF Exit, RollBack, hookVars
  <2>4. ControlTypes'
    BY <1>0, <1>13 DEF ControlTypes, Exit, RollBack, Phases, RollbackPhases, bounds
  <2> QED
    BY <2>1, <2>2, <2>3, <2>4 DEF TypeOK
<1>14. ASSUME NEW out \in Outcomes, StopMounts(out) PROVE TypeOK'
  <2>1. FileTypes'
    BY <1>0, <1>14, FileKept DEF StopMounts, fileVars
  <2>2. CommitTypes'
    <3>1. journal' \in Seq(Entry) /\ todo' \in Seq(Entry)
      BY <1>0, <1>14, JobParts DEF CommitTypes, StopMounts
    <3>2. pending' \in Armed \cup {None} /\ left' \in 0 .. MaxTimeout
      BY <1>0, <1>14 DEF CommitTypes, StopMounts
    <3>3. marker' \in Armed \cup {None, Corrupt} /\ markerDisk' \subseteq Armed \cup {None, Corrupt}
      BY <1>0, <1>14 DEF CommitTypes, StopMounts
    <3>4. job' \in Job
      BY <1>0, <1>14 DEF CommitTypes, StopMounts
    <3>5. fate' \in [Commit -> {"unarmed", "armed", "confirmed", "rolled back"}]
      BY <1>0, <1>14 DEF CommitTypes, StopMounts
    <3> QED
      BY <3>1, <3>2, <3>3, <3>4, <3>5 DEF CommitTypes
  <2>3. HookTypes'
    BY <1>0, <1>14 DEF HookTypes, StopMounts, FileTypes
  <2>4. UNCHANGED faults \/ \E kind \in {"crash", "power", "io", "hook"} : Failing(kind)
    BY <1>14 DEF StopMounts
  <2>5. faults' \in 0 .. MaxFaults
    BY <1>0, <2>4, FailingType DEF ControlTypes
  <2>6. ControlTypes'
    BY <1>0, <1>14, <2>5 DEF ControlTypes, StopMounts, Phases, RollbackPhases
  <2> QED
    BY <2>1, <2>2, <2>3, <2>6 DEF TypeOK
<1>15. CASE Restored
  <2>1. FileTypes'
    BY <1>0, <1>15, FileKept DEF Restored, fileVars
  <2>2. CommitTypes'
    BY <1>0, <1>15, CommitKept DEF Restored
  <2>3. HookTypes'
    BY <1>0, <1>15, HookKept DEF Restored, hookVars
  <2>4. ControlTypes'
    BY <1>0, <1>15 DEF ControlTypes, Restored, Phases, RollbackPhases, bounds
  <2> QED
    BY <2>1, <2>2, <2>3, <2>4 DEF TypeOK
<1>16. ASSUME NEW out \in Outcomes, ReplayReload(out) PROVE TypeOK'
  <2>1. FileTypes'
    BY <1>0, <1>16, FileKept DEF ReplayReload, fileVars
  <2>2. CommitTypes'
    BY <1>0, <1>16, CommitKept DEF ReplayReload
  <2>3. HookTypes'
    BY <1>0, <1>16 DEF HookTypes, ReplayReload, FileTypes
  <2>4. UNCHANGED faults \/ \E kind \in {"crash", "power", "io", "hook"} : Failing(kind)
    BY <1>16 DEF ReplayReload
  <2>5. faults' \in 0 .. MaxFaults
    BY <1>0, <2>4, FailingType DEF ControlTypes
  <2>6. ControlTypes'
    BY <1>0, <1>16, <2>5 DEF ControlTypes, ReplayReload, Phases, RollbackPhases
  <2> QED
    BY <2>1, <2>2, <2>3, <2>6 DEF TypeOK
<1>17. ASSUME NEW out \in Outcomes, ReplayService(out) PROVE TypeOK'
  <2>1. FileTypes'
    BY <1>0, <1>17, FileKept DEF ReplayService, fileVars
  <2>2. CommitTypes'
    BY <1>0, <1>17, CommitKept DEF ReplayService
  <2>3. HookTypes'
    <3>1. job.service \in Target => RunsWith(job.service) \in FileState
      BY <1>0 DEF RunsWith, HookTypes, FileTypes
    <3>2. job.service \in Target \cup {None}
      BY <1>0, JobParts DEF CommitTypes
    <3> QED
      BY <1>0, <1>17, <3>1, <3>2 DEF HookTypes, ReplayService
  <2>4. UNCHANGED faults \/ \E kind \in {"crash", "power", "io", "hook"} : Failing(kind)
    BY <1>17 DEF ReplayService
  <2>5. faults' \in 0 .. MaxFaults
    BY <1>0, <2>4, FailingType DEF ControlTypes
  <2>6. ControlTypes'
    BY <1>0, <1>17, <2>5 DEF ControlTypes, ReplayService, Phases, RollbackPhases
  <2> QED
    BY <2>1, <2>2, <2>3, <2>6 DEF TypeOK
<1>18. CASE ClearMarker
  <2>1. FileTypes'
    BY <1>0, <1>18, FileKept DEF ClearMarker, fileVars
  <2>2. CommitTypes'
    <3>1. journal' \in Seq(Entry) /\ todo' \in Seq(Entry)
      BY <1>0, <1>18, NoneMade DEF CommitTypes, ClearMarker
    <3>2. pending' \in Armed \cup {None} /\ left' \in 0 .. MaxTimeout
      BY <1>0, <1>18, NoneMade DEF CommitTypes, ClearMarker
    <3>3. marker' \in Armed \cup {None, Corrupt} /\ markerDisk' \subseteq Armed \cup {None, Corrupt}
      BY <1>0, <1>18 DEF CommitTypes, ClearMarker
    <3>4. job' \in Job
      BY <1>0, <1>18, NoneMade DEF CommitTypes, ClearMarker
    <3>5. fate' \in [Commit -> {"unarmed", "armed", "confirmed", "rolled back"}]
      BY <1>0, <1>18 DEF CommitTypes, ClearMarker
    <3> QED
      BY <3>1, <3>2, <3>3, <3>4, <3>5 DEF CommitTypes
  <2>3. HookTypes'
    BY <1>0, <1>18, HookKept DEF ClearMarker, hookVars
  <2>4. ControlTypes'
    BY <1>0, <1>18 DEF ControlTypes, ClearMarker, Phases, RollbackPhases, bounds
  <2> QED
    BY <2>1, <2>2, <2>3, <2>4 DEF TypeOK
<1>19. CASE ClearFails
  <2>1. FileTypes'
    BY <1>0, <1>19, FileKept DEF ClearFails, fileVars
  <2>2. CommitTypes'
    <3>1. journal' \in Seq(Entry) /\ todo' \in Seq(Entry)
      BY <1>0, <1>19, NoneMade DEF CommitTypes, ClearFails
    <3>2. pending' \in Armed \cup {None} /\ left' \in 0 .. MaxTimeout
      BY <1>0, <1>19, NoneMade DEF CommitTypes, ClearFails
    <3>3. marker' \in Armed \cup {None, Corrupt} /\ markerDisk' \subseteq Armed \cup {None, Corrupt}
      BY <1>0, <1>19 DEF CommitTypes, ClearFails
    <3>4. job' \in Job
      BY <1>0, <1>19, NoneMade DEF CommitTypes, ClearFails
    <3>5. fate' \in [Commit -> {"unarmed", "armed", "confirmed", "rolled back"}]
      BY <1>0, <1>19 DEF CommitTypes, ClearFails
    <3> QED
      BY <3>1, <3>2, <3>3, <3>4, <3>5 DEF CommitTypes
  <2>3. HookTypes'
    BY <1>0, <1>19, HookKept DEF ClearFails, hookVars
  <2>4. UNCHANGED faults \/ \E kind \in {"crash", "power", "io", "hook"} : Failing(kind)
    BY <1>19 DEF ClearFails
  <2>5. faults' \in 0 .. MaxFaults
    BY <1>0, <2>4, FailingType DEF ControlTypes
  <2>6. ControlTypes'
    BY <1>0, <1>19, <2>5 DEF ControlTypes, ClearFails, Phases, RollbackPhases
  <2> QED
    BY <2>1, <2>2, <2>3, <2>6 DEF TypeOK
<1>20. CASE Start
  <2>1. FileTypes'
    BY <1>0, <1>20, FileKept DEF Start, fileVars
  <2>2. CommitTypes'
    BY <1>0, <1>20, CommitKept DEF Start
  <2>3. HookTypes'
    BY <1>0, <1>20, HookKept DEF Start, hookVars
  <2>4. ControlTypes'
    BY <1>0, <1>20 DEF ControlTypes, Start, Phases, RollbackPhases, bounds
  <2> QED
    BY <2>1, <2>2, <2>3, <2>4 DEF TypeOK
<1>21. CASE RecoverPending
  <2>1. FileTypes'
    BY <1>0, <1>21, FileKept DEF RecoverPending, fileVars
  <2>2. CommitTypes'
    <3>1. journal' \in Seq(Entry) /\ todo' \in Seq(Entry)
      BY <1>0, <1>21, NoneMade DEF CommitTypes, RecoverPending
    <3>2. pending' \in Armed \cup {None} /\ left' \in 0 .. MaxTimeout
      BY <1>0, <1>21, NoneMade DEF CommitTypes, RecoverPending
    <3>3. marker' \in Armed \cup {None, Corrupt} /\ markerDisk' \subseteq Armed \cup {None, Corrupt}
      BY <1>0, <1>21 DEF CommitTypes, RecoverPending
    <3>4. job' \in Job
      BY <1>0, <1>21, JobMade DEF CommitTypes, RecoverPending, Causes
    <3>5. fate' \in [Commit -> {"unarmed", "armed", "confirmed", "rolled back"}]
      BY <1>0, <1>21 DEF CommitTypes, RecoverPending
    <3> QED
      BY <3>1, <3>2, <3>3, <3>4, <3>5 DEF CommitTypes
  <2>3. HookTypes'
    BY <1>0, <1>21, HookKept DEF RecoverPending, hookVars
  <2>4. ControlTypes'
    BY <1>0, <1>21 DEF ControlTypes, RecoverPending, Phases, RollbackPhases, bounds
  <2> QED
    BY <2>1, <2>2, <2>3, <2>4 DEF TypeOK
<1>22. CASE Tick
  <2>1. FileTypes'
    BY <1>0, <1>22, FileKept DEF Tick, fileVars
  <2>2. CommitTypes'
    <3>1. left \in 0 .. MaxTimeout /\ left > 0 /\ left' = left - 1 /\ MaxTimeout \in Nat
      BY <1>0, <1>22, ConstantsAssumption DEF CommitTypes, Tick
    <3>2. left' \in 0 .. MaxTimeout
      BY <3>1
    <3> QED
      BY <1>0, <1>22, <3>2 DEF CommitTypes, Tick
  <2>3. HookTypes'
    BY <1>0, <1>22, HookKept DEF Tick, hookVars
  <2>4. ControlTypes'
    BY <1>0, <1>22 DEF ControlTypes, Tick, Phases, RollbackPhases, bounds
  <2> QED
    BY <2>1, <2>2, <2>3, <2>4 DEF TypeOK
<1>23. CASE Crash
  <2>1. FileTypes'
    BY <1>0, <1>23, FileKept DEF Crash, Die, fileVars
  <2>2. CommitTypes'
    <3>1. journal' \in Seq(Entry) /\ todo' \in Seq(Entry)
      BY <1>0, <1>23, NoneMade DEF CommitTypes, Crash, Die
    <3>2. pending' \in Armed \cup {None} /\ left' \in 0 .. MaxTimeout
      BY <1>0, <1>23, NoneMade DEF CommitTypes, Crash, Die
    <3>3. marker' \in Armed \cup {None, Corrupt} /\ markerDisk' \subseteq Armed \cup {None, Corrupt}
      BY <1>0, <1>23 DEF CommitTypes, Crash, Die
    <3>4. job' \in Job
      BY <1>0, <1>23, NoneMade DEF CommitTypes, Crash, Die
    <3>5. fate' \in [Commit -> {"unarmed", "armed", "confirmed", "rolled back"}]
      BY <1>0, <1>23 DEF CommitTypes, Crash, Die
    <3> QED
      BY <3>1, <3>2, <3>3, <3>4, <3>5 DEF CommitTypes
  <2>3. HookTypes'
    BY <1>0, <1>23 DEF Crash, Die, HookTypes, Started
  <2>4. UNCHANGED faults \/ \E kind \in {"crash", "power", "io", "hook"} : Failing(kind)
    BY <1>23 DEF Crash, Die
  <2>5. faults' \in 0 .. MaxFaults
    BY <1>0, <2>4, FailingType DEF ControlTypes
  <2>6. ControlTypes'
    BY <1>0, <1>23, <2>5 DEF ControlTypes, Crash, Die, Phases, RollbackPhases
  <2> QED
    BY <2>1, <2>2, <2>3, <2>6 DEF TypeOK
<1>24. CASE PowerLoss
  <2>1. FileTypes'
    BY <1>0, <1>24, FileKept DEF PowerLoss, Die, fileVars
  <2>2. CommitTypes'
    <3>1. journal' \in Seq(Entry) /\ todo' \in Seq(Entry)
      BY <1>0, <1>24, NoneMade DEF CommitTypes, PowerLoss, Die
    <3>2. pending' \in Armed \cup {None} /\ left' \in 0 .. MaxTimeout
      BY <1>0, <1>24, NoneMade DEF CommitTypes, PowerLoss, Die
    <3>3. marker' \in Armed \cup {None, Corrupt} /\ markerDisk' \subseteq Armed \cup {None, Corrupt}
      BY <1>0, <1>24 DEF CommitTypes, PowerLoss, Die
    <3>4. job' \in Job
      BY <1>0, <1>24, NoneMade DEF CommitTypes, PowerLoss, Die
    <3>5. fate' \in [Commit -> {"unarmed", "armed", "confirmed", "rolled back"}]
      BY <1>0, <1>24 DEF CommitTypes, PowerLoss, Die
    <3> QED
      BY <3>1, <3>2, <3>3, <3>4, <3>5 DEF CommitTypes
  <2>3. HookTypes'
    BY <1>0, <1>24 DEF HookTypes, PowerLoss, FileTypes, Die
  <2>4. UNCHANGED faults \/ \E kind \in {"crash", "power", "io", "hook"} : Failing(kind)
    BY <1>24 DEF PowerLoss, Die
  <2>5. faults' \in 0 .. MaxFaults
    BY <1>0, <2>4, FailingType DEF ControlTypes
  <2>6. ControlTypes'
    BY <1>0, <1>24, <2>5 DEF ControlTypes, PowerLoss, Die, Phases, RollbackPhases
  <2> QED
    BY <2>1, <2>2, <2>3, <2>6 DEF TypeOK
<1>25. ASSUME NEW t \in Target, NEW c \in Content, NEW j \in BOOLEAN, NEW out \in Outcomes,
            WriteTarget(t, c, j, out) PROVE TypeOK'
  <2>1. FileTypes' /\ faults' \in 0 .. MaxFaults
    BY <1>0, <1>25, WriteAtomicType, ConstantsAssumption DEF ControlTypes, WriteTarget
  <2>2. out = "ok" /\ BackupTaken(t, KeepBackups) => Journaled(t, c) \in Seq(Entry)
    <3>1. SUFFICES ASSUME out = "ok", BackupTaken(t, KeepBackups)
                   PROVE  Journaled(t, c) \in Seq(Entry)
      OBVIOUS
    <3>2. TakeBackup(t, KeepBackups)
      BY <1>25, <3>1 DEF WriteTarget, WriteAtomic
    <3>3. [target |-> t, backup |-> stamp + 1, new |-> c, prev |-> file[t]] \in Entry
      BY <1>0, <3>1, <3>2, TakeBackupType, ConstantsAssumption DEF Entry
    <3>4. (IF pending = None THEN <<>> ELSE journal) \in Seq(Entry)
      BY <1>0, NoneMade DEF CommitTypes
    <3> QED
      BY <3>3, <3>4 DEF Journaled
  <2>4. CommitTypes'
    BY <1>0, <1>25, <2>2 DEF CommitTypes, WriteTarget
  <2>5. HookTypes'
    BY <1>0, <1>25, HookKept DEF WriteTarget, hookVars
  <2>6. ControlTypes'
    BY <1>0, <1>25, <2>1 DEF ControlTypes, WriteTarget, Served, Phases
  <2> QED
    BY <2>1, <2>4, <2>5, <2>6 DEF TypeOK
<1>26. ASSUME NEW s \in Stamp, NEW out \in Outcomes, Restore(s, out) PROVE TypeOK'
  <2>1. backups[s].target \in Target /\ backups[s].contents \in Content \cup {Torn}
    BY <1>0, <1>26 DEF FileTypes, Restore, Backup
  <2>2. FileTypes' /\ faults' \in 0 .. MaxFaults
    BY <1>0, <1>26, <2>1, WriteAtomicType, ConstantsAssumption DEF Restore, ControlTypes
  <2>3. CommitTypes' /\ HookTypes'
    BY <1>0, <1>26, CommitKept, HookKept DEF Restore
  <2>4. ControlTypes'
    BY <1>0, <1>26, <2>1, <2>2 DEF ControlTypes, Restore, Served, Phases
  <2> QED
    BY <2>2, <2>3, <2>4 DEF TypeOK
<1>27. ASSUME NEW c \in Commit, NEW timeout \in Requested, NEW s \in Target \cup {None},
            StartConfirmTimer(c, timeout, s) PROVE TypeOK'
  <2>1. left' \in 0 .. MaxTimeout
    <3>1. timeout \in Nat /\ MaxTimeout \in Nat \ {0}
      BY ConstantsAssumption
    <3>2. Clamped(timeout) \in 0 .. MaxTimeout
      BY <3>1 DEF Clamped
    <3> QED
      BY <1>27, <3>2 DEF StartConfirmTimer
  <2>2. job' \in Job
    BY <1>0, <1>27 DEF CommitTypes, StartConfirmTimer, Job, Causes
  <2>3. CommitTypes'
    BY <1>0, <1>27, <2>1, <2>2, NoneMade DEF CommitTypes, StartConfirmTimer
  <2>4. FileTypes' /\ HookTypes'
    BY <1>0, <1>27, FileKept, HookKept DEF StartConfirmTimer
  <2>5. ControlTypes'
    BY <1>0, <1>27 DEF ControlTypes, StartConfirmTimer, Phases, bounds
  <2> QED
    BY <2>3, <2>4, <2>5 DEF TypeOK
<1>28. ASSUME NEW out \in Outcomes, RestoreEntry(out) PROVE TypeOK'
  <2> DEFINE e == todo[Len(todo)]
             rest == SubSeq(todo, 1, Len(todo) - 1)
  <2>1. todo \in Seq(Entry) /\ todo # <<>>
    BY <1>0, <1>28 DEF CommitTypes, RestoreEntry
  <2>2. e \in Entry /\ rest \in Seq(Entry)
    <3>1. Len(todo) \in 1 .. Len(todo)
      BY <2>1
    <3> QED
      BY <2>1, <3>1
  <2>3. RestoreOne(e, rest, out)
    BY <1>28 DEF RestoreEntry
  <2> HIDE DEF e, rest
  <2>4. FileTypes' /\ faults' \in 0 .. MaxFaults
    <3>1. CASE backups[e.backup] # None /\ Unedited(e)
      <4>1. e.target \in Target /\ backups[e.backup].contents \in Content \cup {Torn}
        BY <1>0, <2>2, <3>1 DEF FileTypes, Entry, Backup
      <4>2. WriteAtomic(e.target, backups[e.backup].contents, DefaultKeep, out)
        BY <2>3, <3>1 DEF RestoreOne
      <4> QED
        BY <1>0, <4>1, <4>2, WriteAtomicType, ConstantsAssumption DEF ControlTypes
    <3>2. CASE ~(backups[e.backup] # None /\ Unedited(e))
      <4>1. UNCHANGED <<fileVars, faults>>
        BY <2>3, <3>2 DEF RestoreOne
      <4> QED
        BY <1>0, <4>1, FileKept DEF ControlTypes
    <3> QED
      BY <3>1, <3>2
  <2>5. CommitTypes'
    BY <1>0, <2>2, <2>3 DEF CommitTypes, RestoreOne
  <2>6. HookTypes'
    BY <1>0, <2>3, HookKept DEF RestoreOne
  <2>7. ControlTypes'
    BY <1>0, <2>3, <2>4 DEF ControlTypes, RestoreOne
  <2> QED
    BY <2>4, <2>5, <2>6, <2>7 DEF TypeOK
<1>29. ASSUME NEW out \in Outcomes, RecoverInPlace(out) PROVE TypeOK'
  <2>1. FileTypes' /\ faults' \in 0 .. MaxFaults
    <3>1. CASE UNCHANGED <<file, backups, stamp, faults>> /\ ipMark' \in {ipMark, None}
      BY <1>0, <3>1 DEF FileTypes, ControlTypes
    <3>2. CASE /\ ipMark # None /\ backups[ipMark.backup] # None
               /\ TakeBackup(ipMark.target, DefaultKeep)
               /\ ipMark' \in {ipMark, None}
               /\ UNCHANGED faults \/ Failing("io")
               /\ file' \in {file, [file EXCEPT ![ipMark.target] = backups[ipMark.backup].contents]}
      <4>1. ipMark.target \in Target /\ ipMark.backup \in Stamp
        BY <1>0, <3>2 DEF FileTypes, InPlaceMarker
      <4>2. backups[ipMark.backup].contents \in FileState
        BY <1>0, <3>2, <4>1 DEF FileTypes, Backup, FileState
      <4>3. backups' \in [Stamp -> Backup \cup {None}] /\ stamp' \in 0 .. MaxStamp
        BY <1>0, <3>2, <4>1, TakeBackupType, ConstantsAssumption
      <4>4. faults' \in 0 .. MaxFaults
        BY <1>0, <3>2, FailingType DEF ControlTypes
      <4> QED
        BY <1>0, <3>2, <4>1, <4>2, <4>3, <4>4 DEF FileTypes
    <3> QED
      BY <1>29, <3>1, <3>2 DEF RecoverInPlace, fileVars
  <2>2. CommitTypes' /\ HookTypes'
    BY <1>0, <1>29, CommitKept, HookKept DEF RecoverInPlace
  <2>3. ControlTypes'
    BY <1>0, <1>29, <2>1 DEF ControlTypes, RecoverInPlace, Phases, RollbackPhases
  <2> QED
    BY <2>1, <2>2, <2>3 DEF TypeOK
<1>30. CASE Edit
  <2>1. FileTypes'
    BY <1>0, <1>30, ConstantsAssumption DEF FileTypes, Edit, FileState
  <2>2. CommitTypes' /\ HookTypes'
    BY <1>0, <1>30, CommitKept, HookKept DEF Edit
  <2>3. edits' \in 0 .. MaxEdits
    BY <1>0, <1>30, ConstantsAssumption DEF ControlTypes, Edit
  <2>4. ControlTypes'
    BY <1>0, <1>30, <2>3 DEF ControlTypes, Edit
  <2> QED
    BY <2>1, <2>2, <2>4 DEF TypeOK
<1>31. CASE UNCHANGED vars
  BY <1>0, <1>31, FileKept, CommitKept, HookKept DEF TypeOK, ControlTypes, vars, bounds
<1>32. CASE Reaped
  <2>1. FileTypes' /\ CommitTypes' /\ HookTypes'
    BY <1>0, <1>32, FileKept, CommitKept, HookKept DEF Reaped
  <2>2. ControlTypes'
    BY <1>0, <1>32 DEF ControlTypes, Reaped, Phases, bounds
  <2> QED
    BY <2>1, <2>2 DEF TypeOK
<1>33. ASSUME NEW out \in Outcomes, MountUnits(out) PROVE TypeOK'
  <2>1. FileTypes' /\ CommitTypes'
    BY <1>0, <1>33, FileKept, CommitKept DEF MountUnits
  <2>2. HookTypes'
    BY <1>0, <1>33 DEF HookTypes, MountUnits, Started
  <2>3. faults' \in 0 .. MaxFaults
    BY <1>0, <1>33, FailingType DEF ControlTypes, MountUnits
  <2>4. ControlTypes'
    BY <1>0, <1>33, <2>3 DEF ControlTypes, MountUnits, Phases
  <2> QED
    BY <2>1, <2>2, <2>4 DEF TypeOK
<1> QED
  BY <1>1, <1>2, <1>3, <1>4, <1>5, <1>6, <1>7, <1>8, <1>9, <1>10,
     <1>11, <1>12, <1>13, <1>14, <1>15, <1>16, <1>17, <1>18, <1>19, <1>20,
     <1>21, <1>22, <1>23, <1>24, <1>25, <1>26, <1>27, <1>28, <1>29, <1>30,
     <1>31, <1>32, <1>33
  DEF Next, Request, Step

----------------------------------------------------------------------------
(* A commit goes from the marker or from memory into the job unchanged.     *)
LEMMA JobMirrors ==
  ASSUME NEW armed \in Armed, NEW why
  PROVE  JobOf(armed, why).commit \in Commit /\ ArmedOf(JobOf(armed, why)) = armed
  BY DEF Armed, JobOf, ArmedOf

(* Every step keeps memory and marker together.                             *)
LEMMA MirrorStep == ASSUME TypeOK, MirrorInv, [Next]_vars PROVE MirrorInv'
<1>0. /\ pending \in Armed \cup {None} /\ marker \in Armed \cup {None, Corrupt}
      /\ job \in Job
  BY DEF TypeOK, CommitTypes
<1>1. CASE Hello \/ Ask
  BY <1>1 DEF MirrorInv, Closing, RollbackPhases, commitVars, Hello, Ask, Served
<1>2. ASSUME NEW t \in Target, NEW out \in Outcomes, Service(t, out) PROVE MirrorInv'
  BY <1>2 DEF MirrorInv, Closing, RollbackPhases, commitVars, Service, Served
<1>3. ASSUME NEW t \in Target, NEW out \in Outcomes, ReloadUnitFiles(t, out) PROVE MirrorInv'
  BY <1>3 DEF MirrorInv, Closing, RollbackPhases, commitVars, ReloadUnitFiles, Served
<1>4. ASSUME NEW t \in Target, NEW out \in Outcomes, Mount(t, out) PROVE MirrorInv'
  BY <1>4 DEF MirrorInv, Closing, RollbackPhases, commitVars, Mount, Served
<1>5. CASE ArmMarker
  BY <1>0, <1>5, ArmedMade, MarkerAssumption
  DEF MirrorInv, Closing, RollbackPhases, ArmMarker
<1>6. CASE ArmFails
  BY <1>6 DEF MirrorInv, Closing, RollbackPhases, ArmFails
<1>7. CASE ConfirmExpired
  BY <1>0, <1>7, JobMirrors DEF MirrorInv, Closing, RollbackPhases, ConfirmExpired, RollBack
<1>8. CASE ConfirmCommit
  BY <1>0, <1>8, JobMirrors DEF MirrorInv, Closing, RollbackPhases, ConfirmCommit
<1>9. CASE Committed
  BY <1>9 DEF MirrorInv, Closing, RollbackPhases, Committed
<1>10. CASE RollbackCommit
  BY <1>0, <1>10, JobMirrors
  DEF MirrorInv, Closing, RollbackPhases, RollbackCommit, RollBack
<1>11. CASE Poll
  BY <1>11 DEF MirrorInv, Closing, RollbackPhases, commitVars, Poll
<1>12. CASE EnforceDeadline
  BY <1>0, <1>12, JobMirrors
  DEF MirrorInv, Closing, RollbackPhases, commitVars, EnforceDeadline, RollBack
<1>13. CASE Exit
  BY <1>0, <1>13, JobMirrors DEF MirrorInv, Closing, RollbackPhases, Exit, RollBack
<1>14. ASSUME NEW out \in Outcomes, StopMounts(out) PROVE MirrorInv'
  BY <1>14 DEF MirrorInv, Closing, RollbackPhases, StopMounts
<1>15. CASE Restored
  BY <1>15 DEF MirrorInv, Closing, RollbackPhases, commitVars, Restored
<1>16. ASSUME NEW out \in Outcomes, ReplayReload(out) PROVE MirrorInv'
  BY <1>16 DEF MirrorInv, Closing, RollbackPhases, commitVars, ReplayReload
<1>17. ASSUME NEW out \in Outcomes, ReplayService(out) PROVE MirrorInv'
  BY <1>17 DEF MirrorInv, Closing, RollbackPhases, commitVars, ReplayService
<1>18. CASE ClearMarker
  BY <1>18 DEF MirrorInv, Closing, RollbackPhases, ClearMarker
<1>19. CASE ClearFails
  BY <1>19 DEF MirrorInv, Closing, RollbackPhases, ClearFails
<1>20. CASE Start
  BY <1>20 DEF MirrorInv, Closing, RollbackPhases, commitVars, Start
<1>21. CASE RecoverPending
  BY <1>0, <1>21, JobMirrors DEF MirrorInv, Closing, RollbackPhases, RecoverPending
<1>22. CASE Tick
  BY <1>22 DEF MirrorInv, Tick
<1>23. CASE Crash
  BY <1>23 DEF MirrorInv, Closing, RollbackPhases, Crash, Die
<1>24. CASE PowerLoss
  BY <1>24 DEF MirrorInv, Closing, RollbackPhases, PowerLoss, Die
<1>25. ASSUME NEW t \in Target, NEW c \in Content, NEW j \in BOOLEAN, NEW out \in Outcomes,
            WriteTarget(t, c, j, out) PROVE MirrorInv'
  BY <1>25 DEF MirrorInv, Closing, RollbackPhases, WriteTarget, Served
<1>26. ASSUME NEW s \in Stamp, NEW out \in Outcomes, Restore(s, out) PROVE MirrorInv'
  BY <1>26 DEF MirrorInv, Closing, RollbackPhases, commitVars, Restore, Served
<1>27. ASSUME NEW c \in Commit, NEW timeout \in Requested, NEW s \in Target \cup {None},
            StartConfirmTimer(c, timeout, s) PROVE MirrorInv'
  BY <1>27 DEF MirrorInv, Closing, RollbackPhases, StartConfirmTimer, NextCommit
<1>28. ASSUME NEW out \in Outcomes, RestoreEntry(out) PROVE MirrorInv'
  BY <1>28 DEF MirrorInv, Closing, RollbackPhases, RestoreEntry, RestoreOne
<1>29. ASSUME NEW out \in Outcomes, RecoverInPlace(out) PROVE MirrorInv'
  BY <1>29 DEF MirrorInv, Closing, RollbackPhases, commitVars, RecoverInPlace
<1>30. CASE Edit
  BY <1>30 DEF MirrorInv, commitVars, Edit
<1>31. CASE UNCHANGED vars
  BY <1>31 DEF MirrorInv, vars, commitVars
<1>32. CASE Reaped
  BY <1>32 DEF MirrorInv, Closing, RollbackPhases, commitVars, Reaped
<1>33. ASSUME NEW out \in Outcomes, MountUnits(out) PROVE MirrorInv'
  BY <1>33 DEF MirrorInv, Closing, RollbackPhases, commitVars, MountUnits
<1> QED
  BY <1>1, <1>2, <1>3, <1>4, <1>5, <1>6, <1>7, <1>8, <1>9, <1>10,
     <1>11, <1>12, <1>13, <1>14, <1>15, <1>16, <1>17, <1>18, <1>19, <1>20,
     <1>21, <1>22, <1>23, <1>24, <1>25, <1>26, <1>27, <1>28, <1>29, <1>30,
     <1>31, <1>32, <1>33
  DEF Next, Request, Step

(* Every step but a power loss keeps marker and fates together, and is a    *)
(* step of CommitConfirm.                                                   *)
LEMMA FateStep ==
  ASSUME TypeOK, MirrorInv, ArmedIsMarked, [Next]_vars, "power" \notin Faults
  PROVE  ArmedIsMarked' /\ CC!Next
<1>0. fate \in [Commit -> {"unarmed", "armed", "confirmed", "rolled back"}]
  BY DEF TypeOK, CommitTypes
<1>1. CASE UNCHANGED <<marker, fate>>
  BY <1>1 DEF ArmedIsMarked, CC!Next
<1>2. ASSUME NEW c \in Commit, NEW timeout \in Requested, NEW s \in Target \cup {None},
            StartConfirmTimer(c, timeout, s) PROVE ArmedIsMarked' /\ CC!Next
  BY <1>2, SentinelsAssumption DEF ArmedIsMarked, MirrorInv, StartConfirmTimer, CC!Next
<1>3. CASE ArmMarker
  <2>1. /\ job.commit \in Commit /\ fate[job.commit] = "unarmed" /\ marker = Corrupt
        /\ fate' = [fate EXCEPT ![job.commit] = "armed"] /\ marker' = ArmedOf(job)
    BY <1>3 DEF MirrorInv, ArmMarker
  <2>2. marker' \in Armed /\ marker'.commit = job.commit
    BY <2>1, ArmedMade DEF TypeOK, CommitTypes, ArmedOf
  <2>3. \A d \in Commit : fate[d] # "armed"
    BY <2>1 DEF ArmedIsMarked
  <2>4. ArmedIsMarked'
    BY <1>0, <2>1, <2>2, <2>3, MarkerAssumption DEF ArmedIsMarked
  <2>5. CC!Arm(job.commit)
    BY <2>1, <2>3 DEF CC!Arm
  <2> QED
    BY <1>3, <2>1, <2>4, <2>5 DEF CC!Next, ArmMarker
<1>4. CASE Committed \/ ClearMarker
  <2>1. /\ job.commit \in Commit /\ marker = ArmedOf(job) /\ marker' = None
        /\ \E f \in {"confirmed", "rolled back"} : fate' = [fate EXCEPT ![job.commit] = f]
    BY <1>4 DEF MirrorInv, Closing, RollbackPhases, Committed, ClearMarker
  <2>2. marker \in Armed /\ marker.commit = job.commit
    BY <2>1, ArmedMade DEF TypeOK, CommitTypes, ArmedOf
  <2>3. \A d \in Commit : fate[d] = "armed" <=> d = job.commit
    BY <2>1, <2>2, MarkerAssumption DEF ArmedIsMarked
  <2>4. ArmedIsMarked'
    BY <1>0, <2>1, <2>3 DEF ArmedIsMarked
  <2>5. CC!Close(job.commit)
    BY <2>1, <2>3 DEF CC!Close
  <2> QED
    BY <1>4, <2>1, <2>4, <2>5 DEF CC!Next, Committed, ClearMarker
<1>5. ~PowerLoss
  BY DEF PowerLoss, Failing
<1>6. ASSUME Hello \/ Ask PROVE UNCHANGED <<marker, fate>>
  BY <1>6 DEF Hello, Ask, Served, commitVars
<1>7. ASSUME NEW t \in Target, NEW out \in Outcomes,
            Service(t, out) PROVE UNCHANGED <<marker, fate>>
  BY <1>7 DEF Service, Served, commitVars
<1>8. ASSUME NEW t \in Target, NEW out \in Outcomes,
            ReloadUnitFiles(t, out) PROVE UNCHANGED <<marker, fate>>
  BY <1>8 DEF ReloadUnitFiles, Served, commitVars
<1>9. ASSUME NEW t \in Target, NEW out \in Outcomes, Mount(t, out) PROVE UNCHANGED <<marker, fate>>
  BY <1>9 DEF Mount, Served, commitVars
<1>10. ASSUME ArmFails PROVE UNCHANGED <<marker, fate>>
  BY <1>10 DEF ArmFails
<1>11. ASSUME ConfirmExpired PROVE UNCHANGED <<marker, fate>>
  BY <1>11 DEF ConfirmExpired, RollBack
<1>12. ASSUME ConfirmCommit PROVE UNCHANGED <<marker, fate>>
  BY <1>12 DEF ConfirmCommit
<1>13. ASSUME RollbackCommit PROVE UNCHANGED <<marker, fate>>
  BY <1>13 DEF RollbackCommit, RollBack
<1>14. ASSUME Poll PROVE UNCHANGED <<marker, fate>>
  BY <1>14 DEF Poll, commitVars
<1>15. ASSUME EnforceDeadline PROVE UNCHANGED <<marker, fate>>
  BY <1>15 DEF EnforceDeadline, RollBack, commitVars
<1>16. ASSUME Exit PROVE UNCHANGED <<marker, fate>>
  BY <1>16 DEF Exit, RollBack
<1>17. ASSUME NEW out \in Outcomes, StopMounts(out) PROVE UNCHANGED <<marker, fate>>
  BY <1>17 DEF StopMounts
<1>18. ASSUME Restored PROVE UNCHANGED <<marker, fate>>
  BY <1>18 DEF Restored, commitVars
<1>19. ASSUME NEW out \in Outcomes, ReplayReload(out) PROVE UNCHANGED <<marker, fate>>
  BY <1>19 DEF ReplayReload, commitVars
<1>20. ASSUME NEW out \in Outcomes, ReplayService(out) PROVE UNCHANGED <<marker, fate>>
  BY <1>20 DEF ReplayService, commitVars
<1>21. ASSUME ClearFails PROVE UNCHANGED <<marker, fate>>
  BY <1>21 DEF ClearFails
<1>22. ASSUME Start PROVE UNCHANGED <<marker, fate>>
  BY <1>22 DEF Start, commitVars
<1>23. ASSUME RecoverPending PROVE UNCHANGED <<marker, fate>>
  BY <1>23 DEF RecoverPending
<1>24. ASSUME Tick PROVE UNCHANGED <<marker, fate>>
  BY <1>24 DEF Tick
<1>25. ASSUME Crash PROVE UNCHANGED <<marker, fate>>
  BY <1>25 DEF Crash, Die
<1>26. ASSUME NEW t \in Target, NEW c \in Content, NEW j \in BOOLEAN, NEW out \in Outcomes,
            WriteTarget(t, c, j, out) PROVE UNCHANGED <<marker, fate>>
  BY <1>26 DEF WriteTarget, Served
<1>27. ASSUME NEW s \in Stamp, NEW out \in Outcomes,
            Restore(s, out) PROVE UNCHANGED <<marker, fate>>
  BY <1>27 DEF Restore, Served, commitVars
<1>28. ASSUME NEW out \in Outcomes, RestoreEntry(out) PROVE UNCHANGED <<marker, fate>>
  BY <1>28 DEF RestoreEntry, RestoreOne
<1>29. ASSUME NEW out \in Outcomes, RecoverInPlace(out) PROVE UNCHANGED <<marker, fate>>
  BY <1>29 DEF RecoverInPlace, commitVars
<1>30. ASSUME Edit PROVE UNCHANGED <<marker, fate>>
  BY <1>30 DEF Edit, commitVars
<1>31. ASSUME UNCHANGED vars PROVE UNCHANGED <<marker, fate>>
  BY <1>31 DEF vars, commitVars
<1>32. ASSUME Reaped PROVE UNCHANGED <<marker, fate>>
  BY <1>32 DEF Reaped, commitVars
<1>33. ASSUME NEW out \in Outcomes, MountUnits(out) PROVE UNCHANGED <<marker, fate>>
  BY <1>33 DEF MountUnits, commitVars
<1> QED
  BY <1>1, <1>2, <1>3, <1>4, <1>5, <1>6, <1>7, <1>8, <1>9, <1>10,
     <1>11, <1>12, <1>13, <1>14, <1>15, <1>16, <1>17, <1>18, <1>19, <1>20,
     <1>21, <1>22, <1>23, <1>24, <1>25, <1>26, <1>27, <1>28, <1>29, <1>30,
     <1>31, <1>32, <1>33
  DEF Next, Request, Step

----------------------------------------------------------------------------
(* The first start finds nothing armed.                                     *)
LEMMA Initially == ASSUME Init PROVE IInv
<1>1. FileTypes
  BY ConstantsAssumption DEF Init, FileTypes, FileState
<1>2. CommitTypes
  BY NoneMade DEF Init, CommitTypes
<1>3. HookTypes
  BY DEF Init, HookTypes, FileState
<1>4. ControlTypes
  <2>1. 0 \in 0 .. MaxFaults /\ 0 \in 0 .. MaxEdits
    BY ConstantsAssumption
  <2> QED
    BY <2>1 DEF Init, ControlTypes, Phases
<1>5. MirrorInv
  BY DEF Init, MirrorInv, Closing, RollbackPhases
<1>6. ArmedIsMarked
  BY DEF Init, ArmedIsMarked
<1> QED
  BY <1>1, <1>2, <1>3, <1>4, <1>5, <1>6 DEF IInv, TypeOK

(* The monitor's state keeps its types in every run, power losses included: *)
(* among them a confirm window never longer than MAX_CONFIRM_TIMEOUT_S, and *)
(* a marker that is whole, absent or a torn one.                            *)
THEOREM MonitorTypes == Spec => []TypeOK
<1>1. Init => TypeOK /\ MirrorInv
  BY Initially DEF IInv
<1>2. TypeOK /\ MirrorInv /\ [Next]_vars => TypeOK' /\ MirrorInv'
  BY TypeStep, MirrorStep
<1> QED
  BY <1>1, <1>2, PTL DEF Spec

(* Without power losses, the pending-commit marker tells the truth at every *)
(* step of start_confirm_timer, confirm_commit, the rollback paths and      *)
(* recover_pending: it names the one armed commit, and no other.  After a   *)
(* power loss it need not: clear_marker does not sync the directory, and    *)
(* the marker of a closed commit may come back.                             *)
THEOREM MarkerTellsTruth ==
  ASSUME "power" \notin Faults
  PROVE  Spec => []ArmedIsMarked
<1>1. Init => IInv
  BY Initially
<1>2. IInv /\ [Next]_vars => IInv'
  BY TypeStep, MirrorStep, FateStep DEF IInv
<1>3. IInv => ArmedIsMarked
  BY DEF IInv
<1> QED
  BY <1>1, <1>2, <1>3, PTL DEF Spec

(* Without power losses, the monitor with its kills, failing calls and      *)
(* restarts implements the safety part of CommitConfirm: one open window at *)
(* a time, each closed once, as confirmed or as rolled back, and neither    *)
(* opened nor closed once the monitor's loop has ended.                     *)
THEOREM WindowsCloseOnce ==
  ASSUME "power" \notin Faults
  PROVE  Spec => CC!Safety
<1>1. Init => IInv /\ CC!Init
  BY Initially DEF Init, CC!Init
<1>2. IInv /\ [Next]_vars => IInv' /\ CC!Next
  BY TypeStep, MirrorStep, FateStep DEF IInv
<1> QED
  BY <1>1, <1>2, PTL DEF Spec, CC!Safety

----------------------------------------------------------------------------
(***************************************************************************)
(* What a rollback does to the files and to the service.                   *)
(***************************************************************************)

(* Which steps touch the files.                                             *)
LEMMA FileSteps ==
  ASSUME [Next]_vars
  PROVE  \/ UNCHANGED fileVars
         \/ Edit
         \/ \E t \in Target, c \in Content, j \in BOOLEAN, out \in Outcomes :
              WriteTarget(t, c, j, out)
         \/ \E s \in Stamp, out \in Outcomes : Restore(s, out)
         \/ \E out \in Outcomes : RestoreEntry(out) \/ RecoverInPlace(out)
<1>1. CASE \E t \in Target, out \in Outcomes :
             Service(t, out) \/ ReloadUnitFiles(t, out) \/ Mount(t, out)
  BY <1>1 DEF Service, ReloadUnitFiles, Mount
<1>2. CASE \E c \in Commit, timeout \in Requested, s \in Target \cup {None} :
             StartConfirmTimer(c, timeout, s)
  BY <1>2 DEF StartConfirmTimer
<1>3. CASE ConfirmExpired \/ ConfirmCommit \/ RollbackCommit \/ EnforceDeadline \/ Exit
  BY <1>3 DEF ConfirmExpired, ConfirmCommit, RollbackCommit, EnforceDeadline, Exit, RollBack
<1>4. CASE Hello \/ Ask \/ ArmMarker \/ ArmFails \/ Committed \/ Poll \/ Reaped \/ Start \/ Tick
  BY <1>4 DEF Hello, Ask, Served, ArmMarker, ArmFails, Committed, Poll, Reaped, Start, Tick
<1>5. CASE \E out \in Outcomes : StopMounts(out) \/ ReplayReload(out) \/ ReplayService(out) \/ MountUnits(out)
  BY <1>5 DEF StopMounts, ReplayReload, ReplayService, MountUnits
<1>6. CASE Restored \/ ClearMarker \/ ClearFails \/ RecoverPending \/ Crash \/ PowerLoss
  BY <1>6 DEF Restored, ClearMarker, ClearFails, RecoverPending, Crash, PowerLoss
<1>7. CASE UNCHANGED vars
  BY <1>7 DEF vars
<1> QED
  BY <1>1, <1>2, <1>3, <1>4, <1>5, <1>6, <1>7 DEF Next, Request, Step

(* Which steps lead into, or stay within, the restoring part of a rollback. *)
LEMMA RollbackSteps ==
  ASSUME [Next]_vars, phase' \in {"restore", "reload", "replay", "clear"}
  PROVE  \/ Edit
         \/ Restored
         \/ \E out \in Outcomes :
              StopMounts(out) \/ RestoreEntry(out) \/ ReplayReload(out) \/ ReplayService(out)
         \/ UNCHANGED <<phase, job, todo, fileVars, hookVars, edits>>
<1>1. CASE \E t \in Target, out \in Outcomes :
             Service(t, out) \/ ReloadUnitFiles(t, out) \/ Mount(t, out)
  BY <1>1 DEF Service, ReloadUnitFiles, Mount, Served
<1>2. CASE \E c \in Commit, timeout \in Requested, s \in Target \cup {None} :
             StartConfirmTimer(c, timeout, s)
  BY <1>2 DEF StartConfirmTimer
<1>3. CASE ConfirmExpired \/ ConfirmCommit \/ RollbackCommit \/ EnforceDeadline \/ Exit
  BY <1>3 DEF ConfirmExpired, ConfirmCommit, RollbackCommit, EnforceDeadline, Exit, RollBack
<1>4. CASE Hello \/ Ask \/ ArmMarker \/ ArmFails \/ Committed \/ Poll \/ Reaped \/ Start
  BY <1>4 DEF Hello, Ask, Served, ArmMarker, ArmFails, Committed, Poll, Reaped, Start
<1>5. CASE \E t \in Target, c \in Content, j \in BOOLEAN, out \in Outcomes :
             WriteTarget(t, c, j, out)
  BY <1>5 DEF WriteTarget, Served
<1>6. CASE ClearMarker \/ ClearFails \/ RecoverPending \/ Crash \/ PowerLoss
  BY <1>6 DEF ClearMarker, ClearFails, RecoverPending, Crash, PowerLoss, Die
<1>7. CASE (\E s \in Stamp, out \in Outcomes : Restore(s, out))
           \/ (\E out \in Outcomes : RecoverInPlace(out))
  BY <1>7 DEF Restore, Served, RecoverInPlace
<1>8. CASE Tick \/ UNCHANGED vars
  BY <1>8 DEF Tick, vars, commitVars, bounds
<1>9. ASSUME NEW out \in Outcomes, MountUnits(out) PROVE FALSE
  BY <1>9 DEF MountUnits
<1> QED
  BY <1>1, <1>2, <1>3, <1>4, <1>5, <1>6, <1>7, <1>8, <1>9 DEF Next, Request, Step

(* A write touches no file but its own.                                     *)
LEMMA WriteElsewhere ==
  ASSUME FileTypes, NEW t \in Target, NEW c, NEW keep, NEW out, WriteAtomic(t, c, keep, out),
         NEW u \in Target, u # t
  PROVE  file'[u] = file[u]
  BY DEF FileTypes, WriteAtomic, Replace, fileVars

(* The entries a rollback still has to restore are the first ones of its    *)
(* commit.                                                                  *)
PrefixInv ==
  phase \in {"restore", "reload"} =>
    \A i \in DOMAIN todo : i \in DOMAIN job.entries /\ todo[i] = job.entries[i]

(* The last entry of a list that is not empty, and the list without it.     *)
LEMMA LastOf ==
  ASSUME NEW s \in Seq(Entry), s # <<>>
  PROVE  /\ Len(s) \in Nat \ {0} /\ Len(s) \in DOMAIN s
         /\ DOMAIN SubSeq(s, 1, Len(s) - 1) = 1 .. Len(s) - 1
         /\ Len(SubSeq(s, 1, Len(s) - 1)) = Len(s) - 1
         /\ \A i \in 1 .. Len(s) - 1 : i \in DOMAIN s /\ SubSeq(s, 1, Len(s) - 1)[i] = s[i]
<1>1. Len(s) \in Nat \ {0} /\ DOMAIN s = 1 .. Len(s)
  OBVIOUS
<1>2. \A i \in 1 .. Len(s) - 1 : s[i] \in Entry
  BY <1>1
<1>3. /\ SubSeq(s, 1, Len(s) - 1) \in Seq(Entry)
      /\ Len(SubSeq(s, 1, Len(s) - 1)) = Len(s) - 1
      /\ \A i \in 1 .. Len(s) - 1 : SubSeq(s, 1, Len(s) - 1)[i] = s[i]
  BY <1>1, <1>2, SubSeqProperties
<1> QED
  BY <1>1, <1>3

LEMMA PrefixStep == ASSUME TypeOK, PrefixInv, [Next]_vars PROVE PrefixInv'
<1> SUFFICES ASSUME phase' \in {"restore", "reload"}
             PROVE  \A i \in DOMAIN todo' : i \in DOMAIN job'.entries /\ todo'[i] = job'.entries[i]
  BY DEF PrefixInv
<1>1. CASE Edit \/ Restored
  BY <1>1 DEF PrefixInv, Edit, Restored, commitVars
<1>2. ASSUME NEW out \in Outcomes, StopMounts(out)
      PROVE  \A i \in DOMAIN todo' : i \in DOMAIN job'.entries /\ todo'[i] = job'.entries[i]
  BY <1>2 DEF StopMounts
<1>3. ASSUME NEW out \in Outcomes, RestoreEntry(out)
      PROVE  \A i \in DOMAIN todo' : i \in DOMAIN job'.entries /\ todo'[i] = job'.entries[i]
  <2>1. /\ todo \in Seq(Entry) /\ todo # <<>> /\ phase = "restore"
        /\ todo' = SubSeq(todo, 1, Len(todo) - 1) /\ job' = job
    BY <1>3 DEF RestoreEntry, RestoreOne, TypeOK, CommitTypes
  <2> QED
    BY <2>1, LastOf DEF PrefixInv
<1>4. ASSUME NEW out \in Outcomes, ReplayReload(out) \/ ReplayService(out) PROVE FALSE
  BY <1>4 DEF ReplayReload, ReplayService
<1>5. CASE UNCHANGED <<phase, job, todo, fileVars, hookVars, edits>>
  BY <1>5 DEF PrefixInv
<1> QED
  BY <1>1, <1>2, <1>3, <1>4, <1>5, RollbackSteps

(* No step of the monitor itself replaces an edit, for any commits, faults  *)
(* and limits, but the recovery of a write that was cut short               *)
(* (recover_in_place): roll_back restores an entry only while the target    *)
(* has the contents that entry wrote (restore_backup_with).                 *)
THEOREM EditsAreKept == Spec => KeepsEdits
<1> DEFINE Inv == TypeOK /\ MirrorInv /\ PrefixInv
<1> DEFINE Kept == (phase # "idle" /\ edits' = edits) =>
       \A t \in Target :
         file'[t] # file[t] =>
           \/ phase = "start" /\ ipMark # None /\ ipMark.target = t
           \/ \E i \in DOMAIN job.entries :
                job.entries[i].target = t /\ job.entries[i].new = file[t]
<1>1. Init => Inv
  BY Initially DEF IInv, Init, PrefixInv
<1>2. Inv /\ [Next]_vars => Inv'
  BY TypeStep, MirrorStep, PrefixStep
<1>3. Inv /\ [Next]_vars => [Kept]_vars
  <2> SUFFICES ASSUME Inv, [Next]_vars, phase # "idle", edits' = edits,
                      NEW t \in Target, file'[t] # file[t]
               PROVE  \/ phase = "start" /\ ipMark # None /\ ipMark.target = t
                      \/ \E i \in DOMAIN job.entries :
                           job.entries[i].target = t /\ job.entries[i].new = file[t]
    OBVIOUS
  <2>1. CASE UNCHANGED fileVars
    BY <2>1 DEF fileVars
  <2>2. CASE Edit
    BY <2>2 DEF Edit, TypeOK, ControlTypes
  <2>3. ASSUME NEW u \in Target, NEW c \in Content, NEW j \in BOOLEAN, NEW out \in Outcomes,
               WriteTarget(u, c, j, out)
        PROVE  FALSE
    BY <2>3 DEF WriteTarget, Served
  <2>4. ASSUME NEW s \in Stamp, NEW out \in Outcomes, Restore(s, out) PROVE FALSE
    BY <2>4 DEF Restore, Served
  <2>5. ASSUME NEW out \in Outcomes, RestoreEntry(out)
        PROVE  \E i \in DOMAIN job.entries :
                 job.entries[i].target = t /\ job.entries[i].new = file[t]
    <3> DEFINE n == Len(todo)
    <3>1. todo \in Seq(Entry) /\ todo # <<>> /\ phase = "restore" /\ FileTypes
      BY <2>5 DEF RestoreEntry, TypeOK, CommitTypes
    <3>2. n \in DOMAIN todo /\ n \in DOMAIN job.entries /\ todo[n] = job.entries[n]
      BY <3>1, LastOf DEF PrefixInv
    <3>3. todo[n] \in Entry
      BY <3>1, <3>2
    <3>t. todo[n].target \in Target
      BY <3>3 DEF Entry
    <3>4. /\ Unedited(todo[n])
          /\ WriteAtomic(todo[n].target, backups[todo[n].backup].contents, DefaultKeep, out)
      BY <2>5 DEF RestoreEntry, RestoreOne, fileVars
    <3>5. todo[n].target = t
      BY <3>1, <3>t, <3>4, WriteElsewhere
    <3> QED
      BY <3>2, <3>4, <3>5 DEF Unedited
  <2>6. ASSUME NEW out \in Outcomes, RecoverInPlace(out)
        PROVE  phase = "start" /\ ipMark # None /\ ipMark.target = t
    BY <2>6 DEF RecoverInPlace, fileVars, TypeOK, FileTypes
  <2> QED
    BY <2>1, <2>2, <2>3, <2>4, <2>5, <2>6, FileSteps
<1> QED
  BY <1>1, <1>2, <1>3, PTL DEF Spec, KeepsEdits

(* The unit files are reloaded before the service is run again.             *)
ReloadInv ==
  (phase = "replay" /\ edits = 0 /\ Targets(job.entries) \cap Reloading # {}) =>
    \A t \in Target : units[t] = file[t]

LEMMA ServiceStep ==
  ASSUME "hook" \notin Faults, TypeOK, ReloadInv, ServiceFollows, [Next]_vars
  PROVE  ReloadInv' /\ ServiceFollows'
<1>0. ~Failing("hook")
  BY DEF Failing
<1>1. CASE phase' \notin {"replay", "clear"}
  BY <1>1 DEF ReloadInv, ServiceFollows
<1>2. CASE phase' \in {"replay", "clear"}
  <2>1. CASE Edit
    <3>1. edits' # 0
      BY <2>1 DEF Edit, TypeOK, ControlTypes
    <3> QED
      BY <3>1 DEF ReloadInv, ServiceFollows
  <2>2. CASE Restored
    BY <1>2, <2>2 DEF Restored
  <2>3. ASSUME NEW out \in Outcomes, StopMounts(out) \/ RestoreEntry(out) PROVE FALSE
    BY <1>2, <2>3 DEF StopMounts, RestoreEntry, RestoreOne
  <2>4. ASSUME NEW out \in Outcomes, ReplayReload(out) PROVE ReloadInv' /\ ServiceFollows'
    <3>1. /\ phase' = "replay" /\ UNCHANGED <<file, job>>
          /\ Targets(job.entries) \cap Reloading # {} => units' = [t \in Target |-> file[t]]
      BY <1>0, <2>4 DEF ReplayReload, fileVars, commitVars
    <3> QED
      BY <3>1 DEF ReloadInv, ServiceFollows, Targets
  <2>5. ASSUME NEW out \in Outcomes, ReplayService(out) PROVE ReloadInv' /\ ServiceFollows'
    <3>1. /\ phase = "replay" /\ phase' = "clear" /\ UNCHANGED <<file, job, edits>>
          /\ job.service # None => svc' = [svc EXCEPT ![job.service] = RunsWith(job.service)]
      BY <1>0, <2>5 DEF ReplayService, fileVars, commitVars
    <3>2. job.service \in Target \cup {None} /\ svc \in [Target -> FileState]
      BY JobParts DEF TypeOK, CommitTypes, HookTypes
    <3>3. ASSUME edits = 0, job.service \in Targets(job.entries), job.service # None
          PROVE  RunsWith(job.service) = file[job.service]
      <4>1. job.service \in Reloading => Targets(job.entries) \cap Reloading # {}
        BY <3>3
      <4> QED
        BY <3>1, <3>2, <3>3, <4>1 DEF ReloadInv, RunsWith
    <3>4. None \notin Targets(job.entries)
      <4>0. job.entries \in Seq(Entry)
        BY JobParts DEF TypeOK, CommitTypes
      <4>1. \A i \in DOMAIN job.entries : job.entries[i] \in Entry
        BY <4>0
      <4> QED
        BY <4>1, SentinelsAssumption DEF Targets, Entry
    <3>5. ServiceFollows'
      <4> SUFFICES ASSUME edits = 0, job.service \in Targets(job.entries)
                   PROVE  svc'[job.service] = file[job.service]
        BY <3>1 DEF ServiceFollows, Targets
      <4>1. job.service # None
        BY <3>4
      <4> QED
        BY <3>1, <3>2, <3>3, <4>1
    <3> QED
      BY <3>1, <3>5 DEF ReloadInv
  <2>6. CASE UNCHANGED <<phase, job, todo, fileVars, hookVars, edits>>
    BY <2>6 DEF ReloadInv, ServiceFollows, Targets, fileVars, hookVars
  <2> QED
    BY <1>2, <2>1, <2>2, <2>3, <2>4, <2>5, <2>6, RollbackSteps
<1> QED
  BY <1>1, <1>2

(* With working hooks and nobody else writing, a rollback ends with the     *)
(* service of a restored target on the contents of its file, whatever       *)
(* restores failed and however often the rollback was started again         *)
(* (replay_reload, then replay_service).                                    *)
THEOREM ServiceFollowsTheFile ==
  ASSUME "hook" \notin Faults
  PROVE  Spec => []ServiceFollows
<1> DEFINE Inv == TypeOK /\ MirrorInv /\ ReloadInv /\ ServiceFollows
<1>1. Init => Inv
  BY Initially DEF IInv, Init, ReloadInv, ServiceFollows
<1>2. Inv /\ [Next]_vars => Inv'
  BY TypeStep, MirrorStep, ServiceStep
<1> QED
  BY <1>1, <1>2, PTL DEF Spec

----------------------------------------------------------------------------
(* A name taken for a backup is never used again, and its backup is only    *)
(* ever removed.                                                            *)
LEMMA TakeBackupAges ==
  ASSUME FileTypes, NEW t \in Target, NEW keep \in Nat, TakeBackup(t, keep)
  PROVE  /\ stamp <= stamp'
         /\ \A s \in Stamp : s <= stamp => backups'[s] \in {backups[s], None}
         /\ BackupTaken(t, keep) =>
              /\ stamp' = stamp + 1 /\ stamp + 1 \in Stamp
              /\ backups'[stamp + 1] \in {[target |-> t, contents |-> file[t]], None}
<1>0. stamp \in Nat
  BY DEF FileTypes
<1>1. CASE BackupTaken(t, keep)
  <2> DEFINE bk == [backups EXCEPT ![stamp + 1] = [target |-> t, contents |-> file[t]]]
  <2>1. stamp' = stamp + 1 /\ backups' = Rotated(bk, t, keep)
    BY <1>1 DEF TakeBackup, BackupTaken
  <2>2. stamp + 1 \in Stamp
    BY <1>1, TakeBackupType
  <2>3. \A s \in Stamp : backups'[s] \in {bk[s], None}
    BY <2>1 DEF Rotated
  <2>4. \A s \in Stamp : s <= stamp => bk[s] = backups[s]
    BY <1>0, <2>2 DEF FileTypes, Stamp
  <2>5. bk[stamp + 1] = [target |-> t, contents |-> file[t]]
    BY <2>2 DEF FileTypes
  <2>6. stamp <= stamp'
    BY <1>0, <2>1
  <2>7. \A s \in Stamp : s <= stamp => backups'[s] \in {backups[s], None}
    BY <2>3, <2>4
  <2>8. backups'[stamp + 1] \in {[target |-> t, contents |-> file[t]], None}
    BY <2>2, <2>3, <2>5
  <2> QED
    BY <2>1, <2>2, <2>6, <2>7, <2>8
<1>2. CASE ~BackupTaken(t, keep)
  BY <1>0, <1>2 DEF TakeBackup, BackupTaken
<1> QED
  BY <1>1, <1>2

LEMMA WriteAtomicAges ==
  ASSUME FileTypes, NEW t \in Target, NEW c, NEW keep \in Nat, NEW out,
         WriteAtomic(t, c, keep, out)
  PROVE  /\ stamp <= stamp'
         /\ \A s \in Stamp : s <= stamp => backups'[s] \in {backups[s], None}
<1>1. CASE TakeBackup(t, keep)
  BY <1>1, TakeBackupAges
<1>2. CASE UNCHANGED fileVars
  BY <1>2 DEF fileVars, FileTypes
<1> QED
  BY <1>1, <1>2 DEF WriteAtomic

LEMMA BackupsAge ==
  ASSUME TypeOK, [Next]_vars
  PROVE  /\ stamp <= stamp'
         /\ \A s \in Stamp : s <= stamp => backups'[s] \in {backups[s], None}
<1>0. FileTypes /\ stamp \in Nat /\ KeepBackups \in Nat /\ DefaultKeep \in Nat
  BY ConstantsAssumption DEF TypeOK, FileTypes
<1>1. CASE UNCHANGED fileVars
  BY <1>0, <1>1 DEF fileVars
<1>2. CASE Edit
  BY <1>0, <1>2 DEF Edit
<1>3. ASSUME NEW t \in Target, NEW c \in Content, NEW j \in BOOLEAN, NEW out \in Outcomes,
             WriteTarget(t, c, j, out)
      PROVE  /\ stamp <= stamp'
             /\ \A s \in Stamp : s <= stamp => backups'[s] \in {backups[s], None}
  BY <1>0, <1>3, WriteAtomicAges DEF WriteTarget
<1>4. ASSUME NEW r \in Stamp, NEW out \in Outcomes, Restore(r, out)
      PROVE  /\ stamp <= stamp'
             /\ \A s \in Stamp : s <= stamp => backups'[s] \in {backups[s], None}
  <2>1. backups[r].target \in Target
    BY <1>0, <1>4 DEF Restore, FileTypes, Backup
  <2> QED
    BY <1>0, <1>4, <2>1, WriteAtomicAges DEF Restore
<1>5. ASSUME NEW out \in Outcomes, RestoreEntry(out)
      PROVE  /\ stamp <= stamp'
             /\ \A s \in Stamp : s <= stamp => backups'[s] \in {backups[s], None}
  <2> DEFINE e == todo[Len(todo)]
  <2>1. todo \in Seq(Entry) /\ todo # <<>>
    BY <1>5 DEF RestoreEntry, TypeOK, CommitTypes
  <2>2. e \in Entry
    BY <2>1, LastOf
  <2>3. e.target \in Target
    BY <2>2 DEF Entry
  <2>4. WriteAtomic(e.target, backups[e.backup].contents, DefaultKeep, out) \/ UNCHANGED fileVars
    BY <1>5 DEF RestoreEntry, RestoreOne
  <2> QED
    BY <1>0, <1>1, <2>3, <2>4, WriteAtomicAges
<1>6. ASSUME NEW out \in Outcomes, RecoverInPlace(out)
      PROVE  /\ stamp <= stamp'
             /\ \A s \in Stamp : s <= stamp => backups'[s] \in {backups[s], None}
  <2>1. CASE UNCHANGED <<backups, stamp>>
    BY <1>0, <2>1
  <2>2. CASE ipMark # None /\ TakeBackup(ipMark.target, DefaultKeep)
    <3>1. ipMark.target \in Target
      BY <1>0, <2>2 DEF FileTypes, InPlaceMarker
    <3> QED
      BY <1>0, <2>2, <3>1, TakeBackupAges
  <2> QED
    BY <1>6, <2>1, <2>2 DEF RecoverInPlace, fileVars
<1> QED
  BY <1>1, <1>2, <1>3, <1>4, <1>5, <1>6, FileSteps

(* While the backup of an entry is there, it is one of the entry's target   *)
(* and holds what the entry's write replaced.                               *)
Known(e, bk, last) ==
  /\ e.backup <= last
  /\ bk[e.backup] # None => bk[e.backup].target = e.target /\ bk[e.backup].contents = e.prev

AllKnown(entries, bk, last) == \A i \in DOMAIN entries : Known(entries[i], bk, last)

KnownInv ==
  /\ AllKnown(journal, backups, stamp) /\ AllKnown(job.entries, backups, stamp)
  /\ marker \in Armed => AllKnown(marker.entries, backups, stamp)
  /\ \A m \in markerDisk : m \in Armed => AllKnown(m.entries, backups, stamp)

LEMMA KnownKept ==
  ASSUME TypeOK, TypeOK', [Next]_vars, NEW entries \in Seq(Entry),
         AllKnown(entries, backups, stamp)
  PROVE  AllKnown(entries, backups', stamp')
<1> SUFFICES ASSUME NEW i \in DOMAIN entries PROVE Known(entries[i], backups', stamp')
  BY DEF AllKnown
<1>1. entries[i] \in Entry /\ Known(entries[i], backups, stamp)
  BY DEF AllKnown
<1>2. entries[i].backup \in Stamp /\ entries[i].backup \in Nat
  BY <1>1 DEF Entry, Stamp
<1>3. stamp \in Nat /\ stamp' \in Nat
  BY DEF TypeOK, FileTypes
<1>4. entries[i].backup <= stamp'
  BY <1>1, <1>2, <1>3, BackupsAge DEF Known
<1>5. backups'[entries[i].backup] \in {backups[entries[i].backup], None}
  BY <1>1, <1>2, BackupsAge DEF Known
<1> QED
  BY <1>1, <1>4, <1>5 DEF Known

(* Where the entries of the journal, the job and the marker come from.      *)
LEMMA JournalSteps ==
  ASSUME [Next]_vars
  PROVE  \/ journal' \in {journal, <<>>}
         \/ \E t \in Target, c \in Content, j \in BOOLEAN, out \in Outcomes :
              WriteTarget(t, c, j, out)
<1>1. CASE \E t \in Target, out \in Outcomes :
             Service(t, out) \/ ReloadUnitFiles(t, out) \/ Mount(t, out)
  BY <1>1 DEF Service, ReloadUnitFiles, Mount, commitVars
<1>2. CASE \E c \in Commit, timeout \in Requested, s \in Target \cup {None} :
             StartConfirmTimer(c, timeout, s)
  BY <1>2 DEF StartConfirmTimer
<1>3. CASE ConfirmExpired \/ ConfirmCommit \/ RollbackCommit \/ EnforceDeadline \/ Exit
  BY <1>3 DEF ConfirmExpired, ConfirmCommit, RollbackCommit, EnforceDeadline, Exit, RollBack,
              commitVars
<1>4. CASE Hello \/ Ask \/ ArmMarker \/ ArmFails \/ Committed \/ Poll \/ Reaped \/ Start \/ Tick \/ Edit
  BY <1>4 DEF Hello, Ask, Served, ArmMarker, ArmFails, Committed, Poll, Reaped, Start, Tick, Edit, commitVars
<1>5. CASE \E out \in Outcomes : StopMounts(out) \/ ReplayReload(out) \/ ReplayService(out) \/ MountUnits(out)
  BY <1>5 DEF StopMounts, ReplayReload, ReplayService, MountUnits, commitVars
<1>6. CASE Restored \/ ClearMarker \/ ClearFails \/ RecoverPending \/ Crash \/ PowerLoss
  BY <1>6 DEF Restored, ClearMarker, ClearFails, RecoverPending, Crash, PowerLoss, Die, commitVars
<1>7. CASE \/ \E s \in Stamp, out \in Outcomes : Restore(s, out)
           \/ \E out \in Outcomes : RestoreEntry(out) \/ RecoverInPlace(out)
  BY <1>7 DEF Restore, RestoreEntry, RestoreOne, RecoverInPlace, commitVars
<1>8. CASE UNCHANGED vars
  BY <1>8 DEF vars, commitVars
<1> QED
  BY <1>1, <1>2, <1>3, <1>4, <1>5, <1>6, <1>7, <1>8 DEF Next, Request, Step

LEMMA JobSteps ==
  ASSUME TypeOK, MirrorInv, [Next]_vars
  PROVE  \/ job' = job \/ job' = NoJob
         \/ job'.entries = journal
         \/ marker \in Armed /\ job'.entries = marker.entries
<1>0. /\ pending \in Armed \cup {None} /\ marker \in Armed \cup {None, Corrupt}
      /\ pending # None => marker = pending
  BY DEF TypeOK, CommitTypes, MirrorInv
<1>1. CASE \E t \in Target, out \in Outcomes :
             Service(t, out) \/ ReloadUnitFiles(t, out) \/ Mount(t, out)
  BY <1>1 DEF Service, ReloadUnitFiles, Mount, commitVars
<1>2. CASE \E c \in Commit, timeout \in Requested, s \in Target \cup {None} :
             StartConfirmTimer(c, timeout, s)
  BY <1>2 DEF StartConfirmTimer
<1>3. CASE ConfirmExpired \/ ConfirmCommit \/ RollbackCommit \/ EnforceDeadline \/ Exit
  <2>1. job' = job \/ (pending # None /\ \E why \in Causes : job' = JobOf(pending, why))
    BY <1>3 DEF ConfirmExpired, ConfirmCommit, RollbackCommit, EnforceDeadline, Exit, RollBack,
                commitVars, Causes
  <2> QED
    BY <1>0, <2>1 DEF JobOf
<1>4. CASE Hello \/ Ask \/ ArmMarker \/ ArmFails \/ Committed \/ Poll \/ Reaped \/ Start \/ Tick \/ Edit
  BY <1>4 DEF Hello, Ask, Served, ArmMarker, ArmFails, Committed, Poll, Reaped, Start, Tick, Edit, commitVars
<1>5. CASE \E out \in Outcomes : StopMounts(out) \/ ReplayReload(out) \/ ReplayService(out) \/ MountUnits(out)
  BY <1>5 DEF StopMounts, ReplayReload, ReplayService, MountUnits, commitVars
<1>6. CASE Restored \/ ClearMarker \/ ClearFails \/ Crash \/ PowerLoss
  BY <1>6 DEF Restored, ClearMarker, ClearFails, Crash, PowerLoss, Die, commitVars
<1>7. CASE RecoverPending
  BY <1>0, <1>7 DEF RecoverPending, JobOf
<1>8. CASE \/ \E s \in Stamp, out \in Outcomes : Restore(s, out)
           \/ \E out \in Outcomes : RestoreEntry(out) \/ RecoverInPlace(out)
           \/ \E t \in Target, c \in Content, j \in BOOLEAN, out \in Outcomes :
                WriteTarget(t, c, j, out)
  BY <1>8 DEF Restore, RestoreEntry, RestoreOne, RecoverInPlace, WriteTarget, commitVars
<1>9. CASE UNCHANGED vars
  BY <1>9 DEF vars, commitVars
<1> QED
  BY <1>1, <1>2, <1>3, <1>4, <1>5, <1>6, <1>7, <1>8, <1>9 DEF Next, Request, Step

LEMMA MarkerSteps ==
  ASSUME [Next]_vars
  PROVE  /\ marker' \in markerDisk \cup {marker, None, Corrupt, ArmedOf(job)}
         /\ markerDisk' \subseteq markerDisk \cup {None, Corrupt, ArmedOf(job)}
<1>1. CASE \E t \in Target, out \in Outcomes :
             Service(t, out) \/ ReloadUnitFiles(t, out) \/ Mount(t, out)
  BY <1>1 DEF Service, ReloadUnitFiles, Mount, commitVars
<1>2. CASE \E c \in Commit, timeout \in Requested, s \in Target \cup {None} :
             StartConfirmTimer(c, timeout, s)
  BY <1>2 DEF StartConfirmTimer
<1>3. CASE ConfirmExpired \/ ConfirmCommit \/ RollbackCommit \/ EnforceDeadline \/ Exit
  BY <1>3 DEF ConfirmExpired, ConfirmCommit, RollbackCommit, EnforceDeadline, Exit, RollBack,
              commitVars
<1>4. CASE Hello \/ Ask \/ ArmMarker \/ ArmFails \/ Committed \/ Poll \/ Reaped \/ Start \/ Tick \/ Edit
  BY <1>4 DEF Hello, Ask, Served, ArmMarker, ArmFails, Committed, Poll, Reaped, Start, Tick, Edit, commitVars
<1>5. CASE \E out \in Outcomes : StopMounts(out) \/ ReplayReload(out) \/ ReplayService(out) \/ MountUnits(out)
  BY <1>5 DEF StopMounts, ReplayReload, ReplayService, MountUnits, commitVars
<1>6. CASE Restored \/ ClearMarker \/ ClearFails \/ RecoverPending \/ Crash \/ PowerLoss
  BY <1>6 DEF Restored, ClearMarker, ClearFails, RecoverPending, Crash, PowerLoss, Die, commitVars
<1>7. CASE \/ \E s \in Stamp, out \in Outcomes : Restore(s, out)
           \/ \E out \in Outcomes : RestoreEntry(out) \/ RecoverInPlace(out)
           \/ \E t \in Target, c \in Content, j \in BOOLEAN, out \in Outcomes :
                WriteTarget(t, c, j, out)
  BY <1>7 DEF Restore, RestoreEntry, RestoreOne, RecoverInPlace, WriteTarget, commitVars
<1>8. CASE UNCHANGED vars
  BY <1>8 DEF vars, commitVars
<1> QED
  BY <1>1, <1>2, <1>3, <1>4, <1>5, <1>6, <1>7, <1>8 DEF Next, Request, Step

(* A journaled write: its own backup is the one it names.                   *)
LEMMA JournaledKnown ==
  ASSUME TypeOK, TypeOK', KnownInv, [Next]_vars,
         NEW t \in Target, NEW c \in Content, NEW j \in BOOLEAN, NEW out \in Outcomes,
         WriteTarget(t, c, j, out)
  PROVE  AllKnown(journal', backups', stamp')
<1>0. /\ FileTypes /\ journal \in Seq(Entry) /\ KeepBackups \in Nat
      /\ stamp \in Nat /\ stamp' \in Nat
  <2>1. stamp \in Nat /\ stamp' \in Nat
    BY DEF TypeOK, FileTypes
  <2> QED
    BY <2>1, ConstantsAssumption DEF TypeOK, CommitTypes
<1>1. AllKnown(journal, backups', stamp')
  BY <1>0, KnownKept DEF KnownInv
<1>2. CASE journal' = journal
  BY <1>1, <1>2
<1>3. CASE journal' # journal
  <2> DEFINE e == [target |-> t, backup |-> stamp + 1, new |-> c, prev |-> file[t]]
             old == IF pending = None THEN <<>> ELSE journal
  <2>1. journal' = Append(old, e) /\ out = "ok" /\ BackupTaken(t, KeepBackups)
    BY <1>3 DEF WriteTarget, Journaled
  <2>2. TakeBackup(t, KeepBackups)
    <3>1. ~Failing("io") \/ out # "failed"
      BY <2>1
    <3> QED
      BY <2>1 DEF WriteTarget, WriteAtomic
  <2>3. /\ stamp' = stamp + 1 /\ stamp + 1 \in Stamp
        /\ backups'[stamp + 1] \in {[target |-> t, contents |-> file[t]], None}
    BY <1>0, <2>1, <2>2, TakeBackupAges
  <2>4. Known(e, backups', stamp')
    BY <1>0, <2>3 DEF Known
  <2>5. old \in Seq(Entry) /\ AllKnown(old, backups', stamp')
    BY <1>0, <1>1 DEF AllKnown
  <2>6. /\ DOMAIN journal' = 1 .. Len(old) + 1
        /\ \A i \in 1 .. Len(old) : i \in DOMAIN old /\ journal'[i] = old[i]
        /\ journal'[Len(old) + 1] = e
    BY <2>1, <2>5, AppendProperties
  <2>7. ASSUME NEW i \in DOMAIN journal' PROVE Known(journal'[i], backups', stamp')
    <3>1. CASE i = Len(old) + 1
      BY <2>4, <2>6, <3>1
    <3>2. CASE i # Len(old) + 1
      <4>1. Len(old) \in Nat
        BY <2>5
      <4>2. i \in 1 .. Len(old)
        BY <2>6, <3>2, <4>1
      <4> QED
        BY <2>5, <2>6, <4>2 DEF AllKnown
    <3> QED
      BY <3>1, <3>2
  <2> QED
    BY <2>7 DEF AllKnown
<1> QED
  BY <1>2, <1>3

LEMMA KnownStep ==
  ASSUME TypeOK, TypeOK', MirrorInv, KnownInv, [Next]_vars
  PROVE  KnownInv'
<1>0. /\ journal \in Seq(Entry) /\ job.entries \in Seq(Entry)
      /\ marker \in Armed \cup {None, Corrupt} /\ markerDisk \subseteq Armed \cup {None, Corrupt}
      /\ \A m \in Armed : m.entries \in Seq(Entry)
  BY JobParts DEF TypeOK, CommitTypes, Armed
<1>1. AllKnown(journal, backups', stamp') /\ AllKnown(job.entries, backups', stamp')
  BY <1>0, KnownKept DEF KnownInv
<1>2. marker \in Armed => AllKnown(marker.entries, backups', stamp')
  BY <1>0, KnownKept DEF KnownInv
<1>3. \A m \in markerDisk : m \in Armed => AllKnown(m.entries, backups', stamp')
  BY <1>0, KnownKept DEF KnownInv
<1>4. AllKnown(<<>>, backups', stamp')
  BY DEF AllKnown
<1>5. AllKnown(journal', backups', stamp')
  BY <1>1, <1>4, JournalSteps, JournaledKnown
<1>6. AllKnown(job'.entries, backups', stamp')
  BY <1>1, <1>2, <1>4, JobSteps DEF NoJob
<1>7. ArmedOf(job).entries = job.entries
  BY DEF ArmedOf
<1>8. marker' \in Armed => AllKnown(marker'.entries, backups', stamp')
  BY <1>1, <1>2, <1>3, <1>7, MarkerSteps, MarkerAssumption
<1>9. \A m \in markerDisk' : m \in Armed => AllKnown(m.entries, backups', stamp')
  BY <1>1, <1>3, <1>7, MarkerSteps, MarkerAssumption
<1> QED
  BY <1>5, <1>6, <1>8, <1>9 DEF KnownInv, AllKnown, Known, Armed

(* When a rollback can undo a commit: the backups of all its entries are    *)
(* there, and each write to a target found what the one before had left.    *)
Intact(entries) == \A i \in DOMAIN entries : backups[entries[i].backup] # None

Chained(entries) ==
  \A i, j \in DOMAIN entries :
    /\ i < j /\ entries[i].target = entries[j].target
    /\ \A k \in i + 1 .. j - 1 : entries[k].target # entries[j].target
    => entries[j].prev = entries[i].new

(* The entries after the n-th are undone for target t, whose contents are   *)
(* c: it is as the first of them found it, or as none of them left it, or   *)
(* someone edited it.                                                       *)
Undone(entries, c, edited, n, t) ==
  \/ edited > 0 /\ c \in Edited
  \/ \A i \in DOMAIN entries : i > n /\ entries[i].target = t => entries[i].new # c
  \/ \E k \in DOMAIN entries :
       /\ k > n /\ entries[k].target = t /\ entries[k].prev = c
       /\ \A i \in n + 1 .. k - 1 : entries[i].target # t

WalkInv ==
  /\ ipMark = None
  /\ phase = "reload" => todo = <<>>
  /\ phase \in {"restore", "reload"} /\ Intact(job.entries) /\ Chained(job.entries) =>
       \A t \in Target : Undone(job.entries, file[t], edits, Len(todo), t)

(* An entry that is skipped, since its target is not as it left it, or that *)
(* is of another target, leaves nothing to undo.                            *)
LEMMA SkippedIsUndone ==
  ASSUME NEW entries \in Seq(Entry), Chained(entries), NEW n \in DOMAIN entries,
         NEW t, NEW c, NEW edited, Undone(entries, c, edited, n, t),
         entries[n].target = t => entries[n].new # c
  PROVE  Undone(entries, c, edited, n - 1, t)
<1>0. n \in Nat /\ DOMAIN entries \subseteq Nat
  OBVIOUS
<1>1. CASE edited > 0 /\ c \in Edited
  BY <1>1 DEF Undone
<1>2. CASE \A i \in DOMAIN entries : i > n /\ entries[i].target = t => entries[i].new # c
  <2>1. ASSUME NEW i \in DOMAIN entries, i > n - 1, entries[i].target = t
        PROVE  entries[i].new # c
    <3>1. i = n \/ i > n
      BY <1>0, <2>1
    <3> QED
      BY <1>2, <2>1, <3>1
  <2> QED
    BY <2>1 DEF Undone
<1>3. ASSUME NEW k \in DOMAIN entries, k > n, entries[k].target = t, entries[k].prev = c,
             \A i \in n + 1 .. k - 1 : entries[i].target # t
      PROVE  Undone(entries, c, edited, n - 1, t)
  <2>1. entries[n].target # t
    <3> SUFFICES ASSUME entries[n].target = t PROVE FALSE
      OBVIOUS
    <3>1. n < k
      BY <1>0, <1>3
    <3>2. entries[k].prev = entries[n].new
      BY <1>3, <3>1 DEF Chained
    <3> QED
      BY <1>3, <3>2
  <2>2. \A i \in (n - 1) + 1 .. k - 1 : entries[i].target # t
    <3> SUFFICES ASSUME NEW i \in (n - 1) + 1 .. k - 1 PROVE entries[i].target # t
      OBVIOUS
    <3>1. i = n \/ i \in n + 1 .. k - 1
      BY <1>0
    <3> QED
      BY <1>3, <2>1, <3>1
  <2>3. k > n - 1
    BY <1>0, <1>3
  <2> QED
    BY <1>3, <2>2, <2>3 DEF Undone
<1> QED
  BY <1>1, <1>2, <1>3 DEF Undone

(* An entry that is restored leaves its target as it had found it.          *)
LEMMA RestoredIsUndone ==
  ASSUME NEW entries \in Seq(Entry), NEW n \in DOMAIN entries, NEW edited
  PROVE  Undone(entries, entries[n].prev, edited, n - 1, entries[n].target)
<1>1. n \in Nat /\ n > n - 1 /\ (n - 1) + 1 .. n - 1 = {}
  OBVIOUS
<1> QED
  BY <1>1 DEF Undone

(* Without failing calls, a restore writes what it is asked to.             *)
LEMMA RestoreWrites ==
  ASSUME "io" \notin Faults, ipMark = None, NEW t \in Target, file[t] \in Content, NEW c, NEW out,
         WriteAtomic(t, c, DefaultKeep, out)
  PROVE  file' = [file EXCEPT ![t] = c]
<1>1. ~Failing("io")
  BY DEF Failing
<1>2. BackupTaken(t, DefaultKeep)
  BY ConstantsAssumption, SentinelsAssumption DEF BackupTaken
<1>3. CanReplace(t, DefaultKeep)
  BY <1>2 DEF CanReplace
<1> QED
  BY <1>1, <1>3 DEF WriteAtomic, Replace

LEMMA NoInPlaceMarker ==
  ASSUME "io" \notin Faults, ipMark = None, [Next]_vars
  PROVE  ipMark' = None
<1>0. ~Failing("io")
  BY DEF Failing
<1>1. ASSUME NEW t, NEW c, NEW keep, NEW out, WriteAtomic(t, c, keep, out) PROVE ipMark' = ipMark
  BY <1>0, <1>1 DEF WriteAtomic, Replace, fileVars
<1>2. CASE UNCHANGED fileVars \/ Edit
  BY <1>2 DEF fileVars, Edit
<1>3. ASSUME NEW t \in Target, NEW c \in Content, NEW j \in BOOLEAN, NEW out \in Outcomes,
             WriteTarget(t, c, j, out)
      PROVE  ipMark' = None
  BY <1>1, <1>3 DEF WriteTarget
<1>4. ASSUME NEW s \in Stamp, NEW out \in Outcomes, Restore(s, out) PROVE ipMark' = None
  BY <1>1, <1>4 DEF Restore
<1>5. ASSUME NEW out \in Outcomes, RestoreEntry(out) PROVE ipMark' = None
  BY <1>1, <1>5 DEF RestoreEntry, RestoreOne, fileVars
<1>6. ASSUME NEW out \in Outcomes, RecoverInPlace(out) PROVE ipMark' = None
  BY <1>6 DEF RecoverInPlace, fileVars
<1> QED
  BY <1>2, <1>3, <1>4, <1>5, <1>6, FileSteps

(* A backup that is there after a step was there before it.                 *)
LEMMA IntactBefore ==
  ASSUME TypeOK, [Next]_vars, KnownInv, \A i \in DOMAIN job.entries : backups'[job.entries[i].backup] # None
  PROVE  Intact(job.entries)
<1> SUFFICES ASSUME NEW i \in DOMAIN job.entries PROVE backups[job.entries[i].backup] # None
  BY DEF Intact
<1>1. job.entries \in Seq(Entry)
  BY JobParts DEF TypeOK, CommitTypes
<1>2. job.entries[i] \in Entry
  BY <1>1
<1>3. job.entries[i].backup \in Stamp
  BY <1>2 DEF Entry
<1>4. job.entries[i].backup <= stamp
  BY DEF KnownInv, AllKnown, Known
<1> QED
  BY <1>3, <1>4, BackupsAge

LEMMA WalkStep ==
  ASSUME "io" \notin Faults, TypeOK, PrefixInv, KnownInv, WalkInv, [Next]_vars
  PROVE  WalkInv'
<1>1. ipMark' = None
  BY NoInPlaceMarker DEF WalkInv
<1>2. phase' = "reload" => todo' = <<>>
  <2> SUFFICES ASSUME phase' = "reload" PROVE todo' = <<>>
    OBVIOUS
  <2>1. CASE Edit \/ Restored
    BY <2>1 DEF Edit, Restored, commitVars, WalkInv
  <2>2. ASSUME NEW out \in Outcomes,
               StopMounts(out) \/ RestoreEntry(out) \/ ReplayReload(out) \/ ReplayService(out)
        PROVE  FALSE
    BY <2>2 DEF StopMounts, RestoreEntry, RestoreOne, ReplayReload, ReplayService
  <2>3. CASE UNCHANGED <<phase, job, todo, fileVars, hookVars, edits>>
    BY <2>3 DEF WalkInv
  <2> QED
    BY <2>1, <2>2, <2>3, RollbackSteps
<1>3. ASSUME phase' \in {"restore", "reload"}, Intact(job.entries)', Chained(job.entries)',
             NEW t \in Target
      PROVE  Undone(job'.entries, file'[t], edits', Len(todo'), t)
  <2>0. /\ job.entries \in Seq(Entry) /\ todo \in Seq(Entry) /\ FileTypes
        /\ edits \in Nat
    <3>1. edits \in Nat
      BY DEF TypeOK, ControlTypes
    <3> QED
      BY <3>1, JobParts DEF TypeOK, CommitTypes
  <2>i. ASSUME job' = job PROVE Intact(job.entries) /\ Chained(job.entries)
    <3>1. \A i \in DOMAIN job.entries : backups'[job.entries[i].backup] # None
      BY <1>3, <2>i DEF Intact
    <3>2. Chained(job.entries)
      BY <1>3, <2>i DEF Chained
    <3> QED
      BY <3>1, <3>2, IntactBefore
  <2>1. CASE Edit
    <3>1. /\ phase' = phase /\ job' = job /\ todo' = todo /\ edits' = edits + 1
          /\ file'[t] = file[t] \/ file'[t] \in Edited
      BY <2>0, <2>1 DEF Edit, commitVars, FileTypes
    <3>2. Undone(job.entries, file[t], edits, Len(todo), t)
      BY <1>3, <2>i, <3>1 DEF WalkInv
    <3>3. edits' > 0
      BY <2>0, <3>1
    <3>4. CASE file'[t] \in Edited
      BY <3>3, <3>4 DEF Undone
    <3>5. CASE file'[t] = file[t]
      BY <3>1, <3>2, <3>3, <3>5 DEF Undone
    <3> QED
      BY <3>1, <3>4, <3>5
  <2>2. CASE Restored
    <3>1. phase = "restore" /\ UNCHANGED <<job, todo, edits, file>>
      BY <2>2 DEF Restored, commitVars, fileVars, bounds
    <3>2. Undone(job.entries, file[t], edits, Len(todo), t)
      BY <1>3, <2>i, <3>1 DEF WalkInv
    <3> QED
      BY <3>1, <3>2
  <2>3. ASSUME NEW out \in Outcomes, StopMounts(out)
        PROVE  Undone(job'.entries, file'[t], edits', Len(todo'), t)
    <3>1. job' = job /\ todo' = job.entries
      BY <2>3 DEF StopMounts
    <3>2. \A i \in DOMAIN job.entries : ~(i > Len(job.entries))
      BY <2>0
    <3> QED
      BY <3>1, <3>2 DEF Undone
  <2>4. ASSUME NEW out \in Outcomes, RestoreEntry(out)
        PROVE  Undone(job'.entries, file'[t], edits', Len(todo'), t)
    <3> DEFINE n == Len(todo)
               e == todo[Len(todo)]
    <3>1. /\ phase = "restore" /\ todo # <<>> /\ job' = job /\ edits' = edits
          /\ todo' = SubSeq(todo, 1, n - 1)
      BY <2>4 DEF RestoreEntry, RestoreOne
    <3>2. n \in DOMAIN todo /\ Len(todo') = n - 1
      BY <2>0, <3>1, LastOf
    <3>3. n \in DOMAIN job.entries /\ e = job.entries[n]
      BY <3>1, <3>2 DEF PrefixInv
    <3>4. e \in Entry
      BY <2>0, <3>2
    <3>5. e.target \in Target /\ e.new \in Content
      BY <3>4 DEF Entry
    <3>6. Intact(job.entries) /\ Chained(job.entries) /\ backups[e.backup] # None
      BY <2>i, <3>1, <3>3 DEF Intact
    <3>7. Undone(job.entries, file[t], edits, n, t)
      BY <3>1, <3>6 DEF WalkInv
    <3>8. CASE file[e.target] = e.new
      <4>1. WriteAtomic(e.target, backups[e.backup].contents, DefaultKeep, out)
        BY <2>4, <3>6, <3>8 DEF RestoreEntry, RestoreOne, Unedited
      <4>2. backups[e.backup].contents = e.prev
        BY <3>3, <3>6 DEF KnownInv, AllKnown, Known
      <4>3. file[e.target] \in Content /\ ipMark = None
        BY <3>5, <3>8 DEF WalkInv
      <4>4. file' = [file EXCEPT ![e.target] = e.prev]
        BY <3>5, <4>1, <4>2, <4>3, RestoreWrites
      <4>5. CASE t = e.target
        <5>1. file'[t] = e.prev
          BY <2>0, <4>4, <4>5 DEF FileTypes
        <5>2. Undone(job.entries, job.entries[n].prev, edits, n - 1, job.entries[n].target)
          BY <2>0, <3>3, RestoredIsUndone
        <5> QED
          BY <3>1, <3>2, <3>3, <4>5, <5>1, <5>2
      <4>6. CASE t # e.target
        <5>1. file'[t] = file[t]
          BY <2>0, <4>4, <4>6 DEF FileTypes
        <5>2. Undone(job.entries, file[t], edits, n - 1, t)
          BY <2>0, <3>3, <3>6, <3>7, <4>6, SkippedIsUndone
        <5> QED
          BY <3>1, <3>2, <5>1, <5>2
      <4> QED
        BY <4>5, <4>6
    <3>9. CASE file[e.target] # e.new
      <4>1. file' = file
        BY <2>4, <3>9 DEF RestoreEntry, RestoreOne, Unedited, fileVars
      <4>2. Undone(job.entries, file[t], edits, n - 1, t)
        BY <2>0, <3>3, <3>6, <3>7, <3>9, SkippedIsUndone
      <4> QED
        BY <3>1, <3>2, <4>1, <4>2
    <3> QED
      BY <3>8, <3>9
  <2>5. ASSUME NEW out \in Outcomes, ReplayReload(out) \/ ReplayService(out) PROVE FALSE
    BY <1>3, <2>5 DEF ReplayReload, ReplayService
  <2>6. CASE UNCHANGED <<phase, job, todo, fileVars, hookVars, edits>>
    <3>1. phase' = phase /\ UNCHANGED <<job, todo, edits, file>>
      BY <2>6 DEF fileVars
    <3>2. Undone(job.entries, file[t], edits, Len(todo), t)
      BY <1>3, <2>i, <3>1 DEF WalkInv
    <3> QED
      BY <3>1, <3>2
  <2> QED
    BY <1>3, <2>1, <2>2, <2>3, <2>4, <2>5, <2>6, RollbackSteps
<1>4. phase' \in {"restore", "reload"} /\ Intact(job.entries)' /\ Chained(job.entries)' =>
        \A t \in Target : Undone(job'.entries, file'[t], edits', Len(todo'), t)
  BY <1>3
<1> QED
  BY <1>1, <1>2, <1>4 DEF WalkInv, Intact, Chained, Undone

(* The first entry of a target.                                             *)
LEMMA FirstIs ==
  ASSUME NEW entries \in Seq(Entry), NEW t, NEW k \in DOMAIN entries,
         entries[k].target = t, \A i \in 1 .. k - 1 : entries[i].target # t
  PROVE  First(entries, t) = entries[k]
<1> DEFINE P(i) == entries[i].target = t /\ \A j \in 1 .. i - 1 : entries[j].target # t
<1>1. P(k)
  OBVIOUS
<1>2. ASSUME NEW i \in DOMAIN entries, P(i) PROVE i = k
  <2>1. i \in Nat \ {0} /\ k \in Nat \ {0}
    OBVIOUS
  <2>2. ~(i < k)
    BY <1>2, <2>1
  <2>3. ~(k < i)
    BY <1>2, <2>1
  <2> QED
    BY <2>1, <2>2, <2>3
<1>3. (CHOOSE i \in DOMAIN entries : P(i)) = k
  BY <1>1, <1>2
<1> QED
  BY <1>3 DEF First

(* Without failing calls, a rollback undoes its commit, also when it is     *)
(* started again after kills and power losses and other tools write in      *)
(* between, for any number of entries and targets, as long as rotation has  *)
(* left the backups of the commit and no unjournaled write came between two *)
(* of its entries (roll_back, newest first; restore_backup_with).           *)
THEOREM RollbacksUndo ==
  ASSUME "io" \notin Faults
  PROVE  Spec => [](Intact(job.entries) /\ Chained(job.entries) => RollbackUndoes)
<1> DEFINE Inv == TypeOK /\ MirrorInv /\ PrefixInv /\ KnownInv /\ WalkInv
<1>1. Init => Inv
  <2> SUFFICES ASSUME Init PROVE Inv
    OBVIOUS
  <2>1. KnownInv
    BY MarkerAssumption DEF Init, KnownInv, AllKnown, NoJob
  <2> QED
    BY <2>1, Initially DEF IInv, Init, PrefixInv, WalkInv
<1>2. Inv /\ [Next]_vars => Inv'
  BY TypeStep, MirrorStep, PrefixStep, KnownStep, WalkStep
<1>3. Inv => (Intact(job.entries) /\ Chained(job.entries) => RollbackUndoes)
  <2> SUFFICES ASSUME Inv, Intact(job.entries), Chained(job.entries), phase = "reload",
                      NEW t \in Targets(job.entries)
               PROVE  \/ file[t] = First(job.entries, t).prev
                      \/ edits > 0 /\ file[t] \in Edited
                      \/ \A i \in DOMAIN job.entries :
                           job.entries[i].target = t => job.entries[i].new # file[t]
    BY DEF RollbackUndoes
  <2>1. job.entries \in Seq(Entry)
    BY JobParts DEF TypeOK, CommitTypes
  <2>2. t \in Target
    <3>1. \A i \in DOMAIN job.entries : job.entries[i] \in Entry
      BY <2>1
    <3> QED
      BY <3>1 DEF Targets, Entry
  <2>3. Len(todo) = 0
    BY DEF WalkInv
  <2>4. Undone(job.entries, file[t], edits, 0, t)
    BY <2>2, <2>3 DEF WalkInv
  <2>5. ASSUME NEW k \in DOMAIN job.entries, k > 0, job.entries[k].target = t,
               job.entries[k].prev = file[t], \A i \in 0 + 1 .. k - 1 : job.entries[i].target # t
        PROVE  file[t] = First(job.entries, t).prev
    BY <2>1, <2>5, FirstIs
  <2>6. \A i \in DOMAIN job.entries : i > 0
    BY <2>1
  <2> QED
    BY <2>4, <2>5, <2>6 DEF Undone
<1> QED
  BY <1>1, <1>2, <1>3, PTL DEF Spec

----------------------------------------------------------------------------
(***************************************************************************)
(* The operations engine against the monitor: edits at any time, any kinds *)
(* of faults and any number of them.                                       *)
(***************************************************************************)

Fields == {"step", "kind", "target", "new", "expected", "act", "window", "commit", "backup",
           "noop", "logged", "read", "backed", "wrote", "armed", "result"}

IsOp == DOMAIN op = Fields

----------------------------------------------------------------------------
(***************************************************************************)
(* The inductive invariant.                                                *)
(***************************************************************************)

(* Only an apply is taken for no change, by the contents its caller         *)
(* expected, and what goes on to the write was logged or has found other    *)
(* contents since; the write follows a read of what was expected.           *)
LogInv ==
  /\ op.wrote => op.logged \/ (op.noop /\ op.expected = None)
  /\ op.step \in {"noop", "log"} => ~op.wrote
  /\ op.step \in {"log", "read"} /\ op.noop => op.kind = "apply" /\ op.expected \in {None, op.new}
  /\ op.step = "noop" => ~op.noop /\ op.kind = "apply"
  /\ op.step = "read" => op.logged \/ op.noop
  /\ op.step = "send" => op.logged
  /\ op.step \in {"check", "write"} => op.logged \/ (op.noop /\ op.expected = None)
  /\ op.step \in {"check", "write"} => op.expected \in {None, op.read}

Covers(entries) ==
  /\ Len(entries) = 1
  /\ LET e == entries[1] IN e.target = op.target /\ e.new = op.new /\ e.prev = op.read

(* The entry of the write is the whole journal until the window is armed,   *)
(* and then the commit's.                                                   *)
WindowInv ==
  /\ pending # None => pending.commit \in Commit
  /\ op.step = "write" /\ op.window => pending = None
  /\ op.step = "arm" => pending = None /\ (op.backed => Covers(journal))
  /\ op.step = "arming" => /\ phase = "arm" /\ op.armed \in Commit /\ op.armed = job.commit
                           /\ op.backed => Covers(job.entries)
  /\ op.armed # 0 => op.step \notin {"noop", "log", "read", "check", "write", "arm", "send"}
  /\ job.cause = "exit" => op.step \in {"idle", "done"}
  /\ (pending # None /\ op.armed = pending.commit /\ op.backed) => Covers(pending.entries)

EngineInv == IsOp /\ LogInv /\ WindowInv

----------------------------------------------------------------------------
(***************************************************************************)
(* What a step does to the operation.                                      *)
(***************************************************************************)

(* The operation is at another step and has learnt nothing.                 *)
Moves(step) ==
  /\ IsOp' /\ op'.step = step
  /\ op'.kind = op.kind /\ op'.target = op.target /\ op'.new = op.new
  /\ op'.expected = op.expected /\ op'.window = op.window
  /\ op'.noop = op.noop /\ op'.logged = op.logged /\ op'.read = op.read
  /\ op'.backed = op.backed /\ op'.wrote = op.wrote /\ op'.armed = op.armed

LEMMA GotoMoves == ASSUME IsOp, NEW step, Goto(step) PROVE Moves(step)
  BY DEF IsOp, Goto, Moves, Fields

LEMMA DoneMoves == ASSUME IsOp, NEW result, Done(result) PROVE Moves("done")
  BY DEF IsOp, Done, Moves, Fields

LEMMA EndedMoves == ASSUME IsOp, Ended PROVE Moves("idle")
  BY DEF IsOp, Ended, Moves, Fields

(* A step after which nothing is required of what it knows.                 *)
After == {"idle", "done", "reload", "mount", "mounting", "act", "discard", "closing", "arm", "arming"}

LEMMA MovesLog ==
  ASSUME LogInv, NEW step \in After, Moves(step) PROVE LogInv'
  BY DEF LogInv, Moves, After

----------------------------------------------------------------------------
(***************************************************************************)
(* The log.                                                                *)
(***************************************************************************)

LEMMA BeginLog ==
  ASSUME BeginApply \/ BeginRestore \/ BeginService \/ BeginClose PROVE IsOp' /\ LogInv'
<1>1. CASE BeginApply
  <2>1. /\ op'.step = "noop" /\ op'.kind = "apply" /\ op'.wrote = FALSE /\ op'.noop = FALSE
        /\ IsOp'
    BY <1>1 DEF BeginApply, Idle, IsOp, Fields
  <2> QED
    BY <2>1 DEF LogInv
<1>2. CASE BeginRestore
  BY <1>2 DEF BeginRestore, Idle, IsOp, Fields, LogInv
<1>3. CASE BeginService
  BY <1>3 DEF BeginService, Idle, IsOp, Fields, LogInv
<1>4. CASE BeginClose
  BY <1>4 DEF BeginClose, Idle, IsOp, Fields, LogInv
<1> QED
  BY <1>1, <1>2, <1>3, <1>4

LEMMA NoopLog ==
  ASSUME IsOp, LogInv, ApplyIsNoop PROVE IsOp' /\ LogInv'
<1> DEFINE b == file[op.target] = op.new /\ AsExpected(op.new)
<1>1. /\ op.step = "noop" /\ IsOp' /\ op'.step = "log" /\ op'.noop = b /\ op'.kind = op.kind
      /\ op'.expected = op.expected /\ op'.new = op.new /\ op'.wrote = op.wrote
  BY DEF ApplyIsNoop, At, IsOp, Fields
<1>2. op'.noop => op.expected \in {None, op.new}
  BY <1>1 DEF AsExpected
<1> QED
  BY <1>1, <1>2 DEF LogInv

LEMMA LogLog ==
  ASSUME IsOp, LogInv, NEW out, Log(out) PROVE IsOp' /\ LogInv'
<1>1. op.step = "log"
  BY DEF Log, At
<1>2. CASE Done("error")
  BY <1>2, DoneMoves, MovesLog DEF Moves, After
<1>3. CASE op' = [op EXCEPT !.step = FirstStep, !.logged = ~op.noop]
  <2>1. /\ IsOp' /\ op'.step = FirstStep /\ op'.logged = ~op.noop /\ op'.noop = op.noop
        /\ op'.kind = op.kind /\ op'.expected = op.expected /\ op'.new = op.new
        /\ op'.wrote = op.wrote
    BY <1>3 DEF IsOp, Fields
  <2> QED
    BY <1>1, <2>1 DEF LogInv, FirstStep
<1> QED
  BY <1>2, <1>3 DEF Log

LEMMA ReadLog ==
  ASSUME IsOp, LogInv, Read PROVE IsOp' /\ LogInv'
<1> DEFINE found == file[op.target]
<1>1. op.step = "read"
  BY DEF Read, At
<1>2. CASE \E result \in {"ok", "error"} : Done(result)
  BY <1>2, DoneMoves, MovesLog DEF Moves, After
<1>3. CASE op.kind = "restore" /\ Goto("send")
  <2>1. Moves("send")
    BY <1>3, GotoMoves
  <2> QED
    BY <1>1, <1>3, <2>1 DEF Moves, LogInv
<1>4. CASE /\ AsExpected(found) /\ found # op.new
           /\ op' = [op EXCEPT !.step = "check", !.read = found]
  <2>1. /\ IsOp' /\ op'.step = "check" /\ op'.read = found /\ op'.noop = op.noop
        /\ op'.logged = op.logged /\ op'.expected = op.expected /\ op'.wrote = op.wrote
    BY <1>4 DEF IsOp, Fields
  <2>2. op.expected \in {None, found}
    BY <1>4 DEF AsExpected
  <2> HIDE DEF found
  <2> QED
    BY <1>1, <1>4, <2>1, <2>2 DEF LogInv
<1> QED
  BY <1>2, <1>3, <1>4 DEF Read

LEMMA WriteLog ==
  ASSUME IsOp, LogInv, NEW out, Write(out) PROVE IsOp' /\ LogInv'
<1>1. op.step = "write"
  BY DEF Write, At
<1>2. /\ IsOp' /\ op'.step \in {"arm", "reload", "done"} /\ op'.noop = op.noop
      /\ op'.logged = op.logged /\ op'.expected = op.expected
  BY DEF Write, IsOp, Fields
<1> QED
  BY <1>1, <1>2 DEF LogInv

LEMMA LogStep ==
  ASSUME IsOp, LogInv, [EngineNext]_allVars PROVE IsOp' /\ LogInv'
<1>1. CASE UNCHANGED op
  BY <1>1 DEF IsOp, LogInv
<1>2. ASSUME NEW step \in After, Goto(step) PROVE IsOp' /\ LogInv'
  BY <1>2, GotoMoves, MovesLog DEF Moves
<1>3. ASSUME NEW result, Done(result) PROVE IsOp' /\ LogInv'
  BY <1>3, DoneMoves, MovesLog DEF Moves, After
<1>4. CASE Conflict \/ ArmAnswered \/ Discard \/ SendConfirm \/ SendRollback \/ Closed
  BY <1>1, <1>2, <1>3, <1>4
     DEF Conflict, ArmAnswered, Discard, SendConfirm, SendRollback, Closed, After
<1>5. ASSUME NEW verdict, Check(verdict) PROVE IsOp' /\ LogInv'
  <2>1. CASE Goto("write")
    <3>1. Moves("write") /\ op.step = "check"
      BY <1>5, <2>1, GotoMoves DEF Check, At
    <3> QED
      BY <3>1 DEF Moves, LogInv
  <2> QED
    BY <1>3, <1>5, <2>1 DEF Check
<1>6. ASSUME NEW c, NEW timeout, ArmCommit(c, timeout) PROVE IsOp' /\ LogInv'
  <2>1. /\ IsOp' /\ op'.step = "arming" /\ op'.wrote = op.wrote /\ op'.noop = op.noop
        /\ op'.logged = op.logged /\ op'.expected = op.expected
    BY <1>6 DEF ArmCommit, IsOp, Fields
  <2> QED
    BY <2>1 DEF LogInv
<1>7. ASSUME NEW out,
             Reload(out) \/ StartMounts(out) \/ MountsStarted(out) \/ SendService(out)
      PROVE  IsOp' /\ LogInv'
  BY <1>2, <1>3, <1>7 DEF Reload, StartMounts, MountsStarted, SendService, AfterFailure, After
<1>8. ASSUME NEW out, Act(out) PROVE IsOp' /\ LogInv'
  <2>1. CASE Returned
    <3>1. /\ IsOp' /\ op'.step = "done" /\ op'.wrote = op.wrote /\ op'.noop = op.noop
          /\ op'.logged = op.logged /\ op'.expected = op.expected
      BY <2>1 DEF Returned, IsOp, Fields
    <3> QED
      BY <3>1 DEF LogInv
  <2> QED
    BY <1>2, <1>3, <1>8, <2>1 DEF Act, AfterFailure, After
<1>9. ASSUME NEW out, SendRestore(out) PROVE IsOp' /\ LogInv'
  <2>1. CASE op' = [op EXCEPT !.step = "done", !.wrote = out = "ok",
                              !.result = IF out = "ok" THEN "ok" ELSE "error"]
    <3>1. IsOp' /\ op'.step = "done" /\ op'.logged = op.logged
      BY <2>1 DEF IsOp, Fields
    <3>2. op.step = "send"
      BY <1>9 DEF SendRestore, At
    <3> QED
      BY <3>1, <3>2 DEF LogInv
  <2> QED
    BY <1>3, <1>9, <2>1 DEF SendRestore
<1>10. CASE Dies
  BY <1>10, EndedMoves, MovesLog DEF Dies, Moves, After
<1>11. CASE EngineStep
  BY <1>4, <1>5, <1>6, <1>7, <1>8, <1>9, <1>11, NoopLog, LogLog, ReadLog, WriteLog DEF EngineStep
<1>12. CASE MonitorStep \/ (\E out \in Outcomes : Stops(out)) \/ UNCHANGED allVars
  BY <1>1, <1>12 DEF MonitorStep, Stops, engineVars, allVars
<1> QED
  BY <1>10, <1>11, <1>12, BeginLog DEF EngineNext

----------------------------------------------------------------------------
(***************************************************************************)
(* The window.                                                             *)
(***************************************************************************)

(* The monitor's own steps leave the journal, and take what is pending at   *)
(* most away.                                                               *)
Leaves ==
  /\ pending' \in {pending, None} /\ UNCHANGED journal
  /\ phase = "arm" => UNCHANGED <<phase, job>>
  /\ UNCHANGED job \/ job'.cause # "exit"

LEMMA MonitorLeaves ==
  ASSUME MonitorStep \/ \E out \in Outcomes : Stops(out) PROVE Leaves
<1>1. CASE Hello \/ Poll \/ Reaped \/ Start \/ Tick \/ Edit \/ Restored
  BY <1>1 DEF Hello, Poll, Reaped, Start, Tick, Edit, Restored, commitVars, Leaves
<1>2. CASE EnforceDeadline
  BY <1>2 DEF EnforceDeadline, RollBack, JobOf, commitVars, Leaves
<1>3. CASE RecoverPending
  BY <1>3 DEF RecoverPending, JobOf, Leaves
<1>4. ASSUME NEW out, StopMounts(out) \/ RestoreEntry(out) PROVE Leaves
  BY <1>4 DEF StopMounts, RestoreEntry, RestoreOne, Leaves
<1>5. ASSUME NEW out, ReplayReload(out) \/ ReplayService(out) \/ RecoverInPlace(out) PROVE Leaves
  BY <1>5 DEF ReplayReload, ReplayService, RecoverInPlace, commitVars, Leaves
<1> QED
  BY <1>1, <1>2, <1>3, <1>4, <1>5 DEF MonitorStep, Stops

(* The same operation at the same step.                                     *)
LEMMA StillCovered ==
  ASSUME WindowInv, Leaves, UNCHANGED op PROVE WindowInv'
  BY DEF WindowInv, Leaves, Covers

(* The operation goes on, past the window or with none to come.             *)
Past == {"idle", "done", "reload", "mount", "mounting", "act", "discard", "closing"}

LEMMA PastCovered ==
  ASSUME WindowInv, NEW step \in Past, Moves(step),
         pending' \in {pending, None},
         job'.cause = "exit" => step \in {"idle", "done"}
  PROVE  WindowInv'
  BY DEF WindowInv, Moves, Covers, Past

LEMMA BeginWindow ==
  ASSUME WindowInv, BeginApply \/ BeginRestore \/ BeginService \/ BeginClose PROVE WindowInv'
<1>1. op'.step \in {"noop", "log"} /\ op'.armed = 0
  <2>1. CASE BeginApply
    BY <2>1 DEF BeginApply, Idle
  <2>2. CASE BeginRestore
    BY <2>2 DEF BeginRestore, Idle
  <2>3. CASE BeginService
    BY <2>3 DEF BeginService, Idle
  <2>4. CASE BeginClose
    BY <2>4 DEF BeginClose, Idle
  <2> QED
    BY <2>1, <2>2, <2>3, <2>4
<1>2. UNCHANGED <<pending, job>> /\ job.cause # "exit"
  BY DEF BeginApply, BeginRestore, BeginService, BeginClose, Begin, vars, commitVars
<1>3. 0 \notin Commit
  BY ConstantsAssumption
<1> QED
  BY <1>1, <1>2, <1>3 DEF WindowInv

(* Before the write there is no window.                                     *)
LEMMA UnarmedCovered ==
  ASSUME WindowInv, UNCHANGED <<pending, job>>, op.step \notin {"idle", "done"},
         op'.step \in {"log", "read", "send", "check", "write"},
         op'.armed = op.armed, op.armed = 0,
         op'.step = "write" /\ op'.window => pending = None
  PROVE  WindowInv'
<1>1. 0 \notin Commit
  BY ConstantsAssumption
<1> QED
  BY <1>1 DEF WindowInv

LEMMA CheckWindow ==
  ASSUME IsOp, WindowInv, NEW verdict, Check(verdict) PROVE WindowInv'
<1>1. op.step = "check" /\ UNCHANGED <<pending, job>> /\ op.armed = 0
  BY DEF Check, At, Ask, commitVars, WindowInv
<1>2. CASE Done("error")
  <2>1. Moves("done")
    BY <1>2, DoneMoves
  <2> QED
    BY <1>1, <2>1, PastCovered DEF Past
<1>3. CASE Goto("write") /\ ~(op.window /\ pending # None)
  <2>1. Moves("write")
    BY <1>3, GotoMoves
  <2> QED
    BY <1>1, <1>3, <2>1, UnarmedCovered DEF Moves
<1> QED
  BY <1>2, <1>3 DEF Check

LEMMA ReadWindow ==
  ASSUME IsOp, WindowInv, ApplyIsNoop \/ Read PROVE WindowInv'
<1>1. op.step \in {"noop", "read"} /\ UNCHANGED <<pending, job>> /\ op.armed = 0
  BY DEF ApplyIsNoop, Read, At, Ask, commitVars, WindowInv
<1>2. CASE ApplyIsNoop
  <2>1. op'.step = "log" /\ op'.armed = op.armed
    BY <1>2 DEF ApplyIsNoop, IsOp, Fields
  <2> QED
    BY <1>1, <2>1, UnarmedCovered
<1>3. ASSUME NEW result, Done(result) PROVE WindowInv'
  <2>1. Moves("done")
    BY <1>3, DoneMoves
  <2> QED
    BY <1>1, <2>1, PastCovered DEF Past
<1>4. CASE Goto("send")
  <2>1. Moves("send")
    BY <1>4, GotoMoves
  <2> QED
    BY <1>1, <2>1, UnarmedCovered DEF Moves
<1>5. CASE op' = [op EXCEPT !.step = "check", !.read = file[op.target]]
  <2>1. op'.step = "check" /\ op'.armed = op.armed
    BY <1>5 DEF IsOp, Fields
  <2> QED
    BY <1>1, <2>1, UnarmedCovered
<1> QED
  BY <1>2, <1>3, <1>4, <1>5 DEF Read

LEMMA LogWindow ==
  ASSUME IsOp, WindowInv, NEW out, Log(out) PROVE WindowInv'
<1>1. op.step = "log" /\ UNCHANGED <<pending, job>> /\ op.armed = 0
  BY DEF Log, At, commitVars, WindowInv
<1>2. CASE Done("error")
  <2>1. Moves("done")
    BY <1>2, DoneMoves
  <2> QED
    BY <1>1, <2>1, PastCovered DEF Past
<1>3. CASE op' = [op EXCEPT !.step = FirstStep, !.logged = ~op.noop]
  <2>1. op'.step \in {"read", "send"} /\ op'.armed = op.armed
    BY <1>3 DEF IsOp, Fields, FirstStep
  <2> QED
    BY <1>1, <2>1, UnarmedCovered
<1> QED
  BY <1>2, <1>3 DEF Log

(* The write of an apply with a window: nothing is pending, so its entry is *)
(* the first of the journal.                                                *)
LEMMA WriteWindow ==
  ASSUME IsOp, WindowInv, NEW out, Write(out) PROVE WindowInv'
<1>1. /\ op.step = "write" /\ UNCHANGED <<pending, job>> /\ op.armed = 0 /\ file[op.target] = op.read
      /\ (op.window => pending = None) /\ job.cause # "exit"
  BY DEF Write, At, WriteTarget, WindowInv
<1>2. /\ op'.armed = 0 /\ op'.step \in {"arm", "reload", "done"} /\ op'.target = op.target
      /\ op'.new = op.new /\ op'.read = op.read
      /\ op'.step = "arm" => op.window /\ out = "ok" /\ op'.backed = BackupTaken(op.target, KeepBackups)
  BY <1>1 DEF Write, IsOp, Fields
<1>3. 0 \notin Commit
  BY ConstantsAssumption
<1>4. ASSUME op'.step = "arm", op'.backed PROVE Covers(journal)'
  <2> DEFINE e == [target |-> op.target, backup |-> stamp + 1, new |-> op.new, prev |-> file[op.target]]
  <2>1. journal' = Append(<<>>, e)
    BY <1>1, <1>2, <1>4 DEF Write, WriteTarget, Journaled
  <2>2. e.target = op.target /\ e.new = op.new /\ e.prev = op.read
    BY <1>1
  <2> HIDE DEF e
  <2>3. Len(journal') = 1 /\ journal'[1] = e
    BY <2>1
  <2> QED
    BY <1>2, <2>2, <2>3 DEF Covers
<1> QED
  BY <1>1, <1>2, <1>3, <1>4 DEF WindowInv

LEMMA ArmWindow ==
  ASSUME IsOp, WindowInv, NEW c \in Commit, NEW timeout, ArmCommit(c, timeout) PROVE WindowInv'
<1> DEFINE j == [commit |-> c, entries |-> journal, service |-> IF op.act THEN op.target ELSE None,
                 cause |-> "none"]
<1>1. /\ op.step = "arm" /\ pending = None /\ UNCHANGED pending /\ phase' = "arm" /\ job' = j
  BY DEF ArmCommit, At, StartConfirmTimer
<1>2. j.commit = c /\ j.entries = journal /\ j.cause # "exit"
  OBVIOUS
<1> HIDE DEF j
<1>3. /\ op'.step = "arming" /\ op'.armed = c /\ op'.target = op.target
      /\ op'.new = op.new /\ op'.read = op.read /\ op'.backed = op.backed
  BY DEF ArmCommit, IsOp, Fields
<1>4. op.backed => Covers(journal)
  BY <1>1 DEF WindowInv
<1> QED
  BY <1>1, <1>2, <1>3, <1>4 DEF WindowInv, Covers

LEMMA ArmedWindow ==
  ASSUME IsOp, WindowInv, ArmAnswered PROVE WindowInv'
<1>1. op.step = "arming" /\ ArmMarker
  BY DEF ArmAnswered, At
<1>2. PICK step \in {"reload", "discard"} : Moves(step)
  BY GotoMoves DEF ArmAnswered
<1>3. /\ pending' = ArmedOf(job) /\ job'.cause # "exit"
  BY <1>1 DEF ArmMarker, NoJob
<1>4. ArmedOf(job).commit = job.commit /\ ArmedOf(job).entries = job.entries
  BY DEF ArmedOf
<1>5. op.armed \in Commit /\ op.armed = job.commit /\ (op.backed => Covers(job.entries))
  BY <1>1 DEF WindowInv
<1> QED
  BY <1>2, <1>3, <1>4, <1>5 DEF WindowInv, Moves, Covers

LEMMA WindowStep ==
  ASSUME IsOp, WindowInv, [EngineNext]_allVars PROVE WindowInv'
<1>1. ASSUME NEW step \in Past, Goto(step), UNCHANGED <<pending, job>>, op.step \notin {"idle", "done"}
      PROVE  WindowInv'
  <2>1. Moves(step) /\ job'.cause # "exit"
    BY <1>1, GotoMoves DEF WindowInv
  <2> QED
    BY <1>1, <2>1, PastCovered
<1>2. ASSUME NEW result, Done(result), UNCHANGED pending
      PROVE  WindowInv'
  <2>1. Moves("done")
    BY <1>2, DoneMoves
  <2> QED
    BY <1>2, <2>1, PastCovered DEF Past
<1>4. CASE Conflict
  BY <1>2, <1>4 DEF Conflict, Ask, commitVars
<1>5. ASSUME Goto("closing"), pending' = None, job'.cause # "exit" PROVE WindowInv'
  <2>1. Moves("closing")
    BY <1>5, GotoMoves
  <2> QED
    BY <1>5, <2>1, PastCovered DEF Past
<1>6. RollbackCommit \/ ConfirmCommit \/ ConfirmExpired => pending' = None /\ job'.cause # "exit"
  <2>1. ASSUME NEW why \in {"request", "expired confirm"}, RollBack(why)
        PROVE  pending' = None /\ job'.cause # "exit"
    <3>1. job' = JobOf(pending, why) /\ pending' = None
      BY <2>1 DEF RollBack
    <3> QED
      BY <3>1 DEF JobOf
  <2>2. RollbackCommit \/ ConfirmExpired => pending' = None /\ job'.cause # "exit"
    BY <2>1 DEF RollbackCommit, ConfirmExpired
  <2>3. ASSUME ConfirmCommit PROVE pending' = None /\ job'.cause # "exit"
    <3>1. job' = JobOf(pending, "none") /\ pending' = None
      BY <2>3 DEF ConfirmCommit
    <3> QED
      BY <3>1 DEF JobOf
  <2> QED
    BY <2>2, <2>3
<1>7. Ask => UNCHANGED pending
  BY DEF Ask, commitVars
<1>8. CASE Discard \/ SendConfirm \/ SendRollback
  BY <1>2, <1>5, <1>6, <1>7, <1>8 DEF Discard, SendConfirm, SendRollback
<1>9. CASE Closed
  <2>1. CASE Committed /\ Done("ok")
    BY <1>2, <2>1 DEF Committed
  <2>2. CASE ClearMarker /\ UNCHANGED op
    <3>1. UNCHANGED pending /\ phase = "clear" /\ job' = NoJob /\ (job.cause # "exit" => UNCHANGED journal)
      BY <2>2 DEF ClearMarker
    <3>2. NoJob.cause # "exit"
      BY DEF NoJob
    <3> QED
      BY <2>2, <3>1, <3>2 DEF WindowInv, Covers
  <2>3. ASSUME NEW result, ClearMarker /\ Done(result) PROVE WindowInv'
    BY <1>2, <2>3 DEF ClearMarker
  <2> QED
    BY <1>9, <2>1, <2>2, <2>3 DEF Closed
<1>10. ASSUME NEW out,
              Reload(out) \/ StartMounts(out) \/ MountsStarted(out) \/ SendService(out)
       PROVE  WindowInv'
  <2>1. UNCHANGED <<pending, job>> /\ op.step \notin {"idle", "done"}
    BY <1>10 DEF Reload, StartMounts, MountsStarted, SendService, ReloadUnitFiles, Mount,
                 MountUnits, Service, At, vars, commitVars
  <2> QED
    BY <1>1, <1>2, <1>10, <2>1
    DEF Reload, StartMounts, MountsStarted, SendService, AfterFailure, Past
<1>11. ASSUME NEW out, Act(out) PROVE WindowInv'
  <2>1. UNCHANGED <<pending, job>> /\ op.step \notin {"idle", "done"}
    BY <1>11 DEF Act, Service, At, vars, commitVars
  <2>2. CASE Returned
    <3>1. Done("ok")
      BY <2>2 DEF Returned, Done
    <3> QED
      BY <1>2, <2>1, <3>1
  <2> QED
    BY <1>1, <1>2, <1>11, <2>1, <2>2 DEF Act, AfterFailure, Past
<1>12. ASSUME NEW out, SendRestore(out) PROVE WindowInv'
  <2>1. UNCHANGED <<pending, job>> /\ op.step = "send"
    BY <1>12 DEF SendRestore, Restore, Ask, At, commitVars
  <2>2. op'.step = "done" /\ op'.armed = op.armed
    BY <1>12 DEF SendRestore, Done, IsOp, Fields
  <2>3. op.armed = 0 /\ 0 \notin Commit
    BY <2>1, ConstantsAssumption DEF WindowInv
  <2> QED
    BY <2>1, <2>2, <2>3 DEF WindowInv
<1>13. CASE Dies
  <2>1. Moves("idle")
    BY <1>13, EndedMoves DEF Dies
  <2>2. pending' \in {pending, None}
    BY <1>13 DEF Dies, ArmFails, ClearFails, Crash, Die, Exit, RollBack
  <2> QED
    BY <2>1, <2>2, PastCovered DEF Past
<1>14. CASE EngineStep
  BY <1>4, <1>8, <1>9, <1>10, <1>11, <1>12, <1>14, ReadWindow, LogWindow, CheckWindow, WriteWindow,
     ArmWindow, ArmedWindow DEF EngineStep
<1>15. CASE MonitorStep \/ \E out \in Outcomes : Stops(out)
  BY <1>15, MonitorLeaves, StillCovered DEF MonitorStep, Stops, engineVars
<1>16. CASE UNCHANGED allVars
  BY <1>16 DEF allVars, vars, commitVars, engineVars, WindowInv, Covers
<1> QED
  BY <1>13, <1>14, <1>15, <1>16, BeginWindow DEF EngineNext

----------------------------------------------------------------------------
(***************************************************************************)
(* The theorems.                                                           *)
(***************************************************************************)

LEMMA EngineInvInit == EngineInit => EngineInv
<1> SUFFICES ASSUME EngineInit PROVE EngineInv
  OBVIOUS
<1>1. op = Idle /\ pending = None /\ job = NoJob
  BY DEF EngineInit, Init
<1>2. IsOp /\ op.step = "idle" /\ op.wrote = FALSE
  BY <1>1 DEF IsOp, Idle, Fields
<1>3. op.armed = 0
  BY <1>1 DEF Idle
<1> QED
  BY <1>1, <1>2, <1>3 DEF EngineInv, LogInv, WindowInv

LEMMA EngineInvNext == EngineInv /\ [EngineNext]_allVars => EngineInv'
  BY LogStep, WindowStep DEF EngineInv

LEMMA EngineInvHolds == EngineSpec => []EngineInv
  BY EngineInvInit, EngineInvNext, PTL DEF EngineSpec

(* An operation that has changed a target wrote its Started record before   *)
(* it did, whichever requests, edits, rollbacks and deaths came between;    *)
(* the one exception needs an apply without an expected_hash, so a caller   *)
(* that sends one is always logged (execute, apply_is_noop).                *)
THEOREM MutationsAreLogged ==
  EngineSpec => []MutationIsLogged
<1>1. EngineInv => MutationIsLogged
  BY DEF EngineInv, LogInv, MutationIsLogged
<1> QED
  BY <1>1, EngineInvHolds, PTL

(* The window of an apply has one entry, that of its own write: the journal *)
(* of the monitor never carries a write of another operation into it, over  *)
(* any sequence of applies with and without a window, of failed writes, of  *)
(* deaths and restarts (write_target, start_confirm_timer).                 *)
THEOREM WindowsCoverTheirApply ==
  EngineSpec => []WindowCoversApply
<1>1. EngineInv => WindowCoversApply
  BY DEF EngineInv, WindowInv, WindowCoversApply, Covers
<1> QED
  BY <1>1, EngineInvHolds, PTL

(* The write that changes wrote is the engine's own, behind a read of what  *)
(* the caller expected and the monitor's comparison with that read.         *)
LEMMA WroteByWrite ==
  ASSUME EngineInv, EngineNext, op.kind = "apply", ~op.wrote, op'.wrote
  PROVE  op.expected \in {None, file[op.target]}
<1>1. IsOp /\ LogInv
  BY DEF EngineInv
<1>2. \A step : ~Moves(step)
  BY DEF Moves
<1>3. op' # op
  OBVIOUS
<1>4. (\A step : ~Goto(step)) /\ (\A result : ~Done(result))
  BY <1>1, <1>2, GotoMoves, DoneMoves
<1>5. ~(BeginApply \/ BeginRestore \/ BeginService \/ BeginClose)
  <2>1. ASSUME BeginApply \/ BeginRestore \/ BeginService \/ BeginClose PROVE FALSE
    <3>1. IsOp' /\ LogInv' /\ op'.step \in {"noop", "log"}
      <4>1. CASE BeginApply
        BY <4>1, BeginLog DEF BeginApply, Idle
      <4>2. CASE BeginRestore
        BY <4>2, BeginLog DEF BeginRestore, Idle
      <4>3. CASE BeginService
        BY <4>3, BeginLog DEF BeginService, Idle
      <4>4. CASE BeginClose
        BY <4>4, BeginLog DEF BeginClose, Idle
      <4> QED
        BY <2>1, <4>1, <4>2, <4>3, <4>4
    <3> QED
      BY <3>1 DEF LogInv
  <2> QED
    BY <2>1
<1>6. ~MonitorStep /\ ~Dies /\ \A out : ~Stops(out)
  BY <1>1, <1>2, <1>3, EndedMoves DEF MonitorStep, Stops, engineVars, Dies
<1>7. ~(Conflict \/ ArmAnswered \/ Discard \/ SendConfirm \/ SendRollback \/ Closed)
  BY <1>3, <1>4 DEF Conflict, ArmAnswered, Discard, SendConfirm, SendRollback, Closed
<1>8. ~ApplyIsNoop
  BY <1>1 DEF ApplyIsNoop, IsOp, Fields
<1>9. ~Read
  <2>1. ~(op' = [op EXCEPT !.step = "check", !.read = file[op.target]])
    BY <1>1 DEF IsOp, Fields
  <2> QED
    BY <1>4, <2>1 DEF Read
<1>10. \A verdict : ~Check(verdict)
  BY <1>4 DEF Check
<1>11. \A c, timeout : ~ArmCommit(c, timeout)
  BY <1>1 DEF ArmCommit, IsOp, Fields
<1>12. \A out : ~Log(out)
  <2>1. ~(op' = [op EXCEPT !.step = FirstStep, !.logged = ~op.noop])
    BY <1>1 DEF IsOp, Fields
  <2> QED
    BY <1>4, <2>1 DEF Log
<1>13. \A out : ~(Reload(out) \/ StartMounts(out) \/ MountsStarted(out) \/ SendService(out))
  BY <1>4 DEF Reload, StartMounts, MountsStarted, SendService, AfterFailure
<1>14. \A out : ~Act(out)
  BY <1>4 DEF Act, AfterFailure, Returned, Done
<1>15. \A out : ~SendRestore(out)
  BY DEF SendRestore
<1>16. PICK out \in Outcomes : Write(out)
  BY <1>5, <1>6, <1>7, <1>8, <1>9, <1>10, <1>11, <1>12, <1>13, <1>14, <1>15 DEF EngineNext, EngineStep
<1> QED
  BY <1>1, <1>16 DEF Write, At, LogInv

(* What an apply with an expected_hash overwrites is what its caller saw,   *)
(* whatever other tools, rollbacks and restarts did between its two reads   *)
(* and the write (apply_is_noop, apply, write_target's comparison).         *)
THEOREM NoUpdateIsLost ==
  EngineSpec => NoLostUpdate
<1>1. EngineInv /\ [EngineNext]_allVars =>
        [(op.kind = "apply" /\ ~op.wrote /\ op'.wrote) =>
           op.expected \in {None, file[op.target]}]_allVars
  BY WroteByWrite
<1> QED
  BY <1>1, EngineInvHolds, PTL DEF EngineSpec, NoLostUpdate

----------------------------------------------------------------------------
(***************************************************************************)
(* The engine is one of the monitor's workers: each of its steps is a step *)
(* of the monitor, but for the failing call that writes the log's record,  *)
(* and what holds of the monitor for any worker holds of it.               *)
(***************************************************************************)
Applying ==
  {"noop", "check", "write", "arm", "arming", "reload", "mount", "mounting", "act", "discard"}

OpTyped ==
  /\ op.step \in Applying => op.kind = "apply"
  /\ op.step = "read" => op.kind \in {"apply", "restore"}
  /\ op.kind = "apply" => /\ op.target \in Target /\ op.new \in Content
                          /\ op.window \in BOOLEAN /\ op.act \in BOOLEAN
  /\ op.kind = "restore" => op.backup \in Stamp
  /\ op.kind = "service" => op.target \in Target

LogFails ==
  Failing("io") /\ UNCHANGED <<fileVars, commitVars, hookVars, phase, greeted, edits>>

(* The engine's steps are the monitor's, none of them a power loss, or an   *)
(* audit write that fails.                                                  *)
Live == Request \/ Step \/ ArmFails \/ Poll \/ Exit \/ Reaped \/ Start \/ Tick \/ Edit \/ Crash

LEMMA LiveDrives ==
  ASSUME OpTyped, [EngineNext]_allVars
  PROVE  [Live]_vars \/ LogFails
<1>1. CASE BeginApply \/ BeginRestore \/ BeginService \/ BeginClose \/ UNCHANGED allVars
  BY <1>1 DEF BeginApply, BeginRestore, BeginService, BeginClose, Begin, allVars
<1>2. CASE MonitorStep
  BY <1>2 DEF MonitorStep, Live, Request, Step
<1>3. CASE Dies
  BY <1>3 DEF Dies, Live, Step, Exit
<1>4. CASE ApplyIsNoop \/ Read \/ Conflict \/ (\E verdict \in {"passed", "refused"} : Check(verdict))
  BY <1>4 DEF ApplyIsNoop, Read, Conflict, Check, Live, Request
<1>5. CASE ArmAnswered \/ Closed
  BY <1>5 DEF ArmAnswered, Closed, Live, Step
<1>6. CASE Discard \/ SendConfirm \/ SendRollback
  BY <1>6 DEF Discard, SendConfirm, SendRollback, Live, Request
<1>7. ASSUME NEW out \in Outcomes, Log(out) PROVE [Live]_vars \/ LogFails
  <2>1. UNCHANGED vars \/ LogFails
    BY <1>7 DEF Log, LogFails, vars, bounds
  <2> QED
    BY <2>1
<1>8. ASSUME NEW out \in Outcomes, Write(out) PROVE [Live]_vars
  <2>1. op.target \in Target /\ op.new \in Content /\ op.window \in BOOLEAN
    BY <1>8 DEF Write, At, OpTyped, Applying
  <2> QED
    BY <1>8, <2>1 DEF Write, Live, Request
<1>9. ASSUME NEW out \in Outcomes, Reload(out) \/ StartMounts(out) \/ Act(out) PROVE [Live]_vars
  <2>1. op.target \in Target
    BY <1>9 DEF Reload, StartMounts, Act, At, OpTyped, Applying
  <2> QED
    BY <1>9, <2>1 DEF Reload, StartMounts, Act, Live, Request
<1>10. ASSUME NEW out \in Outcomes, SendRestore(out) \/ SendService(out) PROVE [Live]_vars
  BY <1>10 DEF SendRestore, SendService, OpTyped, Live, Request
<1>11. ASSUME NEW c \in Commit, NEW timeout \in Requested, ArmCommit(c, timeout) PROVE [Live]_vars
  <2>1. (IF op.act THEN op.target ELSE None) \in Target \cup {None}
    BY <1>11 DEF ArmCommit, At, OpTyped, Applying
  <2> QED
    BY <1>11, <2>1 DEF ArmCommit, Live, Request
<1>12. CASE \E out \in Outcomes : MountsStarted(out) \/ Stops(out)
  BY <1>12 DEF MountsStarted, Stops, Live, Step
<1> QED
  BY <1>1, <1>2, <1>3, <1>4, <1>5, <1>6, <1>7, <1>8, <1>9, <1>10, <1>11, <1>12
  DEF EngineNext, EngineStep

LEMMA Drives ==
  ASSUME OpTyped, [EngineNext]_allVars
  PROVE  [Next]_vars \/ LogFails
  BY LiveDrives DEF Live, Next

(* An operation goes on with its kind and its arguments.                    *)
SameOp ==
  /\ op'.kind = op.kind /\ op'.target = op.target /\ op'.new = op.new
  /\ op'.window = op.window /\ op'.act = op.act /\ op'.backup = op.backup

LEMMA SameTyped ==
  ASSUME OpTyped, SameOp, op'.step \in Applying => op.kind = "apply",
         op'.step = "read" => op.kind \in {"apply", "restore"}
  PROVE  OpTyped'
  BY DEF OpTyped, SameOp

LEMMA TypedStep ==
  ASSUME TypeOK, IsOp, OpTyped, [EngineNext]_allVars
  PROVE  OpTyped'
<1>m. ASSUME NEW step, step \notin Applying \cup {"read"} \/ (op.kind = "apply" /\ step \in Applying), Goto(step) PROVE OpTyped'
  BY <1>m, SameTyped DEF Goto, IsOp, Fields, SameOp, Applying
<1>d. ASSUME NEW result, Done(result) PROVE OpTyped'
  BY <1>d, SameTyped DEF Done, IsOp, Fields, SameOp, Applying
<1>0. op.step \in Applying => op.kind = "apply"
  BY DEF OpTyped
<1>1. CASE BeginApply
  BY <1>1 DEF BeginApply, Idle, OpTyped, Applying
<1>2. CASE BeginRestore
  <2>1. PICK b \in Stamp, e \in Content \cup {None} :
          op' = [Idle EXCEPT !.kind = "restore", !.step = "log", !.backup = b,
                             !.target = backups[b].target, !.expected = e]
    BY <1>2 DEF BeginRestore
  <2> QED
    BY <2>1 DEF Idle, OpTyped, Applying
<1>3. CASE BeginService
  BY <1>3 DEF BeginService, Idle, OpTyped, Applying
<1>4. CASE BeginClose
  BY <1>4 DEF BeginClose, Idle, OpTyped, Applying
<1>5. CASE MonitorStep \/ UNCHANGED allVars \/ \E out \in Outcomes : Stops(out)
  BY <1>5 DEF MonitorStep, Stops, engineVars, allVars, OpTyped
<1>6. CASE Dies
  BY <1>6, SameTyped DEF Dies, Ended, IsOp, Fields, SameOp, Applying
<1>7. CASE ApplyIsNoop
  BY <1>7, SameTyped DEF ApplyIsNoop, IsOp, Fields, SameOp, Applying
<1>8. CASE Read
  <2>1. op.step = "read" /\ op.kind \in {"apply", "restore"}
    BY <1>8 DEF Read, At, OpTyped
  <2>2. CASE op' = [op EXCEPT !.step = "check", !.read = file[op.target]] /\ op.kind # "restore"
    BY <2>1, <2>2, SameTyped DEF IsOp, Fields, SameOp, Applying
  <2> QED
    BY <1>8, <1>m, <1>d, <2>2 DEF Read, Applying
<1>9. ASSUME NEW verdict, Check(verdict) PROVE OpTyped'
  BY <1>0, <1>9, <1>m, <1>d DEF Check, At, Applying
<1>10. CASE Conflict
  BY <1>10, <1>d DEF Conflict
<1>11. CASE ArmAnswered
  <2>1. op.kind = "apply" /\ (Goto("reload") \/ Goto("discard"))
    BY <1>0, <1>11 DEF ArmAnswered, At, Applying
  <2> QED
    BY <2>1, <1>m DEF Applying
<1>12. CASE Discard
  BY <1>12, <1>m, <1>d DEF Discard, Applying
<1>13. CASE SendConfirm \/ SendRollback
  BY <1>13, <1>m, <1>d DEF SendConfirm, SendRollback, Applying
<1>14. CASE Closed
  <2>1. (\E result : Done(result)) \/ UNCHANGED op
    BY <1>14 DEF Closed
  <2> QED
    BY <2>1, <1>d DEF OpTyped
<1>15. ASSUME NEW out, Log(out) PROVE OpTyped'
  <2>1. FirstStep \notin Applying /\ (FirstStep = "read" => op.kind \in {"apply", "restore"})
    BY DEF FirstStep, Applying
  <2>2. CASE op' = [op EXCEPT !.step = FirstStep, !.logged = ~op.noop]
    BY <2>1, <2>2, SameTyped DEF IsOp, Fields, SameOp
  <2> QED
    BY <1>15, <1>d, <2>2 DEF Log
<1>16. ASSUME NEW out, Write(out) PROVE OpTyped'
  <2>1. op.kind = "apply"
    BY <1>0, <1>16 DEF Write, At, Applying
  <2>2. SameOp /\ op'.step # "read"
    <3>1. CASE out = "ok"
      <4>1. op' = [op EXCEPT !.step = IF op.window THEN "arm" ELSE "reload",
                             !.wrote = TRUE,
                             !.backed = BackupTaken(op.target, KeepBackups)]
        BY <1>16, <3>1 DEF Write
      <4> QED
        BY <4>1 DEF IsOp, Fields, SameOp
    <3>2. CASE out # "ok"
      <4>1. op' = [op EXCEPT !.step = "done", !.result = "error",
                             !.wrote = file'[op.target] # file[op.target]]
        BY <1>16, <3>2 DEF Write
      <4> QED
        BY <4>1 DEF IsOp, Fields, SameOp
    <3> QED
      BY <3>1, <3>2
  <2> QED
    BY <2>1, <2>2, SameTyped
<1>17. ASSUME NEW out, Reload(out) \/ StartMounts(out) \/ MountsStarted(out) \/ Act(out)
       PROVE  OpTyped'
  <2>1. op.kind = "apply"
    BY <1>0, <1>17 DEF Reload, StartMounts, MountsStarted, Act, At, Applying
  <2>2. Goto("mount") \/ Goto("mounting") \/ Goto("act") \/ Goto("discard") \/ (\E result : Done(result)) \/ Returned
    BY <1>17 DEF Reload, StartMounts, MountsStarted, Act, AfterFailure
  <2>3. Returned => Done("ok")
    BY DEF Returned, Done
  <2> QED
    BY <1>m, <1>d, <2>1, <2>2, <2>3 DEF Applying
<1>18. ASSUME NEW out, SendRestore(out) PROVE OpTyped'
  <2>1. SameOp /\ op'.step = "done"
    BY <1>18 DEF SendRestore, Done, IsOp, Fields, SameOp
  <2> QED
    BY <2>1, SameTyped DEF Applying
<1>19. ASSUME NEW out, SendService(out) PROVE OpTyped'
  BY <1>19, <1>d DEF SendService
<1>20. ASSUME NEW c, NEW timeout, ArmCommit(c, timeout) PROVE OpTyped'
  <2>1. op.kind = "apply"
    BY <1>0, <1>20 DEF ArmCommit, At, Applying
  <2>2. SameOp /\ op'.step = "arming"
    BY <1>20 DEF ArmCommit, IsOp, Fields, SameOp
  <2> QED
    BY <2>1, <2>2, SameTyped
<1> QED
  BY <1>1, <1>2, <1>3, <1>4, <1>5, <1>6, <1>7, <1>8, <1>9, <1>10, <1>11, <1>12, <1>13, <1>14,
     <1>15, <1>16, <1>17, <1>18, <1>19, <1>20
  DEF EngineNext, EngineStep

----------------------------------------------------------------------------
(* What becomes of a failed apply.                                          *)

(* Names after the last one taken are unused.                               *)
FreshInv == \A s \in Stamp : s > stamp => backups[s] = None

(* A monitor that is not serving has no operation of a worker.              *)
ServeInv ==
  /\ phase \in {"down", "ended", "start", "recover"} => ~greeted /\ op.step = "idle"
  /\ job.cause = "exit" => op.step = "idle"
  /\ phase = "commit" => op.step = "closing" /\ op.kind = "confirm"

Held(entries) == backups[entries[1].backup] # None

Gone == file[op.target] # op.new \/ op.new \in Edited

Applied == op.kind = "apply" /\ op.window /\ op.wrote

(* The window of the apply is open, or being rolled back, or what the apply *)
(* wrote is gone.                                                           *)
Undoing ==
  \/ pending # None /\ pending.commit = op.armed /\ Held(pending.entries)
  \/ /\ pending = None /\ Covers(job.entries) /\ Held(job.entries)
     /\ phase = "mounts" \/ (phase = "restore" /\ todo = job.entries)
  \/ /\ pending = None /\ phase # "mounts" /\ (phase = "restore" => todo = <<>>)
     /\ Gone

ApplyInv ==
  /\ op.step \in {"noop", "log", "read", "check", "write"} => ~op.wrote
  /\ op.step \in {"check", "write"} => op.read # Absent /\ op.read # op.new
  /\ Applied => op.backed /\ op.read # op.new
  /\ Applied /\ op.step = "arm" => Held(journal)
  /\ Applied /\ op.step = "arming" => Held(job.entries)
  /\ Applied /\ (\/ op.step \in {"reload", "mount", "mounting", "act", "discard", "closing"}
                 \/ op.step = "done" /\ op.result = "error") => Undoing

LEMMA FreshStep ==
  ASSUME TypeOK, FreshInv, [Next]_vars
  PROVE  FreshInv'
<1>0. FileTypes /\ stamp \in Nat /\ KeepBackups \in Nat /\ DefaultKeep \in Nat
  BY ConstantsAssumption DEF TypeOK, FileTypes
<1>1. CASE UNCHANGED <<backups, stamp>>
  BY <1>1 DEF FreshInv
<1>2. ASSUME NEW t, NEW keep, TakeBackup(t, keep) PROVE FreshInv'
  <2>1. CASE UNCHANGED <<backups, stamp>>
    BY <1>1, <2>1
  <2>2. CASE file[t] # Absent /\ keep > 0
    <3> DEFINE bk == [backups EXCEPT ![stamp + 1] = [target |-> t, contents |-> file[t]]]
    <3>1. stamp' = stamp + 1 /\ backups' = Rotated(bk, t, keep)
      BY <1>2, <2>2 DEF TakeBackup
    <3>2. ASSUME NEW s \in Stamp, s > stamp + 1 PROVE backups'[s] = None
      <4>1. s # stamp + 1 /\ s > stamp
        BY <1>0, <3>2 DEF Stamp
      <4>2. bk[s] = None
        BY <1>0, <4>1 DEF FreshInv, FileTypes
      <4> QED
        BY <3>1, <4>2 DEF Rotated
    <3> QED
      BY <3>1, <3>2 DEF FreshInv
  <2> QED
    BY <1>2, <2>1, <2>2 DEF TakeBackup
<1>3. ASSUME NEW t, NEW c, NEW keep, NEW out, WriteAtomic(t, c, keep, out) PROVE FreshInv'
  BY <1>1, <1>2, <1>3 DEF WriteAtomic, fileVars
<1>4. CASE UNCHANGED fileVars \/ Edit
  BY <1>1, <1>4 DEF fileVars, Edit
<1>5. ASSUME NEW t \in Target, NEW c \in Content, NEW j \in BOOLEAN, NEW out \in Outcomes,
             WriteTarget(t, c, j, out)
      PROVE  FreshInv'
  BY <1>3, <1>5 DEF WriteTarget
<1>6. ASSUME NEW s \in Stamp, NEW out \in Outcomes, Restore(s, out) PROVE FreshInv'
  BY <1>3, <1>6 DEF Restore
<1>7. ASSUME NEW out \in Outcomes, RestoreEntry(out) PROVE FreshInv'
  BY <1>1, <1>3, <1>7 DEF RestoreEntry, RestoreOne, fileVars
<1>8. ASSUME NEW out \in Outcomes, RecoverInPlace(out) PROVE FreshInv'
  BY <1>1, <1>2, <1>8 DEF RecoverInPlace, fileVars
<1> QED
  BY <1>4, <1>5, <1>6, <1>7, <1>8, FileSteps

(* A write that keeps backups leaves the one it took.                       *)
LEMMA BackupStays ==
  ASSUME FileTypes, FreshInv, NEW t \in Target, NEW keep \in Nat \ {0}, file[t] # Absent,
         TakeBackup(t, keep)
  PROVE  stamp + 1 \in Stamp /\ backups'[stamp + 1] # None
<1> DEFINE new == [target |-> t, contents |-> file[t]]
           bk == [backups EXCEPT ![stamp + 1] = new]
<1>0. stamp \in Nat
  BY DEF FileTypes
<1>1. stamp + 1 \in Stamp
  BY TakeBackupType DEF BackupTaken
<1>2. backups' = Rotated(bk, t, keep)
  BY DEF TakeBackup
<1>3. {u \in Stamp : u > stamp + 1 /\ bk[u] # None /\ bk[u].target = t} = {}
  <2> SUFFICES ASSUME NEW u \in Stamp, u > stamp + 1 PROVE bk[u] = None
    OBVIOUS
  <2>1. u # stamp + 1 /\ u > stamp
    BY <1>0 DEF Stamp
  <2> QED
    BY <1>0, <2>1 DEF FreshInv, FileTypes
<1>4. ~(Cardinality({u \in Stamp : u > stamp + 1 /\ bk[u] # None /\ bk[u].target = t}) >= keep)
  BY <1>3, FS_EmptySet
<1>5. backups'[stamp + 1] = bk[stamp + 1]
  BY <1>1, <1>2, <1>4 DEF Rotated
<1>6. bk[stamp + 1] = new /\ new \in Backup
  <2>1. file[t] \in Content \cup {Torn}
    BY DEF FileTypes, FileState
  <2> QED
    BY <1>1, <2>1 DEF FileTypes, Backup
<1> QED
  BY <1>1, <1>5, <1>6, RecordsAssumption

LEMMA ServeStep ==
  ASSUME IsOp, MirrorInv, ServeInv, [EngineNext]_allVars
  PROVE  ServeInv'
<1>i. \A step : Moves(step) => op'.step = step /\ op'.kind = op.kind
  BY DEF Moves
<1>a. ASSUME Ask PROVE phase = "idle" /\ phase' = "enforce" /\ UNCHANGED <<job, greeted>>
  BY <1>a DEF Ask, Served, commitVars
<1>1. CASE BeginApply \/ BeginRestore \/ BeginService \/ BeginClose
  <2>1. greeted /\ job.cause # "exit" /\ UNCHANGED <<phase, job, greeted>> /\ op.step \in {"idle", "done"}
    BY <1>1 DEF BeginApply, BeginRestore, BeginService, BeginClose, Begin, vars, commitVars
  <2> QED
    BY <2>1 DEF ServeInv
<1>2. CASE UNCHANGED allVars
  BY <1>2 DEF allVars, vars, commitVars, engineVars, ServeInv
<1>3. CASE Dies
  <2>1. Moves("idle")
    BY <1>3, EndedMoves DEF Dies
  <2>2. phase' # "commit" /\ (phase' \in {"down", "ended", "start", "recover"} => ~greeted')
    BY <1>3 DEF Dies, ArmFails, ClearFails, Crash, Die, Exit, RollBack
  <2> QED
    BY <1>i, <2>1, <2>2 DEF ServeInv
<1>4. CASE MonitorStep \/ \E out \in Outcomes : Stops(out)
  <2>0. op' = op
    BY <1>4 DEF MonitorStep, Stops, engineVars
  <2>1. CASE Hello \/ Poll \/ Reaped \/ Start \/ Tick \/ Edit \/ Restored
    BY <2>0, <2>1 DEF Hello, Poll, Reaped, Start, Tick, Edit, Restored, commitVars, ServeInv
  <2>2. CASE EnforceDeadline
    BY <2>0, <2>2 DEF EnforceDeadline, RollBack, JobOf, commitVars, ServeInv
  <2>3. CASE RecoverPending
    BY <2>0, <2>3 DEF RecoverPending, JobOf, ServeInv
  <2>4. ASSUME NEW out, StopMounts(out) \/ RestoreEntry(out) PROVE ServeInv'
    BY <2>0, <2>4 DEF StopMounts, RestoreEntry, RestoreOne, ServeInv
  <2>5. ASSUME NEW out, ReplayReload(out) \/ ReplayService(out) \/ RecoverInPlace(out)
        PROVE  ServeInv'
    BY <2>0, <2>5 DEF ReplayReload, ReplayService, RecoverInPlace, commitVars, ServeInv
  <2> QED
    BY <1>4, <2>1, <2>2, <2>3, <2>4, <2>5 DEF MonitorStep, Stops
<1>5. ASSUME phase' \in {"enforce", "mounting", "arm", "mounts"}, job'.cause # "exit" PROVE ServeInv'
  BY <1>5 DEF ServeInv
<1>6. CASE ApplyIsNoop \/ Read \/ Conflict \/ (\E verdict \in {"passed", "refused"} : Check(verdict))
  <2>1. Ask /\ op.step # "idle"
    BY <1>6 DEF ApplyIsNoop, Read, Conflict, Check, At
  <2> QED
    BY <1>5, <1>a, <2>1 DEF ServeInv
<1>7. CASE ArmAnswered
  BY <1>5, <1>7 DEF ArmAnswered, ArmMarker, NoJob
<1>8. CASE Discard \/ SendRollback
  <2>1. op.step # "idle"
    BY <1>8 DEF Discard, SendRollback, At
  <2>2. Ask \/ RollbackCommit
    BY <1>8 DEF Discard, SendRollback
  <2> QED
    BY <1>5, <1>a, <2>1, <2>2 DEF RollbackCommit, RollBack, JobOf, ServeInv
<1>9. CASE SendConfirm
  <2>1. op.step # "idle" /\ op.kind = "confirm"
    BY <1>9 DEF SendConfirm, At
  <2>2. CASE Ask
    BY <1>5, <1>a, <2>1, <2>2 DEF ServeInv
  <2>4. CASE ConfirmExpired
    BY <1>5, <2>4 DEF ConfirmExpired, RollBack, JobOf
  <2>3. CASE ConfirmCommit /\ Goto("closing")
    <3>1. Moves("closing")
      BY <2>3, GotoMoves
    <3>2. phase' = "commit" /\ job'.cause = "none"
      BY <2>3 DEF ConfirmCommit, JobOf
    <3> QED
      BY <1>i, <2>1, <3>1, <3>2 DEF ServeInv
  <2> QED
    BY <1>9, <2>2, <2>3, <2>4 DEF SendConfirm
<1>10. CASE Closed
  <2>1. CASE Committed
    BY <1>5, <2>1 DEF Committed, NoJob
  <2>2. CASE ClearMarker /\ UNCHANGED op
    BY <2>2 DEF ClearMarker, NoJob, ServeInv
  <2>3. CASE ClearMarker /\ At("closing")
    <3>1. job.cause # "exit"
      BY <2>3 DEF At, ServeInv
    <3> QED
      BY <1>5, <2>3, <3>1 DEF ClearMarker, NoJob, ServeInv
  <2> QED
    BY <1>10, <2>1, <2>2, <2>3 DEF Closed
<1>11. ASSUME NEW out, Log(out) PROVE ServeInv'
  <2>1. op.step = "log" /\ UNCHANGED <<phase, job, greeted>>
    BY <1>11 DEF Log, At, commitVars
  <2> QED
    BY <2>1 DEF ServeInv
<1>12. ASSUME NEW out, Write(out) PROVE ServeInv'
  <2>1. op.step = "write" /\ phase' = "enforce" /\ job' = job
    BY <1>12 DEF Write, At, WriteTarget, Served
  <2> QED
    BY <1>5, <2>1 DEF ServeInv
<1>13. ASSUME NEW out, \/ Reload(out) \/ StartMounts(out) \/ MountsStarted(out)
                       \/ Act(out) \/ SendRestore(out) \/ SendService(out)
       PROVE  ServeInv'
  <2>1. op.step \notin {"idle", "closing"}
    BY <1>13 DEF Reload, StartMounts, MountsStarted, Act, SendRestore, SendService, At
  <2>2. \/ UNCHANGED <<phase, job, greeted>>
        \/ phase' \in {"enforce", "mounting"} /\ job' = job
    BY <1>13 DEF Reload, StartMounts, MountsStarted, Act, SendRestore, SendService,
                 ReloadUnitFiles, Mount, MountUnits, Service, Restore, Ask, Served, vars, commitVars
  <2> QED
    BY <1>5, <2>1, <2>2 DEF ServeInv
<1>14. ASSUME NEW c, NEW timeout, ArmCommit(c, timeout) PROVE ServeInv'
  BY <1>5, <1>14 DEF ArmCommit, StartConfirmTimer
<1> QED
  BY <1>1, <1>2, <1>3, <1>4, <1>6, <1>7, <1>8, <1>9, <1>10, <1>11, <1>12, <1>13, <1>14
  DEF EngineNext, EngineStep

(* Between the write of an apply and its arming no rollback runs.           *)
ArmInv == op.step = "arm" => phase \in {"idle", "enforce"}

LEMMA ArmStep ==
  ASSUME IsOp, WindowInv, ArmInv, [EngineNext]_allVars
  PROVE  ArmInv'
<1>g. ASSUME NEW step, Goto(step), step # "arm" PROVE ArmInv'
  BY <1>g, GotoMoves DEF Moves, ArmInv
<1>d. ASSUME NEW result, Done(result) PROVE ArmInv'
  BY <1>d, DoneMoves DEF Moves, ArmInv
<1>1. CASE BeginApply \/ BeginRestore \/ BeginService \/ BeginClose
  <2>1. op'.step \in {"noop", "log"}
    BY <1>1 DEF BeginApply, BeginRestore, BeginService, BeginClose, Idle
  <2> QED
    BY <2>1 DEF ArmInv
<1>2. CASE UNCHANGED allVars
  BY <1>2 DEF allVars, vars, engineVars, ArmInv
<1>3. CASE Dies
  BY <1>3, EndedMoves DEF Dies, Moves, ArmInv
<1>4. CASE MonitorStep \/ \E out \in Outcomes : Stops(out)
  <2>0. op' = op /\ (op.step = "arm" => pending = None)
    BY <1>4 DEF MonitorStep, Stops, engineVars, WindowInv
  <2>1. CASE Hello \/ Poll \/ Reaped \/ Start \/ Tick \/ Edit \/ Restored
    BY <2>0, <2>1 DEF Hello, Poll, Reaped, Start, Tick, Edit, Restored, ArmInv
  <2>2. CASE EnforceDeadline \/ RecoverPending
    BY <2>0, <2>2 DEF EnforceDeadline, RecoverPending, ArmInv
  <2>3. ASSUME NEW out, \/ StopMounts(out) \/ RestoreEntry(out) \/ ReplayReload(out)
                        \/ ReplayService(out) \/ RecoverInPlace(out)
        PROVE  ArmInv'
    BY <2>0, <2>3 DEF StopMounts, RestoreEntry, ReplayReload, ReplayService, RecoverInPlace, ArmInv
  <2> QED
    BY <1>4, <2>1, <2>2, <2>3 DEF MonitorStep, Stops
<1>5. CASE Conflict \/ ArmAnswered \/ Discard \/ SendConfirm \/ SendRollback
  BY <1>5, <1>g, <1>d DEF Conflict, ArmAnswered, Discard, SendConfirm, SendRollback
<1>6. CASE ApplyIsNoop
  BY <1>6 DEF ApplyIsNoop, IsOp, Fields, ArmInv
<1>7. CASE Read
  <2>1. CASE op' = [op EXCEPT !.step = "check", !.read = file[op.target]]
    BY <2>1 DEF IsOp, Fields, ArmInv
  <2> QED
    BY <1>7, <1>g, <1>d, <2>1 DEF Read
<1>8. CASE Closed
  <2>1. (\E result : Done(result)) \/ (UNCHANGED op /\ phase = "clear")
    BY <1>8 DEF Closed, ClearMarker
  <2> QED
    BY <2>1, <1>d DEF ArmInv
<1>9. ASSUME NEW out, Log(out) PROVE ArmInv'
  <2>1. CASE op' = [op EXCEPT !.step = FirstStep, !.logged = ~op.noop]
    BY <2>1 DEF IsOp, Fields, FirstStep, ArmInv
  <2> QED
    BY <1>9, <1>d, <2>1 DEF Log
<1>10. ASSUME NEW out, Write(out) PROVE ArmInv'
  BY <1>10 DEF Write, WriteTarget, Served, ArmInv
<1>11. ASSUME NEW out, \/ Reload(out) \/ StartMounts(out) \/ MountsStarted(out)
                       \/ Act(out) \/ SendService(out)
       PROVE  ArmInv'
  <2>1. \/ Goto("mount") \/ Goto("mounting") \/ Goto("act") \/ Goto("discard")
        \/ (\E result : Done(result)) \/ Returned
    BY <1>11 DEF Reload, StartMounts, MountsStarted, Act, SendService, AfterFailure
  <2>2. Returned => Done("ok")
    BY DEF Returned, Done
  <2> QED
    BY <1>g, <1>d, <2>1, <2>2
<1>12. ASSUME NEW out, SendRestore(out) PROVE ArmInv'
  BY <1>12, <1>d DEF SendRestore, IsOp, Fields, ArmInv
<1>13. ASSUME NEW verdict, Check(verdict) PROVE ArmInv'
  BY <1>13, <1>g, <1>d DEF Check
<1>14. ASSUME NEW c, NEW timeout, ArmCommit(c, timeout) PROVE ArmInv'
  BY <1>14 DEF ArmCommit, IsOp, Fields, ArmInv
<1> QED
  BY <1>1, <1>2, <1>3, <1>4, <1>5, <1>6, <1>7, <1>8, <1>9, <1>10, <1>11, <1>12, <1>13, <1>14
  DEF EngineNext, EngineStep

(* Nothing that matters to the apply happens.                               *)
LEMMA UndoingKept ==
  ASSUME Undoing, UNCHANGED <<pending, job, todo, backups, file>>,
         phase' = phase \/ (phase \notin {"mounts", "restore"} /\ phase' \notin {"mounts", "restore"}),
         op'.target = op.target, op'.new = op.new, op'.read = op.read, op'.armed = op.armed
  PROVE  Undoing'
  BY DEF Undoing, Covers, Held, Gone

(* Its window is taken for a rollback.                                      *)
LEMMA UndoingTaken ==
  ASSUME WindowInv, Undoing, op.backed, pending # None, NEW why, RollBack(why),
         op'.target = op.target, op'.new = op.new, op'.read = op.read, op'.armed = op.armed
  PROVE  Undoing'
<1>1. pending.commit = op.armed /\ Held(pending.entries)
  BY DEF Undoing
<1>2. Covers(pending.entries)
  BY <1>1 DEF WindowInv
<1>3. pending' = None /\ phase' = "mounts" /\ job'.entries = pending.entries /\ backups' = backups
  BY DEF RollBack, JobOf, fileVars
<1>4. Covers(job.entries)' /\ Held(job.entries)'
  BY <1>1, <1>2, <1>3 DEF Covers, Held
<1> QED
  BY <1>3, <1>4 DEF Undoing

(* Its rollback finds what the apply wrote and restores what it replaced,   *)
(* or finds something else.                                                 *)
LEMMA UndoingRestored ==
  ASSUME "io" \notin Faults, TypeOK, MirrorInv, KnownInv, ipMark = None, Undoing,
         op.read # op.new, op' = op, NEW out, RestoreEntry(out)
  PROVE  Undoing'
<1> DEFINE e == job.entries[1]
<1>0. phase = "restore" /\ phase' = "restore" /\ pending = None /\ pending' = None /\ todo # <<>>
  BY DEF RestoreEntry, RestoreOne, MirrorInv
<1>1. Covers(job.entries) /\ Held(job.entries) /\ todo = job.entries
  BY <1>0 DEF Undoing
<1>2. job.entries \in Seq(Entry) /\ Len(job.entries) = 1
  BY <1>1, JobParts DEF Covers, TypeOK, CommitTypes
<1>3. e \in Entry /\ 1 \in DOMAIN job.entries
  BY <1>2
<1>4. e.target = op.target /\ e.new = op.new /\ e.prev = op.read /\ e.target \in Target /\ e.new \in Content
  BY <1>1, <1>3 DEF Covers, Entry
<1>5. RestoreOne(e, SubSeq(todo, 1, 0), out)
  BY <1>1, <1>2 DEF RestoreEntry
<1>6. todo' = <<>>
  BY <1>1, <1>2, <1>5 DEF RestoreOne
<1>7. file'[op.target] # op.new
  <2>1. CASE file[op.target] = op.new
    <3>1. WriteAtomic(e.target, backups[e.backup].contents, DefaultKeep, out)
      BY <1>1, <1>4, <1>5, <2>1 DEF RestoreOne, Unedited, Held
    <3>2. file' = [file EXCEPT ![e.target] = backups[e.backup].contents]
      BY <1>4, <2>1, <3>1, RestoreWrites
    <3>3. backups[e.backup].contents = e.prev
      BY <1>1, <1>3 DEF KnownInv, AllKnown, Known, Held
    <3>4. file'[e.target] = e.prev
      BY <1>4, <3>2, <3>3 DEF TypeOK, FileTypes
    <3> QED
      BY <1>4, <3>4
  <2>2. CASE file[op.target] # op.new
    BY <1>4, <1>5, <2>2 DEF RestoreOne, Unedited, fileVars
  <2> QED
    BY <2>1, <2>2
<1> QED
  BY <1>0, <1>6, <1>7 DEF Undoing, Gone

(* The operation goes on past its arming, or ends: what it wrote is being   *)
(* undone still.                                                            *)
LEMMA ApplyMoves ==
  ASSUME ApplyInv, NEW step, Moves(step),
         step \in {"idle", "send", "done", "reload", "mount", "mounting", "act", "discard", "closing"},
         Applied /\ step # "idle" /\ (step = "done" => op'.result = "error") => Undoing'
  PROVE  ApplyInv'
<1>1. Applied' <=> Applied
  BY DEF Applied, Moves
<1> QED
  BY <1>1 DEF ApplyInv, Moves

(* An operation that has written nothing yet goes on.                       *)
LEMMA ApplyUnwritten ==
  ASSUME ~op'.wrote, op'.step \in {"check", "write"} => op'.read # Absent /\ op'.read # op'.new
  PROVE  ApplyInv'
  BY DEF ApplyInv, Applied

LEMMA ApplyMonitor ==
  ASSUME "io" \notin Faults, TypeOK, MirrorInv, KnownInv, ipMark = None, WindowInv,
         ServeInv, ArmInv, ApplyInv, MonitorStep \/ \E out \in Outcomes : Stops(out)
  PROVE  ApplyInv'
<1>0. op' = op
  BY DEF MonitorStep, Stops, engineVars
<1>f. file \in [Target -> FileState]
  BY DEF TypeOK, FileTypes
<1>1. ASSUME op.step = "arm" PROVE UNCHANGED <<journal, backups>>
  <2>1. phase \in {"idle", "enforce"} /\ pending = None
    BY <1>1 DEF ArmInv, WindowInv
  <2> QED
    BY <2>1 DEF MonitorStep, Stops, Hello, Poll, Reaped, Start, Tick, Edit, EnforceDeadline, Restored,
                RecoverPending, StopMounts, RestoreEntry, ReplayReload, ReplayService,
                RecoverInPlace, fileVars, commitVars
<1>2. ASSUME op.step = "arming" PROVE UNCHANGED <<job, backups>>
  <2>1. phase = "arm"
    BY <1>2 DEF WindowInv
  <2> QED
    BY <2>1 DEF MonitorStep, Stops, Hello, Poll, Reaped, Start, Tick, Edit, EnforceDeadline, Restored,
                RecoverPending, StopMounts, RestoreEntry, ReplayReload, ReplayService,
                RecoverInPlace, fileVars, commitVars
<1>3. ASSUME Applied, Undoing, op.step # "idle" PROVE Undoing'
  <2>0. op.backed /\ op.read # op.new /\ phase \notin {"down", "ended", "start", "recover"}
    BY <1>3 DEF ApplyInv, ServeInv
  <2>1. CASE Hello \/ Poll \/ Reaped \/ Start \/ Tick
    BY <1>0, <1>3, <2>0, <2>1, UndoingKept
    DEF Hello, Poll, Reaped, Start, Tick, fileVars, commitVars
  <2>2. CASE Edit
    <3>1. PICK t \in Target, c \in Edited : file' = [file EXCEPT ![t] = c]
      BY <2>2 DEF Edit
    <3>2. file'[op.target] = file[op.target] \/ file'[op.target] \in Edited
      BY <1>f, <3>1
    <3>3. Gone => Gone'
      BY <1>0, <3>2 DEF Gone
    <3>4. UNCHANGED <<pending, job, todo, backups, phase>>
      BY <2>2 DEF Edit, commitVars
    <3> QED
      BY <1>0, <1>3, <3>3, <3>4 DEF Undoing, Covers, Held
  <2>3. CASE EnforceDeadline
    <3>1. CASE pending # None /\ left = 0
      BY <1>0, <1>3, <2>0, <2>3, <3>1, UndoingTaken DEF EnforceDeadline
    <3>2. CASE ~(pending # None /\ left = 0)
      BY <1>0, <1>3, <2>3, <3>2, UndoingKept DEF EnforceDeadline, fileVars, commitVars
    <3> QED
      BY <3>1, <3>2
  <2>4. CASE Restored
    <3>1. phase = "restore" /\ phase' = "reload" /\ todo = <<>> /\ UNCHANGED <<pending, file>>
      BY <2>4 DEF Restored, commitVars, fileVars
    <3>2. pending = None
      BY <3>1 DEF MirrorInv
    <3>3. ~(Covers(job.entries) /\ todo = job.entries)
      BY <3>1 DEF Covers
    <3>4. Gone
      BY <1>3, <3>1, <3>2, <3>3 DEF Undoing
    <3> QED
      BY <1>0, <3>1, <3>2, <3>4 DEF Undoing, Gone
  <2>5. CASE RecoverPending
    BY <2>0, <2>5 DEF RecoverPending
  <2>6. ASSUME NEW out, StopMounts(out) PROVE Undoing'
    <3>1. /\ phase = "mounts" /\ phase' = "restore" /\ todo' = job.entries
          /\ UNCHANGED <<pending, job, backups>>
      BY <2>6 DEF StopMounts, fileVars
    <3>2. pending = None
      BY <3>1 DEF MirrorInv
    <3>3. Covers(job.entries) /\ Held(job.entries)
      BY <1>3, <3>1, <3>2 DEF Undoing
    <3> QED
      BY <1>0, <3>1, <3>2, <3>3 DEF Undoing, Covers, Held
  <2>7. ASSUME NEW out, RestoreEntry(out) PROVE Undoing'
    BY <1>0, <1>3, <2>0, <2>7, UndoingRestored
  <2>8. ASSUME NEW out, ReplayReload(out) \/ ReplayService(out) PROVE Undoing'
    BY <1>0, <1>3, <2>8, UndoingKept DEF ReplayReload, ReplayService, fileVars, commitVars
  <2>9. ASSUME NEW out, RecoverInPlace(out) PROVE Undoing'
    BY <2>0, <2>9 DEF RecoverInPlace
  <2> QED
    BY <2>1, <2>2, <2>3, <2>4, <2>5, <2>6, <2>7, <2>8, <2>9 DEF MonitorStep, Stops
<1>4. Applied' <=> Applied
  BY <1>0 DEF Applied
<1>5. Applied /\ op.step = "arm" => Held(journal)'
  BY <1>1 DEF ApplyInv, Held
<1>6. Applied /\ op.step = "arming" => Held(job.entries)'
  BY <1>2 DEF ApplyInv, Held
<1> QED
  BY <1>0, <1>3, <1>4, <1>5, <1>6 DEF ApplyInv

LEMMA ApplyStep ==
  ASSUME "io" \notin Faults, KeepBackups # 0, TypeOK, MirrorInv, KnownInv, ipMark = None,
         IsOp, WindowInv, OpTyped, FreshInv, ServeInv, ArmInv, ApplyInv, [EngineNext]_allVars
  PROVE  ApplyInv'
<1>0. ~Failing("io")
  BY DEF Failing
<1>m. ASSUME NEW step, Moves(step) PROVE /\ op'.target = op.target /\ op'.new = op.new
                                         /\ op'.read = op.read /\ op'.armed = op.armed
  BY <1>m DEF Moves
<1>a. ASSUME Ask PROVE phase = "idle" /\ phase' = "enforce" /\ UNCHANGED <<pending, job, todo, backups, file>>
  BY <1>a DEF Ask, Served, commitVars, fileVars
<1>u. ASSUME ~op.wrote, NEW step \in {"send", "done"}, Moves(step) PROVE ApplyInv'
  BY <1>u, ApplyUnwritten DEF Moves
<1>k. ASSUME op.kind # "apply", NEW step \in {"send", "done", "closing"}, Moves(step) PROVE ApplyInv'
  BY <1>k, ApplyMoves DEF Applied
<1>1. CASE BeginApply \/ BeginRestore \/ BeginService \/ BeginClose
  <2>1. ~op'.wrote /\ op'.step \in {"noop", "log"}
    BY <1>1 DEF BeginApply, BeginRestore, BeginService, BeginClose, Idle
  <2> QED
    BY <2>1, ApplyUnwritten
<1>2. CASE UNCHANGED allVars
  BY <1>2 DEF allVars, vars, fileVars, commitVars, engineVars, ApplyInv, Applied, Held, Undoing, Covers, Gone
<1>3. CASE Dies
  BY <1>3, EndedMoves, ApplyMoves DEF Dies
<1>4. CASE MonitorStep \/ \E out \in Outcomes : Stops(out)
  BY <1>4, ApplyMonitor
<1>5. CASE ApplyIsNoop
  <2>1. ~op.wrote
    BY <1>5 DEF ApplyIsNoop, At, ApplyInv
  <2>2. op'.wrote = op.wrote /\ op'.step = "log"
    BY <1>5 DEF ApplyIsNoop, IsOp, Fields
  <2> QED
    BY <2>1, <2>2, ApplyUnwritten
<1>6. CASE Read
  <2>1. ~op.wrote
    BY <1>6 DEF Read, At, ApplyInv
  <2>2. CASE /\ op' = [op EXCEPT !.step = "check", !.read = file[op.target]]
             /\ file[op.target] # Absent /\ file[op.target] # op.new
    <3>1. op'.wrote = op.wrote /\ op'.read = file[op.target] /\ op'.new = op.new
      BY <2>2 DEF IsOp, Fields
    <3> QED
      BY <2>1, <2>2, <3>1, ApplyUnwritten
  <2> QED
    BY <1>6, <1>u, <2>1, <2>2, GotoMoves, DoneMoves DEF Read
<1>7. ASSUME NEW verdict, Check(verdict) PROVE ApplyInv'
  <2>1. ~op.wrote /\ op.read # Absent /\ op.read # op.new
    BY <1>7 DEF Check, At, ApplyInv
  <2>2. CASE Goto("write")
    BY <2>1, <2>2, GotoMoves, ApplyUnwritten DEF Moves
  <2> QED
    BY <1>7, <1>u, <2>1, <2>2, DoneMoves DEF Check
<1>8. CASE Conflict
  <2>1. ~op.wrote /\ Done("error")
    BY <1>8 DEF Conflict, At, ApplyInv
  <2> QED
    BY <1>u, <2>1, DoneMoves
<1>9. CASE ArmAnswered
  <2>1. /\ op.step = "arming" /\ phase = "arm" /\ pending' = ArmedOf(job) /\ backups' = backups
        /\ Goto(IF op.backed THEN "reload" ELSE "discard")
    BY <1>9 DEF ArmAnswered, At, ArmMarker, fileVars
  <2>2. PICK step \in {"reload", "discard"} : Moves(step)
    BY <2>1, GotoMoves
  <2>3. op.armed = job.commit /\ op.armed \in Commit
    BY <2>1 DEF WindowInv
  <2>4. ArmedOf(job) # None
    BY <2>3, ArmedMade, MarkerAssumption DEF TypeOK, CommitTypes
  <2>5. ASSUME Applied PROVE Undoing'
    <3>1. Held(job.entries)
      BY <2>1, <2>5 DEF ApplyInv
    <3>2. pending'.commit = op'.armed /\ pending'.entries = job.entries
      BY <2>1, <2>2, <2>3 DEF ArmedOf, Moves
    <3> QED
      BY <2>1, <2>4, <3>1, <3>2 DEF Undoing, Held
  <2> QED
    BY <2>2, <2>5, ApplyMoves
<1>10. CASE Discard
  <2>0. op.step = "discard" /\ (Applied => Undoing /\ op.backed)
    BY <1>10 DEF Discard, At, ApplyInv
  <2>1. CASE pending # None /\ RollbackCommit /\ Goto("closing")
    <3>1. Moves("closing") /\ RollBack("request")
      BY <2>1, GotoMoves DEF RollbackCommit
    <3>2. Applied => Undoing'
      BY <1>m, <2>0, <2>1, <3>1, UndoingTaken
    <3> QED
      BY <3>1, <3>2, ApplyMoves
  <2>2. CASE Ask /\ Done("error")
    <3>1. Moves("done")
      BY <2>2, DoneMoves
    <3>2. Applied => Undoing'
      BY <1>a, <1>m, <2>0, <2>2, <3>1, UndoingKept
    <3> QED
      BY <3>1, <3>2, ApplyMoves
  <2> QED
    BY <1>10, <2>1, <2>2 DEF Discard
<1>11. CASE SendConfirm \/ SendRollback
  <2>1. op.kind # "apply" /\ (Goto("closing") \/ Done("error"))
    BY <1>11 DEF SendConfirm, SendRollback
  <2> QED
    BY <1>k, <2>1, GotoMoves, DoneMoves
<1>12. CASE Closed
  <2>1. CASE Committed /\ Done("ok")
    <3>1. op.kind # "apply"
      BY <2>1 DEF Committed, ServeInv
    <3> QED
      BY <1>k, <2>1, <3>1, DoneMoves
  <2>2. CASE ClearMarker
    <3>1. /\ phase = "clear" /\ phase' \in {"ended", "idle", "enforce"}
          /\ UNCHANGED <<pending, backups, file>>
      BY <2>2 DEF ClearMarker, fileVars
    <3>2. pending = None
      BY <3>1 DEF MirrorInv
    <3>3. Undoing => Gone
      BY <3>1, <3>2 DEF Undoing
    <3>4. ASSUME Undoing, op'.target = op.target, op'.new = op.new PROVE Undoing'
      BY <3>1, <3>2, <3>3, <3>4 DEF Undoing, Gone
    <3>5. CASE op.step = "closing" /\ \E result : Done(result)
      <4>1. Moves("done")
        BY <3>5, DoneMoves
      <4>2. Applied => Undoing
        BY <3>5 DEF ApplyInv
      <4> QED
        BY <1>m, <3>4, <4>1, <4>2, ApplyMoves
    <3>6. CASE op' = op
      <4>1. op.step \notin {"arm", "arming"}
        BY <3>1 DEF ArmInv, WindowInv
      <4>2. Applied' <=> Applied
        BY <3>6 DEF Applied
      <4> QED
        BY <3>4, <3>6, <4>1, <4>2 DEF ApplyInv
    <3> QED
      BY <1>12, <2>2, <3>5, <3>6, <2>1 DEF Closed, At
  <2> QED
    BY <1>12, <2>1, <2>2 DEF Closed
<1>13. ASSUME NEW out, Log(out) PROVE ApplyInv'
  <2>1. ~op.wrote
    BY <1>13 DEF Log, At, ApplyInv
  <2>2. CASE op' = [op EXCEPT !.step = FirstStep, !.logged = ~op.noop]
    <3>1. op'.wrote = op.wrote /\ op'.step \in {"read", "send"}
      BY <2>2 DEF IsOp, Fields, FirstStep
    <3> QED
      BY <2>1, <3>1, ApplyUnwritten
  <2> QED
    BY <1>13, <1>u, <2>1, <2>2, DoneMoves DEF Log
<1>14. ASSUME NEW out, Write(out) PROVE ApplyInv'
  <2>1. /\ op.step = "write" /\ ~op.wrote /\ op.read # Absent /\ op.read # op.new
        /\ file[op.target] = op.read /\ op.target \in Target
        /\ WriteAtomic(op.target, op.new, KeepBackups, out)
    BY <1>14 DEF Write, At, ApplyInv, WriteTarget, OpTyped, Applying
  <2>k. KeepBackups \in Nat \ {0}
    BY ConstantsAssumption
  <2>2. BackupTaken(op.target, KeepBackups)
    BY <2>1, <2>k DEF BackupTaken
  <2>3. CASE out = "ok"
    <3>1. op' = [op EXCEPT !.step = IF op.window THEN "arm" ELSE "reload", !.wrote = TRUE,
                           !.backed = BackupTaken(op.target, KeepBackups)]
      BY <1>14, <2>3 DEF Write
    <3>2. /\ op'.step = IF op.window THEN "arm" ELSE "reload"
          /\ op'.window = op.window /\ op'.read = op.read /\ op'.new = op.new
          /\ op'.backed = BackupTaken(op.target, KeepBackups)
      BY <3>1 DEF IsOp, Fields
    <3>3. ASSUME op.window PROVE Held(journal)'
      <4>1. journal' = Append(<<>>, [target |-> op.target, backup |-> stamp + 1, new |-> op.new,
                                     prev |-> file[op.target]])
        BY <1>14, <2>1, <2>2, <2>3, <3>3 DEF Write, WriteTarget, Journaled, WindowInv
      <4>2. journal'[1].backup = stamp + 1
        BY <4>1
      <4>3. TakeBackup(op.target, KeepBackups)
        BY <2>1, <2>3 DEF WriteAtomic
      <4>4. backups'[stamp + 1] # None
        BY <2>1, <2>k, <4>3, BackupStays DEF TypeOK
      <4> QED
        BY <4>2, <4>4 DEF Held
    <3>4. CASE op.window
      BY <2>1, <2>2, <3>2, <3>3, <3>4 DEF ApplyInv
    <3>5. CASE ~op.window
      BY <3>2, <3>5 DEF ApplyInv, Applied
    <3> QED
      BY <3>4, <3>5
  <2>4. CASE out # "ok"
    <3>1. op' = [op EXCEPT !.step = "done", !.result = "error",
                           !.wrote = file'[op.target] # file[op.target]]
      BY <1>14, <2>4 DEF Write
    <3>2. file' = file
      BY <1>0, <2>1, <2>4 DEF WriteAtomic, Replace, fileVars
    <3>3. ~op'.wrote /\ op'.step = "done"
      BY <3>1, <3>2 DEF IsOp, Fields
    <3> QED
      BY <3>3, ApplyUnwritten
  <2> QED
    BY <2>3, <2>4
<1>15. ASSUME NEW out, Reload(out) \/ StartMounts(out) \/ MountsStarted(out) \/ Act(out)
       PROVE  ApplyInv'
  <2>1. /\ op.step \in {"reload", "mount", "mounting", "act"}
        /\ \/ Goto("mount") \/ Goto("mounting") \/ Goto("act") \/ Goto("discard")
           \/ (\E result : Done(result)) \/ Returned
    BY <1>15 DEF Reload, StartMounts, MountsStarted, Act, At, AfterFailure
  <2>2. Returned => Done("ok")
    BY DEF Returned, Done
  <2>3. PICK step \in {"mount", "mounting", "act", "discard", "done"} : Moves(step)
    BY <2>1, <2>2, GotoMoves, DoneMoves
  <2>4. Applied => Undoing
    BY <2>1 DEF ApplyInv
  <2>5. /\ UNCHANGED <<pending, job, todo, backups, file>>
        /\ \/ phase' = phase
           \/ phase \in {"idle", "mounting"} /\ phase' \in {"enforce", "mounting"}
    BY <1>15 DEF Reload, StartMounts, MountsStarted, Act, ReloadUnitFiles, Mount, MountUnits,
                 Service, Served, vars, fileVars, commitVars
  <2>6. Applied => Undoing'
    BY <1>m, <2>3, <2>4, <2>5, UndoingKept
  <2> QED
    BY <2>3, <2>6, ApplyMoves
<1>16. ASSUME NEW out, SendRestore(out) PROVE ApplyInv'
  <2>1. op'.kind = op.kind /\ op.kind = "restore" /\ op'.step = "done"
    BY <1>16 DEF SendRestore, Done, IsOp, Fields
  <2> QED
    BY <2>1 DEF ApplyInv, Applied
<1>17. ASSUME NEW out, SendService(out) PROVE ApplyInv'
  <2>1. op.kind # "apply" /\ \E result : Done(result)
    BY <1>17 DEF SendService
  <2> QED
    BY <1>k, <2>1, DoneMoves
<1>18. ASSUME NEW c, NEW timeout, ArmCommit(c, timeout) PROVE ApplyInv'
  <2>1. op.step = "arm" /\ job'.entries = journal /\ backups' = backups
    BY <1>18 DEF ArmCommit, At, StartConfirmTimer, fileVars
  <2>2. op' = [op EXCEPT !.step = "arming", !.armed = c]
    BY <1>18 DEF ArmCommit
  <2>3. /\ op'.step = "arming" /\ op'.kind = op.kind /\ op'.window = op.window
        /\ op'.wrote = op.wrote /\ op'.backed = op.backed /\ op'.read = op.read /\ op'.new = op.new
    BY <2>2 DEF IsOp, Fields
  <2>4. Applied' <=> Applied
    BY <2>3 DEF Applied
  <2>5. Applied => Held(job.entries)'
    BY <2>1 DEF ApplyInv, Held
  <2> QED
    BY <2>3, <2>4, <2>5 DEF ApplyInv
<1> QED
  BY <1>1, <1>2, <1>3, <1>4, <1>5, <1>6, <1>7, <1>8, <1>9, <1>10, <1>11, <1>12, <1>13, <1>14,
     <1>15, <1>16, <1>17, <1>18
  DEF EngineNext, EngineStep

(* An apply with a confirm window that answers an error has left nothing of *)
(* itself in its target, once the window is closed: the backup of its write *)
(* is there until the window has been rolled back, and the rollback finds   *)
(* the apply's contents and restores what they replaced, or finds an edit   *)
(* (write_target, reload_or_discard, discard_commit, roll_back).  Hooks may *)
(* fail and the monitor may be killed at any step; calls of the file system *)
(* do not fail, and the configuration keeps backups.                        *)
THEOREM FailedAppliesAreUndone ==
  ASSUME "io" \notin Faults, KeepBackups # 0
  PROVE  EngineSpec => []FailedApplyUndone
<1> DEFINE Inv == /\ TypeOK /\ MirrorInv /\ KnownInv /\ ipMark = None /\ EngineInv /\ OpTyped
                  /\ FreshInv /\ ServeInv /\ ArmInv /\ ApplyInv
<1>1. EngineInit => Inv
  <2> SUFFICES ASSUME EngineInit PROVE Inv
    OBVIOUS
  <2>1. Init /\ op = Idle
    BY DEF EngineInit
  <2>2. KnownInv
    BY <2>1, MarkerAssumption DEF Init, KnownInv, AllKnown, NoJob
  <2>3. TypeOK /\ MirrorInv /\ ipMark = None /\ FreshInv /\ EngineInv
    BY <2>1, Initially, EngineInvInit DEF IInv, Init, FreshInv
  <2>4. op.step = "idle" /\ op.kind = "none" /\ ~op.wrote /\ ~greeted
    BY <2>1 DEF Idle, Init
  <2>5. OpTyped
    BY <2>4 DEF OpTyped, Applying
  <2>6. ServeInv
    BY <2>1, <2>4 DEF ServeInv, Init
  <2>7. ArmInv /\ ApplyInv
    BY <2>4 DEF ArmInv, ApplyInv, Applied
  <2> QED
    BY <2>2, <2>3, <2>5, <2>6, <2>7
<1>2. Inv /\ [EngineNext]_allVars => Inv'
  <2> SUFFICES ASSUME Inv, [EngineNext]_allVars PROVE Inv'
    OBVIOUS
  <2>1. [Next]_vars
    BY Drives DEF LogFails, Failing
  <2>2. TypeOK' /\ MirrorInv' /\ ipMark' = None
    BY <2>1, TypeStep, MirrorStep, NoInPlaceMarker
  <2>3. KnownInv' /\ FreshInv'
    BY <2>1, <2>2, KnownStep, FreshStep
  <2>4. EngineInv'
    BY EngineInvNext
  <2>5. OpTyped' /\ ServeInv' /\ ArmInv'
    BY TypedStep, ServeStep, ArmStep DEF EngineInv
  <2>6. ApplyInv'
    BY ApplyStep DEF EngineInv
  <2> QED
    BY <2>2, <2>3, <2>4, <2>5, <2>6
<1>3. Inv => FailedApplyUndone
  BY DEF ApplyInv, Applied, Undoing, Gone, FailedApplyUndone, At
<1> QED
  BY <1>1, <1>2, <1>3, PTL DEF EngineSpec

----------------------------------------------------------------------------
(***************************************************************************)
(* The mounts an apply started.  The record that start_added wrote for the *)
(* contents of the apply stays with the marker of its window: a later      *)
(* start, the confirm and the rollback replace or drop it, and nothing     *)
(* else does, whatever is killed or fails.                                 *)
(***************************************************************************)
Starting == {"arm", "arming", "reload", "mount"}

HasBeenArmed(c) == c \in Commit /\ fate[c] # "unarmed"

StartInv ==
  /\ op.step \in {"reload", "mount"} /\ op.armed # 0 => op.backed /\ HasBeenArmed(op.armed)
  /\ starter # 0 => HasBeenArmed(starter)

Recorded(entries) ==
  \A i \in DOMAIN entries :
    LET e == entries[i] IN
      e.target \in Mounting /\ mountRec = [target |-> e.target, contents |-> e.new]

MountInv ==
  marker \notin {None, Corrupt} /\ marker.commit = starter => Recorded(marker.entries)

(* The engine keeps the monitor's types and its marker.                     *)
LEMMA EngineTypes ==
  ASSUME TypeOK, MirrorInv, OpTyped, [EngineNext]_allVars
  PROVE  TypeOK' /\ MirrorInv'
<1>1. CASE [Next]_vars
  BY <1>1, TypeStep, MirrorStep
<1>2. CASE LogFails
  <2>1. faults' \in 0 .. MaxFaults
    BY <1>2, FailingType DEF LogFails, TypeOK, ControlTypes
  <2>2. FileTypes' /\ CommitTypes' /\ HookTypes'
    BY <1>2, FileKept, CommitKept, HookKept DEF LogFails, TypeOK
  <2>3. ControlTypes'
    BY <1>2, <2>1 DEF LogFails, TypeOK, ControlTypes
  <2>4. MirrorInv'
    BY <1>2 DEF LogFails, MirrorInv, commitVars
  <2> QED
    BY <2>2, <2>3, <2>4 DEF TypeOK
<1> QED
  BY <1>1, <1>2, Drives

(* Without a power loss, only an arming puts a new commit into the marker.  *)
LEMMA MarkerMoves ==
  ASSUME [Live]_vars \/ LogFails
  PROVE  marker' \in {marker, None, Corrupt} \/ ArmMarker
<1>1. CASE \E t \in Target, out \in Outcomes :
             Service(t, out) \/ ReloadUnitFiles(t, out) \/ Mount(t, out)
  BY <1>1 DEF Service, ReloadUnitFiles, Mount, commitVars
<1>2. CASE \E c \in Commit, timeout \in Requested, s \in Target \cup {None} :
             StartConfirmTimer(c, timeout, s)
  BY <1>2 DEF StartConfirmTimer
<1>3. CASE ConfirmExpired \/ ConfirmCommit \/ RollbackCommit \/ EnforceDeadline \/ Exit
  BY <1>3 DEF ConfirmExpired, ConfirmCommit, RollbackCommit, EnforceDeadline, Exit, RollBack,
              commitVars
<1>4. CASE Hello \/ Ask \/ ArmFails \/ Committed \/ Poll \/ Reaped \/ Start \/ Tick \/ Edit
  BY <1>4 DEF Hello, Ask, Served, ArmFails, Committed, Poll, Reaped, Start, Tick, Edit, commitVars
<1>5. CASE \E out \in Outcomes :
             StopMounts(out) \/ ReplayReload(out) \/ ReplayService(out) \/ MountUnits(out)
  BY <1>5 DEF StopMounts, ReplayReload, ReplayService, MountUnits, commitVars
<1>6. CASE Restored \/ ClearMarker \/ ClearFails \/ RecoverPending \/ Crash
  BY <1>6 DEF Restored, ClearMarker, ClearFails, RecoverPending, Crash, commitVars
<1>7. CASE \/ \E s \in Stamp, out \in Outcomes : Restore(s, out)
           \/ \E out \in Outcomes : RestoreEntry(out) \/ RecoverInPlace(out)
           \/ \E t \in Target, c \in Content, j \in BOOLEAN, out \in Outcomes :
                WriteTarget(t, c, j, out)
  BY <1>7 DEF Restore, RestoreEntry, RestoreOne, RecoverInPlace, WriteTarget, commitVars
<1>8. CASE UNCHANGED vars \/ LogFails
  BY <1>8 DEF vars, commitVars, LogFails
<1> QED
  BY <1>1, <1>2, <1>3, <1>4, <1>5, <1>6, <1>7, <1>8 DEF Live, Request, Step

(* What became of a commit is not undone.                                   *)
LEMMA ArmedForGood ==
  ASSUME TypeOK, [Next]_vars \/ LogFails, NEW c, HasBeenArmed(c)
  PROVE  HasBeenArmed(c)'
<1>0. fate \in [Commit -> {"unarmed", "armed", "confirmed", "rolled back"}]
  BY DEF TypeOK, CommitTypes
<1>1. CASE UNCHANGED fate
  BY <1>1 DEF HasBeenArmed
<1>2. CASE ArmMarker \/ Committed \/ ClearMarker
  BY <1>0, <1>2 DEF ArmMarker, Committed, ClearMarker, HasBeenArmed
<1>3. CASE \E t \in Target, out \in Outcomes :
             Service(t, out) \/ ReloadUnitFiles(t, out) \/ Mount(t, out)
  BY <1>1, <1>3 DEF Service, ReloadUnitFiles, Mount, commitVars
<1>4. CASE \E c_1 \in Commit, timeout \in Requested, s \in Target \cup {None} :
             StartConfirmTimer(c_1, timeout, s)
  BY <1>1, <1>4 DEF StartConfirmTimer
<1>5. CASE ConfirmExpired \/ ConfirmCommit \/ RollbackCommit \/ EnforceDeadline \/ Exit
  BY <1>1, <1>5 DEF ConfirmExpired, ConfirmCommit, RollbackCommit, EnforceDeadline, Exit, RollBack,
                    commitVars
<1>6. CASE Hello \/ Ask \/ ArmFails \/ Poll \/ Reaped \/ Start \/ Tick \/ Edit \/ UNCHANGED vars \/ LogFails
  BY <1>1, <1>6 DEF Hello, Ask, ArmFails, Poll, Reaped, Start, Tick, Edit, vars, commitVars, LogFails
<1>7. CASE \E out \in Outcomes : \/ StopMounts(out) \/ RestoreEntry(out) \/ ReplayReload(out)
                                \/ ReplayService(out) \/ RecoverInPlace(out) \/ MountUnits(out)
  BY <1>1, <1>7 DEF StopMounts, RestoreEntry, RestoreOne, ReplayReload, ReplayService,
                    RecoverInPlace, MountUnits, commitVars
<1>8. CASE Restored \/ ClearFails \/ RecoverPending \/ Crash \/ PowerLoss
  BY <1>1, <1>8 DEF Restored, ClearFails, RecoverPending, Crash, PowerLoss, commitVars
<1>9. CASE \/ \E t \in Target, c_1 \in Content, j \in BOOLEAN, out \in Outcomes :
                WriteTarget(t, c_1, j, out)
           \/ \E s \in Stamp, out \in Outcomes : Restore(s, out)
  BY <1>1, <1>9 DEF WriteTarget, Restore, commitVars
<1> QED
  BY <1>2, <1>3, <1>4, <1>5, <1>6, <1>7, <1>8, <1>9 DEF Next, Request, Step

(* How an operation comes to, or stays at, the steps up to its mounts.      *)
LEMMA StartingSteps ==
  ASSUME IsOp, [EngineNext]_allVars, op'.step \in Starting
  PROVE  \/ op' = op
         \/ \E out \in Outcomes : Write(out) \/ (Reload(out) /\ op.step = "reload" /\ Moves("mount"))
         \/ \E c \in Commit, timeout \in Requested : ArmCommit(c, timeout)
         \/ ArmAnswered
<1>1. CASE BeginApply \/ BeginRestore \/ BeginService \/ BeginClose
  <2>1. op'.step \in {"noop", "log"}
    BY <1>1 DEF BeginApply, BeginRestore, BeginService, BeginClose, Idle
  <2> QED
    BY <2>1 DEF Starting
<1>2. CASE MonitorStep \/ UNCHANGED allVars \/ \E out \in Outcomes : Stops(out)
  BY <1>2 DEF MonitorStep, Stops, engineVars, allVars
<1>3. CASE Dies
  BY <1>3, EndedMoves DEF Dies, Moves, Starting
<1>4. CASE ApplyIsNoop
  BY <1>4 DEF ApplyIsNoop, IsOp, Fields, Starting
<1>5. ASSUME NEW out, Log(out) PROVE FALSE
  <2>1. op'.step \in {"done", "read", "send"}
    BY <1>5, DoneMoves DEF Log, IsOp, Fields, FirstStep, Moves
  <2> QED
    BY <2>1 DEF Starting
<1>6. CASE Read
  <2>1. op'.step \in {"done", "send", "check"}
    BY <1>6, DoneMoves, GotoMoves DEF Read, IsOp, Fields, Moves
  <2> QED
    BY <2>1 DEF Starting
<1>7. CASE Conflict \/ (\E verdict \in {"passed", "refused"} : Check(verdict))
  BY <1>7, DoneMoves, GotoMoves DEF Conflict, Check, Moves, Starting
<1>8. CASE Discard \/ SendConfirm \/ SendRollback
  BY <1>8, DoneMoves, GotoMoves DEF Discard, SendConfirm, SendRollback, Moves, Starting
<1>9. CASE Closed
  BY <1>9, DoneMoves DEF Closed, Moves, Starting
<1>10. ASSUME NEW out \in Outcomes, Reload(out)
       PROVE  op.step = "reload" /\ Moves("mount")
  BY <1>10, DoneMoves, GotoMoves DEF Reload, At, AfterFailure, Moves, Starting
<1>11. ASSUME NEW out, StartMounts(out) \/ MountsStarted(out) PROVE FALSE
  BY <1>11, GotoMoves DEF StartMounts, MountsStarted, Moves, Starting
<1>12. ASSUME NEW out, Act(out) PROVE FALSE
  <2>1. Returned => Done("ok")
    BY DEF Returned, Done
  <2> QED
    BY <1>12, <2>1, DoneMoves, GotoMoves DEF Act, AfterFailure, Moves, Starting
<1>13. ASSUME NEW out, SendRestore(out) \/ SendService(out) PROVE FALSE
  <2>1. op'.step = "done"
    BY <1>13, DoneMoves DEF SendRestore, SendService, Moves, IsOp, Fields
  <2> QED
    BY <2>1 DEF Starting
<1> QED
  BY <1>1, <1>2, <1>3, <1>4, <1>5, <1>6, <1>7, <1>8, <1>9, <1>10, <1>11, <1>12, <1>13
  DEF EngineNext, EngineStep

(* Which steps write or drop the record.                                    *)
LEMMA MountSteps ==
  ASSUME [EngineNext]_allVars
  PROVE  \/ UNCHANGED <<mountRec, starter>>
         \/ starter' = 0
         \/ \E out \in Outcomes : StartMounts(out)
<1>1. CASE BeginApply \/ BeginRestore \/ BeginService \/ BeginClose
  BY <1>1 DEF BeginApply, BeginRestore, BeginService, BeginClose, Begin, Keep, vars, hookVars
<1>2. CASE UNCHANGED allVars
  BY <1>2 DEF allVars, vars, hookVars, engineVars
<1>3. CASE Dies
  BY <1>3 DEF Dies, Ended, ArmFails, ClearFails, Crash, Exit, RollBack, hookVars
<1>4. CASE /\ UNCHANGED engineVars
           /\ \/ Hello \/ Poll \/ Reaped \/ Start \/ Tick \/ Edit \/ EnforceDeadline \/ Restored \/ RecoverPending
  BY <1>4 DEF engineVars, Hello, Poll, Reaped, Start, Tick, Edit, EnforceDeadline, RollBack, Restored,
              RecoverPending, hookVars
<1>5. ASSUME UNCHANGED engineVars, NEW out \in Outcomes,
             \/ RestoreEntry(out) \/ ReplayReload(out) \/ ReplayService(out) \/ RecoverInPlace(out)
      PROVE  UNCHANGED <<mountRec, starter>>
  BY <1>5 DEF engineVars, RestoreEntry, RestoreOne, ReplayReload, ReplayService, RecoverInPlace, hookVars
<1>6. CASE MonitorStep
  <2>1. starter' = starter
    BY <1>6 DEF MonitorStep, engineVars
  <2> QED
    BY <1>4, <1>5, <1>6, <2>1 DEF MonitorStep
<1>7. CASE ApplyIsNoop \/ Read \/ Conflict \/ (\E verdict \in {"passed", "refused"} : Check(verdict))
  BY <1>7 DEF ApplyIsNoop, Read, Conflict, Check, Ask, Keep, hookVars
<1>8. CASE ArmAnswered \/ Closed
  BY <1>8 DEF ArmAnswered, ArmMarker, Closed, Committed, ClearMarker, Keep, hookVars
<1>9. CASE Discard \/ SendConfirm \/ SendRollback
  BY <1>9 DEF Discard, SendConfirm, SendRollback, Ask, Keep, RollbackCommit, ConfirmExpired, RollBack,
              hookVars
<1>10. ASSUME NEW out \in Outcomes,
              Log(out) \/ Write(out) \/ Reload(out) \/ SendRestore(out) \/ SendService(out)
       PROVE  UNCHANGED <<mountRec, starter>>
  BY <1>10 DEF Log, Write, WriteTarget, Reload, ReloadUnitFiles, SendRestore, Restore, SendService,
               Service, Ask, Keep, vars, hookVars
<1>11. ASSUME NEW out \in Outcomes, Act(out) PROVE UNCHANGED <<mountRec, starter>>
  BY <1>11 DEF Act, Service, Returned, Keep, vars, hookVars
<1>12. ASSUME NEW c \in Commit, NEW timeout, ArmCommit(c, timeout)
       PROVE  UNCHANGED <<mountRec, starter>>
  BY <1>12 DEF ArmCommit, StartConfirmTimer, hookVars
<1>13. CASE \E out \in Outcomes : MountsStarted(out) \/ Stops(out)
  BY <1>13 DEF MountsStarted, MountUnits, Stops, Keep
<1> QED
  BY <1>1, <1>2, <1>3, <1>6, <1>7, <1>8, <1>9, <1>10, <1>11, <1>12, <1>13 DEF EngineNext, EngineStep

LEMMA StartStep ==
  ASSUME TypeOK, MirrorInv, IsOp, WindowInv, OpTyped, StartInv, [EngineNext]_allVars
  PROVE  StartInv'
<1>0. fate \in [Commit -> {"unarmed", "armed", "confirmed", "rolled back"}]
  BY DEF TypeOK, CommitTypes
<1>g. \A c : HasBeenArmed(c) => HasBeenArmed(c)'
  BY Drives, ArmedForGood
<1>w. ASSUME NEW out \in Outcomes, Write(out), op'.step \in Starting PROVE op'.armed = 0
  <2>1. op.step = "write" /\ op'.armed = op.armed
    BY <1>w DEF Write, At, IsOp, Fields
  <2> QED
    BY <2>1 DEF WindowInv
<1>a. ASSUME NEW c \in Commit, NEW timeout, ArmCommit(c, timeout) PROVE op'.step = "arming"
  BY <1>a DEF ArmCommit, IsOp, Fields
<1>b. ASSUME ArmAnswered, op'.step \in Starting PROVE op'.backed /\ HasBeenArmed(op.armed)'
  <2>1. op.step = "arming" /\ ArmMarker /\ Goto(IF op.backed THEN "reload" ELSE "discard")
    BY <1>b DEF ArmAnswered, At
  <2>2. op.backed /\ Moves("reload")
    BY <1>b, <2>1, GotoMoves DEF Moves, Starting
  <2>3. op'.armed = job.commit /\ job.commit \in Commit
    BY <2>1, <2>2 DEF WindowInv, Moves
  <2>4. fate'[job.commit] = "armed"
    BY <1>0, <2>1, <2>3 DEF ArmMarker
  <2> QED
    BY <2>2, <2>3, <2>4 DEF HasBeenArmed, Moves
<1>1. ASSUME op'.step \in {"reload", "mount"}, op'.armed # 0
      PROVE  op'.backed /\ HasBeenArmed(op.armed)'
  <2>1. CASE op.step \in {"reload", "mount"} /\ op'.backed = op.backed /\ op'.armed = op.armed
    BY <1>1, <1>g, <2>1 DEF StartInv, HasBeenArmed
  <2>2. op'.step \in Starting
    BY <1>1 DEF Starting
  <2> QED
    BY <1>1, <1>a, <1>b, <1>w, <2>1, <2>2, StartingSteps DEF Moves
<1>2. ASSUME starter' # 0 PROVE HasBeenArmed(starter)'
  <2>1. starter' = starter \/ (op.step = "mount" /\ starter' = op.armed)
    BY <1>2, MountSteps DEF StartMounts, At
  <2>2. HasBeenArmed(starter')
    BY <1>2, <2>1 DEF StartInv
  <2> QED
    BY <1>g, <2>2 DEF HasBeenArmed
<1> QED
  BY <1>1, <1>2 DEF StartInv

(* The apply that starts mounts of its own contents under its own window    *)
(* records what the window's one entry wrote.                               *)
LEMMA StartRecords ==
  ASSUME TypeOK, MirrorInv, IsOp, WindowInv, StartInv, MountInv, NEW out \in Outcomes,
         StartMounts(out), marker \notin {None, Corrupt}, marker.commit = starter', starter' # 0
  PROVE  Recorded(marker.entries)'
<1>1. CASE UNCHANGED <<vars, starter>>
  BY <1>1 DEF MountInv, Recorded, vars, commitVars, hookVars
<1>2. CASE op.target \in Mounting /\ Mount(op.target, out)
  <2>1. /\ out = "ok" /\ file[op.target] = op.new /\ starter' = op.armed /\ op.step = "mount"
        /\ UNCHANGED marker /\ phase = "idle"
    <3>1. op.target \in Mounting => starter' = IF out = "ok" /\ file[op.target] = op.new THEN op.armed ELSE 0
      BY DEF StartMounts
    <3> QED
      BY <1>2, <3>1 DEF StartMounts, At, Mount, commitVars
  <2>2. pending # None /\ marker = pending
    BY <2>1 DEF MirrorInv
  <2>3. op.backed /\ pending.commit = op.armed
    BY <2>1, <2>2 DEF StartInv
  <2>4. Len(pending.entries) = 1 /\ pending.entries[1].target = op.target
        /\ pending.entries[1].new = op.new
    BY <2>2, <2>3 DEF WindowInv, Covers
  <2>5. \A i \in DOMAIN pending.entries : i = 1
    <3>1. pending.entries \in Seq(Entry)
      BY <2>2 DEF TypeOK, CommitTypes, Armed
    <3> QED
      BY <2>4, <3>1
  <2>6. mountRec' = [target |-> op.target, contents |-> file[op.target]]
    BY <1>2, <2>1 DEF Mount
  <2> QED
    BY <1>2, <2>1, <2>2, <2>4, <2>5, <2>6 DEF Recorded
<1> QED
  BY <1>1, <1>2 DEF StartMounts

LEMMA MountStep ==
  ASSUME TypeOK, MirrorInv, IsOp, WindowInv, OpTyped, StartInv, MountInv, [EngineNext]_allVars
  PROVE  MountInv'
<1> SUFFICES ASSUME marker' \notin {None, Corrupt}, marker'.commit = starter'
             PROVE  Recorded(marker.entries)'
  BY DEF MountInv
<1>1. CASE ArmMarker
  <2>1. /\ marker'.commit = job.commit /\ job.commit \in Commit /\ fate[job.commit] = "unarmed"
        /\ phase = "arm"
    BY <1>1 DEF ArmMarker, ArmedOf, MirrorInv
  <2>2. starter' # 0
    BY <2>1, ConstantsAssumption
  <2>3. starter' = starter
    BY <1>1, <2>1, <2>2, MountSteps DEF StartMounts, Mount, ArmMarker, vars
  <2> QED
    BY <2>1, <2>2, <2>3 DEF StartInv, HasBeenArmed
<1>2. CASE marker' = marker /\ ~ArmMarker
  <2>1. marker.commit \in Commit
    BY <1>2 DEF TypeOK, CommitTypes, Armed
  <2>2. starter' # 0
    BY <1>2, <2>1, ConstantsAssumption
  <2>3. CASE UNCHANGED <<mountRec, starter>>
    BY <1>2, <2>3 DEF MountInv, Recorded
  <2>4. CASE \E out \in Outcomes : StartMounts(out)
    BY <1>2, <2>2, <2>4, StartRecords
  <2> QED
    BY <2>2, <2>3, <2>4, MountSteps
<1> QED
  BY <1>1, <1>2, LiveDrives, MarkerMoves

(* A rollback that finds the target as the apply left it stops the mounts   *)
(* which the apply started, for any targets, contents and windows, and      *)
(* whatever edits, kills and failing calls come between, unless its         *)
(* stop_started itself fails: the record that stop_started goes by is there *)
(* before the units are, and as long as the window's marker (start_added,   *)
(* confirm_commit, stop_started).                                           *)
THEOREM MountsAreStopped == EngineSpec => MountsGone
<1> DEFINE Inv == TypeOK /\ MirrorInv /\ EngineInv /\ OpTyped /\ StartInv /\ MountInv
<1>1. EngineInit => Inv
  <2> SUFFICES ASSUME EngineInit PROVE Inv
    OBVIOUS
  <2>1. Init /\ op = Idle /\ starter = 0
    BY DEF EngineInit
  <2>2. op.step = "idle" /\ op.kind = "none"
    BY <2>1 DEF Idle
  <2>3. TypeOK /\ MirrorInv /\ EngineInv
    BY <2>1, Initially, EngineInvInit DEF IInv
  <2>4. OpTyped
    BY <2>2 DEF OpTyped, Applying
  <2>5. StartInv /\ MountInv
    BY <2>1, <2>2 DEF Init, StartInv, MountInv
  <2> QED
    BY <2>3, <2>4, <2>5
<1>2. Inv /\ [EngineNext]_allVars => Inv'
  BY EngineTypes, EngineInvNext, TypedStep, StartStep, MountStep DEF EngineInv
<1>3. Inv /\ [EngineNext]_allVars =>
        [(phase = "mounts" /\ phase' = "restore" /\ faults' = faults /\ starter = job.commit) =>
           \A i \in DOMAIN job.entries :
             LET e == job.entries[i] IN
               file[e.target] = e.new => mounted'[e.target] # e.new]_allVars
  <2> SUFFICES ASSUME Inv, [EngineNext]_allVars, phase = "mounts", phase' = "restore",
                      faults' = faults, starter = job.commit, NEW i \in DOMAIN job.entries,
                      file[job.entries[i].target] = job.entries[i].new
               PROVE  mounted'[job.entries[i].target] # job.entries[i].new
    OBVIOUS
  <2> DEFINE e == job.entries[i]
  <2>1. Recorded(job.entries)
    <3>1. job.commit \in Commit /\ marker = ArmedOf(job)
      BY DEF MirrorInv, Closing, RollbackPhases
    <3>2. marker \in Armed
      BY <3>1, ArmedMade DEF TypeOK, CommitTypes
    <3> QED
      BY <3>1, <3>2, MarkerAssumption DEF MountInv, ArmedOf
  <2>2. PICK out \in Outcomes : StopMounts(out)
    <3>1. [Next]_vars \/ LogFails
      BY Drives
    <3> QED
      BY <3>1, RollbackSteps
      DEF Restored, RestoreEntry, ReplayReload, ReplayService, Edit, LogFails
  <2>3. e \in Entry /\ mounted \in [Target -> FileState \cup {None}] /\ faults \in Nat
    <3>1. job.entries \in Seq(Entry)
      BY JobParts DEF TypeOK, CommitTypes
    <3>2. e \in Entry
      BY <3>1
    <3> QED
      BY <3>2, ConstantsAssumption DEF TypeOK, HookTypes, ControlTypes
  <2>4. e.target \in Target /\ e.new # None
    BY <2>3, SentinelsAssumption DEF Entry
  <2>5. e.target \in Mounting /\ mountRec = [target |-> e.target, contents |-> e.new]
    BY <2>1 DEF Recorded
  <2>6. StartsMounts(job.entries) /\ mountRec # None
    <3>1. e.target \in Targets(job.entries) \cap Mounting
      BY <2>5 DEF Targets
    <3>2. mountRec # None
      BY <2>3, <2>5, RecordsAssumption DEF Entry, Backup
    <3> QED
      BY <3>1, <3>2 DEF StartsMounts
  <2>7. mounted' = [mounted EXCEPT ![e.target] = None]
    BY <2>2, <2>3, <2>5, <2>6 DEF StopMounts, Failing
  <2> QED
    BY <2>3, <2>4, <2>7
<1> QED
  BY <1>1, <1>2, <1>3, PTL DEF EngineSpec, MountsGone

=============================================================================
