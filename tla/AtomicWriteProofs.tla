------------------------- MODULE AtomicWriteProofs -------------------------
(***************************************************************************)
(* The in-place marker covers every torn target, for any contents, any     *)
(* number of backups, faults and edits (edits between two steps of a write *)
(* included), as long as the allow-list keeps the target and power losses  *)
(* are not mixed with kills or failing calls: after a kill, recovery may   *)
(* remove the marker over contents that a later power loss takes.          *)
(***************************************************************************)
EXTENDS AtomicWrite, FiniteSetTheorems, TLAPS

(* The faults under which the marker is enough.                            *)
FaultsAssumption == ~ListChanges /\ ("power" \in Faults => Faults = {"power"})

(* What a step relies on having been established by the steps before it.   *)
StepInv ==
  /\ w.mode = "Guarded" => w.recovering
  /\ pc \in {"tempSync", "rename"} => temp = w.new
  /\ pc = "rename" => tempDisk = {temp}
  /\ pc = "bkWrite" => w.found # Absent
  /\ pc \in {"markCreate", "markWrite", "markSync"} =>
       w.found # Absent /\ w.backup # None /\ w.mode = "Marker"

(* Why the marker is there when it is needed: a write that read a torn     *)
(* target did so under a marker, which then refuses its own; the marker is *)
(* removed only from under a whole target.                                 *)
Removing == {"dirSync", "inSync", "unmark", "unmarkSync"}
BeforeMark == {"backup", "bkWrite", "rotate", "temp", "fill", "tempSync",
               "rename", "dirSync", "markCreate"}
CoverInv ==
  /\ target = Torn => mark \in Marker
  /\ mark \in Marker => mark.prev # Torn
  /\ pc \in BeforeMark /\ w.found = Torn => mark \in Marker
  /\ pc \in {"markWrite", "markSync"} => w.found # Torn /\ target # Torn
  /\ pc = "open" /\ w.mode = "Marker" => target # Torn
  /\ pc \in {"markSync", "open", "check", "inWrite", "inSync", "unmark"} => mark \in Marker
  /\ pc \in Steps \ {"unmarkSync"} /\ w.recovering => mark \in Marker
  /\ pc \in Removing => target # Torn

(* The same for what a power loss would leave.                             *)
DiskInv ==
  "power" \in Faults =>
    /\ Torn \in targetDisk => mark \in Marker /\ markDisk = {mark}
    /\ Torn \in targetDisk => target = Torn \/ pc \in {"dirSync", "inSync"}
    /\ pc \notin {"markWrite", "markSync", "unmarkSync"} => markDisk = {mark}
    /\ \A m \in markDisk : m \in Marker => m.prev # Torn

IInv == TypeOK /\ StepInv /\ CoverInv /\ DiskInv

(* A new write record is a request, and its fields are what it was made of. *)
LEMMA NewWriteType ==
  ASSUME NEW c \in Bytes, NEW e \in Bytes \cup {Torn, None},
         NEW m \in {"Never", "Marker", "Guarded"}, NEW k \in Nat, NEW r \in BOOLEAN
  PROVE  /\ NewWrite(c, e, m, k, r) \in Request
         /\ NewWrite(c, e, m, k, r).mode = m
         /\ NewWrite(c, e, m, k, r).recovering = r
         /\ NewWrite(c, e, m, k, r).new = c
  BY DEF NewWrite, Request, FileState

(* So is the record of no write.                                            *)
LEMMA NoWriteType ==
  NoWrite \in Request /\ NoWrite.mode = "Never" /\ ~NoWrite.recovering
  BY DEF NoWrite, NewWrite, Request, FileState, Bytes

(* Every step keeps the types.                                              *)
LEMMA TypeStep == ASSUME TypeOK, StepInv, [Next]_vars PROVE TypeOK'
<1> USE ConstantsAssumption, SentinelsAssumption
<1>1. CASE Read
  BY <1>1, NoWriteType DEF TypeOK, Request, Steps, Read, Over
<1>2. CASE BackupCreate
  BY <1>2 DEF TypeOK, Request, Bytes, Steps, BackupCreate
<1>3. CASE BackupWrite
  <2>1. BackupOf(w.found) \in Bytes
    BY <1>3 DEF TypeOK, StepInv, Request, FileState, Bytes, BackupWrite, BackupOf
  <2> QED
    BY <1>3, <2>1 DEF TypeOK, Steps, BackupWrite
<1>4. CASE Rotate
  BY <1>4 DEF TypeOK, Steps, Rotate
<1>5. CASE TempCreate
  BY <1>5, NoWriteType DEF TypeOK, Steps, TempCreate, Over
<1>6. CASE Fill
  BY <1>6 DEF TypeOK, Request, Steps, Fill
<1>7. CASE TempSync
  BY <1>7 DEF TypeOK, Steps, TempSync
<1>8. CASE Rename
  BY <1>8 DEF TypeOK, StepInv, Request, FileState, Steps, Rename
<1>9. CASE DirSync
  BY <1>9, NoWriteType DEF TypeOK, Steps, DirSync, AfterReplace, Over
<1>10. CASE MarkCreate
  BY <1>10, NoWriteType DEF TypeOK, Steps, MarkCreate, Over
<1>11. CASE MarkWrite
  BY <1>11 DEF TypeOK, StepInv, Request, Marker, FileState, Steps, MarkWrite
<1>12. CASE MarkSync
  BY <1>12 DEF TypeOK, Steps, MarkSync
<1>13. CASE Open
  BY <1>13 DEF TypeOK, FileState, Steps, Open
<1>14. CASE Check
  BY <1>14, NoWriteType DEF TypeOK, Steps, Check, Over
<1>15. CASE InWrite
  BY <1>15 DEF TypeOK, Request, FileState, Steps, InWrite
<1>16. CASE InSync
  BY <1>16 DEF TypeOK, Steps, InSync
<1>17. CASE Unmark
  BY <1>17 DEF TypeOK, Steps, Unmark
<1>18. CASE UnmarkSync
  BY <1>18, NoWriteType DEF TypeOK, UnmarkSync, Over
<1>19. CASE Start
  BY <1>19 DEF TypeOK, Start
<1>20. CASE Recover
  <2>1. w' \in Request /\ (w'.mode = "Guarded" => w'.recovering)
    <3>1. CASE mark = None \/ mark = Partial
      BY <1>20, <3>1, MarkerAssumption DEF TypeOK, StepInv, Recover, Whole
    <3>2. CASE mark \in Marker
      <4>1. mark.backup \in Stamp
        BY <3>2 DEF Marker
      <4>2. backups[mark.backup] # None => backups[mark.backup] \in Bytes
        BY <4>1 DEF TypeOK
      <4>3. NewWrite(Scrap, None, "Never", 0, TRUE) \in Request
            /\ NewWrite(Scrap, None, "Never", 0, TRUE).recovering
        BY DEF NewWrite, Request, FileState, Bytes
      <4>4. ASSUME backups[mark.backup] # None
            PROVE  LET n == NewWrite(backups[mark.backup], None, "Guarded", DefaultKeep, TRUE)
                   IN  n \in Request /\ n.recovering
        BY <4>2, <4>4, ConstantsAssumption DEF NewWrite, Request, FileState
      <4> QED
        BY <1>20, <3>2, <4>3, <4>4, NoWriteType, MarkerAssumption DEF Recover, Over
    <3> QED
      BY <3>1, <3>2 DEF TypeOK
  <2> QED
    BY <1>20, <2>1 DEF TypeOK, Marker, FileState, Bytes, Steps, Recover, Over
<1>21. CASE Write
  <2>1. PICK c \in Content, e \in Content \cup {Torn, None}, m \in {"Never", "Marker"} :
          Begin(c, e, m, KeepBackups)
    BY <1>21 DEF Write
  <2>2. w' \in Request /\ w'.mode # "Guarded"
    BY <2>1, ConstantsAssumption DEF Begin, NewWrite, Request, FileState, Bytes
  <2> QED
    BY <2>1, <2>2 DEF TypeOK, Marker, FileState, Bytes, Steps, Begin
<1>22. CASE Restore
  <2>1. PICK s \in Stamp, e \in Content \cup {None} :
          /\ backups[s] # None
          /\ Begin(backups[s], e, "Marker", DefaultKeep)
    BY <1>22 DEF Restore
  <2>2. backups[s] \in Bytes
    BY <2>1 DEF TypeOK
  <2>3. w' \in Request /\ w'.mode # "Guarded"
    BY <2>1, <2>2, ConstantsAssumption DEF Begin, NewWrite, Request, FileState, Bytes
  <2> QED
    BY <2>1, <2>3 DEF TypeOK, Marker, FileState, Bytes, Steps, Begin
<1>23. CASE Edit
  <2>1. w' \in Request
    BY <1>23 DEF TypeOK, Edit, Request
  <2> QED
    BY <1>23, <2>1 DEF TypeOK, FileState, Bytes, Edit
<1>24. CASE Stop
  BY <1>24 DEF TypeOK, Stop
<1>25. CASE IoError
  <2>1. w' \in Request
    <3>1. [w EXCEPT !.ok = FALSE] \in Request
      BY DEF TypeOK, Request
    <3> QED
      BY <1>25, <3>1, NoWriteType DEF IoError, Over
  <2>2. backups' \in [Stamp -> Bytes \cup {None}]
    <3>1. BackupsLeft \subseteq [Stamp -> Bytes \cup {None}]
      BY <1>25 DEF TypeOK, StepInv, BackupsLeft, BackupOf, Request, FileState, Bytes
    <3> QED
      BY <1>25, <3>1 DEF IoError
  <2> QED
    BY <1>25, <2>1, <2>2 DEF TypeOK, Steps, IoError, Over
<1>26. CASE Crash
  BY <1>26, NoWriteType DEF TypeOK, Crash
<1>27. CASE PowerLoss
  BY <1>27, NoWriteType DEF TypeOK, StepInv, Request, FileState, Bytes, PowerLoss, BackupOf
<1>28. CASE UNCHANGED vars
  BY <1>28 DEF TypeOK, StepInv, Request, Marker, FileState, Bytes, Steps, vars
<1> QED
  BY <1>1, <1>2, <1>3, <1>4, <1>5, <1>6, <1>7, <1>8, <1>9, <1>10, <1>11, <1>12, <1>13,
     <1>14, <1>15, <1>16, <1>17, <1>18, <1>19, <1>20, <1>21, <1>22, <1>23, <1>24,
     <1>25, <1>26, <1>27, <1>28
  DEF Next, Protocol

(* Every step leaves what the next one relies on.                           *)
LEMMA StepStep == ASSUME TypeOK, StepInv, [Next]_vars PROVE StepInv'
<1>1. CASE Read
  BY <1>1, NoWriteType DEF TypeOK, StepInv, Request, Read, Over
<1>2. CASE BackupCreate
  BY <1>2 DEF TypeOK, StepInv, Request, BackupCreate
<1>3. CASE BackupWrite
  BY <1>3 DEF StepInv, BackupWrite
<1>4. CASE Rotate
  BY <1>4 DEF StepInv, Rotate
<1>5. CASE TempCreate
  BY <1>5, NoWriteType DEF StepInv, TempCreate, Over
<1>6. CASE Fill
  BY <1>6 DEF StepInv, Fill
<1>7. CASE TempSync
  BY <1>7 DEF StepInv, TempSync
<1>8. CASE Rename
  BY <1>8 DEF StepInv, Rename
<1>9. CASE DirSync
  BY <1>9, NoWriteType DEF StepInv, DirSync, AfterReplace, Over
<1>10. CASE MarkCreate
  BY <1>10, NoWriteType DEF StepInv, MarkCreate, Over
<1>11. CASE MarkWrite
  BY <1>11 DEF StepInv, MarkWrite
<1>12. CASE MarkSync
  BY <1>12 DEF StepInv, MarkSync
<1>13. CASE Open
  BY <1>13 DEF StepInv, Open
<1>14. CASE Check
  BY <1>14, NoWriteType DEF StepInv, Check, Over
<1>15. CASE InWrite
  BY <1>15 DEF StepInv, InWrite
<1>16. CASE InSync
  BY <1>16 DEF StepInv, InSync
<1>17. CASE Unmark
  BY <1>17 DEF StepInv, Unmark
<1>18. CASE UnmarkSync
  BY <1>18, NoWriteType DEF StepInv, UnmarkSync, Over
<1>19. CASE Start
  BY <1>19 DEF StepInv, Start
<1>20. CASE Recover
  <2>1. w' \in Request /\ (w'.mode = "Guarded" => w'.recovering)
    <3>1. CASE mark = None \/ mark = Partial
      BY <1>20, <3>1, MarkerAssumption DEF TypeOK, StepInv, Recover, Whole
    <3>2. CASE mark \in Marker
      <4>1. mark.backup \in Stamp
        BY <3>2 DEF Marker
      <4>2. backups[mark.backup] # None => backups[mark.backup] \in Bytes
        BY <4>1 DEF TypeOK
      <4>3. NewWrite(Scrap, None, "Never", 0, TRUE) \in Request
            /\ NewWrite(Scrap, None, "Never", 0, TRUE).recovering
        BY DEF NewWrite, Request, FileState, Bytes
      <4>4. ASSUME backups[mark.backup] # None
            PROVE  LET n == NewWrite(backups[mark.backup], None, "Guarded", DefaultKeep, TRUE)
                   IN  n \in Request /\ n.recovering
        BY <4>2, <4>4, ConstantsAssumption DEF NewWrite, Request, FileState
      <4> QED
        BY <1>20, <3>2, <4>3, <4>4, NoWriteType, MarkerAssumption DEF Recover, Over
    <3> QED
      BY <3>1, <3>2 DEF TypeOK
  <2> QED
    BY <1>20, <2>1 DEF TypeOK, StepInv, Steps, Recover, Over
<1>21. CASE Write
  <2>1. PICK c \in Content, e \in Content \cup {Torn, None}, m \in {"Never", "Marker"} :
          Begin(c, e, m, KeepBackups)
    BY <1>21 DEF Write
  <2>2. w' \in Request /\ w'.mode # "Guarded"
    BY <2>1, ConstantsAssumption DEF Begin, NewWrite, Request, FileState, Bytes
  <2> QED
    BY <2>1, <2>2 DEF TypeOK, StepInv, Steps, Begin
<1>22. CASE Restore
  <2>1. PICK s \in Stamp, e \in Content \cup {None} :
          /\ backups[s] # None
          /\ Begin(backups[s], e, "Marker", DefaultKeep)
    BY <1>22 DEF Restore
  <2>2. backups[s] \in Bytes
    BY <2>1 DEF TypeOK
  <2>3. w' \in Request /\ w'.mode # "Guarded"
    BY <2>1, <2>2, ConstantsAssumption DEF Begin, NewWrite, Request, FileState, Bytes
  <2> QED
    BY <2>1, <2>3 DEF TypeOK, StepInv, Steps, Begin
<1>23. CASE Edit
  BY <1>23 DEF StepInv, Edit
<1>24. CASE Stop
  BY <1>24 DEF StepInv, Stop
<1>25. CASE IoError
  BY <1>25, NoWriteType DEF TypeOK, StepInv, Request, IoError, Over
<1>26. CASE Crash
  BY <1>26, NoWriteType DEF StepInv, Crash
<1>27. CASE PowerLoss
  BY <1>27, NoWriteType DEF StepInv, PowerLoss
<1>28. CASE UNCHANGED vars
  BY <1>28 DEF TypeOK, StepInv, Request, Marker, FileState, Bytes, Steps, vars
<1> QED
  BY <1>1, <1>2, <1>3, <1>4, <1>5, <1>6, <1>7, <1>8, <1>9, <1>10, <1>11, <1>12, <1>13,
     <1>14, <1>15, <1>16, <1>17, <1>18, <1>19, <1>20, <1>21, <1>22, <1>23, <1>24,
     <1>25, <1>26, <1>27, <1>28
  DEF Next, Protocol

(* Every step keeps a torn target under a complete marker.                  *)
LEMMA CoverStep ==
  ASSUME FaultsAssumption, TypeOK, StepInv, CoverInv, DiskInv, [Next]_vars
  PROVE  CoverInv'
<1> USE SentinelsAssumption, MarkerAssumption, NoWriteType DEF FaultsAssumption
<1>1. CASE Read
  <2>1. \/ pc' = "idle" /\ w' = NoWrite
        \/ /\ pc' = "backup" /\ w'.found = target
           /\ w'.mode = w.mode /\ w'.recovering = w.recovering
    BY <1>1 DEF TypeOK, Request, Read, Over
  <2> QED
    BY <1>1, <2>1 DEF StepInv, CoverInv, Steps, BeforeMark, Removing, Read, Over
<1>2. CASE BackupCreate
  <2>1. w'.found = w.found /\ w'.mode = w.mode /\ w'.recovering = w.recovering
    BY <1>2 DEF TypeOK, Request, BackupCreate
  <2> QED
    BY <1>2, <2>1 DEF StepInv, CoverInv, Steps, BeforeMark, Removing, BackupCreate
<1>3. CASE BackupWrite
  BY <1>3 DEF CoverInv, Steps, BeforeMark, Removing, BackupWrite
<1>4. CASE Rotate
  BY <1>4 DEF CoverInv, Steps, BeforeMark, Removing, Rotate
<1>5. CASE TempCreate
  BY <1>5 DEF StepInv, CoverInv, Steps, BeforeMark, Removing, TempCreate, Over
<1>6. CASE Fill
  BY <1>6 DEF CoverInv, Steps, BeforeMark, Removing, Fill
<1>7. CASE TempSync
  BY <1>7 DEF CoverInv, Steps, BeforeMark, Removing, TempSync
<1>8. CASE Rename
  <2>1. w.new # Torn
    BY DEF TypeOK, Request, Bytes
  <2> QED
    BY <1>8, <2>1 DEF StepInv, CoverInv, Steps, BeforeMark, Removing, Rename
<1>9. CASE DirSync
  BY <1>9 DEF CoverInv, Steps, BeforeMark, Removing, DirSync, AfterReplace, Over
<1>10. CASE MarkCreate
  BY <1>10 DEF CoverInv, Steps, BeforeMark, Removing, MarkCreate, Over
<1>11. CASE MarkWrite
  <2>1. mark' \in Marker /\ mark'.prev = w.found
    BY <1>11 DEF TypeOK, StepInv, Request, Marker, FileState, MarkWrite
  <2> QED
    BY <1>11, <2>1 DEF StepInv, CoverInv, Steps, BeforeMark, Removing, MarkWrite
<1>12. CASE MarkSync
  BY <1>12 DEF CoverInv, MarkSync
<1>13. CASE Open
  BY <1>13 DEF CoverInv, Removing, Open
<1>14. CASE Check
  BY <1>14 DEF CoverInv, Removing, Check, Over
<1>15. CASE InWrite
  <2>1. w.new # Torn
    BY DEF TypeOK, Request, Bytes
  <2> QED
    BY <1>15, <2>1 DEF StepInv, CoverInv, Steps, BeforeMark, Removing, InWrite
<1>16. CASE InSync
  BY <1>16 DEF CoverInv, Removing, InSync
<1>17. CASE Unmark
  BY <1>17 DEF CoverInv, BeforeMark, Removing, Unmark
<1>18. CASE UnmarkSync
  BY <1>18 DEF CoverInv, BeforeMark, Removing, UnmarkSync, Over
<1>19. CASE Start
  BY <1>19 DEF CoverInv, Steps, BeforeMark, Removing, Start
<1>20. CASE Recover
  <2>1. mark \in Marker => mark.prev # Torn /\ mark.new # Torn
    BY DEF CoverInv, Marker, Bytes
  <2>2. pc' \in {"idle", "down", "unmark", "read"}
    BY <1>20 DEF Recover, Over
  <2>3. pc' \in {"unmark", "read"} => mark \in Marker
    BY <1>20 DEF Recover, Over, Whole
  <2>4. pc' = "unmark" => target # Torn
    BY <1>20, <2>1 DEF Recover, Over, Whole
  <2> QED
    BY <1>20, <2>2, <2>3, <2>4 DEF StepInv, CoverInv, Steps, BeforeMark, Removing, Recover
<1>21. CASE Write
  <2>1. ~w'.recovering
    BY <1>21 DEF Write, Begin, NewWrite
  <2> QED
    BY <1>21, <2>1 DEF StepInv, CoverInv, Steps, BeforeMark, Removing, Write, Begin
<1>22. CASE Restore
  <2>1. ~w'.recovering
    BY <1>22 DEF Restore, Begin, NewWrite
  <2> QED
    BY <1>22, <2>1 DEF StepInv, CoverInv, Steps, BeforeMark, Removing, Restore, Begin
<1>23. CASE Edit
  BY <1>23 DEF CoverInv, Edit
<1>24. CASE Stop
  BY <1>24 DEF CoverInv, Steps, BeforeMark, Removing, Stop
<1>25. CASE IoError
  BY <1>25 DEF CoverInv, BeforeMark, Removing, IoError, Over
<1>26. CASE Crash
  BY <1>26 DEF CoverInv, BeforeMark, Removing, Crash
<1>27. CASE PowerLoss
  BY <1>27 DEF CoverInv, DiskInv, BeforeMark, Removing, PowerLoss
<1>28. CASE UNCHANGED vars
  BY <1>28 DEF CoverInv, vars
<1> QED
  BY <1>1, <1>2, <1>3, <1>4, <1>5, <1>6, <1>7, <1>8, <1>9, <1>10, <1>11, <1>12, <1>13,
     <1>14, <1>15, <1>16, <1>17, <1>18, <1>19, <1>20, <1>21, <1>22, <1>23, <1>24,
     <1>25, <1>26, <1>27, <1>28
  DEF Next, Protocol

(* ... and what the disk may hold of both.                                  *)
LEMMA DiskStep ==
  ASSUME FaultsAssumption, TypeOK, StepInv, CoverInv, DiskInv, [Next]_vars
  PROVE  DiskInv'
<1> USE SentinelsAssumption, MarkerAssumption, NoWriteType DEF FaultsAssumption
<1>1. CASE Read
  BY <1>1 DEF DiskInv, Read
<1>2. CASE BackupCreate
  BY <1>2 DEF DiskInv, BackupCreate
<1>3. CASE BackupWrite
  BY <1>3 DEF DiskInv, BackupWrite
<1>4. CASE Rotate
  BY <1>4 DEF DiskInv, Rotate
<1>5. CASE TempCreate
  BY <1>5 DEF DiskInv, TempCreate
<1>6. CASE Fill
  BY <1>6 DEF DiskInv, Fill
<1>7. CASE TempSync
  BY <1>7 DEF DiskInv, TempSync
<1>8. CASE Rename
  <2>1. temp # Torn /\ tempDisk = {temp}
    BY <1>8 DEF Rename, StepInv, TypeOK, Request, Bytes
  <2> QED
    BY <1>8, <2>1 DEF StepInv, CoverInv, DiskInv, Rename
<1>9. CASE DirSync
  BY <1>9 DEF CoverInv, DiskInv, DirSync
<1>10. CASE MarkCreate
  BY <1>10 DEF DiskInv, MarkCreate
<1>11. CASE MarkWrite
  BY <1>11 DEF CoverInv, DiskInv, MarkWrite
<1>12. CASE MarkSync
  BY <1>12 DEF CoverInv, DiskInv, MarkSync
<1>13. CASE Open
  BY <1>13 DEF CoverInv, DiskInv, Open
<1>14. CASE Check
  BY <1>14 DEF DiskInv, Check
<1>15. CASE InWrite
  BY <1>15 DEF CoverInv, DiskInv, InWrite
<1>16. CASE InSync
  BY <1>16 DEF CoverInv, DiskInv, InSync
<1>17. CASE Unmark
  BY <1>17 DEF CoverInv, DiskInv, Removing, Unmark
<1>18. CASE UnmarkSync
  BY <1>18 DEF CoverInv, DiskInv, UnmarkSync
<1>19. CASE Start
  BY <1>19 DEF DiskInv, Start
<1>20. CASE Recover
  BY <1>20 DEF DiskInv, Recover
<1>21. CASE Write
  BY <1>21 DEF DiskInv, Write, Begin
<1>22. CASE Restore
  BY <1>22 DEF DiskInv, Restore, Begin
<1>23. CASE Edit
  BY <1>23 DEF DiskInv, Edit
<1>24. CASE Stop
  BY <1>24 DEF DiskInv, Stop
<1>25. CASE IoError
  BY <1>25 DEF DiskInv, IoError
<1>26. CASE Crash
  BY <1>26 DEF DiskInv, Crash
<1>27. CASE PowerLoss
  BY <1>27 DEF DiskInv, PowerLoss
<1>28. CASE UNCHANGED vars
  BY <1>28 DEF DiskInv, vars
<1> QED
  BY <1>1, <1>2, <1>3, <1>4, <1>5, <1>6, <1>7, <1>8, <1>9, <1>10, <1>11, <1>12, <1>13,
     <1>14, <1>15, <1>16, <1>17, <1>18, <1>19, <1>20, <1>21, <1>22, <1>23, <1>24,
     <1>25, <1>26, <1>27, <1>28
  DEF Next, Protocol

(* The first start finds a whole target and no marker.                      *)
LEMMA Initially == Init => IInv
<1> SUFFICES ASSUME Init PROVE IInv
  OBVIOUS
<1>1. target # Torn /\ target \in FileState
  BY SentinelsAssumption DEF Init, FileState, Bytes
<1>2. TypeOK
  <2>1. faults \in 0 .. MaxFaults /\ edits \in 0 .. MaxEdits
    BY ConstantsAssumption DEF Init
  <2>2. backups \in [Stamp -> Bytes \cup {None}]
    BY DEF Init
  <2>3. targetDisk \subseteq FileState /\ tempDisk \subseteq Bytes \cup {Torn, None}
    BY <1>1 DEF Init
  <2>4. pc = "down" /\ w \in Request /\ roDir \in BOOLEAN
    BY NoWriteType DEF Init
  <2>5. mark = None /\ markDisk = {None} /\ temp = None
    BY DEF Init
  <2> QED
    BY <1>1, <2>1, <2>2, <2>3, <2>4, <2>5 DEF TypeOK
<1>3. StepInv
  BY NoWriteType DEF Init, StepInv
<1>4. CoverInv
  BY <1>1, MarkerAssumption DEF Init, CoverInv, BeforeMark, Removing, Steps
<1>5. DiskInv
  BY <1>1, MarkerAssumption DEF Init, DiskInv
<1> QED
  BY <1>2, <1>3, <1>4, <1>5 DEF IInv

(* Type correctness of the write protocol, whatever faults and edits come   *)
(* (every variable of write_atomic and recover_in_place keeps its kind).    *)
THEOREM TypeCorrect == Spec => []TypeOK
<1>1. Init => TypeOK /\ StepInv
  BY Initially DEF IInv
<1>2. TypeOK /\ StepInv /\ [Next]_vars => (TypeOK /\ StepInv)'
  BY TypeStep, StepStep
<1> QED
  BY <1>1, <1>2, PTL DEF Spec

(* A torn target always stands under a complete in-place marker             *)
(* (write_atomic, recover_in_place), for every value of the constants under *)
(* which the marker can be enough.                                          *)
THEOREM MarkerCovers == ASSUME FaultsAssumption PROVE Spec => []TornCovered
<1>1. Init => IInv
  BY Initially
<1>2. IInv /\ [Next]_vars => IInv'
  BY TypeStep, StepStep, CoverStep, DiskStep DEF IInv
<1>3. IInv => TornCovered
  BY DEF IInv, CoverInv, TornCovered
<1> QED
  BY <1>1, <1>2, <1>3, PTL DEF Spec

----------------------------------------------------------------------------
(***************************************************************************)
(* What a write leaves when it is done, and what it has saved before.      *)
(***************************************************************************)

(* The new contents are in place from the rename, or the write in place, to *)
(* the answer, and on the disk once they were synced.                       *)
DoneInv ==
  /\ pc \in {"dirSync", "inSync"} => target = w.new
  /\ pc \in {"unmark", "unmarkSync"} /\ w.ok /\ ~w.recovering =>
       target = w.new /\ targetDisk = {w.new}

LEMMA DoneStep ==
  ASSUME TypeOK, StepInv, DoneInv, ~EditsMidWrite, [Next]_vars
  PROVE  DoneInv'
<1>1. CASE Read \/ BackupCreate \/ BackupWrite \/ Rotate \/ Fill \/ TempSync
           \/ MarkWrite \/ MarkSync \/ Open \/ Start
  BY <1>1 DEF DoneInv, Read, BackupCreate, BackupWrite, Rotate, Fill, TempSync,
              MarkWrite, MarkSync, Open, Start, Over
<1>2. CASE TempCreate \/ MarkCreate \/ Check \/ Stop \/ UnmarkSync
  BY <1>2 DEF DoneInv, TempCreate, MarkCreate, Check, Stop, UnmarkSync, Over
<1>3. CASE Rename
  BY <1>3 DEF DoneInv, StepInv, Rename
<1>4. CASE DirSync
  BY <1>4 DEF DoneInv, DirSync, AfterReplace, Over
<1>5. CASE InWrite \/ InSync \/ Unmark
  BY <1>5 DEF DoneInv, InWrite, InSync, Unmark
<1>6. CASE Recover
  <2>1. pc' \in {"unmark", "unmarkSync"} => w'.recovering
    BY <1>6 DEF Recover, Over, NewWrite
  <2> QED
    BY <1>6, <2>1 DEF DoneInv, Recover, Over
<1>7. CASE Write \/ Restore
  BY <1>7 DEF DoneInv, Write, Restore, Begin
<1>8. CASE Edit
  BY <1>8 DEF DoneInv, Edit, Steps
<1>9. CASE IoError
  <2>1. pc' \in {"unmark", "unmarkSync"} => ~w'.ok
    BY <1>9 DEF IoError, Over, TypeOK, Request
  <2> QED
    BY <1>9, <2>1 DEF DoneInv, IoError, Over
<1>10. CASE Crash \/ PowerLoss
  BY <1>10 DEF DoneInv, Crash, PowerLoss
<1>11. CASE UNCHANGED vars
  BY <1>11 DEF DoneInv, vars
<1> QED
  BY <1>1, <1>2, <1>3, <1>4, <1>5, <1>6, <1>7, <1>8, <1>9, <1>10, <1>11 DEF Next, Protocol

(* A write that is answered with success is on the disk, whatever kills,    *)
(* failing calls and power losses came before, as long as nobody else       *)
(* writes the file between two steps of the write (replace_contents,        *)
(* write_in_place).                                                         *)
THEOREM AcknowledgedIsDurable ==
  ASSUME ~EditsMidWrite PROVE Spec => AckIsDurable
<1> DEFINE Inv == TypeOK /\ StepInv /\ DoneInv
<1>1. Init => Inv
  BY Initially DEF IInv, Init, DoneInv
<1>2. Inv /\ [Next]_vars => Inv'
  BY TypeStep, StepStep, DoneStep
<1>3. Inv /\ [Next]_vars => [Answered => target' = w.new /\ targetDisk' = {w.new}]_vars
  BY DEF DoneInv, Answered, DirSync, UnmarkSync
<1> QED
  BY <1>1, <1>2, <1>3, PTL DEF Spec, AckIsDurable

(* The backup is whole from its write to the moment the target is replaced. *)
Saved == {"rotate", "temp", "fill", "tempSync", "rename", "markCreate", "markWrite",
          "markSync", "open"}

BackupInv ==
  /\ pc = "bkWrite" => w.backup \in Stamp
  /\ pc \in Saved /\ w.found # Absent /\ w.keep > 0 =>
       w.backup \in Stamp /\ backups[w.backup] = BackupOf(w.found)

LEMMA BackupStep ==
  ASSUME TypeOK, StepInv, BackupInv, [Next]_vars
  PROVE  BackupInv'
<1> USE ConstantsAssumption, SentinelsAssumption
<1>1. CASE Read \/ Start \/ Stop \/ DirSync \/ Check \/ InWrite \/ InSync \/ Unmark \/ UnmarkSync
  BY <1>1 DEF BackupInv, Saved, Read, Start, Stop, DirSync, AfterReplace, Check, InWrite,
              InSync, Unmark, UnmarkSync, Over
<1>2. CASE BackupCreate
  BY <1>2 DEF BackupInv, Saved, BackupCreate, TypeOK, Request
<1>3. CASE BackupWrite
  BY <1>3 DEF BackupInv, Saved, BackupWrite, TypeOK
<1>4. CASE Rotate
  <2>1. Kept(w.backup)
    BY DEF Kept
  <2> QED
    BY <1>4, <2>1 DEF BackupInv, Saved, Rotate
<1>5. CASE TempCreate \/ Fill \/ TempSync \/ MarkCreate \/ MarkWrite \/ MarkSync
  BY <1>5 DEF BackupInv, Saved, TempCreate, Fill, TempSync, MarkCreate, MarkWrite, MarkSync, Over
<1>6. CASE Rename \/ Open
  BY <1>6 DEF BackupInv, Saved, Rename, Open
<1>7. CASE Recover
  BY <1>7 DEF BackupInv, Saved, Recover, Over
<1>8. CASE Write \/ Restore
  BY <1>8 DEF BackupInv, Saved, Write, Restore, Begin
<1>9. CASE Edit
  BY <1>9 DEF BackupInv, Edit, TypeOK, Request
<1>10. CASE IoError
  BY <1>10 DEF BackupInv, Saved, IoError, Over
<1>11. CASE Crash \/ PowerLoss
  BY <1>11 DEF BackupInv, Saved, Crash, PowerLoss
<1>12. CASE UNCHANGED vars
  BY <1>12 DEF BackupInv, vars
<1> QED
  BY <1>1, <1>2, <1>3, <1>4, <1>5, <1>6, <1>7, <1>8, <1>9, <1>10, <1>11, <1>12
  DEF Next, Protocol

(* No write destroys contents without a copy, for every clock, also one     *)
(* that steps back, and every set of faults and edits (write_backup,        *)
(* rotate_backups).                                                         *)
THEOREM NothingIsDestroyed == Spec => BackedUp
<1> DEFINE Inv == TypeOK /\ StepInv /\ BackupInv
<1>1. Init => Inv
  BY Initially DEF IInv, Init, BackupInv, Saved
<1>2. Inv /\ [Next]_vars => Inv'
  BY TypeStep, StepStep, BackupStep
<1>3. Inv /\ [Next]_vars =>
        [(Rename \/ Open) /\ w.keep > 0 /\ target \in Content /\ target = w.found
           => \E s \in Stamp : backups[s] = target]_vars
  BY SentinelsAssumption DEF BackupInv, Saved, BackupOf, Rename, Open
<1> QED
  BY <1>1, <1>2, <1>3, PTL DEF Spec, BackedUp

----------------------------------------------------------------------------
(***************************************************************************)
(* The backup behind the marker, over power losses.                        *)
(***************************************************************************)

(* Power losses alone, fewer of them than a restore keeps backups: each may *)
(* interrupt a recovery that has taken one more.  A failing call or a kill  *)
(* leaves the marker to a caller that may write, and rotate, again.         *)
PowerAssumption ==
  /\ Faults = {"power"} /\ MaxFaults < DefaultKeep
  /\ ~ClockStepsBack /\ ~EditsMidWrite /\ ~ListChanges

Standing == (markDisk \cup {mark}) \cap Marker

Newer(s) == {u \in Stamp : backups[u] # None /\ u > s}

(* Between two starts no marker stands but the one of the write in progress *)
(* or the one that a start restores from.                                   *)
Unmarked == mark = None /\ markDisk = {None}

WriterInv ==
  /\ w.same
  /\ pc \in {"read", "backup"} => w.backup = None
  /\ w.backup # None => w.keep > 0
  /\ w.recovering => \/ pc \in {"unmark", "unmarkSync"}
                     \/ w.mode = "Guarded" /\ w.keep = DefaultKeep /\ w.expected = None
  /\ pc = "idle" => Unmarked
  /\ pc \in BeforeMark \cup {"read"} /\ ~w.recovering => Unmarked
  /\ pc = "markWrite" => Standing = {}
  /\ pc = "unmarkSync" => mark = None
  /\ pc \in {"markWrite", "markSync", "open", "check", "inWrite", "inSync"} /\ ~w.recovering =>
       \A m \in Standing : m.backup = w.backup
  /\ pc \in {"bkWrite"} \cup Saved /\ w.backup # None =>
       \A u \in Stamp : backups[u] # None => u <= w.backup
  /\ pc = "bkWrite" => backups[w.backup] = Scrap

TargetInv ==
  /\ pc \notin {"dirSync", "check", "inWrite", "inSync"} => targetDisk = {target}
  /\ pc \in {"backup", "bkWrite"} \cup Saved => w.found = target
  /\ Standing # {} => Absent \notin targetDisk \cup {target}

(* The backup of a marker is there, and each one taken since is of another  *)
(* power loss.                                                              *)
StandingInv ==
  \A m \in Standing :
    /\ backups[m.backup] = BackupOf(m.prev)
    /\ pc \in {"bkWrite", "rotate"} => m.backup # w.backup
    /\ Cardinality(Newer(m.backup)) <= faults
    /\ pc \in {"down", "recover", "read", "backup"} => Cardinality(Newer(m.backup)) < faults

PowerInv == WriterInv /\ TargetInv /\ StandingInv

LEMMA StandingFacts ==
  ASSUME TypeOK, NEW m \in Standing
  PROVE  m \in Marker /\ m.backup \in Stamp /\ BackupOf(m.prev) # None
  BY SentinelsAssumption DEF TypeOK, Standing, Marker, BackupOf, Bytes

(* Only the write of a marker brings one that was not there.                *)
LEMMA StandingShrinks ==
  ASSUME [Next]_vars, ~MarkWrite
  PROVE  Standing' \subseteq Standing
<1>1. CASE Read \/ BackupCreate \/ BackupWrite \/ Rotate \/ TempCreate \/ Fill \/ TempSync
           \/ Rename \/ DirSync
  BY <1>1 DEF Standing, Marker, Read, BackupCreate, BackupWrite, Rotate, TempCreate, Fill,
              TempSync, Rename, DirSync
<1>2. CASE MarkCreate \/ MarkSync \/ Unmark \/ UnmarkSync
  BY <1>2, MarkerAssumption DEF Standing, Marker, MarkCreate, MarkSync, Unmark, UnmarkSync
<1>3. CASE Open \/ Check \/ InWrite \/ InSync \/ Start \/ Stop \/ Recover \/ Edit
  BY <1>3 DEF Standing, Marker, Open, Check, InWrite, InSync, Start, Stop, Recover, Edit
<1>4. CASE Write \/ Restore
  BY <1>4 DEF Standing, Marker, Write, Restore, Begin
<1>5. CASE IoError \/ Crash \/ PowerLoss
  BY <1>5 DEF Standing, Marker, IoError, Crash, PowerLoss
<1>6. CASE UNCHANGED vars
  BY <1>6 DEF Standing, Marker, vars
<1> QED
  BY <1>1, <1>2, <1>3, <1>4, <1>5, <1>6 DEF Next, Protocol

LEMMA WriterStep ==
  ASSUME PowerAssumption, IInv, BackupInv, WriterInv, TargetInv, StandingInv, [Next]_vars
  PROVE  WriterInv'
<1> USE ConstantsAssumption, SentinelsAssumption, MarkerAssumption
<1>0. NoWrite.same /\ ~NoWrite.recovering /\ NoWrite.backup = None
  BY DEF NoWrite, NewWrite
<1>1. CASE Read
  BY <1>0, <1>1 DEF WriterInv, Saved, BeforeMark, Unmarked, Read, Over, IInv, TypeOK, Request, Standing
<1>2. CASE BackupCreate
  <2>1. UNCHANGED <<mark, markDisk>> /\ Standing' = Standing
    BY <1>2 DEF BackupCreate, Standing, Marker
  <2>2. CASE pc' = "temp" /\ UNCHANGED <<backups, w>>
    <3>1. w.backup = None
      BY <1>2 DEF WriterInv, BackupCreate
    <3> QED
      BY <1>2, <2>1, <2>2, <3>1 DEF WriterInv, Saved, BeforeMark, Unmarked, BackupCreate
  <2>3. ASSUME NEW s \in Stamp, FreshStamp(s), backups' = [backups EXCEPT ![s] = Scrap],
               pc' = "bkWrite", w' = [w EXCEPT !.backup = s]
        PROVE  WriterInv'
    <3>1. /\ w'.backup = s /\ w'.same = w.same /\ w'.recovering = w.recovering
          /\ w'.mode = w.mode /\ w'.keep = w.keep /\ w'.expected = w.expected
      BY <2>3 DEF IInv, TypeOK, Request
    <3>2. backups'[s] = Scrap /\ \A u \in Stamp : backups'[u] # None => u <= s
      BY <2>3 DEF FreshStamp, Unused, PowerAssumption, IInv, TypeOK
    <3> QED
      BY <1>2, <2>1, <2>3, <3>1, <3>2 DEF WriterInv, Saved, BeforeMark, Unmarked, BackupCreate
  <2> QED
    BY <1>2, <2>2, <2>3 DEF BackupCreate
<1>3. CASE BackupWrite
  BY <1>3 DEF WriterInv, Saved, BeforeMark, Unmarked, BackupWrite, IInv, TypeOK, Standing
<1>4. CASE Rotate
  BY <1>4 DEF WriterInv, Saved, BeforeMark, Unmarked, Rotate, IInv, TypeOK, Standing
<1>5. CASE TempCreate
  <2>1. w.recovering => w.found # Absent
    BY <1>5 DEF TargetInv, Saved, IInv, CoverInv, Standing, Steps, TempCreate
  <2> QED
    BY <1>0, <1>5, <2>1 DEF WriterInv, Saved, BeforeMark, Unmarked, TempCreate, Over, IInv, TypeOK, Request, Standing
<1>6. CASE Fill \/ TempSync \/ Rename \/ DirSync
  BY <1>0, <1>6 DEF WriterInv, Saved, BeforeMark, Unmarked, Fill, TempSync, Rename, DirSync,
                    AfterReplace, Over, Standing
<1>7. CASE MarkCreate
  BY <1>0, <1>7 DEF WriterInv, Saved, BeforeMark, Unmarked, MarkCreate, Over, IInv, StepInv, Standing
<1>8. CASE MarkWrite
  BY <1>8 DEF WriterInv, Saved, BeforeMark, Unmarked, MarkWrite, Standing
<1>9. CASE MarkSync
  BY <1>9 DEF WriterInv, Saved, BeforeMark, Unmarked, MarkSync, Standing
<1>10. CASE Open \/ Check \/ InWrite \/ InSync
  BY <1>0, <1>10 DEF WriterInv, Saved, BeforeMark, Unmarked, Open, Check, InWrite, InSync, Over, Standing
<1>11. CASE Unmark \/ UnmarkSync
  BY <1>0, <1>11 DEF WriterInv, Saved, BeforeMark, Unmarked, Unmark, UnmarkSync, Over, Standing
<1>12. CASE Start \/ Stop
  BY <1>12 DEF WriterInv, Saved, BeforeMark, Unmarked, Start, Stop, Standing
<1>13. CASE Recover
  <2>1. mark = None => Unmarked
    BY <1>13 DEF IInv, DiskInv, PowerAssumption, Recover, Unmarked
  <2>2. mark \in Marker => backups[mark.backup] # None
    BY StandingFacts DEF StandingInv, Standing, IInv
  <2>3. \/ pc' = "idle" /\ w' = w /\ mark = None
        \/ pc' = "down" /\ w' = w
        \/ pc' = "unmark" /\ w'.recovering /\ w'.same /\ w'.backup = None
        \/ pc' = "read" /\ w'.recovering /\ w'.same /\ w'.backup = None /\ w'.mode = "Guarded"
           /\ w'.keep = DefaultKeep /\ w'.expected = None
    <3>1. CASE mark = None /\ pc' = "idle" /\ UNCHANGED w
      BY <3>1
    <3>2. CASE mark = Partial /\ pc' = "down" /\ UNCHANGED w
      BY <3>2
    <3>3. CASE pc' = "unmark" /\ w' = NewWrite(Scrap, None, "Never", 0, TRUE)
      BY <3>3 DEF NewWrite
    <3>4. CASE pc' = "read" /\ w' = NewWrite(backups[mark.backup], None, "Guarded", DefaultKeep, TRUE)
      BY <3>4 DEF NewWrite
    <3> QED
      BY <1>13, <2>2, <3>1, <3>2, <3>3, <3>4 DEF Recover
  <2>4. w.recovering => w.mode = "Guarded" /\ w.keep = DefaultKeep /\ w.expected = None
    BY <1>13 DEF WriterInv, Recover
  <2>5. UNCHANGED <<mark, markDisk>> /\ w.same
    BY <1>13 DEF WriterInv, Recover
  <2> QED
    BY <2>1, <2>3, <2>4, <2>5 DEF WriterInv, Saved, BeforeMark, Unmarked
<1>14. CASE Write \/ Restore
  <2>1. w'.same /\ ~w'.recovering /\ w'.backup = None /\ pc' = "read" /\ pc = "idle" /\ UNCHANGED <<mark, markDisk>>
    BY <1>14 DEF Write, Restore, Begin, NewWrite
  <2> QED
    BY <2>1 DEF WriterInv, Saved, BeforeMark, Unmarked
<1>15. CASE Edit
  <2>1. UNCHANGED <<w, pc, mark, markDisk, backups>>
    BY <1>15 DEF Edit, PowerAssumption, Steps
  <2> QED
    BY <2>1 DEF WriterInv, Unmarked, Standing, Marker
<1>16. CASE IoError \/ Crash
  BY <1>16 DEF IoError, Crash, PowerAssumption
<1>17. CASE PowerLoss
  BY <1>0, <1>17 DEF WriterInv, Saved, BeforeMark, PowerLoss
<1>18. CASE UNCHANGED vars
  BY <1>18 DEF WriterInv, Unmarked, Standing, Marker, vars
<1> QED
  BY <1>1, <1>2, <1>3, <1>4, <1>5, <1>6, <1>7, <1>8, <1>9, <1>10, <1>11, <1>12, <1>13, <1>14,
     <1>15, <1>16, <1>17, <1>18 DEF Next, Protocol

LEMMA TargetStep ==
  ASSUME PowerAssumption, IInv, WriterInv, TargetInv, [Next]_vars
  PROVE  TargetInv'
<1> USE ConstantsAssumption, SentinelsAssumption, MarkerAssumption
<1>1. CASE MarkWrite
  <2>1. Absent \notin targetDisk \cup {target} /\ targetDisk = {target} /\ w.found = target
    BY <1>1 DEF MarkWrite, IInv, StepInv, TargetInv, Saved
  <2> QED
    BY <1>1, <2>1 DEF MarkWrite, TargetInv, Saved
<1>2. CASE ~MarkWrite
  <2>0. Standing' \subseteq Standing
    BY <1>2, StandingShrinks
  <2>1. CASE Read
    BY <2>0, <2>1 DEF Read, Over, TargetInv, Saved, IInv, TypeOK, Request
  <2>2. CASE BackupCreate
    BY <2>0, <2>2 DEF BackupCreate, TargetInv, Saved, IInv, TypeOK, Request
  <2>3. CASE BackupWrite \/ Rotate \/ Fill \/ TempSync \/ MarkSync \/ Unmark
    BY <2>0, <2>3 DEF BackupWrite, Rotate, Fill, TempSync, MarkSync, Unmark, TargetInv, Saved
  <2>4. CASE TempCreate \/ MarkCreate
    BY <2>0, <2>4 DEF TempCreate, MarkCreate, TargetInv, Saved, Over
  <2>5. CASE Rename
    <3>1. temp # Absent /\ tempDisk = {temp}
      BY <2>5 DEF Rename, IInv, StepInv, TypeOK, Request, Bytes
    <3> QED
      BY <2>0, <2>5, <3>1 DEF Rename, TargetInv, Saved
  <2>6. CASE DirSync
    BY <2>0, <2>6 DEF DirSync, AfterReplace, Over, TargetInv, Saved
  <2>7. CASE Open \/ Check \/ InSync
    BY <2>0, <2>7 DEF Open, Check, InSync, Over, TargetInv, Saved, WriterInv
  <2>8. CASE InWrite
    <3>1. w.new # Absent
      BY DEF IInv, TypeOK, Request, Bytes
    <3> QED
      BY <2>0, <2>8, <3>1 DEF InWrite, TargetInv, Saved
  <2>9. CASE UnmarkSync \/ Start \/ Stop
    BY <2>0, <2>9 DEF UnmarkSync, Start, Stop, Over, TargetInv, Saved
  <2>10. CASE Recover
    BY <2>0, <2>10 DEF Recover, Over, TargetInv, Saved
  <2>11. CASE Write \/ Restore
    BY <2>0, <2>11 DEF Write, Restore, Begin, TargetInv, Saved
  <2>12. CASE Edit
    BY <2>0, <2>12 DEF Edit, PowerAssumption, TargetInv, Saved, Steps
  <2>13. CASE IoError \/ Crash
    BY <2>13 DEF IoError, Crash, PowerAssumption
  <2>14. CASE PowerLoss
    <3>1. target' \in targetDisk /\ targetDisk' = {target'} /\ pc' = "down"
      BY <2>14 DEF PowerLoss
    <3> QED
      BY <2>0, <3>1 DEF TargetInv, Saved
  <2>15. CASE UNCHANGED vars
    BY <2>0, <2>15 DEF TargetInv, vars
  <2> QED
    BY <1>2, <2>1, <2>2, <2>3, <2>4, <2>5, <2>6, <2>7, <2>8, <2>9, <2>10, <2>11, <2>12, <2>13,
       <2>14, <2>15 DEF Next, Protocol
<1> QED
  BY <1>1, <1>2

LEMMA NewerFinite ==
  ASSUME NEW b \in Stamp, NEW S, S \subseteq Newer(b)
  PROVE  /\ IsFiniteSet(S) /\ IsFiniteSet(Newer(b))
         /\ Cardinality(S) \in Nat /\ Cardinality(Newer(b)) \in Nat
         /\ Cardinality(S) <= Cardinality(Newer(b))
<1>1. IsFiniteSet(Newer(b))
  BY ConstantsAssumption, FS_Subset DEF Newer
<1> QED
  BY <1>1, FS_Subset, FS_CardinalityType

LEMMA StandingStep ==
  ASSUME PowerAssumption, IInv, BackupInv, WriterInv, TargetInv, StandingInv, [Next]_vars
  PROVE  StandingInv'
<1> USE ConstantsAssumption, SentinelsAssumption, MarkerAssumption
<1> SUFFICES ASSUME NEW m \in Standing'
             PROVE  /\ backups'[m.backup] = BackupOf(m.prev)
                    /\ pc' \in {"bkWrite", "rotate"} => m.backup # w'.backup
                    /\ Cardinality(Newer(m.backup)') <= faults'
                    /\ pc' \in {"down", "recover", "read", "backup"} =>
                         Cardinality(Newer(m.backup)') < faults'
  BY DEF StandingInv, BackupOf
<1>t. TypeOK /\ faults \in Nat
  BY DEF IInv, TypeOK
<1>1. CASE MarkWrite
  <2>1. m = [backup |-> w.backup, prev |-> w.found, new |-> w.new]
    BY <1>1 DEF WriterInv, MarkWrite, Standing
  <2>2. w.backup \in Stamp /\ backups[w.backup] = BackupOf(w.found)
    BY <1>1, <1>t DEF WriterInv, BackupInv, Saved, IInv, StepInv, MarkWrite, TypeOK, Request
  <2>3. Newer(w.backup) = {}
    <3>1. \A u \in Stamp : backups[u] # None => u <= w.backup
      BY <1>1, <2>2 DEF WriterInv, Saved, MarkWrite
    <3>2. ASSUME NEW u \in Stamp, backups[u] # None PROVE ~(u > w.backup)
      <4>1. u \in Nat /\ w.backup \in Nat /\ u <= w.backup
        BY <2>2, <3>1, <3>2
      <4> QED
        BY <4>1
    <3> QED
      BY <3>2 DEF Newer
  <2>4. Newer(m.backup)' = {}
    BY <1>1, <2>1, <2>3 DEF MarkWrite, Newer
  <2> QED
    BY <1>1, <1>t, <2>1, <2>2, <2>4, FS_EmptySet DEF MarkWrite
<1>2. CASE ~MarkWrite
  <2>0. m \in Standing /\ m.backup \in Stamp /\ BackupOf(m.prev) # None
    BY <1>2, <1>t, StandingShrinks, StandingFacts
  <2>i. /\ backups[m.backup] = BackupOf(m.prev)
        /\ pc \in {"bkWrite", "rotate"} => m.backup # w.backup
        /\ Cardinality(Newer(m.backup)) <= faults
        /\ pc \in {"down", "recover", "read", "backup"} => Cardinality(Newer(m.backup)) < faults
    BY <2>0 DEF StandingInv
  <2>n. IsFiniteSet(Newer(m.backup)) /\ Cardinality(Newer(m.backup)) \in Nat
    BY <2>0, NewerFinite
  <2>s. Standing # {}
    BY <2>0
  <2>1. CASE /\ UNCHANGED <<backups, faults>>
             /\ \/ pc' \notin {"down", "recover", "read", "backup", "bkWrite", "rotate"}
                \/ pc \in {"down", "recover", "read"} /\ pc' \notin {"bkWrite", "rotate"}
    <3>1. Newer(m.backup)' = Newer(m.backup)
      BY <2>1 DEF Newer
    <3> QED
      BY <2>1, <2>i, <3>1
  <2>2. CASE BackupCreate
    <3>1. CASE pc' = "temp" /\ UNCHANGED <<backups, w>>
      BY <2>1, <2>2, <3>1 DEF BackupCreate
    <3>2. ASSUME NEW s \in Stamp, FreshStamp(s), backups' = [backups EXCEPT ![s] = Scrap],
                 pc' = "bkWrite", w' = [w EXCEPT !.backup = s]
          PROVE  /\ backups'[m.backup] = BackupOf(m.prev)
                 /\ m.backup # w'.backup
                 /\ Cardinality(Newer(m.backup)') <= faults'
      <4>1. s # m.backup /\ backups[s] = None /\ s > m.backup /\ s \notin Newer(m.backup)
        BY <2>0, <2>i, <3>2 DEF FreshStamp, Unused, PowerAssumption, Newer
      <4>2. Newer(m.backup)' = Newer(m.backup) \cup {s}
        BY <1>t, <2>0, <3>2, <4>1 DEF Newer, TypeOK
      <4>3. Cardinality(Newer(m.backup)') = Cardinality(Newer(m.backup)) + 1
        BY <2>n, <4>1, <4>2, FS_AddElement
      <4>4. w'.backup = s /\ backups'[m.backup] = backups[m.backup]
        BY <1>t, <2>0, <3>2, <4>1 DEF TypeOK, Request
      <4> QED
        BY <1>t, <2>2, <2>i, <2>n, <4>1, <4>3, <4>4 DEF BackupCreate
    <3> QED
      BY <2>2, <3>1, <3>2 DEF BackupCreate
  <2>3. CASE BackupWrite
    <3>1. w.backup # m.backup /\ w.backup \in Stamp /\ backups[w.backup] = Scrap
          /\ BackupOf(w.found) # None
      BY <2>3, <2>i, <1>t DEF BackupWrite, BackupInv, WriterInv, IInv, StepInv, BackupOf,
                              TypeOK, Request, FileState, Bytes
    <3>2. Newer(m.backup)' = Newer(m.backup) /\ backups'[m.backup] = backups[m.backup]
      BY <1>t, <2>0, <2>3, <3>1 DEF BackupWrite, Newer, TypeOK
    <3> QED
      BY <2>3, <2>i, <3>1, <3>2 DEF BackupWrite
  <2>4. CASE Rotate
    <3>1. w.recovering /\ w.keep = DefaultKeep
      BY <2>4, <2>s DEF Rotate, WriterInv, BeforeMark, Unmarked, Standing
    <3>2. w.backup \in Stamp /\ backups[w.backup] # None
      <4>1. w.found # Absent
        BY <2>4, <2>s DEF Rotate, TargetInv, Saved
      <4>2. BackupOf(w.found) # None
        BY <4>1, <1>t DEF BackupOf, TypeOK, Request, FileState, Bytes
      <4> QED
        BY <2>4, <3>1, <4>1, <4>2 DEF Rotate, BackupInv, Saved
    <3>3. w.backup \in Newer(m.backup)
      <4>1. \A u \in Stamp : backups[u] # None => u <= w.backup
        BY <2>4, <3>2 DEF WriterInv, Saved, Rotate
      <4>2. m.backup <= w.backup /\ m.backup # w.backup
        BY <2>0, <2>4, <2>i, <4>1 DEF Rotate
      <4>3. m.backup \in Nat /\ w.backup \in Nat
        BY <2>0, <3>2
      <4>4. w.backup > m.backup
        BY <4>2, <4>3
      <4> QED
        BY <3>2, <4>4 DEF Newer
    <3>4. Cardinality(Newer(m.backup) \ {w.backup}) = Cardinality(Newer(m.backup)) - 1
      BY <2>n, <3>3, FS_RemoveElement
    <3>5. {u \in {u \in Stamp : backups[u] # None} \ {w.backup} : u > m.backup}
            = Newer(m.backup) \ {w.backup}
      BY DEF Newer
    <3>6. Cardinality(Newer(m.backup) \ {w.backup}) < w.keep - 1
      BY <1>t, <2>i, <2>n, <3>1, <3>4 DEF TypeOK, PowerAssumption
    <3>7. Kept(m.backup)
      BY <3>5, <3>6 DEF Kept
    <3>8. Newer(m.backup)' \subseteq Newer(m.backup)
      BY <2>4 DEF Rotate, Newer
    <3>9. Cardinality(Newer(m.backup)') <= Cardinality(Newer(m.backup))
      BY <2>0, <3>8, NewerFinite
    <3>10. Cardinality(Newer(m.backup)') \in Nat
      BY <2>0, <3>8, NewerFinite
    <3> QED
      BY <1>t, <2>0, <2>4, <2>i, <2>n, <3>7, <3>9, <3>10 DEF Rotate
  <2>5. CASE PowerLoss
    <3>1. Newer(m.backup)' \subseteq Newer(m.backup) /\ backups'[m.backup] = backups[m.backup]
      <4>1. CASE pc = "bkWrite"
        <5>1. w.backup \in Stamp /\ backups[w.backup] # None /\ w.backup # m.backup
          BY <2>i, <4>1 DEF WriterInv, BackupInv
        <5> QED
          BY <1>t, <2>0, <2>5, <4>1, <5>1 DEF PowerLoss, Newer, TypeOK
      <4>2. CASE pc # "bkWrite"
        BY <2>5, <4>2 DEF PowerLoss, Newer
      <4> QED
        BY <4>1, <4>2
    <3>2. Cardinality(Newer(m.backup)') <= Cardinality(Newer(m.backup))
      BY <2>0, <3>1, NewerFinite
    <3>3. Cardinality(Newer(m.backup)') \in Nat
      BY <2>0, <3>1, NewerFinite
    <3>4. faults' = faults + 1 /\ pc' = "down"
      BY <2>5 DEF PowerLoss
    <3> QED
      BY <1>t, <2>i, <2>n, <3>1, <3>2, <3>3, <3>4
  <2>6. CASE Read \/ TempCreate \/ Fill \/ TempSync \/ Rename \/ DirSync \/ MarkCreate \/ MarkSync
    BY <2>1, <2>6 DEF Read, TempCreate, Fill, TempSync, Rename, DirSync, AfterReplace, MarkCreate,
                      MarkSync, Over
  <2>7. CASE Open \/ Check \/ InWrite \/ InSync \/ Unmark \/ UnmarkSync \/ Start
    BY <2>1, <2>7 DEF Open, Check, InWrite, InSync, Unmark, UnmarkSync, Start, Over
  <2>8. CASE Recover
    BY <2>1, <2>8 DEF Recover, Over
  <2>9. CASE Stop \/ Write \/ Restore
    BY <2>9, <2>s DEF Stop, Write, Restore, Begin, WriterInv, Unmarked, Standing
  <2>10. CASE Edit
    <3>1. UNCHANGED <<backups, faults, pc>> /\ pc \in {"down", "idle"}
      BY <2>10 DEF Edit, PowerAssumption
    <3> QED
      BY <2>1, <3>1
  <2>11. CASE IoError \/ Crash
    BY <2>11 DEF IoError, Crash, PowerAssumption
  <2>12. CASE UNCHANGED vars
    <3>1. Newer(m.backup)' = Newer(m.backup)
      BY <2>12 DEF Newer, vars
    <3> QED
      BY <2>12, <2>i, <3>1 DEF vars
  <2> QED
    BY <1>2, <2>2, <2>3, <2>4, <2>5, <2>6, <2>7, <2>8, <2>9, <2>10, <2>11, <2>12 DEF Next, Protocol
<1> QED
  BY <1>1, <1>2

(* A torn target can be put back, from the backup its marker names, as long *)
(* as fewer power losses come than a restore keeps backups                  *)
(* (DEFAULT_KEEP_BACKUPS): an interrupted recovery takes one more backup    *)
(* each time, and rotate_backups removes the oldest.                        *)
THEOREM TornIsRestorable == ASSUME PowerAssumption PROVE Spec => []TornRestorable
<1> DEFINE Inv == IInv /\ BackupInv /\ PowerInv
<1>0. FaultsAssumption
  BY DEF PowerAssumption, FaultsAssumption
<1>1. Init => Inv
  <2> SUFFICES ASSUME Init PROVE Inv
    OBVIOUS
  <2>1. NoWrite.same /\ ~NoWrite.recovering /\ NoWrite.backup = None
    BY DEF NoWrite, NewWrite
  <2>2. Standing = {}
    BY MarkerAssumption DEF Init, Standing
  <2> QED
    BY <2>1, <2>2, Initially DEF Init, BackupInv, PowerInv, WriterInv, TargetInv, StandingInv,
                                 Saved, BeforeMark
<1>2. Inv /\ [Next]_vars => Inv'
  <2> SUFFICES ASSUME Inv, [Next]_vars PROVE Inv'
    OBVIOUS
  <2>1. IInv'
    BY <1>0, TypeStep, StepStep, CoverStep, DiskStep DEF IInv
  <2> QED
    BY <2>1, BackupStep, WriterStep, TargetStep, StandingStep DEF PowerInv, IInv
<1>3. Inv => TornRestorable
  BY DEF IInv, CoverInv, PowerInv, StandingInv, Standing, TornRestorable
<1> QED
  BY <1>1, <1>2, <1>3, PTL DEF Spec
=============================================================================
