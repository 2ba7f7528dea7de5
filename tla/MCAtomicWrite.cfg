SPECIFICATION Spec
CONSTANTS
  a = a
  b = b
  LastStamp = 4
  Content <- MCContent
  Stamp <- MCStamp
  Absent = Absent
  Torn = Torn
  Scrap = Scrap
  None = None
  Partial = Partial
  KeepBackups = 1
  DefaultKeep = 3
  Faults = {"crash", "io"}
  MaxFaults = 1
  MaxEdits = 0
  ClockStepsBack = TRUE
  EditsMidWrite = FALSE
  ListChanges = FALSE
INVARIANTS
  TypeOK
  TornCovered
PROPERTIES
  BackedUp
  TornIsRepaired
