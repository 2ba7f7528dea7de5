SPECIFICATION Spec
CONSTANTS
  a = a
  b = b
  LastStamp = 6
  Content <- MCContent
  Stamp <- MCStamp
  Absent = Absent
  Torn = Torn
  Scrap = Scrap
  None = None
  Partial = Partial
  KeepBackups = 2
  DefaultKeep = 3
  Faults = {"power"}
  MaxFaults = 2
  MaxEdits = 1
  ClockStepsBack = FALSE
  EditsMidWrite = FALSE
  ListChanges = FALSE
INVARIANTS
  TornRestorable
PROPERTIES
  AckIsDurable
