SPECIFICATION EngineSpec
CONSTANTS
  a = a
  c1 = c1
  c2 = c2
  c3 = c3
  Absent = Absent
  Torn = Torn
  None = None
  Corrupt = Corrupt
  Target <- OneTarget
  Content <- ThreeContents
  Reloading <- OneTarget
  Mounting <- NoTargets
  Commit <- OneCommit
  MaxStamp = 6
  MaxWrites = 2
  KeepBackups = 3
  DefaultKeep = 4
  MaxTimeout = 1
  Requested <- OneTick
  InPlace = FALSE
  Faults <- HookFaults
  MaxFaults = 1
  Edited <- OnlyThird
  MaxEdits = 1
  Kinds <- AllKinds
  Confirming <- NoTargets
INVARIANTS
  FailedApplyUndone
PROPERTIES
  NoLostUpdate
