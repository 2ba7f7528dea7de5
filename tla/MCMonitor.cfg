SPECIFICATION Spec
CONSTANTS
  a = a
  c1 = c1
  c2 = c2
  Absent = Absent
  Torn = Torn
  None = None
  Corrupt = Corrupt
  Target <- OneTarget
  Content <- TwoContents
  Reloading <- OneTarget
  Mounting <- NoTargets
  Commit <- TwoCommits
  MaxStamp = 6
  MaxWrites = 2
  KeepBackups = 3
  DefaultKeep = 6
  MaxTimeout = 1
  Requested <- Timeouts
  InPlace = FALSE
  Faults <- CrashOrPower
  MaxFaults = 1
  Edited <- OnlySecond
  MaxEdits = 1
INVARIANTS
  TypeOK
  RollbackUndoes
  ServiceFollows
PROPERTIES
  KeepsEdits
