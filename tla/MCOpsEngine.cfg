SPECIFICATION EngineSpec
CONSTANTS
  a = a
  c1 = c1
  c2 = c2
  c3 = c3
  Absent = Absent
  Torn = Torn
  None = None
  Corrupt = Corrupt
  Target <- OneTarget
  Content <- TwoContents
  Reloading <- OneTarget
  Mounting <- OneTarget
  Commit <- TwoCommits
  MaxStamp = 6
  MaxWrites = 3
  KeepBackups = 3
  DefaultKeep = 4
  MaxTimeout = 1
  Requested <- OneTick
  InPlace = FALSE
  Faults <- AllFaults
  MaxFaults = 1
  Edited <- NoContents
  MaxEdits = 0
  Kinds <- AllKinds
  Confirming <- NoTargets
INVARIANTS
  MutationIsLogged
  WindowCoversApply
PROPERTIES
  MountsGone
