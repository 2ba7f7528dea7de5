SPECIFICATION Spec
CONSTANTS
  a = a
  c1 = c1
  c2 = c2
  Absent = Absent
  Torn = Torn
  None = None
  Corrupt = Corrupt
  Target <- OneTarget
  Content <- TwoContents
  Reloading <- NoTargets
  Mounting <- OneTarget
  Commit <- TwoCommits
  MaxStamp = 6
  MaxWrites = 1
  KeepBackups = 3
  DefaultKeep = 4
  MaxTimeout = 1
  Requested <- OneTick
  InPlace = TRUE
  Faults <- AllButPower
  MaxFaults = 2
  Edited <- NoContents
  MaxEdits = 0
INVARIANTS
  ArmedIsMarked
PROPERTIES
  ImplementsCommitConfirm
