SPECIFICATION Spec
CONSTANTS
  Partial = Partial
  u1 = u1
  u2 = u2
  Updaters <- TwoUpdaters
  Releases <- FourReleases
  Sick <- OneSick
  Refused <- OneRefused
  MaxRuns = 2
  MaxFaults = 1
INVARIANTS TargetSound OfferIsNews
PROPERTIES FailedUpdateRestores ServiceRestored
CHECK_DEADLOCK FALSE
