SPECIFICATION FairSpec
CONSTANTS
  Capacity = 2
  Dark <- MCDark
  Intervals <- MCIntervals
  LateWindow = 1
  Budget = 2
  Modes <- MCModes
  Upsets <- MCUpsets
  MaxCompositions = 2
  MaxEpoch = 2
  MaxIncidents = 1
INVARIANTS CatalogsAgree
PROPERTIES EngineKeepsPace NewestReachesPanel
CHECK_DEADLOCK FALSE
