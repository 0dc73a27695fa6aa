SPECIFICATION FairSpec
CONSTANTS
  Images = {a, b}
  NoImage = none
  ColorPanel = TRUE
  OceanPanel = TRUE
  HardLimit = 2
  Limits = {2}
  Kinds <- FourKinds
  Intervals = {1}
  GuardTimeout = 2
  CompletionTimeout = 2
  MarkerMax = 6
  FirstMarkers = {2, 4}
  Settings <- Both
  MaxChanges = 1
  MaxSubmissions = 3
  Fails <- AllFails
  Prompt = FALSE
INVARIANTS WhiteShownBeforeTarget NoLoneWhite HistoryIsLastTarget
PROPERTIES SubmitReturns
CHECK_DEADLOCK FALSE
