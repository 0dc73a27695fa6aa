SPECIFICATION FairSpec
CONSTANTS
  Images = {a}
  NoImage = none
  ColorPanel = TRUE
  OceanPanel = FALSE
  HardLimit = 4
  Limits = {4}
  Kinds <- FourKinds
  Intervals = {3}
  GuardTimeout = 3
  CompletionTimeout = 2
  MarkerMax = 9
  FirstMarkers = {0}
  Settings <- QualityAlone
  MaxChanges = 1
  MaxSubmissions = 4
  Fails <- NoFails
  Prompt = TRUE
PROPERTIES StartedWhiteIsFollowed
CHECK_DEADLOCK FALSE
