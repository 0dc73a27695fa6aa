SPECIFICATION Spec
CONSTANTS
  p = p
  q = q
  dark = dark
  White = White
  NoPage = NoPage
  Pages <- TwoPages
  DarkPages <- NoDark
  Lifecycle <- Binder
  Modes <- BothModes
  MayToggle = TRUE
  MaxCaptures = 3
  MaxEpoch = 2
  MaxRefresh = 0
  MaxResets = 1
  MayStop = FALSE
  MayFail = TRUE
SYMMETRY PagePermutations
INVARIANTS ConsumedHoldsCaptures SleepFrameBelongsToCycle RestAgrees BackgroundWasShown
CHECK_DEADLOCK FALSE
