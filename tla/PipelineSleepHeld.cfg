SPECIFICATION Spec
CONSTANTS
  p = p
  q = q
  dark = dark
  White = White
  NoPage = NoPage
  Pages <- OnePage
  DarkPages <- NoDark
  Lifecycle <- Binder
  Modes <- OpaqueOnly
  MayToggle = FALSE
  MaxCaptures = 1
  MaxEpoch = 1
  MaxRefresh = 0
  MaxResets = 0
  MayStop = FALSE
  MayFail = FALSE
PROPERTY SleepImageHeld
CHECK_DEADLOCK FALSE
