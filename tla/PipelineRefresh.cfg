SPECIFICATION FairSpec
CONSTANTS
  p = p
  q = q
  dark = dark
  White = White
  NoPage = NoPage
  Pages <- NoPages
  DarkPages <- OneDark
  Lifecycle <- AnyLifecycle
  Modes <- OverlayOnly
  MayToggle = TRUE
  MaxCaptures = 2
  MaxEpoch = 1
  MaxRefresh = 2
  MaxResets = 0
  MayStop = TRUE
  MayFail = TRUE
INVARIANTS RefreshAccounted
PROPERTIES StopCompletes
CHECK_DEADLOCK FALSE
