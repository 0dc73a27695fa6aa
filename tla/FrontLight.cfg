SPECIFICATION FairSpec
CONSTANTS
  None = None
  Calibration <- Table
  Multiple = 1
  WarmPercentage = 100
  Boards <- Devices
  Brightnesses = {0, 100}
  Warmths = {100}
  MaxRequests = 2
  MaxOffs = 1
  MaxUpsets = 1
INVARIANTS LightMatches
PROPERTIES LitOnlyAwake WakeRestores
CHECK_DEADLOCK FALSE
