SPECIFICATION FairSpec
CONSTANTS
  Capacity = 2
  MaxCompositions = 4
  ColorPanel = TRUE
  Upsets <- Everything
INVARIANTS OneLeasePerSlot AccountsSettle
PROPERTIES DeferredIsRetried
CHECK_DEADLOCK FALSE
