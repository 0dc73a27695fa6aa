\* A session is constructed, used by both Binder services and destroyed.
SPECIFICATION Spec
CONSTANTS
  MaxSessions = 1
  MaxEpoch = 2
  MaxVersion = 2
  MaxRefresh = 2
INVARIANTS CallsUseLiveSession CatalogAgrees
PROPERTIES QueuedIsRedrawn
CHECK_DEADLOCK FALSE
