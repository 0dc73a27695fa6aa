SPECIFICATION FairSpec
CONSTANTS
  NoCatalog = NoCatalog
  Page = Page
  SleepModes <- AllModes
  PromptListener = FALSE
  MaxStore = 2
  MaxOffs = 2
  MaxUpsets = 1
INVARIANTS ActiveIsOwed
PROPERTIES ShownIsRetained CatalogRenewed WakeReleasesPanel
CHECK_DEADLOCK FALSE
