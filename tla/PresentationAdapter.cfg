SPECIFICATION FairSpec
CONSTANTS
  conversion = conversion
  binder = binder
  Callers <- TwoCallers
  Intervals <- ChangingInterval
  Epochs = {1}
  Requests = {1}
  MaxFrames = 2
  MaxTime = 5
  EngineMayReject = TRUE
INVARIANTS Accounting NewestCandidate SleepImageNeverFlashed QuietAfterStop
PROPERTIES SlotSpec NoWakeUpLost
CHECK_DEADLOCK FALSE
