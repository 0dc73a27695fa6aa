SPECIFICATION LibrarySpec
CHECK_DEADLOCK FALSE
CONSTANTS
  Workers = {1, 2}
  MaxAsked = 4
  Slots = {1, 2}
  Clients = {"copier", "converter"}
  MaxGeneration = 2
  MaxCaptures = 3
  Keys = {"off", "f5", "f6"}
  F5 = "f5"
  F6 = "f6"
  Libc = "libc"
  Scalar = "scalar"
  Other = "other"
  MaxInstalls = 2
  Places = {0, 1, 2, 3}
  MoveLimit = 1
  Settle = 2
  Repeat = 4
  MaxNow = 12
  Geometries = {"portrait", "landscape"}
  Contents = {"blank", "a", "b"}
  Blank = "blank"
  Modulus = 4
  Levels = {0, 112, 240}
  Dense = 119
  Alphas = {0, 1, 128, 255}
  MaxEntries = 2
  MaxSequence = 2
  MaxCatalogs = 2
  MaxSubmissions = 2
  Samples <- PixelSamples
INVARIANTS AdmittedOnce VendorPipelineSettles FailureIsReported HeldWithinBound
  AcceptedImageIsPresentable PixelsAgree
PROPERTIES StaleIsRecognised DiagnosticsProgress
