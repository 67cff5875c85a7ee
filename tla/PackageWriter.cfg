CONSTANTS
  Tables = {"building", "transportation"}
  Sidecars = {"materials"}
  Manifest = "metadata"
  MaxRuns = 3
  Batches = 4
  Capacity = 1
  Hilbert = TRUE
SPECIFICATION FairWriterSpec
CHECK_DEADLOCK FALSE
INVARIANTS
  PublishedIsWhole
  RemainderRecoverable
  OkMeansComplete
PROPERTIES
  ReplacesWhole
  RetryConverges
