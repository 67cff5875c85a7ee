CONSTANTS
  Nothing = Nothing
  Item = {tile, bundle}
  Bundles = {bundle}
  SkipOption = {TRUE}
  NameOption = {{}, {bundle}}
  Jobs = 2
  TornWrites = TRUE
  MaxRuns = 3
SPECIFICATION FairSpec
CHECK_DEADLOCK FALSE
INVARIANTS
  LossIsDisclosed
  ConvertedStays
PROPERTIES
  SuccessKept
  ResumeConverges
