CONSTANTS
  Nothing = Nothing
  Item = {tile, bundle}
  Bundles = {bundle}
  SkipOption = {TRUE}
  NameOption = {{}, {bundle}}
  Jobs = 2
  TornWrites = TRUE
  MaxRuns = 2
SPECIFICATION Spec
CHECK_DEADLOCK FALSE
INVARIANTS
  SkippedIsFinished
