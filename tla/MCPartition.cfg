CONSTANTS
  N = 4
  MaxLabel = 3
  MaxRuns = 2
  Inputs <- MCInputs
  Specs <- MCSpecs
SPECIFICATION Spec
CHECK_DEADLOCK FALSE
INVARIANTS
  RepairIsLeast
  ReplacesOrKeeps
