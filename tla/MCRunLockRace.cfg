CONSTANTS
  r1 = r1
  r2 = r2
  r3 = r3
  out = out
  work = work
  NoRun = NoRun
  Run <- MCRun
  Dir <- MCDir
  Out <- SharedOut
  Work <- SharedWork
  Host <- OneHost
  Aggregate = {r2}
SPECIFICATION Spec
CHECK_DEADLOCK FALSE
INVARIANTS
  OneHolder
