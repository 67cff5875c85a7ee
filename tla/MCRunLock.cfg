CONSTANTS
  r1 = r1
  r2 = r2
  r3 = r3
  out = out
  work = work
  NoRun = NoRun
  Run <- MCRun
  Dir <- MCDir
  Out <- MCOut
  Work <- MCWork
  Host <- MCHost
  Aggregate = {r2}
SPECIFICATION FairSpec
CHECK_DEADLOCK FALSE
INVARIANTS
  OneHolderUnlessRevoked
  SweepsOnlyAbandoned
PROPERTIES
  AllEnd
