CONSTANTS
  Requests = {r1, r2}
  Datasets = {d1, d2}
  NoCall = NoCall
  Absent = Absent
  NoCrs = "none"
  Objects <- MCObjects
  Buildings <- MCBuildings
  Parts <- MCParts
  Sources <- MCSources
  Existing <- MCExisting
  Packages <- MCPackages
  Picks <- MCPicks
  Holds <- MCHolds
  CrsOf <- MCCrsOf
  MaxKills = 1
SPECIFICATION FairSpec
CHECK_DEADLOCK FALSE
INVARIANTS
  OwnsItsSession
  GuardIsOn
  AnswersTruly
PROPERTIES
  Atomic
  AllAnswered
