CONSTANTS
  Requests = {r1, r2, r3}
  Engines = {e1, e2, e3}
  NoEngine = NoEngine
  Size = 2
  MaxWaiting = 2
  Caller = r1
  Calls = {query, describe}
  Queries = {query}
  Statements = 2
  Sandbox = TRUE
SPECIFICATION FairServerSpec
CHECK_DEADLOCK FALSE
INVARIANTS
  EnginesBounded
  Isolated
  NoSlotForgotten
  InterruptsItsOwn
PROPERTIES
  AllSettles
