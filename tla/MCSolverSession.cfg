SPECIFICATION FairSessionSpec
CONSTANTS
  Backends = {"Z3", "CVC5"}
  Assertions = {a1, a2}
  MaxAsked = 3
  MaxLevels = 2
INVARIANTS
  SearchSeesAll
  CountersMatch
  SessionInv
PROPERTIES
  NoSearchAfterInterrupt
  StoppedSearchEnds
CHECK_DEADLOCK FALSE
