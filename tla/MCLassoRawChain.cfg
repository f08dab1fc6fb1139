SPECIFICATION CallsSpec
CONSTANTS
  Vars = {x}
  Arrays = {}
  Quoted = {}
  MaxName = 8
  MaxRenamed = 2
  Readings <- mcThreeLines
INVARIANTS
  LassoMeansItsLines
CHECK_DEADLOCK FALSE
