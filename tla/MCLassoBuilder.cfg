SPECIFICATION CallsSpec
CONSTANTS
  Vars = {x}
  Arrays = {}
  Quoted = {}
  MaxName = 9
  MaxRenamed = 1
  Readings <- mcReadings
INVARIANTS
  LassoMeansItsLines
  RawAligned
  LassoTypeOK
  FixpointIsReal
  CallsFollowTheLines
CHECK_DEADLOCK FALSE
