SPECIFICATION Spec
CONSTANTS
  Traces <- mcNegatedProducts
  Sorts <- mcSorts
  FunctionNames = {"f"}
  Constants = {"k"}
  FreeVars = {"h"}
  Universe <- mcUniverse
  ValuesOf <- mcValuesOf
  AuxValues <- mcAuxValues
INVARIANTS
  NothingIsLost
CHECK_DEADLOCK FALSE
