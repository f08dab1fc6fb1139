SPECIFICATION Spec
CONSTANTS
  Traces <- mcTraces
  Sorts <- mcSorts
  FunctionNames = {"f"}
  Constants = {"k"}
  FreeVars = {"h"}
  Universe <- mcUniverse
  ValuesOf <- mcValuesOf
  AuxValues <- mcAuxValues
INVARIANTS
  FormulaTypeOK
  NothingIsLost
  NothingIsAdded
  ReaderTypeOK
  AssertedIsAsked
  CallsHaveTheirValues
CHECK_DEADLOCK FALSE
