SPECIFICATION ArgumentsSpec
CONSTANTS
  NumVars = 1
  NumNames = 4
  MaxMultiplier = 1
  MaxDelta = 1
  Lassos <- mcHidden
  Domain <- mcDomain
  Techniques <- mcAffine
  Functions <- mcFunctions
  Supports <- mcSupports
  Settings <- mcOneSetting
  ClaimValues <- mcClaimValues
  MaxLambda = 2
  MaxFollowed = 3
PROPERTY TerminatingLassosAreLeft
CHECK_DEADLOCK FALSE
