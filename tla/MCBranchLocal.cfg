SPECIFICATION ArgumentsSpec
CONSTANTS
  NumVars = 2
  NumNames = 4
  MaxMultiplier = 1
  MaxDelta = 1
  Lassos <- mcTwoBranches
  Domain <- mcDomain
  Techniques <- mcAffine
  Functions <- mcFunctions
  Supports <- mcSupports
  Settings <- mcOneSetting
  ClaimValues <- mcClaimValues
  MaxLambda = 2
  MaxFollowed = 3
INVARIANT SupportingInvariantsHold
CHECK_DEADLOCK FALSE
