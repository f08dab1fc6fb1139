SPECIFICATION ArgumentsSpec
CONSTANTS
  NumVars = 2
  NumNames = 4
  MaxMultiplier = 1
  MaxDelta = 1
  Lassos <- mcLassos
  Domain <- mcDomain
  Techniques <- mcTechniques
  Functions <- mcFunctions
  Supports <- mcSupports
  Settings <- mcSettings
  ClaimValues <- mcClaimValues
  MaxLambda = 2
  MaxFollowed = 3
INVARIANTS RankingTypeOK GeometricTypeOK SupportingInvariantsHold ClaimedRunIsARun HondaIsReachable NoContradiction
PROPERTIES EveryIterationRanks TerminatingLassosAreLeft ClaimedRunIsConnected
CHECK_DEADLOCK FALSE
