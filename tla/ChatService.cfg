\* The daemon from its start to the end of one request, in every deployment.
SPECIFICATION Spec
CONSTANTS
  Launches <- MCLaunches
  Specs <- MCSpecs
  Bodies <- MCBodies
  Scenarios <- MCScenarios
  Characters <- MCCharacters
  Pieces <- MCPieces
  Jobs <- MCJobs
  Garbled <- MCGarbled
  Amounts <- MCAmounts
  Claims <- MCClaims
  CloudPieces <- MCCloudPieces
  HasEncoder = FALSE
  ContextSize = 4
  MaxInt = 100
  PromptTokens = 1
  MaxCloud = 2
INVARIANTS
  NoStopIsSent
  RoomForEveryToken
  AliasReachesItsBackend
  ClientHearsTheAnswer
  StreamIsWellFormed
CHECK_DEADLOCK FALSE
