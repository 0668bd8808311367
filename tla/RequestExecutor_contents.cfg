\* One request: every content, every deployment, two chunks, two reloads.
SPECIFICATION Spec
CONSTANTS
  Requests = {r1}
  Kinds <- AllKinds
  Configs <- AllConfigs
  MaxChunks = 2
  MaxReloads = 2
INVARIANTS
  ForcedRouteKept
  NoBackendTriedTwice
  FallbackFlagTellsTruth
  AnswerBookedOnItsBackend
  FeaturesRespected
  ErrorKindFitsTheAttempt
  NoUsableBackendLeftUntried
PROPERTIES
  StreamKeepsItsBackend
  ImplementsService
