\* One request: final events name the backend a request moved to as its initial one.
SPECIFICATION Spec
CONSTANTS
  Requests = {r1}
  Kinds <- PairKinds
  Configs <- PairConfigs
  MaxChunks = 1
  MaxReloads = 0
INVARIANTS
  InitialIdentityNamesInitialTarget
