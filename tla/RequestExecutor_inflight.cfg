\* One buffered request: the in-flight gauge after an exception has left the executor.
SPECIFICATION Spec
CONSTANTS
  Requests = {r1}
  Kinds <- BufferedKinds
  Configs <- PairConfigs
  MaxChunks = 1
  MaxReloads = 0
INVARIANTS
  InFlightCountsActiveRequests
