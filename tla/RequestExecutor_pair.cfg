\* Two requests that share the engine, one reload.
SPECIFICATION FairSpec
CONSTANTS
  Requests = {r1, r2}
  Kinds <- PairKinds
  Configs <- PairConfigs
  MaxChunks = 1
  MaxReloads = 1
INVARIANTS
  TypeOK
  CheckedEngineStaysReady
  GaugeCountsUnfinished
PROPERTIES
  EveryRequestSettles
