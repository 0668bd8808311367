\* Two reloads that may overlap, a request and a probe.
SPECIFICATION FairSpec
CONSTANTS
  Reloads = {m1, m2}
  Requests = {r1}
  Probes = {h1}
INVARIANTS
  TypeOK
  StateFitsEngine
  SnapshotIsConsistent
  ReloadReportsNoOlderModel
PROPERTIES
  EveryCallReturns
