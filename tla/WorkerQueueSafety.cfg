SPECIFICATION Spec
CONSTANTS
  Tasks = {1, 2}
  Workers = {w1, w2}
  Backends = {b1, b2}
  NoTask = NoTask
  NoWorker = NoWorker
  NoBackend = NoBackend
  MaxFaults = 1
  MaxCrashes = 1
  MaxTerms = 1
SYMMETRY Replicas
INVARIANT TypeOK
INVARIANT NoDoubleProcessing
INVARIANT HolderNamedInRow
INVARIANT StrandedAccounted
INVARIANT CountersHonest
PROPERTY DoneIsFinal
PROPERTY StrandedForever
