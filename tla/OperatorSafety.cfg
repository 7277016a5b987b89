SPECIFICATION Spec
CONSTANTS
  Replicas = {r1, r2}
  Queues = {q1}
  Workers = {0, 1}
  NoReplica = NoReplica
  NoQueue = NoQueue
  MaxEdits = 1
  MaxFaults = 1
  MaxHandovers = 1
  MaxLag = 1
SYMMETRY Pods
INVARIANT TypeOK
INVARIANT RestIsInSync
PROPERTY ObservedGenerationMonotone
CHECK_DEADLOCK FALSE
