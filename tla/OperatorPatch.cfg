SPECIFICATION Spec
CONSTANTS
  Replicas = {r1}
  Queues = {q1, q2}
  Workers = {0, 1}
  NoReplica = NoReplica
  NoQueue = NoQueue
  MaxEdits = 1
  MaxFaults = 0
  MaxHandovers = 0
  MaxLag = 2
PROPERTY PatchIsFresh
CHECK_DEADLOCK FALSE
