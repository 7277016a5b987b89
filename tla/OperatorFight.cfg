SPECIFICATION Spec
CONSTANTS
  Replicas = {r1, r2}
  Queues = {q1}
  Workers = {0, 1}
  NoReplica = NoReplica
  NoQueue = NoQueue
  MaxEdits = 1
  MaxFaults = 0
  MaxHandovers = 1
  MaxLag = 2
PROPERTY NobodyFights
CHECK_DEADLOCK FALSE
