SPECIFICATION FairSpec
CONSTANTS
  Replicas = {r1}
  Queues = {q1}
  Workers = {0, 1}
  NoReplica = NoReplica
  NoQueue = NoQueue
  MaxEdits = 2
  MaxFaults = 1
  MaxHandovers = 1
  MaxLag = 2
PROPERTY Converges
PROPERTY ComesToRest
CHECK_DEADLOCK FALSE
