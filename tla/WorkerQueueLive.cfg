SPECIFICATION FairSpec
CONSTANTS
  Tasks = {1}
  Workers = {w1, w2}
  Backends = {b1, b2}
  NoTask = NoTask
  NoWorker = NoWorker
  NoBackend = NoBackend
  MaxFaults = 2
  MaxCrashes = 0
  MaxTerms = 1
PROPERTY PendingIsServed
PROPERTY LoopNeverWedges
PROPERTY ImplementsLifecycle
