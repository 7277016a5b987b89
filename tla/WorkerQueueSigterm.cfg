SPECIFICATION Spec
CONSTANTS
  Tasks = {1, 2}
  Workers = {w1, w2}
  Backends = {b1, b2, b3}
  NoTask = NoTask
  NoWorker = NoWorker
  NoBackend = NoBackend
  MaxFaults = 0
  MaxCrashes = 0
  MaxTerms = 1
PROPERTY SigtermHandsBack
