SPECIFICATION Spec
CONSTANTS
  Probes = {p1}
  Readiness = {r1}
  Scrapes = {s1}
  Clients = {c1, c2}
  GaugeTimeout = 1
  PingTimeout = 1
  ProbeTimeout = 2
  RouteDelay = 1
  ShutdownDelay = 2
  DrainTimeout = 3
  Grace = 7
INVARIANT TypeOK
INVARIANT NoRefusedClient
INVARIANT AcceptedIsAnswered
INVARIANT KilledOnlyInTrouble
INVARIANT ReadyzHonest
INVARIANT ProbeAnsweredInTime
CHECK_DEADLOCK FALSE
