SPECIFICATION Spec
CONSTANTS
  Probes = {p1}
  Readiness = {r1}
  Scrapes = {s1}
  Clients = {c1}
  GaugeTimeout = 1
  PingTimeout = 1
  ProbeTimeout = 2
  RouteDelay = 1
  ShutdownDelay = 2
  DrainTimeout = 3
  Grace = 7
INVARIANT HealthzIgnoresDatabase
CHECK_DEADLOCK FALSE
