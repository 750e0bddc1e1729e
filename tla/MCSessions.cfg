SPECIFICATION Spec
CONSTANTS
    Conns = {c1, c2}
    ProbeConns = {p1, p2}
    MaxConnections = 1
    MaxConcurrent = 1
    MaxCloseFailures = 1
    i1 = i1
    i2 = i2
    UdpClients <- MCClients
    MaxSessions = 2
    MaxSessionsPerIP = 1
    MaxSockets = 2
    RateBPS = 2
    BurstBytes = 3
    MaxClock = 3
    Lease = 10
    CallBudget = 1
    Pause = 4
    MaxQueued = 2
CHECK_DEADLOCK FALSE
INVARIANTS
  TcpInv
  UdpInv
  LimiterInv
  RenewInv
PROPERTIES
  CloseCompletes
  ChargesReturn
  NeverRevived
  ReleaseReturns
