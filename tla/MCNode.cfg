CONSTANTS
  MaxGen = 2
  MaxProbes = 1
  MaxSaveFails = 1
  MaxRestarts = 1
  MaxIncidents = 1
  FirstGens = {1, 2}
  MaxKeys = 4
  MaxMishaps = 4
  Gateways = {"g1"}
  Callers = {"f1", "f2"}
  PublicPorts = {1, 2}
  Wanted <- PortWanted
  StrictCallers = {"f1"}
  MaxTries = 2
  MaxUpsets = 2
  AutoOrder <- ProductionOrder
  Parallel = 1
  Specs <- ForwardSpecs
  Endpoints <- SeenEndpoints
  MaxTroubles = 1
  Exchangers = {"c1", "c2"}
  Configured = {"s1"}
  Servers = {"s1", "s2"}
  Global = {"s1", "s2"}
  MaxAlternates = 1
  MaxSends = 2
  MaxTx = 3
  MaxAnswers = 3
SPECIFICATION NodeSpec
CHECK_DEADLOCK FALSE
INVARIANTS
  ActivationInv
  RotationInv
  UpnpInv
  DetectionInv
  StunInv
