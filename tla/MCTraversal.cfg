SPECIFICATION Spec
CONSTANTS
    MaxAcquisitions = 3
    MaxFaults = 1
    MaxIncidents = 2
    MaxDeaths = 1
    Owners = {o1}
    PortNumbers = {1}
    MaxLeases = 3
    Forwards = {f1, f2}
    MaxAttempts = 2
    Uptimes = {0, 3}
    MaxBoots = 1
    MaxExchanges = 3
SYMMETRY ForwardSymmetry
CHECK_DEADLOCK FALSE
INVARIANTS
  
  PortOwnership
  ExchangeInv
PROPERTIES
  ForgottenIsReleased
  ConclusionsAreTrue
