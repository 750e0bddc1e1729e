SPECIFICATION FairSpec
CONSTANTS
  Probes = {p1, p2}
  Commanded = {p1}
  Challenges = {c1, c2}
  Workers = {w1, w2}
  TTL = 1
  Window = 1
  MaxActive = 1
  MaxReplay = 1
  MaxNow = 4
  MaxCrashes = 1
  MaxFails = 1
CHECK_DEADLOCK FALSE
INVARIANTS
  ProbeInv
PROPERTIES
  OneAnswerPerRun
  ReceiptGetsAcknowledged
