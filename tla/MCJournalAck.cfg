SPECIFICATION Spec
CONSTANTS
    c1 = c1
    c2 = c2
    d1 = d1
    s1 = s1
    s2 = s2
    NoOp = NoOp
    NoSession = NoSession
    Cmds = {c1, c2}
    Dels = {}
    ReportOf <- BothAck
    PayloadCmds = {}
    Legacy = {}
    Sessions = {s1}
    MaxEpoch = 1
INVARIANTS
  RecoveryNeverWedged
PROPERTIES
  ImplementsContract
