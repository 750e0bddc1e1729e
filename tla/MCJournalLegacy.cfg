SPECIFICATION FairSpec
CONSTANTS
    c1 = c1
    c2 = c2
    d1 = d1
    s1 = s1
    s2 = s2
    NoOp = NoOp
    NoSession = NoSession
    Cmds = {c1}
    Dels = {d1}
    ReportOf <- OneDelete
    PayloadCmds = {c1}
    Legacy = {c1}
    Sessions = {s1, s2}
    MaxEpoch = 2
INVARIANTS
  NoSplitBrain
PROPERTIES
  QueuedGetsReceipted
  CommandsGetAnswered
