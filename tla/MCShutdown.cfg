\* Two calls of Shutdown with one thing to do, or one call with two; a Forward
\* whose actor may be replaced once, and one resource that fails.
SPECIFICATION EndSpec
CONSTANTS
    Actors = {a1, a2}
    MaxFailures = 1
    MaxCalls = 2
    MaxIncidents = 2
    MaxEvents = 3
CHECK_DEADLOCK FALSE
INVARIANTS
  ShutdownInv
PROPERTIES
  ShutdownReturns
