CONSTANTS
  FirstGens = {2}
  MaxKeys = 4
  MaxMishaps = 2
SPECIFICATION RotSpec
CHECK_DEADLOCK FALSE
INVARIANT ValidIsAccepted
