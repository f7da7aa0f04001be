SPECIFICATION FairSpec
CONSTANTS
  Jobs = {j1, j2}
  Workers = {w1, w2}
  MaxRetries = 1
  MaxFaults = 2
INVARIANTS StatusEarned SingleFlight
PROPERTIES FinalKept JobEnds
CHECK_DEADLOCK FALSE
