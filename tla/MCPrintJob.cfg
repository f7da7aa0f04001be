SPECIFICATION FairSpec
CONSTANTS
  Blocks = {b1, b2, b3, b4}
  Callers = {c1}
  NULL = NULL
  JUNK = JUNK
INVARIANTS HoldsWhatItNeeds PoolSound
PROPERTY CallsReturn
