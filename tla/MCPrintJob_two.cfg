SPECIFICATION JobsOnly
CONSTANTS
  Blocks = {b1, b2, b3}
  Callers = {c1, c2}
  NULL = NULL
  JUNK = JUNK
INVARIANT Exclusive
