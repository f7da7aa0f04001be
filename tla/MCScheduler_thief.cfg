SPECIFICATION Spec
CONSTANTS
  W = 2
  Submitters = {s1}
  Tasks = {1, 2}
  N = 2
  G = 2
  BeyondOverlap = TRUE
  NULL = NULL
INVARIANT NoUseAfterStatus
CHECK_DEADLOCK FALSE
