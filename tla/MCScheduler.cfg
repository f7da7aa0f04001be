SPECIFICATION FairSpec
CONSTANTS
  W = 2
  Submitters = {s1}
  Tasks = {1, 2, 3}
  N = 2
  G = 1
  BeyondOverlap = FALSE
  NULL = NULL
INVARIANTS Conserved SkipOnlyEarly FreedAfterExit
PROPERTIES StatusFinal NullRingOnlyAtStartup AcceptedAnswered DestroyEnds
CHECK_DEADLOCK FALSE
