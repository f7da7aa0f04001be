SPECIFICATION FairSpec
CONSTANTS
  Threads = {t1, t2, t3}
  Values = {a}
  NULL = NULL
  N = 2
  MaxTickets = 3
PROPERTY CallsReturn
