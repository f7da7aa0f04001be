SPECIFICATION Spec
CONSTANTS
  Threads = {t1, t2, t3}
  Values = {a, b}
  NULL = NULL
  N = 2
  MaxTickets = 4
SYMMETRY Symmetry
INVARIANT CellExclusive
PROPERTY ImplementsFifo
