SPECIFICATION Spec
CONSTANTS
  Producers = {p}
  Consumers = {c}
  Values = {a, b, d}
  NULL = NULL
  N = 4
INVARIANTS SlotExclusive RingInv
PROPERTY ImplementsFifo
