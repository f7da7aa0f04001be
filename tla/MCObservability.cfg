SPECIFICATION FairSpec
CONSTANTS
  Writers = {w1, w2}
  RingSize = 2
  MaxWrites = 2
  Loggers = {t1, t2}
  CpuIds = {0, 1}
  Kinds = {"LATENCY", "BATCH"}
  Powers = {0, 2}
  MaxEvents = 2
  CoreCount = 2
  Reporters = {r1, r2}
  Latencies = {1, 2}
  TopLatency = 9
  MaxReports = 1
INVARIANTS PrintedInOrder ThreadInRing EntriesKept MetricsExact
PROPERTIES DropOnlyFull TicketPrinted
CHECK_DEADLOCK FALSE
