CONSTANTS
  Callers = {c1}  WorkerCounts = {0, 1, 3, 65}  CoreIds = {0, 1}
  Pipelines <- MCPipelines  TaskSlots = 1  MaxCalls = 1  MaxStarts = 2
  Threads = {t1, t2}  Pipes <- MCPipes  Images <- MCImages
  Lanes = 2  MaxFuses = 1  MaxRuns = 2
  Word = 16  Line = 4  Capacities = {8, 13}  Aligns = {1, 2, 4}  MaxBlocks = 3
  Clients = {c1, c2}  RemoteOps = {2, 3, 4, 5}  ServerOps = {2}  MaxSends = 2
  MaxOps = 4
SPECIFICATION FairSpec
INVARIANTS WorkersApart PoolOutlivesThreads KernelsFit FusedRight ArenaSound
INVARIANTS RemoteTrue OwnCompletion
PROPERTIES ShutdownEnds
CHECK_DEADLOCK FALSE
