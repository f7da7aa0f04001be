CONSTANTS
  Callers = {c1}  WorkerCounts = {1}  CoreIds = {0, 1}
  Pipelines <- MCPipelines  TaskSlots = 1  MaxCalls = 1  MaxStarts = 0
  Threads = {t1}  Pipes <- MCPipes  Images <- MCImages
  Lanes = 2  MaxFuses = 0  MaxRuns = 0
  Word = 16  Line = 4  Capacities = {8}  Aligns = {1}  MaxBlocks = 0
  Clients = {c1}  RemoteOps = {2}  ServerOps = {2}  MaxSends = 0  MaxOps = 0
SPECIFICATION Spec
INVARIANT DecodeWired
CHECK_DEADLOCK FALSE
