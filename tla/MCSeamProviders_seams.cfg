SPECIFICATION SeamSpec
CONSTANTS
  Parts = {"streams", "adapter suite", "commands", "executor suite"}
  Streams = {1, 2}
  ChunkOf <- McChunkOf
  ModelEnvironments <- McModelEnvironments
  ReplayCallers = {"p1", "p2"}
  TestThreads = {1, 2}
  TestPlans <- McTestPlans
  Runs = {"r1", "r2"}
  Pids = {"pid1", "pid2"}
  ExecEnvironments <- McExecEnvironments
  Checkers = {"k1", "k2"}
  CheckPlans <- McCheckPlans
  Delays = {0, 2}
INVARIANT StreamIsSound
 
INVARIANT ReplayStandsIn
INVARIANT AdapterSuiteDecides
INVARIANT ResultIsTrue
INVARIANT ConfinedOrNotRun
INVARIANT ExecutorSuiteDecides
CHECK_DEADLOCK FALSE
