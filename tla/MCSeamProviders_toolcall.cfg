SPECIFICATION SeamSpec
CONSTANTS
  Parts = {"streams"}
  Streams = {1, 2}
  ChunkOf <- McChunkOf
  ModelEnvironments <- McModelEnvironments
  ReplayCallers = {"p1", "p2"}
  TestThreads = {1, 2}
  TestPlans <- McTestPlans
  Runs = {"r1", "r2"}
  Pids = {"pid1", "pid2"}
  ExecEnvironments <- McExecEnvironments
  Checkers = {"k1", "k2"}
  CheckPlans <- McCheckPlans
  Delays = {0, 2}
INVARIANT ToolCallIsContent
CHECK_DEADLOCK FALSE
