SPECIFICATION Spec
CONSTANTS
  Exercised = {"credentials", "storage", "settings", "files"}
  CredCallers = {"k1", "k2", "k3"}
  Refs = {"r1", "r2"}
  Process <- McProcess
  MaxJobs = 2
  CredRequests <- McCredRequests
  CredFaultSets = {{"io"}, {"cancel"}, {"io", "crash"}}
  StoreCallers = {"t1", "t2"}
  Hub <- McHub
  Keys = {"x", "y"}
  MaxEntries = 3
  MaxCompactions = 2
  StoreFaultSets = {{}, {"crash"}}
  SettingsCallers = {"s1"}
  Layers = {1, 2}
  DocLayers = {}
  SettingKeys = {"k"}
  Values = {"null", "string"}
  MaxEdits = 2
  MaxGets = 2
  FsCallers = {"c1", "c2", "c3"}
  Instance <- McInstance
  Paths <- McPaths
  Chunk = 2
  MaxLives = 2
  FsEnvironments <- McFsEnvironments
  SuiteCaller = "c1"
INVARIANT DanceIsShared
INVARIANT AckedReplays
INVARIANT TreeIsSound
 
INVARIANT FsSuitePasses
PROPERTY NoLostRecord
PROPERTY AnswerIsOfAMoment
PROPERTY GuardedReplacesSeen
CHECK_DEADLOCK FALSE
