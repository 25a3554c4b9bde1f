CONSTANTS
  t1 = t1
  t2 = t2
  Threads = {t1, t2}
  Mounter = t1
  Disposers = {t1, t2}
  MaxEffects = 3
  TeardownDuringSetup = FALSE
SPECIFICATION FairSpec
INVARIANT CleanupAtMostOnce
 
PROPERTY TeardownUnwinds
PROPERTY LedgerKept
CHECK_DEADLOCK FALSE
