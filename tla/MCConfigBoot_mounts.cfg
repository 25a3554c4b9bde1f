CONSTANTS
  c1 = c1
  c2 = c2
  Callers = {c1, c2}
  MaxSpines = 2
  Environments <- MCEnvironments
  Overlays <- MCOverlays
  Requests <- MCRequests
  Env <- MCEnv
  Home <- MCHome
  Seam <- MCSeam
  BuiltInProfiles <- MCBuiltInProfiles
  BuiltInBundles <- MCBuiltInBundles
  DiskProfiles <- MCDiskProfiles
  DiskBundles <- MCDiskBundles
  HomePatch <- MCHomePatch
SPECIFICATION Spec
INVARIANT ComposedIsLastWriter
 
 
PROPERTY NeverMountedTwice
CHECK_DEADLOCK FALSE
