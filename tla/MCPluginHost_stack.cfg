CONSTANTS
  f1 = f1
  f2 = f2
  f3 = f3
  k1 = k1
  k2 = k2
  Fibers = {f1, f2, f3}
  Keys = {k1, k2}
  Needs <- MCNeeds
  MaxRegs = 4
  StackOnly = TRUE
  LateCalls = FALSE
SPECIFICATION HostSpec
INVARIANT RegistrationsAreOwned
 
CHECK_DEADLOCK FALSE
