CONSTANTS
  alpha = alpha
  beta = beta
  read = read
  write = write
  echo = echo
  c1 = c1
  c2 = c2
  Ids = {alpha, beta}
  Names = {read, write, echo}
  Callers = {c1, c2}
  MaxMounts = 3
  Declares <- MCDeclares
  Environments = {{"unmount", "all"}, {"overlap"}, {"overlap", "pile", "unmount", "all"}}
SPECIFICATION Spec
SYMMETRY CallersAlike
INVARIANT TreeIsServed
PROPERTY ReloadSwaps
CHECK_DEADLOCK FALSE
