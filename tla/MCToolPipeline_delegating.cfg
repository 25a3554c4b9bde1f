CONSTANTS
  c1 = c1
  c2 = c2
  l1 = l1
  l2 = l2
  Calls = {c1, c2}
  Listeners = {l1, l2}
  Environments = {{"relay", "rewrite"}, {"late"}, {"overlap"}}
SPECIFICATION Spec
 
INVARIANT NothingStranded
INVARIANT NoDeadlyEmbrace
CHECK_DEADLOCK FALSE
