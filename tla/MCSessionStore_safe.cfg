CONSTANTS
  p1 = p1
  p2 = p2
  p3 = p3
  Procs = {p1, p2, p3}
  Environments = {{"create", "crash"}, {"compact", "crash"}, {"remove"}, {"create", "unmount"}, {"create", "remove", "compact", "unmount", "alone"}, {"create", "compact", "crash", "alone"}, {"create", "cut"}}
  MaxInodes = 3
  MaxWrites = 2
  Copied = 1
SPECIFICATION Spec
SYMMETRY Symmetry
INVARIANT WriterIsSingle
INVARIANT FileIsTheSession
PROPERTY FailedMountLeavesNothing
