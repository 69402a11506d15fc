CONSTANTS
  f1 = f1  f2 = f2  f3 = f3
  p1 = p1  p2 = p2  p3 = p3
  i1 = i1  i2 = i2  i3 = i3
  NoFile = NoFile  Unsafe = Unsafe
  Fiber = {f1, f2, f3}
  Proc = {p1, p2}
  ProcOf <- TwoAndOne
  Guarded = {f1, f2, f3}
  Ino = {i1, i2, i3}
  Stale = 1  Timeout = 1  Retry = 1
  ExpireLiveOwner = TRUE  IOFaults = TRUE
  MaxClock = 3  MaxCrashes = 1
CHECK_DEADLOCK FALSE
SPECIFICATION Spec
SYMMETRY SiblingSymmetry
INVARIANTS ExclusiveUnlessDisturbed
PROPERTIES ImplementsContract LiveOwnerKeepsFile ReleaseSparesSiblings TakeoverJustified
