SPECIFICATION Spec
CONSTANTS
  s = s  b = b  c = c  r = r  d = d
  host = host  kid = kid  cli = cli
  Nobody = Nobody
  Fiber = {s, b, c, r, d}
  Proc = {host, kid, cli}
  ProcOf <- Procs
  ParentOf <- Parents
  App = {"a", "b", "policy", "global"}
  Movable = {"a"}
  Volume = {1, 2, 3}
  Program <- Nested
  Teardown = {d}
  AncestryVisible = TRUE
  LiveOwnersExpire = FALSE
  MaxCommands = 1
  MaxMoves = 0
  Mortal = {host}
INVARIANT NeverWaitsForItself
CHECK_DEADLOCK FALSE
