SPECIFICATION FairSpec
CONSTANTS
  s = s  b = b  c = c  r = r  d = d
  host = host  kid = kid  cli = cli
  Nobody = Nobody
  Fiber = {s, b, c, r, d}
  Proc = {host, kid, cli}
  ProcOf <- Procs
  ParentOf <- Parents
  App = {"a", "b", "policy", "global"}
  Movable = {"a"}
  Volume = {1, 2, 3}
  Program <- Programs
  Teardown = {d}
  AncestryVisible = FALSE
  LiveOwnersExpire = TRUE
  MaxCommands = 2
  MaxMoves = 1
  Mortal = {host}
  Rank <- Ranks
  TopRank = 6
  Floor <- Floors
  Inherited <- Launchers
  Course <- Courses
INVARIANTS
  BodyHoldsItsKeys
  OneCommandPerApp
  NoCircularWait
  ChildNeverQueuesBehindParent
CHECK_DEADLOCK FALSE
PROPERTY CommandsEnd
