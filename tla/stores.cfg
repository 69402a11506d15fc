SPECIFICATION StoresSpec
CONSTANTS
  p1 = p1
  p2 = p2
  p3 = p3
  Nobody = Nobody
  NoOwner = NoOwner
  Process = {p1, p2, p3}
  Specs <- Sound
  MaxOps = 2
  MaxCrashes = 1
  MaxDeaths = 1
  MaxDamages = 1
  Session = {s1, s2}
  Key = {k1}
  Root = {r1}
  Collector = gc
  Thresholds = {TRUE, FALSE}
  MaxRuns = 1
  MaxMeddles = 1
  App = {a1}
  Runner = {s1, s2}
  None = None
  MaxAccidents = 2
INVARIANTS
  NoSelfDamage
  LeasedPresent
  RootsHeld
  UnlinkedLast
PROPERTIES
  ImplementsRecord
  PinnedKept
  GcLeavesNothing
SYMMETRY StoresSymmetry
CHECK_DEADLOCK FALSE
