SPECIFICATION StoreSpec
CONSTANTS
  Session = {s1, s2}
  Key = {k1}
  Root = {r1}
  Collector = gc
  NoOwner = NoOwner
  Thresholds = {FALSE}
  MaxRuns = 1
  MaxDeaths = 0
  MaxMeddles = 0
PROPERTIES
  PinnedAlwaysKept
SYMMETRY SessionSymmetry
CHECK_DEADLOCK FALSE
