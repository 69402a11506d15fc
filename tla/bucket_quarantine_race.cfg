SPECIFICATION Spec
CONSTANTS
  p1 = p1
  p2 = p2
  p3 = p3
  Nobody = Nobody
  Process = {p1, p2, p3}
  Specs <- ReadersQuarantine
  MaxOps = 1
  MaxCrashes = 0
  MaxDamages = 1
PROPERTIES
  QuarantinesOnlyCorrupt
SYMMETRY ProcessSymmetry
CHECK_DEADLOCK FALSE
