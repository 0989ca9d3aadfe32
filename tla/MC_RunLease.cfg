CONSTANTS
  Runs = {r1, r2, r3}
  MaxKills = 1
SYMMETRY RunSymmetry
SPECIFICATION Spec
INVARIANTS
  AliveIsInCustody
  OneOwner
CHECK_DEADLOCK FALSE
