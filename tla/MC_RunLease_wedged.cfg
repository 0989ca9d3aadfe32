CONSTANTS
  Runs = {r1, r2}
  MaxKills = 1
SPECIFICATION Spec
INVARIANTS
  DeadRunsAreReclaimable
CHECK_DEADLOCK FALSE
