CONSTANTS
  Runs = {r1, r2}
  Old = old
  MaxStarts = 2
  MaxKills = 2
  MaxFailures = 1
SPECIFICATION Spec
PROPERTY OrphanIsTerminated
CHECK_DEADLOCK FALSE
