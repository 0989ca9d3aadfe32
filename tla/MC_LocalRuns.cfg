CONSTANTS
  Runs = {r1, r2}
  Old = old
  MaxStarts = 2
  MaxKills = 1
  MaxFailures = 1
SYMMETRY RunSymmetry
SPECIFICATION FixtureSpec
INVARIANT RemovedIsStopped
CHECK_DEADLOCK FALSE
