CONSTANTS
  Processes = {p1, p2, p3}
  Dead = dead
  Blocks = {b1}
SPECIFICATION Spec
INVARIANTS
  BlockHeldOnce
CHECK_DEADLOCK FALSE
