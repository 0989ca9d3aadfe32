CONSTANTS
  Timeout = 1
  TermAfter = 1
  DrainFor = 2
  MaxClockFailures = 1
  Planners = {p1, p2}
  Stranger = stranger
  LastLeaf = 2
  MaxEvents = 3
  Publishers = {q1, q2}
  Deliveries = {"delivery", "other"}
  LastFile = 1
  MaxMishaps = 1
  Parts <- PayloadAndWrapper
  MaxAttempts = 3
  Plan <- FilesAndDirectory
  Directories <- PlanDirectories
  MaxCommands = 2
  Owners = {o1, o2, o3}
  Dead = dead
  Blocks = {b1}
SPECIFICATION ToolingSpec
INVARIANTS
  CustodyIsTrue
  SignalledOnce
  OnlyCapturedIsRemoved
  ReadyIsTrue
  DeliveryIsTrue
  InstallationIsKept
  SerializedWhileNoneDies
CHECK_DEADLOCK FALSE
