CONSTANTS
  MaxAmount = 100
  MaxTime = 7
  Purposes = {"test"}
  Grants <- MCGrants
  TermsOf <- MCTermsOf
  MaxOutside = 1
  Pairs = {"first", "second"}
  ApprovalNonce <- MCApprovalNonce
  FirstNonces = {5, 6}
  Names = {"x", "y"}
  MaxHeight = 3
  MaxViews = 6
  MaxStale = 1
  Identity <- MCIdentity
  b1 = b1
  b2 = b2
  Blocks = {b1, b2}
  MaxDeliveries = 3
  MaxReorganizations = 1
  Transfers = {"there", "back"}
  DirectionOf <- MCDirectionOf
  TransferAmount = 2
  EthereumMaxAge = 0
  SolanaMaxAge = 0
  MaxBlocks = 5
  ReportTime = 1
  MaxMovements = 1
SYMMETRY BlockSymmetry
SPECIFICATION ToolsSpec
CONSTRAINT NotReported
INVARIANT PreflightBeforeSigning
CHECK_DEADLOCK FALSE
