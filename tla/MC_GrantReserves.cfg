CONSTANTS
  MaxAmount = 200
  MaxTime = 6
  Purposes = {"contributors", "founder"}
  Proposals <- MCProposals
  Schedules <- MCSchedules
  Beneficiaries <- MCBeneficiaries
  PURPOSE = "contributors"
  ROLLING_CAP = 4
  PER_GRANT_CAP = 3
  WINDOW = 3
  INITIAL_SUPPLY = 7
  MaxVaults = 3
  FounderProposals <- MCFounderProposals
  FounderSchedules <- MCFounderSchedules
  Supplies = {100, 150, 200}
  Deliveries = {2, 3, 5}
  Accounts = {"reserve", "recipient", "elsewhere"}
  TokenSupply = 4
  VaultTime = 4
  OPENS_AT = 1
  WINDOW_SECONDS = 2
  OUTFLOW_CAP = 3
  MaxFee = 1
  MaxGift = 1
  MaxDepth = 2
  GrantProposals <- MCGrantProposals
  GrantAccounts = {"vault", "reserve", "contributor", "elsewhere"}
SPECIFICATION ReservesSpec
INVARIANTS
  EveryWindowWithinCap
  Conservation
  FounderIsPaid
  EveryOutflowWithinCap
  AccountIsTrue
  EveryClaimIsPayable
  AccountingIsPayment
PROPERTY ImplementsPromise
CHECK_DEADLOCK FALSE
