CONSTANTS
  MaxAmount = 25
  MaxTime = 5
  Purposes = {"contributors"}
  Proposals <- MCProposals
  MaxStamp = 7
  Histories <- MCHistories
  Cutoffs <- MCCutoffs
  DAY = 2
  Starts <- MCStarts
  MaxUint = 3
  Recipients = {"a", "b", "c"}
  MAX_GENESIS_ALLOCATIONS = 3
  Lists <- MCLists
SPECIFICATION LibrariesSpec
INVARIANTS
  ClaimNeverUnderflows
  AllocationSplit
  FindsBoundary
  SchedulesAreCalendarDates
  GenesisIsDeclared
PROPERTIES
  EntitlementOnlyFreezes
  Terminates
CHECK_DEADLOCK FALSE
