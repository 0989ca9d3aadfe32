-------------------------- MODULE ContractLibraries --------------------------
(***************************************************************************)
(* The sequential algorithms inside the contracts, one of them at a time:  *)
(* the accounting library (GrantLedger), the checkpoint search, the grant  *)
(* calendar and the token's constructor.  They share no state; which one   *)
(* runs is chosen initially, and the others rest in a final state.         *)
(***************************************************************************)
EXTENDS GrantLedger, CheckpointSearch

CONSTANTS DAY, Starts, MaxUint, Recipients, Lists, MAX_GENESIS_ALLOCATIONS

VARIABLES running,                   \* the algorithm that runs
          start, lowYear, highYear,  \* GrantCalendar's
          initialSupply, sortedAllocations, stage, i, sum, previousId, bal, totalSupply

yearVars == <<start, lowYear, highYear>>
genesisVars == <<initialSupply, sortedAllocations, stage, i, sum, previousId, bal, totalSupply>>
libraryVars == <<running, vars, searchVars, yearVars, genesisVars>>

Calendar == INSTANCE GrantCalendar WITH low <- lowYear, high <- highYear
Genesis == INSTANCE TokenGenesis WITH MaxAmount <- MaxUint

\* The widths, the constructor's calldata and the timestamps it is called with.
ASSUME LibrariesAssumption ==
  /\ DAY \in Nat \ {0} /\ Starts \subseteq Nat
  /\ MaxUint \in Nat /\ MAX_GENESIS_ALLOCATIONS \in Nat
  /\ Lists \subseteq Seq(Genesis!Allocation)

LedgerRests == grant = EmptyGrant /\ refunded = 0
SearchRests == cps = <<>> /\ cutoff = 0 /\ low = 0 /\ high = 0
CalendarRests == start = 0 /\ lowYear = 1970 /\ highYear = 1971
GenesisRests ==   \* an empty list was refused
  /\ initialSupply = 0 /\ sortedAllocations = <<>> /\ stage = "reverted"
  /\ i = 0 /\ sum = 0 /\ previousId = 0
  /\ bal = [r \in Recipients |-> 0] /\ totalSupply = 0

LibrariesInit ==
  \/ running = "GrantAccounting" /\ Init /\ SearchRests /\ CalendarRests /\ GenesisRests
  \/ running = "rollingOutflow" /\ SearchInit /\ LedgerRests /\ CalendarRests /\ GenesisRests
  \/ running = "GrantCalendar" /\ Calendar!Init /\ LedgerRests /\ SearchRests /\ GenesisRests
  \/ running = "AGTMAIToken" /\ Genesis!Init /\ LedgerRests /\ SearchRests /\ CalendarRests

Account == running = "GrantAccounting" /\ Next
           /\ UNCHANGED <<running, searchVars, yearVars, genesisVars>>
Search == Iterate /\ UNCHANGED <<running, vars, yearVars, genesisVars>>
FindYear == Calendar!Next /\ UNCHANGED <<running, vars, searchVars, genesisVars>>
Deploy == Genesis!Next /\ UNCHANGED <<running, vars, searchVars, yearVars>>

LibrariesNext == Account \/ Search \/ FindYear \/ Deploy

\* A loop is ordinary sequential code: it does not stop between iterations.
LibrariesSpec == LibrariesInit /\ [][LibrariesNext]_libraryVars /\ WF_libraryVars(Search)

\* The calendar's and the constructor's promises (see GrantCalendar, TokenGenesis).
SchedulesAreCalendarDates == Calendar!SchedulesAreCalendarDates
GenesisIsDeclared == Genesis!GenesisIsDeclared
=============================================================================
