---------------------------- MODULE GrantReserves ----------------------------
(***************************************************************************)
(* The contracts that hold tokens: the controller of a purpose             *)
(* (ReserveController) and the founder's reserve (FounderGrantReserve),    *)
(* which fund grants from the repository's own token, and the purpose      *)
(* vault (PurposeReserveVault) and one grant's vault (GrantVault), over    *)
(* any token.  They share nothing but the clock: each is run by itself,    *)
(* the others not yet deployed.                                            *)
(***************************************************************************)
EXTENDS ReserveController

CONSTANTS FounderProposals, FounderSchedules, Supplies, Deliveries,
          Accounts, TokenSupply, VaultTime, OPENS_AT, WINDOW_SECONDS, OUTFLOW_CAP,
          MaxFee, MaxGift, MaxDepth, GrantProposals, GrantAccounts

VARIABLES running,
          supply, grant, funded, reserve, held, founder,
          outflows, entered, balances, spent, frames,
          grantVault, grantBalances, flow, calls

founderVars == <<supply, grant, funded, reserve, held, founder>>
vaultVars == <<outflows, entered, balances, spent, frames>>
grantVars == <<grantVault, grantBalances, flow, calls>>
reservesVars == <<running, vars, founderVars, vaultVars, grantVars>>

Founder == INSTANCE FounderGrantReserve
             WITH Proposals <- FounderProposals, Schedules <- FounderSchedules

Vault == INSTANCE PurposeReserveVault
           WITH MaxTime <- VaultTime, ROLLING_CAP <- OUTFLOW_CAP, bal <- balances

GrantsVault == INSTANCE GrantVault
                 WITH Proposals <- GrantProposals, Accounts <- GrantAccounts,
                      vault <- grantVault, bal <- grantBalances, frames <- calls

ASSUME ReservesAssumption ==
  Founder!ArgumentsTyped /\ Vault!Policy /\ GrantsVault!BindingAssumption

ReservesInit ==
  /\ running \in {"ReserveController", "FounderGrantReserve", "PurposeReserveVault", "GrantVault"}
  /\ Vault!Init
  /\ IF running = "GrantVault"
       THEN GrantsVault!Init
       ELSE /\ grantVault = GrantsVault!NoVault /\ flow = GrantsVault!NoFlow /\ calls = <<>>
            /\ grantBalances = [a \in GrantAccounts |-> 0]
  /\ IF running = "FounderGrantReserve"
       THEN /\ Founder!Init
            /\ commitments = <<>> /\ vaults = <<>> /\ committed = [t \in Time |-> 0]
            /\ bal = [reserve |-> 0, others |-> INITIAL_SUPPLY]
       ELSE /\ Init
            /\ supply = 0 /\ grant = EmptyGrant /\ funded = FALSE
            /\ reserve = 0 /\ held = 0 /\ founder = 0

RunController ==
  running = "ReserveController" /\ Next /\ UNCHANGED <<running, founderVars, vaultVars, grantVars>>

RunFounder ==
  /\ running = "FounderGrantReserve" /\ Founder!Next
  /\ UNCHANGED <<running, commitments, vaults, bal, committed, vaultVars, grantVars>>

RunVault ==
  /\ running = "PurposeReserveVault" /\ Vault!Next
  /\ UNCHANGED <<running, commitments, vaults, bal, committed, founderVars, grantVars>>

RunGrant ==
  /\ running = "GrantVault" /\ GrantsVault!Next
  /\ UNCHANGED <<running, commitments, vaults, bal, committed, founderVars, vaultVars>>

ReservesNext == RunController \/ RunFounder \/ RunVault \/ RunGrant

ReservesSpec == ReservesInit /\ [][ReservesNext]_reservesVars

\* The founder reserve's promise (see FounderGrantReserve).
FounderIsPaid == Founder!FounderIsPaid

\* The purpose vault's promises (see PurposeReserveVault).
EveryOutflowWithinCap == Vault!EveryWindowWithinCap
AccountIsTrue == Vault!AccountIsTrue

\* The grant vault's promises (see GrantVault).
EveryClaimIsPayable == GrantsVault!EveryClaimIsPayable
AccountingIsPayment == GrantsVault!AccountingIsPayment
ImplementsPromise == GrantsVault!ImplementsPromise
=============================================================================
