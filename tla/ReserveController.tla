-------------------------- MODULE ReserveController --------------------------
(***************************************************************************)
(* ReserveController.sol over the vaults it creates and one fixed-supply   *)
(* token.                                                                  *)
(*                                                                         *)
(* The token is the repository's own (OpenZeppelin ERC-20: exact, without  *)
(* hooks), so a transaction is one step; GrantVault treats other tokens.   *)
(* A vault is its grant and the tokens it holds.  Who may call what is a   *)
(* guard on a fixed caller in the contracts and is left out: every action  *)
(* stands for the call of its one authorized caller.                       *)
(***************************************************************************)
EXTENDS GrantAccounting, RollingWindow, FiniteSetsExt

CONSTANTS Proposals,      \* terms commit() is called with
          Schedules,      \* the <<start, cliff, end>> GrantCalendar accepts
          Beneficiaries,  \* whom grants are proposed for
          PURPOSE, ROLLING_CAP, PER_GRANT_CAP, WINDOW,
          INITIAL_SUPPLY,
          MaxVaults       \* bound: how many vaults are created

\* The constructor's policy check.
ASSUME PolicyAssumption ==
  /\ Proposals \subseteq Terms /\ PURPOSE \in Purposes
  /\ PER_GRANT_CAP \in Nat \ {0} /\ ROLLING_CAP \in Nat /\ PER_GRANT_CAP <= ROLLING_CAP
  /\ WINDOW \in Nat \ {0} /\ INITIAL_SUPPLY \in Amount /\ MaxVaults \in Nat

\* commit() refuses the reserve and the token, a vault the zero address.
RefusedBeneficiaries == {"reserve", "token", "address(0)"}

VARIABLES now,          \* block.timestamp
          commitments,  \* _commitments
          vaults,       \* the vaults, in order of creation
          bal,          \* tokens of the reserve and of everybody else
          committed     \* history: gross commitments up to each block time

vars == <<now, commitments, vaults, bal, committed>>

Init ==
  /\ now = 0 /\ commitments = <<>> /\ vaults = <<>>
  /\ bal = [reserve |-> 0, others |-> INITIAL_SUPPLY]
  /\ committed = [t \in Time |-> 0]

----------------------------------------------------------------------------

rollingCommitted == RollingTotal(commitments, now, WINDOW)

\* Slip: the cap is compared with what the vaults still hold.
HeldWithinCaps(amount) ==
  /\ amount <= PER_GRANT_CAP
  /\ amount <= ROLLING_CAP - FoldSet(LAMBDA i, sum : vaults[i].held + sum, 0, DOMAIN vaults)

WithinCaps(amount) == amount <= PER_GRANT_CAP /\ amount <= ROLLING_CAP - rollingCommitted

\* commit(): create, fund and account for one grant, or nothing at all.
Commit(beneficiary, terms) ==
  /\ Len(vaults) < MaxVaults
  /\ terms.kind = "TeamService" /\ terms.originalPurpose = PURPOSE
  /\ beneficiary \notin RefusedBeneficiaries
  /\ <<terms.start, terms.cliff, terms.end>> \in Schedules
  /\ WithinCaps(terms.allocation)
  /\ terms.start >= now /\ InitializeAllowed(EmptyGrant, terms)
  /\ terms.allocation <= bal.reserve
  /\ commitments' = Record(commitments, now, terms.allocation)
  /\ vaults' = Append(vaults, [grant |-> initialize(EmptyGrant, terms), held |-> terms.allocation])
  /\ bal' = [bal EXCEPT !.reserve = @ - terms.allocation]
  /\ committed' = Since(committed, now, terms.allocation)
  /\ UNCHANGED now

\* release() of the i-th vault.
Release(i) ==
  LET g == vaults[i].grant
      amount == available(g, now)
  IN  /\ ReleaseAllowed(g, now, amount) /\ amount <= vaults[i].held
      /\ vaults' = [vaults EXCEPT ![i] = [grant |-> release(g, now, amount),
                                            held  |-> @.held - amount]]
      /\ bal' = [bal EXCEPT !.others = @ + amount]
      /\ UNCHANGED <<now, commitments, committed>>

\* cancel() of the i-th vault: what has not vested returns to the reserve.
Cancel(i) ==
  LET g == vaults[i].grant
      amount == refund(g, now)
  IN  /\ CancelAllowed(g, now) /\ amount <= vaults[i].held
      /\ vaults' = [vaults EXCEPT ![i] = [grant |-> cancel(g, now), held |-> @.held - amount]]
      /\ bal' = [bal EXCEPT !.reserve = @ + amount]
      /\ UNCHANGED <<now, commitments, committed>>

\* Inventory reaches the reserve; only commitments take it out again.
Supply(amount) ==
  /\ amount <= bal.others
  /\ bal' = [reserve |-> bal.reserve + amount, others |-> bal.others - amount]
  /\ UNCHANGED <<now, commitments, vaults, committed>>

Tick ==
  /\ now < MaxTime
  /\ now' = now + 1
  /\ UNCHANGED <<commitments, vaults, bal, committed>>

Next ==
  \/ \E b \in Beneficiaries, terms \in Proposals : Commit(b, terms)
  \/ \E i \in DOMAIN vaults : Release(i) \/ Cancel(i)
  \/ \E terms \in Proposals : Supply(terms.allocation)
  \/ Tick

Spec == Init /\ [][Next]_vars

----------------------------------------------------------------------------
(* Properties.                                                             *)

\* In every window of WINDOW, wherever it starts, gross commitments stay within
\* the cap; refunds of cancelled grants make no room.  rollingCommitted() is
\* exactly those commitments, now and at every later time: the cap neither leaks
\* nor stays used up (58-106).
EveryWindowWithinCap ==
  /\ \A t \in Time : Moved(committed, t, WINDOW) <= ROLLING_CAP
  /\ \A t \in now .. MaxTime : RollingTotal(commitments, t, WINDOW) = Moved(committed, t, WINDOW)

\* Every vault holds to the token what its grant still owes, whatever happened
\* to it and to the others, and no token is made or lost (58-88).
Conservation ==
  /\ \A i \in DOMAIN vaults :
       LET g == vaults[i].grant
       IN  vaults[i].held = (IF g.cancelled THEN g.frozenEntitlement ELSE g.terms.allocation)
                            - g.released
  /\ bal.reserve + bal.others
     + FoldSet(LAMBDA i, sum : vaults[i].held + sum, 0, DOMAIN vaults) = INITIAL_SUPPLY
=============================================================================
