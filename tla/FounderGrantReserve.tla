------------------------- MODULE FounderGrantReserve -------------------------
(***************************************************************************)
(* FounderGrantReserve.sol with the one vault its constructor creates: the *)
(* founder's three percent, funded by anybody's call, once, by the start   *)
(* of accrual, if the inventory is there by then.                          *)
(*                                                                         *)
(* The token is the repository's own, so a transaction is one step.  The   *)
(* controller of the vault is the attempted canceller.                     *)
(***************************************************************************)
EXTENDS GrantAccounting

CONSTANTS Proposals,   \* terms the constructor is called with
          Schedules,   \* the <<start, cliff, end>> GrantCalendar accepts
          Supplies,    \* the token's INITIAL_SUPPLY
          Deliveries   \* amounts sent to the reserve

\* The types of the arguments.
ArgumentsTyped == Proposals \subseteq Terms /\ Supplies \subseteq Amount /\ Deliveries \subseteq Amount

VARIABLES now,         \* block.timestamp
          supply,      \* TOKEN.INITIAL_SUPPLY()
          grant,       \* VAULT's grant; not initialized: nothing deployed yet
          funded,      \* VAULT.funded
          reserve,     \* tokens of the reserve, of the vault and of the founder
          held,
          founder

vars == <<now, supply, grant, funded, reserve, held, founder>>

Init ==
  /\ now \in Time /\ supply \in Supplies
  /\ grant = EmptyGrant /\ funded = FALSE
  /\ reserve = 0 /\ held = 0 /\ founder = 0

\* Slip: three percent are rounded down.
ThreePercentRounded(terms) == supply # 0 /\ terms.allocation = (supply * 3) \div 100

ThreePercent(terms) ==
  supply # 0 /\ supply % 100 = 0 /\ terms.allocation = (supply \div 100) * 3

\* The constructor, and the vault's.
Construct(terms, sameController) ==
  /\ ~ sameController
  /\ ThreePercent(terms) /\ terms.kind = "Founder"
  /\ <<terms.start, terms.cliff, terms.end>> \in Schedules
  /\ terms.start >= now /\ InitializeAllowed(grant, terms)
  /\ grant' = initialize(grant, terms)
  /\ UNCHANGED <<now, supply, funded, reserve, held, founder>>

\* fund(): approve the allocation, pull it, revoke the approval, which leaves no
\* allowance behind.  The vault reverts a second time
\* or once accrual has started, the token when the inventory does not suffice.
Fund ==
  /\ grant.initialized /\ ~ funded
  /\ now <= grant.terms.start
  /\ grant.terms.allocation <= reserve
  /\ funded' = TRUE
  /\ reserve' = reserve - grant.terms.allocation /\ held' = held + grant.terms.allocation
  /\ UNCHANGED <<now, supply, grant, founder>>

Release ==
  LET amount == available(grant, now)
  IN  /\ funded /\ ReleaseAllowed(grant, now, amount) /\ amount <= held
      /\ grant' = release(grant, now, amount)
      /\ held' = held - amount /\ founder' = founder + amount
      /\ UNCHANGED <<now, supply, funded, reserve>>

\* The controller tries to cancel: without effect when the call reverts.
Cancel ==
  LET amount == refund(grant, now)
  IN  /\ funded
      /\ IF CancelAllowed(grant, now) /\ amount <= held
           THEN /\ grant' = cancel(grant, now)
                /\ held' = held - amount /\ reserve' = reserve + amount
                /\ UNCHANGED <<now, supply, funded, founder>>
           ELSE UNCHANGED vars

\* Anybody sends tokens to the reserve.
Deliver(amount) ==
  /\ reserve + held + founder + amount <= supply
  /\ reserve' = reserve + amount
  /\ UNCHANGED <<now, supply, grant, funded, held, founder>>

Tick ==
  /\ now < MaxTime
  /\ now' = now + 1
  /\ UNCHANGED <<supply, grant, funded, reserve, held, founder>>

Next ==
  \/ \E terms \in Proposals, same \in BOOLEAN : Construct(terms, same)
  \/ Fund \/ Release \/ Cancel
  \/ \E amount \in Deliveries : Deliver(amount)
  \/ Tick

Spec == Init /\ [][Next]_vars

----------------------------------------------------------------------------
(* Properties.                                                             *)

\* Once funded, the founder holds or is held for exactly three percent of the
\* supply, at every later time: no rounding, no second funding, and nothing
\* the controller can take back (26-44).
FounderHasThreePercent ==
  100 * (held + founder) = IF funded THEN 3 * supply ELSE 0

\* A funded reserve pays what has accrued at any time, the whole when accrual
\* has ended, in whatever instalments it was claimed before (39-44).
AccruedIsPayable ==
  funded => /\ 0 <= available(grant, now) /\ available(grant, now) <= held
            /\ now >= grant.terms.end => available(grant, now) = held

\* What the founder's reserve promises, in one piece.
FounderIsPaid == FounderHasThreePercent /\ AccruedIsPayable
=============================================================================
