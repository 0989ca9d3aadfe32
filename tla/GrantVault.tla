----------------------------- MODULE GrantVault -----------------------------
(***************************************************************************)
(* One GrantVault.sol between its token, reserve, beneficiary and          *)
(* controller.                                                             *)
(*                                                                         *)
(* A transaction is not one step: fund, release and cancel hand control to *)
(* the token in the middle, and a token may run anybody's code before and  *)
(* after it moves balances.  A call in progress is a frame; the frame      *)
(* keeps what the EVM restores when the call reverts.  The token (external *)
(* to the repository, bound at construction and checked only for having    *)
(* code) moves balances only on transfer and transferFrom, but may keep a  *)
(* fee, may return false after or without moving, and may revert.          *)
(*                                                                         *)
(* Time stands still inside a transaction and is otherwise arbitrary; the  *)
(* last instant, MaxTime + 1, no longer fits a uint64.                     *)
(***************************************************************************)
EXTENDS GrantAccounting, Sequences

CONSTANTS Proposals,  \* the terms constructors are called with
          Accounts,   \* token holders; "vault" is the contract itself
          TokenSupply,  \* tokens in existence
          MaxFee,     \* bound: the largest fee the token keeps
          MaxGift,    \* bound: the most one outside transfer moves
          MaxDepth    \* bound: how many vault calls may nest

Zero == "address(0)"

\* What GrantReserves assumes of the constants.
BindingAssumption ==
  /\ Proposals \subseteq Terms
  /\ "vault" \in Accounts /\ "elsewhere" \in Accounts /\ Zero \notin Accounts
  /\ TokenSupply \in Amount /\ MaxFee \in Nat
  /\ MaxGift \in Nat /\ MaxDepth \in Nat

VARIABLES now,    \* block.timestamp
          vault,  \* the contract's storage and immutables
          bal,    \* TOKEN.balanceOf
          flow,   \* history: what the receiving side of each call gained during it
          frames  \* the vault calls in progress, outermost first

vars == <<now, vault, bal, flow, frames>>

NoVault == [deployed |-> FALSE, beneficiary |-> Zero, originalReserve |-> Zero,
            grant |-> EmptyGrant, funded |-> FALSE, entered |-> FALSE]

NoFlow == [deposited |-> 0, paid |-> 0, returned |-> 0]

Init ==
  /\ now \in Time
  /\ vault = NoVault /\ flow = NoFlow /\ frames = <<>>
  /\ \E a \in Accounts \ {"vault"} : bal = [b \in Accounts |-> IF b = a THEN TokenSupply ELSE 0]

----------------------------------------------------------------------------
(* Calls.                                                                  *)

\* _currentTime() reverts outside uint64.
_currentTime == now \in Time

\* Slip: the guard of a one-shot check instead of a lock.
NoLock == vault.deployed

nonReentrant == vault.deployed /\ ~ vault.entered

\* Slip: an earlier token balance may be above the later one.
AtLeastMoved(before, after, amount) ==
  after.from + amount >= before.from /\ after.to + amount >= before.to

_requireMovement(before, after, amount) ==
  /\ after.from <= before.from /\ before.from - after.from = amount
  /\ after.to >= before.to /\ after.to - before.to = amount

Balances(from, to) == [from |-> bal[from], to |-> bal[to]]

\* Entering a call: what a revert restores, and the two balances read before
\* the token is called.
Call(leg, from, to, amount, storage) ==
  /\ Len(frames) < MaxDepth
  /\ frames' = Append(frames, [leg |-> leg, from |-> from, to |-> to, amount |-> amount,
                               before |-> Balances(from, to), moved |-> FALSE, ok |-> FALSE,
                               saved |-> [vault |-> vault, bal |-> bal, flow |-> flow]])
  /\ vault' = [storage EXCEPT !.entered = TRUE]
  /\ UNCHANGED <<now, bal, flow>>

Top == frames[Len(frames)]
Pop == SubSeq(frames, 1, Len(frames) - 1)

\* The constructor.  Bindings to the zero address or to the vault are refused.
Construct(beneficiary, originalReserve, terms) ==
  /\ frames = <<>> /\ ~ vault.deployed
  /\ beneficiary \notin {Zero, "vault"} /\ originalReserve \notin {Zero, "vault"}
  /\ _currentTime /\ terms.start >= now
  /\ InitializeAllowed(EmptyGrant, terms)
  /\ vault' = [NoVault EXCEPT !.deployed = TRUE, !.beneficiary = beneficiary,
                              !.originalReserve = originalReserve,
                              !.grant = initialize(EmptyGrant, terms)]
  /\ UNCHANGED <<now, bal, flow, frames>>

\* Slip: funding is accepted after accrual has started.
FundAnyTime ==
  /\ nonReentrant /\ ~ vault.funded /\ _currentTime
  /\ Call("deposited", vault.originalReserve, "vault", vault.grant.terms.allocation,
          [vault EXCEPT !.funded = TRUE])

\* fund(), up to the token call.
Fund ==
  /\ nonReentrant /\ ~ vault.funded
  /\ _currentTime /\ now <= vault.grant.terms.start
  /\ Call("deposited", vault.originalReserve, "vault", vault.grant.terms.allocation,
          [vault EXCEPT !.funded = TRUE])

\* release(), up to the token call.
Release ==
  LET amount == available(vault.grant, now)
  IN  /\ nonReentrant /\ vault.funded /\ _currentTime
      /\ ReleaseAllowed(vault.grant, now, amount)
      /\ Call("paid", "vault", vault.beneficiary, amount,
              [vault EXCEPT !.grant = release(vault.grant, now, amount)])

\* cancel(), up to the token call.
Cancel ==
  /\ nonReentrant /\ vault.funded /\ _currentTime
  /\ CancelAllowed(vault.grant, now) /\ refund(vault.grant, now) > 0
  /\ Call("returned", "vault", vault.originalReserve, refund(vault.grant, now),
          [vault EXCEPT !.grant = cancel(vault.grant, now)])

\* cancel() of a fully vested grant, which calls no token.
CancelVested ==
  /\ nonReentrant /\ vault.funded /\ _currentTime
  /\ CancelAllowed(vault.grant, now) /\ refund(vault.grant, now) = 0
  /\ vault' = [vault EXCEPT !.grant = cancel(vault.grant, now)]
  /\ UNCHANGED <<now, bal, flow, frames>>

Rollback ==
  /\ vault' = Top.saved.vault /\ bal' = Top.saved.bal /\ flow' = Top.saved.flow
  /\ frames' = Pop
  /\ UNCHANGED now

\* The token has returned: a false result or a wrong balance change reverts.
Finish ==
  /\ frames # <<>> /\ Top.moved
  /\ IF Top.ok /\ _requireMovement(Top.before, Balances(Top.from, Top.to), Top.amount)
       THEN /\ vault' = [vault EXCEPT !.entered = FALSE]
            /\ frames' = Pop
            /\ UNCHANGED <<now, bal, flow>>
       ELSE Rollback

----------------------------------------------------------------------------
(* The token and everybody else.                                           *)

\* Balances after one token movement; the fee goes elsewhere.
Moved(from, to, amount, fee) ==
  LET debited  == [bal EXCEPT ![from] = @ - amount]
      credited == [debited EXCEPT ![to] = @ + amount - fee]
  IN  [credited EXCEPT !["elsewhere"] = @ + fee]

\* While a call is in progress, every change of its receiver's balance counts.
Gain == IF frames = <<>> THEN flow
        ELSE [flow EXCEPT ![Top.leg] = @ + bal'[Top.to] - bal[Top.to]]

TokenMoves(fee, ok) ==
  /\ frames # <<>> /\ ~ Top.moved
  /\ bal[Top.from] >= Top.amount /\ fee <= Top.amount
  /\ bal' = Moved(Top.from, Top.to, Top.amount, fee)
  /\ flow' = Gain
  /\ frames' = [frames EXCEPT ![Len(frames)].moved = TRUE, ![Len(frames)].ok = ok]
  /\ UNCHANGED <<now, vault>>

TokenReturnsFalse ==
  /\ frames # <<>> /\ ~ Top.moved
  /\ frames' = [frames EXCEPT ![Len(frames)].moved = TRUE]
  /\ UNCHANGED <<now, vault, bal, flow>>

TokenReverts == frames # <<>> /\ ~ Top.moved /\ Rollback

\* Anyone but the vault moves tokens of their own, at rest or from a hook:
\* the vault may be sent tokens it never asked for.
Outside(from, to, amount) ==
  /\ from # "vault" /\ from # to /\ amount <= bal[from]
  /\ bal' = [bal EXCEPT ![from] = @ - amount, ![to] = @ + amount]
  /\ flow' = Gain
  /\ UNCHANGED <<now, vault, frames>>

Tick ==
  /\ frames = <<>> /\ now <= MaxTime
  /\ now' = now + 1
  /\ UNCHANGED <<vault, bal, flow, frames>>

Next ==
  \/ \E b, r \in Accounts \cup {Zero}, terms \in Proposals : Construct(b, r, terms)
  \/ Fund \/ Release \/ Cancel \/ CancelVested \/ Finish
  \/ \E fee \in 0 .. MaxFee, ok \in BOOLEAN : TokenMoves(fee, ok)
  \/ TokenReturnsFalse \/ TokenReverts
  \/ \E from, to \in Accounts, amount \in 1 .. MaxGift : Outside(from, to, amount)
  \/ Tick

Spec == Init /\ [][Next]_vars

----------------------------------------------------------------------------
(* Properties.                                                             *)

\* The state the chain would keep if the transaction in progress reverted.
Committed == IF frames = <<>> THEN [vault |-> vault, bal |-> bal, flow |-> flow]
             ELSE frames[1].saved

Parties == (Accounts \ {"vault"}) \cup {Zero}

\* Storage and balances keep their types, and no vault is bound to itself.
TypeOK ==
  /\ now \in 0 .. MaxTime + 1
  /\ vault \in [deployed : BOOLEAN, beneficiary : Parties, originalReserve : Parties, grant : Grant,
                funded : BOOLEAN, entered : BOOLEAN]
  /\ bal \in [Accounts -> Nat]
  /\ flow \in [deposited : Int, paid : Int, returned : Int]
  /\ Len(frames) <= MaxDepth

\* What is still due out of the vault for grant g.
Liability(g) == (IF g.cancelled THEN g.frozenEntitlement ELSE g.terms.allocation) - g.released

\* A funded vault can pay everything it may still be asked to pay, whatever the
\* token, its hooks and the other holders did (GrantVault.sol 80-150), and no
\* claim ever fails on the clock or on the subtraction: a vault's ledger time is
\* never in its future (156-165).
EveryClaimIsPayable ==
  LET c == Committed
  IN  /\ c.vault.funded => c.bal["vault"] >= Liability(c.vault.grant)
      /\ vault.deployed /\ now \in Time =>
           /\ _requireCurrent(vault.grant, now)
           /\ vault.grant.released <= _entitlement(vault.grant, now)

\* Recorded accounting is payment: between transactions the tokens that moved
\* are exactly the ones the storage claims, in each of the three directions.
\* The library disclaims this (GrantAccounting.sol 8); the vault establishes it.
AccountingIsPayment ==
  LET c == Committed g == c.vault.grant
  IN  /\ c.flow.deposited = IF c.vault.funded THEN g.terms.allocation ELSE 0
      /\ c.flow.paid = g.released
      /\ c.flow.returned = IF g.cancelled THEN g.terms.allocation - g.frozenEntitlement ELSE 0

\* The vault implements the promise: however calls nest, fail or are undone,
\* the committed history is one of indivisible deposits, payments and
\* revocations of tokens that really moved.
Promise == INSTANCE VestingPromise WITH
  clock     <- now,
  terms     <- Committed.vault.grant.terms,
  agreed    <- Committed.vault.deployed,
  deposited <- Committed.flow.deposited,
  paid      <- Committed.flow.paid,
  returned  <- Committed.flow.returned,
  revoked   <- Committed.vault.grant.cancelled

ImplementsPromise == Promise!Spec
=============================================================================
