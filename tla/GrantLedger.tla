----------------------------- MODULE GrantLedger -----------------------------
(***************************************************************************)
(* The accounting library driven by an arbitrary wrapper: the times it is  *)
(* given need not advance and releases may be partial, so that only the    *)
(* library's own checks stand between a caller and a broken ledger.        *)
(***************************************************************************)
EXTENDS GrantAccounting

CONSTANT Proposals   \* the terms a wrapper may try to initialize with

ASSUME ProposalsAssumption == Proposals \subseteq Terms

VARIABLES grant,     \* the wrapper's one Grant storage slot
          refunded   \* history: refunds cancel() has instructed so far

vars == <<grant, refunded>>

Init == grant = EmptyGrant /\ refunded = 0

Initialize(terms) ==
  /\ InitializeAllowed(grant, terms)
  /\ grant' = initialize(grant, terms)
  /\ UNCHANGED refunded

Release(time, amount) ==
  /\ ReleaseAllowed(grant, time, amount)
  /\ grant' = release(grant, time, amount)
  /\ UNCHANGED refunded

Cancel(time) ==
  /\ CancelAllowed(grant, time)
  /\ grant' = cancel(grant, time)
  /\ refunded' = refunded + refund(grant, time)

Next ==
  \/ \E terms \in Proposals : Initialize(terms)
  \/ \E time \in Time, amount \in Amount : Release(time, amount)
  \/ \E time \in Time : Cancel(time)

Spec == Init /\ [][Next]_vars

----------------------------------------------------------------------------

\* Both variables have the types of the Solidity declarations.
TypeOK == grant \in Grant /\ refunded \in Amount

\* The subtraction of available() and release() (GrantAccounting.sol 75, 81)
\* never underflows: at no time the library accepts is more released than the
\* entitlement, so no accepted history of calls can block a later claim.
ClaimNeverUnderflows ==
  \A t \in Time : _requireCurrent(grant, t) => grant.released <= _entitlement(grant, t)

\* The allocation is never paid out twice (94-108): releases and the one
\* refund together stay within it, and once cancelled, what may still be
\* released and what was refunded are exactly the allocation.
AllocationSplit ==
  /\ grant.released + refunded <= grant.terms.allocation
  /\ grant.cancelled => grant.frozenEntitlement + refunded = grant.terms.allocation

\* The entitlement at the current ledger time cannot be changed by any call
\* (94-108): a transition at time c leaves the entitlement of every later time
\* as it was, or freezes it at the value it has at c.
EntitlementOnlyFreezes ==
  [][grant.initialized =>
       \A t \in Time :
         t >= grant'.lastTransition =>
           _entitlement(grant', t) \in
             {_entitlement(grant, t), _entitlement(grant, grant'.lastTransition)}]_vars
=============================================================================
