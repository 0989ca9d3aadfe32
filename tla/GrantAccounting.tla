--------------------------- MODULE GrantAccounting ---------------------------
(***************************************************************************)
(* The grant accounting library of contributor-grants/GrantAccounting.sol: *)
(* a grant is a record, every internal function an operator on it.  A call *)
(* that the library reverts is a call whose guard (the ...Allowed          *)
(* operators) is false.  Definitions marked "Slip" are plausible mistakes;  *)
(* no other definition uses them.                                          *)
(*                                                                         *)
(* uint256 and uint64 keep their width as MaxAmount and MaxTime.  All the  *)
(* library needs of the two widths is that the product of two timestamps   *)
(* fits an amount, which (2^64 - 1)^2 <= 2^256 - 1 gives.                  *)
(***************************************************************************)
EXTENDS Integers

CONSTANTS MaxAmount,  \* type(uint256).max
          MaxTime,    \* type(uint64).max
          Purposes    \* the non-zero bytes32 purposes in use

ASSUME WidthAssumption == /\ MaxTime \in Nat
                          /\ MaxAmount \in Nat
                          /\ MaxTime * MaxTime <= MaxAmount

Amount == 0 .. MaxAmount
Time   == 0 .. MaxTime

Kind == {"Founder", "TeamService"}

\* bytes32(0), which no purpose in use equals.
NoPurpose == "bytes32(0)"

Terms == [allocation : Amount, start : Time, cliff : Time, end : Time,
          kind : Kind, originalPurpose : Purposes \cup {NoPurpose}]

Grant == [terms : Terms, released : Amount, frozenEntitlement : Amount,
          lastTransition : Time, initialized : BOOLEAN, cancelled : BOOLEAN]

\* Zeroed storage.
EmptyGrant ==
  [terms |-> [allocation |-> 0, start |-> 0, cliff |-> 0, end |-> 0,
              kind |-> "Founder", originalPurpose |-> NoPurpose],
   released |-> 0, frozenEntitlement |-> 0, lastTransition |-> 0,
   initialized |-> FALSE, cancelled |-> FALSE]

----------------------------------------------------------------------------
(* The vesting curve.  It is floor(A * x / d) computed without ever forming *)
(* A * x, whose width a uint256 does not have.                              *)

QuotientPart(a, d, x)     == (a \div d) * x
RemainderProduct(a, d, x) == (a % d) * x

\* Slip: the remainder's share is dropped.
AccruedWithoutRemainder(a, d, x) == QuotientPart(a, d, x)

Accrued(a, d, x) == QuotientPart(a, d, x) + RemainderProduct(a, d, x) \div d

_curve(terms, time) ==
  IF time <= terms.cliff THEN 0
  ELSE IF time >= terms.end THEN terms.allocation
  ELSE Accrued(terms.allocation, terms.end - terms.cliff, time - terms.cliff)

_validate(terms) ==
  /\ terms.allocation # 0
  /\ terms.originalPurpose # NoPurpose
  /\ terms.start < terms.cliff
  /\ terms.cliff < terms.end

----------------------------------------------------------------------------
(* The ledger operations.                                                  *)

\* Slip: the time is not compared with the last transition.
RequireInitializedOnly(self, time) == self.initialized

_requireCurrent(self, time) == self.initialized /\ time >= self.lastTransition

_entitlement(self, time) ==
  IF self.cancelled THEN self.frozenEntitlement ELSE _curve(self.terms, time)

\* What available() and release() subtract; a negative value would be the
\* checked-arithmetic panic that blocks the claim.
available(self, time) == _entitlement(self, time) - self.released

\* Slip: a grant may be initialized again.
ReinitializeAllowed(self, terms) == _validate(terms)

InitializeAllowed(self, terms) == ~ self.initialized /\ _validate(terms)

initialize(self, terms) ==
  [self EXCEPT !.terms = terms, !.initialized = TRUE, !.lastTransition = 0]

ReleaseAllowed(self, time, amount) ==
  /\ _requireCurrent(self, time)
  /\ amount # 0
  /\ amount <= available(self, time)

release(self, time, amount) ==
  [self EXCEPT !.released = @ + amount, !.lastTransition = time]

CancelAllowed(self, time) ==
  /\ self.initialized
  /\ self.terms.kind # "Founder"
  /\ ~ self.cancelled
  /\ time >= self.lastTransition

cancel(self, time) ==
  [self EXCEPT !.frozenEntitlement = _curve(self.terms, time),
               !.cancelled = TRUE, !.lastTransition = time]

\* Slip: the refund is taken from what was released.
RefundOfUnreleased(self, time) == self.terms.allocation - self.released

\* The first value cancel() returns: allocation less vested, never less released.
refund(self, time) == self.terms.allocation - _curve(self.terms, time)
=============================================================================
