--------------------------- MODULE VestingPromise ---------------------------
(***************************************************************************)
(* What a grant vault promises to the three parties it is bound to, with   *)
(* no contract, token or call stack in sight: a reserve deposits the whole *)
(* allocation once and before accrual starts, the beneficiary is paid what *)
(* has vested and never anything else, and a revocation of a team grant    *)
(* hands back exactly what has not vested at that instant.                 *)
(*                                                                         *)
(* The amounts are tokens that really changed hands, not ledger entries.   *)
(***************************************************************************)
EXTENDS Integers

VARIABLES clock,      \* block.timestamp
          terms,      \* the terms agreed on; agreed = FALSE: none yet
          agreed,
          deposited,  \* from the reserve to the vault
          paid,       \* from the vault to the beneficiary
          returned,   \* from the vault to the reserve
          revoked     \* whether the grant has been revoked

promise == <<clock, terms, agreed, deposited, paid, returned, revoked>>

\* floor(A * x / d) clamped to the accrual interval, by its defining formula.
Vested(t) ==
  IF t <= terms.cliff THEN 0
  ELSE IF t >= terms.end THEN terms.allocation
  ELSE (terms.allocation * (t - terms.cliff)) \div (terms.end - terms.cliff)

\* After a revocation the rest of the allocation stays owed, and nothing more.
Owed == IF revoked THEN terms.allocation - returned ELSE Vested(clock)

Init ==
  /\ clock \in Nat /\ ~ agreed
  /\ deposited = 0 /\ paid = 0 /\ returned = 0 /\ ~ revoked

Agree ==
  /\ ~ agreed /\ agreed'
  /\ clock <= terms'.start /\ terms'.start < terms'.cliff /\ terms'.cliff < terms'.end
  /\ terms'.allocation > 0
  /\ UNCHANGED <<clock, deposited, paid, returned, revoked>>

Deposit ==
  /\ agreed /\ deposited = 0 /\ clock <= terms.start
  /\ deposited' = terms.allocation
  /\ UNCHANGED <<clock, terms, agreed, paid, returned, revoked>>

Pay ==
  /\ deposited # 0 /\ paid < Owed
  /\ paid' = Owed
  /\ UNCHANGED <<clock, terms, agreed, deposited, returned, revoked>>

Revoke ==
  /\ deposited # 0 /\ ~ revoked /\ terms.kind # "Founder"
  /\ revoked'
  /\ returned' = terms.allocation - Vested(clock)
  /\ UNCHANGED <<clock, terms, agreed, deposited, paid>>

Elapse ==
  /\ clock' > clock
  /\ UNCHANGED <<terms, agreed, deposited, paid, returned, revoked>>

Next == Agree \/ Deposit \/ Pay \/ Revoke \/ Elapse

Spec == Init /\ [][Next]_promise
=============================================================================
