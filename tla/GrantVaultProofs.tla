-------------------------- MODULE GrantVaultProofs --------------------------
(***************************************************************************)
(* The safety of the grant vault and its refinement of VestingPromise, for *)
(* every width, every set of terms, holders, fees and gifts, and any depth *)
(* of nested calls.                                                        *)
(*                                                                         *)
(* None of the vault's properties is inductive: in the middle of a call    *)
(* the storage already claims tokens that have not moved, and the token    *)
(* may run anybody's code.  VaultInv says what a state is instead: settled *)
(* between transactions, or one call away from a settled state that the    *)
(* call's frame remembers, with storage, history and the call's arguments  *)
(* determined by that state.                                               *)
(***************************************************************************)
EXTENDS GrantVault, CurveProofs, SequenceTheorems

Storage == [deployed : BOOLEAN, beneficiary : Parties, originalReserve : Parties, grant : Grant,
            funded : BOOLEAN, entered : BOOLEAN]

Flows == [deposited : Int, paid : Int, returned : Int]

Frame == [leg : {"deposited", "paid", "returned"}, from : Accounts, to : Accounts, amount : Amount,
          before : [from : Nat, to : Nat], moved : BOOLEAN, ok : BOOLEAN,
          saved : [vault : Storage, bal : [Accounts -> Nat], flow : Flows]]

\* A vault that is not deployed is untouched; a deployed one has a sound grant
\* and is bound to two holders; only a funded one has paid or been cancelled.
Sane(v, time) ==
  /\ v \in Storage /\ ~ v.entered
  /\ ~ v.deployed => v = NoVault
  /\ v.deployed => /\ Sound(v.grant) /\ v.grant.lastTransition <= time
                   /\ v.beneficiary \in Accounts \ {"vault"}
                   /\ v.originalReserve \in Accounts \ {"vault"}
  /\ v.funded => v.deployed
  /\ ~ v.funded => v.grant.released = 0 /\ ~ v.grant.cancelled

\* The tokens that moved are the ones the storage v claims.
Accounted(v, f) ==
  /\ f \in Flows
  /\ f.deposited = IF v.funded THEN v.grant.terms.allocation ELSE 0
  /\ f.paid = v.grant.released
  /\ f.returned = IF v.grant.cancelled THEN v.grant.terms.allocation - v.grant.frozenEntitlement ELSE 0

\* Storage, balances and history between two transactions.
Settled(c, time) ==
  /\ Sane(c.vault, time) /\ Accounted(c.vault, c.flow)
  /\ c.bal \in [Accounts -> Nat]
  /\ c.vault.funded => c.bal["vault"] >= Liability(c.vault.grant)

\* What fund, release and cancel have done, from a settled storage v, before
\* the token is called by frame F.
Funding(v, F) ==
  /\ F.leg = "deposited" /\ F.from = v.originalReserve /\ F.to = "vault"
  /\ ~ v.funded /\ now <= v.grant.terms.start
  /\ F.amount = v.grant.terms.allocation
  /\ vault = [v EXCEPT !.funded = TRUE, !.entered = TRUE]

Releasing(v, F) ==
  /\ F.leg = "paid" /\ F.from = "vault" /\ F.to = v.beneficiary
  /\ v.funded /\ F.amount = available(v.grant, now) /\ ReleaseAllowed(v.grant, now, F.amount)
  /\ vault = [v EXCEPT !.grant = release(v.grant, now, F.amount), !.entered = TRUE]

Cancelling(v, F) ==
  /\ F.leg = "returned" /\ F.from = "vault" /\ F.to = v.originalReserve
  /\ v.funded /\ F.amount = refund(v.grant, now) /\ CancelAllowed(v.grant, now)
  /\ vault = [v EXCEPT !.grant = cancel(v.grant, now), !.entered = TRUE]

\* A call in progress.
InCall(F) ==
  /\ F \in Frame /\ now \in Time
  /\ Settled(F.saved, now) /\ F.saved.vault.deployed
  /\ Funding(F.saved.vault, F) \/ Releasing(F.saved.vault, F) \/ Cancelling(F.saved.vault, F)
  /\ F.before = [from |-> F.saved.bal[F.from], to |-> F.saved.bal[F.to]]
  /\ flow = [F.saved.flow EXCEPT ![F.leg] = @ + bal[F.to] - F.saved.bal[F.to]]
  /\ bal \in [Accounts -> Nat]

AtRest == frames = <<>> /\ Settled([vault |-> vault, bal |-> bal, flow |-> flow], now)

Calling == frames = <<frames[1]>> /\ MaxDepth >= 1 /\ InCall(frames[1])

VaultInv == now \in 0 .. MaxTime + 1 /\ (AtRest \/ Calling)
----------------------------------------------------------------------------
(* Lemmas.                                                                  *)

\* One frame as a sequence: the call stack is never deeper.
LEMMA OneFrame ==
  ASSUME NEW f
  PROVE  /\ Len(<<f>>) = 1 /\ <<f>>[1] = f /\ <<f>> # <<>>
         /\ SubSeq(<<f>>, 1, 0) = <<>>
         /\ Append(<<>>, f) = <<f>>
         /\ \A g : [<<f>> EXCEPT ![1] = g] = <<g>>
  OBVIOUS

\* The widths, and what fund and release claim: the liability of a sound grant
\* is an amount.
LEMMA LiabilityIsAmount ==
  ASSUME NEW g, Sound(g)
  PROVE  Liability(g) \in Amount /\ g.released \in Amount /\ g.terms.allocation \in Amount
  <1>1. g \in Grant /\ g.lastTransition \in Time
    BY DEF Sound, Grant
  <1>2. /\ _entitlement(g, g.lastTransition) \in Amount
        /\ _entitlement(g, g.lastTransition) <= g.terms.allocation
        /\ g.released <= _entitlement(g, g.lastTransition)
    <2>1. g.lastTransition >= g.lastTransition
      BY <1>1, WidthAssumption DEF Time
    <2> QED BY <1>1, <2>1, SoundCovers
  <1>3. g.terms.allocation \in Amount /\ g.released \in Amount /\ g.frozenEntitlement \in Amount
    BY <1>1 DEF Grant, Terms
  <1> QED BY <1>2, <1>3, WidthAssumption DEF Liability, Amount, _entitlement

\* The frame of a call that has just started from a settled state.
Entered(F, leg, from, to, amount, storage) ==
  /\ frames' = <<F>> /\ MaxDepth >= 1
  /\ F.leg = leg /\ F.from = from /\ F.to = to /\ F.amount = amount
  /\ F.saved.vault = vault /\ Settled(F.saved, now)
  /\ F.before = [from |-> F.saved.bal[F.from], to |-> F.saved.bal[F.to]]
  /\ flow' = [F.saved.flow EXCEPT ![F.leg] = @ + bal'[F.to] - F.saved.bal[F.to]]
  /\ bal' \in [Accounts -> Nat]
  /\ now' = now
  /\ vault' = [storage EXCEPT !.entered = TRUE]

\* A call that starts leaves the settled state in its frame.
LEMMA CallEnters ==
  ASSUME BindingAssumption, AtRest, now \in Time, vault.deployed,
         NEW leg \in {"deposited", "paid", "returned"}, NEW from \in Accounts, NEW to \in Accounts,
         NEW amount \in Amount, NEW storage, Call(leg, from, to, amount, storage)
  PROVE  \E F \in Frame : Entered(F, leg, from, to, amount, storage)
  <1> DEFINE c == [vault |-> vault, bal |-> bal, flow |-> flow]
             F == [leg |-> leg, from |-> from, to |-> to, amount |-> amount,
                   before |-> Balances(from, to), moved |-> FALSE, ok |-> FALSE, saved |-> c]
  <1>1. frames = <<>> /\ Settled(c, now)
    BY DEF AtRest
  <1>2. /\ vault \in Storage /\ bal \in [Accounts -> Nat] /\ flow \in Flows
    BY <1>1 DEF Settled, Sane, Accounted
  <1>3. bal[from] \in Nat /\ bal[to] \in Nat
    BY <1>2
  <1>4. F \in Frame
    BY <1>2, <1>3 DEF Frame, Balances
  <1>5. frames' = <<F>>
    BY <1>1, OneFrame DEF Call
  <1>6. MaxDepth >= 1
    BY <1>1, Len(frames) = 0 DEF Call, BindingAssumption
  <1>7. flow' = [flow EXCEPT ![leg] = @ + bal'[to] - bal[to]]
    <2>1. flow' = flow /\ bal' = bal
      BY DEF Call
    <2>2. flow[leg] + bal[to] - bal[to] = flow[leg]
      BY <1>2, <1>3 DEF Flows
    <2> QED BY <1>2, <2>1, <2>2 DEF Flows
  <1>8. /\ bal' = bal /\ now' = now /\ vault' = [storage EXCEPT !.entered = TRUE]
    BY DEF Call
  <1>9. F.before = [from |-> F.saved.bal[F.from], to |-> F.saved.bal[F.to]]
    BY DEF Balances
  <1>10. Entered(F, leg, from, to, amount, storage)
    BY <1>1, <1>2, <1>5, <1>6, <1>7, <1>8, <1>9 DEF Entered
  <1> QED BY <1>4, <1>10

\* In the middle of a call the storage is locked, typed and already holds the
\* grant the call leaves, which is sound.
LEMMA InsideIsSound ==
  ASSUME NEW F, InCall(F)
  PROVE  /\ vault \in Storage /\ vault.deployed /\ vault.entered /\ flow \in Flows
         /\ Sound(vault.grant) /\ vault.grant.lastTransition <= now
  <1> DEFINE v == F.saved.vault
  <1>1. /\ v \in Storage /\ v.deployed /\ Sound(v.grant) /\ v.grant.lastTransition <= now
        /\ F.saved.flow \in Flows /\ F.saved.bal \in [Accounts -> Nat] /\ now \in Time
    BY DEF InCall, Settled, Sane, Accounted
  <1>2. flow \in Flows
    <2>1. F.leg \in {"deposited", "paid", "returned"} /\ F.to \in Accounts
      BY DEF InCall, Frame
    <2>2. bal[F.to] \in Nat /\ F.saved.bal[F.to] \in Nat
      BY <1>1, <2>1 DEF InCall
    <2>3. F.saved.flow[F.leg] + bal[F.to] - F.saved.bal[F.to] \in Int
      BY <1>1, <2>1, <2>2 DEF Flows
    <2>4. flow = [F.saved.flow EXCEPT ![F.leg] = F.saved.flow[F.leg] + bal[F.to] - F.saved.bal[F.to]]
      BY DEF InCall
    <2> QED BY <1>1, <2>1, <2>3, <2>4 DEF Flows
  <1>3. now <= now
    BY <1>1, WidthAssumption DEF Time
  <1> HIDE DEF v
  <1>4. CASE Funding(v, F)
    BY <1>1, <1>2, <1>4 DEF Funding, Storage
  <1>5. CASE Releasing(v, F)
    <2>1. F.amount \in Nat
      BY WidthAssumption DEF InCall, Frame, Amount
    <2>2. /\ Sound(release(v.grant, now, F.amount))
          /\ release(v.grant, now, F.amount).lastTransition = now
      BY <1>1, <1>5, <2>1, ReleaseSound DEF Releasing
    <2>3. release(v.grant, now, F.amount) \in Grant
      BY <2>2 DEF Sound
    <2> QED BY <1>1, <1>2, <1>3, <1>5, <2>2, <2>3 DEF Releasing, Storage
  <1>6. CASE Cancelling(v, F)
    <2>2. Sound(cancel(v.grant, now)) /\ cancel(v.grant, now).lastTransition = now
      BY <1>1, <1>6, CancelSound DEF Cancelling
    <2>3. cancel(v.grant, now) \in Grant
      BY <2>2 DEF Sound
    <2> QED BY <1>1, <1>2, <1>3, <1>6, <2>2, <2>3 DEF Cancelling, Storage
  <1> QED BY <1>4, <1>5, <1>6 DEF InCall, v

----------------------------------------------------------------------------
(* The steps of the invariant.                                             *)

\* Zeroed storage, no call in progress and the supply in one holder's hands.
LEMMA InitSettled ==
  ASSUME BindingAssumption, Init
  PROVE  VaultInv
  <1>1. NoVault \in Storage /\ NoFlow \in Flows
    BY EmptyGrantTyped DEF NoVault, NoFlow, Storage, Flows, Parties
  <1>2. bal \in [Accounts -> Nat]
    <2>1. PICK a \in Accounts \ {"vault"} : bal = [b \in Accounts |-> IF b = a THEN TokenSupply ELSE 0]
      BY DEF Init
    <2>2. TokenSupply \in Nat
      BY WidthAssumption DEF BindingAssumption, Amount
    <2> QED BY <2>1, <2>2
  <1>3. Settled([vault |-> vault, bal |-> bal, flow |-> flow], now)
    <2>1. /\ ~ NoVault.deployed /\ ~ NoVault.entered /\ ~ NoVault.funded
          /\ NoVault.grant.released = 0 /\ ~ NoVault.grant.cancelled
      BY DEF NoVault, EmptyGrant
    <2>2. /\ NoFlow.deposited = 0 /\ NoFlow.paid = 0 /\ NoFlow.returned = 0
      BY DEF NoFlow
    <2>3. vault = NoVault /\ flow = NoFlow
      BY DEF Init
    <2> QED BY <1>1, <1>2, <2>1, <2>2, <2>3 DEF Settled, Sane, Accounted
  <1>4. now \in 0 .. MaxTime + 1
    BY WidthAssumption DEF Init, Time
  <1> QED BY <1>3, <1>4 DEF VaultInv, AtRest, Init

\* The constructor leaves a deployed, unfunded vault.
LEMMA ConstructSettles ==
  ASSUME BindingAssumption, VaultInv,
         NEW b \in Accounts \cup {Zero}, NEW r \in Accounts \cup {Zero}, NEW terms \in Proposals,
         Construct(b, r, terms)
  PROVE  VaultInv'
  <1> DEFINE v == [NoVault EXCEPT !.deployed = TRUE, !.beneficiary = b, !.originalReserve = r,
                                  !.grant = initialize(EmptyGrant, terms)]
             g == initialize(EmptyGrant, terms)
  <1>1. /\ frames = <<>> /\ ~ vault.deployed /\ frames' = <<>> /\ now \in Time
        /\ vault' = v /\ UNCHANGED <<now, bal, flow>>
        /\ b \in Accounts \ {"vault"} /\ r \in Accounts \ {"vault"}
    BY DEF Construct, _currentTime
  <1>2. AtRest
    BY <1>1, OneFrame DEF VaultInv, Calling
  <1>3. vault = NoVault /\ flow \in Flows /\ bal \in [Accounts -> Nat] /\ Accounted(vault, flow)
    BY <1>1, <1>2 DEF AtRest, Settled, Sane, Accounted
  <1>4. /\ Sound(g) /\ g.released = 0 /\ ~ g.cancelled /\ g.lastTransition = 0
    BY InitializeSound DEF Construct, InitializeAllowed, BindingAssumption
  <1>5. g \in Grant
    BY <1>4 DEF Sound
  <1> HIDE DEF g
  <1>6. /\ v.deployed /\ v.beneficiary = b /\ v.originalReserve = r /\ v.grant = g
        /\ ~ v.funded /\ ~ v.entered
    BY DEF NoVault, g
  <1>7. v \in Storage
    BY <1>1, <1>5 DEF NoVault, Storage, Parties, g
  <1>8. flow.deposited = 0 /\ flow.paid = 0 /\ flow.returned = 0
    BY <1>3 DEF Accounted, NoVault, EmptyGrant
  <1>9. 0 <= now
    BY <1>1, WidthAssumption DEF Time
  <1> HIDE DEF v
  <1>10. Sane(v, now) /\ Accounted(v, flow)
    BY <1>1, <1>3, <1>4, <1>6, <1>7, <1>8, <1>9 DEF Sane, Accounted
  <1> QED BY <1>1, <1>3, <1>6, <1>10 DEF VaultInv, AtRest, Settled

\* A call that starts: one of the three beginnings, and the rest is CallEnters.
LEMMA StartsInCall ==
  ASSUME VaultInv, NEW F \in Frame, frames' = <<F>>, MaxDepth >= 1,
         now \in Time, now' = now, Settled(F.saved, now), F.saved.vault.deployed,
         Funding(F.saved.vault, F)' \/ Releasing(F.saved.vault, F)' \/ Cancelling(F.saved.vault, F)',
         F.before = [from |-> F.saved.bal[F.from], to |-> F.saved.bal[F.to]],
         flow' = [F.saved.flow EXCEPT ![F.leg] = @ + bal'[F.to] - F.saved.bal[F.to]],
         bal' \in [Accounts -> Nat]
  PROVE  VaultInv'
  <1>1. InCall(F)'
    BY DEF InCall
  <1>2. frames'[1] = F
    BY OneFrame
  <1>3. Calling'
    BY <1>1, <1>2 DEF Calling
  <1> QED BY <1>3 DEF VaultInv
\* fund() with the storage already marked funded.
LEMMA FundStarts ==
  ASSUME BindingAssumption, VaultInv, Fund
  PROVE  VaultInv'
  <1>1. vault.deployed /\ ~ vault.entered /\ now \in Time
    BY DEF Fund, nonReentrant, _currentTime
  <1>2. AtRest
    BY <1>1, InsideIsSound DEF VaultInv, Calling
  <1>3. /\ vault.originalReserve \in Accounts /\ "vault" \in Accounts
        /\ vault.grant.terms.allocation \in Amount
    BY <1>1, <1>2, LiabilityIsAmount DEF AtRest, Settled, Sane, BindingAssumption
  <1> DEFINE storage == [vault EXCEPT !.funded = TRUE]
  <1>4. Call("deposited", vault.originalReserve, "vault", vault.grant.terms.allocation, storage)
    BY DEF Fund
  <1>5. vault \in Storage
    BY <1>2 DEF AtRest, Settled, Sane
  <1>6. [storage EXCEPT !.entered = TRUE] = [vault EXCEPT !.funded = TRUE, !.entered = TRUE]
    OBVIOUS
  <1> HIDE DEF storage
  <1>7. PICK F \in Frame : Entered(F, "deposited", vault.originalReserve, "vault", vault.grant.terms.allocation, storage)
    BY <1>1, <1>2, <1>3, <1>4, CallEnters
  <1>8. ~ vault.funded /\ now <= vault.grant.terms.start
    BY DEF Fund
  <1>9. Funding(F.saved.vault, F)'
    BY <1>6, <1>7, <1>8 DEF Funding, Entered
  <1> QED BY <1>1, <1>7, <1>9, StartsInCall DEF Entered

\* release() with the grant already charged.
LEMMA ReleaseStarts ==
  ASSUME BindingAssumption, VaultInv, Release
  PROVE  VaultInv'
  <1> DEFINE amount == available(vault.grant, now)
             storage == [vault EXCEPT !.grant = release(vault.grant, now, amount)]
  <1>1. /\ vault.deployed /\ ~ vault.entered /\ now \in Time /\ vault.funded
        /\ ReleaseAllowed(vault.grant, now, amount)
        /\ Call("paid", "vault", vault.beneficiary, amount, storage)
    BY DEF Release, nonReentrant, _currentTime
  <1>2. AtRest
    BY <1>1, InsideIsSound DEF VaultInv, Calling
  <1>3. vault \in Storage /\ Sound(vault.grant) /\ vault.grant.lastTransition <= now
    BY <1>1, <1>2 DEF AtRest, Settled, Sane
  <1>4. vault.beneficiary \in Accounts /\ "vault" \in Accounts
    BY <1>1, <1>2 DEF AtRest, Settled, Sane, BindingAssumption
  <1>5. amount \in Amount
    <2>1. /\ _entitlement(vault.grant, now) \in Amount
          /\ vault.grant.released <= _entitlement(vault.grant, now)
      BY <1>1, <1>3, SoundCovers, WidthAssumption DEF Sound, Grant, Time
    <2>2. vault.grant.released \in Amount
      BY <1>3, LiabilityIsAmount
    <2> QED BY <2>1, <2>2, WidthAssumption DEF available, Amount
  <1>6. [storage EXCEPT !.entered = TRUE]
          = [vault EXCEPT !.grant = release(vault.grant, now, amount), !.entered = TRUE]
    OBVIOUS
  <1> HIDE DEF storage, amount
  <1>7. PICK F \in Frame : Entered(F, "paid", "vault", vault.beneficiary, amount, storage)
    BY <1>1, <1>2, <1>4, <1>5, CallEnters
  <1>8. Releasing(F.saved.vault, F)'
    BY <1>1, <1>6, <1>7 DEF Releasing, Entered, amount
  <1> QED BY <1>1, <1>7, <1>8, StartsInCall DEF Entered

\* cancel() with the entitlement already frozen.
LEMMA CancelStarts ==
  ASSUME BindingAssumption, VaultInv, Cancel
  PROVE  VaultInv'
  <1> DEFINE amount == refund(vault.grant, now)
             storage == [vault EXCEPT !.grant = cancel(vault.grant, now)]
  <1>1. /\ vault.deployed /\ ~ vault.entered /\ now \in Time /\ vault.funded
        /\ CancelAllowed(vault.grant, now)
        /\ Call("returned", "vault", vault.originalReserve, amount, storage)
    BY DEF Cancel, nonReentrant, _currentTime
  <1>2. AtRest
    BY <1>1, InsideIsSound DEF VaultInv, Calling
  <1>3. vault \in Storage /\ Sound(vault.grant)
    BY <1>1, <1>2 DEF AtRest, Settled, Sane
  <1>4. vault.originalReserve \in Accounts /\ "vault" \in Accounts
    BY <1>1, <1>2 DEF AtRest, Settled, Sane, BindingAssumption
  <1>5. amount \in Amount
    BY <1>1, <1>3, CancelSound
  <1>6. [storage EXCEPT !.entered = TRUE]
          = [vault EXCEPT !.grant = cancel(vault.grant, now), !.entered = TRUE]
    OBVIOUS
  <1> HIDE DEF storage, amount
  <1>7. PICK F \in Frame : Entered(F, "returned", "vault", vault.originalReserve, amount, storage)
    BY <1>1, <1>2, <1>4, <1>5, CallEnters
  <1>8. Cancelling(F.saved.vault, F)'
    BY <1>1, <1>6, <1>7 DEF Cancelling, Entered, amount
  <1> QED BY <1>1, <1>7, <1>8, StartsInCall DEF Entered

\* cancel() of a fully vested grant: nothing is owed back.
LEMMA CancelVestedSettles ==
  ASSUME BindingAssumption, VaultInv, CancelVested
  PROVE  VaultInv'
  <1> DEFINE g == vault.grant
             h == cancel(vault.grant, now)
             v == [vault EXCEPT !.grant = h]
  <1>1. /\ vault.deployed /\ ~ vault.entered /\ now \in Time /\ vault.funded
        /\ CancelAllowed(g, now) /\ refund(g, now) = 0
        /\ vault' = v /\ UNCHANGED <<now, bal, flow, frames>>
    BY DEF CancelVested, nonReentrant, _currentTime
  <1>2. AtRest
    BY <1>1, InsideIsSound DEF VaultInv, Calling
  <1>3. /\ vault \in Storage /\ Sound(g) /\ bal \in [Accounts -> Nat]
        /\ Sane(vault, now) /\ Accounted(vault, flow) /\ bal["vault"] >= Liability(g)
    BY <1>1, <1>2 DEF AtRest, Settled, Sane
  <1>4. /\ Sound(h) /\ h.terms = g.terms /\ h.released = g.released /\ h.lastTransition = now
        /\ h.frozenEntitlement = g.terms.allocation /\ h.cancelled
    <2>1. refund(g, now) = g.terms.allocation - _curve(g.terms, now)
      BY DEF refund
    <2>2. _curve(g.terms, now) \in Amount /\ g.terms.allocation \in Amount
      BY <1>1, <1>3, CurveBounded DEF Sound, _validate, Grant, Terms
    <2>3. _curve(g.terms, now) = g.terms.allocation
      BY <1>1, <2>1, <2>2, WidthAssumption DEF Amount
    <2> QED BY <1>1, <1>3, <2>3, CancelSound
  <1>5. h \in Grant
    BY <1>4 DEF Sound
  <1>6. now <= now /\ g.terms.allocation - g.terms.allocation = 0
    BY <1>1, <1>3, LiabilityIsAmount, WidthAssumption DEF Time, Amount
  <1>7. ~ g.cancelled
    BY <1>1 DEF CancelAllowed
  <1> HIDE DEF h
  <1>8. v \in Storage
    BY <1>3, <1>5 DEF Storage
  <1>9. /\ v.grant = h /\ v.deployed /\ v.funded /\ ~ v.entered
        /\ v.beneficiary = vault.beneficiary /\ v.originalReserve = vault.originalReserve
    BY <1>1, <1>3 DEF Storage
  <1>10. Liability(h) = Liability(g)
    BY <1>4, <1>7 DEF Liability
  <1> HIDE DEF v
  <1>11. Sane(v, now)
    BY <1>1, <1>3, <1>4, <1>6, <1>8, <1>9 DEF Sane
  <1>12. Accounted(v, flow)
    BY <1>1, <1>3, <1>4, <1>6, <1>7, <1>9 DEF Accounted
  <1>13. Settled([vault |-> v, bal |-> bal, flow |-> flow], now)
    BY <1>3, <1>9, <1>10, <1>11, <1>12 DEF Settled
  <1> QED BY <1>1, <1>2, <1>13 DEF VaultInv, AtRest
\* The only call in progress is the last.
LEMMA TopOfOne ==
  ASSUME Calling
  PROVE  Len(frames) = 1 /\ Top = frames[1] /\ Pop = <<>> /\ frames # <<>>
  <1>1. frames = <<frames[1]>>
    BY DEF Calling
  <1>2. Len(frames) = 1 /\ frames # <<>> /\ SubSeq(frames, 1, 0) = <<>>
    BY <1>1, OneFrame
  <1> QED BY <1>2 DEF Top, Pop

\* A call undone is the settled state it started from.
LEMMA RollbackSettles ==
  ASSUME VaultInv, frames # <<>>, Rollback
  PROVE  VaultInv'
  <1>1. Calling
    BY DEF VaultInv, AtRest
  <1>2. frames' = <<>> /\ now' = now
    BY <1>1, TopOfOne DEF Rollback
  <1>3. /\ vault' = frames[1].saved.vault /\ bal' = frames[1].saved.bal
        /\ flow' = frames[1].saved.flow
    BY <1>1, TopOfOne DEF Rollback
  <1>4. Settled(frames[1].saved, now)
    BY <1>1 DEF Calling, InCall
  <1>5. AtRest'
    BY <1>2, <1>3, <1>4 DEF AtRest, Settled
  <1> QED BY <1>2, <1>5 DEF VaultInv

\* What a completed call leaves: the unlocked storage, balances that moved by
\* the exact amount, and the history that counted it.
LEMMA CompletedMoved ==
  ASSUME NEW F, InCall(F),
         _requireMovement(F.before, Balances(F.from, F.to), F.amount)
  PROVE  /\ bal[F.from] = F.saved.bal[F.from] - F.amount
         /\ bal[F.to] = F.saved.bal[F.to] + F.amount
         /\ flow = [F.saved.flow EXCEPT ![F.leg] = @ + F.amount]
  <1>1. /\ F.before = [from |-> F.saved.bal[F.from], to |-> F.saved.bal[F.to]]
        /\ F.amount \in Amount /\ F.from \in Accounts /\ F.to \in Accounts
        /\ F.leg \in {"deposited", "paid", "returned"}
        /\ F.saved.flow \in Flows
        /\ F.saved.bal \in [Accounts -> Nat] /\ bal \in [Accounts -> Nat]
    BY DEF InCall, Frame, Settled, Accounted
  <1>2. /\ F.saved.bal[F.from] - bal[F.from] = F.amount
        /\ bal[F.to] - F.saved.bal[F.to] = F.amount
    BY <1>1 DEF _requireMovement, Balances
  <1>3. /\ bal[F.from] \in Nat /\ bal[F.to] \in Nat /\ F.saved.bal[F.from] \in Nat
        /\ F.saved.bal[F.to] \in Nat /\ F.amount \in Nat /\ F.saved.flow[F.leg] \in Int
    BY <1>1, WidthAssumption DEF Amount, Flows
  <1>4. F.saved.flow[F.leg] + bal[F.to] - F.saved.bal[F.to] = F.saved.flow[F.leg] + F.amount
    BY <1>2, <1>3
  <1>5. /\ bal[F.from] = F.saved.bal[F.from] - F.amount
        /\ bal[F.to] = F.saved.bal[F.to] + F.amount
    BY <1>2, <1>3
  <1> QED BY <1>4, <1>5 DEF InCall

\* A call that returned true and moved its exact amount settles.
LEMMA FinishSettles ==
  ASSUME BindingAssumption, NEW F, InCall(F),
         _requireMovement(F.before, Balances(F.from, F.to), F.amount),
         NEW u, u = [vault EXCEPT !.entered = FALSE]
  PROVE  Settled([vault |-> u, bal |-> bal, flow |-> flow], now)
  <1> DEFINE v == F.saved.vault
             b == F.saved.bal
             f == F.saved.flow
  <1>1. /\ Sane(v, now) /\ Accounted(v, f) /\ b \in [Accounts -> Nat] /\ bal \in [Accounts -> Nat]
        /\ v.deployed
        /\ v.funded => b["vault"] >= Liability(v.grant)
        /\ v \in Storage /\ f \in Flows /\ Sound(v.grant) /\ now \in Time /\ F.amount \in Amount
    BY DEF InCall, Settled, Sane, Accounted, Frame
  <1>2. /\ bal[F.from] = b[F.from] - F.amount
        /\ bal[F.to] = b[F.to] + F.amount
        /\ flow = [f EXCEPT ![F.leg] = @ + F.amount]
    BY CompletedMoved DEF InCall
  <1>3. /\ vault \in Storage /\ vault.deployed /\ Sound(vault.grant)
        /\ vault.grant.lastTransition <= now /\ flow \in Flows
    BY InsideIsSound
  <1>4. u \in Storage /\ u.grant = vault.grant /\ u.deployed /\ ~ u.entered
    BY <1>3 DEF Storage
  <1>5. /\ Liability(v.grant) \in Nat /\ v.grant.terms.allocation \in Nat
        /\ v.grant.released \in Nat /\ F.amount \in Nat /\ "vault" \in Accounts
        /\ b["vault"] \in Nat /\ bal["vault"] \in Nat
    BY <1>1, LiabilityIsAmount, WidthAssumption DEF Amount, BindingAssumption
  <1> HIDE DEF v, b, f
  <1>6. CASE Funding(v, F)
    <2>1. /\ u.funded /\ u.grant = v.grant
          /\ u.beneficiary = v.beneficiary /\ u.originalReserve = v.originalReserve
      BY <1>1, <1>6 DEF Funding, Storage
    <2>2. v.grant.released = 0 /\ ~ v.grant.cancelled
      BY <1>1, <1>6 DEF Funding, Sane
    <2>3. bal["vault"] >= Liability(u.grant)
      BY <1>1, <1>2, <1>5, <1>6, <2>1, <2>2 DEF Funding, Liability
    <2>4. /\ flow.deposited = f.deposited + F.amount /\ flow.paid = f.paid
          /\ flow.returned = f.returned
      BY <1>1, <1>2, <1>6 DEF Funding, Flows
    <2>5. Accounted(u, flow)
      BY <1>1, <1>3, <1>5, <1>6, <2>1, <2>2, <2>4 DEF Accounted, Funding
    <2> QED BY <1>1, <1>3, <1>4, <2>1, <2>3, <2>5 DEF Settled, Sane
  <1>7. CASE Releasing(v, F)
    <2> DEFINE g == release(v.grant, now, F.amount)
    <2>1. /\ u.funded /\ u.grant = g
          /\ u.beneficiary = v.beneficiary /\ u.originalReserve = v.originalReserve
      BY <1>1, <1>7 DEF Releasing, Storage
    <2>2. /\ g.terms = v.grant.terms /\ g.released = v.grant.released + F.amount
          /\ g.frozenEntitlement = v.grant.frozenEntitlement /\ g.cancelled = v.grant.cancelled
      BY <1>1, <1>5, <1>7, ReleaseSound DEF Releasing
    <2> HIDE DEF g
    <2>3. Liability(g) = Liability(v.grant) - F.amount
      BY <1>1, <1>5, <2>2, WidthAssumption DEF Liability, Sound, Grant, Amount
    <2>4. bal["vault"] >= Liability(u.grant)
      BY <1>1, <1>2, <1>5, <1>7, <2>1, <2>3 DEF Releasing
    <2>5. /\ flow.deposited = f.deposited /\ flow.paid = f.paid + F.amount
          /\ flow.returned = f.returned
      BY <1>1, <1>2, <1>7 DEF Releasing, Flows
    <2>6. Accounted(u, flow)
      BY <1>1, <1>3, <1>7, <2>1, <2>2, <2>5 DEF Accounted, Releasing
    <2> QED BY <1>1, <1>3, <1>4, <2>1, <2>4, <2>6 DEF Settled, Sane
  <1>8. CASE Cancelling(v, F)
    <2> DEFINE g == cancel(v.grant, now)
    <2>1. /\ u.funded /\ u.grant = g
          /\ u.beneficiary = v.beneficiary /\ u.originalReserve = v.originalReserve
      BY <1>1, <1>8 DEF Cancelling, Storage
    <2>2. /\ g.terms = v.grant.terms /\ g.released = v.grant.released /\ g.cancelled
          /\ F.amount = v.grant.terms.allocation - g.frozenEntitlement
      BY <1>1, <1>8, CancelSound DEF Cancelling
    <2>3. g.frozenEntitlement \in Nat
      BY <1>3, <1>4, <2>1, WidthAssumption DEF Sound, Grant, Amount
    <2>4. ~ v.grant.cancelled
      BY <1>8 DEF Cancelling, CancelAllowed
    <2> HIDE DEF g
    <2>5. Liability(g) = Liability(v.grant) - F.amount
      BY <1>5, <2>2, <2>3, <2>4 DEF Liability
    <2>6. bal["vault"] >= Liability(u.grant)
      BY <1>1, <1>2, <1>5, <1>8, <2>1, <2>5 DEF Cancelling
    <2>7. /\ flow.deposited = f.deposited /\ flow.paid = f.paid
          /\ flow.returned = f.returned + F.amount
      BY <1>1, <1>2, <1>8 DEF Cancelling, Flows
    <2>8. Accounted(u, flow)
      BY <1>1, <1>3, <1>5, <1>8, <2>1, <2>2, <2>4, <2>7 DEF Accounted, Cancelling
    <2> QED BY <1>1, <1>3, <1>4, <2>1, <2>6, <2>8 DEF Settled, Sane
  <1> QED BY <1>6, <1>7, <1>8 DEF InCall, v
\* Tokens that change hands keep balances natural numbers, and the history of
\* the call in progress counts what its receiver gained.
LEMMA MovingKeepsCall ==
  ASSUME NEW F, InCall(F), NEW G \in Frame,
         G.leg = F.leg, G.from = F.from, G.to = F.to, G.amount = F.amount, G.before = F.before,
         G.saved = F.saved,
         frames' = <<G>>, MaxDepth >= 1, now' = now, vault' = vault, bal' \in [Accounts -> Nat],
         flow' = [flow EXCEPT ![F.leg] = @ + bal'[F.to] - bal[F.to]]
  PROVE  VaultInv'
  <1>1. /\ F.to \in Accounts /\ F.leg \in {"deposited", "paid", "returned"}
        /\ F.saved.flow \in Flows /\ F.saved.bal \in [Accounts -> Nat] /\ bal \in [Accounts -> Nat]
        /\ flow = [F.saved.flow EXCEPT ![F.leg] = @ + bal[F.to] - F.saved.bal[F.to]]
    BY DEF InCall, Frame, Settled, Accounted
  <1>2. /\ F.saved.flow[F.leg] \in Int /\ bal[F.to] \in Nat /\ F.saved.bal[F.to] \in Nat
        /\ bal'[F.to] \in Nat
    BY <1>1 DEF Flows
  <1>3. flow[F.leg] = F.saved.flow[F.leg] + bal[F.to] - F.saved.bal[F.to]
    BY <1>1 DEF Flows
  <1>4. flow[F.leg] + bal'[F.to] - bal[F.to] = F.saved.flow[F.leg] + bal'[F.to] - F.saved.bal[F.to]
    BY <1>2, <1>3
  <1>5. flow' = [F.saved.flow EXCEPT ![F.leg] = @ + bal'[F.to] - F.saved.bal[F.to]]
    BY <1>1, <1>4 DEF Flows
  <1>6. Funding(G.saved.vault, G)' \/ Releasing(G.saved.vault, G)' \/ Cancelling(G.saved.vault, G)'
    <2>1. Funding(F.saved.vault, F) \/ Releasing(F.saved.vault, F) \/ Cancelling(F.saved.vault, F)
      BY DEF InCall
    <2>2. CASE Funding(F.saved.vault, F)
      BY <2>2 DEF Funding
    <2>3. CASE Releasing(F.saved.vault, F)
      BY <2>3 DEF Releasing
    <2>4. CASE Cancelling(F.saved.vault, F)
      BY <2>4 DEF Cancelling
    <2> QED BY <2>1, <2>2, <2>3, <2>4
  <1>7. InCall(G)'
    BY <1>5, <1>6 DEF InCall
  <1>8. frames'[1] = G
    BY OneFrame
  <1>9. Calling'
    BY <1>7, <1>8 DEF Calling
  <1>10. now \in 0 .. MaxTime + 1
    BY WidthAssumption DEF InCall, Time
  <1> QED BY <1>9, <1>10 DEF VaultInv

\* A movement the token makes, whatever fee it keeps.
LEMMA MovedTyped ==
  ASSUME bal \in [Accounts -> Nat], "elsewhere" \in Accounts,
         NEW from \in Accounts, NEW to \in Accounts, NEW amount \in Nat, NEW fee \in Nat,
         bal[from] >= amount, fee <= amount
  PROVE  Moved(from, to, amount, fee) \in [Accounts -> Nat]
  <1> DEFINE debited  == [bal EXCEPT ![from] = bal[from] - amount]
             credited == [debited EXCEPT ![to] = debited[to] + amount - fee]
  <1>1. debited \in [Accounts -> Nat]
    OBVIOUS
  <1> HIDE DEF debited
  <1>2. credited \in [Accounts -> Nat]
    BY <1>1
  <1> HIDE DEF credited
  <1>3. [credited EXCEPT !["elsewhere"] = credited["elsewhere"] + fee] \in [Accounts -> Nat]
    BY <1>2
  <1> QED BY <1>3 DEF Moved, debited, credited

\* The token moves, inside a call.
LEMMA TokenMovesKeeps ==
  ASSUME BindingAssumption, VaultInv, NEW fee \in 0 .. MaxFee, NEW ok \in BOOLEAN,
         TokenMoves(fee, ok)
  PROVE  VaultInv'
  <1> DEFINE G == [frames[1] EXCEPT !.moved = TRUE, !.ok = ok]
  <1>1. Calling
    BY DEF VaultInv, AtRest, TokenMoves
  <1>2. PICK F : F = frames[1]
    OBVIOUS
  <1>3. /\ frames = <<F>> /\ MaxDepth >= 1 /\ InCall(F) /\ Len(frames) = 1 /\ Top = F
    BY <1>1, <1>2, TopOfOne DEF Calling
  <1>4. /\ F \in Frame /\ F.from \in Accounts /\ F.to \in Accounts /\ F.amount \in Nat
        /\ bal \in [Accounts -> Nat] /\ fee \in Nat
    BY <1>3, WidthAssumption DEF InCall, Frame, Amount, BindingAssumption
  <1>5. bal' \in [Accounts -> Nat]
    BY <1>3, <1>4, MovedTyped DEF TokenMoves, BindingAssumption
  <1>6. frames' = <<[F EXCEPT !.moved = TRUE, !.ok = ok]>>
    <2>1. frames' = [frames EXCEPT ![1] = [frames[1] EXCEPT !.moved = TRUE, !.ok = ok]]
      BY <1>3 DEF TokenMoves
    <2> QED BY <1>2, <1>3, <2>1, OneFrame
  <1>7. flow' = [flow EXCEPT ![F.leg] = @ + bal'[F.to] - bal[F.to]]
    BY <1>3 DEF TokenMoves, Gain
  <1>8. now' = now /\ vault' = vault
    BY DEF TokenMoves
  <1>9. /\ [F EXCEPT !.moved = TRUE, !.ok = ok] \in Frame
        /\ [F EXCEPT !.moved = TRUE, !.ok = ok].leg = F.leg
        /\ [F EXCEPT !.moved = TRUE, !.ok = ok].from = F.from
        /\ [F EXCEPT !.moved = TRUE, !.ok = ok].to = F.to
        /\ [F EXCEPT !.moved = TRUE, !.ok = ok].amount = F.amount
        /\ [F EXCEPT !.moved = TRUE, !.ok = ok].before = F.before
        /\ [F EXCEPT !.moved = TRUE, !.ok = ok].saved = F.saved
    BY <1>4 DEF Frame
  <1> QED BY <1>3, <1>5, <1>6, <1>7, <1>8, <1>9, MovingKeepsCall

\* The token returns false without moving, inside a call.
LEMMA TokenReturnsFalseKeeps ==
  ASSUME VaultInv, TokenReturnsFalse
  PROVE  VaultInv'
  <1>1. Calling
    BY DEF VaultInv, AtRest, TokenReturnsFalse
  <1>2. PICK F : F = frames[1]
    OBVIOUS
  <1>3. /\ frames = <<F>> /\ MaxDepth >= 1 /\ InCall(F) /\ Len(frames) = 1
    BY <1>1, <1>2, TopOfOne DEF Calling
  <1>4. /\ F \in Frame /\ bal \in [Accounts -> Nat]
    BY <1>3 DEF InCall
  <1>5. frames' = <<[F EXCEPT !.moved = TRUE]>>
    <2>1. frames' = [frames EXCEPT ![1] = [frames[1] EXCEPT !.moved = TRUE]]
      BY <1>3 DEF TokenReturnsFalse
    <2>2. frames' = [<<F>> EXCEPT ![1] = [F EXCEPT !.moved = TRUE]]
      BY <1>2, <1>3, <2>1
    <2> QED BY <2>2, OneFrame
  <1>6. flow' = [flow EXCEPT ![F.leg] = @ + bal'[F.to] - bal[F.to]]
    <2>1. flow' = flow /\ bal' = bal
      BY DEF TokenReturnsFalse
    <2>2. flow \in Flows /\ F.leg \in {"deposited", "paid", "returned"} /\ bal[F.to] \in Nat
      BY <1>3, <1>4, InsideIsSound DEF Frame
    <2>3. flow[F.leg] + bal[F.to] - bal[F.to] = flow[F.leg]
      BY <2>2 DEF Flows
    <2> QED BY <2>1, <2>2, <2>3 DEF Flows
  <1>7. now' = now /\ vault' = vault /\ bal' \in [Accounts -> Nat]
    BY <1>4 DEF TokenReturnsFalse
  <1>8. /\ [F EXCEPT !.moved = TRUE] \in Frame
        /\ [F EXCEPT !.moved = TRUE].leg = F.leg
        /\ [F EXCEPT !.moved = TRUE].from = F.from
        /\ [F EXCEPT !.moved = TRUE].to = F.to
        /\ [F EXCEPT !.moved = TRUE].amount = F.amount
        /\ [F EXCEPT !.moved = TRUE].before = F.before
        /\ [F EXCEPT !.moved = TRUE].saved = F.saved
    BY <1>4 DEF Frame
  <1> QED BY <1>3, <1>5, <1>6, <1>7, <1>8, MovingKeepsCall

\* Somebody else's transfer, at rest or from a hook: it never takes tokens out
\* of the vault.
LEMMA OutsideKeeps ==
  ASSUME BindingAssumption, VaultInv, NEW from \in Accounts, NEW to \in Accounts, NEW amount \in 1 .. MaxGift,
         Outside(from, to, amount)
  PROVE  VaultInv'
  <1>1. /\ from # "vault" /\ from # to /\ amount <= bal[from] /\ amount \in Nat
        /\ bal' = [bal EXCEPT ![from] = @ - amount, ![to] = @ + amount]
        /\ flow' = Gain /\ UNCHANGED <<now, vault, frames>>
    BY DEF Outside
  <1>2. bal \in [Accounts -> Nat]
    BY DEF VaultInv, AtRest, Calling, Settled, InCall
  <1>3. bal' \in [Accounts -> Nat] /\ ("vault" \in Accounts => bal'["vault"] >= bal["vault"])
    <2>1. /\ bal'[from] = bal[from] - amount /\ bal'[to] = bal[to] + amount
          /\ \A a \in Accounts \ {from, to} : bal'[a] = bal[a]
          /\ DOMAIN bal' = Accounts /\ bal' = [a \in Accounts |-> bal'[a]]
      BY <1>1, <1>2
    <2>2. \A a \in Accounts : bal[a] \in Nat /\ bal'[a] \in Nat /\ (a # from => bal'[a] >= bal[a])
      <3>1. \A a \in Accounts : bal[a] \in Nat
        BY <1>2
      <3> QED BY <1>1, <2>1, <3>1
    <2> QED BY <1>1, <2>1, <2>2
  <1>4. CASE AtRest
    <2>1. flow' = flow
      BY <1>1, <1>4 DEF AtRest, Gain
    <2>2. Settled([vault |-> vault, bal |-> bal', flow |-> flow], now)
      <3>1. Settled([vault |-> vault, bal |-> bal, flow |-> flow], now)
        BY <1>4 DEF AtRest
      <3>2. vault.funded => Liability(vault.grant) \in Amount
        BY <3>1, LiabilityIsAmount DEF Settled, Sane
      <3>3. vault.funded => bal'["vault"] >= Liability(vault.grant)
        <4>1. bal["vault"] \in Nat /\ bal'["vault"] \in Nat /\ bal'["vault"] >= bal["vault"]
          BY <1>2, <1>3 DEF BindingAssumption
        <4> QED BY <3>1, <3>2, <4>1, WidthAssumption DEF Settled, Amount
      <3> QED BY <1>3, <3>1, <3>3 DEF Settled
    <2> QED BY <1>1, <1>4, <2>1, <2>2 DEF AtRest, VaultInv
  <1>5. CASE Calling
    <2>1. PICK F : F = frames[1]
      OBVIOUS
    <2>2. /\ frames = <<F>> /\ MaxDepth >= 1 /\ InCall(F) /\ Len(frames) = 1 /\ Top = F
          /\ frames # <<>>
      BY <1>5, <2>1, TopOfOne DEF Calling
    <2>3. flow' = [flow EXCEPT ![F.leg] = @ + bal'[F.to] - bal[F.to]]
      BY <1>1, <2>2 DEF Gain
    <2>4. F \in Frame /\ frames' = <<F>> /\ now' = now /\ vault' = vault
      BY <1>1, <2>2 DEF InCall
    <2> QED BY <1>3, <2>2, <2>3, <2>4, MovingKeepsCall
  <1> QED BY <1>4, <1>5 DEF VaultInv
\* Time passes only between transactions.
LEMMA TickSettles ==
  ASSUME VaultInv, Tick
  PROVE  VaultInv'
  <1>1. AtRest
    BY OneFrame DEF VaultInv, Calling, Tick
  <1>2. now \in 0 .. MaxTime + 1 /\ now <= MaxTime /\ now' = now + 1
        /\ UNCHANGED <<vault, bal, flow, frames>>
    BY DEF VaultInv, Tick
  <1>3. now' \in 0 .. MaxTime + 1
    BY <1>2, WidthAssumption
  <1>4. vault.deployed => vault.grant.lastTransition <= now'
    <2>1. vault.deployed => vault.grant.lastTransition \in Time /\ vault.grant.lastTransition <= now
      BY <1>1 DEF AtRest, Settled, Sane, Sound, Grant
    <2> QED BY <1>2, <2>1, WidthAssumption DEF Time
  <1>5. Settled([vault |-> vault, bal |-> bal, flow |-> flow], now')
    BY <1>1, <1>4 DEF AtRest, Settled, Sane
  <1>6. AtRest'
    BY <1>1, <1>2, <1>5 DEF AtRest
  <1> QED BY <1>3, <1>6 DEF VaultInv

\* The token has returned: the call settles or is undone.
LEMMA FinishKeeps ==
  ASSUME BindingAssumption, VaultInv, Finish
  PROVE  VaultInv'
  <1>1. frames # <<>>
    BY DEF Finish
  <1>2. CASE Rollback
    BY <1>1, <1>2, RollbackSettles
  <1>3. CASE ~ Rollback
    <2>1. Calling
      BY <1>1 DEF VaultInv, AtRest
    <2>2. Top = frames[1] /\ Pop = <<>> /\ InCall(frames[1])
      BY <2>1, TopOfOne DEF Calling
    <2>3. /\ _requireMovement(frames[1].before, Balances(frames[1].from, frames[1].to), frames[1].amount)
          /\ vault' = [vault EXCEPT !.entered = FALSE]
          /\ frames' = <<>> /\ UNCHANGED <<now, bal, flow>>
      BY <1>3, <2>2 DEF Finish
    <2>4. Settled([vault |-> vault', bal |-> bal, flow |-> flow], now)
      BY <2>2, <2>3, FinishSettles
    <2>5. AtRest'
      BY <2>3, <2>4 DEF AtRest
    <2> QED BY <2>3, <2>5 DEF VaultInv
  <1> QED BY <1>2, <1>3

\* Every reachable state of the vault is settled or one call away from it.
THEOREM VaultInvariant ==
  ASSUME BindingAssumption
  PROVE  Spec => []VaultInv
  <1>1. Init => VaultInv
    BY InitSettled
  <1>2. VaultInv /\ [Next]_vars => VaultInv'
    <2> SUFFICES ASSUME VaultInv, [Next]_vars
                 PROVE  VaultInv'
      OBVIOUS
    <2>1. ASSUME NEW b \in Accounts \cup {Zero}, NEW r \in Accounts \cup {Zero},
                 NEW terms \in Proposals, Construct(b, r, terms)
          PROVE  VaultInv'
      BY <2>1, ConstructSettles
    <2>2. CASE Fund
      BY <2>2, FundStarts
    <2>3. CASE Release
      BY <2>3, ReleaseStarts
    <2>4. CASE Cancel
      BY <2>4, CancelStarts
    <2>5. CASE CancelVested
      BY <2>5, CancelVestedSettles
    <2>6. CASE Finish
      BY <2>6, FinishKeeps
    <2>7. ASSUME NEW fee \in 0 .. MaxFee, NEW ok \in BOOLEAN, TokenMoves(fee, ok)
          PROVE  VaultInv'
      BY <2>7, TokenMovesKeeps
    <2>8. CASE TokenReturnsFalse
      BY <2>8, TokenReturnsFalseKeeps
    <2>9. CASE TokenReverts
      BY <2>9, RollbackSettles DEF TokenReverts
    <2>10. ASSUME NEW from \in Accounts, NEW to \in Accounts, NEW amount \in 1 .. MaxGift,
                  Outside(from, to, amount)
           PROVE  VaultInv'
      BY <2>10, OutsideKeeps
    <2>11. CASE Tick
      BY <2>11, TickSettles
    <2>12. CASE UNCHANGED vars
      BY <2>12 DEF vars, VaultInv, AtRest, Calling, InCall, Funding, Releasing, Cancelling
    <2> QED BY <2>1, <2>2, <2>3, <2>4, <2>5, <2>6, <2>7, <2>8, <2>9, <2>10, <2>11, <2>12 DEF Next
  <1> QED BY <1>1, <1>2, PTL DEF Spec

----------------------------------------------------------------------------
(* The properties.                                                         *)

\* Storage and balances keep the types of the Solidity declarations, and no
\* more calls are in progress than the stack holds.
THEOREM VaultTyped ==
  ASSUME BindingAssumption
  PROVE  Spec => []TypeOK
  <1>1. VaultInv => TypeOK
    <2>1. CASE AtRest /\ now \in 0 .. MaxTime + 1
      <3>1. Len(frames) = 0
        BY <2>1 DEF AtRest
      <3> QED BY <2>1, <3>1 DEF AtRest, Settled, Sane, Accounted, TypeOK, Storage, Flows,
                                BindingAssumption
    <2>2. CASE Calling /\ now \in 0 .. MaxTime + 1
      <3>1. Len(frames) = 1
        BY <2>2, TopOfOne
      <3>2. vault \in Storage /\ flow \in Flows /\ bal \in [Accounts -> Nat]
        BY <2>2, InsideIsSound DEF Calling, InCall
      <3>3. Len(frames) <= MaxDepth
        BY <2>2, <3>1 DEF Calling, BindingAssumption
      <3> QED BY <2>2, <3>2, <3>3 DEF TypeOK, Storage, Flows
    <2> QED BY <2>1, <2>2 DEF VaultInv
  <1> QED BY <1>1, VaultInvariant, PTL

\* What a state of the invariant would keep if its call reverted is settled.
LEMMA CommittedIsSettled ==
  ASSUME VaultInv
  PROVE  Settled(Committed, now)
  BY OneFrame DEF VaultInv, AtRest, Calling, InCall, Committed

\* Recorded accounting is payment (GrantVault.sol 80-150): for every token, fee,
\* hook and history, the tokens that moved between transactions are exactly the
\* ones the storage claims.
THEOREM PaymentIsAccounted ==
  ASSUME BindingAssumption
  PROVE  Spec => []AccountingIsPayment
  <1>1. VaultInv => AccountingIsPayment
    BY CommittedIsSettled DEF Settled, Accounted, AccountingIsPayment
  <1> QED BY <1>1, VaultInvariant, PTL

\* Every claim is payable (GrantVault.sol 80-165): the vault covers its
\* liability, and no claim fails on the clock or on the subtraction, at rest or
\* in the middle of a call.
THEOREM ClaimsArePayable ==
  ASSUME BindingAssumption
  PROVE  Spec => []EveryClaimIsPayable
  <1>1. VaultInv => EveryClaimIsPayable
    <2> SUFFICES ASSUME VaultInv
                 PROVE  EveryClaimIsPayable
      OBVIOUS
    <2>1. Committed.vault.funded => Committed.bal["vault"] >= Liability(Committed.vault.grant)
      BY CommittedIsSettled DEF Settled
    <2>2. vault.deployed => Sound(vault.grant) /\ vault.grant.lastTransition <= now
      BY InsideIsSound DEF VaultInv, AtRest, Calling, Settled, Sane
    <2>3. ASSUME vault.deployed, now \in Time
          PROVE  /\ _requireCurrent(vault.grant, now)
                 /\ vault.grant.released <= _entitlement(vault.grant, now)
      <3>1. Sound(vault.grant) /\ vault.grant.lastTransition \in Time
            /\ vault.grant.lastTransition <= now
        BY <2>2, <2>3 DEF Sound, Grant
      <3>2. now >= vault.grant.lastTransition
        BY <2>3, <3>1, WidthAssumption DEF Time
      <3> QED BY <2>3, <3>1, <3>2, SoundCovers DEF _requireCurrent, Sound
    <2> QED BY <2>1, <2>3 DEF EveryClaimIsPayable
  <1> QED BY <1>1, VaultInvariant, PTL
----------------------------------------------------------------------------
(* The refinement of VestingPromise.                                       *)

\* What the promise calls vested is what the contract computes.
LEMMA VestedIsCurve ==
  ASSUME Sound(Committed.vault.grant), now \in Time
  PROVE  Promise!Vested(now) = _curve(Committed.vault.grant.terms, now)
  <1> DEFINE terms == Committed.vault.grant.terms
  <1>1. terms \in Terms /\ terms.cliff < terms.end
    BY DEF Sound, Grant, _validate
  <1> HIDE DEF terms
  <1>2. terms.allocation \in Nat /\ terms.cliff \in Nat /\ terms.end \in Nat /\ now \in Nat
    BY <1>1, WidthAssumption DEF Terms, Amount, Time
  <1>3. CASE now > terms.cliff /\ now < terms.end
    <2>1. /\ terms.end - terms.cliff \in Nat /\ terms.end - terms.cliff > 0
          /\ now - terms.cliff \in Nat
      BY <1>1, <1>2, <1>3
    <2>2. Accrued(terms.allocation, terms.end - terms.cliff, now - terms.cliff)
            = (terms.allocation * (now - terms.cliff)) \div (terms.end - terms.cliff)
      BY <1>2, <2>1, AccruedIsFloor
    <2>3. ~ (now <= terms.cliff) /\ ~ (now >= terms.end)
      BY <1>2, <1>3
    <2> QED BY <2>2, <2>3 DEF Promise!Vested, _curve, terms
  <1>4. CASE ~ (now > terms.cliff /\ now < terms.end)
    <2>1. now <= terms.cliff \/ now >= terms.end
      BY <1>2, <1>4
    <2> QED BY <2>1 DEF Promise!Vested, _curve, terms
  <1> QED BY <1>3, <1>4

\* What the promise calls owed is the ledger's entitlement.
LEMMA OwedIsEntitlement ==
  ASSUME Settled(Committed, now), Sound(Committed.vault.grant), now \in Time
  PROVE  Promise!Owed = _entitlement(Committed.vault.grant, now)
  <1> DEFINE g == Committed.vault.grant
  <1>1. CASE g.cancelled
    <2>1. Committed.flow.returned = g.terms.allocation - g.frozenEntitlement
      BY <1>1 DEF Settled, Accounted
    <2>2. g.terms.allocation \in Nat /\ g.frozenEntitlement \in Nat
      BY WidthAssumption DEF Sound, Grant, Terms, Amount
    <2>3. Promise!Owed = g.terms.allocation - Committed.flow.returned
      BY <1>1 DEF Promise!Owed
    <2> HIDE DEF g
    <2>4. g.terms.allocation - (g.terms.allocation - g.frozenEntitlement) = g.frozenEntitlement
      BY <2>2
    <2> QED BY <1>1, <2>1, <2>3, <2>4 DEF _entitlement, g
  <1>2. CASE ~ g.cancelled
    BY <1>2, VestedIsCurve DEF Promise!Owed, _entitlement
  <1> QED BY <1>1, <1>2

\* A step that keeps the committed storage, history and time is a stutter.
LEMMA CommittedStutters ==
  ASSUME Committed'.vault = Committed.vault, Committed'.flow = Committed.flow, now' = now
  PROVE  UNCHANGED Promise!promise
  BY DEF Promise!promise

\* At rest and in a call, what is committed.
LEMMA CommittedAtRest ==
  ASSUME frames = <<>>
  PROVE  Committed = [vault |-> vault, bal |-> bal, flow |-> flow]
  BY DEF Committed

LEMMA CommittedInCall ==
  ASSUME NEW F, frames = <<F>>
  PROVE  Committed = F.saved
  BY OneFrame DEF Committed

\* A call that starts commits nothing.
LEMMA CallCommitsNothing ==
  ASSUME AtRest, NEW leg, NEW from, NEW to, NEW amount, NEW storage,
         Call(leg, from, to, amount, storage)
  PROVE  UNCHANGED Promise!promise
  <1> DEFINE F == [leg |-> leg, from |-> from, to |-> to, amount |-> amount,
                   before |-> Balances(from, to), moved |-> FALSE, ok |-> FALSE,
                   saved |-> [vault |-> vault, bal |-> bal, flow |-> flow]]
  <1>1. frames = <<>> /\ frames' = <<F>> /\ now' = now
    BY OneFrame DEF AtRest, Call
  <1>2. Committed = [vault |-> vault, bal |-> bal, flow |-> flow]
    BY <1>1, CommittedAtRest
  <1>3. Committed' = F.saved
    BY <1>1, OneFrame DEF Committed
  <1>4. Committed'.vault = Committed.vault /\ Committed'.flow = Committed.flow
    BY <1>2, <1>3
  <1> QED BY <1>1, <1>4, CommittedStutters

\* The constructor agrees on the terms.
LEMMA ConstructAgrees ==
  ASSUME BindingAssumption, VaultInv,
         NEW b \in Accounts \cup {Zero}, NEW r \in Accounts \cup {Zero}, NEW terms \in Proposals,
         Construct(b, r, terms)
  PROVE  Promise!Agree
  <1> DEFINE g == initialize(EmptyGrant, terms)
  <1>1. /\ frames = <<>> /\ frames' = <<>> /\ ~ vault.deployed /\ terms.start >= now /\ now \in Time
        /\ UNCHANGED <<now, bal, flow>>
        /\ vault'.deployed /\ vault'.grant = g
    BY DEF Construct, NoVault, _currentTime
  <1>2. vault = NoVault
    BY <1>1, OneFrame DEF VaultInv, AtRest, Calling, Settled, Sane
  <1>3. Sound(g) /\ g.terms = terms /\ g.cancelled = FALSE
    BY InitializeSound DEF Construct, InitializeAllowed, BindingAssumption, Sound, Grant
  <1>4. vault.grant.cancelled = FALSE
    BY <1>2 DEF NoVault, EmptyGrant
  <1>5. now <= terms.start /\ terms.start < terms.cliff /\ terms.cliff < terms.end
        /\ terms.allocation > 0
    BY <1>1, <1>3, WidthAssumption DEF Sound, _validate, Grant, Terms, Time, Amount
  <1> HIDE DEF g
  <1>6. /\ ~ Committed.vault.deployed /\ Committed.vault.grant.cancelled = FALSE
        /\ Committed.flow = flow
    BY <1>1, <1>4, CommittedAtRest
  <1>7. /\ Committed'.vault.deployed /\ Committed'.vault.grant = g /\ Committed'.flow = flow
    BY <1>1, CommittedAtRest DEF Committed
  <1> QED BY <1>1, <1>3, <1>5, <1>6, <1>7 DEF Promise!Agree

\* cancel() of a fully vested grant revokes it and returns nothing.
LEMMA CancelVestedRevokes ==
  ASSUME BindingAssumption, VaultInv, CancelVested
  PROVE  Promise!Revoke
  <1> DEFINE g == vault.grant
             h == cancel(vault.grant, now)
  <1>1. /\ vault.deployed /\ ~ vault.entered /\ now \in Time /\ vault.funded
        /\ CancelAllowed(g, now) /\ refund(g, now) = 0
        /\ UNCHANGED <<now, bal, flow, frames>>
        /\ vault' = [vault EXCEPT !.grant = h]
    BY DEF CancelVested, nonReentrant, _currentTime
  <1>2. AtRest
    BY <1>1, InsideIsSound DEF VaultInv, Calling
  <1>3. /\ frames = <<>> /\ vault \in Storage /\ Sound(g) /\ Accounted(vault, flow)
    BY <1>1, <1>2 DEF AtRest, Settled, Sane
  <1>4. Committed = [vault |-> vault, bal |-> bal, flow |-> flow]
    BY <1>3, CommittedAtRest
  <1>5. Committed' = [vault |-> vault', bal |-> bal, flow |-> flow]
    BY <1>1, <1>3 DEF Committed
  <1>6. /\ h.terms = g.terms /\ h.cancelled
    BY <1>1, <1>3, CancelSound
  <1> HIDE DEF h
  <1>7. /\ vault'.grant = h /\ vault'.deployed = vault.deployed
    BY <1>1, <1>3 DEF Storage
  <1>8. flow.deposited # 0 /\ flow.returned = 0 /\ ~ g.cancelled /\ g.terms.kind # "Founder"
    BY <1>1, <1>3 DEF Accounted, CancelAllowed, Sound, _validate
  <1>9. g.terms.allocation - Promise!Vested(now) = 0
    BY <1>1, <1>3, <1>4, VestedIsCurve DEF refund
  <1> QED BY <1>1, <1>4, <1>5, <1>6, <1>7, <1>8, <1>9 DEF Promise!Revoke
\* A completed call is one indivisible deposit, payment or revocation.
LEMMA CompletedCommits ==
  ASSUME BindingAssumption, NEW F, frames = <<F>>, InCall(F),
         _requireMovement(F.before, Balances(F.from, F.to), F.amount),
         vault' = [vault EXCEPT !.entered = FALSE], frames' = <<>>, UNCHANGED <<now, bal, flow>>
  PROVE  Promise!Deposit \/ Promise!Pay \/ Promise!Revoke
  <1> DEFINE v == F.saved.vault
             f == F.saved.flow
             g == v.grant
             h == vault.grant
  <1>1. Committed = F.saved
    BY CommittedInCall
  <1>2. Committed' = [vault |-> vault', bal |-> bal, flow |-> flow]
    BY DEF Committed
  <1>3. /\ Settled(F.saved, now) /\ Sane(v, now) /\ Accounted(v, f) /\ v \in Storage /\ v.deployed
        /\ Sound(g) /\ now \in Time /\ F.amount \in Nat /\ f \in Flows
    BY WidthAssumption DEF InCall, Settled, Sane, Accounted, Frame, Amount
  <1>4. vault \in Storage /\ vault.deployed /\ Sound(h) /\ flow \in Flows
    BY InsideIsSound
  <1>5. /\ vault'.grant = h /\ vault'.deployed = v.deployed /\ vault'.funded = vault.funded
    <2>1. vault.deployed = v.deployed
      BY <1>3 DEF InCall, Funding, Releasing, Cancelling, Storage
    <2> QED BY <1>4, <2>1 DEF Storage
  <1>6. flow = [f EXCEPT ![F.leg] = @ + F.amount]
    BY CompletedMoved
  <1>7. /\ g.terms.allocation \in Nat /\ g.terms.allocation # 0 /\ g.released \in Nat
    BY <1>3, LiabilityIsAmount, WidthAssumption DEF Sound, _validate, Amount
  <1>8. v.funded => f.deposited = g.terms.allocation
    BY <1>3 DEF Accounted
  <1> HIDE DEF v, f
  <1>9. CASE Funding(v, F)
    <2>1. /\ h = g /\ ~ v.funded /\ now <= g.terms.start /\ F.amount = g.terms.allocation
      BY <1>3, <1>9 DEF Funding, Storage
    <2>2. /\ f.deposited = 0
      BY <1>3, <2>1 DEF Accounted
    <2>3. /\ flow.deposited = F.amount /\ flow.paid = f.paid /\ flow.returned = f.returned
      BY <1>3, <1>6, <1>9, <2>2 DEF Funding, Flows
    <2>4. Promise!Deposit
      BY <1>1, <1>2, <1>3, <1>5, <2>1, <2>2, <2>3 DEF Promise!Deposit, v, f
    <2> QED BY <2>4
  <1>10. CASE Releasing(v, F)
    <2>1. /\ h = release(g, now, F.amount) /\ v.funded /\ ReleaseAllowed(g, now, F.amount)
          /\ F.amount = available(g, now)
      BY <1>3, <1>10 DEF Releasing, Storage
    <2>2. h.terms = g.terms /\ h.cancelled = g.cancelled
      BY <1>3, <2>1, ReleaseSound
    <2>3. f.deposited # 0 /\ f.paid = g.released
      BY <1>3, <1>7, <1>8, <2>1 DEF Accounted
    <2>4. /\ flow.deposited = f.deposited /\ flow.paid = f.paid + F.amount
          /\ flow.returned = f.returned
      BY <1>3, <1>6, <1>10 DEF Releasing, Flows
    <2>5. Promise!Owed = _entitlement(g, now)
      BY <1>1, <1>3, OwedIsEntitlement DEF v
    <2>6. f.paid < Promise!Owed /\ flow.paid = Promise!Owed
      <3>1. _entitlement(g, now) \in Nat
        BY <1>3, <2>1, SoundCovers, WidthAssumption DEF ReleaseAllowed, _requireCurrent, Amount
      <3>2. F.amount = _entitlement(g, now) - g.released /\ F.amount # 0
        BY <2>1 DEF available, ReleaseAllowed
      <3> QED BY <1>3, <1>7, <2>3, <2>4, <2>5, <3>1, <3>2
    <2>7. Promise!Pay
      BY <1>1, <1>2, <1>5, <2>2, <2>3, <2>4, <2>6 DEF Promise!Pay, v, f
    <2> QED BY <2>7
  <1>11. CASE Cancelling(v, F)
    <2>1. /\ h = cancel(g, now) /\ v.funded /\ CancelAllowed(g, now) /\ F.amount = refund(g, now)
      BY <1>3, <1>11 DEF Cancelling, Storage
    <2>2. h.terms = g.terms /\ h.cancelled
      BY <1>3, <2>1, CancelSound
    <2>3. ~ g.cancelled /\ g.terms.kind # "Founder"
      BY <2>1 DEF CancelAllowed
    <2>4. f.deposited # 0 /\ f.returned = 0
      BY <1>3, <1>7, <1>8, <2>1, <2>3 DEF Accounted
    <2>5. /\ flow.deposited = f.deposited /\ flow.paid = f.paid
          /\ flow.returned = F.amount
      BY <1>3, <1>6, <1>11, <2>4 DEF Cancelling, Flows
    <2>6. F.amount = g.terms.allocation - Promise!Vested(now)
      BY <1>1, <1>3, <2>1, VestedIsCurve DEF refund, v
    <2>7. Promise!Revoke
      BY <1>1, <1>2, <1>5, <2>2, <2>3, <2>4, <2>5, <2>6 DEF Promise!Revoke, v, f
    <2> QED BY <2>7
  <1> QED BY <1>9, <1>10, <1>11 DEF InCall, v

\* A call undone commits nothing.
LEMMA RollbackCommitsNothing ==
  ASSUME VaultInv, frames # <<>>, Rollback
  PROVE  UNCHANGED Promise!promise
  <1>1. Calling
    BY DEF VaultInv, AtRest
  <1>2. PICK F : F = frames[1]
    OBVIOUS
  <1>3. /\ frames = <<F>> /\ frames' = <<>> /\ now' = now
        /\ vault' = F.saved.vault /\ flow' = F.saved.flow
    BY <1>1, <1>2, TopOfOne DEF Calling, Rollback
  <1>4. Committed = F.saved
    BY <1>3, CommittedInCall
  <1>5. Committed'.vault = vault' /\ Committed'.flow = flow'
    BY <1>3 DEF Committed
  <1> QED BY <1>3, <1>4, <1>5, CommittedStutters

\* The end of a call.
LEMMA FinishCommits ==
  ASSUME BindingAssumption, VaultInv, Finish
  PROVE  [Promise!Next]_(Promise!promise)
  <1>1. frames # <<>>
    BY DEF Finish
  <1>2. CASE Rollback
    BY <1>1, <1>2, RollbackCommitsNothing
  <1>3. CASE ~ Rollback
    <2>1. Calling
      BY <1>1 DEF VaultInv, AtRest
    <2>2. PICK F : F = frames[1]
      OBVIOUS
    <2>3. frames = <<F>> /\ InCall(F) /\ Top = F /\ Pop = <<>>
      BY <2>1, <2>2, TopOfOne DEF Calling
    <2>4. /\ _requireMovement(F.before, Balances(F.from, F.to), F.amount)
          /\ vault' = [vault EXCEPT !.entered = FALSE]
          /\ frames' = <<>> /\ UNCHANGED <<now, bal, flow>>
      BY <1>3, <2>3 DEF Finish
    <2>5. Promise!Deposit \/ Promise!Pay \/ Promise!Revoke
      BY <2>3, <2>4, CompletedCommits
    <2> QED BY <2>5 DEF Promise!Next
  <1> QED BY <1>2, <1>3

\* Inside a call only the last frame changes, and not what it saved.
LEMMA InsideCommitsNothing ==
  ASSUME VaultInv,
         \/ \E fee \in 0 .. MaxFee, ok \in BOOLEAN : TokenMoves(fee, ok)
         \/ TokenReturnsFalse
  PROVE  UNCHANGED Promise!promise
  <1>1. Calling
    BY DEF VaultInv, AtRest, TokenMoves, TokenReturnsFalse
  <1>2. PICK F : F = frames[1]
    OBVIOUS
  <1>3. frames = <<F>> /\ Len(frames) = 1 /\ F \in Frame
    BY <1>1, <1>2, TopOfOne DEF Calling, InCall
  <1>4. now' = now
    BY DEF TokenMoves, TokenReturnsFalse
  <1>5. \E G : frames' = <<G>> /\ G.saved = F.saved
    <2>1. CASE TokenReturnsFalse
      <3>1. frames' = [<<F>> EXCEPT ![1] = [F EXCEPT !.moved = TRUE]]
        BY <1>2, <1>3, <2>1 DEF TokenReturnsFalse
      <3>2. [F EXCEPT !.moved = TRUE].saved = F.saved
        BY <1>3 DEF Frame
      <3> QED BY <3>1, <3>2, OneFrame
    <2>2. ASSUME NEW fee \in 0 .. MaxFee, NEW ok \in BOOLEAN, TokenMoves(fee, ok)
          PROVE  \E G : frames' = <<G>> /\ G.saved = F.saved
      <3>1. frames' = [frames EXCEPT ![1] = [frames[1] EXCEPT !.moved = TRUE, !.ok = ok]]
        BY <1>3, <2>2 DEF TokenMoves
      <3>2. frames' = <<[F EXCEPT !.moved = TRUE, !.ok = ok]>>
        BY <1>2, <1>3, <3>1, OneFrame
      <3>3. [F EXCEPT !.moved = TRUE, !.ok = ok].saved = F.saved
        BY <1>3 DEF Frame
      <3> QED BY <3>2, <3>3
    <2> QED BY <2>1, <2>2
  <1>6. PICK G : frames' = <<G>> /\ G.saved = F.saved
    BY <1>5
  <1>7. Committed' = F.saved
    BY <1>6, OneFrame DEF Committed
  <1>8. Committed = F.saved
    BY <1>3, CommittedInCall
  <1> QED BY <1>4, <1>7, <1>8, CommittedStutters

\* Somebody else's transfer is nothing the promise speaks of.
LEMMA OutsideCommitsNothing ==
  ASSUME NEW from \in Accounts, NEW to \in Accounts, NEW amount \in 1 .. MaxGift,
         Outside(from, to, amount)
  PROVE  UNCHANGED Promise!promise
  <1>1. UNCHANGED <<now, vault, frames>> /\ (frames = <<>> => flow' = flow)
    BY DEF Outside, Gain
  <1>2. Committed'.vault = Committed.vault /\ Committed'.flow = Committed.flow
    BY <1>1 DEF Committed
  <1> QED BY <1>1, <1>2, CommittedStutters

\* The vault implements the promise (GrantVault.sol 80-150): whatever the token
\* and its hooks do, every completed transaction is one indivisible deposit,
\* payment or revocation of the promised amount, and every other step of the
\* contract is a stutter of the promise.
THEOREM VaultImplementsPromise ==
  ASSUME BindingAssumption
  PROVE  Spec => ImplementsPromise
  <1>1. Init => Promise!Init
    <2> SUFFICES ASSUME Init
                 PROVE  Promise!Init
      OBVIOUS
    <2>1. Committed = [vault |-> NoVault, bal |-> bal, flow |-> NoFlow] /\ now \in Nat
      BY WidthAssumption DEF Init, Committed, Time
    <2> QED BY <2>1 DEF Promise!Init, NoVault, NoFlow, EmptyGrant
  <1>2. VaultInv /\ [Next]_vars => [Promise!Next]_(Promise!promise)
    <2> SUFFICES ASSUME VaultInv, [Next]_vars
                 PROVE  [Promise!Next]_(Promise!promise)
      OBVIOUS
    <2>1. ASSUME NEW b \in Accounts \cup {Zero}, NEW r \in Accounts \cup {Zero},
                 NEW terms \in Proposals, Construct(b, r, terms)
          PROVE  [Promise!Next]_(Promise!promise)
      BY <2>1, ConstructAgrees DEF Promise!Next
    <2>2. ASSUME nonReentrant
          PROVE  AtRest
      BY <2>2, InsideIsSound DEF VaultInv, Calling, nonReentrant
    <2>3. CASE Fund \/ Release \/ Cancel
      <3>1. AtRest
        BY <2>2, <2>3 DEF Fund, Release, Cancel
      <3> QED BY <2>3, <3>1, CallCommitsNothing DEF Fund, Release, Cancel
    <2>4. CASE CancelVested
      BY <2>4, CancelVestedRevokes DEF Promise!Next
    <2>5. CASE Finish
      BY <2>5, FinishCommits
    <2>6. CASE (\E fee \in 0 .. MaxFee, ok \in BOOLEAN : TokenMoves(fee, ok)) \/ TokenReturnsFalse
      BY <2>6, InsideCommitsNothing
    <2>7. CASE TokenReverts
      BY <2>7, RollbackCommitsNothing DEF TokenReverts
    <2>8. ASSUME NEW from \in Accounts, NEW to \in Accounts, NEW amount \in 1 .. MaxGift,
                  Outside(from, to, amount)
           PROVE  [Promise!Next]_(Promise!promise)
      BY <2>8, OutsideCommitsNothing
    <2>9. CASE Tick
      <3>1. now' > now
        BY <2>9, WidthAssumption DEF Tick, VaultInv
      <3>2. Committed' = Committed
        BY <2>9 DEF Tick, Committed
      <3> QED BY <3>1, <3>2 DEF Promise!Next, Promise!Elapse
    <2>10. CASE UNCHANGED vars
      <3>1. now' = now /\ Committed' = Committed
        BY <2>10 DEF vars, Committed
      <3> QED BY <3>1, CommittedStutters
    <2> QED BY <2>1, <2>3, <2>4, <2>5, <2>6, <2>7, <2>8, <2>9, <2>10 DEF Next
  <1> QED BY <1>1, <1>2, VaultInvariant, PTL DEF Spec, ImplementsPromise, Promise!Spec
=============================================================================
