----------------------- MODULE ContractLibrariesProofs -----------------------
(***************************************************************************)
(* The accounting library is safe for every width and every set of         *)
(* proposed terms, and the binary search finds the boundary between        *)
(* expired and live checkpoints in every array the contracts can hold, of  *)
(* any length.  The token's constructor accepts exactly the well-formed    *)
(* lists, and mints what they declare; the grant calendar's anniversaries  *)
(* are calendar dates of every start it accepts.                           *)
(***************************************************************************)
EXTENDS ContractLibraries, CurveProofs

----------------------------------------------------------------------------
(* The ledger.  ClaimNeverUnderflows is not inductive by itself: it is     *)
(* about all later times, which the invariant below reduces to the time of *)
(* the last transition, and CurveMonotone extends to every later one.      *)


\* The inductive invariant: typed storage, validated terms once initialized,
\* zeroed storage before, and at the last transition no more released than the
\* entitlement, with the refund the rest of a frozen allocation.
LedgerInv ==
  /\ TypeOK
  /\ grant.initialized => _validate(grant.terms)
  /\ ~ grant.initialized => grant = EmptyGrant
  /\ grant.released <= _entitlement(grant, grant.lastTransition)
  /\ grant.frozenEntitlement <= grant.terms.allocation
  /\ refunded = IF grant.cancelled THEN grant.terms.allocation - grant.frozenEntitlement ELSE 0

\* In a state of the invariant, the entitlement is an amount within the
\* allocation at every time, and never below the released amount from the last
\* transition on.
LEMMA EntitlementCovers ==
  ASSUME LedgerInv, grant.initialized, NEW t \in Time, t >= grant.lastTransition
  PROVE  /\ _entitlement(grant, t) \in Amount
         /\ _entitlement(grant, t) <= grant.terms.allocation
         /\ grant.released <= _entitlement(grant, t)
  <1>1. Sound(grant)
    BY DEF LedgerInv, TypeOK, Sound
  <1> QED BY <1>1, SoundCovers

\* The invariant holds in zeroed storage and every library call preserves it.
THEOREM LedgerInvariant == Spec => []LedgerInv
  <1>1. Init => LedgerInv
    <2> SUFFICES ASSUME Init PROVE LedgerInv
      OBVIOUS
    <2>1. _entitlement(EmptyGrant, 0) = 0
      BY DEF EmptyGrant, _entitlement, _curve
    <2> QED BY <2>1, EmptyGrantTyped, WidthAssumption
            DEF Init, LedgerInv, TypeOK, EmptyGrant, Amount
  <1>2. LedgerInv /\ [Next]_vars => LedgerInv'
    <2> SUFFICES ASSUME LedgerInv, [Next]_vars
                 PROVE  LedgerInv'
      OBVIOUS
    <2> USE WidthAssumption
    <2>0. grant \in Grant /\ refunded \in Amount
      BY DEF LedgerInv, TypeOK
    <2>1. ASSUME NEW terms \in Proposals, Initialize(terms)
          PROVE  LedgerInv'
      <3>1. terms \in Terms /\ _validate(terms) /\ grant = EmptyGrant
        BY <2>1, ProposalsAssumption DEF Initialize, InitializeAllowed, LedgerInv
      <3>2. grant' = [EmptyGrant EXCEPT !.terms = terms, !.initialized = TRUE, !.lastTransition = 0]
        BY <2>1, <3>1 DEF Initialize, initialize
      <3>3. grant' \in Grant
        <4>1. grant' = [terms |-> terms, released |-> 0, frozenEntitlement |-> 0,
                        lastTransition |-> 0, initialized |-> TRUE, cancelled |-> FALSE]
          BY <3>2 DEF EmptyGrant
        <4>2. 0 \in Amount /\ 0 \in Time
          BY DEF Amount, Time
        <4> QED BY <3>1, <4>1, <4>2 DEF Grant
      <3>4. /\ grant'.terms = terms /\ grant'.initialized /\ ~ grant'.cancelled
            /\ grant'.released = 0 /\ grant'.frozenEntitlement = 0 /\ grant'.lastTransition = 0
        BY <3>2 DEF EmptyGrant
      <3>5. _curve(terms, 0) = 0
        BY <3>1 DEF _curve, Terms, Time
      <3>6. refunded' = 0
        BY <2>1, <3>1 DEF Initialize, LedgerInv, EmptyGrant
      <3> QED BY <3>1, <3>3, <3>4, <3>5, <3>6
              DEF LedgerInv, TypeOK, _entitlement, Terms, Amount
    <2>2. ASSUME NEW time \in Time, NEW amount \in Amount, Release(time, amount)
          PROVE  LedgerInv'
      <3>1. /\ grant.initialized /\ time >= grant.lastTransition
            /\ amount <= available(grant, time)
            /\ grant' = [grant EXCEPT !.released = @ + amount, !.lastTransition = time]
            /\ refunded' = refunded
        BY <2>2 DEF Release, ReleaseAllowed, _requireCurrent, release
      <3>2. /\ _entitlement(grant, time) \in Amount
            /\ _entitlement(grant, time) <= grant.terms.allocation
            /\ grant.released <= _entitlement(grant, time)
        BY <3>1, EntitlementCovers
      <3>3. /\ grant'.terms = grant.terms /\ grant'.initialized = grant.initialized
            /\ grant'.cancelled = grant.cancelled
            /\ grant'.frozenEntitlement = grant.frozenEntitlement
            /\ grant'.released = grant.released + amount /\ grant'.lastTransition = time
        BY <2>0, <3>1 DEF Grant
      <3>4. grant'.released <= _entitlement(grant, time) /\ grant'.released \in Amount
        BY <2>0, <3>1, <3>2, <3>3 DEF available, Grant, Amount
      <3>5. grant' \in Grant
        BY <2>0, <3>1, <3>3, <3>4 DEF Grant
      <3>6. _entitlement(grant', time) = _entitlement(grant, time)
        BY <3>3 DEF _entitlement
      <3> QED BY <2>0, <3>1, <3>3, <3>4, <3>5, <3>6 DEF LedgerInv, TypeOK
    <2>3. ASSUME NEW time \in Time, Cancel(time)
          PROVE  LedgerInv'
      <3> DEFINE vested == _curve(grant.terms, time)
      <3>1. /\ grant.initialized /\ ~ grant.cancelled /\ time >= grant.lastTransition
            /\ grant' = [grant EXCEPT !.frozenEntitlement = vested,
                                      !.cancelled = TRUE, !.lastTransition = time]
            /\ refunded' = refunded + (grant.terms.allocation - vested)
        BY <2>3 DEF Cancel, CancelAllowed, cancel, refund
      <3>2. /\ vested \in Amount /\ vested <= grant.terms.allocation /\ grant.released <= vested
        BY <3>1, EntitlementCovers DEF _entitlement
      <3>3. /\ grant'.terms = grant.terms /\ grant'.initialized /\ grant'.cancelled
            /\ grant'.frozenEntitlement = vested
            /\ grant'.released = grant.released /\ grant'.lastTransition = time
        BY <2>0, <3>1 DEF Grant
      <3>4. grant' \in Grant
        BY <2>0, <3>1, <3>2, <3>3 DEF Grant
      <3>5. refunded' = grant.terms.allocation - vested /\ refunded' \in Amount
        BY <2>0, <3>1, <3>2 DEF LedgerInv, Grant, Terms, Amount
      <3> QED BY <3>1, <3>2, <3>3, <3>4, <3>5 DEF LedgerInv, TypeOK, _entitlement
    <2>4. CASE UNCHANGED vars
      BY <2>4 DEF vars, LedgerInv, TypeOK, _entitlement, _validate
    <2> QED BY <2>1, <2>2, <2>3, <2>4 DEF Next
  <1> QED BY <1>1, <1>2, PTL DEF Spec

\* The library's storage is well typed for every width: in particular no
\* amount ever exceeds a uint256.
THEOREM LedgerTyped == Spec => []TypeOK
  <1>1. LedgerInv => TypeOK
    BY DEF LedgerInv
  <1> QED BY <1>1, LedgerInvariant, PTL

\* No accepted history of initialize, release and cancel calls, at whatever
\* times, can make a later claim underflow.
THEOREM LedgerClaimSafe == Spec => []ClaimNeverUnderflows
  <1>1. LedgerInv => ClaimNeverUnderflows
    BY EntitlementCovers DEF ClaimNeverUnderflows, _requireCurrent
  <1> QED BY <1>1, LedgerInvariant, PTL

\* Releases and the refund never exceed the allocation, and a cancelled
\* allocation is split exactly.
THEOREM LedgerSplitsAllocation == Spec => []AllocationSplit
  <1>1. LedgerInv => AllocationSplit
    <2> SUFFICES ASSUME LedgerInv PROVE AllocationSplit
      OBVIOUS
    <2>0. grant \in Grant /\ refunded \in Amount /\ grant.terms \in Terms
      BY DEF LedgerInv, TypeOK, Grant
    <2>1. CASE ~ grant.initialized
      BY <2>1, WidthAssumption DEF LedgerInv, EmptyGrant, AllocationSplit
    <2>2. CASE grant.initialized
      <3>1. grant.released <= grant.terms.allocation
        BY <2>0, <2>2, EntitlementCovers, WidthAssumption DEF Grant, Amount, Terms, Time
      <3>2. grant.cancelled => grant.released <= grant.frozenEntitlement
        BY <2>0 DEF LedgerInv, _entitlement
      <3> QED BY <2>0, <3>1, <3>2, WidthAssumption DEF LedgerInv, AllocationSplit, Grant, Terms, Amount
    <2> QED BY <2>1, <2>2
  <1> QED BY <1>1, LedgerInvariant, PTL

\* No call changes the entitlement of a time it does not precede, or it freezes
\* it at the time of the call (94-108).
THEOREM LedgerFreezes == Spec => EntitlementOnlyFreezes
  <1> DEFINE Freezes ==
        grant.initialized =>
          \A t \in Time :
            t >= grant'.lastTransition =>
              _entitlement(grant', t) \in
                {_entitlement(grant, t), _entitlement(grant, grant'.lastTransition)}
  <1>1. LedgerInv /\ [Next]_vars => [Freezes]_vars
    <2> SUFFICES ASSUME LedgerInv, Next, grant.initialized, NEW t \in Time
                 PROVE  _entitlement(grant', t) \in
                          {_entitlement(grant, t), _entitlement(grant, grant'.lastTransition)}
      BY DEF vars
    <2>0. grant \in Grant
      BY DEF LedgerInv, TypeOK
    <2>1. ASSUME NEW terms \in Proposals, Initialize(terms)
          PROVE  FALSE
      BY <2>1 DEF Initialize, InitializeAllowed
    <2>2. ASSUME NEW time \in Time, NEW amount \in Amount, Release(time, amount)
          PROVE  _entitlement(grant', t) = _entitlement(grant, t)
      <3>1. grant' = [grant EXCEPT !.released = @ + amount, !.lastTransition = time]
        BY <2>2 DEF Release, release
      <3>2. /\ grant'.terms = grant.terms /\ grant'.cancelled = grant.cancelled
            /\ grant'.frozenEntitlement = grant.frozenEntitlement
        BY <2>0, <3>1 DEF Grant
      <3> QED BY <3>2 DEF _entitlement
    <2>3. ASSUME NEW time \in Time, Cancel(time)
          PROVE  _entitlement(grant', t) = _entitlement(grant, grant'.lastTransition)
      <3>1. /\ ~ grant.cancelled
            /\ grant' = [grant EXCEPT !.frozenEntitlement = _curve(grant.terms, time),
                                      !.cancelled = TRUE, !.lastTransition = time]
        BY <2>3 DEF Cancel, CancelAllowed, cancel
      <3>2. /\ grant'.cancelled /\ grant'.lastTransition = time
            /\ grant'.frozenEntitlement = _curve(grant.terms, time)
        BY <2>0, <3>1 DEF Grant
      <3> QED BY <3>1, <3>2 DEF _entitlement
    <2> QED BY <2>1, <2>2, <2>3 DEF Next
  <1>2. EntitlementOnlyFreezes <=> [][Freezes]_vars
    BY DEF EntitlementOnlyFreezes
  <1> QED BY <1>1, <1>2, LedgerInvariant, PTL DEF Spec

----------------------------------------------------------------------------
(* The search.  FindsBoundary says nothing while the search goes on; what  *)
(* every iteration keeps is that the boundary lies between low and high.   *)


\* The loop reads an ordered array of the contract, and its bounds close in on
\* the boundary.
SearchInv ==
  /\ cps \in Histories /\ cutoff \in Cutoffs
  /\ BoundsOK
  /\ Bracket

\* What the constants' assumption says of one array and cutoff.
LEMMA HistoryTyped ==
  ASSUME NEW h \in Histories, NEW c \in Cutoffs
  PROVE  /\ Len(h) \in Nat /\ DOMAIN h = 1 .. Len(h) /\ c \in Nat
         /\ \A k \in 1 .. Len(h) : h[k].timestamp \in Nat
         /\ \A k, j \in 1 .. Len(h) : k < j => h[k].timestamp < h[j].timestamp
  <1>1. h \in Seq(Checkpoint) /\ c \in Nat /\ Ordered(h)
    BY HistoriesAssumption
  <1>2. Len(h) \in Nat /\ DOMAIN h = 1 .. Len(h) /\ \A k \in 1 .. Len(h) : h[k] \in Checkpoint
    BY <1>1
  <1> QED BY <1>1, <1>2 DEF Ordered, Checkpoint

\* There is at most one boundary, so that UpperBound is whatever has its
\* property: of two candidates, the checkpoint after the smaller one would be
\* both live and expired.
LEMMA BoundaryUnique ==
  ASSUME NEW h \in Histories, NEW c \in Cutoffs, NEW n \in 0 .. Len(h),
         \A k \in 1 .. n : h[k].timestamp <= c,
         \A k \in n + 1 .. Len(h) : h[k].timestamp > c
  PROVE  UpperBound(h, c) = n
  <1> DEFINE Boundary(m) == /\ \A k \in 1 .. m : h[k].timestamp <= c
                            /\ \A k \in m + 1 .. Len(h) : h[k].timestamp > c
  <1>1. /\ Len(h) \in Nat /\ c \in Nat
        /\ \A k \in 1 .. Len(h) : h[k].timestamp \in Nat
    BY HistoryTyped
  <1>2. ASSUME NEW m \in 0 .. Len(h), Boundary(m)
        PROVE  m = n
    <2>1. CASE m < n
      <3>1. m + 1 \in 1 .. n /\ m + 1 \in m + 1 .. Len(h)
        BY <1>1, <2>1
      <3> QED BY <1>1, <1>2, <3>1
    <2>2. CASE n < m
      <3>1. n + 1 \in 1 .. m /\ n + 1 \in n + 1 .. Len(h)
        BY <1>1, <2>2
      <3> QED BY <1>1, <1>2, <3>1
    <2> QED BY <1>1, <2>1, <2>2
  <1>3. Boundary(n)
    OBVIOUS
  <1>4. UpperBound(h, c) = CHOOSE m \in 0 .. Len(h) : Boundary(m)
    BY DEF UpperBound
  <1> QED BY <1>2, <1>3, <1>4

\* The loop starts with everything between its bounds.
LEMMA SearchStarts == SearchInit => SearchInv
  <1> SUFFICES ASSUME SearchInit PROVE SearchInv
    OBVIOUS
  <1>1. cps \in Histories /\ cutoff \in Cutoffs /\ low = 0 /\ high = Len(cps) /\ Len(cps) \in Nat
    BY HistoryTyped DEF SearchInit
  <1> QED BY <1>1 DEF SearchInv, BoundsOK, Bracket

\* Every iteration keeps the boundary between its bounds: the array is ordered,
\* so all before an expired middle has expired and all after a live one is live.
LEMMA IterationBrackets == SearchInv /\ [Iterate]_searchVars => SearchInv'
  <1> SUFFICES ASSUME SearchInv, [Iterate]_searchVars PROVE SearchInv'
    OBVIOUS
  <1>1. CASE UNCHANGED searchVars
    BY <1>1 DEF SearchInv, BoundsOK, Bracket, searchVars
  <1>2. CASE Iterate
    <2> DEFINE At(k) == cps[k].timestamp
    <2>1. /\ Len(cps) \in Nat /\ cutoff \in Nat
          /\ \A k \in 1 .. Len(cps) : At(k) \in Nat
          /\ \A k, j \in 1 .. Len(cps) : k < j => At(k) < At(j)
      BY HistoryTyped DEF SearchInv
    <2>2. low \in Nat /\ high \in Nat /\ low < high /\ high <= Len(cps)
      BY <1>2, <2>1 DEF SearchInv, BoundsOK, Iterate
    <2>3. middle \in low .. high - 1
      BY <2>2 DEF middle
    <2>4. middle + 1 \in 1 .. Len(cps)
      BY <2>2, <2>3
    <2>5. UNCHANGED <<cps, cutoff>>
      BY <1>2 DEF Iterate
    <2>6. /\ \A k \in 1 .. low : At(k) <= cutoff
          /\ \A k \in high + 1 .. Len(cps) : At(k) > cutoff
      BY DEF SearchInv, Bracket
    <2>7. CASE Expired
      <3>1. low' = middle + 1 /\ high' = high /\ At(middle + 1) <= cutoff
        BY <1>2, <2>7 DEF Iterate, Expired
      <3>2. \A k \in 1 .. middle + 1 : At(k) <= cutoff
        <4> TAKE k \in 1 .. middle + 1
        <4>1. k \in 1 .. Len(cps) /\ (k = middle + 1 \/ k < middle + 1)
          BY <2>2, <2>3
        <4> HIDE DEF At
        <4> QED BY <2>1, <2>4, <3>1, <4>1
      <3>3. BoundsOK'
        BY <2>2, <2>3, <2>5, <3>1 DEF BoundsOK
      <3> QED BY <2>5, <2>6, <3>1, <3>2, <3>3 DEF SearchInv, Bracket
    <2>8. CASE ~ Expired
      <3>1. low' = low /\ high' = middle /\ At(middle + 1) > cutoff
        BY <1>2, <2>1, <2>4, <2>8 DEF Iterate, Expired
      <3>2. \A k \in middle + 1 .. Len(cps) : At(k) > cutoff
        <4> TAKE k \in middle + 1 .. Len(cps)
        <4>1. k \in 1 .. Len(cps) /\ (k = middle + 1 \/ middle + 1 < k)
          BY <2>2, <2>3
        <4> HIDE DEF At
        <4> QED BY <2>1, <2>4, <3>1, <4>1
      <3>3. BoundsOK'
        BY <2>2, <2>3, <2>5, <3>1 DEF BoundsOK
      <3> QED BY <2>5, <2>6, <3>1, <3>2, <3>3 DEF SearchInv, Bracket
    <2> QED BY <2>7, <2>8
  <1> QED BY <1>1, <1>2

\* A search whose bounds have met stands at the only boundary.
LEMMA BracketFindsBoundary == SearchInv => FindsBoundary
  <1> SUFFICES ASSUME SearchInv, low >= high PROVE low = UpperBound(cps, cutoff)
    BY DEF FindsBoundary
  <1>1. cps \in Histories /\ cutoff \in Cutoffs /\ Len(cps) \in Nat
    BY HistoryTyped DEF SearchInv
  <1>2. low = high /\ low \in 0 .. Len(cps)
    BY <1>1 DEF SearchInv, BoundsOK
  <1>3. /\ \A k \in 1 .. low : cps[k].timestamp <= cutoff
        /\ \A k \in low + 1 .. Len(cps) : cps[k].timestamp > cutoff
    BY <1>2 DEF SearchInv, Bracket
  <1> QED BY <1>1, <1>2, <1>3, BoundaryUnique

\* The loop never reads outside the array and never loses the boundary
\* (PurposeReserveVault.sol 120-128, ReserveController.sol 96-105).
THEOREM SearchInvariant == SearchSpec => []SearchInv
  <1> QED BY SearchStarts, IterationBrackets, PTL DEF SearchSpec

\* The search finds the boundary between expired and live checkpoints, for
\* every array of checkpoints in block order and every cutoff.
THEOREM SearchFindsBoundary == SearchSpec => []FindsBoundary
  <1> QED BY SearchInvariant, BracketFindsBoundary, PTL

----------------------------------------------------------------------------
(* The token's constructor.  Its checks see the list one allocation at a   *)
(* time and add up modulo the width; its promise is about whole lists.     *)

Allocations == Seq(Genesis!Allocation)

\* The amounts that a set of positions of a list adds up to.
Amounts(list, K) == MapThenSumSet(LAMBDA k : list[k].amount, K)

\* The parts of an allocation.
LEMMA AllocationTyped ==
  ASSUME NEW list \in Allocations, NEW k \in 1 .. Len(list)
  PROVE  /\ list[k].id \in Nat /\ list[k].amount \in Nat /\ list[k].amount <= MaxUint
         /\ list[k].recipient \in Recipients \cup {Genesis!Zero}
  <1>1. list[k] \in Genesis!Allocation
    BY DEF Allocations
  <1>2. MaxUint \in Nat
    BY LibrariesAssumption
  <1> QED BY <1>1, <1>2 DEF Genesis!Allocation

\* The fold over positions is the sum of the amounts there.
LEMMA AmountsAddUp ==
  ASSUME NEW list \in Allocations, NEW K \in SUBSET (1 .. Len(list))
  PROVE  /\ IsFiniteSet(K)
         /\ \E h : Sums(h, [k \in 1 .. Len(list) |-> list[k].amount], K)
                   /\ Amounts(list, K) = h[K]
  <1> DEFINE g == [k \in 1 .. Len(list) |-> list[k].amount]
             Turn(h, U) == IF U = {} THEN 0
                           ELSE list[CHOOSE x \in U : TRUE].amount
                                + h[U \ {CHOOSE x \in U : TRUE}]
             F == CHOOSE h : h = [U \in SUBSET K |-> Turn(h, U)]
  <1>0. Len(list) \in Nat
    BY DEF Allocations
  <1>1. IsFiniteSet(K)
    <2>1. IsFiniteSet(1 .. Len(list))
      BY <1>0, FS_Interval
    <2> QED BY <2>1, FS_Subset
  <1>2. Amounts(list, K) = F[K]
    BY DEF Amounts, MapThenSumSet, MapThenFoldSet
  <1>3. \A U \in SUBSET K : U # {} => g[Chosen(U)] = list[CHOOSE x \in U : TRUE].amount
    BY ChosenIsIn DEF Chosen
  <1>4. \A x \in K : g[x] \in Int
    BY AllocationTyped
  <1> HIDE DEF g
  <1>5. ASSUME NEW h
        PROVE  \A U \in SUBSET K : Turn(h, U)
                 = IF U = {} THEN 0 ELSE g[Chosen(U)] + h[U \ {Chosen(U)}]
    BY <1>3 DEF Chosen
  <1> HIDE DEF Turn
  <1>6. ASSUME NEW h
        PROVE  SumsByChoice(h, g, K) <=> h = [U \in SUBSET K |-> Turn(h, U)]
    BY <1>5 DEF SumsByChoice
  <1>7. F = [U \in SUBSET K |-> Turn(F, U)]
    <2>1. PICK m : m = [U \in SUBSET K |-> Turn(m, U)]
      BY <1>1, <1>4, <1>6, SumsByChoiceExists
    <2> QED BY <2>1
  <1> HIDE DEF F
  <1>8. SumsByChoice(F, g, K)
    BY <1>6, <1>7
  <1>9. Sums(F, g, K)
    BY <1>1, <1>4, <1>8, SumsByChoiceSums
  <1> QED BY <1>1, <1>2, <1>9 DEF g

\* One position more adds its amount.
LEMMA AmountsOfMore ==
  ASSUME NEW list \in Allocations, NEW K \in SUBSET (1 .. Len(list)), NEW x \in K
  PROVE  Amounts(list, K) = list[x].amount + Amounts(list, K \ {x})
  <1> DEFINE g == [k \in 1 .. Len(list) |-> list[k].amount]
  <1>1. K \ {x} \in SUBSET (1 .. Len(list))
    OBVIOUS
  <1>2. IsFiniteSet(K)
    BY AmountsAddUp
  <1>3. PICK h : Sums(h, g, K) /\ Amounts(list, K) = h[K]
    BY AmountsAddUp
  <1>4. PICK m : Sums(m, g, K \ {x}) /\ Amounts(list, K \ {x}) = m[K \ {x}]
    BY <1>1, AmountsAddUp
  <1>5. g[x] = list[x].amount
    OBVIOUS
  <1> HIDE DEF g
  <1>6. h[K] = g[x] + m[K \ {x}]
    BY <1>2, <1>3, <1>4, SumWithout
  <1> QED BY <1>3, <1>4, <1>5, <1>6

\* Amounts add up to a number, none to zero.
LEMMA AmountsTyped ==
  ASSUME NEW list \in Allocations, NEW K \in SUBSET (1 .. Len(list))
  PROVE  Amounts(list, K) \in Int /\ Amounts(list, {}) = 0
  <1>1. PICK h : /\ Sums(h, [k \in 1 .. Len(list) |-> list[k].amount], K)
                 /\ Amounts(list, K) = h[K]
    BY AmountsAddUp
  <1>2. PICK z : /\ Sums(z, [k \in 1 .. Len(list) |-> list[k].amount], {})
                 /\ Amounts(list, {}) = z[{}]
    BY AmountsAddUp
  <1> QED BY <1>1, <1>2 DEF Sums

\* The list up to its n-th allocation, and what it gives a recipient.
Upto(list, n) == Amounts(list, 1 .. n)
ShareUpto(list, r, n) == Amounts(list, {k \in 1 .. n : list[k].recipient = r})

\* One allocation more.
LEMMA UptoNext ==
  ASSUME NEW list \in Allocations, NEW n \in Nat, n < Len(list)
  PROVE  /\ Upto(list, n) \in Int /\ Upto(list, n + 1) \in Int
         /\ Upto(list, n + 1) = Upto(list, n) + list[n + 1].amount
         /\ \A r : /\ ShareUpto(list, r, n) \in Int
                   /\ ShareUpto(list, r, n + 1)
                        = IF list[n + 1].recipient = r
                            THEN ShareUpto(list, r, n) + list[n + 1].amount
                            ELSE ShareUpto(list, r, n)
  <1>1. /\ Len(list) \in Nat /\ n + 1 \in 1 .. Len(list)
        /\ 1 .. n \in SUBSET (1 .. Len(list)) /\ 1 .. n + 1 \in SUBSET (1 .. Len(list))
        /\ n + 1 \in 1 .. n + 1 /\ (1 .. n + 1) \ {n + 1} = 1 .. n
    BY DEF Allocations
  <1>2. list[n + 1].amount \in Int
    BY <1>1, AllocationTyped
  <1>3. Upto(list, n) \in Int /\ Upto(list, n + 1) \in Int
    BY <1>1, AmountsTyped DEF Upto
  <1>4. Upto(list, n + 1) = list[n + 1].amount + Upto(list, n)
    BY <1>1, AmountsOfMore DEF Upto
  <1>5. ASSUME NEW r
        PROVE  /\ ShareUpto(list, r, n) \in Int
               /\ ShareUpto(list, r, n + 1)
                    = IF list[n + 1].recipient = r
                        THEN ShareUpto(list, r, n) + list[n + 1].amount
                        ELSE ShareUpto(list, r, n)
    <2> DEFINE K == {k \in 1 .. n : list[k].recipient = r}
               L == {k \in 1 .. n + 1 : list[k].recipient = r}
    <2>1. K \in SUBSET (1 .. Len(list)) /\ L \in SUBSET (1 .. Len(list))
      BY <1>1
    <2>2. Amounts(list, K) \in Int
      BY <2>1, AmountsTyped
    <2>3. CASE list[n + 1].recipient = r
      <3>1. n + 1 \in L /\ L \ {n + 1} = K
        BY <1>1, <2>3
      <3>2. Amounts(list, L) = list[n + 1].amount + Amounts(list, K)
        BY <2>1, <3>1, AmountsOfMore
      <3> QED BY <1>2, <2>2, <2>3, <3>2 DEF ShareUpto
    <2>4. CASE list[n + 1].recipient # r
      <3>1. L = K
        BY <1>1, <2>4
      <3> HIDE DEF L, K
      <3>2. Amounts(list, L) = Amounts(list, K)
        BY <3>1
      <3> QED BY <2>2, <2>4, <3>2 DEF ShareUpto, L, K
    <2> QED BY <2>3, <2>4
  <1> QED BY <1>2, <1>3, <1>4, <1>5

\* Nothing up to the first allocation.
LEMMA UptoNothing ==
  ASSUME NEW list \in Allocations
  PROVE  Upto(list, 0) = 0 /\ \A r : ShareUpto(list, r, 0) = 0
  <1>1. 1 .. 0 = {} /\ {} \in SUBSET (1 .. Len(list))
    OBVIOUS
  <1>2. Amounts(list, {}) = 0
    BY <1>1, AmountsTyped
  <1>3. \A r : {k \in 1 .. 0 : list[k].recipient = r} = {}
    BY <1>1
  <1> QED BY <1>1, <1>2, <1>3 DEF Upto, ShareUpto

\* The sums of a list never go down.
LEMMA UptoMonotone ==
  ASSUME NEW list \in Allocations, NEW n \in 0 .. Len(list), NEW m \in n .. Len(list)
  PROVE  Upto(list, n) <= Upto(list, m) /\ Upto(list, m) \in Int
  <1> DEFINE Bad == {x \in n .. Len(list) : ~ (Upto(list, n) <= Upto(list, x))}
  <1>0. Len(list) \in Nat /\ n \in Nat /\ m \in Nat
    BY DEF Allocations
  <1>1. \A x \in 0 .. Len(list) : Upto(list, x) \in Int
    <2> TAKE x \in 0 .. Len(list)
    <2>1. 1 .. x \in SUBSET (1 .. Len(list))
      BY <1>0
    <2> QED BY <2>1, AmountsTyped DEF Upto
  <1>2. Bad = {}
    <2>1. SUFFICES ASSUME Bad # {}
                   PROVE  FALSE
      OBVIOUS
    <2>2. Bad \in SUBSET Nat
      BY <1>0
    <2>3. PICK x \in Bad : \A y \in Bad : x <= y
      BY <2>1, <2>2, LeastNumber
    <2>4. x \in n .. Len(list) /\ x \in Nat /\ ~ (Upto(list, n) <= Upto(list, x))
      BY <1>0, <2>3
    <2>5. x # n
      BY <1>0, <1>1, <2>4
    <2> DEFINE y == x - 1
    <2>6. y \in n .. Len(list) /\ y \in Nat /\ y < Len(list) /\ y + 1 = x /\ ~ (x <= y)
      BY <1>0, <2>4, <2>5
    <2>7. Upto(list, n) <= Upto(list, y)
      BY <2>3, <2>6
    <2> HIDE DEF y
    <2>8. Upto(list, x) = Upto(list, y) + list[x].amount /\ Upto(list, y) \in Int
      BY <2>6, UptoNext
    <2>9. list[x].amount \in Nat
      BY <1>0, <2>4, <2>6, AllocationTyped
    <2>10. Upto(list, n) \in Int
      BY <1>0, <1>1
    <2> QED BY <2>4, <2>7, <2>8, <2>9, <2>10
  <1> QED BY <1>0, <1>1, <1>2

\* Unchecked addition of two amounts goes down exactly when it overflows.
LEMMA AdditionWraps ==
  ASSUME NEW x \in Nat, NEW y \in Nat, NEW w \in Nat, x <= w, y <= w
  PROVE  IF x + y <= w THEN (x + y) % (w + 1) = x + y
         ELSE ~ ((x + y) % (w + 1) >= x)
  <1> DEFINE a == x + y
             d == w + 1
  <1>1. a \in Nat /\ d \in Nat /\ d > 0
    OBVIOUS
  <1>2. /\ a \div d \in Nat /\ a % d \in Nat /\ a % d < d /\ a = d * (a \div d) + (a % d)
    BY <1>1, DivMod
  <1>3. CASE a <= w
    <2>1. a \div d = 0
      <3>1. a = d * 0 + a /\ a < d
        BY <1>1, <1>3
      <3> HIDE DEF a, d
      <3> QED BY <1>1, <3>1, DivUnique
    <2>2. d * 0 = 0
      BY <1>1
    <2> HIDE DEF a, d
    <2>3. a = a % d
      BY <1>1, <1>2, <2>1, <2>2
    <2> QED BY <1>3, <2>3 DEF a, d
  <1>4. CASE ~ (a <= w)
    <2> DEFINE b == a - d
    <2>1. b \in Nat /\ b < d /\ a = d * 1 + b /\ b < x
      BY <1>1, <1>4
    <2>2. a \div d = 1
      <3> HIDE DEF a, d, b
      <3> QED BY <1>1, <2>1, DivUnique
    <2>3. d * 1 = d
      BY <1>1
    <2>4. a % d = b
      <3> HIDE DEF a, d
      <3> QED BY <1>1, <1>2, <2>2, <2>3
    <2> QED BY <1>4, <2>1, <2>4
  <1> QED BY <1>3, <1>4

\* What the checks have made sure of the first n allocations.
Checked(list, n) ==
  /\ \A k \in 1 .. n : list[k].id # 0 /\ list[k].recipient # Genesis!Zero /\ list[k].amount # 0
  /\ \A k, l \in 1 .. n :
       k < l => list[k].id < list[l].id /\ list[k].recipient # list[l].recipient

\* A list that adds up to the supply, and passes.
Declares(list, supply) ==
  Len(list) \in 1 .. MAX_GENESIS_ALLOCATIONS /\ Checked(list, Len(list))
  /\ Upto(list, Len(list)) = supply

\* While it checks, the constructor has summed what it has checked, without an
\* overflow; what it mints it has found well formed, and what it refuses is not.
GenesisInv ==
  /\ initialSupply \in Nat /\ initialSupply <= MaxUint
  /\ sortedAllocations \in Allocations
  /\ i \in 0 .. Len(sortedAllocations)
  /\ stage = "check" =>
       /\ i > 0 => /\ Len(sortedAllocations) <= MAX_GENESIS_ALLOCATIONS
                  /\ previousId = sortedAllocations[i].id
       /\ Checked(sortedAllocations, i)
       /\ sum = Upto(sortedAllocations, i) /\ sum \in Nat /\ sum <= MaxUint
       /\ totalSupply = 0 /\ bal = [r \in Recipients |-> 0]
  /\ stage \in {"mint", "deployed"} =>
       /\ Declares(sortedAllocations, initialSupply)
       /\ totalSupply = Upto(sortedAllocations, i)
       /\ bal \in [Recipients -> Int]
       /\ \A r \in Recipients : bal[r] = ShareUpto(sortedAllocations, r, i)
       /\ stage = "deployed" => i = Len(sortedAllocations)
  /\ stage = "reverted" =>
       ~ Declares(sortedAllocations, initialSupply) /\ totalSupply = 0
  /\ stage \in {"check", "mint", "deployed", "reverted"}

\* The reference's sums, in these terms.
LEMMA TotalIsUpto == Genesis!Total = Upto(sortedAllocations, Len(sortedAllocations))
  BY DEF Genesis!Total, Genesis!count, Genesis!MapThenSumSet, Genesis!MapThenFoldSet,
         Upto, Amounts, MapThenSumSet, MapThenFoldSet

\* And a recipient's share.
LEMMA ShareIsShareUpto ==
  \A r : Genesis!Share(r) = ShareUpto(sortedAllocations, r, Len(sortedAllocations))
  BY DEF Genesis!Share, Genesis!count, Genesis!MapThenSumSet, Genesis!MapThenFoldSet,
         ShareUpto, Amounts, MapThenSumSet, MapThenFoldSet

\* Well-formedness, in these terms.
LEMMA WellFormedDeclares == Genesis!WellFormed <=> Declares(sortedAllocations, initialSupply)
  BY TotalIsUpto DEF Genesis!WellFormed, Genesis!count, Declares, Checked

\* A constructor that starts has checked nothing; one that rests refused an
\* empty list.
LEMMA GenesisStarts == LibrariesInit => GenesisInv
  <1> SUFFICES ASSUME LibrariesInit PROVE GenesisInv
    OBVIOUS
  <1>1. CASE Genesis!Init
    <2>1. /\ initialSupply \in 0 .. MaxUint /\ sortedAllocations \in Lists
          /\ stage = "check" /\ i = 0 /\ sum = 0
          /\ bal = [r \in Recipients |-> 0] /\ totalSupply = 0
      BY <1>1 DEF Genesis!Init
    <2>2. sortedAllocations \in Allocations /\ MaxUint \in Nat
      BY <2>1, LibrariesAssumption DEF Allocations
    <2>3. Len(sortedAllocations) \in Nat
      BY <2>2 DEF Allocations
    <2>4. Upto(sortedAllocations, 0) = 0
      BY <2>2, UptoNothing
    <2>5. Checked(sortedAllocations, 0)
      BY DEF Checked
    <2> QED BY <2>1, <2>2, <2>3, <2>4, <2>5 DEF GenesisInv
  <1>2. CASE GenesisRests
    <2>1. /\ initialSupply = 0 /\ sortedAllocations = <<>> /\ stage = "reverted"
          /\ i = 0 /\ totalSupply = 0 /\ MaxUint \in Nat
      BY <1>2, LibrariesAssumption DEF GenesisRests
    <2>2. sortedAllocations \in Allocations /\ Len(sortedAllocations) = 0
      BY <2>1 DEF Allocations
    <2>3. ~ Declares(sortedAllocations, initialSupply)
      BY <2>2, LibrariesAssumption DEF Declares
    <2> QED BY <2>1, <2>2, <2>3 DEF GenesisInv
  <1> QED BY <1>1, <1>2 DEF LibrariesInit

\* One more allocation passes: the prefix of passed ones grows.
LEMMA PrefixGrows ==
  ASSUME GenesisInv, stage = "check", i < Len(sortedAllocations),
         Genesis!Admissible
  PROVE  Checked(sortedAllocations, i + 1)
  <1> DEFINE list == sortedAllocations
  <1>1. /\ list \in Allocations /\ Len(list) \in Nat /\ i \in Nat /\ Checked(list, i)
        /\ i > 0 => previousId = list[i].id
    BY DEF GenesisInv, Allocations
  <1>2. /\ list[i + 1].id # 0 /\ list[i + 1].recipient # Genesis!Zero /\ list[i + 1].amount # 0
        /\ i # 0 => list[i + 1].id > previousId
        /\ \A j \in 1 .. i : list[j].recipient # list[i + 1].recipient
    BY DEF Genesis!Admissible, Genesis!allocation
  <1>3. ASSUME NEW k \in 1 .. i
        PROVE  list[k].id < list[i + 1].id
    <2>1. /\ i > 0 /\ i \in 1 .. Len(list) /\ k \in 1 .. Len(list) /\ i + 1 \in 1 .. Len(list)
      BY <1>1
    <2>2. list[k].id \in Nat /\ list[i].id \in Nat /\ list[i + 1].id \in Nat
      BY <1>1, <2>1, AllocationTyped
    <2>3. list[i].id < list[i + 1].id
      BY <1>1, <1>2, <2>1, <2>2
    <2>4. CASE k = i
      BY <2>3, <2>4
    <2>5. CASE k < i
      <3>1. list[k].id < list[i].id
        BY <1>1, <2>1, <2>5 DEF Checked
      <3> QED BY <2>2, <2>3, <3>1
    <2> QED BY <1>1, <2>4, <2>5
  <1> HIDE DEF list
  <1>4. ASSUME NEW k \in 1 .. i + 1
        PROVE  k \in 1 .. i \/ k = i + 1
    BY <1>1
  <1>5. \A k \in 1 .. i + 1 :
          list[k].id # 0 /\ list[k].recipient # Genesis!Zero /\ list[k].amount # 0
    BY <1>1, <1>2, <1>4 DEF Checked
  <1>6. ASSUME NEW k \in 1 .. i + 1, NEW l \in 1 .. i + 1, k < l
        PROVE  list[k].id < list[l].id /\ list[k].recipient # list[l].recipient
    <2>1. k \in 1 .. i
      BY <1>1, <1>6
    <2>2. CASE l = i + 1
      BY <1>2, <1>3, <2>1, <2>2
    <2>3. CASE l \in 1 .. i
      BY <1>1, <1>6, <2>1, <2>3 DEF Checked
    <2> QED BY <1>4, <2>2, <2>3
  <1> QED BY <1>5, <1>6 DEF Checked, list

\* The unchecked sum goes on, or it overflows and the whole list does.
LEMMA SumGrows ==
  ASSUME GenesisInv, stage = "check", i < Len(sortedAllocations)
  PROVE  /\ Genesis!nextSum >= sum =>
              /\ Genesis!nextSum = Upto(sortedAllocations, i + 1)
              /\ Genesis!nextSum \in Nat /\ Genesis!nextSum <= MaxUint
         /\ ~ (Genesis!nextSum >= sum) => ~ Declares(sortedAllocations, initialSupply)
  <1> DEFINE list == sortedAllocations
             amount == list[i + 1].amount
  <1>1. /\ list \in Allocations /\ Len(list) \in Nat /\ i \in Nat /\ i + 1 \in 1 .. Len(list)
        /\ sum = Upto(list, i) /\ sum \in Nat /\ sum <= MaxUint
        /\ MaxUint \in Nat /\ initialSupply \in Nat /\ initialSupply <= MaxUint
    BY LibrariesAssumption DEF GenesisInv, Allocations
  <1>2. amount \in Nat /\ amount <= MaxUint
    BY <1>1, AllocationTyped
  <1>3. Genesis!nextSum = (sum + amount) % (MaxUint + 1)
    BY DEF Genesis!nextSum, Genesis!allocation
  <1>4. Upto(list, i + 1) = sum + amount
    BY <1>1, UptoNext
  <1> HIDE DEF amount
  <1>5. CASE sum + amount <= MaxUint
    <2>1. Genesis!nextSum = sum + amount
      BY <1>1, <1>2, <1>3, <1>5, AdditionWraps
    <2> QED BY <1>1, <1>2, <1>4, <1>5, <2>1
  <1>6. CASE ~ (sum + amount <= MaxUint)
    <2>1. ~ (Genesis!nextSum >= sum)
      BY <1>1, <1>2, <1>3, <1>6, AdditionWraps
    <2>2. /\ i + 1 \in 0 .. Len(list) /\ Len(list) \in (i + 1) .. Len(list)
      BY <1>1
    <2>3. Upto(list, i + 1) <= Upto(list, Len(list)) /\ Upto(list, Len(list)) \in Int
      BY <1>1, <2>2, UptoMonotone
    <2>4. Upto(list, Len(list)) # initialSupply
      BY <1>1, <1>2, <1>4, <1>6, <2>3
    <2> QED BY <2>1, <2>4 DEF Declares
  <1> QED BY <1>5, <1>6

\* An allocation that does not pass is in no list that does.
LEMMA RefusedIsIllFormed ==
  ASSUME GenesisInv, stage = "check", i < Len(sortedAllocations), ~ Genesis!Admissible
  PROVE  ~ Declares(sortedAllocations, initialSupply)
  <1> DEFINE list == sortedAllocations
  <1>1. /\ list \in Allocations /\ Len(list) \in Nat /\ i \in Nat /\ i + 1 \in 1 .. Len(list)
        /\ i > 0 => previousId = list[i].id
    BY DEF GenesisInv, Allocations
  <1>2. SUFFICES ASSUME Declares(list, initialSupply) PROVE FALSE
    OBVIOUS
  <1>3. Checked(list, Len(list))
    BY <1>2 DEF Declares
  <1>4. list[i + 1].id # 0 /\ list[i + 1].recipient # Genesis!Zero /\ list[i + 1].amount # 0
    BY <1>1, <1>3 DEF Checked
  <1>5. ASSUME NEW k \in 1 .. i
        PROVE  list[k].id < list[i + 1].id /\ list[k].recipient # list[i + 1].recipient
    <2>1. k \in 1 .. Len(list) /\ k < i + 1
      BY <1>1
    <2> QED BY <1>1, <1>3, <2>1 DEF Checked
  <1>6. i # 0 => list[i + 1].id > previousId
    <2>1. SUFFICES ASSUME i # 0 PROVE list[i + 1].id > previousId
      OBVIOUS
    <2>2. i \in 1 .. i /\ i > 0 /\ i \in 1 .. Len(list)
      BY <1>1, <2>1
    <2>3. list[i].id < list[i + 1].id /\ list[i].id \in Nat /\ list[i + 1].id \in Nat
      BY <1>1, <1>5, <2>2, AllocationTyped
    <2> QED BY <1>1, <2>2, <2>3
  <1>7. Genesis!nextSum >= sum
    BY <1>2, SumGrows
  <1> QED BY <1>4, <1>5, <1>6, <1>7 DEF Genesis!Admissible, Genesis!allocation

\* Every step of the constructor keeps the invariant, and nothing else touches it.
LEMMA GenesisKeeps == GenesisInv /\ [LibrariesNext]_libraryVars => GenesisInv'
  <1> SUFFICES ASSUME GenesisInv, [LibrariesNext]_libraryVars PROVE GenesisInv'
    OBVIOUS
  <1> DEFINE list == sortedAllocations
  <1>0. /\ list \in Allocations /\ Len(list) \in Nat /\ i \in Nat /\ i \in 0 .. Len(list)
    BY DEF GenesisInv, Allocations
  <1>1. CASE UNCHANGED genesisVars
    BY <1>1 DEF GenesisInv, genesisVars
  <1>2. CASE Account \/ Search \/ FindYear
    BY <1>1, <1>2 DEF Account, Search, FindYear
  <1>3. CASE UNCHANGED libraryVars
    BY <1>1, <1>3 DEF libraryVars
  <1>4. ASSUME Genesis!Revert, stage = "check", ~ Declares(list, initialSupply)
        PROVE  GenesisInv'
    BY <1>4 DEF GenesisInv, Genesis!Revert
  <1>5. CASE Genesis!RefuseLength
    <2>1. stage = "check" /\ Genesis!Revert /\ Len(list) \notin 1 .. MAX_GENESIS_ALLOCATIONS
      BY <1>5 DEF Genesis!RefuseLength, Genesis!count
    <2> QED BY <1>4, <2>1 DEF Declares
  <1>6. CASE Genesis!Check
    <2>1. stage = "check" /\ i < Len(list) /\ Len(list) <= MAX_GENESIS_ALLOCATIONS
      BY <1>6 DEF Genesis!Check, Genesis!count
    <2>2. CASE Genesis!Admissible
      <3>1. /\ i' = i + 1 /\ sum' = Genesis!nextSum /\ previousId' = list[i + 1].id
            /\ UNCHANGED <<initialSupply, sortedAllocations, stage, bal, totalSupply>>
        BY <1>6, <2>2 DEF Genesis!Check, Genesis!allocation
      <3>2. Checked(list, i + 1)
        BY <2>1, <2>2, PrefixGrows
      <3>3. /\ sum' = Upto(list, i + 1) /\ sum' \in Nat /\ sum' <= MaxUint
        BY <2>1, <2>2, <3>1, SumGrows DEF Genesis!Admissible
      <3>4. i + 1 \in 0 .. Len(list)
        BY <1>0, <2>1
      <3> QED BY <1>0, <2>1, <3>1, <3>2, <3>3, <3>4 DEF GenesisInv
    <2>3. CASE ~ Genesis!Admissible
      <3>1. Genesis!Revert
        BY <1>6, <2>3 DEF Genesis!Check
      <3> QED BY <1>4, <2>1, <2>3, <3>1, RefusedIsIllFormed
    <2> QED BY <2>2, <2>3
  <1>7. CASE Genesis!Balance
    <2>1. stage = "check" /\ i = Len(list) /\ i > 0 /\ sum = Upto(list, Len(list))
      BY <1>7 DEF Genesis!Balance, Genesis!count, GenesisInv
    <2>2. CASE sum = initialSupply
      <3>1. /\ stage' = "mint" /\ i' = 0
            /\ UNCHANGED <<initialSupply, sortedAllocations, bal, totalSupply>>
        BY <1>7, <2>2 DEF Genesis!Balance
      <3>2. Declares(list, initialSupply)
        BY <1>0, <2>1, <2>2, LibrariesAssumption DEF GenesisInv, Declares
      <3>3. /\ Upto(list, 0) = 0 /\ \A r : ShareUpto(list, r, 0) = 0
        BY <1>0, UptoNothing
      <3>4. totalSupply = 0 /\ bal = [r \in Recipients |-> 0]
        BY <2>1 DEF GenesisInv
      <3>5. bal \in [Recipients -> Int] /\ \A r \in Recipients : bal[r] = 0
        BY <3>4
      <3> QED BY <1>0, <3>1, <3>2, <3>3, <3>4, <3>5 DEF GenesisInv
    <2>3. CASE sum # initialSupply
      <3>1. Genesis!Revert
        BY <1>7, <2>3 DEF Genesis!Balance
      <3> QED BY <1>4, <2>1, <2>3, <3>1 DEF Declares
    <2> QED BY <2>2, <2>3
  <1>8. CASE Genesis!Mint
    <2> DEFINE to == list[i + 1].recipient
               amount == list[i + 1].amount
    <2>1. /\ stage = "mint" /\ i < Len(list) /\ i' = i + 1
          /\ bal' = [bal EXCEPT ![to] = @ + amount] /\ totalSupply' = totalSupply + amount
          /\ UNCHANGED <<initialSupply, sortedAllocations, stage>>
      BY <1>8 DEF Genesis!Mint, Genesis!count, Genesis!allocation
    <2>2. /\ Declares(list, initialSupply) /\ totalSupply = Upto(list, i)
          /\ bal \in [Recipients -> Int]
          /\ \A r \in Recipients : bal[r] = ShareUpto(list, r, i)
      BY <2>1 DEF GenesisInv
    <2>3. amount \in Nat
      BY <1>0, <2>1, AllocationTyped
    <2>4. /\ Upto(list, i + 1) = Upto(list, i) + amount
          /\ \A r : /\ ShareUpto(list, r, i) \in Int
                    /\ ShareUpto(list, r, i + 1)
                         = IF to = r THEN ShareUpto(list, r, i) + amount
                           ELSE ShareUpto(list, r, i)
      BY <1>0, <2>1, UptoNext
    <2> HIDE DEF to, amount
    <2>5. bal' \in [Recipients -> Int]
      <3>1. CASE to \in Recipients
        <4>1. bal[to] + amount \in Int
          BY <2>2, <2>3, <3>1
        <4> QED BY <2>1, <2>2, <4>1
      <3>2. CASE to \notin Recipients
        BY <2>1, <2>2, <3>2
      <3> QED BY <3>1, <3>2
    <2>6. \A r \in Recipients : bal'[r] = ShareUpto(list, r, i + 1)
      BY <2>1, <2>2, <2>3, <2>4
    <2>7. i + 1 \in 0 .. Len(list)
      BY <1>0, <2>1
    <2> QED BY <1>0, <2>1, <2>2, <2>4, <2>5, <2>6, <2>7 DEF GenesisInv
  <1>9. CASE Genesis!Deploy
    <2>1. /\ stage = "mint" /\ i = Len(list) /\ stage' = "deployed"
          /\ UNCHANGED <<initialSupply, sortedAllocations, i, bal, totalSupply>>
      BY <1>9 DEF Genesis!Deploy, Genesis!count
    <2> QED BY <2>1 DEF GenesisInv
  <1>10. CASE Deploy
    BY <1>5, <1>6, <1>7, <1>8, <1>9, <1>10 DEF Deploy, Genesis!Next
  <1> QED BY <1>2, <1>3, <1>10 DEF LibrariesNext

\* The constructor accepts exactly the well-formed lists, and what it deploys
\* has minted the declared supply and to each recipient its part, without an
\* overflow (36-87), for every width, every list and every length limit.
THEOREM TokenIsAsDeclared == LibrariesSpec => []GenesisIsDeclared
  <1>1. LibrariesSpec => []GenesisInv
    BY GenesisStarts, GenesisKeeps, PTL DEF LibrariesSpec
  <1>2. GenesisInv => GenesisIsDeclared
    <2> SUFFICES ASSUME GenesisInv PROVE GenesisIsDeclared
      OBVIOUS
    <2> DEFINE list == sortedAllocations
    <2>1. /\ list \in Allocations /\ Len(list) \in Nat /\ i \in 0 .. Len(list)
          /\ initialSupply \in Nat /\ initialSupply <= MaxUint /\ MaxUint \in Nat
      BY LibrariesAssumption DEF GenesisInv, Allocations
    <2>2. totalSupply <= MaxUint
      <3>1. CASE stage \in {"check", "reverted"}
        BY <2>1, <3>1 DEF GenesisInv
      <3>2. CASE stage \in {"mint", "deployed"}
        <4>1. totalSupply = Upto(list, i) /\ Upto(list, Len(list)) = initialSupply
          BY <3>2 DEF GenesisInv, Declares
        <4>2. Len(list) \in i .. Len(list) /\ i \in 0 .. i /\ 1 .. i \in SUBSET (1 .. Len(list))
          BY <2>1
        <4>3. Upto(list, i) <= Upto(list, Len(list)) /\ Upto(list, i) \in Int
          BY <2>1, <4>2, UptoMonotone, AmountsTyped DEF Upto
        <4> QED BY <2>1, <4>1, <4>3
      <3> QED BY <3>1, <3>2 DEF GenesisInv
    <2>3. ASSUME stage = "deployed"
          PROVE  /\ totalSupply = initialSupply /\ Genesis!Total = initialSupply
                 /\ \A r \in Recipients : bal[r] = Genesis!Share(r)
      <3>1. /\ Declares(list, initialSupply) /\ i = Len(list) /\ totalSupply = Upto(list, i)
            /\ \A r \in Recipients : bal[r] = ShareUpto(list, r, Len(list))
        BY <2>3 DEF GenesisInv
      <3>2. Upto(list, Len(list)) = initialSupply
        BY <3>1 DEF Declares
      <3>3. Genesis!Total = Upto(list, Len(list))
        BY TotalIsUpto
      <3>4. \A r : Genesis!Share(r) = ShareUpto(list, r, Len(list))
        BY ShareIsShareUpto
      <3> QED BY <3>1, <3>2, <3>3, <3>4
    <2>4. Genesis!MintsTheDeclaredSupply
      BY <2>2, <2>3 DEF Genesis!MintsTheDeclaredSupply
    <2>5. Genesis!AcceptsExactlyTheWellFormed
      BY WellFormedDeclares DEF GenesisInv, Genesis!AcceptsExactlyTheWellFormed
    <2> QED BY <2>4, <2>5 DEF GenesisIsDeclared, Genesis!GenesisIsDeclared
  <1> QED BY <1>1, <1>2, PTL

----------------------------------------------------------------------------
(* The calendar.  The year is found like the checkpoint boundary; that the *)
(* anniversaries are calendar dates is arithmetic over twelve months of a  *)
(* leap year or of another one, whatever the year.                         *)

Years == {y \in Nat : y >= 1970}

Leap(y) == y % 4 = 0 /\ (y % 100 # 0 \/ y % 400 = 0)

\* What the code and the calendar say of a year, in terms of leap years.
LEMMA YearsAreLeap ==
  ASSUME NEW y \in Years
  PROVE  /\ Calendar!_yearDay(y) \in Int
         /\ Calendar!_leap(y) = Leap(y)
         /\ Calendar!MonthLength(y, 2) = IF Leap(y) THEN 29 ELSE 28
         /\ Calendar!YearLength(y) = IF Leap(y) THEN 366 ELSE 365
         /\ Calendar!_yearDay(y + 1) - Calendar!_yearDay(y) = Calendar!YearLength(y)
  <1>1. y \in Nat /\ y >= 1970
    BY DEF Years
  <1>2. Calendar!_leap(y) = Leap(y)
    BY DEF Calendar!_leap, Leap
  <1>3. Calendar!MonthLength(y, 2) = IF Leap(y) THEN 29 ELSE 28
    BY <1>1 DEF Calendar!MonthLength, Leap
  <1>4. Calendar!YearLength(y) = IF Leap(y) THEN 366 ELSE 365
    BY <1>3 DEF Calendar!YearLength
  <1>5. /\ y \div 4 - (y - 1) \div 4 = IF y % 4 = 0 THEN 1 ELSE 0
        /\ y \div 100 - (y - 1) \div 100 = IF y % 100 = 0 THEN 1 ELSE 0
        /\ y \div 400 - (y - 1) \div 400 = IF y % 400 = 0 THEN 1 ELSE 0
        /\ y % 400 = 0 => y % 100 = 0
        /\ y % 100 = 0 => y % 4 = 0
    BY <1>1
  <1>6. /\ y \div 4 \in Int /\ (y - 1) \div 4 \in Int /\ y \div 100 \in Int
        /\ (y - 1) \div 100 \in Int /\ y \div 400 \in Int /\ (y - 1) \div 400 \in Int
    BY <1>1
  <1>7. Calendar!_yearDay(y) = (y - 1970) * 365 + (y - 1) \div 4 - (y - 1) \div 100
                               + (y - 1) \div 400 - 477
    BY DEF Calendar!_yearDay
  <1>8. Calendar!_yearDay(y + 1) = (y + 1 - 1970) * 365 + y \div 4 - y \div 100
                                   + y \div 400 - 477
    <2>1. (y + 1) - 1 = y
      BY <1>1
    <2>2. Calendar!_yearDay(y + 1)
            = (y + 1 - 1970) * 365 + ((y + 1) - 1) \div 4 - ((y + 1) - 1) \div 100
              + ((y + 1) - 1) \div 400 - 477
      BY <1>1 DEF Calendar!_yearDay
    <2> QED BY <2>1, <2>2
  <1>9. Calendar!_yearDay(y + 1) - Calendar!_yearDay(y) = IF Leap(y) THEN 366 ELSE 365
    BY <1>1, <1>5, <1>6, <1>7, <1>8 DEF Leap
  <1>10. Calendar!_yearDay(y) \in Int
    BY <1>1, <1>6, <1>7
  <1> QED BY <1>2, <1>3, <1>4, <1>9, <1>10

\* Where the months of a year begin.
Feb(leap) == IF leap THEN 29 ELSE 28

Begin(leap, m) ==
  CASE m = 1 -> 0   [] m = 2 -> 31
    [] m = 3 -> 31 + Feb(leap)   [] m = 4 -> 62 + Feb(leap)   [] m = 5 -> 92 + Feb(leap)
    [] m = 6 -> 123 + Feb(leap)  [] m = 7 -> 153 + Feb(leap)  [] m = 8 -> 184 + Feb(leap)
    [] m = 9 -> 215 + Feb(leap)  [] m = 10 -> 245 + Feb(leap) [] m = 11 -> 276 + Feb(leap)
    [] m = 12 -> 306 + Feb(leap) [] m = 13 -> 337 + Feb(leap)

\* The lengths of the months are numbers.
LEMMA MonthTyped ==
  ASSUME NEW y \in Years, NEW m \in 1 .. 12
  PROVE  Calendar!MonthLength(y, m) \in Int
  BY DEF Calendar!MonthLength

\* The months before a month add up.
LEMMA MonthsAddUp ==
  ASSUME NEW y \in Years, NEW m \in 1 .. 13
  PROVE  \E h : /\ Sums(h, [k \in 1 .. 12 |-> Calendar!MonthLength(y, k)], 1 .. m - 1)
                /\ Calendar!BeforeMonth(y, m) = h[1 .. m - 1]
  <1> DEFINE K == 1 .. m - 1
             g == [k \in 1 .. 12 |-> Calendar!MonthLength(y, k)]
             Turn(h, U) == IF U = {} THEN 0
                           ELSE Calendar!MonthLength(y, CHOOSE x \in U : TRUE)
                                + h[U \ {CHOOSE x \in U : TRUE}]
             F == CHOOSE h : h = [U \in SUBSET K |-> Turn(h, U)]
  <1>1. IsFiniteSet(K) /\ K \in SUBSET (1 .. 12)
    BY FS_Interval
  <1>2. Calendar!BeforeMonth(y, m) = F[K]
    BY DEF Calendar!BeforeMonth, Calendar!MapThenSumSet, Calendar!MapThenFoldSet
  <1> HIDE DEF K
  <1>3. \A U \in SUBSET K : U # {} => g[Chosen(U)] = Calendar!MonthLength(y, CHOOSE x \in U : TRUE)
    BY <1>1, ChosenIsIn DEF Chosen
  <1>4. \A x \in K : g[x] \in Int
    BY <1>1, MonthTyped
  <1> HIDE DEF g
  <1>5. PICK s : SumsByChoice(s, g, K)
    BY <1>1, <1>4, SumsByChoiceExists
  <1>6. s = [U \in SUBSET K |-> Turn(s, U)]
    BY <1>3, <1>5 DEF SumsByChoice, Chosen
  <1>7. F = [U \in SUBSET K |-> Turn(F, U)]
    <2> HIDE DEF Turn
    <2> QED BY <1>6
  <1> HIDE DEF F
  <1>8. SumsByChoice(F, g, K)
    BY <1>3, <1>7 DEF SumsByChoice, Chosen
  <1>9. Sums(F, g, K)
    BY <1>1, <1>4, <1>8, SumsByChoiceSums
  <1> QED BY <1>2, <1>9 DEF g, K

\* Each month begins where the one before it ends.
LEMMA MonthFollows ==
  ASSUME NEW y \in Years, NEW m \in 1 .. 12
  PROVE  /\ Calendar!BeforeMonth(y, 1) = 0
         /\ Calendar!BeforeMonth(y, m + 1) = Calendar!MonthLength(y, m) + Calendar!BeforeMonth(y, m)
  <1> DEFINE g == [k \in 1 .. 12 |-> Calendar!MonthLength(y, k)]
  <1>1. Calendar!BeforeMonth(y, 1) = 0
    <2>1. PICK z : Sums(z, g, 1 .. 1 - 1) /\ Calendar!BeforeMonth(y, 1) = z[1 .. 1 - 1]
      BY MonthsAddUp
    <2>2. 1 .. 1 - 1 = {}
      OBVIOUS
    <2> HIDE DEF g
    <2> QED BY <2>1, <2>2 DEF Sums
  <1>2. Calendar!BeforeMonth(y, m + 1) = Calendar!MonthLength(y, m) + Calendar!BeforeMonth(y, m)
    <2>1. /\ m + 1 \in 1 .. 13 /\ m \in 1 .. 13 /\ 1 .. (m + 1) - 1 = 1 .. m
          /\ (1 .. m) \ {m} = 1 .. m - 1 /\ m \in 1 .. m
      OBVIOUS
    <2>0. IsFiniteSet(1 .. m)
      BY FS_Interval
    <2>2. PICK h : Sums(h, g, 1 .. m) /\ Calendar!BeforeMonth(y, m + 1) = h[1 .. m]
      <3>1. \E z : /\ Sums(z, g, 1 .. (m + 1) - 1)
                   /\ Calendar!BeforeMonth(y, m + 1) = z[1 .. (m + 1) - 1]
        BY <2>1, MonthsAddUp
      <3> HIDE DEF g
      <3> QED BY <2>1, <3>1
    <2>3. PICK k : Sums(k, g, (1 .. m) \ {m}) /\ Calendar!BeforeMonth(y, m) = k[(1 .. m) \ {m}]
      <3>1. \E z : Sums(z, g, 1 .. m - 1) /\ Calendar!BeforeMonth(y, m) = z[1 .. m - 1]
        BY <2>1, MonthsAddUp
      <3> HIDE DEF g
      <3> QED BY <2>1, <3>1
    <2>4. g[m] = Calendar!MonthLength(y, m)
      OBVIOUS
    <2> HIDE DEF g
    <2> DEFINE D == 1 .. m
    <2>5. IsFiniteSet(D) /\ m \in D /\ Sums(h, g, D) /\ Sums(k, g, D \ {m})
      BY <2>0, <2>1, <2>2, <2>3
    <2> HIDE DEF D
    <2>6. h[D] = g[m] + k[D \ {m}]
      BY <2>5, SumWithout
    <2>7. h[1 .. m] = g[m] + k[(1 .. m) \ {m}]
      BY <2>6 DEF D
    <2> QED BY <2>2, <2>3, <2>4, <2>7
  <1> QED BY <1>1, <1>2

\* The table of the months.
LEMMA MonthsBegin ==
  ASSUME NEW y \in Years, NEW m \in 1 .. 13
  PROVE  Calendar!BeforeMonth(y, m) = Begin(Leap(y), m)
  <1> DEFINE B(k) == Calendar!BeforeMonth(y, k)
             L(k) == Calendar!MonthLength(y, k)
  <1>1. /\ L(1) = 31 /\ L(2) = Feb(Leap(y)) /\ L(3) = 31 /\ L(4) = 30 /\ L(5) = 31 /\ L(6) = 30
        /\ L(7) = 31 /\ L(8) = 31 /\ L(9) = 30 /\ L(10) = 31 /\ L(11) = 30 /\ L(12) = 31
    <2>1. L(2) = Feb(Leap(y))
      BY YearsAreLeap DEF Feb
    <2> QED BY <2>1 DEF Calendar!MonthLength
  <1>2. B(1) = 0 /\ \A k \in 1 .. 12 : B(k + 1) = L(k) + B(k)
    BY MonthFollows
  <1>3. Feb(Leap(y)) \in Int
    BY DEF Feb
  <1> HIDE DEF B, L
  <1>4. /\ B(2) = L(1) + B(1) /\ B(3) = L(2) + B(2) /\ B(4) = L(3) + B(3) /\ B(5) = L(4) + B(4)
        /\ B(6) = L(5) + B(5) /\ B(7) = L(6) + B(6) /\ B(8) = L(7) + B(7) /\ B(9) = L(8) + B(8)
        /\ B(10) = L(9) + B(9) /\ B(11) = L(10) + B(10) /\ B(12) = L(11) + B(11)
        /\ B(13) = L(12) + B(12)
    <2>1. /\ B(1 + 1) = L(1) + B(1) /\ B(2 + 1) = L(2) + B(2) /\ B(3 + 1) = L(3) + B(3)
          /\ B(4 + 1) = L(4) + B(4) /\ B(5 + 1) = L(5) + B(5) /\ B(6 + 1) = L(6) + B(6)
          /\ B(7 + 1) = L(7) + B(7) /\ B(8 + 1) = L(8) + B(8) /\ B(9 + 1) = L(9) + B(9)
          /\ B(10 + 1) = L(10) + B(10) /\ B(11 + 1) = L(11) + B(11) /\ B(12 + 1) = L(12) + B(12)
      BY <1>2
    <2> QED BY <2>1
  <1>5. /\ B(2) = 31 /\ B(3) = 31 + Feb(Leap(y)) /\ B(4) = 62 + Feb(Leap(y))
        /\ B(5) = 92 + Feb(Leap(y)) /\ B(6) = 123 + Feb(Leap(y)) /\ B(7) = 153 + Feb(Leap(y))
        /\ B(8) = 184 + Feb(Leap(y)) /\ B(9) = 215 + Feb(Leap(y)) /\ B(10) = 245 + Feb(Leap(y))
        /\ B(11) = 276 + Feb(Leap(y)) /\ B(12) = 306 + Feb(Leap(y)) /\ B(13) = 337 + Feb(Leap(y))
    BY <1>1, <1>2, <1>3, <1>4
  <1>6. B(m) = Begin(Leap(y), m)
    BY <1>2, <1>5 DEF Begin
  <1> QED BY <1>6 DEF B

\* A month begins after those before it.
LEMMA MonthsInOrder ==
  ASSUME NEW leap \in BOOLEAN, NEW m \in 1 .. 13, NEW n \in 1 .. 13, m <= n
  PROVE  /\ Begin(leap, m) \in Int /\ Begin(leap, n) \in Int
         /\ Begin(leap, m) <= Begin(leap, n)
  <1>1. CASE leap
    BY <1>1 DEF Begin, Feb
  <1>2. CASE ~ leap
    BY <1>2 DEF Begin, Feb
  <1> QED BY <1>1, <1>2

\* The month of a day is the one it lies in.
LEMMA MonthOfDay ==
  ASSUME NEW y \in Years, NEW d \in Int, NEW m \in 1 .. 12,
         Begin(Leap(y), m) <= d, d < Begin(Leap(y), m + 1)
  PROVE  Calendar!MonthAndDay(y, d) = <<m, d - Begin(Leap(y), m) + 1>>
  <1> DEFINE In(k) == Calendar!BeforeMonth(y, k) <= d /\ d < Calendar!BeforeMonth(y, k + 1)
  <1>1. \A k \in 1 .. 12 : In(k) <=> Begin(Leap(y), k) <= d /\ d < Begin(Leap(y), k + 1)
    BY MonthsBegin
  <1>2. ASSUME NEW k \in 1 .. 12, In(k)
        PROVE  k = m
    <2>0. Leap(y) \in BOOLEAN
      BY DEF Leap
    <2>1. /\ Begin(Leap(y), k) <= d /\ d < Begin(Leap(y), k + 1)
      BY <1>1, <1>2
    <2>2. CASE k < m
      <3>1. k + 1 \in 1 .. 13 /\ m \in 1 .. 13 /\ k + 1 <= m
        BY <2>2
      <3>2. /\ Begin(Leap(y), k + 1) \in Int /\ Begin(Leap(y), m) \in Int
            /\ Begin(Leap(y), k + 1) <= Begin(Leap(y), m)
        BY <2>0, <3>1, MonthsInOrder
      <3> QED BY <2>1, <3>2
    <2>3. CASE m < k
      <3>1. m + 1 \in 1 .. 13 /\ k \in 1 .. 13 /\ m + 1 <= k
        BY <2>3
      <3>2. /\ Begin(Leap(y), m + 1) \in Int /\ Begin(Leap(y), k) \in Int
            /\ Begin(Leap(y), m + 1) <= Begin(Leap(y), k)
        BY <2>0, <3>1, MonthsInOrder
      <3> QED BY <2>1, <3>2
    <2> QED BY <2>2, <2>3
  <1>3. In(m)
    BY <1>1
  <1> HIDE DEF In
  <1>4. (CHOOSE k \in 1 .. 12 : In(k)) = m
    BY <1>2, <1>3
  <1>5. Calendar!MonthAndDay(y, d) = <<m, d - Calendar!BeforeMonth(y, m) + 1>>
    BY <1>4 DEF Calendar!MonthAndDay, In
  <1>6. Calendar!BeforeMonth(y, m) = Begin(Leap(y), m)
    BY MonthsBegin
  <1> QED BY <1>5, <1>6

\* Every day of a year is in a month, before March or from March on; and March
\* and later begin a day later in a leap year.
LEMMA DayHasMonth ==
  ASSUME NEW leap \in BOOLEAN, NEW d \in Nat, d < 337 + Feb(leap)
  PROVE  \E m \in 1 .. 12 : Begin(leap, m) <= d /\ d < Begin(leap, m + 1)
  <1> DEFINE B(m) == Begin(leap, m)
  <1>1. Feb(leap) \in {28, 29}
    BY DEF Feb
  <1>2. /\ B(1) = 0 /\ B(2) = 31 /\ B(3) = 31 + Feb(leap) /\ B(4) = 62 + Feb(leap)
        /\ B(5) = 92 + Feb(leap) /\ B(6) = 123 + Feb(leap) /\ B(7) = 153 + Feb(leap)
        /\ B(8) = 184 + Feb(leap) /\ B(9) = 215 + Feb(leap) /\ B(10) = 245 + Feb(leap)
        /\ B(11) = 276 + Feb(leap) /\ B(12) = 306 + Feb(leap) /\ B(13) = 337 + Feb(leap)
    BY DEF Begin
  <1> HIDE DEF B
  <1>3. \/ B(1) <= d /\ d < B(1 + 1)
        \/ B(2) <= d /\ d < B(2 + 1)
        \/ B(3) <= d /\ d < B(3 + 1)
        \/ B(4) <= d /\ d < B(4 + 1)
        \/ B(5) <= d /\ d < B(5 + 1)
        \/ B(6) <= d /\ d < B(6 + 1)
        \/ B(7) <= d /\ d < B(7 + 1)
        \/ B(8) <= d /\ d < B(8 + 1)
        \/ B(9) <= d /\ d < B(9 + 1)
        \/ B(10) <= d /\ d < B(10 + 1)
        \/ B(11) <= d /\ d < B(11 + 1)
        \/ B(12) <= d /\ d < B(12 + 1)
    BY <1>1, <1>2
  <1>4. \E m \in 1 .. 12 : B(m) <= d /\ d < B(m + 1)
    BY <1>3
  <1> QED BY <1>4 DEF B

\* Leap years and others differ from March on.
LEMMA MarchMoves ==
  /\ \A leap \in BOOLEAN : Begin(leap, 1) = 0 /\ Begin(leap, 2) = 31
                           /\ Begin(leap, 3) = IF leap THEN 60 ELSE 59
  /\ \A m \in 3 .. 13 : Begin(TRUE, m) = Begin(FALSE, m) + 1
  /\ \A leap \in BOOLEAN, m \in 1 .. 13 : Begin(leap, m) \in Int
  BY DEF Begin, Feb

\* The day of a year that the code moves to another year, and the date that
\* keeps its month and day.
MovedDay(y, z, d, march1) ==
  IF Leap(y) /\ ~ Leap(z)
    THEN IF d > 59 \/ (d = 59 /\ ~ march1) THEN d - 1 ELSE d
  ELSE IF ~ Leap(y) /\ Leap(z) /\ d >= 59 THEN d + 1
  ELSE d

KeptDate(y, z, d, march1) ==
  LET date == Calendar!MonthAndDay(y, d)
      leapDay == date = <<2, 29>> /\ ~ Leap(z)
  IN  <<IF leapDay /\ march1 THEN 3 ELSE date[1],
        IF leapDay THEN (IF march1 THEN 1 ELSE 28) ELSE date[2]>>

\* Moving the day keeps the date.
LEMMA MovingKeepsTheDate ==
  ASSUME NEW y \in Years, NEW z \in Years, NEW d \in Nat,
         d < IF Leap(y) THEN 366 ELSE 365, NEW march1 \in BOOLEAN
  PROVE  /\ MovedDay(y, z, d, march1) \in Nat
         /\ MovedDay(y, z, d, march1) < IF Leap(z) THEN 366 ELSE 365
         /\ Calendar!MonthAndDay(z, MovedDay(y, z, d, march1)) = KeptDate(y, z, d, march1)
  <1>0. Leap(y) \in BOOLEAN /\ Leap(z) \in BOOLEAN
    BY DEF Leap
  <1>1. PICK m \in 1 .. 12 : Begin(Leap(y), m) <= d /\ d < Begin(Leap(y), m + 1)
    <2>1. d < 337 + Feb(Leap(y))
      BY DEF Feb
    <2> QED BY <1>0, <2>1, DayHasMonth
  <1>2. Calendar!MonthAndDay(y, d) = <<m, d - Begin(Leap(y), m) + 1>>
    BY <1>1, MonthOfDay
  <1>3. /\ m \in 1 .. 13 /\ m + 1 \in 1 .. 13
        /\ Begin(Leap(y), m) \in Int /\ Begin(Leap(z), m) \in Int
        /\ Begin(Leap(y), m + 1) \in Int /\ Begin(Leap(z), m + 1) \in Int
    BY <1>0, MarchMoves
  <1>4. /\ m <= 2 => Begin(Leap(y), m + 1) <= Begin(Leap(y), 3)
        /\ m >= 3 => Begin(Leap(y), 3) <= Begin(Leap(y), m)
    BY <1>0, <1>3, MonthsInOrder
  <1>5. Begin(Leap(y), 3) = IF Leap(y) THEN 60 ELSE 59
    BY <1>0, MarchMoves
  <1>6. MovedDay(y, z, d, march1) \in Nat /\ MovedDay(y, z, d, march1) < IF Leap(z) THEN 366 ELSE 365
    BY <1>0 DEF MovedDay
  <1>7. m = 2 => Begin(Leap(y), m) = 31 /\ Begin(Leap(z), m) = 31
    BY <1>0, MarchMoves
  <1>8. CASE Leap(y) = Leap(z)
    <2>1. MovedDay(y, z, d, march1) = d
      BY <1>8 DEF MovedDay
    <2>2. Calendar!MonthAndDay(z, d) = <<m, d - Begin(Leap(y), m) + 1>>
      BY <1>1, <1>8, MonthOfDay
    <2>3. ~ (<<m, d - Begin(Leap(y), m) + 1>> = <<2, 29>> /\ ~ Leap(z))
      BY <1>1, <1>3, <1>4, <1>5, <1>7, <1>8
    <2> QED BY <1>2, <1>6, <2>1, <2>2, <2>3 DEF KeptDate
  <1>9. CASE Leap(y) /\ ~ Leap(z)
    <2>0. /\ Begin(Leap(z), 3) = 59 /\ Begin(Leap(z), 2) = 31
          /\ Begin(Leap(z), 3 + 1) = 90 /\ Begin(Leap(y), 3) = 60
      BY <1>9 DEF Begin, Feb
    <2>1. CASE d < 59
      <3>1. MovedDay(y, z, d, march1) = d
        BY <1>9, <2>1 DEF MovedDay
      <3>2. m <= 2
        BY <1>1, <1>3, <1>4, <2>0, <2>1
      <3>3. /\ Begin(Leap(z), m) = Begin(Leap(y), m)
            /\ d < Begin(Leap(z), m + 1)
        <4>1. CASE m = 1
          BY <1>0, <1>1, <4>1, MarchMoves
        <4>2. CASE m = 2
          BY <1>7, <2>0, <2>1, <4>2
        <4> QED BY <3>2, <4>1, <4>2
      <3>4. Calendar!MonthAndDay(z, d) = <<m, d - Begin(Leap(y), m) + 1>>
        BY <1>1, <3>3, MonthOfDay
      <3>5. <<m, d - Begin(Leap(y), m) + 1>> # <<2, 29>>
        BY <1>3, <1>7, <2>1
      <3> QED BY <1>2, <1>6, <3>1, <3>4, <3>5 DEF KeptDate
    <2>2. CASE d = 59
      <3>1. m = 2
        <4>1. m <= 2
          BY <1>1, <1>3, <1>4, <2>0, <2>2
        <4>2. m # 1
          BY <1>0, <1>1, <2>2, MarchMoves
        <4> QED BY <4>1, <4>2
      <3>2. Calendar!MonthAndDay(y, d) = <<2, 29>>
        BY <1>2, <1>7, <2>2, <3>1
      <3>3. CASE march1
        <4>1. MovedDay(y, z, d, march1) = 59
          BY <1>9, <2>2, <3>3 DEF MovedDay
        <4>2. 59 \in Int /\ 3 \in 1 .. 12
          OBVIOUS
        <4>3. Calendar!MonthAndDay(z, 59) = <<3, 59 - Begin(Leap(z), 3) + 1>>
          BY <2>0, <4>2, MonthOfDay
        <4>4. Calendar!MonthAndDay(z, 59) = <<3, 1>>
          BY <2>0, <4>3
        <4>5. KeptDate(y, z, d, march1) = <<3, 1>>
          BY <1>9, <3>2, <3>3 DEF KeptDate
        <4> QED BY <1>6, <4>1, <4>4, <4>5
      <3>4. CASE ~ march1
        <4>1. MovedDay(y, z, d, march1) = 58
          BY <1>9, <2>2, <3>4 DEF MovedDay
        <4>2. 58 \in Int /\ 2 \in 1 .. 12 /\ 2 + 1 = 3
          OBVIOUS
        <4>3. Begin(Leap(z), 2) <= 58 /\ 58 < Begin(Leap(z), 2 + 1)
          BY <2>0, <4>2
        <4>4. Calendar!MonthAndDay(z, 58) = <<2, 58 - Begin(Leap(z), 2) + 1>>
          BY <4>2, <4>3, MonthOfDay
        <4>5. Calendar!MonthAndDay(z, 58) = <<2, 28>>
          BY <2>0, <4>4
        <4>6. KeptDate(y, z, d, march1) = <<2, 28>>
          BY <1>9, <3>2, <3>4 DEF KeptDate
        <4> QED BY <1>6, <4>1, <4>5, <4>6
      <3> QED BY <3>3, <3>4
    <2>3. CASE d > 59
      <3>1. MovedDay(y, z, d, march1) = d - 1
        BY <1>9, <2>3 DEF MovedDay
      <3>2. m >= 3
        BY <1>1, <1>3, <1>4, <2>0, <2>3
      <3>3. /\ Begin(Leap(y), m) = Begin(Leap(z), m) + 1
            /\ Begin(Leap(y), m + 1) = Begin(Leap(z), m + 1) + 1
        <4>1. m \in 3 .. 13 /\ m + 1 \in 3 .. 13
          BY <3>2
        <4>2. Leap(y) = TRUE /\ Leap(z) = FALSE
          BY <1>0, <1>9
        <4> QED BY <4>1, <4>2, MarchMoves
      <3>4. d - 1 \in Int /\ Begin(Leap(z), m) <= d - 1 /\ d - 1 < Begin(Leap(z), m + 1)
        BY <1>1, <1>3, <3>3
      <3>5. Calendar!MonthAndDay(z, d - 1) = <<m, d - 1 - Begin(Leap(z), m) + 1>>
        BY <3>4, MonthOfDay
      <3>6. d - 1 - Begin(Leap(z), m) + 1 = d - Begin(Leap(y), m) + 1
        BY <1>3, <3>3
      <3>7. Calendar!MonthAndDay(z, d - 1) = <<m, d - Begin(Leap(y), m) + 1>>
        BY <3>5, <3>6
      <3> QED BY <1>2, <1>6, <3>1, <3>2, <3>7 DEF KeptDate
    <2> QED BY <2>1, <2>2, <2>3
  <1>10. CASE ~ Leap(y) /\ Leap(z)
    <2>0. /\ Begin(Leap(z), 3) = 60 /\ Begin(Leap(y), 3) = 59
      BY <1>0, <1>10, MarchMoves
    <2>1. KeptDate(y, z, d, march1) = <<m, d - Begin(Leap(y), m) + 1>>
      BY <1>2, <1>10 DEF KeptDate
    <2>2. CASE d < 59
      <3>1. MovedDay(y, z, d, march1) = d
        BY <1>10, <2>2 DEF MovedDay
      <3>2. m <= 2
        BY <1>1, <1>3, <1>4, <2>0, <2>2
      <3>3. /\ Begin(Leap(z), m) = Begin(Leap(y), m)
            /\ d < Begin(Leap(z), m + 1)
        <4>1. CASE m = 1
          BY <1>0, <1>1, <4>1, MarchMoves
        <4>2. CASE m = 2
          BY <1>7, <2>0, <2>2, <4>2
        <4> QED BY <3>2, <4>1, <4>2
      <3>4. Calendar!MonthAndDay(z, d) = <<m, d - Begin(Leap(y), m) + 1>>
        BY <1>1, <3>3, MonthOfDay
      <3> QED BY <1>6, <2>1, <3>1, <3>4
    <2>3. CASE d >= 59
      <3>1. MovedDay(y, z, d, march1) = d + 1
        BY <1>10, <2>3 DEF MovedDay
      <3>2. m >= 3
        BY <1>1, <1>3, <1>4, <2>0, <2>3
      <3>3. /\ Begin(Leap(z), m) = Begin(Leap(y), m) + 1
            /\ Begin(Leap(z), m + 1) = Begin(Leap(y), m + 1) + 1
        <4>1. m \in 3 .. 13 /\ m + 1 \in 3 .. 13
          BY <3>2
        <4>2. Leap(y) = FALSE /\ Leap(z) = TRUE
          BY <1>0, <1>10
        <4> QED BY <4>1, <4>2, MarchMoves
      <3>4. PICK e \in Int : e = d + 1
        OBVIOUS
      <3>5. Begin(Leap(z), m) <= e /\ e < Begin(Leap(z), m + 1)
        BY <1>1, <1>3, <3>3, <3>4
      <3>6. Calendar!MonthAndDay(z, e) = <<m, e - Begin(Leap(z), m) + 1>>
        BY <3>5, MonthOfDay
      <3>7. e - Begin(Leap(z), m) + 1 = d - Begin(Leap(y), m) + 1
        BY <1>3, <3>3, <3>4
      <3>8. Calendar!MonthAndDay(z, e) = <<m, d - Begin(Leap(y), m) + 1>>
        BY <3>6, <3>7
      <3>9. MovedDay(y, z, d, march1) = e
        BY <3>1, <3>4
      <3> QED BY <1>6, <2>1, <3>8, <3>9
    <2> QED BY <2>2, <2>3
  <1> QED BY <1>0, <1>8, <1>9, <1>10

\* Only leap years have a 29 February.
LEMMA LeapDayInLeapYears ==
  ASSUME NEW y \in Years, NEW d \in Nat, d < IF Leap(y) THEN 366 ELSE 365,
         Calendar!MonthAndDay(y, d) = <<2, 29>>
  PROVE  Leap(y)
  <1>0. Leap(y) \in BOOLEAN
    BY DEF Leap
  <1>1. PICK m \in 1 .. 12 : Begin(Leap(y), m) <= d /\ d < Begin(Leap(y), m + 1)
    <2>1. d < 337 + Feb(Leap(y))
      BY DEF Feb
    <2> QED BY <1>0, <2>1, DayHasMonth
  <1>2. Calendar!MonthAndDay(y, d) = <<m, d - Begin(Leap(y), m) + 1>>
    BY <1>1, MonthOfDay
  <1>3. m = 2 /\ d - Begin(Leap(y), m) + 1 = 29
    BY <1>2
  <1>4. Begin(Leap(y), 2) = 31 /\ Begin(Leap(y), 3) = IF Leap(y) THEN 60 ELSE 59
    BY <1>0, MarchMoves
  <1>5. Begin(Leap(y), m + 1) = Begin(Leap(y), 3)
    BY <1>3
  <1> QED BY <1>0, <1>1, <1>3, <1>4, <1>5

\* Days are counted from 1970.
LEMMA YearDayTyped ==
  /\ Calendar!_yearDay(1970) = 0
  /\ \A y \in Years : Calendar!_yearDay(y) \in Nat
  <1>1. Calendar!_yearDay(1970) = 0
    <2>1. Calendar!_yearDay(1970) = (1970 - 1970) * 365 + (1970 - 1) \div 4 - (1970 - 1) \div 100
                                    + (1970 - 1) \div 400 - 477
      BY DEF Calendar!_yearDay
    <2>2. (1970 - 1) \div 4 = 492 /\ (1970 - 1) \div 100 = 19 /\ (1970 - 1) \div 400 = 4
      OBVIOUS
    <2> QED BY <2>1, <2>2
  <1>2. ASSUME NEW y \in Years
        PROVE  Calendar!_yearDay(y) \in Nat
    <2>1. y \in Nat /\ y >= 1970
      BY DEF Years
    <2>2. PICK p \in Nat : p = y - 1
      BY <2>1
    <2>3. PICK a \in Nat, b \in Nat, c \in Nat : a = p \div 4 /\ b = p \div 100 /\ c = p \div 400
      BY <2>2
    <2>4. p < 4 * a + 4 /\ 100 * b <= p /\ p < 400 * c + 400
      BY <2>2, <2>3
    <2>5. Calendar!_yearDay(y) = (y - 1970) * 365 + a - b + c - 477
      BY <2>1, <2>2, <2>3 DEF Calendar!_yearDay
    <2> QED BY <2>1, <2>2, <2>4, <2>5
  <1> QED BY <1>1, <1>2

\* An instant is its day and its second of the day.
LEMMA DayAndSecond ==
  ASSUME NEW a \in Nat, NEW r \in Nat, r < DAY
  PROVE  (a * DAY + r) \div DAY = a /\ (a * DAY + r) % DAY = r
  <1>1. DAY \in Nat /\ DAY > 0
    BY LibrariesAssumption
  <1>2. PICK v \in Nat : v = a * DAY + r
    BY <1>1
  <1>3. PICK whole \in Nat : whole = DAY * a
    BY <1>1
  <1>4. v = whole + r
    BY <1>1, <1>2, <1>3
  <1>5. v \div DAY = a
    BY <1>1, <1>3, <1>4, DivUnique
  <1>6. v = DAY * (v \div DAY) + (v % DAY) /\ v % DAY \in Nat
    BY <1>1, DivMod
  <1>7. v = whole + (v % DAY)
    BY <1>3, <1>5, <1>6
  <1>8. v % DAY = r
    BY <1>4, <1>6, <1>7
  <1> QED BY <1>2, <1>5, <1>8

\* The year search closes in on the start's year.
YearInv ==
  /\ start \in Nat
  /\ lowYear \in Years /\ highYear \in Years /\ lowYear < highYear
  /\ Calendar!_yearDay(lowYear) <= Calendar!day
  /\ Calendar!day < Calendar!_yearDay(highYear)

\* It starts with every year the library accepts between its bounds.
LEMMA YearStarts == LibrariesInit => YearInv
  <1> SUFFICES ASSUME LibrariesInit PROVE YearInv
    OBVIOUS
  <1>0. DAY \in Nat /\ DAY > 0
    BY LibrariesAssumption
  <1>1. CASE Calendar!Init
    <2> DEFINE end == Calendar!_yearDay(9996)
    <2>1. /\ start \in Nat /\ lowYear = 1970 /\ highYear = 9996
          /\ start <= end * DAY - 1
      BY <1>1, LibrariesAssumption DEF Calendar!Init, Calendar!LastStart
    <2>2. lowYear \in Years /\ highYear \in Years /\ lowYear < highYear
      BY <2>1 DEF Years
    <2>3. Calendar!_yearDay(lowYear) = 0 /\ end \in Nat
      BY <2>1, <2>2, YearDayTyped
    <2> HIDE DEF end
    <2>4. PICK q \in Nat : q = start \div DAY
      BY <1>0, <2>1, DivMod
    <2>5. PICK whole \in Nat, rest \in Nat : whole = DAY * q /\ rest = start % DAY
      BY <1>0, <2>1, <2>4, DivMod
    <2>6. q < end
      <3>1. SUFFICES ASSUME end <= q PROVE FALSE
        BY <2>3, <2>4
      <3>2. PICK bound \in Nat : bound = DAY * end
        BY <1>0, <2>3
      <3>3. bound <= whole
        BY <1>0, <2>3, <2>4, <2>5, <3>1, <3>2, TimesMonotone
      <3>4. start = whole + rest
        BY <1>0, <2>1, <2>4, <2>5, DivMod
      <3>5. end * DAY = bound
        BY <1>0, <2>3, <3>2
      <3> QED BY <2>1, <3>3, <3>4, <3>5
    <2>7. Calendar!day = q
      BY <2>4 DEF Calendar!day
    <2> QED BY <2>1, <2>2, <2>3, <2>6, <2>7 DEF YearInv, end
  <1>2. CASE CalendarRests
    <2>1. start = 0 /\ lowYear = 1970 /\ highYear = 1971
      BY <1>2 DEF CalendarRests
    <2>2. lowYear \in Years /\ highYear \in Years /\ lowYear + 1 = highYear
      BY <2>1 DEF Years
    <2>3. Calendar!_yearDay(lowYear) = 0
      BY <2>1, YearDayTyped
    <2>4. Calendar!day = 0
      <3>1. DAY > 0 /\ 0 = DAY * 0 + 0 /\ 0 \in Nat
        BY <1>0
      <3>2. 0 \div DAY = 0
        BY <1>0, <3>1, DivUnique
      <3> QED BY <2>1, <3>2 DEF Calendar!day
    <2>5. Calendar!_yearDay(highYear) - Calendar!_yearDay(lowYear) \in {365, 366}
      <3>1. Calendar!_yearDay(lowYear + 1) - Calendar!_yearDay(lowYear) = Calendar!YearLength(lowYear)
        BY <2>2, YearsAreLeap
      <3>2. Calendar!YearLength(lowYear) \in {365, 366}
        BY <2>2, YearsAreLeap
      <3> QED BY <2>2, <3>1, <3>2
    <2>6. Calendar!_yearDay(highYear) \in Nat
      BY <2>2, YearDayTyped
    <2>7. Calendar!_yearDay(highYear) > 0
      BY <2>3, <2>5, <2>6
    <2> QED BY <2>1, <2>2, <2>3, <2>4, <2>7 DEF YearInv
  <1> QED BY <1>1, <1>2 DEF LibrariesInit

\* Every step keeps the start's year between the bounds.
LEMMA YearKeeps == YearInv /\ [LibrariesNext]_libraryVars => YearInv'
  <1> SUFFICES ASSUME YearInv, [LibrariesNext]_libraryVars PROVE YearInv'
    OBVIOUS
  <1>1. CASE UNCHANGED yearVars
    <2>1. start' = start /\ lowYear' = lowYear /\ highYear' = highYear
      BY <1>1 DEF yearVars
    <2> QED BY <2>1 DEF YearInv, Calendar!day
  <1>2. CASE Account \/ Search \/ Deploy
    BY <1>1, <1>2 DEF Account, Search, Deploy
  <1>3. CASE UNCHANGED libraryVars
    BY <1>1, <1>3 DEF libraryVars
  <1>4. CASE FindYear
    <2>1. Calendar!Iterate
      BY <1>4 DEF FindYear, Calendar!Next
    <2> DEFINE centre == (lowYear + highYear) \div 2
    <2>2. /\ lowYear + 1 < highYear /\ start' = start
          /\ IF Calendar!OnOrAfter(centre) THEN lowYear' = centre /\ highYear' = highYear
                                           ELSE lowYear' = lowYear /\ highYear' = centre
      BY <2>1 DEF Calendar!Iterate
    <2>3. centre \in Nat /\ lowYear < centre /\ centre < highYear /\ centre \in Years
      BY <2>2 DEF YearInv, Years
    <2> HIDE DEF centre
    <2>4. Calendar!day' = Calendar!day
      BY <2>2 DEF Calendar!day
    <2>5. Calendar!day \in Nat
      <3>1. DAY \in Nat /\ DAY > 0 /\ start \in Nat
        BY LibrariesAssumption DEF YearInv
      <3> QED BY <3>1, DivMod DEF Calendar!day
    <2>6. CASE Calendar!OnOrAfter(centre)
      <3>1. Calendar!_yearDay(centre) <= Calendar!day
        BY <2>6 DEF Calendar!OnOrAfter
      <3> QED BY <2>2, <2>3, <2>4, <2>6, <3>1 DEF YearInv
    <2>7. CASE ~ Calendar!OnOrAfter(centre)
      <3>1. Calendar!_yearDay(centre) \in Nat
        BY <2>3, YearDayTyped
      <3>2. Calendar!day < Calendar!_yearDay(centre)
        BY <2>5, <2>7, <3>1 DEF Calendar!OnOrAfter
      <3> QED BY <2>2, <2>3, <2>4, <2>7, <3>2 DEF YearInv
    <2> QED BY <2>6, <2>7
  <1> QED BY <1>2, <1>3, <1>4 DEF LibrariesNext

\* What is known of a year once it is found, and of the years after it.
LEMMA YearFound ==
  ASSUME YearInv, Calendar!Found
  PROVE  /\ highYear = lowYear + 1
         /\ Calendar!day \in Nat /\ Calendar!_yearDay(lowYear) \in Nat
         /\ Calendar!day - Calendar!_yearDay(lowYear) \in Nat
         /\ Calendar!day - Calendar!_yearDay(lowYear) < IF Leap(lowYear) THEN 366 ELSE 365
         /\ \A n \in 0 .. 4 :
              /\ lowYear + n \in Years /\ Calendar!_yearDay(lowYear + n) \in Nat
              /\ Calendar!_yearDay(lowYear + n + 1) - Calendar!_yearDay(lowYear + n)
                   = Calendar!YearLength(lowYear + n)
  <1>1. lowYear \in Nat /\ highYear \in Nat /\ lowYear >= 1970 /\ highYear = lowYear + 1
    BY DEF YearInv, Years, Calendar!Found
  <1>2. Calendar!day \in Nat
    <2>1. DAY \in Nat /\ DAY > 0 /\ start \in Nat
      BY LibrariesAssumption DEF YearInv
    <2> QED BY <2>1, DivMod DEF Calendar!day
  <1>3. ASSUME NEW n \in 0 .. 4
        PROVE  lowYear + n \in Years
    BY <1>1 DEF Years
  <1>4. lowYear \in Years
    BY DEF YearInv
  <1>5. /\ Calendar!_yearDay(lowYear) \in Nat
        /\ \A n \in 0 .. 4 : Calendar!_yearDay(lowYear + n) \in Nat
    BY <1>3, <1>4, YearDayTyped
  <1>6. \A n \in 0 .. 4 :
          Calendar!_yearDay(lowYear + n + 1) - Calendar!_yearDay(lowYear + n)
            = Calendar!YearLength(lowYear + n)
    BY <1>3, YearsAreLeap
  <1>7. Calendar!_yearDay(lowYear + 1) - Calendar!_yearDay(lowYear)
          = IF Leap(lowYear) THEN 366 ELSE 365
    <2>1. /\ Calendar!_yearDay(lowYear + 1) - Calendar!_yearDay(lowYear)
               = Calendar!YearLength(lowYear)
          /\ Calendar!YearLength(lowYear) = IF Leap(lowYear) THEN 366 ELSE 365
      BY <1>4, YearsAreLeap
    <2> QED BY <2>1
  <1>8. Calendar!_yearDay(lowYear + 1) \in Nat
    BY <1>5
  <1>9. /\ Calendar!_yearDay(lowYear) <= Calendar!day
        /\ Calendar!day < Calendar!_yearDay(lowYear + 1)
    BY <1>1 DEF YearInv
  <1> QED BY <1>1, <1>2, <1>3, <1>5, <1>6, <1>7, <1>8, <1>9

\* The code's offset and the reference's date, in these terms; and the two
\* parts of an anniversary.
LEMMA AnniversaryParts ==
  ASSUME YearInv, Calendar!Found, NEW n \in 1 .. 4, NEW march1 \in BOOLEAN,
         NEW d \in Nat, d = Calendar!day - Calendar!_yearDay(lowYear),
         NEW at \in Nat,
         at = Calendar!_yearDay(lowYear + n) + MovedDay(lowYear, lowYear + n, d, march1)
  PROVE  /\ Calendar!anniversary(n, march1) = at * DAY + (start % DAY)
         /\ Calendar!anniversary(n, march1) \div DAY = at
         /\ Calendar!anniversary(n, march1) % DAY = start % DAY
         /\ Calendar!SameDate(n, march1) = KeptDate(lowYear, lowYear + n, d, march1)
         /\ Calendar!DateIn(lowYear + n, Calendar!anniversary(n, march1))
              = Calendar!SameDate(n, march1)
         /\ Calendar!_yearDay(lowYear + n) <= at
         /\ at < Calendar!_yearDay(lowYear + n + 1)
  <1> DEFINE z == lowYear + n
  <1>0. lowYear \in Years /\ z \in Years
    BY YearFound DEF YearInv
  <1>1. Calendar!_leap(lowYear) = Leap(lowYear) /\ Calendar!_leap(z) = Leap(z)
    BY <1>0, YearsAreLeap
  <1>2. Calendar!MonthLength(z, 2) = 28 <=> ~ Leap(z)
    BY <1>0, YearsAreLeap
  <1>3. d < IF Leap(lowYear) THEN 366 ELSE 365
    BY YearFound
  <1>4. /\ Calendar!_yearDay(z) \in Nat
        /\ Calendar!_yearDay(z + 1) - Calendar!_yearDay(z) = IF Leap(z) THEN 366 ELSE 365
    <2>1. n \in 0 .. 4
      OBVIOUS
    <2>2. /\ Calendar!_yearDay(z) \in Nat
          /\ Calendar!_yearDay(z + 1) - Calendar!_yearDay(z) = Calendar!YearLength(z)
      BY <2>1, YearFound
    <2>3. Calendar!YearLength(z) = IF Leap(z) THEN 366 ELSE 365
      BY <1>0, YearsAreLeap
    <2> QED BY <2>2, <2>3
  <1>5. /\ MovedDay(lowYear, z, d, march1) \in Nat
        /\ MovedDay(lowYear, z, d, march1) < IF Leap(z) THEN 366 ELSE 365
        /\ Calendar!MonthAndDay(z, MovedDay(lowYear, z, d, march1)) = KeptDate(lowYear, z, d, march1)
    BY <1>0, <1>3, MovingKeepsTheDate
  <1>6. Calendar!AdjustedOffset(d, z, march1) = MovedDay(lowYear, z, d, march1)
    BY <1>1 DEF Calendar!AdjustedOffset, MovedDay
  <1>7. Calendar!anniversary(n, march1) = at * DAY + (start % DAY)
    BY <1>6 DEF Calendar!anniversary
  <1>8. start % DAY \in Nat /\ start % DAY < DAY
    <2>1. DAY \in Nat /\ DAY > 0 /\ start \in Nat
      BY LibrariesAssumption DEF YearInv
    <2> QED BY <2>1, DivMod
  <1>9. /\ Calendar!anniversary(n, march1) \div DAY = at
        /\ Calendar!anniversary(n, march1) % DAY = start % DAY
    BY <1>7, <1>8, DayAndSecond
  <1>10. Calendar!SameDate(n, march1) = KeptDate(lowYear, z, d, march1)
    BY <1>2 DEF Calendar!SameDate, KeptDate
  <1> HIDE DEF z
  <1>11. at = Calendar!_yearDay(z) + MovedDay(lowYear, z, d, march1)
    BY DEF z
  <1>12. Calendar!DateIn(z, Calendar!anniversary(n, march1)) = KeptDate(lowYear, z, d, march1)
    <2>1. at - Calendar!_yearDay(z) = MovedDay(lowYear, z, d, march1)
      BY <1>4, <1>5, <1>11
    <2> QED BY <1>5, <1>9, <2>1 DEF Calendar!DateIn
  <1>13. Calendar!_yearDay(z) <= at
    BY <1>4, <1>5, <1>11
  <1>14. at < Calendar!_yearDay(z + 1)
    <2>1. z + 1 \in Years
      BY <1>0 DEF Years
    <2>2. Calendar!_yearDay(z + 1) \in Nat
      BY <2>1, YearDayTyped
    <2> QED BY <1>4, <1>5, <1>11, <2>2
  <1> QED BY <1>7, <1>9, <1>10, <1>12, <1>13, <1>14 DEF z

\* Where an anniversary falls.
LEMMA AnniversaryFalls ==
  ASSUME YearInv, Calendar!Found, NEW n \in 1 .. 4, NEW march1 \in BOOLEAN
  PROVE  \E at \in Nat :
           /\ Calendar!anniversary(n, march1) = at * DAY + (start % DAY)
           /\ Calendar!anniversary(n, march1) % DAY = start % DAY
           /\ Calendar!SameDate(n, march1)
                = KeptDate(lowYear, lowYear + n, Calendar!day - Calendar!_yearDay(lowYear), march1)
           /\ Calendar!DateIn(lowYear + n, Calendar!anniversary(n, march1))
                = Calendar!SameDate(n, march1)
           /\ Calendar!_yearDay(lowYear + n) <= at
           /\ at < Calendar!_yearDay(lowYear + n + 1)
  <1>1. PICK d \in Nat : d = Calendar!day - Calendar!_yearDay(lowYear)
    BY YearFound
  <1>2. /\ lowYear \in Years /\ lowYear + n \in Years
        /\ d < IF Leap(lowYear) THEN 366 ELSE 365
        /\ Calendar!_yearDay(lowYear + n) \in Nat
    <2>1. n \in 0 .. 4
      OBVIOUS
    <2>2. lowYear + n \in Years /\ Calendar!_yearDay(lowYear + n) \in Nat
      BY <2>1, YearFound
    <2>3. d < IF Leap(lowYear) THEN 366 ELSE 365
      BY <1>1, YearFound
    <2> QED BY <2>2, <2>3 DEF YearInv
  <1>3. MovedDay(lowYear, lowYear + n, d, march1) \in Nat
    <2> DEFINE z == lowYear + n
    <2>1. z \in Years
      BY <1>2
    <2> HIDE DEF z
    <2>2. MovedDay(lowYear, z, d, march1) \in Nat
      BY <1>2, <2>1, MovingKeepsTheDate
    <2> QED BY <2>2 DEF z
  <1>4. PICK at \in Nat :
          at = Calendar!_yearDay(lowYear + n) + MovedDay(lowYear, lowYear + n, d, march1)
    BY <1>2, <1>3
  <1>5. /\ Calendar!anniversary(n, march1) = at * DAY + (start % DAY)
        /\ Calendar!anniversary(n, march1) % DAY = start % DAY
        /\ Calendar!SameDate(n, march1) = KeptDate(lowYear, lowYear + n, d, march1)
        /\ Calendar!DateIn(lowYear + n, Calendar!anniversary(n, march1))
             = Calendar!SameDate(n, march1)
        /\ Calendar!_yearDay(lowYear + n) <= at
        /\ at < Calendar!_yearDay(lowYear + n + 1)
    BY <1>1, <1>4, AnniversaryParts
  <1> QED BY <1>1, <1>5

\* A later day is a later instant at the same second of the day.
LEMMA LaterDay ==
  ASSUME NEW a \in Nat, NEW b \in Nat, a < b, NEW r \in Nat
  PROVE  a * DAY + r < b * DAY + r
  <1>1. DAY \in Nat /\ DAY > 0
    BY LibrariesAssumption
  <1>2. a + 1 \in Nat /\ a + 1 <= b
    OBVIOUS
  <1>3. DAY * (a + 1) <= DAY * b
    BY <1>1, <1>2, TimesMonotone
  <1> QED BY <1>1, <1>3

\* The start is its day and its second.
LEMMA StartIsItsDay ==
  ASSUME YearInv
  PROVE  start = Calendar!day * DAY + (start % DAY) /\ start % DAY \in Nat
  <1>1. DAY \in Nat /\ DAY > 0 /\ start \in Nat
    BY LibrariesAssumption DEF YearInv
  <1>2. /\ start \div DAY \in Nat /\ start % DAY \in Nat
        /\ start = DAY * (start \div DAY) + (start % DAY)
    BY <1>1, DivMod
  <1>3. DAY * (start \div DAY) = (start \div DAY) * DAY
    BY <1>1, <1>2
  <1> QED BY <1>2, <1>3 DEF Calendar!day

\* A date that the convention for 29 February can name is the same date one
\* year on: of the two, only the fourth year can have the day itself.
LEMMA ConventionsAgree ==
  ASSUME YearInv, Calendar!Found, NEW march1 \in BOOLEAN, NEW d \in Nat,
         d = Calendar!day - Calendar!_yearDay(lowYear),
         KeptDate(lowYear, lowYear + 4, d, march1) \in {<<2, 28>>, <<3, 1>>}
  PROVE  KeptDate(lowYear, lowYear + 1, d, march1) = KeptDate(lowYear, lowYear + 4, d, march1)
  <1>1. lowYear \in Years /\ d < IF Leap(lowYear) THEN 366 ELSE 365
    BY YearFound DEF YearInv
  <1>2. CASE Calendar!MonthAndDay(lowYear, d) # <<2, 29>>
    BY <1>2 DEF KeptDate
  <1>3. CASE Calendar!MonthAndDay(lowYear, d) = <<2, 29>>
    <2>1. Leap(lowYear)
      BY <1>1, <1>3, LeapDayInLeapYears
    <2>2. ~ Leap(lowYear + 1)
      BY <1>1, <2>1 DEF Leap, Years
    <2>3. CASE Leap(lowYear + 4)
      <3>1. KeptDate(lowYear, lowYear + 4, d, march1) = <<2, 29>>
        BY <1>3, <2>3 DEF KeptDate
      <3> QED BY <3>1
    <2>4. CASE ~ Leap(lowYear + 4)
      BY <1>3, <2>2, <2>4 DEF KeptDate
    <2> QED BY <2>3, <2>4
  <1> QED BY <1>2, <1>3

\* The year the library finds is the start's year, a schedule it names is the
\* start's calendar date one and four years on at the same second of the day,
\* and validate() accepts those in the order GrantAccounting demands (8-40), for
\* every start it accepts and every length of a day.
THEOREM SchedulesAreDates == LibrariesSpec => []SchedulesAreCalendarDates
  <1>1. LibrariesSpec => []YearInv
    BY YearStarts, YearKeeps, PTL DEF LibrariesSpec
  <1>2. ASSUME YearInv
        PROVE  Calendar!FindsYear
    <2>1. SUFFICES ASSUME Calendar!Found
                   PROVE  /\ Calendar!_yearDay(lowYear) <= Calendar!day
                          /\ Calendar!day < Calendar!_yearDay(lowYear + 1)
                          /\ \A n \in 0 .. 4 :
                               Calendar!_yearDay(lowYear + n + 1) - Calendar!_yearDay(lowYear + n)
                                 = Calendar!YearLength(lowYear + n)
      BY DEF Calendar!FindsYear
    <2> QED BY <1>2, <2>1, YearFound DEF YearInv
  <1>3. ASSUME YearInv
        PROVE  Calendar!AnniversariesAreDates
    <2>1. SUFFICES ASSUME Calendar!Found, NEW n \in {1, 4}, NEW march1 \in BOOLEAN
                   PROVE  /\ Calendar!DateIn(lowYear + n, Calendar!anniversary(n, march1))
                               = Calendar!SameDate(n, march1)
                          /\ Calendar!anniversary(n, march1) % DAY = start % DAY
      BY DEF Calendar!AnniversariesAreDates
    <2>2. n \in 1 .. 4
      OBVIOUS
    <2> QED BY <1>3, <2>1, <2>2, AnniversaryFalls
  <1>4. ASSUME YearInv
        PROVE  Calendar!ValidateIsConsistent
    <2> DEFINE c(m) == Calendar!anniversary(1, m)
               e(m) == Calendar!anniversary(4, m)
    <2>1. ASSUME Calendar!Found, NEW m \in BOOLEAN
          PROVE  /\ start < c(m) /\ c(m) < e(m)
                 /\ Calendar!DateIn(lowYear + 4, e(m)) \in {<<2, 28>>, <<3, 1>>} =>
                      Calendar!DateIn(lowYear + 1, c(m)) = Calendar!DateIn(lowYear + 4, e(m))
      <3>1. PICK d \in Nat : d = Calendar!day - Calendar!_yearDay(lowYear)
        BY <1>4, <2>1, YearFound
      <3>2. PICK one \in Nat :
              /\ c(m) = one * DAY + (start % DAY)
              /\ Calendar!DateIn(lowYear + 1, c(m)) = KeptDate(lowYear, lowYear + 1, d, m)
              /\ Calendar!_yearDay(lowYear + 1) <= one
              /\ one < Calendar!_yearDay(lowYear + 1 + 1)
        <4>1. 1 \in 1 .. 4
          OBVIOUS
        <4> QED BY <1>4, <2>1, <3>1, <4>1, AnniversaryFalls
      <3>3. PICK four \in Nat :
              /\ e(m) = four * DAY + (start % DAY)
              /\ Calendar!DateIn(lowYear + 4, e(m)) = KeptDate(lowYear, lowYear + 4, d, m)
              /\ Calendar!_yearDay(lowYear + 4) <= four
        <4>1. 4 \in 1 .. 4
          OBVIOUS
        <4> QED BY <1>4, <2>1, <3>1, <4>1, AnniversaryFalls
      <3>4. Calendar!day \in Nat /\ Calendar!day < one
        <4>1. Calendar!day < Calendar!_yearDay(lowYear + 1) /\ Calendar!day \in Nat
          BY <1>4, <2>1, YearFound DEF YearInv
        <4>2. Calendar!_yearDay(lowYear + 1) \in Nat
          <5>1. 1 \in 0 .. 4
            OBVIOUS
          <5> QED BY <1>4, <2>1, <5>1, YearFound
        <4> QED BY <3>2, <4>1, <4>2
      <3>5. one < four
        <4> DEFINE Y(n) == Calendar!_yearDay(lowYear + n)
        <4>1. \A n \in 0 .. 4 : Y(n) \in Nat
          BY <1>4, <2>1, YearFound
        <4>2. ASSUME NEW n \in 0 .. 3
              PROVE  Y(n) < Y(n + 1)
          <5>1. n \in 0 .. 4 /\ n + 1 \in 0 .. 4 /\ lowYear + n \in Years
            BY <1>4, <2>1, YearFound
          <5>2. lowYear + (n + 1) = lowYear + n + 1
            BY <1>4 DEF YearInv, Years
          <5>3. /\ Calendar!_yearDay(lowYear + n + 1) - Calendar!_yearDay(lowYear + n)
                     = Calendar!YearLength(lowYear + n)
                /\ Calendar!YearLength(lowYear + n) = IF Leap(lowYear + n) THEN 366 ELSE 365
            BY <5>1, YearsAreLeap
          <5>4. Y(n + 1) - Y(n) = IF Leap(lowYear + n) THEN 366 ELSE 365
            BY <5>2, <5>3
          <5> HIDE DEF Y
          <5> QED BY <4>1, <5>1, <5>4
        <4>3. one < Y(2) /\ Y(4) <= four
          <5>1. lowYear + 1 + 1 = lowYear + 2
            BY <1>4 DEF YearInv, Years
          <5> QED BY <3>2, <3>3, <5>1
        <4> HIDE DEF Y
        <4>4. Y(2) < Y(2 + 1) /\ Y(3) < Y(3 + 1)
          BY <4>2
        <4>5. Y(2) < Y(3) /\ Y(3) < Y(4) /\ Y(2) \in Nat /\ Y(3) \in Nat /\ Y(4) \in Nat
          BY <4>1, <4>4
        <4> QED BY <4>3, <4>5
      <3>6. start = Calendar!day * DAY + (start % DAY) /\ start % DAY \in Nat
        BY <1>4, StartIsItsDay
      <3>7. start < c(m)
        BY <3>2, <3>4, <3>6, LaterDay
      <3>8. c(m) < e(m)
        BY <3>2, <3>3, <3>5, <3>6, LaterDay
      <3>9. Calendar!DateIn(lowYear + 4, e(m)) \in {<<2, 28>>, <<3, 1>>} =>
              Calendar!DateIn(lowYear + 1, c(m)) = Calendar!DateIn(lowYear + 4, e(m))
        BY <1>4, <2>1, <3>1, <3>2, <3>3, ConventionsAgree
      <3> QED BY <3>7, <3>8, <3>9
    <2> HIDE DEF c, e
    <2>2. \A x, y : Calendar!validate(x, y) <=> \E m \in BOOLEAN : x = c(m) /\ y = e(m)
      BY DEF Calendar!validate, c, e
    <2>3. SUFFICES ASSUME Calendar!Found
                   PROVE  /\ \A x \in {c(m) : m \in BOOLEAN}, y \in {e(m) : m \in BOOLEAN} :
                               Calendar!validate(x, y) =>
                                 /\ start < x /\ x < y
                                 /\ Calendar!DateIn(lowYear + 4, y) \in {<<2, 28>>, <<3, 1>>} =>
                                      Calendar!DateIn(lowYear + 1, x) = Calendar!DateIn(lowYear + 4, y)
                          /\ \A x \in {c(m) : m \in BOOLEAN} :
                               \E y \in {e(m) : m \in BOOLEAN} : Calendar!validate(x, y)
      BY DEF Calendar!ValidateIsConsistent, c, e
    <2> QED BY <2>1, <2>2, <2>3
  <1>5. YearInv => SchedulesAreCalendarDates
    BY <1>2, <1>3, <1>4 DEF SchedulesAreCalendarDates, Calendar!SchedulesAreCalendarDates
  <1> QED BY <1>1, <1>5, PTL
=============================================================================
