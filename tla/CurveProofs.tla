----------------------------- MODULE CurveProofs -----------------------------
(***************************************************************************)
(* What the vesting curve of GrantAccounting computes, for every width:    *)
(* it is bounded by the allocation, it never goes back, it is exactly      *)
(* floor(A * x / d), and none of its intermediate values overflows.  And   *)
(* what the library's operations therefore keep of a grant, and what the   *)
(* sum a fold computes is.                                                 *)
(***************************************************************************)
EXTENDS GrantAccounting, FiniteSetsExt, FiniteSetTheorems, WellFoundedInduction, TLAPS

\* Euclid: the two operators the curve is built from, together.
LEMMA DivMod ==
  ASSUME NEW a \in Nat, NEW d \in Nat, d > 0
  PROVE  /\ a \div d \in Nat
         /\ a % d \in Nat
         /\ a % d < d
         /\ a = d * (a \div d) + (a % d)
  OBVIOUS

\* A quotient is determined by its remainder being in range.
LEMMA DivUnique ==
  ASSUME NEW a \in Nat, NEW d \in Nat, d > 0, NEW q \in Nat, NEW r \in Nat,
         a = d * q + r, r < d
  PROVE  a \div d = q
  OBVIOUS

\* Multiplication is monotone.
LEMMA TimesMonotone ==
  ASSUME NEW a \in Nat, NEW x \in Nat, NEW y \in Nat, x <= y
  PROVE  /\ a * x \in Nat /\ a * y \in Nat
         /\ a * x <= a * y
  OBVIOUS

\* Division is monotone.
LEMMA DivMonotone ==
  ASSUME NEW a \in Nat, NEW b \in Nat, NEW d \in Nat, d > 0, a <= b
  PROVE  a \div d <= b \div d
  OBVIOUS

\* The split the contract computes (GrantAccounting.sol 132-136) is the floor
\* of the exact product: the reference value floor(A * x / d).
THEOREM AccruedIsFloor ==
  ASSUME NEW a \in Nat, NEW d \in Nat, d > 0, NEW x \in Nat
  PROVE  /\ Accrued(a, d, x) \in Nat
         /\ Accrued(a, d, x) = (a * x) \div d
  <1> DEFINE q == a \div d
             r == a % d
             s == (r * x) \div d
             t == (r * x) % d
  <1>1. /\ q \in Nat /\ r \in Nat /\ a = d * q + r
    BY DivMod
  <1>2. r * x \in Nat /\ q * x \in Nat /\ a * x \in Nat
    <2> HIDE DEF q, r
    <2> QED BY <1>1
  <1>3. /\ s \in Nat /\ t \in Nat /\ t < d /\ r * x = d * s + t
    <2> HIDE DEF r
    <2> QED BY <1>2, DivMod
  <1>4. a * x = d * (q * x + s) + t
    <2> HIDE DEF q, r, s, t
    <2>1. a * x = (d * q) * x + r * x
      BY <1>1
    <2>2. (d * q) * x = d * (q * x)
      BY <1>1
    <2>3. d * (q * x + s) = d * (q * x) + d * s
      BY <1>1, <1>2, <1>3
    <2> QED BY <2>1, <2>2, <2>3, <1>1, <1>2, <1>3
  <1>5. q * x + s \in Nat
    <2> HIDE DEF q, s
    <2> QED BY <1>2, <1>3
  <1>6. (a * x) \div d = q * x + s
    <2> HIDE DEF q, s, t
    <2> QED BY <1>2, <1>3, <1>4, <1>5, DivUnique
  <1> QED BY <1>5, <1>6 DEF Accrued, QuotientPart, RemainderProduct

\* No intermediate value of the curve overflows a uint256, even for the
\* largest allocation (GrantAccounting.sol 132-136): a checked overflow would
\* revert every claim of the grant.
THEOREM CurveNeverOverflows ==
  ASSUME NEW a \in Amount, NEW d \in Time, d > 0, NEW x \in Time, x <= d
  PROVE  /\ QuotientPart(a, d, x) \in Amount
         /\ RemainderProduct(a, d, x) \in Amount
         /\ Accrued(a, d, x) <= a
         /\ Accrued(a, d, x) \in Amount
  <1> USE WidthAssumption
  <1>0. a \in Nat /\ d \in Nat /\ x \in Nat /\ d <= MaxTime /\ a <= MaxAmount
    BY DEF Amount, Time
  <1> DEFINE q == a \div d
             r == a % d
  <1>1. /\ q \in Nat /\ r \in Nat /\ r < d /\ a = d * q + r
    BY <1>0, DivMod
  <1>2. q * x \in Nat /\ q * x <= a
    <2> HIDE DEF q, r
    <2>1. q * x <= q * d
      BY <1>0, <1>1, TimesMonotone
    <2> QED BY <2>1, <1>0, <1>1
  <1>3. r * x \in Nat /\ r * x <= MaxAmount
    <2> HIDE DEF r
    <2>1. r * x \in Nat /\ r * x <= r * d
      BY <1>0, <1>1, TimesMonotone
    <2>2. d * r \in Nat /\ d * r <= d * MaxTime
      BY <1>0, <1>1, TimesMonotone
    <2>3. MaxTime * d <= MaxTime * MaxTime
      BY <1>0, TimesMonotone
    <2>4. r * d = d * r /\ d * MaxTime = MaxTime * d
      BY <1>0, <1>1
    <2>5. d * MaxTime \in Nat /\ MaxTime * MaxTime \in Nat
      BY <1>0
    <2> QED BY <2>1, <2>2, <2>3, <2>4, <2>5
  <1>4. Accrued(a, d, x) \in Nat /\ Accrued(a, d, x) <= a
    <2>1. a * x \in Nat /\ a * d \in Nat /\ a * x <= a * d
      BY <1>0, TimesMonotone
    <2>2. (a * x) \div d <= (a * d) \div d
      BY <2>1, <1>0, DivMonotone
    <2>3. (a * d) \div d = a
      <3>1. a * d = d * a + 0
        BY <1>0
      <3> QED BY <3>1, <2>1, <1>0, DivUnique
    <2> QED BY <2>2, <2>3, <1>0, AccruedIsFloor
  <1> QED BY <1>0, <1>2, <1>3, <1>4 DEF Amount, QuotientPart, RemainderProduct

\* The curve stays within the allocation at every time.
LEMMA CurveBounded ==
  ASSUME NEW terms \in Terms, terms.cliff < terms.end, NEW t \in Time
  PROVE  /\ _curve(terms, t) \in Amount
         /\ _curve(terms, t) <= terms.allocation
  <1> DEFINE a == terms.allocation
             d == terms.end - terms.cliff
             x == t - terms.cliff
  <1>1. a \in Amount /\ terms.cliff \in Time /\ terms.end \in Time
    BY DEF Terms
  <1>2. CASE t > terms.cliff /\ t < terms.end
    <2>1. d \in Time /\ d > 0 /\ x \in Time /\ x <= d
      BY <1>1, <1>2, WidthAssumption DEF Time
    <2>2. _curve(terms, t) = Accrued(a, d, x)
      BY <1>1, <1>2 DEF _curve, Time
    <2> HIDE DEF a, d, x
    <2>3. Accrued(a, d, x) \in Amount /\ Accrued(a, d, x) <= a
      BY <1>1, <2>1, CurveNeverOverflows
    <2> QED BY <2>2, <2>3 DEF a
  <1>3. CASE ~ (t > terms.cliff /\ t < terms.end)
    BY <1>1, <1>3, WidthAssumption DEF _curve, Time, Amount
  <1> QED BY <1>2, <1>3

\* Vesting never goes back: the fact that makes "released <= vested" survive
\* every later transition (GrantAccounting.sol 103, "the curve guarantee
\* vested >= released").
THEOREM CurveMonotone ==
  ASSUME NEW terms \in Terms, terms.cliff < terms.end,
         NEW t \in Time, NEW u \in Time, t <= u
  PROVE  _curve(terms, t) <= _curve(terms, u)
  <1> DEFINE a == terms.allocation
             d == terms.end - terms.cliff
             x == t - terms.cliff
             y == u - terms.cliff
  <1>1. a \in Amount /\ terms.cliff \in Time /\ terms.end \in Time
    BY DEF Terms
  <1>2. CASE t > terms.cliff /\ u < terms.end
    <2>1. /\ a \in Nat /\ d \in Nat /\ d > 0 /\ x \in Nat /\ y \in Nat /\ x <= y
      BY <1>1, <1>2, WidthAssumption DEF Time, Amount
    <2>2. _curve(terms, t) = Accrued(a, d, x) /\ _curve(terms, u) = Accrued(a, d, y)
      BY <1>1, <1>2 DEF _curve, Time
    <2> HIDE DEF a, d, x, y
    <2>3. a * x \in Nat /\ a * y \in Nat /\ a * x <= a * y
      BY <2>1, TimesMonotone
    <2>4. (a * x) \div d <= (a * y) \div d
      BY <2>1, <2>3, DivMonotone
    <2>5. Accrued(a, d, x) = (a * x) \div d /\ Accrued(a, d, y) = (a * y) \div d
      BY <2>1, AccruedIsFloor
    <2> QED BY <2>2, <2>4, <2>5
  <1>3. CASE t <= terms.cliff
    <2>1. _curve(terms, t) = 0
      BY <1>3 DEF _curve
    <2>2. _curve(terms, u) \in Amount
      BY CurveBounded
    <2> QED BY <2>1, <2>2, WidthAssumption DEF Amount
  <1>4. CASE t > terms.cliff /\ u >= terms.end
    <2>1. _curve(terms, u) = terms.allocation
      BY <1>1, <1>4, WidthAssumption DEF _curve, Time
    <2> QED BY <2>1, CurveBounded
  <1> QED BY <1>1, <1>2, <1>3, <1>4, WidthAssumption DEF Time
----------------------------------------------------------------------------
(* What every operation of the library keeps of a grant.                   *)

\* Validated terms, and at the last transition no more released than the
\* entitlement, and no more frozen than the allocation.
Sound(g) ==
  /\ g \in Grant /\ g.initialized /\ _validate(g.terms)
  /\ g.released <= _entitlement(g, g.lastTransition)
  /\ g.frozenEntitlement <= g.terms.allocation

\* Zeroed storage is a grant.
LEMMA EmptyGrantTyped == EmptyGrant \in Grant
  BY WidthAssumption DEF EmptyGrant, Grant, Terms, Amount, Time, Kind

\* From the last transition on, the entitlement of a sound grant is an amount
\* within the allocation and never below the released amount.
LEMMA SoundCovers ==
  ASSUME NEW g, Sound(g), NEW t \in Time, t >= g.lastTransition
  PROVE  /\ _entitlement(g, t) \in Amount
         /\ _entitlement(g, t) <= g.terms.allocation
         /\ g.released <= _entitlement(g, t)
  <1>1. g \in Grant /\ g.terms \in Terms /\ g.lastTransition \in Time
    BY DEF Sound, Grant
  <1>2. g.terms.cliff < g.terms.end
    BY DEF Sound, _validate
  <1>3. /\ _curve(g.terms, t) \in Amount
        /\ _curve(g.terms, t) <= g.terms.allocation
    BY <1>1, <1>2, CurveBounded
  <1>4. _curve(g.terms, g.lastTransition) <= _curve(g.terms, t)
    BY <1>1, <1>2, CurveMonotone
  <1>5. _curve(g.terms, g.lastTransition) \in Amount
    BY <1>1, <1>2, CurveBounded
  <1>6. CASE g.cancelled
    BY <1>1, <1>6 DEF Sound, _entitlement, Grant
  <1>7. CASE ~ g.cancelled
    BY <1>1, <1>3, <1>4, <1>5, <1>7, WidthAssumption DEF Sound, _entitlement, Grant, Amount
  <1> QED BY <1>6, <1>7

\* initialize() makes a sound grant of validated terms.
LEMMA InitializeSound ==
  ASSUME NEW terms \in Terms, _validate(terms)
  PROVE  /\ Sound(initialize(EmptyGrant, terms))
         /\ initialize(EmptyGrant, terms).terms = terms
         /\ initialize(EmptyGrant, terms).released = 0
         /\ initialize(EmptyGrant, terms).lastTransition = 0
         /\ ~ initialize(EmptyGrant, terms).cancelled
  <1> DEFINE g == initialize(EmptyGrant, terms)
  <1>0. g = [EmptyGrant EXCEPT !.terms = terms, !.initialized = TRUE, !.lastTransition = 0]
    BY DEF initialize
  <1>1. g = [terms |-> terms, released |-> 0, frozenEntitlement |-> 0,
             lastTransition |-> 0, initialized |-> TRUE, cancelled |-> FALSE]
    <2> HIDE DEF g
    <2> QED BY <1>0 DEF EmptyGrant
  <1>2. 0 \in Amount /\ 0 \in Time
    BY WidthAssumption DEF Amount, Time
  <1>3. g \in Grant
    BY <1>1, <1>2 DEF Grant
  <1>4. _curve(terms, 0) = 0
    BY DEF _curve, Terms, Time
  <1>5. terms.allocation \in Nat
    BY WidthAssumption DEF Terms, Amount
  <1> HIDE DEF g
  <1> QED BY <1>1, <1>3, <1>4, <1>5 DEF Sound, _entitlement, g

\* release() keeps a grant sound and adds what it releases.
LEMMA ReleaseSound ==
  ASSUME NEW g, Sound(g), NEW t \in Time, NEW amount \in Nat, ReleaseAllowed(g, t, amount)
  PROVE  /\ Sound(release(g, t, amount))
         /\ release(g, t, amount).terms = g.terms
         /\ release(g, t, amount).released = g.released + amount
         /\ release(g, t, amount).lastTransition = t
         /\ release(g, t, amount).frozenEntitlement = g.frozenEntitlement
         /\ release(g, t, amount).cancelled = g.cancelled
  <1> DEFINE h == release(g, t, amount)
  <1>1. g \in Grant /\ g.initialized /\ t >= g.lastTransition /\ amount <= available(g, t)
    BY DEF Sound, ReleaseAllowed, _requireCurrent
  <1>2. /\ h.terms = g.terms /\ h.released = g.released + amount /\ h.lastTransition = t
        /\ h.frozenEntitlement = g.frozenEntitlement /\ h.cancelled = g.cancelled
        /\ h.initialized = g.initialized
    BY <1>1 DEF release, Grant
  <1>3. /\ _entitlement(g, t) \in Amount /\ _entitlement(g, t) <= g.terms.allocation
        /\ g.released <= _entitlement(g, t)
    BY <1>1, SoundCovers
  <1>4. h.released <= _entitlement(g, t) /\ h.released \in Amount
    BY <1>1, <1>2, <1>3, WidthAssumption DEF available, Grant, Amount
  <1>5. h \in Grant
    BY <1>1, <1>4 DEF release, Grant
  <1>6. _entitlement(h, t) = _entitlement(g, t)
    BY <1>2 DEF _entitlement
  <1> QED BY <1>2, <1>4, <1>5, <1>6 DEF Sound

\* cancel() keeps a grant sound, freezes what has vested and refunds the rest.
LEMMA CancelSound ==
  ASSUME NEW g, Sound(g), NEW t \in Time, CancelAllowed(g, t)
  PROVE  /\ Sound(cancel(g, t))
         /\ cancel(g, t).terms = g.terms
         /\ cancel(g, t).released = g.released
         /\ cancel(g, t).lastTransition = t
         /\ cancel(g, t).frozenEntitlement = _curve(g.terms, t)
         /\ cancel(g, t).cancelled
         /\ refund(g, t) = g.terms.allocation - _curve(g.terms, t)
         /\ refund(g, t) \in Amount
         /\ g.released <= _curve(g.terms, t)
  <1> DEFINE h == cancel(g, t)
             vested == _curve(g.terms, t)
  <1>1. g \in Grant /\ ~ g.cancelled /\ t >= g.lastTransition
    BY DEF Sound, CancelAllowed
  <1>2. vested \in Amount /\ vested <= g.terms.allocation /\ g.released <= vested
    BY <1>1, SoundCovers DEF _entitlement
  <1>3. /\ h.terms = g.terms /\ h.released = g.released /\ h.lastTransition = t
        /\ h.frozenEntitlement = vested /\ h.cancelled /\ h.initialized = g.initialized
    BY <1>1 DEF cancel, Grant
  <1>4. h \in Grant
    BY <1>1, <1>2 DEF cancel, Grant
  <1>5. refund(g, t) = g.terms.allocation - vested
    BY DEF refund
  <1>6. g.terms.allocation \in Amount
    BY <1>1 DEF Grant, Terms
  <1>7. refund(g, t) \in Amount
    BY <1>2, <1>5, <1>6, WidthAssumption DEF Amount
  <1> QED BY <1>2, <1>3, <1>4, <1>5, <1>7 DEF Sound, _entitlement

----------------------------------------------------------------------------
(* Sums.  A fold takes the elements of a finite set out in an order nobody *)
(* knows; what it computes is a sum, whichever order that is.  The library *)
(* has no proofs about folds, and its induction theorems cannot be         *)
(* instantiated: a smallest counterexample takes their place.              *)

\* A nonempty set of natural numbers has a least one.
LEMMA LeastNumber ==
  ASSUME NEW S \in SUBSET Nat, S # {}
  PROVE  \E x \in S : \A y \in S : x <= y
  <1> DEFINE R == OpToRel(<, Nat)
  <1>1. IsWellFoundedOn(R, Nat)
    BY NatLessThanWellFounded
  <1>2. \A x, y \in Nat : x < y => <<x, y>> \in R
    BY DEF OpToRel
  <1> HIDE DEF R
  <1>3. PICK x \in S : \A y \in S : ~ (<<y, x>> \in R)
    BY <1>1, WFMin
  <1>4. ASSUME NEW y \in S
        PROVE  x <= y
    <2>1. ~ (y < x)
      BY <1>2, <1>3
    <2>2. x \in Nat /\ y \in Nat
      OBVIOUS
    <2> QED BY <2>1, <2>2
  <1> QED BY <1>4

\* A nonempty set of finite sets has one of least cardinality.
LEMMA SmallestSet ==
  ASSUME NEW B, B # {}, \A U \in B : IsFiniteSet(U)
  PROVE  \E U \in B : \A V \in B : Cardinality(U) <= Cardinality(V)
  <1> DEFINE C == {Cardinality(U) : U \in B}
  <1>1. C \in SUBSET Nat /\ C # {}
    BY FS_CardinalityType
  <1>2. PICK n \in C : \A m \in C : n <= m
    BY <1>1, LeastNumber
  <1> QED BY <1>2

\* The element a fold takes out first.
Chosen(U) == CHOOSE x \in U : TRUE

\* h sums g over the subsets of D, taking out the chosen element each time.
SumsByChoice(h, g, D) ==
  h = [U \in SUBSET D |-> IF U = {} THEN 0 ELSE g[Chosen(U)] + h[U \ {Chosen(U)}]]

\* h sums g over the subsets of D, whichever element is taken out.
Sums(h, g, D) ==
  /\ h \in [SUBSET D -> Int]
  /\ h[{}] = 0
  /\ \A U \in SUBSET D : \A x \in U : h[U] = g[x] + h[U \ {x}]

\* What is chosen is an element.
LEMMA ChosenIsIn ==
  ASSUME NEW U, U # {}
  PROVE  Chosen(U) \in U
  BY DEF Chosen

\* The recursion has a solution: each round of it is right for one more element.
LEMMA SumsByChoiceExists ==
  ASSUME NEW D, IsFiniteSet(D), NEW g, \A x \in D : g[x] \in Int
  PROVE  \E h \in [SUBSET D -> Int] : SumsByChoice(h, g, D)
  <1> DEFINE Turn(h, U) == IF U = {} THEN 0 ELSE g[Chosen(U)] + h[U \ {Chosen(U)}]
             Upto(h, n) == \A U \in SUBSET D : Cardinality(U) <= n => h[U] = Turn(h, U)
             Bad == {n \in Nat : ~ \E h \in [SUBSET D -> Int] : Upto(h, n)}
  <1>1. \A U \in SUBSET D : /\ IsFiniteSet(U) /\ Cardinality(U) \in Nat
                            /\ Cardinality(U) <= Cardinality(D)
                            /\ U = {} <=> Cardinality(U) = 0
    BY FS_Subset, FS_CardinalityType, FS_EmptySet
  <1>2. \A U \in SUBSET D : U # {} =>
           /\ Chosen(U) \in D /\ U \ {Chosen(U)} \in SUBSET D
           /\ Cardinality(U \ {Chosen(U)}) = Cardinality(U) - 1
    BY <1>1, FS_RemoveElement, ChosenIsIn
  <1>3. ASSUME NEW h \in [SUBSET D -> Int], NEW U \in SUBSET D
        PROVE  Turn(h, U) \in Int
    <2>1. CASE U = {}
      BY <2>1
    <2>2. CASE U # {}
      <3>1. g[Chosen(U)] \in Int /\ h[U \ {Chosen(U)}] \in Int
        BY <1>2, <2>2
      <3> QED BY <2>2, <3>1
    <2> QED BY <2>1, <2>2
  <1>4. Bad = {}
    <2>1. SUFFICES ASSUME Bad # {}
                   PROVE  FALSE
      OBVIOUS
    <2>2. PICK n \in Bad : \A m \in Bad : n <= m
      BY <2>1, LeastNumber
    <2>3. n \in Nat
      BY <2>2
    <2>4. n # 0
      <3> DEFINE z == [U \in SUBSET D |-> 0]
      <3>1. z \in [SUBSET D -> Int]
        OBVIOUS
      <3>2. Upto(z, 0)
        BY <1>1
      <3> HIDE DEF z, Upto
      <3> QED BY <3>1, <3>2, <2>2
    <2>5. n - 1 \notin Bad /\ n - 1 \in Nat
      <3> HIDE DEF Bad
      <3>1. n - 1 \in Nat /\ ~ (n <= n - 1)
        BY <2>3, <2>4
      <3> QED BY <2>2, <3>1
    <2>6. PICK h \in [SUBSET D -> Int] : Upto(h, n - 1)
      <3> HIDE DEF Upto
      <3> QED BY <2>5
    <2> DEFINE k == [U \in SUBSET D |-> Turn(h, U)]
    <2>7. k \in [SUBSET D -> Int]
      BY <1>3
    <2>8. ASSUME NEW U \in SUBSET D, Cardinality(U) <= n
          PROVE  k[U] = Turn(k, U)
      <3>1. CASE U = {}
        BY <3>1
      <3>2. CASE U # {}
        <4> DEFINE V == U \ {Chosen(U)}
        <4>1. V \in SUBSET D /\ Cardinality(V) <= n - 1
          BY <1>1, <1>2, <2>3, <2>8, <3>2
        <4>2. h[V] = Turn(h, V)
          BY <4>1, <2>6
        <4>3. k[V] = Turn(h, V)
          BY <4>1
        <4>4. k[U] = g[Chosen(U)] + h[V]
          BY <3>2
        <4> QED BY <3>2, <4>2, <4>3, <4>4
      <3> QED BY <3>1, <3>2
    <2>9. Upto(k, n)
      BY <2>8
    <2> HIDE DEF k, Upto
    <2> QED BY <2>2, <2>7, <2>9
  <1>5. Cardinality(D) \in Nat
    BY FS_CardinalityType
  <1>6. PICK h \in [SUBSET D -> Int] : Upto(h, Cardinality(D))
    <2> HIDE DEF Upto
    <2> QED BY <1>4, <1>5
  <1>7. \A U \in SUBSET D : h[U] = Turn(h, U)
    BY <1>1, <1>6
  <1> QED BY <1>7 DEF SumsByChoice

\* The order does not matter.
LEMMA SumsByChoiceSums ==
  ASSUME NEW D, IsFiniteSet(D), NEW g, \A x \in D : g[x] \in Int,
         NEW h, SumsByChoice(h, g, D)
  PROVE  Sums(h, g, D)
  <1>1. \A U \in SUBSET D : IsFiniteSet(U)
    BY FS_Subset
  <1>2. \A U \in SUBSET D : \A x \in U :
           /\ U \ {x} \in SUBSET D
           /\ Cardinality(U) \in Nat /\ Cardinality(U \ {x}) = Cardinality(U) - 1
    BY <1>1, FS_RemoveElement, FS_CardinalityType
  <1>3. \A U \in SUBSET D : U # {} => h[U] = g[Chosen(U)] + h[U \ {Chosen(U)}]
    BY DEF SumsByChoice
  <1>4. h[{}] = 0
    BY DEF SumsByChoice
  <1>5. \A U \in SUBSET D : h[U] \in Int
    <2> DEFINE Bad == {U \in SUBSET D : h[U] \notin Int}
    <2>1. SUFFICES ASSUME Bad # {}
                   PROVE  FALSE
      OBVIOUS
    <2>2. PICK U \in Bad : \A V \in Bad : Cardinality(U) <= Cardinality(V)
      BY <1>1, <2>1, SmallestSet
    <2>3. U # {}
      <3>1. h[U] \notin Int
        BY <2>2
      <3> HIDE DEF Bad
      <3> QED BY <1>4, <3>1
    <2>4. Chosen(U) \in U
      BY <2>3, ChosenIsIn
    <2>5. h[U \ {Chosen(U)}] \in Int
      BY <1>2, <2>2, <2>4
    <2>6. g[Chosen(U)] \in Int /\ h[U] \notin Int /\ U \in SUBSET D
      BY <2>2, <2>4
    <2> QED BY <1>3, <2>3, <2>5, <2>6
  <1>6. \A U \in SUBSET D : \A x \in U : h[U] = g[x] + h[U \ {x}]
    <2> DEFINE Bad == {U \in SUBSET D : ~ \A x \in U : h[U] = g[x] + h[U \ {x}]}
    <2>1. SUFFICES ASSUME Bad # {}
                   PROVE  FALSE
      OBVIOUS
    <2>2. PICK U \in Bad : \A V \in Bad : Cardinality(U) <= Cardinality(V)
      BY <1>1, <2>1, SmallestSet
    <2>3. PICK x \in U : h[U] # g[x] + h[U \ {x}]
      BY <2>2
    <2>4. U # {} /\ U \in SUBSET D
      BY <2>2, <2>3
    <2> DEFINE c == Chosen(U)
    <2>5. c \in U /\ h[U] = g[c] + h[U \ {c}]
      BY <1>3, <2>4, ChosenIsIn
    <2>6. c # x
      BY <2>3, <2>5
    <2> HIDE DEF c
    <2>7. U \ {c} \in SUBSET D /\ U \ {c} \notin Bad
      <3> HIDE DEF Bad
      <3> QED BY <1>2, <2>2, <2>4, <2>5
    <2>8. U \ {x} \in SUBSET D /\ U \ {x} \notin Bad
      <3> HIDE DEF Bad
      <3> QED BY <1>2, <2>2, <2>4, <2>3
    <2>9. h[U \ {c}] = g[x] + h[(U \ {c}) \ {x}]
      BY <2>3, <2>6, <2>7
    <2>10. h[U \ {x}] = g[c] + h[(U \ {x}) \ {c}]
      BY <2>5, <2>6, <2>8
    <2>11. (U \ {c}) \ {x} = (U \ {x}) \ {c} /\ (U \ {c}) \ {x} \in SUBSET D
      BY <2>4
    <2>12. h[(U \ {c}) \ {x}] \in Int /\ g[x] \in Int /\ g[c] \in Int
      BY <1>5, <2>3, <2>4, <2>5, <2>11
    <2> HIDE DEF Bad
    <2> DEFINE r == h[(U \ {c}) \ {x}]
    <2>13. h[(U \ {x}) \ {c}] = r
      BY <2>11
    <2>14. h[U \ {c}] = g[x] + r /\ h[U \ {x}] = g[c] + r /\ r \in Int
      BY <2>9, <2>10, <2>12, <2>13
    <2> HIDE DEF r
    <2> QED BY <2>3, <2>5, <2>12, <2>14
  <1>7. h \in [SUBSET D -> Int]
    BY <1>5 DEF SumsByChoice
  <1> QED BY <1>4, <1>6, <1>7 DEF Sums

\* The sum of a set depends on its summands only.
LEMMA SumsAgree ==
  ASSUME NEW D, IsFiniteSet(D), NEW g, NEW h, Sums(h, g, D),
         NEW E, IsFiniteSet(E), NEW f, NEW k, Sums(k, f, E),
         NEW U \in SUBSET D, U \in SUBSET E, \A x \in U : f[x] = g[x]
  PROVE  h[U] = k[U]
  <1> DEFINE Bad == {V \in SUBSET U : h[V] # k[V]}
  <1>1. SUFFICES ASSUME Bad # {}
                 PROVE  FALSE
    OBVIOUS
  <1>2. \A V \in SUBSET U : IsFiniteSet(V)
    BY FS_Subset
  <1>3. PICK V \in Bad : \A W \in Bad : Cardinality(V) <= Cardinality(W)
    BY <1>1, <1>2, SmallestSet
  <1>4. V # {} /\ V \in SUBSET U
    BY <1>3 DEF Sums
  <1>5. PICK x \in V : TRUE
    BY <1>4
  <1>6. /\ V \ {x} \in SUBSET U
        /\ Cardinality(V) \in Nat /\ Cardinality(V \ {x}) = Cardinality(V) - 1
    BY <1>2, <1>4, <1>5, FS_RemoveElement, FS_CardinalityType
  <1>7. V \ {x} \notin Bad
    <2> HIDE DEF Bad
    <2> QED BY <1>3, <1>6
  <1>8. h[V] = g[x] + h[V \ {x}] /\ k[V] = f[x] + k[V \ {x}]
    BY <1>4, <1>5 DEF Sums
  <1> QED BY <1>3, <1>4, <1>5, <1>6, <1>7, <1>8

\* And a part of a sum is the sum of the part.
LEMMA PartOfSum ==
  ASSUME NEW D, IsFiniteSet(D), NEW g, NEW h, Sums(h, g, D),
         NEW E \in SUBSET D, NEW k, Sums(k, g, E)
  PROVE  h[E] = k[E]
  <1>1. IsFiniteSet(E) /\ E \in SUBSET E
    BY FS_Subset
  <1>2. \A f : Sums(k, f, E) /\ (\A x \in E : f[x] = g[x]) => h[E] = k[E]
    BY <1>1, SumsAgree
  <1>3. Sums(k, g, E) /\ (\A x \in E : g[x] = g[x])
    OBVIOUS
  <1> QED BY <1>2, <1>3

\* Taking out an element takes out its summand.
LEMMA SumWithout ==
  ASSUME NEW D, IsFiniteSet(D), NEW g, NEW h, Sums(h, g, D),
         NEW x \in D, NEW k, Sums(k, g, D \ {x})
  PROVE  h[D] = g[x] + k[D \ {x}]
  <1> DEFINE E == D \ {x}
  <1>1. E \in SUBSET D
    OBVIOUS
  <1>2. h[D] = g[x] + h[E]
    BY DEF Sums
  <1>3. Sums(k, g, E)
    OBVIOUS
  <1> HIDE DEF E
  <1>4. h[E] = k[E]
    BY <1>1, <1>3, PartOfSum
  <1> QED BY <1>2, <1>4 DEF E
==============================================================================
