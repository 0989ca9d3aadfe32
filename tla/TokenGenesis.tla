---------------------------- MODULE TokenGenesis ----------------------------
(***************************************************************************)
(* The constructor of AGTMAIToken.sol: one pass that checks a sorted list  *)
(* of allocations and sums it in unchecked arithmetic, then one that mints *)
(* them.  A revert leaves nothing behind.                                  *)
(***************************************************************************)
EXTENDS Integers, Sequences, FiniteSetsExt

CONSTANTS MaxAmount,   \* type(uint256).max
          Recipients,  \* addresses other than zero
          Lists,       \* the allocation lists given to the constructor
          MAX_GENESIS_ALLOCATIONS

Zero == "address(0)"

\* An id is compared as a number; zero is bytes32(0).
Allocation == [id : Nat, recipient : Recipients \cup {Zero}, amount : 0 .. MaxAmount]

VARIABLES initialSupply,      \* the constructor's arguments
          sortedAllocations,
          stage,              \* "check", "mint", "deployed" or "reverted"
          i, sum, previousId, \* the loop
          bal,                \* the ERC-20 ledger
          totalSupply

vars == <<initialSupply, sortedAllocations, stage, i, sum, previousId, bal, totalSupply>>

Init ==
  /\ initialSupply \in 0 .. MaxAmount
  /\ sortedAllocations \in Lists
  /\ stage = "check"
  /\ i = 0 /\ sum = 0 /\ previousId = 0
  /\ bal = [r \in Recipients |-> 0] /\ totalSupply = 0

count == Len(sortedAllocations)
allocation == sortedAllocations[i + 1]

Revert ==
  /\ stage' = "reverted"
  /\ UNCHANGED <<initialSupply, sortedAllocations, i, sum, previousId, bal, totalSupply>>

nextSum == (sum + allocation.amount) % (MaxAmount + 1)

\* Slip: an id may repeat.
AdmissibleRepeated ==
  /\ allocation.id # 0
  /\ i # 0 => allocation.id >= previousId
  /\ allocation.recipient # Zero
  /\ allocation.amount # 0
  /\ \A j \in 1 .. i : sortedAllocations[j].recipient # allocation.recipient
  /\ nextSum >= sum

\* The checks of one turn of the loop.
Admissible ==
  /\ allocation.id # 0
  /\ i # 0 => allocation.id > previousId
  /\ allocation.recipient # Zero
  /\ allocation.amount # 0
  /\ \A j \in 1 .. i : sortedAllocations[j].recipient # allocation.recipient
  /\ nextSum >= sum

RefuseLength ==
  /\ stage = "check" /\ i = 0 /\ count \notin 1 .. MAX_GENESIS_ALLOCATIONS
  /\ Revert

Check ==
  /\ stage = "check" /\ i < count /\ count <= MAX_GENESIS_ALLOCATIONS
  /\ IF Admissible
       THEN /\ i' = i + 1 /\ sum' = nextSum /\ previousId' = allocation.id
            /\ UNCHANGED <<initialSupply, sortedAllocations, stage, bal, totalSupply>>
       ELSE Revert

Balance ==
  /\ stage = "check" /\ i = count /\ count > 0
  /\ IF sum = initialSupply
       THEN /\ stage' = "mint" /\ i' = 0
            /\ UNCHANGED <<initialSupply, sortedAllocations, sum, previousId, bal, totalSupply>>
       ELSE Revert

Mint ==
  /\ stage = "mint" /\ i < count
  /\ bal' = [bal EXCEPT ![allocation.recipient] = @ + allocation.amount]
  /\ totalSupply' = totalSupply + allocation.amount
  /\ i' = i + 1
  /\ UNCHANGED <<initialSupply, sortedAllocations, stage, sum, previousId>>

Deploy ==
  /\ stage = "mint" /\ i = count
  /\ stage' = "deployed"
  /\ UNCHANGED <<initialSupply, sortedAllocations, i, sum, previousId, bal, totalSupply>>

Next == RefuseLength \/ Check \/ Balance \/ Mint \/ Deploy

Spec == Init /\ [][Next]_vars

----------------------------------------------------------------------------

\* What the list says a recipient gets, and all of them.
Share(r) == MapThenSumSet(LAMBDA k : sortedAllocations[k].amount,
                          {k \in 1 .. count : sortedAllocations[k].recipient = r})
Total == MapThenSumSet(LAMBDA k : sortedAllocations[k].amount, 1 .. count)

\* A deployed token has minted the declared supply, no more and no less, and to
\* each recipient what the list says (45-87); no mint overflows on the way.
MintsTheDeclaredSupply ==
  /\ totalSupply <= MaxAmount
  /\ stage = "deployed" =>
       /\ totalSupply = initialSupply /\ Total = initialSupply
       /\ \A r \in Recipients : bal[r] = Share(r)

\* What the constructor accepts, said of the whole list at once: in strictly
\* increasing order of non-zero ids, distinct recipients, amounts that add up.
WellFormed ==
  /\ count \in 1 .. MAX_GENESIS_ALLOCATIONS
  /\ \A k \in 1 .. count : LET a == sortedAllocations[k]
                           IN  a.id # 0 /\ a.recipient # Zero /\ a.amount # 0
  /\ \A k, l \in 1 .. count :
       k < l => /\ sortedAllocations[k].id < sortedAllocations[l].id
                /\ sortedAllocations[k].recipient # sortedAllocations[l].recipient
  /\ Total = initialSupply

\* The checks accept exactly the well-formed lists (36-67).
AcceptsExactlyTheWellFormed ==
  /\ stage \in {"mint", "deployed"} => WellFormed
  /\ stage = "reverted" => ~ WellFormed

\* The two together: what is deployed is what was declared, in full.
GenesisIsDeclared == MintsTheDeclaredSupply /\ AcceptsExactlyTheWellFormed
=============================================================================
