-------------------------- MODULE CheckpointSearch --------------------------
(***************************************************************************)
(* The binary search in rollingCommitted() and rollingOutflow(), one loop  *)
(* iteration per step, over any checkpoint array the contracts can hold.   *)
(***************************************************************************)
EXTENDS RollingWindow

CONSTANTS Histories,  \* checkpoint arrays to search
          Cutoffs     \* block.timestamp - window

\* The contracts append in block order, one checkpoint per block time.
Ordered(cps) == \A i, j \in DOMAIN cps : i < j => cps[i].timestamp < cps[j].timestamp

ASSUME HistoriesAssumption ==
  /\ Histories \subseteq Seq(Checkpoint) /\ Cutoffs \subseteq Nat
  /\ \A cps \in Histories : Ordered(cps)

VARIABLES cps, cutoff, low, high

searchVars == <<cps, cutoff, low, high>>

SearchInit == cps \in Histories /\ cutoff \in Cutoffs /\ low = 0 /\ high = Len(cps)

middle == low + (high - low) \div 2

\* Slip: the cutoff itself still counts.
ExpiredStrictly == cps[middle + 1].timestamp < cutoff

\* The array counts from zero in the contract.
Expired == cps[middle + 1].timestamp <= cutoff

\* Slip: the lower bound is not moved past the middle.
IterateInPlace ==
  /\ low < high
  /\ IF Expired THEN low' = middle /\ high' = high
                ELSE low' = low /\ high' = middle
  /\ UNCHANGED <<cps, cutoff>>

Iterate ==
  /\ low < high
  /\ IF Expired THEN low' = middle + 1 /\ high' = high
                ELSE low' = low /\ high' = middle
  /\ UNCHANGED <<cps, cutoff>>

\* The loop is ordinary sequential code: it does not stop between iterations.
SearchSpec == SearchInit /\ [][Iterate]_searchVars /\ WF_searchVars(Iterate)

----------------------------------------------------------------------------

\* The loop's bounds stay inside the array.
BoundsOK == low \in 0 .. Len(cps) /\ high \in low .. Len(cps)

\* The search (ReserveController.sol 96-105, PurposeReserveVault.sol 120-128)
\* ends at the boundary between expired and live checkpoints.
FindsBoundary == low >= high => low = UpperBound(cps, cutoff)

\* Everything below low has expired and everything from high on has not.
Bracket ==
  /\ \A i \in 1 .. low : cps[i].timestamp <= cutoff
  /\ \A i \in high + 1 .. Len(cps) : cps[i].timestamp > cutoff

\* The search ends, for every array and cutoff.
Terminates == <>(low >= high)
=============================================================================
