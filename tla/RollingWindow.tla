---------------------------- MODULE RollingWindow ----------------------------
(***************************************************************************)
(* The rolling gross limit that ReserveController.sol and                  *)
(* PurposeReserveVault.sol implement alike: an array of checkpoints with   *)
(* cumulative totals, one per block time, never cleaned up.                *)
(*                                                                         *)
(* The arrays count from 1 here.  UpperBound is what the binary search     *)
(* returns; module CheckpointSearch steps through the search itself.       *)
(***************************************************************************)
EXTENDS Integers, Sequences

Checkpoint == [timestamp : Nat, cumulative : Nat]

\* The running total up to and including the i-th checkpoint.
Cumulative(cps, i) == IF i = 0 THEN 0 ELSE cps[i].cumulative

\* grossCommitted(), grossOutflow().
Gross(cps) == Cumulative(cps, Len(cps))

\* The last expired prefix: everything at or before the cutoff.
UpperBound(cps, cutoff) ==
  CHOOSE n \in 0 .. Len(cps) :
    /\ \A i \in 1 .. n : cps[i].timestamp <= cutoff
    /\ \A i \in n + 1 .. Len(cps) : cps[i].timestamp > cutoff

\* Slip: the limit is per calendar period, which resets.
CalendarTotal(cps, now, window) ==
  Gross(cps) - Cumulative(cps, UpperBound(cps, (now \div window) * window - 1))

\* rollingCommitted(), rollingOutflow(): what lies in (now - window, now].
RollingTotal(cps, now, window) ==
  IF now < window THEN Gross(cps)
  ELSE Gross(cps) - Cumulative(cps, UpperBound(cps, now - window))

\* Slip: a second movement of a block replaces the first.
RecordReplacing(cps, now, amount) ==
  IF Len(cps) > 0 /\ cps[Len(cps)].timestamp = now
    THEN [cps EXCEPT ![Len(cps)].cumulative = Cumulative(cps, Len(cps) - 1) + amount]
    ELSE Append(cps, [timestamp |-> now, cumulative |-> Gross(cps) + amount])

\* A movement of the current block joins the block's checkpoint.
Record(cps, now, amount) ==
  IF Len(cps) > 0 /\ cps[Len(cps)].timestamp = now
    THEN [cps EXCEPT ![Len(cps)].cumulative = Gross(cps) + amount]
    ELSE Append(cps, [timestamp |-> now, cumulative |-> Gross(cps) + amount])

----------------------------------------------------------------------------
(* History, to judge the checkpoints by: total[t] is what moved up to and   *)
(* including block time t.                                                  *)

Since(total, now, amount) ==
  [t \in DOMAIN total |-> IF t >= now THEN total[t] + amount ELSE total[t]]

\* What moved in the window that ends with block time t.
Moved(total, t, window) == total[t] - (IF t < window THEN 0 ELSE total[t - window])
=============================================================================
