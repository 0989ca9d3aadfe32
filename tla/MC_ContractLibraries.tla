------------------------ MODULE MC_ContractLibraries ------------------------
EXTENDS ContractLibraries, FiniteSets, SequencesExt

CONSTANT MaxStamp

\* Every schedule over six instants, with allocations that divide the duration,
\* that do not, and the largest one, and malformed terms.
MCProposals ==
  [allocation : {0, 1, 7, MaxAmount}, start : {0, 1}, cliff : 1 .. 3, end : 2 .. MaxTime,
   kind : Kind, originalPurpose : Purposes \cup {NoPurpose}]

\* Every array of up to six checkpoints over eight block times; the cumulative
\* totals do not matter to the search.
MCHistories ==
  {[k \in DOMAIN stamps |-> [timestamp |-> stamps[k], cumulative |-> k]] :
     stamps \in {SetToSortSeq(S, LAMBDA x, y : x < y) :
                   S \in {T \in SUBSET (0 .. MaxStamp) : Cardinality(T) <= 6}}}

MCCutoffs == 0 .. MaxStamp + 1

\* Every day, at its first and its last second, of the first years, of the years
\* around centuries that are leap years and that are not, and of the last years
\* the library accepts.
MCStarts ==
  LET days(y) == 365 * (y - 1970) + Cardinality(
                   {l \in 1970 .. y - 1 : l % 4 = 0 /\ (l % 100 # 0 \/ l % 400 = 0)})
  IN  UNION {(days(y) * DAY) .. (days(y + 1) * DAY - 1) :
               y \in {1970, 1972, 1973, 1999, 2000, 2096, 2099, 2100, 2101, 2400,
                      9992, 9994, 9995, 9996}}

\* Every list of up to two allocations over a two-bit amount, and the lists of
\* three of non-zero amounts: long enough to sum past the width and to exceed
\* the maximum length.
MCAllocation == [id : 0 .. 3, recipient : Recipients \cup {"address(0)"}, amount : 0 .. MaxUint]

MCLists ==
  {<<>>} \cup {<<a>> : a \in MCAllocation} \cup (MCAllocation \X MCAllocation)
  \cup {<<a, b, [id |-> 3, recipient |-> r, amount |-> n]>> :
          a \in [id : {1}, recipient : Recipients, amount : 1 .. MaxUint],
          b \in [id : {1, 2}, recipient : Recipients, amount : 1 .. MaxUint],
          r \in Recipients, n \in 1 .. MaxUint}
  \cup {[k \in 1 .. MAX_GENESIS_ALLOCATIONS + 1 |->
           [id |-> k, recipient |-> "a", amount |-> 1]]}
=============================================================================
