-------------------------- MODULE MC_GrantReserves --------------------------
EXTENDS GrantReserves

\* A window of three of eight instants and a cap of four, for grants of two or
\* three: a second grant of a window fits or not, a cancelled one refunds in
\* whole or in part.
MCSchedules == {<<1, 2, 4>>, <<4, 5, 6>>}

MCProposals ==
  {[allocation |-> a, start |-> s[1], cliff |-> s[2], end |-> s[3], kind |-> k,
    originalPurpose |-> "contributors"] :
     a \in {2, 3}, s \in MCSchedules \cup {<<1, 3, 4>>}, k \in Kind}

MCBeneficiaries == {"contributor", "reserve"}

\* Supplies of which three percent are whole tokens, and one of which they are
\* not; three allocations around them; an inventory that arrives in parts, too
\* small, or larger than the allocation.
MCFounderSchedules == {<<2, 3, 6>>, <<1, 2, 4>>}

MCFounderProposals ==
  {[allocation |-> a, start |-> s[1], cliff |-> s[2], end |-> s[3], kind |-> k,
    originalPurpose |-> "founder"] :
     a \in {3, 4, 6}, s \in MCFounderSchedules \cup {<<1, 3, 4>>}, k \in Kind}

\* A four-instant accrual that does not divide the allocation, of either kind;
\* one token is left for gifts.
MCGrantProposals ==
  [allocation : {3}, start : {1}, cliff : {2}, end : {6}, kind : Kind,
   originalPurpose : {"contributors"}]
=============================================================================
