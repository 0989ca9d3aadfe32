---------------------------- MODULE MC_ChainTools ----------------------------
(* A founder's and a team's grant that start at two and vest until six, and   *)
(* time beyond; both allocations vest in parts.  Two forward transfers of one  *)
(* account, of nonces 5 and 6 and of nonces 7 and 8, begun at nonce 5 or,      *)
(* after an approval by hand, 6.  A chain of three blocks of either of two     *)
(* names, seen through an endpoint of which one answer may be stale.  One      *)
(* message from Ethereum to Solana; two blocks are enough for a transaction to *)
(* move.  One transfer each way: the reverse one can only burn what the        *)
(* forward one has minted, or what was issued besides.                         *)
EXTENDS ChainTools, TLC

CONSTANTS b1, b2

BlockSymmetry == Permutations(Blocks)

MCGrants == <<"founder", "team">>

MCTerms == [allocation |-> 4, start |-> 2, cliff |-> 3, end |-> 6, kind |-> "Founder",
            originalPurpose |-> "test"]

MCTermsOf == [g \in {"founder", "team"} |->
                IF g = "founder" THEN MCTerms ELSE [MCTerms EXCEPT !.kind = "TeamService"]]

MCApprovalNonce == [p \in {"first", "second"} |-> IF p = "first" THEN 5 ELSE 7]

MCIdentity == [direction |-> "ethereum-to-solana", amount |-> 1]

MCDirectionOf == [t \in {"there", "back"} |->
                    IF t = "there" THEN "ethereum-to-solana" ELSE "solana-to-ethereum"]

\* What the chains do after the report was given is of no interest.
NotReported == stage # "done"
=============================================================================
