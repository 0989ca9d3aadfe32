-------------------------- MODULE MessageProjection --------------------------
(***************************************************************************)
(* packages/domain: what the observations of one CCIP message say about    *)
(* it (features/ccip-status/message.ts), and what two ledgers and the      *)
(* pending amounts say about backing (supply.ts).                          *)
(*                                                                         *)
(* An observation is a record: identity stands for the six fields of       *)
(* TransferIdentity, tx for transactionId and eventIndex, block for        *)
(* blockHash and blockHeight.                                              *)
(***************************************************************************)
EXTENDS Integers, Sequences, FiniteSets, SequencesExt

Directions == {"ethereum-to-solana", "solana-to-ethereum"}

Finality == {"unfinalized", "finalized", "reorged"}

roles(direction) ==
  IF direction = "ethereum-to-solana"
    THEN [source |-> <<"ethereum", "lock">>, destination |-> <<"solana", "mint">>]
    ELSE [source |-> <<"solana", "burn">>, destination |-> <<"ethereum", "release">>]

\* Slip: what was finalized stays finalized.
RankFinalizedHighest(finality) == CASE finality = "unfinalized" -> 0
                                    [] finality = "finalized"   -> 2
                                    [] finality = "reorged"     -> 1

rank(finality) == CASE finality = "unfinalized" -> 0
                    [] finality = "finalized"   -> 1
                    [] finality = "reorged"     -> 2

Key(e) == <<e.chain, e.tx>>

fingerprint(e) == [e EXCEPT !.finality = "any"]

\* Slip: the latest observation of an event replaces the one before.
KeepLatest(unique, e) == {f \in unique : Key(f) # Key(e)} \cup {e}

\* The loop body over a Map, of which every key has one observation.
KeepHighest(unique, e) ==
  IF \E f \in unique : Key(f) = Key(e) /\ rank(e.finality) <= rank(f.finality)
    THEN unique ELSE {f \in unique : Key(f) # Key(e)} \cup {e}

collectEvents(identity, events) ==
  FoldLeft(LAMBDA so_far, e :
             [error  |-> \/ so_far.error
                         \/ e.identity # identity
                         \/ \E f \in so_far.events : Key(f) = Key(e) /\ fingerprint(f) # fingerprint(e),
              events |-> KeepHighest(so_far.events, e)],
           [error |-> FALSE, events |-> {}], events)

Report(status, pending) == [status |-> status, pendingAmount |-> pending]

\* Slip: only the source is checked for a second event.
DuplicatedSource(source, destination) == Cardinality(source) > 1

Duplicated(source, destination) == Cardinality(source) > 1 \/ Cardinality(destination) > 1

\* pendingAmount: null, reconciliation is required.  No amount is negative.
null == -1

projectMessage(identity, events, manualExecutionRequired) ==
  LET collected   == collectEvents(identity, events)
      observed    == collected.events
      At(place)   == {e \in observed : <<e.chain, e.kind>> = place}
      source      == At(roles(identity.direction).source)
      destination == At(roles(identity.direction).destination)
      Final(S)    == \E e \in S : e.finality = "finalized"
  IN  IF collected.error                                     THEN Report("inconsistent", null)
      ELSE IF \E e \in observed : e.finality = "reorged"     THEN Report("unknown", null)
      ELSE IF \/ observed # source \cup destination
              \/ Duplicated(source, destination)
              \/ source = {} /\ destination # {}             THEN Report("inconsistent", null)
      ELSE IF ~ Final(source)                                THEN Report("unknown", null)
      ELSE IF Final(destination)                             THEN Report("settled", 0)
      ELSE Report(IF manualExecutionRequired THEN "manual-execution" ELSE "pending", identity.amount)

----------------------------------------------------------------------------

\* reconcileSupply(); none of the five amounts is negative.
backingSurplus(lockedOnEthereum, supplyOnSolana, pending) ==
  lockedOnEthereum - supplyOnSolana - pending

BackingStatus(surplus) ==
  IF surplus < 0 THEN "under-backed" ELSE IF surplus > 0 THEN "surplus" ELSE "exact"
=============================================================================
