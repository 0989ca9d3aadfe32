--------------------------- MODULE TransferStatus ---------------------------
(***************************************************************************)
(* The one-shot status report of testnet-ccip: every transfer of an        *)
(* inventory is inspected on both chains, a snapshot of both ledgers is    *)
(* taken, every transfer is inspected again, and the supply is reconciled. *)
(*                                                                         *)
(* No read sees both chains and two reads may be answered by different     *)
(* nodes, so the chains are histories of finalized blocks and a read may   *)
(* be answered from any prefix of one.  The Ethereum reads of a snapshot   *)
(* name one finalized block; the Solana ones ask for a slot no older than  *)
(* the one before.  The inventory is complete when the report is begun.    *)
(* A read that fails ends the attempt without a report.  Replacement       *)
(* fixtures, which add checks to these, are left out.                      *)
(***************************************************************************)
EXTENDS MessageProjection

CONSTANTS Transfers, DirectionOf,
          Amount,        \* route.amount, of every transfer
          EthereumMaxAge, SolanaMaxAge,  \* limits on the age of a block
          MaxBlocks,     \* bound: blocks of both chains
          MaxTime,       \* bound: clock
          MaxOutside     \* bound: token movements that are no transfer

\* What ChainTools assumes of the constants.
StatusAssumption ==
  /\ DirectionOf \in [Transfers -> Directions] /\ Amount \in Nat \ {0}
  /\ {EthereumMaxAge, SolanaMaxAge, MaxBlocks, MaxTime, MaxOutside} \subseteq Nat

VARIABLES now,
          eth, sol,    \* finalized blocks: the tokens locked, issued there
                       \* after it, how many of them are not the inventory's
          sourceAt, settledAt,  \* height of a transfer's two events; 0: none
          movements,   \* token movements that are no transfer
          at,          \* where the report stands
          inventory,   \* the transfers it is about
          before, after, snapshot, report,
          tips         \* the heights of both chains when the first pass ended

chains == <<now, eth, sol, sourceAt, settledAt, movements>>
vars   == <<chains, at, inventory, before, after, snapshot, report, tips>>

NoReport == [known |-> FALSE]

Init ==
  /\ now = 0 /\ movements = 0
  /\ eth = <<[held |-> 0, outside |-> 0, time |-> 0]>>
  /\ sol = <<[held |-> 0, outside |-> 0, time |-> 0]>>
  /\ sourceAt = [t \in Transfers |-> 0] /\ settledAt = [t \in Transfers |-> 0]
  /\ at = "idle" /\ inventory = {}
  /\ before = <<>> /\ after = <<>>
  /\ snapshot = NoReport /\ report = NoReport
  /\ tips = [ethereum |-> 0, solana |-> 0]

----------------------------------------------------------------------------
(* The chains.                                                             *)

Extended(chain, amount, isOutside) ==
  Append(chain, [held    |-> Last(chain).held + amount,
                 outside |-> Last(chain).outside + (IF isOutside THEN amount ELSE 0),
                 time    |-> now])

\* A chain finalizes a block that moves some amount, or none.
Ethereum(amount, isOutside) ==
  /\ Len(eth) + Len(sol) < MaxBlocks /\ Last(eth).held + amount >= 0
  /\ eth' = Extended(eth, amount, isOutside) /\ UNCHANGED sol

Solana(amount, isOutside) ==
  /\ Len(eth) + Len(sol) < MaxBlocks /\ Last(sol).held + amount >= 0
  /\ sol' = Extended(sol, amount, isOutside) /\ UNCHANGED eth

\* A transfer begun after the inventory was drawn up is not in it.
Late(t) == at # "idle" /\ t \notin inventory

Forward(t) == DirectionOf[t] = "ethereum-to-solana"

Run == <<at, inventory, before, after, snapshot, report, tips>>

SourceFinal(t) ==
  /\ sourceAt[t] = 0
  /\ IF Forward(t)
       THEN Ethereum(Amount, Late(t)) /\ sourceAt' = [sourceAt EXCEPT ![t] = Len(eth')]
       ELSE Solana(-Amount, Late(t)) /\ sourceAt' = [sourceAt EXCEPT ![t] = Len(sol')]
  /\ UNCHANGED <<now, settledAt, movements, Run>>

SettlementFinal(t) ==
  /\ sourceAt[t] # 0 /\ settledAt[t] = 0
  /\ IF Forward(t)
       THEN Solana(Amount, Late(t)) /\ settledAt' = [settledAt EXCEPT ![t] = Len(sol')]
       ELSE Ethereum(-Amount, Late(t)) /\ settledAt' = [settledAt EXCEPT ![t] = Len(eth')]
  /\ UNCHANGED <<now, sourceAt, movements, Run>>

\* Donated backing, a voluntary burn, an unbacked issue.
Move ==
  /\ movements < MaxOutside /\ movements' = movements + 1
  /\ Ethereum(1, TRUE) \/ Solana(-1, TRUE) \/ Solana(1, TRUE)
  /\ UNCHANGED <<now, sourceAt, settledAt, Run>>

EmptyBlock ==
  /\ Ethereum(0, FALSE) \/ Solana(0, FALSE)
  /\ UNCHANGED <<now, sourceAt, settledAt, movements, Run>>

Tick ==
  /\ now < MaxTime /\ now' = now + 1
  /\ UNCHANGED <<eth, sol, sourceAt, settledAt, movements, Run>>

----------------------------------------------------------------------------
(* The report.                                                             *)

IdentityOf(t) == [message |-> t, direction |-> DirectionOf[t], amount |-> Amount]

Event(t, place, tx, height) ==
  [identity |-> IdentityOf(t), chain |-> place[1], kind |-> place[2], tx |-> tx,
   block |-> height, finality |-> "finalized"]

\* inspectTransfer(): the source is proven or the report fails; found says
\* whether a settlement was discovered, authorized and proven, manual what the
\* CCIP API says.  Absent evidence of a settlement is no evidence of absence.
inspectTransfer(t, found, manual) ==
  LET places   == roles(DirectionOf[t])
      events   == <<Event(t, places.source, <<t, "source">>, sourceAt[t])>>
                  \o (IF found THEN <<Event(t, places.destination, <<t, "settlement">>, settledAt[t])>>
                               ELSE <<>>)
      progress == projectMessage(IdentityOf(t), events, manual)
  IN  [status |-> progress.status, events |-> events,
       pendingAmount |-> IF progress.pendingAmount = 0 THEN 0 ELSE null]

\* One pass over the inventory.  It takes several reads of what only grows, so
\* it may miss any settlement and finds none that is not there at its end.
Inspections ==
  {[t \in inventory |-> inspectTransfer(t, t \in found, t \in manual)] :
     found \in SUBSET {t \in inventory : settledAt[t] # 0}, manual \in {{}, inventory}}

Begin ==
  /\ at = "idle" /\ at' = "before"
  /\ inventory' = {t \in Transfers : sourceAt[t] # 0}
  /\ UNCHANGED <<chains, before, after, snapshot, report, tips>>

InspectBefore ==
  /\ at = "before" /\ at' = "ethereum"
  /\ before' \in Inspections
  /\ tips' = [ethereum |-> Len(eth), solana |-> Len(sol)]
  /\ UNCHANGED <<chains, inventory, after, snapshot, report>>

\* eth_getBlockByNumber finalized; both balances are read at its hash.
ReadEthereum ==
  /\ at = "ethereum" /\ at' = "solana"
  /\ \E height \in DOMAIN eth :
       snapshot' = [ethereumHeight |-> height, lockedOnEthereum |-> eth[height].held]
  /\ UNCHANGED <<chains, inventory, before, after, report, tips>>

\* getTokenSupply, no older than the finalized slot some node named.
ReadSolana ==
  /\ at = "solana" /\ at' = "repeat"
  /\ \E slot \in DOMAIN sol :
       snapshot' = [ethereumHeight |-> snapshot.ethereumHeight,
                    lockedOnEthereum |-> snapshot.lockedOnEthereum,
                    solanaSlot |-> slot, supplyOnSolana |-> sol[slot].held]
  /\ UNCHANGED <<chains, inventory, before, after, report, tips>>

Fresh(chain, height, limit) == now - chain[height].time <= limit

\* The supply is read again, no earlier; the ages of the three blocks are
\* taken; the snapshot is coherent when nothing moved and all are fresh.
RepeatSolana ==
  /\ at = "repeat" /\ at' = "after"
  /\ \E slot \in snapshot.solanaSlot .. Len(sol) :
       snapshot' = [ethereumHeight |-> snapshot.ethereumHeight,
                    lockedOnEthereum |-> snapshot.lockedOnEthereum,
                    solanaSlot |-> snapshot.solanaSlot,
                    supplyOnSolana |-> snapshot.supplyOnSolana, repeatedSlot |-> slot,
                    coherent |-> /\ Fresh(eth, snapshot.ethereumHeight, EthereumMaxAge)
                                 /\ Fresh(sol, snapshot.solanaSlot, SolanaMaxAge)
                                 /\ Fresh(sol, slot, SolanaMaxAge)
                                 /\ sol[slot].held = snapshot.supplyOnSolana]
  /\ UNCHANGED <<chains, inventory, before, after, report, tips>>

Unchanged(first, second) == first = second

InspectAfter ==
  /\ at = "after" /\ at' = "cleanup"
  /\ after' \in Inspections
  /\ snapshot' = [snapshot EXCEPT !.coherent = @ /\ Unchanged(before, after')]
  /\ UNCHANGED <<chains, inventory, before, report, tips>>

\* Slip: the ages taken with the snapshot are not taken again.
KeepFreshness(s) == s

\* The ages are taken again when nothing can delay the report any more.
refreshSnapshotFreshness(s) ==
  [s EXCEPT !.coherent = /\ @
                         /\ Fresh(eth, s.ethereumHeight, EthereumMaxAge)
                         /\ Fresh(sol, s.solanaSlot, SolanaMaxAge)
                         /\ Fresh(sol, s.repeatedSlot, SolanaMaxAge)]

\* Slip: an event is not compared with the height of the snapshot.
AnyHeight(e, s) == TRUE

WithinSnapshot(e, s) ==
  e.block <= (IF e.chain = "solana" THEN s.solanaSlot ELSE s.ethereumHeight)

settled(t) == t.pendingAmount = 0 /\ t.status = "settled"

\* Every pending amount is 0 once all transfers are settled.
accountTransfers(transfers, s) ==
  LET all == {transfers[t] : t \in DOMAIN transfers}
      surplus == backingSurplus(s.lockedOnEthereum, s.supplyOnSolana, 0)
  IN  IF /\ s.coherent
         /\ \A t \in all : settled(t) /\ \A e \in Range(t.events) : WithinSnapshot(e, s)
        THEN [known |-> TRUE, surplus |-> surplus, status |-> BackingStatus(surplus), time |-> now]
        ELSE NoReport

Finish ==
  /\ at = "cleanup" /\ at' = "done"
  /\ LET current == refreshSnapshotFreshness(snapshot)
     IN  snapshot' = current /\ report' = accountTransfers(after, current)
  /\ UNCHANGED <<chains, inventory, before, after, tips>>

Next ==
  \/ \E t \in Transfers : SourceFinal(t) \/ SettlementFinal(t)
  \/ Move \/ EmptyBlock \/ Tick
  \/ Begin \/ InspectBefore \/ ReadEthereum \/ ReadSolana \/ RepeatSolana \/ InspectAfter \/ Finish

Spec == Init /\ [][Next]_vars

----------------------------------------------------------------------------
(* Properties.                                                             *)

\* Whatever moves between the reads and whichever nodes answer them, the
\* backing reported is the true one: a transfer of the inventory never shows
\* in it, neither as a surplus nor as a shortfall, only what was donated,
\* burned or issued besides, and transfers begun later (413-441).  No transfer of
\* the inventory settles while the snapshot is taken: all that the report calls
\* settled was there before the snapshot's first read (140-152).  And a report is
\* only given while all three blocks it rests on are within their age, however
\* long the inspections and the cleanup took (50-57).
ReportIsTrue ==
  report.known =>
    /\ report.surplus = eth[snapshot.ethereumHeight].outside - sol[snapshot.solanaSlot].outside
    /\ \A t \in inventory : settledAt[t] \in 1 .. (IF Forward(t) THEN tips.solana ELSE tips.ethereum)
    /\ report.time - eth[snapshot.ethereumHeight].time <= EthereumMaxAge
    /\ report.time - sol[snapshot.repeatedSlot].time <= SolanaMaxAge
    /\ report.time - sol[snapshot.solanaSlot].time <= SolanaMaxAge
=============================================================================
