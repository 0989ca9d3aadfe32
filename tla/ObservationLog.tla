--------------------------- MODULE ObservationLog ---------------------------
(***************************************************************************)
(* The observations of one CCIP message as its adapters deliver them:      *)
(* late, more than once and in any order, while the chains finalize and    *)
(* reorganize underneath.  projectMessage() is asked after each.           *)
(*                                                                         *)
(* message.ts 84-88 is the contract: replays are idempotent, finality      *)
(* advances, a reorg invalidates success, and after it the adapter         *)
(* replaces what it invalidated by canonical evidence.                     *)
(***************************************************************************)
EXTENDS MessageProjection

CONSTANTS Identity,     \* the message's identity
          Blocks,       \* blocks a transaction may be included in
          MaxDeliveries, \* bound on the log's length
          MaxReorganizations \* bound on the blocks lost

none == "none"

Transactions == {"source", "settlement", "second-settlement"}

\* What ChainTools assumes of the message.
LogAssumption == Identity \in [direction : Directions, amount : Nat]

VARIABLES placed,  \* where each transaction is: "none" or a block
          final,   \* the transactions that are final there
          true,    \* the observations that have been true
          log,     \* the observations delivered
          lost     \* how many blocks were reorganized away

vars == <<placed, final, true, log, lost>>

Observation(tx, block, finality) ==
  LET place == IF tx = "source" THEN roles(Identity.direction).source
                                ELSE roles(Identity.direction).destination
  IN  [identity |-> Identity, chain |-> place[1], kind |-> place[2], tx |-> tx,
       block |-> block, finality |-> finality]

\* An event of another message that shares the settlement transaction.
Misattributed ==
  [Observation("settlement", "another", "finalized")
     EXCEPT !.identity = [Identity EXCEPT !.amount = @ + 1]]

Init ==
  /\ placed = [tx \in Transactions |-> none] /\ final = {}
  /\ true = {Misattributed} /\ log = <<>> /\ lost = 0

Include(tx, block) ==
  /\ placed[tx] = none /\ (tx # "source" => "source" \in final)
  /\ placed' = [placed EXCEPT ![tx] = block]
  /\ true' = true \cup {Observation(tx, block, "unfinalized")}
  /\ UNCHANGED <<final, log, lost>>

Finalize(tx) ==
  /\ placed[tx] # none /\ tx \notin final
  /\ final' = final \cup {tx}
  /\ true' = true \cup {Observation(tx, placed[tx], "finalized")}
  /\ UNCHANGED <<placed, log, lost>>

\* A block is reorganized away, which the code does not rule out even for one
\* that was reported final.
Reorganize(tx) ==
  /\ placed[tx] # none /\ lost < MaxReorganizations
  /\ lost' = lost + 1
  /\ placed' = [placed EXCEPT ![tx] = none]
  /\ final' = final \ {tx}
  /\ true' = true \cup {Observation(tx, placed[tx], "reorged")}
  /\ UNCHANGED log

Deliver(e) ==
  /\ Len(log) < MaxDeliveries
  /\ log' = Append(log, e)
  /\ UNCHANGED <<placed, final, true, lost>>

Canonical == {Observation(tx, placed[tx], IF tx \in final THEN "finalized" ELSE "unfinalized") :
                 tx \in {t \in Transactions : placed[t] # none}}

\* The adapter starts over from what is on the chains now.
Replace ==
  /\ \E e \in Range(log) : e.finality = "reorged"
  /\ log' = SetToSeq(Canonical)
  /\ true' = Canonical \cup {Misattributed}
  /\ UNCHANGED <<placed, final, lost>>

Next ==
  \/ \E tx \in Transactions :
       Finalize(tx) \/ Reorganize(tx) \/ \E block \in Blocks : Include(tx, block)
  \/ \E e \in true : Deliver(e)
  \/ Replace

Spec == Init /\ [][Next]_vars

----------------------------------------------------------------------------
(* Properties.                                                             *)

Project(events) == projectMessage(Identity, events, FALSE)

\* Once a reorganization has been delivered no later delivery restores success
\* or a known pending amount, a finality flag included; only replacing the
\* observations does (86-87).
ReorgSticks ==
  [][(\E e \in Range(log) : e.finality = "reorged") /\ IsStrictPrefix(log, log')
       => Project(log').pendingAmount = null]_vars

\* Neither the order of deliveries nor their repetition matters (84: "replays
\* are idempotent"): an early observation that arrives late takes nothing back.
\* And a message is reported settled only when its tokens have arrived: by exactly
\* one settlement, of a source that was final, neither of them reported undone.
StatusIsTrue ==
  /\ Project(log) = Project(SetToSeq(Range(log)))
  /\ Project(log).status = "settled" =>
       \E tx \in Transactions \ {"source"} :
         /\ {e.tx : e \in Range(log)} = {"source", tx}
         /\ \/ {"source", tx} \subseteq final
            \/ \E e \in true : e.finality = "reorged"
=============================================================================
