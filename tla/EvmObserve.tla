----------------------------- MODULE EvmObserve -----------------------------
(***************************************************************************)
(* observe() of testnet-ccip/adapters/evm-rpc.ts: what an endpoint says of *)
(* one transaction, by up to seven reads, while the chain goes on and      *)
(* reorganizes what is not final.  EvmJournal and the custody run act on   *)
(* its answer.                                                             *)
(*                                                                         *)
(* An endpoint is many nodes behind one address, so an answer may be that  *)
(* of a node that still holds an earlier view of the chain.  The reads are *)
(* repeated to notice it; MaxStale bounds how many answers are like that.  *)
(***************************************************************************)
EXTENDS Integers, SequencesExt

CONSTANTS Names,      \* to tell blocks of one height apart
          MaxHeight,  \* bound: height of the chain
          MaxViews,   \* bound: how often the chain changes
          MaxStale    \* answers that come from an earlier view

\* What ChainTools assumes of the constants.
ObserveAssumption == {MaxHeight, MaxViews, MaxStale} \subseteq Nat

\* has: the block includes the transaction.
Block(height, name, has) == [height |-> height, name |-> name, has |-> has]

Genesis == Block(1, "genesis", FALSE)

\* No answer, and a transaction that is in no block.
null    == Block(0, "null", FALSE)
pending == Block(0, "pending", FALSE)

VARIABLES views,  \* the views of the network there have been, the last one now
          at,     \* the read that comes next, or "done"
          read,   \* what has been read, and how many views there were when it began
          stale,  \* answers so far that came from an earlier view
          result  \* what observe() returned

vars == <<views, at, read, stale, result>>

now == Last(views)

Unread == [began |-> 0, tx |-> null, receipt |-> null, again |-> null, head |-> null,
           canonical |-> null, receiptAgain |-> null, canonicalAgain |-> null]

Init ==
  /\ views = <<[known |-> FALSE, chain |-> <<Genesis>>, final |-> 1]>>
  /\ at = "idle" /\ read = Unread /\ stale = 0
  /\ result = [kind |-> "none"]

----------------------------------------------------------------------------
(* The network.                                                            *)

Change(view) ==
  /\ Len(views) < MaxViews
  /\ views' = Append(views, view)
  /\ UNCHANGED <<at, read, stale, result>>

Including(view) == {b \in Range(view.chain) : b.has}

\* The transaction reaches a mempool, or falls out of it.
Announce == ~ now.known /\ Change([now EXCEPT !.known = TRUE])
Evict    == now.known /\ Including(now) = {} /\ Change([now EXCEPT !.known = FALSE])

Extend(name, has) ==
  /\ Len(now.chain) < MaxHeight /\ has => now.known /\ Including(now) = {}
  /\ Change([now EXCEPT !.chain = Append(@, Block(Len(@) + 1, name, has))])

Reorganize ==
  /\ Len(now.chain) > now.final
  /\ Change([now EXCEPT !.chain = Front(@)])

Finalize ==
  /\ now.final < Len(now.chain)
  /\ Change([now EXCEPT !.final = @ + 1])

----------------------------------------------------------------------------
(* The endpoint's answers from one view.                                   *)

The(S) == CHOOSE b \in S : TRUE

getTransaction(view) == IF Including(view) # {} THEN The(Including(view))
                        ELSE IF view.known THEN pending ELSE null

getReceipt(view) == IF Including(view) # {} THEN The(Including(view)) ELSE null

getFinalized(view) == view.chain[view.final]

getBlock(height, view) == IF height \in DOMAIN view.chain THEN view.chain[height] ELSE null

----------------------------------------------------------------------------
(* observe().                                                              *)

\* A read answered from the k-th view there has been.
Answer(k) ==
  /\ stale' = stale + (IF k = Len(views) THEN 0 ELSE 1) /\ stale' <= MaxStale
  /\ UNCHANGED views

Continue(await, name, value) ==
  at' = await /\ read' = [read EXCEPT ![name] = value] /\ UNCHANGED result

Return(answer) == at' = "done" /\ result' = answer /\ UNCHANGED read

Unknown == Return([kind |-> "unknown"])

Begin ==
  /\ at = "idle" /\ at' = "transaction"
  /\ read' = [Unread EXCEPT !.began = Len(views)]
  /\ UNCHANGED <<views, stale, result>>

\* A request fails, or its answer is malformed: the catch block.
Fault == at \notin {"idle", "done"} /\ Unknown /\ UNCHANGED <<views, stale>>

ReadTransaction ==
  /\ at = "transaction"
  /\ \E k \in DOMAIN views : Answer(k) /\ Continue("receipt", "tx", getTransaction(views[k]))

AfterReceipt(receipt) ==
  IF read.tx = null
    THEN IF receipt = null THEN Continue("absent-transaction", "receipt", receipt) ELSE Unknown
  ELSE IF receipt = null    THEN Return([kind |-> "observed"])
  ELSE IF receipt # read.tx THEN Unknown
  ELSE Continue("head", "receipt", receipt)

ReadReceipt ==
  at = "receipt" /\ \E k \in DOMAIN views : Answer(k) /\ AfterReceipt(getReceipt(views[k]))

ReadAbsentTransaction ==
  /\ at = "absent-transaction"
  /\ \E k \in DOMAIN views : Answer(k) /\ Continue("absent-receipt", "again", getTransaction(views[k]))

AfterAbsent(receipt) ==
  IF read.again = null /\ receipt = null THEN Return([kind |-> "not-found"]) ELSE Unknown

ReadAbsentReceipt ==
  at = "absent-receipt" /\ \E k \in DOMAIN views : Answer(k) /\ AfterAbsent(getReceipt(views[k]))

AfterHead(head) ==
  IF read.receipt.height > head.height THEN Return([kind |-> "observed"])
                                       ELSE Continue("canonical", "head", head)

ReadHead == at = "head" /\ \E k \in DOMAIN views : Answer(k) /\ AfterHead(getFinalized(views[k]))

Canonical(view) == getBlock(read.receipt.height, view)

AfterCanonical(block) ==
  IF block # read.receipt THEN Unknown ELSE Continue("receipt-again", "canonical", block)

ReadCanonical ==
  at = "canonical" /\ \E k \in DOMAIN views : Answer(k) /\ AfterCanonical(Canonical(views[k]))

AfterReceiptAgain(receipt) ==
  IF receipt = null THEN Unknown ELSE Continue("canonical-again", "receiptAgain", receipt)

ReadReceiptAgain ==
  at = "receipt-again" /\ \E k \in DOMAIN views : Answer(k) /\ AfterReceiptAgain(getReceipt(views[k]))

AfterCanonicalAgain(block) ==
  IF block = null THEN Unknown ELSE Continue("head-again", "canonicalAgain", block)

ReadCanonicalAgain ==
  at = "canonical-again" /\ \E k \in DOMAIN views : Answer(k) /\ AfterCanonicalAgain(Canonical(views[k]))

\* Slip: what is read again is not compared with what was read.
StillAnyway(head) == TRUE

Still(head) ==
  /\ read.receiptAgain = read.receipt /\ read.canonicalAgain = read.receipt
  /\ head.height >= read.head.height
  /\ head.height = read.head.height => head = read.head

AfterHeadAgain(head) ==
  IF Still(head) THEN Return([kind |-> "final", block |-> read.receipt]) ELSE Unknown

ReadHeadAgain ==
  at = "head-again" /\ \E k \in DOMAIN views : Answer(k) /\ AfterHeadAgain(getFinalized(views[k]))

Next ==
  \/ Announce \/ Evict \/ Reorganize \/ Finalize
  \/ \E name \in Names, has \in BOOLEAN : Extend(name, has)
  \/ Begin \/ Fault \/ ReadTransaction \/ ReadReceipt \/ ReadAbsentTransaction \/ ReadAbsentReceipt
  \/ ReadHead \/ ReadCanonical \/ ReadReceiptAgain \/ ReadCanonicalAgain \/ ReadHeadAgain

Spec == Init /\ [][Next]_vars

----------------------------------------------------------------------------
(* Properties.                                                             *)

\* A receipt is reported final only when its block is in the finalized chain
\* (151-165), and "not-found" only of a transaction that was unknown at some
\* time since the first read (125-130), although one of the answers may be stale
\* and blocks may be reorganized between any two reads.
AnswerIsTrue ==
  /\ result.kind = "final" => result.block \in Range(SubSeq(now.chain, 1, now.final))
  /\ result.kind = "not-found" =>
       \E k \in read.began .. Len(views) : ~ views[k].known
=============================================================================
