------------------------- MODULE PurposeReserveVault -------------------------
(***************************************************************************)
(* PurposeReserveVault.sol: custody whose controller may send tokens to    *)
(* anybody, limited to ROLLING_CAP in any window of WINDOW_SECONDS.        *)
(*                                                                         *)
(* transferOut() hands control to the token between writing its checkpoint *)
(* and checking the balances, so it is two vault steps with the token's    *)
(* own in between (see GrantVault for the token and for frames).           *)
(***************************************************************************)
EXTENDS RollingWindow

CONSTANTS Accounts,       \* token holders; "reserve" is the contract itself
          TokenSupply,    \* tokens in existence
          OPENS_AT, WINDOW_SECONDS, ROLLING_CAP,
          MaxTime,        \* bound: the last block time
          MaxFee,         \* bound: the largest fee the token keeps
          MaxGift,        \* bound: the most one outside transfer moves
          MaxDepth        \* bound: how many transferOut calls may nest

\* Recipients transferOut() refuses whatever the amount, besides itself.
Refused == {"address(0)", "token"}

\* The constructor's policy check.
Policy ==
  /\ OPENS_AT \in Nat \ {0} /\ WINDOW_SECONDS \in Nat \ {0} /\ ROLLING_CAP \in Nat \ {0}
  /\ "reserve" \in Accounts /\ "elsewhere" \in Accounts
  /\ {TokenSupply, MaxTime, MaxFee, MaxGift, MaxDepth} \subseteq Nat

VARIABLES now,       \* block.timestamp
          outflows,  \* _outflows
          entered,   \* _entered
          bal,       \* TOKEN.balanceOf
          spent,     \* history: what its calls cost the vault up to each block time
          frames     \* the transferOut calls in progress, outermost first

vars == <<now, outflows, entered, bal, spent, frames>>

Init ==
  /\ now = 0 /\ outflows = <<>> /\ entered = FALSE /\ frames = <<>>
  /\ bal = [a \in Accounts |-> IF a = "reserve" THEN TokenSupply ELSE 0]
  /\ spent = [t \in 0 .. MaxTime |-> 0]

----------------------------------------------------------------------------

rollingOutflow == RollingTotal(outflows, now, WINDOW_SECONDS)

\* availableOutflow().
availableOutflow ==
  IF now < OPENS_AT THEN 0
  ELSE LET remaining == ROLLING_CAP - rollingOutflow
       IN  IF bal["reserve"] < remaining THEN bal["reserve"] ELSE remaining

Top == frames[Len(frames)]
Pop == SubSeq(frames, 1, Len(frames) - 1)

\* The conditions transferOut() checks before it changes anything.
Accepts(recipient, amount) ==
  /\ ~ entered
  /\ now >= OPENS_AT
  /\ amount # 0 /\ recipient \notin Refused \cup {"reserve"}
  /\ amount <= ROLLING_CAP - rollingOutflow
  /\ amount <= bal["reserve"]

\* transferOut(), up to the token call.
TransferOut(recipient, amount) ==
  /\ Accepts(recipient, amount)
  /\ Len(frames) < MaxDepth
  /\ entered' = TRUE
  /\ outflows' = Record(outflows, now, amount)
  /\ frames' = Append(frames, [to |-> recipient, amount |-> amount, moved |-> FALSE, ok |-> FALSE,
                               before |-> [from |-> bal["reserve"], to |-> bal[recipient]],
                               saved |-> [outflows |-> outflows, entered |-> entered,
                                          bal |-> bal, spent |-> spent]])
  /\ UNCHANGED <<now, bal, spent>>

Rollback ==
  /\ outflows' = Top.saved.outflows /\ bal' = Top.saved.bal /\ spent' = Top.saved.spent
  /\ entered' = Top.saved.entered
  /\ frames' = Pop
  /\ UNCHANGED now

ExactMovement(before, after, amount) ==
  /\ after.from <= before.from /\ before.from - after.from = amount
  /\ after.to >= before.to /\ after.to - before.to = amount

\* transferOut(), from the token's return on.
Finish ==
  /\ frames # <<>> /\ Top.moved
  /\ IF /\ Top.ok
        /\ ExactMovement(Top.before, [from |-> bal["reserve"], to |-> bal[Top.to]], Top.amount)
       THEN /\ entered' = FALSE
            /\ frames' = Pop
            /\ UNCHANGED <<now, outflows, bal, spent>>
       ELSE Rollback

----------------------------------------------------------------------------
(* The token and everybody else.                                           *)

\* While a call is in progress, every change of the reserve's balance counts.
NetOutflow == IF frames = <<>> THEN spent
              ELSE Since(spent, now, bal["reserve"] - bal'["reserve"])

\* The debit may exceed the amount by a fee on the sender's side, the credit
\* may fall short of it by a fee on the recipient's.
TokenMoves(debitFee, creditFee, ok) ==
  /\ frames # <<>> /\ ~ Top.moved
  /\ bal["reserve"] >= Top.amount + debitFee /\ creditFee <= Top.amount
  /\ LET debited  == [bal EXCEPT !["reserve"] = @ - Top.amount - debitFee]
         credited == [debited EXCEPT ![Top.to] = @ + Top.amount - creditFee]
     IN  bal' = [credited EXCEPT !["elsewhere"] = @ + debitFee + creditFee]
  /\ spent' = NetOutflow
  /\ frames' = [frames EXCEPT ![Len(frames)].moved = TRUE, ![Len(frames)].ok = ok]
  /\ UNCHANGED <<now, outflows, entered>>

TokenReturnsFalse ==
  /\ frames # <<>> /\ ~ Top.moved
  /\ frames' = [frames EXCEPT ![Len(frames)].moved = TRUE]
  /\ UNCHANGED <<now, outflows, entered, bal, spent>>

TokenReverts == frames # <<>> /\ ~ Top.moved /\ Rollback

\* Holders move their own tokens, into the reserve too.
Outside(from, to, amount) ==
  /\ from # "reserve" /\ from # to /\ amount <= bal[from]
  /\ bal' = [bal EXCEPT ![from] = @ - amount, ![to] = @ + amount]
  /\ spent' = NetOutflow
  /\ UNCHANGED <<now, outflows, entered, frames>>

Tick ==
  /\ frames = <<>> /\ now < MaxTime
  /\ now' = now + 1
  /\ UNCHANGED <<outflows, entered, bal, spent, frames>>

Next ==
  \/ \E to \in Accounts \cup Refused, amount \in 0 .. TokenSupply : TransferOut(to, amount)
  \/ Finish
  \/ \E d, c \in 0 .. MaxFee, ok \in BOOLEAN : TokenMoves(d, c, ok)
  \/ TokenReturnsFalse \/ TokenReverts
  \/ \E from, to \in Accounts, amount \in 1 .. MaxGift : Outside(from, to, amount)
  \/ Tick

Spec == Init /\ [][Next]_vars

----------------------------------------------------------------------------
(* Properties.                                                             *)

Committed == IF frames = <<>> THEN [outflows |-> outflows, spent |-> spent]
             ELSE frames[1].saved

\* No window of WINDOW_SECONDS, wherever it starts, sees more than the cap
\* leave the vault in tokens that really moved (lines 74-107): not at a window
\* boundary, in a burst within one block, or by calling back from the token.
EveryWindowWithinCap ==
  \A t \in 0 .. MaxTime : Moved(Committed.spent, t, WINDOW_SECONDS) <= ROLLING_CAP

\* The vault's own account is true: its checkpoints add up to what really left
\* at every past time (90-96), and what availableOutflow() reports, transferOut()
\* accepts at once, and no more (78-87 against 131-136).
AccountIsTrue ==
  /\ LET cps == Committed.outflows
     IN  \A i \in DOMAIN cps : cps[i].cumulative = Committed.spent[cps[i].timestamp]
  /\ frames = <<>> =>
       /\ availableOutflow > 0 => Accepts("elsewhere", availableOutflow)
       /\ ~ Accepts("elsewhere", availableOutflow + 1)
=============================================================================
