--------------------------- MODULE ForwardTransfer ---------------------------
(***************************************************************************)
(* transferEvmForward() of testnet-ccip/composition/transfer-evm-forward:  *)
(* an allowance for the router and a send that uses it up, two Ethereum    *)
(* transactions of consecutive nonces with a journal each.  Every run      *)
(* decides anew, from the two journals and the chain, what is next.        *)
(*                                                                         *)
(* Several pairs belong to one account, each run by one process at a time  *)
(* (its ".forward-operation" lock), which may be killed or give up at any  *)
(* await.  What a pair's journals hold is bound to it, so no pair sees     *)
(* another's.  The engine is that of EvmJournal, of which the durable      *)
(* phase and the request matter here.  Allowance and nonce are read from   *)
(* the latest block an endpoint has, finality from the finalized one.      *)
(***************************************************************************)
EXTENDS Naturals, Sequences, FiniteSetsExt

CONSTANTS Pairs,          \* the transfers of one account
          ApprovalNonce,  \* the first nonce of each; no two overlap
          FirstNonces     \* the nonces the account may be at before

\* The nonces the operator gives to different pairs do not overlap.
PairsAssumption ==
  /\ ApprovalNonce \in [Pairs -> Nat] /\ FirstNonces \subseteq Nat
  /\ \A p, q \in Pairs : p # q => ApprovalNonce[p] - ApprovalNonce[q] \notin {-1, 0, 1}

Nonce(p, step) == IF step = "approval" THEN ApprovalNonce[p] ELSE ApprovalNonce[p] + 1
Requests       == Pairs \X {"approval", "send"}
Terminal       == {"succeeded", "reverted"}

VARIABLES place,     \* place[p]: the await p stands at, and the step it is about
          quoted,    \* quoted[p]: the allowance prepare() was asked with
          phase,     \* phase[<<p, step>>]: of the journal; "none": no journal
          requested, \* the transactions handed to the network
          existing,  \* the router's allowance before any of them,
          start,     \* and the account's nonce
          executed,  \* the blocks since the start: [request, result]
          final      \* how many of them are finalized

forwardVars == <<place, quoted, phase, requested, existing, start, executed, final>>

Init ==
  /\ place = [p \in Pairs |-> <<"idle", "send">>]
  /\ quoted = [p \in Pairs |-> "none"]
  /\ phase = [r \in Requests |-> "none"]
  /\ requested = {} /\ executed = <<>> /\ final = 0
  /\ existing \in {"less", "exact"} /\ start \in FirstNonces

----------------------------------------------------------------------------
(* What the account's history makes of the allowance and the nonce.        *)

Allowance(height) ==
  LET done == {i \in 1 .. height : executed[i].result = "succeeded"}
  IN  IF done = {} THEN existing
      ELSE IF executed[Max(done)].request[2] = "approval" THEN "exact" ELSE "less"

\* An endpoint may be behind, but not behind finality.
Allowances == {Allowance(height) : height \in final .. Len(executed)}

NextNonce == start + Len(executed)

\* The pending count also counts what the endpoint's pool holds.
PendingCounts ==
  {n \in Nat : /\ n >= start + final
               /\ \A m \in NextNonce .. n - 1 : \E r \in requested : Nonce(r[1], r[2]) = m}

\* Slip: a fresh signature is not checked against the account's nonce.
NonceAsGiven(p, step) == TRUE

\* executeSepoliaIntent()'s preflight of a new journal.
NonceIsNext(p, step) == Nonce(p, step) \in PendingCounts

----------------------------------------------------------------------------
(* Control.                                                                *)

At(p, await) == place[p][1] = await
Step(p) == place[p][2]
Goto(p, await, step) == place' = [place EXCEPT ![p] = <<await, step>>]
Leave(p) == Goto(p, "idle", "send")
Record(p, step, new) == phase' = [phase EXCEPT ![<<p, step>>] = new]
Unchanged == UNCHANGED <<quoted, phase, requested, existing, start, executed, final>>

\* What a run does first.  An attempted send reconciles only itself.
Begin(p) ==
  /\ At(p, "idle")
  /\ IF phase[<<p, "send">>] \notin {"none", "signed"} THEN Goto(p, "observe", "send")
     ELSE IF phase[<<p, "approval">>] # "none" THEN Goto(p, "observe", "approval")
     ELSE Goto(p, "approved", "send")
  /\ Unchanged

\* No approval is outstanding: a signed send is resumed only while the
\* allowance is exact, otherwise the route is prepared afresh.
Approved(p) ==
  /\ At(p, "approved")
  /\ IF phase[<<p, "send">>] = "signed"
       THEN "exact" \in Allowances /\ Goto(p, "observe", "send") /\ Unchanged
       ELSE \E a \in Allowances :
              /\ quoted' = [quoted EXCEPT ![p] = a] /\ Goto(p, "prepared", "send")
              /\ UNCHANGED <<phase, requested, existing, start, executed, final>>

\* The allowance has not changed while prepare() ran.  Too little of it is
\* approved once; a journal of an approval then contradicts the chain.
Prepared(p) ==
  LET step == IF quoted[p] = "less" THEN "approval" ELSE "send"
  IN  /\ At(p, "prepared") /\ quoted[p] \in Allowances
      /\ step = "approval" => phase[<<p, "approval">>] = "none"
      /\ Goto(p, "sign", step) /\ Unchanged

Sign(p) ==
  /\ At(p, "sign") /\ NonceIsNext(p, Step(p))
  /\ Record(p, Step(p), "signed") /\ Goto(p, "observe", Step(p))
  /\ UNCHANGED <<quoted, requested, existing, start, executed, final>>

\* Killed, thrown or unresolved.
Stop(p) == ~ At(p, "idle") /\ Leave(p) /\ Unchanged

\* Not found, and "signed" proves that it was not attempted.
Submit(p) ==
  /\ At(p, "observe") /\ phase[<<p, Step(p)>>] = "signed"
  /\ Record(p, Step(p), "submitting") /\ Goto(p, "broadcast", Step(p))
  /\ UNCHANGED <<quoted, requested, existing, start, executed, final>>

Broadcast(p) ==
  /\ At(p, "broadcast")
  /\ requested' = requested \cup {<<p, Step(p)>>} /\ Goto(p, "response", Step(p))
  /\ UNCHANGED <<quoted, phase, existing, start, executed, final>>

Answered(p) ==
  /\ At(p, "response")
  /\ Record(p, Step(p), "submitted") /\ Leave(p)
  /\ UNCHANGED <<quoted, requested, existing, start, executed, final>>

\* Slip: an approval counts once it is mined.
OutcomeMined(p, step) ==
  {IF executed[i].result = "succeeded" THEN "succeeded" ELSE "reverted" :
     i \in {j \in 1 .. Len(executed) : executed[j].request = <<p, step>>}}

\* The status of the receipt in the finalized chain, once there is one.
Outcome(p, step) ==
  {IF executed[i].result = "succeeded" THEN "succeeded" ELSE "reverted" :
     i \in {j \in 1 .. final : executed[j].request = <<p, step>>}}

\* Only a succeeded approval lets the same run go on.
FindFinal(p) ==
  /\ At(p, "observe")
  /\ \E status \in Outcome(p, Step(p)) :
       /\ Record(p, Step(p), status)
       /\ IF Step(p) = "approval" /\ status = "succeeded" THEN Goto(p, "approved", "send") ELSE Leave(p)
  /\ UNCHANGED <<quoted, requested, existing, start, executed, final>>

----------------------------------------------------------------------------
(* The chain.                                                              *)

\* Transactions execute in the order of their nonces.  A send that finds too
\* small an allowance reverts; any may fail otherwise.
Execute(r, ok) ==
  LET result == IF r[2] = "send" /\ Allowance(Len(executed)) # "exact" THEN "short"
                ELSE IF ok THEN "succeeded" ELSE "reverted"
  IN  /\ r \in requested /\ Nonce(r[1], r[2]) = NextNonce
      /\ executed' = Append(executed, [request |-> r, result |-> result])
      /\ UNCHANGED <<place, quoted, phase, requested, existing, start, final>>

\* The last block is dropped; its transaction is pending again.
Reorganize ==
  /\ Len(executed) > final
  /\ executed' = SubSeq(executed, 1, Len(executed) - 1)
  /\ UNCHANGED <<place, quoted, phase, requested, existing, start, final>>

Finalize ==
  /\ final < Len(executed) /\ final' = final + 1
  /\ UNCHANGED <<place, quoted, phase, requested, existing, start, executed>>

Next ==
  \/ \E p \in Pairs : \/ Begin(p) \/ Approved(p) \/ Prepared(p) \/ Sign(p) \/ Stop(p)
                      \/ Submit(p) \/ Broadcast(p) \/ Answered(p) \/ FindFinal(p)
  \/ \E r \in Requests, ok \in BOOLEAN : Execute(r, ok)
  \/ Reorganize \/ Finalize

Spec == Init /\ [][Next]_forwardVars

----------------------------------------------------------------------------
(* Properties.                                                             *)

\* No send, signed only after its approval is final (composition 140-162), ever finds
\* less than the exact allowance, whatever was reorganized or run meanwhile.
EverySendIsCovered == \A i \in DOMAIN executed : executed[i].result # "short"

\* Whatever is handed to the network can execute: every nonce below it is used
\* by something that was handed over as well (execute-sepolia.ts 45), so no
\* pair waits for ever on an approval that it decided not to send.
NoNonceGap ==
  \A r \in requested : \A m \in start .. Nonce(r[1], r[2]) - 1 :
    \E q \in requested : Nonce(q[1], q[2]) = m
=============================================================================
