----------------------------- MODULE CustodyRun -----------------------------
(***************************************************************************)
(* runCustody() of testnet-ccip/application/custody-run.ts: an operator's  *)
(* tool that takes a founder's and a team's grant through deployment,      *)
(* funding, release and cancellation, one operation at a time, each under  *)
(* a transaction journal of its own, with a run record that outlives the   *)
(* process.                                                                *)
(*                                                                         *)
(* ports.exclusive() makes one process run at a time; it may stop at any   *)
(* await, killed, thrown or returning unresolved.  The journal is that of  *)
(* EvmJournal, of which the durable phase and the send matter here.  The   *)
(* vaults are those of GrantAccounting.  inspect() answers from a          *)
(* finalized block that may be one change of the chain old, which is more  *)
(* than its contract allows it.                                            *)
(***************************************************************************)
EXTENDS GrantAccounting, Sequences, FiniteSetsExt, SequencesExt

CONSTANTS Grants,     \* the configured grants, in order
          TermsOf,    \* the terms of each
          MaxOutside  \* bound: releases that beneficiaries make by themselves

None == <<"none", "none">>

ASSUME RunAssumption ==
  /\ Grants \in Seq(Range(Grants)) /\ IsInjective(Grants) /\ MaxOutside \in Nat
  /\ TermsOf \in [Range(Grants) -> Terms]
  /\ \A g \in Range(Grants) : _validate(TermsOf[g])

GrantIds == Range(Grants)

DeployToken == <<"deploy-token", "none">>

Operations ==
  {DeployToken} \cup ({"deploy-grant", "approve", "fund", "reject-founder-cancel", "release",
                       "cancel-team", "claim-debt"} \X GrantIds)

VARIABLES now,        \* the chain's time
          chain,      \* token and vaults as of the last finalized block
          since,      \* when the chain last changed
          earlier,    \* the chain before that, and since when
          outside,    \* releases made without the tool
          at, mode,   \* where the process stands; "idle": none runs
          current, completed, failure,  \* the run record
          journal,    \* phase of the journal of current's intent; "none": no journal
          sent,       \* how often each operation's transaction was handed to the network
          outcome     \* what became of it

record == <<current, completed, failure>>
world  == <<now, chain, since, earlier, outside>>
vars   == <<world, at, mode, record, journal, sent, outcome>>

NoVault == [deployed |-> FALSE, approved |-> FALSE, funded |-> FALSE, grant |-> EmptyGrant]

Genesis == [token |-> FALSE, vault |-> [g \in GrantIds |-> NoVault]]

Init ==
  /\ now = 0 /\ chain = Genesis /\ since = 0 /\ outside = 0
  /\ earlier = [state |-> Genesis, since |-> 0]
  /\ at = "idle" /\ mode = "status"
  /\ current = None /\ completed = <<>> /\ failure = None
  /\ journal = "none"
  /\ sent = [op \in Operations |-> 0] /\ outcome = [op \in Operations |-> "none"]

----------------------------------------------------------------------------
(* The vaults on the chain.                                                *)

\* What a finalized block may show: the chain now, or before its last change.
Snapshots == {[state |-> chain, time |-> t] : t \in since .. now}
             \cup {[state |-> earlier.state, time |-> t] : t \in earlier.since .. since}

\* Whether the contracts accept an operation now.
Accepted(op) ==
  LET v == chain.vault[op[2]] g == v.grant
  IN  CASE op[1] = "deploy-grant" -> TermsOf[op[2]].start >= now
        [] op[1] = "fund"         -> v.approved /\ ~ v.funded /\ now <= g.terms.start
        [] op[1] \in {"release", "claim-debt"} ->
             v.funded /\ ReleaseAllowed(g, now, available(g, now))
        [] op[1] = "cancel-team"  -> v.funded /\ CancelAllowed(g, now)
        [] OTHER                  -> TRUE

\* What it then does.  A Safe call that its vault refuses changes nothing.
Effect(op) ==
  LET v == chain.vault[op[2]] g == v.grant
      Vault(new) == [chain EXCEPT !.vault[op[2]] = new]
  IN  CASE op[1] = "deploy-token" -> [chain EXCEPT !.token = TRUE]
        [] op[1] = "deploy-grant" ->
             Vault([NoVault EXCEPT !.deployed = TRUE,
                             !.grant = initialize(EmptyGrant, TermsOf[op[2]])])
        [] op[1] = "approve"      -> Vault([v EXCEPT !.approved = TRUE])
        [] op[1] = "fund"         -> Vault([v EXCEPT !.funded = TRUE, !.approved = FALSE])
        [] op[1] \in {"release", "claim-debt"} ->
             Vault([v EXCEPT !.grant = release(g, now, available(g, now))])
        [] op[1] = "cancel-team"  -> Vault([v EXCEPT !.grant = cancel(g, now)])
        [] OTHER                  -> chain

\* What verifyCustodyTransition() demands beyond that: a cancellation leaves
\* vested debt and refunds something, a claim follows a cancellation.
Verified(op) ==
  LET g == chain.vault[op[2]].grant
      vested == _curve(g.terms, now)
  IN  /\ op[1] = "cancel-team" =>
            g.released > 0 /\ vested > g.released /\ vested < g.terms.allocation
      /\ op[1] = "claim-debt" => g.cancelled

Change(new) ==
  /\ chain' = new /\ since' = now
  /\ earlier' = [state |-> chain, since |-> since]

----------------------------------------------------------------------------
(* Selection, from a snapshot s.                                           *)

custodyVested(g, time) ==
  LET terms == TermsOf[g]
  IN  IF time <= terms.cliff THEN 0 ELSE IF time >= terms.end THEN terms.allocation
      ELSE (terms.allocation * (time - terms.cliff)) \div (terms.end - terms.cliff)

Due(s, g) == LET v == s.state.vault[g]
             IN  IF v.funded THEN available(v.grant, s.time) ELSE 0

FundingAction(s, g) ==
  IF s.time > TermsOf[g].start THEN "throw"
  ELSE IF s.state.vault[g].approved THEN "fund" ELSE "approve"

FounderAction(s, g) ==
  LET v == s.state.vault[g].grant
  IN  IF <<"reject-founder-cancel", g>> \notin Range(completed) THEN "reject-founder-cancel"
      ELSE IF v.released > 0 THEN "complete"
      ELSE IF Due(s, g) > 0 THEN "release" ELSE "wait"

\* Slip: a cancelled grant's debt is left to its beneficiary.
TeamActionUntilCancelled(s, g) ==
  LET v == s.state.vault[g].grant
      vested == custodyVested(g, s.time)
  IN  IF v.cancelled THEN "complete"
      ELSE IF vested >= v.terms.allocation THEN "throw"
      ELSE IF v.released = 0 THEN (IF vested > 0 THEN "release" ELSE "wait")
      ELSE IF vested > v.released THEN "cancel-team" ELSE "wait"

TeamAction(s, g) ==
  LET v == s.state.vault[g].grant
      vested == custodyVested(g, s.time)
  IN  IF v.cancelled THEN (IF Due(s, g) > 0 THEN "claim-debt" ELSE "complete")
      ELSE IF vested >= v.terms.allocation THEN "throw"
      ELSE IF v.released = 0 THEN (IF vested > 0 THEN "release" ELSE "wait")
      ELSE IF vested > v.released THEN "cancel-team" ELSE "wait"

custodyNextAction(s, g) ==
  IF ~ s.state.vault[g].funded THEN FundingAction(s, g)
  ELSE IF TermsOf[g].kind = "Founder" THEN FounderAction(s, g) ELSE TeamAction(s, g)

First(S) == Grants[Min({k \in DOMAIN Grants : Grants[k] \in S})]

\* Slip: grants are taken up in order, funded or not.
InOrder(s) == {g \in GrantIds : custodyNextAction(s, g) \notin {"wait", "complete"}}

\* Every grant is funded before any of them enters its vesting window.
Actionable(s) ==
  LET unfunded == {g \in GrantIds : ~ s.state.vault[g].funded}
  IN  IF unfunded # {} THEN unfunded
      ELSE {g \in GrantIds : custodyNextAction(s, g) \notin {"wait", "complete"}}

\* selectCustodyOperation(); the actions of all grants are evaluated first.
selectCustodyOperation(s) ==
  LET missing == {g \in GrantIds : ~ s.state.vault[g].deployed}
  IN  IF ~ s.state.token THEN DeployToken
      ELSE IF missing # {} THEN <<"deploy-grant", First(missing)>>
      ELSE IF \E g \in GrantIds : custodyNextAction(s, g) = "throw" THEN <<"throw", "none">>
      ELSE IF Actionable(s) # {}
             THEN LET g == First(Actionable(s)) IN <<custodyNextAction(s, g), g>>
      ELSE IF \A g \in GrantIds : custodyNextAction(s, g) = "complete" THEN <<"complete", "none">>
      ELSE <<"wait", "none">>

----------------------------------------------------------------------------
(* The tool.                                                               *)

Goto(await) == at' = await

Modes == {"prepare", "next", "reconcile", "status"}

\* A recorded failure is all that is ever reported again.
Begin(m) ==
  /\ at = "idle" /\ failure = None
  /\ Goto("inspect") /\ mode' = m
  /\ UNCHANGED <<world, record, journal, sent, outcome>>

\* Thrown, unresolved, or killed: what is in memory is lost.
Stop ==
  /\ at # "idle"
  /\ Goto("idle")
  /\ UNCHANGED <<world, mode, record, journal, sent, outcome>>

\* Slip: an operation may be selected again.
FreshAlways(op) == op \in Operations

\* No operation is selected twice (83, and OPERATION_REUSE in validateRun).
Fresh(op) == op \in Operations /\ op \notin Range(completed)

\* An operation is selected, prepared and recorded before it has a journal.
Select ==
  /\ at = "inspect" /\ current = None /\ mode \in {"prepare", "next"}
  /\ \E s \in Snapshots :
       LET op == selectCustodyOperation(s)
       IN  Fresh(op) /\ current' = op
  /\ journal' = "none"
  /\ Goto("advance")
  /\ UNCHANGED <<world, mode, completed, failure, sent, outcome>>

\* inspect() with an operation under way.
Resume ==
  /\ at = "inspect" /\ current # None
  /\ Goto("advance")
  /\ UNCHANGED <<world, mode, record, journal, sent, outcome>>

\* Only "next" prepares to sign or to send.
Preflight ==
  /\ at = "advance" /\ mode = "next" /\ journal \in {"none", "signed"}
  /\ Goto("preflight")
  /\ UNCHANGED <<world, mode, record, journal, sent, outcome>>

\* The journal is entered, which signs first if it is new.
EnterJournal ==
  /\ \/ at = "preflight"
     \/ at = "advance" /\ mode \in {"next", "reconcile"} /\ journal # "none"
                       /\ ~ (mode = "next" /\ journal = "signed")
  /\ journal' = IF journal = "none" THEN "signed" ELSE journal
  /\ Goto("observe")
  /\ UNCHANGED <<world, mode, record, sent, outcome>>

\* Not found, and provably never submitted.
Submit ==
  /\ at = "observe" /\ journal = "signed" /\ mode = "next"
  /\ journal' = "submitting"
  /\ Goto("broadcast")
  /\ UNCHANGED <<world, mode, record, sent, outcome>>

Broadcast ==
  /\ at = "broadcast"
  /\ sent' = [sent EXCEPT ![current] = @ + 1]
  /\ outcome' = [outcome EXCEPT ![current] = IF @ = "none" THEN "sent" ELSE @]
  /\ Goto("answer")
  /\ UNCHANGED <<world, mode, record, journal>>

\* The endpoint answered; the run returns unresolved all the same.
Answered ==
  /\ at = "answer"
  /\ journal' = "submitted"
  /\ Goto("idle")
  /\ UNCHANGED <<world, mode, record, sent, outcome>>

\* A finalized receipt.
FindFinal ==
  /\ at = "observe" /\ outcome[current] \in {"proper", "improper", "reverted"}
  /\ journal' = IF outcome[current] = "reverted" THEN "reverted" ELSE "succeeded"
  /\ Goto(IF outcome[current] = "reverted" THEN "fail" ELSE "prove")
  /\ UNCHANGED <<world, mode, record, sent, outcome>>

\* prove() authenticates the effects.
Prove ==
  /\ at = "prove" /\ outcome[current] = "proper"
  /\ current' = None /\ completed' = Append(completed, current)
  /\ Goto("idle")
  /\ UNCHANGED <<world, mode, failure, journal, sent, outcome>>

\* A reverted transaction or an unexpected effect ends the run for good.
Fail ==
  /\ at = "fail" \/ (at = "prove" /\ outcome[current] = "improper")
  /\ failure' = current
  /\ Goto("idle")
  /\ UNCHANGED <<world, mode, current, completed, journal, sent, outcome>>

----------------------------------------------------------------------------
(* The chain.                                                              *)

\* The transaction under way is included and finalized, now or never.
Execute ==
  /\ current # None /\ outcome[current] = "sent"
  /\ IF Accepted(current)
       THEN /\ Change(Effect(current))
            /\ outcome' = [outcome EXCEPT ![current] =
                              IF Verified(current) THEN "proper" ELSE "improper"]
       ELSE /\ outcome' = [outcome EXCEPT ![current] = "reverted"]
            /\ UNCHANGED <<chain, since, earlier>>
  /\ UNCHANGED <<now, outside, at, mode, record, journal, sent>>

\* A beneficiary claims without the tool.
OutsideRelease(g) ==
  /\ outside < MaxOutside /\ Accepted(<<"release", g>>)
  /\ outside' = outside + 1
  /\ Change(Effect(<<"release", g>>))
  /\ UNCHANGED <<now, at, mode, record, journal, sent, outcome>>

Tick ==
  /\ now < MaxTime
  /\ now' = now + 1
  /\ UNCHANGED <<chain, since, earlier, outside, at, mode, record, journal, sent, outcome>>

Next ==
  \/ \E m \in Modes : Begin(m)
  \/ Stop \/ Select \/ Resume \/ Preflight \/ EnterJournal \/ Submit \/ Broadcast \/ Answered
  \/ FindFinal \/ Prove \/ Fail
  \/ Execute \/ Tick
  \/ \E g \in GrantIds : OutsideRelease(g)

Spec == Init /\ [][Next]_vars

----------------------------------------------------------------------------
(* Properties.                                                             *)

\* Deployment and funding are complete before any grant enters a vesting
\* window (46): nothing else is sent while some vault is unfunded.
FundedBeforeVesting ==
  \A op \in Operations :
    op[1] \in {"reject-founder-cancel", "release", "cancel-team", "claim-debt"} /\ sent[op] > 0
      => \A g \in GrantIds : chain.vault[g].funded

\* "complete" is only answered when nothing is left: the founder's cancellation
\* was refused and the founder paid, the team's grant cancelled and all it was
\* owed paid out (48, custody.ts 101-117).
CompleteMeansDone ==
  at = "inspect" /\ current = None
    /\ (\E s \in Snapshots : selectCustodyOperation(s)[1] = "complete")
    => \A g \in GrantIds :
         LET v == chain.vault[g]
         IN  /\ v.funded /\ v.grant.released > 0
             /\ IF TermsOf[g].kind = "Founder"
                  THEN outcome[<<"reject-founder-cancel", g>>] = "proper"
                  ELSE v.grant.cancelled /\ v.grant.released = v.grant.frozenEntitlement

\* No economic operation is ever sent twice, under whatever intents, and what was
\* sent is on the record: verified and completed, the failure the run ended
\* with, or still under way, although the run forgets everything but its record
\* at any await and inspect() may not show the last change yet (66-124).
EverySendIsAccountedFor ==
  \A op \in Operations :
    /\ sent[op] <= 1
    /\ sent[op] > 0 =>
         \/ op \in Range(completed) /\ outcome[op] = "proper"
         \/ op = failure /\ outcome[op] \in {"improper", "reverted"}
         \/ op = current /\ failure = None

\* custody-run.ts 23: the preflight "runs before initial signing only".
PreflightBeforeSigning == at = "preflight" => journal = "none"
=============================================================================
