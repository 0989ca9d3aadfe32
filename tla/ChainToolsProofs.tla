-------------------------- MODULE ChainToolsProofs --------------------------
(***************************************************************************)
(* What the custody run, the forward transfer, the observation of a        *)
(* transaction, the log of a message and the supply report promise.        *)
(*                                                                         *)
(* The custody run: for any list of grants, any terms the library accepts, *)
(* any number of claims made outside the tool and any number of stops.     *)
(* RecordInv is about the run record and the journals alone: whatever the  *)
(* chain does, an operation whose journal is still unsubmitted was never   *)
(* sent, and one that was sent is on the record until it is completed.     *)
(* ChainInv adds what the record says has happened on the chain.           *)
(*                                                                         *)
(* The forward transfer: a pair that signed an approval signs its send     *)
(* only after that is finalized; a pair that did not can only ever send at *)
(* the account's first nonce, and then nothing has touched the allowance.  *)
(*                                                                         *)
(* The observation: finalized prefixes only grow, so what one read saw is  *)
(* so of now, or that read was the one stale answer and a later one is not.*)
(*                                                                         *)
(* The log of a message: what is projected depends on which observations   *)
(* there are, whatever their number, order and repetition; each is genuine *)
(* of what was final, or a reorganization has been observable (LogInv).    *)
(*                                                                         *)
(* The supply report, of any number of transfers and blocks: a ledger      *)
(* differs by the transfers that stand in it from what moved otherwise, so *)
(* two heights past both events of each agree; what both passes found      *)
(* settled was so before the snapshot's first read (StatusInv).            *)
(***************************************************************************)
EXTENDS ChainTools, CurveProofs, SequenceTheorems, WellFoundedInduction

Awaits   == {"idle", "inspect", "advance", "preflight", "observe", "broadcast", "answer",
             "prove", "fail"}
Phases   == {"none", "signed", "submitting", "submitted", "succeeded", "reverted"}
Outcomes == {"none", "sent", "proper", "improper", "reverted"}

RecordTyped ==
  /\ at \in Awaits /\ mode \in Modes
  /\ current \in Operations \cup {None} /\ failure \in Operations \cup {None}
  /\ completed \in Seq(Operations) /\ journal \in Phases
  /\ sent \in [Operations -> Nat] /\ outcome \in [Operations -> Outcomes]

\* What was sent: at most once, and it is on the record.
SendIsRecorded(op) ==
  /\ sent[op] <= 1
  /\ sent[op] = 0 <=> outcome[op] = "none"
  /\ sent[op] > 0 =>
       \/ op \in Range(completed) /\ outcome[op] = "proper"
       \/ op = failure /\ outcome[op] \in {"improper", "reverted"}
       \/ op = current /\ failure = None
  /\ op \in Range(completed) => outcome[op] = "proper" /\ op # current

\* The operation under way: unsent as long as its journal does not say that it
\* may have been, and final when the process knows its outcome.
UnderWay ==
  /\ journal \in {"none", "signed"} \/ at = "broadcast" => sent[current] = 0
  /\ at = "prove" => outcome[current] \in {"proper", "improper"}
  /\ at = "fail" => outcome[current] = "reverted"

RecordInv ==
  /\ RecordTyped
  /\ \A op \in Operations : SendIsRecorded(op)
  /\ at \notin {"idle", "inspect"} => current # None
  /\ at = "broadcast" => journal = "submitting"
  /\ failure # None => at = "idle" /\ outcome[failure] \in {"improper", "reverted"}
  /\ failure = None /\ current # None => UnderWay

----------------------------------------------------------------------------
(* Lemmas about the run record.                                            *)

\* "none" names no operation.
LEMMA NoneIsNoOperation == None \notin Operations
  BY DEF None, Operations, DeployToken

\* What is appended to a list is in it, and nothing leaves it.
LEMMA RangeOfAppend ==
  ASSUME NEW S, NEW s \in Seq(S), NEW e \in S
  PROVE  Range(Append(s, e)) = Range(s) \cup {e}
  <1>1. PICK t \in Seq(S) : t = Append(s, e)
    BY AppendProperties
  <1>2. /\ Len(t) = Len(s) + 1 /\ Len(s) \in Nat
        /\ \A i \in 1 .. Len(s) : t[i] = s[i]
        /\ t[Len(s) + 1] = e
    BY <1>1, AppendProperties
  <1>3. DOMAIN t = 1 .. Len(s) + 1 /\ DOMAIN s = 1 .. Len(s)
    BY <1>2
  <1>4. Range(t) = Range(s) \cup {e}
    <2>1. ASSUME NEW x \in Range(t)
          PROVE  x \in Range(s) \cup {e}
      BY <1>2, <1>3 DEF Range
    <2>2. ASSUME NEW x \in Range(s)
          PROVE  x \in Range(t)
      <3>1. PICK i \in 1 .. Len(s) : s[i] = x
        BY <1>3 DEF Range
      <3>2. i \in 1 .. Len(s) + 1 /\ t[i] = x
        BY <1>2, <3>1
      <3> QED BY <1>3, <3>2 DEF Range
    <2>3. e \in Range(t)
      <3>1. Len(s) + 1 \in DOMAIN t
        BY <1>2, <1>3
      <3> QED BY <1>2, <3>1 DEF Range
    <2> QED BY <2>1, <2>2, <2>3
  <1> QED BY <1>1, <1>4

\* A step that touches neither the record nor what was sent, and only goes to
\* another await or writes the journal.
LEMMA ControlKeeps ==
  ASSUME RecordInv, UNCHANGED <<record, sent, outcome>>,
         at' \in Awaits, mode' \in Modes, journal' \in Phases,
         at' \notin {"idle", "inspect"} => current # None /\ failure = None,
         at' = "broadcast" => journal' = "submitting",
         failure # None => at' = "idle",
         failure = None /\ current # None => UnderWay'
  PROVE  RecordInv'
  <1>1. RecordTyped'
    BY DEF RecordInv, RecordTyped, record
  <1>2. \A op \in Operations : SendIsRecorded(op)'
    BY DEF RecordInv, SendIsRecorded, record
  <1>3. UNCHANGED <<current, failure>>
    BY DEF record
  <1> QED BY <1>1, <1>2, <1>3 DEF RecordInv

----------------------------------------------------------------------------
(* The steps, as far as the record is concerned.                           *)

\* The tool's steps that write no record.
LEMMA ToolKeepsRecord ==
  ASSUME RecordInv,
         \/ \E m \in Modes : Begin(m)
         \/ Stop \/ Resume \/ Preflight \/ EnterJournal \/ Submit \/ Answered \/ FindFinal
  PROVE  RecordInv'
  <1>1. /\ RecordTyped
        /\ failure # None => at = "idle"
        /\ failure = None /\ current # None => UnderWay
        /\ at \notin {"idle", "inspect"} => current # None
        /\ at = "broadcast" => journal = "submitting"
    BY DEF RecordInv
  <1>2. ASSUME NEW m \in Modes, Begin(m)
        PROVE  RecordInv'
    BY <1>1, <1>2, ControlKeeps DEF Begin, Goto, RecordTyped, UnderWay, Awaits, record
  <1>3. CASE Stop
    BY <1>1, <1>3, ControlKeeps DEF Stop, Goto, RecordTyped, UnderWay, Awaits, record
  <1>4. CASE Resume
    BY <1>1, <1>4, ControlKeeps DEF Resume, Goto, RecordTyped, UnderWay, Awaits, record
  <1>5. CASE Preflight
    BY <1>1, <1>5, ControlKeeps DEF Preflight, Goto, RecordTyped, UnderWay, Awaits, record
  <1>6. CASE EnterJournal
    BY <1>1, <1>6, ControlKeeps DEF EnterJournal, Goto, RecordTyped, UnderWay, Awaits, Phases, record
  <1>7. CASE Submit
    BY <1>1, <1>7, ControlKeeps DEF Submit, Goto, RecordTyped, UnderWay, Awaits, Phases, record
  <1>8. CASE Answered
    BY <1>1, <1>8, ControlKeeps DEF Answered, Goto, RecordTyped, UnderWay, Awaits, Phases, record
  <1>9. CASE FindFinal
    BY <1>1, <1>9, ControlKeeps DEF FindFinal, Goto, RecordTyped, UnderWay, Awaits, Phases, record
  <1> QED BY <1>2, <1>3, <1>4, <1>5, <1>6, <1>7, <1>8, <1>9

\* An operation never recorded before is taken up: it was never sent.
LEMMA SelectKeepsRecord ==
  ASSUME RecordInv, Select
  PROVE  RecordInv'
  <1>1. /\ RecordTyped /\ at = "inspect" /\ current = None /\ failure = None
    BY DEF RecordInv, Select
  <1>2. PICK op \in Operations : current' = op /\ op \notin Range(completed)
    BY DEF Select, Fresh
  <1>3. /\ UNCHANGED <<world, mode, completed, failure, sent, outcome>>
        /\ journal' = "none" /\ at' = "advance"
    BY DEF Select, Goto
  <1>4. op # None
    BY NoneIsNoOperation
  <1>5. sent[op] = 0
    BY <1>1, <1>2, <1>4 DEF RecordInv, SendIsRecorded, RecordTyped
  <1>6. RecordTyped'
    BY <1>1, <1>2, <1>3 DEF RecordTyped, Awaits, Phases
  <1>7. ASSUME NEW o \in Operations
        PROVE  SendIsRecorded(o)'
    BY <1>1, <1>2, <1>3, <1>4, NoneIsNoOperation DEF RecordInv, SendIsRecorded
  <1>8. UnderWay'
    BY <1>2, <1>3, <1>5 DEF UnderWay
  <1> QED BY <1>1, <1>2, <1>3, <1>4, <1>6, <1>7, <1>8 DEF RecordInv

\* The operation under way is handed to the network, for the first time.
LEMMA BroadcastKeepsRecord ==
  ASSUME RecordInv, Broadcast
  PROVE  RecordInv'
  <1>1. /\ RecordTyped /\ at = "broadcast" /\ current # None /\ failure = None
        /\ journal = "submitting" /\ UnderWay
    BY DEF RecordInv, Broadcast
  <1>2. PICK op \in Operations : op = current
    BY <1>1 DEF RecordTyped
  <1>3. sent[op] = 0 /\ outcome[op] = "none"
    BY <1>1, <1>2 DEF UnderWay, RecordInv, SendIsRecorded
  <1>4. /\ UNCHANGED <<world, mode, current, completed, failure, journal>>
        /\ at' = "answer"
        /\ sent' \in [Operations -> Nat] /\ sent'[op] = 1
        /\ outcome' \in [Operations -> Outcomes] /\ outcome'[op] = "sent"
        /\ \A o \in Operations \ {op} : sent'[o] = sent[o] /\ outcome'[o] = outcome[o]
    BY <1>1, <1>2, <1>3 DEF Broadcast, Goto, record, RecordTyped, Outcomes
  <1>5. RecordTyped'
    BY <1>1, <1>4 DEF RecordTyped, Awaits
  <1>6. ASSUME NEW o \in Operations
        PROVE  SendIsRecorded(o)'
    <2>1. SendIsRecorded(o)
      BY DEF RecordInv
    <2>2. CASE o = op
      BY <1>1, <1>2, <1>4, <2>1, <2>2 DEF SendIsRecorded
    <2>3. CASE o # op
      BY <1>4, <2>1, <2>3 DEF SendIsRecorded
    <2> QED BY <2>2, <2>3
  <1>7. UnderWay'
    BY <1>1, <1>4 DEF UnderWay
  <1> QED BY <1>1, <1>4, <1>5, <1>6, <1>7 DEF RecordInv

\* An operation whose effects were authenticated is completed.
LEMMA ProveKeepsRecord ==
  ASSUME RecordInv, Prove
  PROVE  RecordInv'
  <1>1. /\ RecordTyped /\ at = "prove" /\ current # None /\ failure = None
        /\ outcome[current] = "proper"
    BY DEF RecordInv, Prove
  <1>2. PICK op \in Operations : op = current
    BY <1>1 DEF RecordTyped
  <1>3. /\ UNCHANGED <<mode, failure, journal, sent, outcome>>
        /\ current' = None /\ completed' = Append(completed, op) /\ at' = "idle"
    BY <1>2 DEF Prove, Goto
  <1>4. Range(completed') = Range(completed) \cup {op} /\ completed' \in Seq(Operations)
    BY <1>1, <1>3, RangeOfAppend, AppendProperties DEF RecordTyped
  <1>5. RecordTyped'
    BY <1>1, <1>3, <1>4 DEF RecordTyped, Awaits
  <1>6. ASSUME NEW o \in Operations
        PROVE  SendIsRecorded(o)'
    <2>1. SendIsRecorded(o)
      BY DEF RecordInv
    <2> QED BY <1>1, <1>2, <1>3, <1>4, <2>1, NoneIsNoOperation DEF SendIsRecorded
  <1> QED BY <1>1, <1>3, <1>5, <1>6 DEF RecordInv

\* The run ends for good.
LEMMA FailKeepsRecord ==
  ASSUME RecordInv, Fail
  PROVE  RecordInv'
  <1>1. /\ RecordTyped /\ current # None /\ failure = None /\ UnderWay
        /\ outcome[current] \in {"improper", "reverted"}
    BY DEF RecordInv, Fail, UnderWay
  <1>2. PICK op \in Operations : op = current
    BY <1>1 DEF RecordTyped
  <1>3. /\ UNCHANGED <<mode, current, completed, journal, sent, outcome>>
        /\ failure' = op /\ at' = "idle"
    BY <1>2 DEF Fail, Goto
  <1>4. RecordTyped'
    BY <1>1, <1>3 DEF RecordTyped, Awaits
  <1>5. op # None
    BY NoneIsNoOperation
  <1>6. ASSUME NEW o \in Operations
        PROVE  SendIsRecorded(o)'
    <2>1. SendIsRecorded(o)
      BY DEF RecordInv
    <2> QED BY <1>1, <1>2, <1>3, <1>5, <2>1, NoneIsNoOperation DEF SendIsRecorded
  <1> QED BY <1>1, <1>2, <1>3, <1>4, <1>5, <1>6 DEF RecordInv

\* The chain decides about what was sent.
LEMMA ExecuteKeepsRecord ==
  ASSUME RecordInv, Execute
  PROVE  RecordInv'
  <1>1. /\ RecordTyped /\ current # None /\ outcome[current] = "sent"
        /\ UNCHANGED <<at, mode, current, completed, failure, journal, sent>>
    BY DEF RecordInv, Execute, record
  <1>2. PICK op \in Operations : op = current
    BY <1>1 DEF RecordTyped
  <1>3. /\ outcome' \in [Operations -> Outcomes]
        /\ outcome'[op] \in {"proper", "improper", "reverted"}
        /\ \A o \in Operations \ {op} : outcome'[o] = outcome[o]
    BY <1>1, <1>2 DEF Execute, RecordTyped, Outcomes
  <1>4. SendIsRecorded(op)
    BY DEF RecordInv
  <1>5. failure = None /\ op \notin Range(completed) /\ sent[op] # 0
    BY <1>1, <1>2, <1>4 DEF SendIsRecorded, RecordInv, RecordTyped
  <1>6. RecordTyped'
    BY <1>1, <1>3 DEF RecordTyped
  <1>7. ASSUME NEW o \in Operations
        PROVE  SendIsRecorded(o)'
    <2>1. SendIsRecorded(o)
      BY DEF RecordInv
    <2>2. CASE o = op
      BY <1>1, <1>2, <1>3, <1>4, <1>5, <2>2 DEF SendIsRecorded
    <2>3. CASE o # op
      BY <1>1, <1>3, <2>1, <2>3 DEF SendIsRecorded
    <2> QED BY <2>2, <2>3
  <1>8. UnderWay'
    BY <1>1, <1>2, <1>3, <1>5 DEF RecordInv, UnderWay
  <1> QED BY <1>1, <1>5, <1>6, <1>7, <1>8 DEF RecordInv

\* What the chain and the clock do by themselves is none of the record's.
LEMMA WorldKeepsRecord ==
  ASSUME RecordInv, UNCHANGED <<at, mode, record, journal, sent, outcome>>
  PROVE  RecordInv'
  <1>1. failure = None /\ current # None => UnderWay'
    BY DEF RecordInv, UnderWay, record
  <1> QED BY <1>1 DEF RecordInv, RecordTyped, SendIsRecorded, record

\* Nothing is on the record.
LEMMA InitRecord ==
  ASSUME Init
  PROVE  RecordInv
  <1>1. RecordTyped
    BY DEF Init, RecordTyped, Awaits, Modes, Phases, Outcomes
  <1>2. Range(completed) = {}
    BY DEF Init, Range
  <1> QED BY <1>1, <1>2 DEF Init, RecordInv, SendIsRecorded

THEOREM RecordInvariant == Spec => []RecordInv
  <1>1. Init => RecordInv
    BY InitRecord
  <1>2. RecordInv /\ [Next]_vars => RecordInv'
    <2> SUFFICES ASSUME RecordInv, [Next]_vars
                 PROVE  RecordInv'
      OBVIOUS
    <2>1. CASE \/ \E m \in Modes : Begin(m)
               \/ Stop \/ Resume \/ Preflight \/ EnterJournal \/ Submit \/ Answered \/ FindFinal
      BY <2>1, ToolKeepsRecord
    <2>2. CASE Select \/ Broadcast \/ Prove \/ Fail \/ Execute
      BY <2>2, SelectKeepsRecord, BroadcastKeepsRecord, ProveKeepsRecord, FailKeepsRecord,
         ExecuteKeepsRecord
    <2>3. CASE Tick \/ \E g \in GrantIds : OutsideRelease(g)
      BY <2>3, WorldKeepsRecord DEF Tick, OutsideRelease
    <2>4. CASE UNCHANGED vars
      BY <2>4, WorldKeepsRecord DEF vars
    <2> QED BY <2>1, <2>2, <2>3, <2>4 DEF Next
  <1> QED BY <1>1, <1>2, PTL DEF Spec

\* No economic operation is ever sent twice, and what was sent is on the record
\* (custody-run.ts 66-124), whatever the chain makes of it and wherever the
\* process stops.
THEOREM SendsAreAccountedFor == Spec => []EverySendIsAccountedFor
  <1>1. RecordInv => EverySendIsAccountedFor
    BY DEF RecordInv, SendIsRecorded, EverySendIsAccountedFor
  <1> QED BY <1>1, RecordInvariant, PTL
----------------------------------------------------------------------------
(* The vaults.                                                             *)

Vaults == [deployed : BOOLEAN, approved : BOOLEAN, funded : BOOLEAN, grant : Grant]
Worlds == [token : BOOLEAN, vault : [GrantIds -> Vaults]]

\* A vault has a grant of its terms from its deployment on, and only then funds.
VaultIsSound(v, g) ==
  IF v.deployed THEN Sound(v.grant) /\ v.grant.terms = TermsOf[g]
  ELSE ~ v.funded /\ v.grant = EmptyGrant

\* No vault goes back: what one block shows, later ones show as well.
VaultFollows(v, w) ==
  /\ v.deployed => w.deployed
  /\ v.funded => w.funded
  /\ v.grant.released <= w.grant.released
  /\ v.grant.cancelled => w.grant.cancelled /\ w.grant.frozenEntitlement = v.grant.frozenEntitlement

Deploying == {"deploy-token", "deploy-grant"}
Vesting   == {"reject-founder-cancel", "release", "cancel-team", "claim-debt"}

\* What has been when an operation is taken up.
Founded(op) ==
  /\ op[1] \notin Deploying => \A g \in GrantIds : chain.vault[g].deployed
  /\ op[1] \in Vesting => \A g \in GrantIds : chain.vault[g].funded

\* A vault is deployed by its own operation, and cancelled by its own; the
\* cancellation leaves a released grant unless it is found improper.
VaultIsExplained(g) ==
  LET v == chain.vault[g]
      end == outcome[<<"cancel-team", g>>]
  IN  /\ v.deployed => outcome[<<"deploy-grant", g>>] = "proper"
      /\ v.grant.cancelled => end = "improper" \/ (end = "proper" /\ v.grant.released > 0)

ChainInv ==
  /\ now \in Time /\ chain \in Worlds /\ earlier.state \in Worlds
  /\ \A g \in GrantIds : /\ VaultIsSound(chain.vault[g], g)
                         /\ VaultIsSound(earlier.state.vault[g], g)
                         /\ VaultFollows(earlier.state.vault[g], chain.vault[g])
                         /\ VaultIsExplained(g)
  /\ \A op \in Operations : op = current \/ sent[op] > 0 => Founded(op)

----------------------------------------------------------------------------
(* Lemmas about selection.                                                 *)

\* A set of natural numbers has a least one.
LEMMA LeastIsIn ==
  ASSUME NEW S \in SUBSET Nat, S # {}
  PROVE  Min(S) \in S
  <1> DEFINE R == OpToRel(<, Nat)
  <1>1. IsWellFoundedOn(R, Nat)
    BY NatLessThanWellFounded
  <1>2. \A x, y \in Nat : x < y => <<x, y>> \in R
    BY DEF OpToRel
  <1> HIDE DEF R
  <1>3. PICK x \in S : \A y \in S : ~ (<<y, x>> \in R)
    BY <1>1, WFMin
  <1>4. ASSUME NEW y \in S
        PROVE  x <= y
    <2>1. ~ (y < x)
      BY <1>2, <1>3
    <2>2. x \in Nat /\ y \in Nat
      OBVIOUS
    <2> QED BY <2>1, <2>2
  <1> QED BY <1>4 DEF Min

\* The first grant of a set is one of it.
LEMMA FirstIsIn ==
  ASSUME NEW S \in SUBSET GrantIds, S # {}
  PROVE  First(S) \in S
  <1> DEFINE K == {k \in DOMAIN Grants : Grants[k] \in S}
  <1>1. DOMAIN Grants = 1 .. Len(Grants) /\ Len(Grants) \in Nat
    BY RunAssumption
  <1>2. K \in SUBSET Nat
    BY <1>1
  <1>3. K # {}
    <2>1. PICK g \in S : g \in GrantIds
      OBVIOUS
    <2>2. PICK k \in DOMAIN Grants : Grants[k] = g
      BY <2>1 DEF GrantIds, Range
    <2> QED BY <2>1, <2>2
  <1>4. Min(K) \in K
    BY <1>2, <1>3, LeastIsIn
  <1> QED BY <1>4 DEF First

\* What is selected: every vault is deployed before anything is funded, and all
\* are funded before anything vests, in the block that was looked at.
LEMMA SelectionIsFounded ==
  ASSUME NEW s, NEW op \in Operations, op = selectCustodyOperation(s)
  PROVE  /\ op[1] \notin Deploying => \A g \in GrantIds : s.state.vault[g].deployed
         /\ op[1] \in Vesting => \A g \in GrantIds : s.state.vault[g].funded
  <1> DEFINE missing == {g \in GrantIds : ~ s.state.vault[g].deployed}
             unfunded == {g \in GrantIds : ~ s.state.vault[g].funded}
  <1>1. CASE ~ s.state.token
    BY <1>1 DEF selectCustodyOperation, DeployToken, Deploying, Vesting
  <1>2. CASE s.state.token /\ missing # {}
    <2>1. op = <<"deploy-grant", First(missing)>>
      BY <1>2 DEF selectCustodyOperation
    <2> QED BY <2>1 DEF Deploying, Vesting
  <1>3. CASE s.state.token /\ missing = {}
    <2>1. op[1] \notin {"throw", "complete", "wait"}
      BY DEF Operations, DeployToken
    <2>2. /\ Actionable(s) # {}
          /\ op = <<custodyNextAction(s, First(Actionable(s))), First(Actionable(s))>>
      BY <1>3, <2>1 DEF selectCustodyOperation
    <2>3. CASE unfunded # {}
      <3>1. Actionable(s) = unfunded
        BY <2>3 DEF Actionable
      <3>2. PICK g : g = First(Actionable(s))
        OBVIOUS
      <3>3. g \in unfunded
        BY <2>3, <3>1, <3>2, FirstIsIn
      <3>4. op[1] \in {"throw", "fund", "approve"}
        BY <2>2, <3>2, <3>3 DEF custodyNextAction, FundingAction
      <3> QED BY <1>3, <3>4 DEF Vesting
    <2>4. CASE unfunded = {}
      BY <1>3, <2>4
    <2> QED BY <2>3, <2>4
  <1> QED BY <1>1, <1>2, <1>3
----------------------------------------------------------------------------
(* The steps, as far as the vaults are concerned.                          *)

\* What is taken up is founded; the chain has only gone on since it was seen.
LEMMA TakenUpIsFounded ==
  ASSUME ChainInv, NEW s \in Snapshots, NEW op \in Operations, op = selectCustodyOperation(s)
  PROVE  Founded(op)
  <1>1. s.state = chain \/ s.state = earlier.state
    BY DEF Snapshots
  <1>2. \A g \in GrantIds : /\ s.state.vault[g].deployed => chain.vault[g].deployed
                            /\ s.state.vault[g].funded => chain.vault[g].funded
    BY <1>1 DEF ChainInv, VaultFollows
  <1> QED BY <1>2, SelectionIsFounded DEF Founded

\* A step that leaves the chain, and takes up only what is founded.
LEMMA ToolKeepsChain ==
  ASSUME ChainInv, UNCHANGED <<chain, earlier>>, now' \in Time,
         \A op \in Operations : outcome[op] \in {"proper", "improper"} => outcome'[op] = outcome[op],
         \A op \in Operations : op = current' \/ sent'[op] > 0 =>
           op = current \/ sent[op] > 0 \/ Founded(op)
  PROVE  ChainInv'
  <1>1. \A op \in Operations : Founded(op)' <=> Founded(op)
    BY DEF Founded
  <1>2. ASSUME NEW g \in GrantIds
        PROVE  VaultIsExplained(g)'
    <2>1. <<"deploy-grant", g>> \in Operations /\ <<"cancel-team", g>> \in Operations
      BY DEF Operations
    <2>2. VaultIsExplained(g)
      BY DEF ChainInv
    <2> QED BY <2>1, <2>2 DEF VaultIsExplained
  <1> QED BY <1>1, <1>2 DEF ChainInv

\* A vault changed on the chain, or none.
LEMMA ChainAdvances ==
  ASSUME ChainInv, NEW new \in Worlds, Change(new), UNCHANGED <<now, current, sent>>,
         \A g \in GrantIds : /\ VaultIsSound(new.vault[g], g)
                             /\ VaultFollows(chain.vault[g], new.vault[g])
                             /\ VaultIsExplained(g)'
  PROVE  ChainInv'
  <1>1. chain' = new /\ earlier'.state = chain
    BY DEF Change
  <1>2. \A op \in Operations : Founded(op) => Founded(op)'
    BY <1>1 DEF Founded, VaultFollows
  <1> QED BY <1>1, <1>2 DEF ChainInv

LEMMA OneVaultAdvances ==
  ASSUME ChainInv, NEW g \in GrantIds, NEW v \in Vaults, UNCHANGED <<now, current, sent>>,
         Change([chain EXCEPT !.vault[g] = v]),
         VaultIsSound(v, g), VaultFollows(chain.vault[g], v),
         v.deployed => outcome'[<<"deploy-grant", g>>] = "proper",
         v.grant.cancelled => \/ outcome'[<<"cancel-team", g>>] = "improper"
                              \/ outcome'[<<"cancel-team", g>>] = "proper" /\ v.grant.released > 0,
         \A h \in GrantIds \ {g} : /\ outcome'[<<"deploy-grant", h>>] = outcome[<<"deploy-grant", h>>]
                                   /\ outcome'[<<"cancel-team", h>>] = outcome[<<"cancel-team", h>>]
  PROVE  ChainInv'
  <1>1. chain \in Worlds
    BY DEF ChainInv
  <1>2. PICK new \in Worlds : new = [chain EXCEPT !.vault[g] = v]
    BY <1>1 DEF Worlds
  <1>3. new.vault[g] = v /\ \A h \in GrantIds \ {g} : new.vault[h] = chain.vault[h]
    BY <1>1, <1>2 DEF Worlds
  <1>4. chain' = new
    BY <1>2 DEF Change
  <1>5. ASSUME NEW h \in GrantIds
        PROVE  /\ VaultIsSound(new.vault[h], h) /\ VaultFollows(chain.vault[h], new.vault[h])
               /\ VaultIsExplained(h)'
    <2>1. CASE h = g
      BY <1>3, <1>4, <2>1 DEF VaultIsExplained
    <2>2. CASE h # g
      <3>1. new.vault[h] = chain.vault[h] /\ VaultIsSound(chain.vault[h], h) /\ VaultIsExplained(h)
        BY <1>3, <2>2 DEF ChainInv
      <3>2. chain.vault[h].grant.released \in Nat
        BY <1>1 DEF Worlds, Vaults, Grant, Amount
      <3>3. VaultFollows(chain.vault[h], chain.vault[h])
        BY <3>2 DEF VaultFollows
      <3> QED BY <1>4, <2>2, <3>1, <3>3 DEF VaultIsExplained
    <2> QED BY <2>1, <2>2
  <1> QED BY <1>2, <1>5, ChainAdvances

\* A claim of a vault's grant is paid.
LEMMA ReleaseAdvances ==
  ASSUME ChainInv, NEW g \in GrantIds, NEW v, v = chain.vault[g],
         v.funded, ReleaseAllowed(v.grant, now, available(v.grant, now))
  PROVE  LET w == [v EXCEPT !.grant = release(v.grant, now, available(v.grant, now))]
         IN  /\ w \in Vaults /\ VaultIsSound(w, g) /\ VaultFollows(v, w)
             /\ w.deployed = v.deployed /\ w.grant.cancelled = v.grant.cancelled
             /\ w.grant.released > v.grant.released
  <1> DEFINE amount == available(v.grant, now)
             w == [v EXCEPT !.grant = release(v.grant, now, amount)]
  <1>1. v \in Vaults /\ now \in Time /\ VaultIsSound(v, g)
    BY DEF ChainInv, Worlds
  <1>2. Sound(v.grant) /\ v.deployed /\ v.grant.terms = TermsOf[g]
    BY <1>1 DEF VaultIsSound
  <1>3. /\ _entitlement(v.grant, now) \in Nat /\ v.grant.released \in Nat
        /\ v.grant.released <= _entitlement(v.grant, now) /\ amount # 0
    BY <1>1, <1>2, SoundCovers DEF ReleaseAllowed, _requireCurrent, Sound, Grant, Amount
  <1>4. amount \in Nat /\ amount > 0
    BY <1>3 DEF available
  <1>5. PICK h : h = release(v.grant, now, amount)
    OBVIOUS
  <1>6. /\ Sound(h) /\ h.terms = v.grant.terms /\ h.released = v.grant.released + amount
        /\ h.frozenEntitlement = v.grant.frozenEntitlement /\ h.cancelled = v.grant.cancelled
    BY <1>1, <1>2, <1>4, <1>5, ReleaseSound
  <1>7. h \in Grant
    BY <1>6 DEF Sound
  <1>8. /\ w \in Vaults /\ w.grant = h /\ w.deployed = v.deployed /\ w.funded = v.funded
    BY <1>1, <1>5, <1>7 DEF Vaults
  <1>9. VaultIsSound(w, g)
    BY <1>2, <1>6, <1>8 DEF VaultIsSound
  <1>10. w.grant.released > v.grant.released /\ v.grant.released <= w.grant.released
    BY <1>3, <1>4, <1>6, <1>8
  <1>11. VaultFollows(v, w)
    BY <1>6, <1>8, <1>10 DEF VaultFollows
  <1> QED BY <1>6, <1>8, <1>9, <1>10, <1>11

\* A team's grant is cancelled.
LEMMA CancelAdvances ==
  ASSUME ChainInv, NEW g \in GrantIds, NEW v, v = chain.vault[g],
         v.funded, CancelAllowed(v.grant, now)
  PROVE  LET w == [v EXCEPT !.grant = cancel(v.grant, now)]
         IN  /\ w \in Vaults /\ VaultIsSound(w, g) /\ VaultFollows(v, w)
             /\ w.deployed = v.deployed /\ w.grant.released = v.grant.released
  <1> DEFINE w == [v EXCEPT !.grant = cancel(v.grant, now)]
  <1>1. v \in Vaults /\ now \in Time /\ VaultIsSound(v, g)
    BY DEF ChainInv, Worlds
  <1>2. Sound(v.grant) /\ v.deployed /\ v.grant.terms = TermsOf[g]
    BY <1>1 DEF VaultIsSound
  <1>3. PICK h : h = cancel(v.grant, now)
    OBVIOUS
  <1>4. /\ Sound(h) /\ h.terms = v.grant.terms /\ h.released = v.grant.released
        /\ h \in Grant /\ v.grant.released \in Nat
    BY <1>1, <1>2, <1>3, CancelSound DEF Sound, Grant, Amount
  <1>5. w \in Vaults /\ w.grant = h /\ w.deployed = v.deployed /\ w.funded = v.funded
    BY <1>1, <1>3, <1>4 DEF Vaults
  <1>6. VaultIsSound(w, g)
    BY <1>2, <1>4, <1>5 DEF VaultIsSound
  <1>7. VaultFollows(v, w)
    BY <1>4, <1>5 DEF VaultFollows, CancelAllowed
  <1> QED BY <1>4, <1>5, <1>6, <1>7
\* What each operation does to its vault, and what the contracts ask before.
LEMMA Effects ==
  ASSUME NEW g
  PROVE  /\ Effect(<<"deploy-grant", g>>) =
              [chain EXCEPT !.vault[g] = [NoVault EXCEPT !.deployed = TRUE,
                                            !.grant = initialize(EmptyGrant, TermsOf[g])]]
         /\ Effect(<<"approve", g>>) =
              [chain EXCEPT !.vault[g] = [chain.vault[g] EXCEPT !.approved = TRUE]]
         /\ Effect(<<"fund", g>>) =
              [chain EXCEPT !.vault[g] = [chain.vault[g] EXCEPT !.funded = TRUE, !.approved = FALSE]]
         /\ Effect(<<"reject-founder-cancel", g>>) = chain
         /\ Effect(<<"cancel-team", g>>) =
              [chain EXCEPT !.vault[g] = [chain.vault[g] EXCEPT !.grant = cancel(chain.vault[g].grant, now)]]
         /\ Accepted(<<"cancel-team", g>>) => chain.vault[g].funded /\ CancelAllowed(chain.vault[g].grant, now)
         /\ Effect(DeployToken) = [chain EXCEPT !.token = TRUE]
  BY DEF Effect, Accepted, DeployToken

LEMMA EffectOfClaim ==
  ASSUME NEW g
  PROVE  /\ Effect(<<"release", g>>) =
              [chain EXCEPT !.vault[g] = [chain.vault[g] EXCEPT !.grant =
                 release(chain.vault[g].grant, now, available(chain.vault[g].grant, now))]]
         /\ Effect(<<"claim-debt", g>>) =
              [chain EXCEPT !.vault[g] = [chain.vault[g] EXCEPT !.grant =
                 release(chain.vault[g].grant, now, available(chain.vault[g].grant, now))]]
         /\ \/ Accepted(<<"release", g>>)
            \/ Accepted(<<"claim-debt", g>>)
            => /\ chain.vault[g].funded
               /\ ReleaseAllowed(chain.vault[g].grant, now, available(chain.vault[g].grant, now))
  BY DEF Effect, Accepted

\* A transaction is included and accepted.
LEMMA AcceptedAdvances ==
  ASSUME ChainInv, NEW op \in Operations, op = current, outcome[op] = "sent", Accepted(op),
         Change(Effect(op)), outcome \in [Operations -> Outcomes],
         outcome' = [outcome EXCEPT ![op] = IF Verified(op) THEN "proper" ELSE "improper"],
         UNCHANGED <<now, current, sent>>
  PROVE  ChainInv'
  <1>1. /\ outcome'[op] \in {"proper", "improper"} /\ (Verified(op) => outcome'[op] = "proper")
        /\ \A o \in Operations \ {op} : outcome'[o] = outcome[o]
        /\ outcome'[op] = "proper" => Verified(op)
    BY DEF Outcomes
  <1>2. chain \in Worlds /\ now \in Time /\ Founded(op)
    BY DEF ChainInv
  <1>3. ASSUME NEW g \in GrantIds
        PROVE  /\ <<"deploy-grant", g>> \in Operations /\ <<"cancel-team", g>> \in Operations
               /\ chain.vault[g] \in Vaults /\ chain.vault[g].grant \in Grant
               /\ chain.vault[g].grant.released \in Nat
               /\ VaultIsSound(chain.vault[g], g) /\ VaultIsExplained(g)
    BY <1>2 DEF ChainInv, Worlds, Vaults, Grant, Amount, Operations
  <1>4. CASE op = DeployToken
    <2>1. PICK new \in Worlds : new = [chain EXCEPT !.token = TRUE]
      BY <1>2 DEF Worlds
    <2>2. Change(new) /\ new.vault = chain.vault /\ chain' = new
      BY <1>2, <1>4, <2>1, Effects DEF Worlds, Change
    <2>3. ASSUME NEW g \in GrantIds
          PROVE  /\ VaultIsSound(new.vault[g], g) /\ VaultFollows(chain.vault[g], new.vault[g])
                 /\ VaultIsExplained(g)'
      <3>1. /\ outcome'[<<"deploy-grant", g>>] = outcome[<<"deploy-grant", g>>]
            /\ outcome'[<<"cancel-team", g>>] = outcome[<<"cancel-team", g>>]
        BY <1>1, <1>3, <1>4 DEF DeployToken
      <3>2. PICK v \in Vaults : v = chain.vault[g] /\ v = new.vault[g] /\ v.grant.released \in Nat
        BY <1>3, <2>2
      <3>3. VaultFollows(v, v)
        BY <3>2 DEF VaultFollows
      <3> QED BY <1>3, <2>2, <3>1, <3>2, <3>3 DEF VaultIsExplained
    <2> QED BY <2>2, <2>3, ChainAdvances
  <1>5. CASE op # DeployToken
    <2>1. PICK kind \in {"deploy-grant", "approve", "fund", "reject-founder-cancel", "release",
                         "cancel-team", "claim-debt"}, g \in GrantIds : op = <<kind, g>>
      BY <1>5 DEF Operations
    <2>2. PICK v \in Vaults : v = chain.vault[g]
      BY <1>3
    <2>3. /\ VaultIsSound(v, g) /\ VaultIsExplained(g) /\ v.grant \in Grant /\ v.grant.released \in Nat
          /\ chain.vault[g] = v
      BY <1>3, <2>2
    <2>4. \A h \in GrantIds \ {g} : /\ outcome'[<<"deploy-grant", h>>] = outcome[<<"deploy-grant", h>>]
                                    /\ outcome'[<<"cancel-team", h>>] = outcome[<<"cancel-team", h>>]
      BY <1>1, <1>3, <2>1
    <2>5. kind # "deploy-grant" =>
            /\ v.deployed /\ Sound(v.grant) /\ v.grant.terms = TermsOf[g]
            /\ outcome'[<<"deploy-grant", g>>] = "proper"
      <3>1. kind # "deploy-grant" => v.deployed
        BY <1>2, <2>1, <2>2 DEF Founded, Deploying
      <3>2. kind # "deploy-grant" => outcome'[<<"deploy-grant", g>>] = outcome[<<"deploy-grant", g>>]
        BY <1>1, <1>3, <2>1
      <3> QED BY <2>2, <2>3, <3>1, <3>2 DEF VaultIsSound, VaultIsExplained
    <2>6. kind # "cancel-team" =>
            outcome'[<<"cancel-team", g>>] = outcome[<<"cancel-team", g>>]
      BY <1>1, <1>3, <2>1
    <2>7. v.grant.cancelled => \/ outcome[<<"cancel-team", g>>] = "improper"
                               \/ outcome[<<"cancel-team", g>>] = "proper" /\ v.grant.released > 0
      BY <2>3 DEF VaultIsExplained
    <2>8. CASE kind = "deploy-grant"
      <3>1. ~ v.deployed /\ ~ v.funded /\ v.grant = EmptyGrant
        BY <2>1, <2>3, <2>8 DEF VaultIsExplained, VaultIsSound
      <3>2. outcome'[<<"deploy-grant", g>>] = "proper"
        BY <1>1, <2>1, <2>8 DEF Verified
      <3>3. TermsOf[g] \in Terms /\ _validate(TermsOf[g])
        BY RunAssumption DEF GrantIds
      <3>4. PICK n : n = initialize(EmptyGrant, TermsOf[g])
        OBVIOUS
      <3>5. Sound(n) /\ n.terms = TermsOf[g] /\ ~ n.cancelled /\ n \in Grant /\ n.released \in Nat
        BY <3>3, <3>4, InitializeSound DEF Sound, Grant, Amount
      <3>6. PICK w : w = [NoVault EXCEPT !.deployed = TRUE, !.grant = n]
        OBVIOUS
      <3>7. w = [deployed |-> TRUE, approved |-> FALSE, funded |-> FALSE, grant |-> n]
        BY <3>6 DEF NoVault
      <3>8. w \in Vaults /\ w.deployed /\ w.grant = n
        BY <3>5, <3>7 DEF Vaults
      <3>9. VaultIsSound(w, g)
        BY <3>5, <3>8 DEF VaultIsSound
      <3>10. VaultFollows(v, w)
        BY <3>1, <3>5, <3>8 DEF VaultFollows, EmptyGrant
      <3>11. Change([chain EXCEPT !.vault[g] = w])
        BY <2>1, <2>2, <2>8, <3>4, <3>6, Effects
      <3> QED BY <2>2, <2>4, <3>2, <3>5, <3>8, <3>9, <3>10, <3>11, OneVaultAdvances
    <2>9. CASE kind = "approve"
      <3>1. PICK w : w = [v EXCEPT !.approved = TRUE]
        OBVIOUS
      <3>2. w \in Vaults /\ w.deployed = v.deployed /\ w.funded = v.funded /\ w.grant = v.grant
        BY <3>1 DEF Vaults
      <3>3. VaultIsSound(w, g) /\ VaultFollows(v, w)
        BY <2>3, <2>5, <2>9, <3>2 DEF VaultIsSound, VaultFollows
      <3>4. Change([chain EXCEPT !.vault[g] = w])
        BY <2>1, <2>2, <2>9, <3>1, Effects DEF Change
      <3> QED BY <2>2, <2>4, <2>5, <2>6, <2>7, <2>9, <3>2, <3>3, <3>4, OneVaultAdvances
    <2>10. CASE kind = "fund"
      <3>1. PICK w : w = [v EXCEPT !.funded = TRUE, !.approved = FALSE]
        OBVIOUS
      <3>2. w \in Vaults /\ w.deployed = v.deployed /\ w.funded /\ w.grant = v.grant
        BY <3>1 DEF Vaults
      <3>3. VaultIsSound(w, g) /\ VaultFollows(v, w)
        BY <2>3, <2>5, <2>10, <3>2 DEF VaultIsSound, VaultFollows
      <3>4. Change([chain EXCEPT !.vault[g] = w])
        BY <2>1, <2>2, <2>10, <3>1, Effects DEF Change
      <3> QED BY <2>2, <2>4, <2>5, <2>6, <2>7, <2>10, <3>2, <3>3, <3>4, OneVaultAdvances
    <2>11. CASE kind = "reject-founder-cancel"
      <3>1. Change(chain) /\ chain' = chain
        BY <2>1, <2>11, Effects DEF Change
      <3>2. ASSUME NEW h \in GrantIds
            PROVE  /\ VaultIsSound(chain.vault[h], h) /\ VaultFollows(chain.vault[h], chain.vault[h])
                   /\ VaultIsExplained(h)'
        <4>1. /\ outcome'[<<"deploy-grant", h>>] = outcome[<<"deploy-grant", h>>]
              /\ outcome'[<<"cancel-team", h>>] = outcome[<<"cancel-team", h>>]
          BY <1>1, <1>3, <2>1, <2>11
        <4>2. PICK u \in Vaults : u = chain.vault[h] /\ u.grant.released \in Nat
          BY <1>3
        <4>3. VaultFollows(u, u)
          BY <4>2 DEF VaultFollows
        <4> QED BY <1>3, <3>1, <4>1, <4>2, <4>3 DEF VaultIsExplained
      <3> QED BY <1>2, <3>1, <3>2, ChainAdvances
    <2>12. CASE kind \in {"release", "claim-debt"}
      <3>1. PICK w : w = [v EXCEPT !.grant = release(v.grant, now, available(v.grant, now))]
        OBVIOUS
      <3>2. v.funded /\ ReleaseAllowed(v.grant, now, available(v.grant, now))
        <4>1. CASE kind = "release"
          BY <2>1, <2>2, <3>1, <4>1, EffectOfClaim
        <4>2. CASE kind = "claim-debt"
          BY <2>1, <2>2, <3>1, <4>2, EffectOfClaim
        <4> QED BY <2>12, <4>1, <4>2
      <3>3. /\ w \in Vaults /\ VaultIsSound(w, g) /\ VaultFollows(v, w)
            /\ w.deployed = v.deployed /\ w.grant.cancelled = v.grant.cancelled
            /\ w.grant.released > v.grant.released
        BY <2>2, <3>1, <3>2, ReleaseAdvances
      <3>4. Change([chain EXCEPT !.vault[g] = w])
        <4>1. CASE kind = "release"
          BY <2>1, <2>2, <3>1, <4>1, EffectOfClaim DEF Change
        <4>2. CASE kind = "claim-debt"
          BY <2>1, <2>2, <3>1, <4>2, EffectOfClaim DEF Change
        <4> QED BY <2>12, <4>1, <4>2
      <3>5. w.grant.released \in Nat
        BY <3>3 DEF Vaults, Grant, Amount
      <3>6. w.grant.cancelled => \/ outcome'[<<"cancel-team", g>>] = "improper"
                                 \/ outcome'[<<"cancel-team", g>>] = "proper" /\ w.grant.released > 0
        BY <2>3, <2>6, <2>7, <2>12, <3>3, <3>5
      <3> QED BY <2>2, <2>4, <2>5, <2>12, <3>3, <3>4, <3>6, OneVaultAdvances
    <2>13. CASE kind = "cancel-team"
      <3>1. PICK w : w = [v EXCEPT !.grant = cancel(v.grant, now)]
        OBVIOUS
      <3>2. v.funded /\ CancelAllowed(v.grant, now)
        BY <2>1, <2>2, <2>13, Effects
      <3>3. /\ w \in Vaults /\ VaultIsSound(w, g) /\ VaultFollows(v, w)
            /\ w.deployed = v.deployed /\ w.grant.released = v.grant.released
        BY <2>2, <3>1, <3>2, CancelAdvances
      <3>4. Change([chain EXCEPT !.vault[g] = w])
        BY <2>1, <2>2, <2>13, <3>1, Effects DEF Change
      <3>5. outcome'[<<"cancel-team", g>>] = "proper" => w.grant.released > 0
        BY <1>1, <2>1, <2>2, <2>13, <3>3 DEF Verified
      <3>6. outcome'[<<"cancel-team", g>>] \in {"proper", "improper"}
        BY <1>1, <2>1, <2>13
      <3> QED BY <2>2, <2>4, <2>5, <2>13, <3>3, <3>4, <3>5, <3>6, OneVaultAdvances
    <2> QED BY <2>1, <2>8, <2>9, <2>10, <2>11, <2>12, <2>13
  <1> QED BY <1>4, <1>5

\* The transaction under way is included, and accepted or not.
LEMMA ExecuteKeepsChain ==
  ASSUME RecordInv, ChainInv, Execute
  PROVE  ChainInv'
  <1>1. /\ RecordTyped /\ current # None /\ outcome[current] = "sent"
        /\ UNCHANGED <<now, current, sent>>
    BY DEF RecordInv, Execute, record
  <1>2. PICK op \in Operations : op = current
    BY <1>1 DEF RecordTyped
  <1>3. outcome \in [Operations -> Outcomes]
    BY <1>1 DEF RecordTyped
  <1>4. CASE Accepted(op)
    BY <1>1, <1>2, <1>3, <1>4, AcceptedAdvances DEF Execute
  <1>5. CASE ~ Accepted(op)
    <2>1. outcome' = [outcome EXCEPT ![op] = "reverted"] /\ UNCHANGED <<chain, earlier>>
      BY <1>2, <1>5 DEF Execute
    <2>2. \A o \in Operations : outcome[o] \in {"proper", "improper"} => outcome'[o] = outcome[o]
      BY <1>1, <1>2, <1>3, <2>1
    <2>3. now' \in Time
      BY <1>1 DEF ChainInv
    <2> QED BY <1>1, <2>1, <2>2, <2>3, ToolKeepsChain
  <1> QED BY <1>4, <1>5

\* A beneficiary claims without the tool.
LEMMA OutsideKeepsChain ==
  ASSUME ChainInv, NEW g \in GrantIds, OutsideRelease(g)
  PROVE  ChainInv'
  <1>1. /\ UNCHANGED <<now, current, sent, outcome>>
        /\ Accepted(<<"release", g>>) /\ Change(Effect(<<"release", g>>))
    BY DEF OutsideRelease, record
  <1>2. PICK v \in Vaults : v = chain.vault[g]
    BY DEF ChainInv, Worlds
  <1>3. PICK w : w = [v EXCEPT !.grant = release(v.grant, now, available(v.grant, now))]
    OBVIOUS
  <1>4. v.funded /\ ReleaseAllowed(v.grant, now, available(v.grant, now))
    BY <1>1, <1>2, <1>3, EffectOfClaim
  <1>5. /\ w \in Vaults /\ VaultIsSound(w, g) /\ VaultFollows(v, w)
        /\ w.deployed = v.deployed /\ w.grant.cancelled = v.grant.cancelled
        /\ w.grant.released > v.grant.released
    BY <1>2, <1>3, <1>4, ReleaseAdvances
  <1>6. Change([chain EXCEPT !.vault[g] = w])
    BY <1>1, <1>2, <1>3, EffectOfClaim DEF Change
  <1>7. VaultIsExplained(g)
    BY DEF ChainInv
  <1>8. w.grant.released \in Nat /\ v.grant.released \in Nat
    BY <1>2, <1>5 DEF Vaults, Grant, Amount
  <1>9. /\ w.deployed => outcome'[<<"deploy-grant", g>>] = "proper"
        /\ w.grant.cancelled => \/ outcome'[<<"cancel-team", g>>] = "improper"
                                \/ outcome'[<<"cancel-team", g>>] = "proper" /\ w.grant.released > 0
    BY <1>1, <1>2, <1>5, <1>7, <1>8 DEF VaultIsExplained
  <1> QED BY <1>1, <1>2, <1>5, <1>6, <1>9, OneVaultAdvances
\* The tool's own steps leave the chain.
LEMMA ToolStepKeepsChain ==
  ASSUME RecordInv, ChainInv,
         \/ \E m \in Modes : Begin(m)
         \/ Stop \/ Select \/ Resume \/ Preflight \/ EnterJournal \/ Submit \/ Broadcast \/ Answered
         \/ FindFinal \/ Prove \/ Fail
  PROVE  ChainInv'
  <1>1. now \in Time /\ RecordTyped
    BY DEF ChainInv, RecordInv
  <1>2. CASE \/ \E m \in Modes : Begin(m)
             \/ Stop \/ Resume \/ Preflight \/ EnterJournal \/ Submit \/ Answered
             \/ FindFinal \/ Prove \/ Fail
    <2>1. /\ UNCHANGED <<world, sent, outcome>>
          /\ current' = current \/ current' = None
      BY <1>2 DEF Begin, Stop, Resume, Preflight, EnterJournal, Submit, Answered, FindFinal,
                  Prove, Fail, record
    <2>2. UNCHANGED <<now, chain, earlier>>
      BY <2>1 DEF world
    <2> QED BY <1>1, <2>1, <2>2, NoneIsNoOperation, ToolKeepsChain
  <1>3. CASE Select
    <2>1. PICK s \in Snapshots, op \in Operations : op = selectCustodyOperation(s) /\ current' = op
      BY <1>3 DEF Select, Fresh
    <2>2. Founded(op)
      BY <2>1, TakenUpIsFounded
    <2>3. UNCHANGED <<now, chain, earlier, sent, outcome>>
      BY <1>3 DEF Select, world
    <2> QED BY <1>1, <2>1, <2>2, <2>3, ToolKeepsChain
  <1>4. CASE Broadcast
    <2>1. /\ UNCHANGED <<now, chain, earlier, current>>
          /\ current \in Operations
      BY <1>1, <1>4 DEF Broadcast, world, record, RecordInv, RecordTyped
    <2>2. /\ \A op \in Operations : op # current => sent'[op] = sent[op]
          /\ \A op \in Operations : outcome[op] \in {"proper", "improper"} => outcome'[op] = outcome[op]
      BY <1>1, <1>4 DEF Broadcast, RecordTyped
    <2> QED BY <1>1, <2>1, <2>2, ToolKeepsChain
  <1> QED BY <1>2, <1>3, <1>4

\* Nothing is deployed yet.
LEMMA InitChain ==
  ASSUME Init
  PROVE  ChainInv
  <1>1. now \in Time
    BY WidthAssumption DEF Init, Time
  <1>2. NoVault \in Vaults /\ Genesis \in Worlds
    BY EmptyGrantTyped DEF NoVault, Vaults, Worlds, Genesis
  <1>3. ASSUME NEW g \in GrantIds
        PROVE  /\ VaultIsSound(chain.vault[g], g) /\ VaultIsSound(earlier.state.vault[g], g)
               /\ VaultFollows(earlier.state.vault[g], chain.vault[g])
               /\ VaultIsExplained(g)
    <2>1. chain.vault[g] = NoVault /\ earlier.state.vault[g] = NoVault
      BY DEF Init, Genesis
    <2>2. ~ NoVault.deployed /\ ~ NoVault.funded /\ NoVault.grant = EmptyGrant
      BY DEF NoVault
    <2>3. EmptyGrant.released = 0 /\ ~ EmptyGrant.cancelled
      BY DEF EmptyGrant
    <2> QED BY <2>1, <2>2, <2>3 DEF VaultIsSound, VaultFollows, VaultIsExplained
  <1>4. \A op \in Operations : ~ (op = current \/ sent[op] > 0)
    BY NoneIsNoOperation DEF Init
  <1>5. chain \in Worlds /\ earlier.state \in Worlds
    BY <1>2 DEF Init
  <1> QED BY <1>1, <1>3, <1>4, <1>5 DEF ChainInv

\* What the vaults of the chain, and of the block before, are at any time.
THEOREM ChainInvariant == Spec => [](RecordInv /\ ChainInv)
  <1>1. Init => ChainInv
    BY InitChain
  <1>2. RecordInv /\ ChainInv /\ [Next]_vars => ChainInv'
    <2> SUFFICES ASSUME RecordInv, ChainInv, [Next]_vars
                 PROVE  ChainInv'
      OBVIOUS
    <2>1. CASE \/ \E m \in Modes : Begin(m)
               \/ Stop \/ Select \/ Resume \/ Preflight \/ EnterJournal \/ Submit \/ Broadcast \/ Answered
               \/ FindFinal \/ Prove \/ Fail
      BY <2>1, ToolStepKeepsChain
    <2>2. CASE Execute
      BY <2>2, ExecuteKeepsChain
    <2>3. ASSUME NEW g \in GrantIds, OutsideRelease(g)
          PROVE  ChainInv'
      BY <2>3, OutsideKeepsChain
    <2>4. CASE Tick
      <3>1. UNCHANGED <<chain, earlier, current, sent, outcome>> /\ now' \in Time
        BY <2>4, WidthAssumption DEF Tick, record, ChainInv, Time
      <3> QED BY <3>1, ToolKeepsChain
    <2>5. CASE UNCHANGED vars
      <3>1. UNCHANGED <<chain, earlier, current, sent, outcome>> /\ now' \in Time
        BY <2>5 DEF vars, world, record, ChainInv
      <3> QED BY <3>1, ToolKeepsChain
    <2> QED BY <2>1, <2>2, <2>3, <2>4, <2>5 DEF Next
  <1> QED BY <1>1, <1>2, RecordInvariant, PTL DEF Spec

\* Nothing that vests is sent while some vault is unfunded (custody-run.ts 46).
THEOREM VestingIsFunded == Spec => []FundedBeforeVesting
  <1>1. ChainInv => FundedBeforeVesting
    BY DEF ChainInv, Founded, Vesting, FundedBeforeVesting
  <1> QED BY <1>1, ChainInvariant, PTL

\* "complete" is selected when it is every grant's action, all of them funded.
LEMMA CompleteIsForAll ==
  ASSUME NEW s, selectCustodyOperation(s)[1] = "complete", NEW g \in GrantIds
  PROVE  s.state.vault[g].funded /\ custodyNextAction(s, g) = "complete"
  <1> DEFINE missing == {h \in GrantIds : ~ s.state.vault[h].deployed}
             unfunded == {h \in GrantIds : ~ s.state.vault[h].funded}
             active == {h \in GrantIds : custodyNextAction(s, h) \notin {"wait", "complete"}}
             f == First(Actionable(s))
  <1>1. s.state.token /\ missing = {}
    BY DEF selectCustodyOperation, DeployToken
  <1>2. ~ \E h \in GrantIds : custodyNextAction(s, h) = "throw"
    BY <1>1 DEF selectCustodyOperation
  <1>3. Actionable(s) # {} => custodyNextAction(s, f) = "complete"
    BY <1>1, <1>2 DEF selectCustodyOperation
  <1>4. unfunded = {}
    <2>1. SUFFICES ASSUME unfunded # {}
                   PROVE  FALSE
      OBVIOUS
    <2>2. Actionable(s) = unfunded
      BY <2>1 DEF Actionable
    <2>3. PICK h : h = f
      OBVIOUS
    <2>4. h \in unfunded
      BY <2>1, <2>2, <2>3, FirstIsIn
    <2>5. custodyNextAction(s, h) \in {"throw", "fund", "approve"}
      BY <2>4 DEF custodyNextAction, FundingAction
    <2> QED BY <1>3, <2>1, <2>2, <2>3, <2>5
  <1>5. Actionable(s) = active
    BY <1>4 DEF Actionable
  <1>6. active = {}
    <2>1. SUFFICES ASSUME active # {}
                   PROVE  FALSE
      OBVIOUS
    <2>2. PICK h : h = f
      OBVIOUS
    <2>3. h \in active
      BY <1>5, <2>1, <2>2, FirstIsIn
    <2> QED BY <1>3, <1>5, <2>1, <2>2, <2>3
  <1>7. \A h \in GrantIds : custodyNextAction(s, h) = "complete"
    BY <1>1, <1>2, <1>5, <1>6 DEF selectCustodyOperation
  <1> QED BY <1>4, <1>7

\* "complete" is only answered when the founder was refused and paid, and the
\* team's grant cancelled and paid out (custody-run.ts 48, custody.ts 101-117),
\* even from a block that is one change old.
THEOREM CompleteIsDone == Spec => []CompleteMeansDone
  <1>1. RecordInv /\ ChainInv => CompleteMeansDone
    <2> SUFFICES ASSUME RecordInv, ChainInv, at = "inspect", current = None,
                        NEW s \in Snapshots, selectCustodyOperation(s)[1] = "complete",
                        NEW g \in GrantIds
                 PROVE  LET v == chain.vault[g]
                        IN  /\ v.funded /\ v.grant.released > 0
                            /\ IF TermsOf[g].kind = "Founder"
                                 THEN outcome[<<"reject-founder-cancel", g>>] = "proper"
                                 ELSE v.grant.cancelled /\ v.grant.released = v.grant.frozenEntitlement
      BY DEF CompleteMeansDone
    <2> DEFINE v == chain.vault[g]
               w == s.state.vault[g]
    <2>1. failure = None
      BY DEF RecordInv
    <2>2. /\ <<"reject-founder-cancel", g>> \in Operations /\ <<"cancel-team", g>> \in Operations
      BY DEF Operations
    <2>3. \A op \in Operations : outcome[op] # "none" => outcome[op] = "proper"
      BY <2>1, NoneIsNoOperation DEF RecordInv, SendIsRecorded, RecordTyped
    <2>4. /\ v \in Vaults /\ w \in Vaults /\ VaultIsSound(v, g) /\ VaultIsSound(w, g)
          /\ VaultIsExplained(g)
      BY DEF ChainInv, Worlds, Snapshots
    <2>5. VaultFollows(w, v)
      <3>1. CASE s.state = chain
        <4>1. v.grant.released \in Nat
          BY <2>4 DEF Vaults, Grant, Amount
        <4> QED BY <3>1, <4>1 DEF VaultFollows
      <3>2. CASE s.state = earlier.state
        BY <3>2 DEF ChainInv
      <3> QED BY <3>1, <3>2 DEF Snapshots
    <2>6. /\ w.grant.released \in Nat /\ v.grant.released \in Nat
          /\ v.grant.frozenEntitlement \in Nat
      BY <2>4 DEF Vaults, Grant, Amount
    <2>7. w.funded /\ custodyNextAction(s, g) = "complete"
      BY CompleteIsForAll
    <2>8. CASE TermsOf[g].kind = "Founder"
      <3>1. /\ <<"reject-founder-cancel", g>> \in Range(completed) /\ w.grant.released > 0
        BY <2>7, <2>8 DEF custodyNextAction, FounderAction
      <3>2. outcome[<<"reject-founder-cancel", g>>] = "proper"
        BY <2>2, <3>1 DEF RecordInv, SendIsRecorded
      <3>3. v.funded /\ v.grant.released > 0
        BY <2>5, <2>6, <2>7, <3>1 DEF VaultFollows
      <3> QED BY <2>8, <3>2, <3>3
    <2>9. CASE TermsOf[g].kind # "Founder"
      <3>1. w.grant.cancelled /\ ~ (available(w.grant, s.time) > 0)
        BY <2>7, <2>9 DEF custodyNextAction, TeamAction, Due
      <3>2. /\ v.grant.cancelled /\ v.grant.frozenEntitlement = w.grant.frozenEntitlement
            /\ w.grant.released <= v.grant.released /\ v.funded
        BY <2>5, <2>7, <3>1 DEF VaultFollows
      <3>3. v.grant.frozenEntitlement <= w.grant.released
        BY <2>6, <3>1, <3>2 DEF available, _entitlement
      <3>4. v.grant.released <= v.grant.frozenEntitlement
        BY <2>4, <3>2 DEF VaultIsSound, Sound, _entitlement, EmptyGrant
      <3>5. v.grant.released > 0
        BY <2>2, <2>3, <2>4, <3>2 DEF VaultIsExplained
      <3>6. v.grant.released = v.grant.frozenEntitlement
        BY <2>6, <3>2, <3>3, <3>4
      <3> QED BY <2>9, <3>2, <3>5, <3>6
    <2> QED BY <2>8, <2>9
  <1> QED BY <1>1, ChainInvariant, PTL
----------------------------------------------------------------------------
(* The forward transfer: any number of pairs, nonces that do not overlap,  *)
(* blocks, reorganizations and stops, and however far an endpoint lags.    *)
(* That a send is covered when it executes is decided when it is signed:   *)
(* ForwardInv carries what the process knew then through its awaits and    *)
(* stops, its journals and the blocks.                                     *)

Kinds  == {"approval", "send"}
SendAwaits == {"idle", "approved", "prepared", "sign", "observe", "broadcast", "response"}
SendPhases == {"none", "signed", "submitting", "submitted"} \cup Forward!Terminal
Mined  == [request : Forward!Requests, result : {"succeeded", "reverted", "short"}]

SendTyped ==
  /\ place \in [Pairs -> SendAwaits \X Kinds]
  /\ quoted \in [Pairs -> {"none", "less", "exact"}]
  /\ phase \in [Forward!Requests -> SendPhases]
  /\ requested \subseteq Forward!Requests
  /\ existing \in {"less", "exact"} /\ start \in Nat
  /\ executed \in Seq(Mined) /\ settled \in 0 .. Len(executed)

\* Every block is the transaction of its nonce, and was handed over.
BlocksInOrder ==
  \A i \in 1 .. Len(executed) :
    /\ executed[i].request \in requested
    /\ Forward!Nonce(executed[i].request[1], executed[i].request[2]) = start + i - 1

\* The nonces below n are all used by something that was handed over.
Filled(n) == \A m \in start .. n - 1 : \E q \in requested : Forward!Nonce(q[1], q[2]) = m

\* Only what is journaled is handed over, and only what leaves no gap is signed.
Journaled ==
  /\ \A r \in requested : phase[r] \notin {"none", "signed"}
  /\ \A r \in Forward!Requests : phase[r] # "none" => Filled(Forward!Nonce(r[1], r[2]))

\* The approval of p succeeded in a finalized block.
ApprovedFinally(p) ==
  \E i \in 1 .. settled : executed[i].request = <<p, "approval">> /\ executed[i].result = "succeeded"

\* A send of p is, or may still be, the account's first transaction.
SendsFirst(p) == start = Forward!Nonce(p, "send")

\* What holds of p once it has signed a send: by whatever it was allowed to.
SendIsFounded(p) ==
  phase[<<p, "send">>] # "none" =>
    /\ phase[<<p, "approval">>] # "none" => ApprovedFinally(p)
    /\ SendsFirst(p) => existing = "exact"

\* What p knows at its awaits.
KnowsWhere(p) ==
  LET approval == phase[<<p, "approval">>]
      send == phase[<<p, "send">>]
  IN  /\ place[p][1] \in {"observe", "broadcast", "response"} => phase[<<p, Forward!Step(p)>>] # "none"
      /\ place[p][1] \in {"broadcast", "response"} => phase[<<p, Forward!Step(p)>>] # "signed"
      /\ place[p][1] \in {"observe", "broadcast", "response"} /\ Forward!Step(p) = "approval"
           => send \in {"none", "signed"}
      /\ Forward!At(p, "approved") => send \in {"none", "signed"}
      /\ place[p][1] \in {"prepared", "sign"} => send = "none"
      /\ Forward!At(p, "sign") /\ Forward!Step(p) = "approval" => approval = "none"
      /\ (Forward!At(p, "approved") \/ Forward!At(p, "prepared") \/ (Forward!At(p, "sign") /\ Forward!Step(p) = "send"))
           => (approval # "none" => ApprovedFinally(p))
      /\ place[p][1] \in {"prepared", "sign"} /\ SendsFirst(p) => quoted[p] = existing
      /\ Forward!At(p, "prepared") => quoted[p] \in {"less", "exact"}
      /\ Forward!At(p, "sign") /\ Forward!Step(p) = "send" => quoted[p] = "exact"

ForwardInv ==
  /\ SendTyped /\ BlocksInOrder /\ Journaled
  /\ \A p \in Pairs : SendIsFounded(p) /\ KnowsWhere(p)
  /\ Forward!EverySendIsCovered
----------------------------------------------------------------------------
(* Lemmas.                                                                  *)

\* A process goes to another await; the others stay where they are.
LEMMA Goes ==
  ASSUME SendTyped, NEW p \in Pairs, NEW await \in SendAwaits, NEW step \in Kinds,
         Forward!Goto(p, await, step)
  PROVE  /\ place' \in [Pairs -> SendAwaits \X Kinds]
         /\ place'[p] = <<await, step>> /\ place'[p][1] = await /\ place'[p][2] = step
         /\ \A q \in Pairs \ {p} : place'[q] = place[q]
  BY DEF SendTyped, Forward!Goto

\* A journal is written; the others are not.
LEMMA Records ==
  ASSUME SendTyped, NEW p \in Pairs, NEW step \in Kinds, NEW new \in SendPhases,
         Forward!Record(p, step, new)
  PROVE  /\ phase' \in [Forward!Requests -> SendPhases]
         /\ phase'[<<p, step>>] = new
         /\ \A r \in Forward!Requests \ {<<p, step>>} : phase'[r] = phase[r]
  <1>1. <<p, step>> \in Forward!Requests
    BY DEF Forward!Requests, Kinds
  <1> QED BY <1>1 DEF SendTyped, Forward!Record

\* Where a process stands.
LEMMA Stands ==
  ASSUME SendTyped, NEW p \in Pairs
  PROVE  /\ place[p][1] \in SendAwaits /\ Forward!Step(p) \in Kinds /\ place[p] = <<place[p][1], Forward!Step(p)>>
         /\ \A s \in Kinds : <<p, s>> \in Forward!Requests /\ phase[<<p, s>>] \in SendPhases
  BY DEF SendTyped, Forward!Step, Forward!Requests, Kinds

\* What a step of one process says of the others: nothing.
LEMMA OthersKeep ==
  ASSUME NEW q, SendIsFounded(q), KnowsWhere(q), Forward!Step(q) \in Kinds,
         place'[q] = place[q], quoted'[q] = quoted[q],
         phase'[<<q, "approval">>] = phase[<<q, "approval">>],
         phase'[<<q, "send">>] = phase[<<q, "send">>],
         UNCHANGED <<existing, start, executed, settled>>
  PROVE  SendIsFounded(q)' /\ KnowsWhere(q)'
  <1>1. ApprovedFinally(q)' <=> ApprovedFinally(q)
    BY DEF ApprovedFinally
  <1>2. SendsFirst(q)' <=> SendsFirst(q)
    BY DEF SendsFirst, Forward!Nonce
  <1>3. SendIsFounded(q)'
    BY <1>1, <1>2 DEF SendIsFounded
  <1>4. /\ Forward!At(q, "approved")' <=> Forward!At(q, "approved")
        /\ Forward!At(q, "prepared")' <=> Forward!At(q, "prepared")
        /\ Forward!At(q, "sign")' <=> Forward!At(q, "sign")
        /\ Forward!Step(q)' = Forward!Step(q)
    BY DEF Forward!At, Forward!Step
  <1>5. phase'[<<q, Forward!Step(q)>>] = phase[<<q, Forward!Step(q)>>]
    BY DEF Kinds
  <1>6. KnowsWhere(q)'
    BY <1>1, <1>2, <1>4, <1>5 DEF KnowsWhere, Kinds
  <1> QED BY <1>3, <1>6

\* What a step of a process leaves of the blocks and the journals.
LEMMA ToolKeeps ==
  ASSUME ForwardInv, UNCHANGED <<existing, start, executed, settled>>,
         requested \subseteq requested', requested' \subseteq Forward!Requests,
         phase' \in [Forward!Requests -> SendPhases],
         \A r \in requested' : phase'[r] \notin {"none", "signed"},
         \A r \in Forward!Requests : phase'[r] # "none" => phase[r] # "none" \/ Filled(Forward!Nonce(r[1], r[2])),
         place' \in [Pairs -> SendAwaits \X Kinds], quoted' \in [Pairs -> {"none", "less", "exact"}]
  PROVE  SendTyped' /\ BlocksInOrder' /\ Journaled' /\ Forward!EverySendIsCovered'
  <1>1. SendTyped'
    BY DEF ForwardInv, SendTyped
  <1>2. BlocksInOrder'
    BY DEF ForwardInv, BlocksInOrder, Forward!Nonce
  <1>3. Journaled'
    <2>1. ASSUME NEW n, Filled(n)
          PROVE  Filled(n)'
      BY <2>1 DEF Filled, Forward!Nonce
    <2>2. ASSUME NEW r \in Forward!Requests, phase'[r] # "none"
          PROVE  Filled(Forward!Nonce(r[1], r[2]))'
      <3>1. Filled(Forward!Nonce(r[1], r[2]))
        BY <2>2 DEF ForwardInv, Journaled
      <3>2. PICK n : n = Forward!Nonce(r[1], r[2])
        OBVIOUS
      <3> QED BY <2>1, <3>1, <3>2 DEF Forward!Nonce
    <2> QED BY <2>2 DEF Journaled
  <1>4. Forward!EverySendIsCovered'
    BY DEF ForwardInv, Forward!EverySendIsCovered
  <1> QED BY <1>1, <1>2, <1>3, <1>4
\* One process takes a step: what it must establish is about itself.
LEMMA ToolStep ==
  ASSUME ForwardInv, NEW p \in Pairs, UNCHANGED <<existing, start, executed, settled>>,
         requested \subseteq requested', requested' \subseteq Forward!Requests,
         phase' \in [Forward!Requests -> SendPhases],
         \A r \in requested' : phase'[r] \notin {"none", "signed"},
         \A r \in Forward!Requests : phase'[r] # "none" => phase[r] # "none" \/ Filled(Forward!Nonce(r[1], r[2])),
         place' \in [Pairs -> SendAwaits \X Kinds],
         quoted' \in [Pairs -> {"none", "less", "exact"}],
         \A q \in Pairs \ {p} : /\ place'[q] = place[q] /\ quoted'[q] = quoted[q]
                                /\ \A s \in Kinds : phase'[<<q, s>>] = phase[<<q, s>>],
         SendIsFounded(p)', KnowsWhere(p)'
  PROVE  ForwardInv'
  <1>1. SendTyped' /\ BlocksInOrder' /\ Journaled' /\ Forward!EverySendIsCovered'
    BY ToolKeeps
  <1>2. ASSUME NEW q \in Pairs \ {p}
        PROVE  SendIsFounded(q)' /\ KnowsWhere(q)'
    <2>1. SendIsFounded(q) /\ KnowsWhere(q) /\ Forward!Step(q) \in Kinds
      BY Stands DEF ForwardInv
    <2>2. /\ phase'[<<q, "approval">>] = phase[<<q, "approval">>]
          /\ phase'[<<q, "send">>] = phase[<<q, "send">>]
      BY DEF Kinds
    <2> QED BY <2>1, <2>2, OthersKeep
  <1> QED BY <1>1, <1>2 DEF ForwardInv

\* Facts of the blocks are those of before.
LEMMA BlocksKept ==
  ASSUME NEW p, UNCHANGED <<existing, start, executed, settled>>
  PROVE  /\ ApprovedFinally(p)' <=> ApprovedFinally(p)
         /\ SendsFirst(p)' <=> SendsFirst(p)
  BY DEF ApprovedFinally, SendsFirst, Forward!Nonce

\* A step that writes no journal.
LEMMA SilentStep ==
  ASSUME ForwardInv, NEW p \in Pairs, NEW await \in SendAwaits, NEW step \in Kinds,
         Forward!Goto(p, await, step),
         UNCHANGED <<phase, requested, existing, start, executed, settled>>,
         quoted' \in [Pairs -> {"none", "less", "exact"}],
         \A q \in Pairs \ {p} : quoted'[q] = quoted[q],
         KnowsWhere(p)'
  PROVE  ForwardInv'
  <1>1. SendTyped
    BY DEF ForwardInv
  <1>2. /\ place' \in [Pairs -> SendAwaits \X Kinds] /\ \A q \in Pairs \ {p} : place'[q] = place[q]
    BY <1>1, Goes
  <1>3. SendIsFounded(p)'
    <2>1. SendIsFounded(p)
      BY DEF ForwardInv
    <2> QED BY <2>1, BlocksKept DEF SendIsFounded
  <1>4. /\ requested \subseteq Forward!Requests /\ phase \in [Forward!Requests -> SendPhases]
        /\ \A r \in requested : phase[r] \notin {"none", "signed"}
    BY DEF ForwardInv, SendTyped, Journaled
  <1>5. \A q \in Pairs \ {p}, s \in Kinds : phase'[<<q, s>>] = phase[<<q, s>>]
    OBVIOUS
  <1> QED BY <1>2, <1>3, <1>4, <1>5, ToolStep

\* Nonces are natural numbers, and no two transactions have the same.
LEMMA SameNonce ==
  ASSUME Forward!PairsAssumption, NEW p \in Pairs, NEW q \in Pairs, NEW s \in Kinds, NEW t \in Kinds
  PROVE  /\ Forward!Nonce(p, s) \in Nat /\ Forward!Nonce(q, t) \in Nat
         /\ Forward!Nonce(p, s) = Forward!Nonce(q, t) => p = q /\ s = t
         /\ Forward!Nonce(p, "send") = Forward!Nonce(p, "approval") + 1
  <1>1. ApprovalNonce[p] \in Nat /\ ApprovalNonce[q] \in Nat
    BY DEF Forward!PairsAssumption
  <1>2. p # q => ApprovalNonce[p] - ApprovalNonce[q] \notin {-1, 0, 1}
    BY DEF Forward!PairsAssumption
  <1> QED BY <1>1, <1>2 DEF Forward!Nonce, Kinds

\* Before a pair that can only send at the first nonce has sent, there is no
\* block, and every endpoint shows the allowance there was.
LEMMA FirstSeesExisting ==
  ASSUME Forward!PairsAssumption, ForwardInv, NEW p \in Pairs, SendsFirst(p),
         phase[<<p, "send">>] \in {"none", "signed"}
  PROVE  Forward!Allowances = {existing}
  <1>1. executed \in Seq(Mined) /\ settled \in 0 .. Len(executed) /\ Len(executed) \in Nat
        /\ start \in Nat
    BY DEF ForwardInv, SendTyped
  <1>2. CASE Len(executed) # 0
    <2>1. 1 \in 1 .. Len(executed)
      BY <1>1, <1>2
    <2>2. PICK r \in requested : r = executed[1].request
      BY <2>1 DEF ForwardInv, BlocksInOrder
    <2>3. Forward!Nonce(r[1], r[2]) = start + 1 - 1
      BY <2>1, <2>2 DEF ForwardInv, BlocksInOrder
    <2>4. r \in Forward!Requests /\ r[1] \in Pairs /\ r[2] \in Kinds /\ r = <<r[1], r[2]>>
      BY <2>2 DEF ForwardInv, SendTyped, Forward!Requests, Kinds
    <2>5. Forward!Nonce(r[1], r[2]) = Forward!Nonce(p, "send")
      BY <1>1, <2>3 DEF SendsFirst
    <2>6. r[1] = p /\ r[2] = "send"
      BY <2>4, <2>5, SameNonce DEF Kinds
    <2>7. r = <<p, "send">>
      BY <2>4, <2>6
    <2> QED BY <2>2, <2>7 DEF ForwardInv, Journaled
  <1>3. CASE Len(executed) = 0
    <2>1. settled = 0 /\ settled .. Len(executed) = {0}
      BY <1>1, <1>3
    <2>2. Forward!Allowance(0) = existing
      BY DEF Forward!Allowance
    <2> QED BY <2>1, <2>2 DEF Forward!Allowances
  <1> QED BY <1>2, <1>3
----------------------------------------------------------------------------
(* The steps of a process.                                                 *)

\* A run begins.
LEMMA BeginKeeps ==
  ASSUME ForwardInv, NEW p \in Pairs, Forward!Begin(p)
  PROVE  ForwardInv'
  <1>1. SendTyped /\ KnowsWhere(p) /\ SendIsFounded(p)
    BY DEF ForwardInv
  <1>2. UNCHANGED <<quoted, phase, requested, existing, start, executed, settled>>
    BY DEF Forward!Begin, Forward!Unchanged
  <1>3. quoted' \in [Pairs -> {"none", "less", "exact"}]
    BY <1>1, <1>2 DEF SendTyped
  <1>4. /\ phase[<<p, "approval">>] \in SendPhases /\ phase[<<p, "send">>] \in SendPhases
    BY <1>1, Stands DEF Kinds
  <1>5. PICK await \in SendAwaits, step \in Kinds :
          /\ Forward!Goto(p, await, step)
          /\ \/ await = "observe" /\ step = "send" /\ phase[<<p, "send">>] \notin {"none", "signed"}
             \/ /\ await = "observe" /\ step = "approval" /\ phase[<<p, "approval">>] # "none"
                /\ phase[<<p, "send">>] \in {"none", "signed"}
             \/ /\ await = "approved" /\ step = "send" /\ phase[<<p, "approval">>] = "none"
                /\ phase[<<p, "send">>] \in {"none", "signed"}
    BY DEF Forward!Begin, SendAwaits, Kinds
  <1>6. place'[p][1] = await /\ place'[p][2] = step
    BY <1>1, <1>5, Goes
  <1>7. KnowsWhere(p)'
    BY <1>2, <1>5, <1>6 DEF KnowsWhere, Forward!At, Forward!Step
  <1> QED BY <1>2, <1>3, <1>5, <1>7, SilentStep

\* A run stops wherever it stands.
LEMMA StopKeeps ==
  ASSUME ForwardInv, NEW p \in Pairs, Forward!Stop(p)
  PROVE  ForwardInv'
  <1>1. SendTyped
    BY DEF ForwardInv
  <1>2. /\ Forward!Goto(p, "idle", "send") /\ "idle" \in SendAwaits /\ "send" \in Kinds
        /\ UNCHANGED <<quoted, phase, requested, existing, start, executed, settled>>
    BY DEF Forward!Stop, Forward!Leave, Forward!Unchanged, SendAwaits, Kinds
  <1>3. quoted' \in [Pairs -> {"none", "less", "exact"}]
    BY <1>1, <1>2 DEF SendTyped
  <1>4. place'[p][1] = "idle" /\ place'[p][2] = "send"
    BY <1>1, <1>2, Goes
  <1>5. KnowsWhere(p)'
    BY <1>4 DEF KnowsWhere, Forward!At, Forward!Step
  <1> QED BY <1>2, <1>3, <1>5, SilentStep

\* No approval is outstanding: the allowance is looked at.
LEMMA ApprovedKeeps ==
  ASSUME Forward!PairsAssumption, ForwardInv, NEW p \in Pairs, Forward!Approved(p)
  PROVE  ForwardInv'
  <1>1. SendTyped /\ KnowsWhere(p) /\ SendIsFounded(p)
    BY DEF ForwardInv
  <1>2. /\ UNCHANGED <<phase, requested, existing, start, executed, settled>>
        /\ phase[<<p, "send">>] \in {"none", "signed"}
        /\ phase[<<p, "approval">>] # "none" => ApprovedFinally(p)
    BY <1>1 DEF Forward!Approved, Forward!Unchanged, KnowsWhere, Forward!At
  <1>3. (ApprovedFinally(p)' <=> ApprovedFinally(p)) /\ (SendsFirst(p)' <=> SendsFirst(p))
    BY <1>2, BlocksKept
  <1>4. CASE phase[<<p, "send">>] = "signed"
    <2>1. /\ Forward!Goto(p, "observe", "send") /\ "observe" \in SendAwaits /\ "send" \in Kinds
          /\ quoted' = quoted
      BY <1>4 DEF Forward!Approved, Forward!Unchanged, SendAwaits, Kinds
    <2>2. place'[p][1] = "observe" /\ place'[p][2] = "send"
      BY <1>1, <2>1, Goes
    <2>3. KnowsWhere(p)'
      BY <1>2, <1>4, <2>2 DEF KnowsWhere, Forward!At, Forward!Step
    <2>4. quoted' \in [Pairs -> {"none", "less", "exact"}]
      BY <1>1, <2>1 DEF SendTyped
    <2> QED BY <1>2, <2>1, <2>3, <2>4, SilentStep
  <1>5. CASE phase[<<p, "send">>] = "none"
    <2>1. PICK a \in Forward!Allowances :
            /\ quoted' = [quoted EXCEPT ![p] = a] /\ Forward!Goto(p, "prepared", "send")
      BY <1>5 DEF Forward!Approved
    <2>2. a \in {"less", "exact"}
      <3>1. \A height : Forward!Allowance(height) \in {"less", "exact"}
        BY <1>1 DEF Forward!Allowance, SendTyped
      <3> QED BY <3>1 DEF Forward!Allowances
    <2>3. /\ quoted' \in [Pairs -> {"none", "less", "exact"}] /\ quoted'[p] = a
          /\ \A q \in Pairs \ {p} : quoted'[q] = quoted[q]
      BY <1>1, <2>1, <2>2 DEF SendTyped
    <2>4. SendsFirst(p) => a = existing
      BY <1>2, <2>1, FirstSeesExisting
    <2>5. place'[p][1] = "prepared" /\ place'[p][2] = "send" /\ "prepared" \in SendAwaits /\ "send" \in Kinds
      BY <1>1, <2>1, Goes DEF SendAwaits, Kinds
    <2>6. KnowsWhere(p)'
      BY <1>2, <1>3, <1>5, <2>2, <2>3, <2>4, <2>5 DEF KnowsWhere, Forward!At, Forward!Step
    <2> QED BY <1>2, <2>1, <2>3, <2>5, <2>6, SilentStep
  <1> QED BY <1>2, <1>4, <1>5

\* The route is prepared, for the allowance it was asked with.
LEMMA PreparedKeeps ==
  ASSUME ForwardInv, NEW p \in Pairs, Forward!Prepared(p)
  PROVE  ForwardInv'
  <1>1. SendTyped /\ KnowsWhere(p) /\ SendIsFounded(p)
    BY DEF ForwardInv
  <1>2. /\ UNCHANGED <<quoted, phase, requested, existing, start, executed, settled>>
        /\ phase[<<p, "send">>] = "none" /\ place[p][1] = "prepared"
        /\ phase[<<p, "approval">>] # "none" => ApprovedFinally(p)
        /\ SendsFirst(p) => quoted[p] = existing
        /\ quoted[p] \in {"less", "exact"}
    BY <1>1 DEF Forward!Prepared, Forward!Unchanged, KnowsWhere, Forward!At
  <1>3. (ApprovedFinally(p)' <=> ApprovedFinally(p)) /\ (SendsFirst(p)' <=> SendsFirst(p))
    BY <1>2, BlocksKept
  <1>4. PICK step \in Kinds :
          /\ Forward!Goto(p, "sign", step)
          /\ step = "approval" => phase[<<p, "approval">>] = "none"
          /\ step = "send" => quoted[p] = "exact"
    BY <1>2 DEF Forward!Prepared, Kinds
  <1>5. place'[p][1] = "sign" /\ place'[p][2] = step /\ "sign" \in SendAwaits
    BY <1>1, <1>4, Goes DEF SendAwaits
  <1>6. KnowsWhere(p)'
    BY <1>2, <1>3, <1>4, <1>5 DEF KnowsWhere, Forward!At, Forward!Step
  <1>7. quoted' \in [Pairs -> {"none", "less", "exact"}]
    BY <1>1, <1>2 DEF SendTyped
  <1> QED BY <1>2, <1>4, <1>5, <1>6, <1>7, SilentStep

\* What is signed leaves no gap: every nonce below is mined, or in the pool.
LEMMA NextIsFilled ==
  ASSUME ForwardInv, NEW n \in Forward!PendingCounts
  PROVE  Filled(n)
  <1>1. start \in Nat /\ Len(executed) \in Nat /\ n \in Nat
    BY DEF ForwardInv, SendTyped, Forward!PendingCounts
  <1>2. SUFFICES ASSUME NEW m \in start .. n - 1
                 PROVE  \E q \in requested : Forward!Nonce(q[1], q[2]) = m
    BY DEF Filled
  <1>3. CASE m >= Forward!NextNonce
    <2>1. m \in Forward!NextNonce .. n - 1
      BY <1>1, <1>3 DEF Forward!NextNonce
    <2> QED BY <2>1 DEF Forward!PendingCounts
  <1>4. CASE m < Forward!NextNonce
    <2>1. m - start + 1 \in 1 .. Len(executed) /\ start + (m - start + 1) - 1 = m
      BY <1>1, <1>4 DEF Forward!NextNonce
    <2>2. PICK i \in 1 .. Len(executed) : i = m - start + 1
      BY <2>1
    <2>3. executed[i].request \in requested
          /\ Forward!Nonce(executed[i].request[1], executed[i].request[2]) = m
      BY <2>1, <2>2 DEF ForwardInv, BlocksInOrder
    <2> QED BY <2>3
  <1> QED BY <1>1, <1>3, <1>4 DEF Forward!NextNonce

\* A signature is recorded.
LEMMA SignKeeps ==
  ASSUME Forward!PairsAssumption, ForwardInv, NEW p \in Pairs, Forward!Sign(p)
  PROVE  ForwardInv'
  <1> DEFINE step == Forward!Step(p)
  <1>1. SendTyped /\ KnowsWhere(p) /\ SendIsFounded(p) /\ step \in Kinds
    BY Stands DEF ForwardInv
  <1>2. /\ UNCHANGED <<quoted, requested, existing, start, executed, settled>>
        /\ place[p][1] = "sign" /\ phase[<<p, "send">>] = "none"
        /\ Forward!Record(p, step, "signed") /\ Forward!Goto(p, "observe", step)
        /\ "observe" \in SendAwaits /\ "signed" \in SendPhases
        /\ step = "approval" => phase[<<p, "approval">>] = "none"
        /\ step = "send" /\ phase[<<p, "approval">>] # "none" => ApprovedFinally(p)
        /\ step = "send" /\ SendsFirst(p) => existing = "exact"
    BY <1>1 DEF Forward!Sign, KnowsWhere, Forward!At, SendAwaits, SendPhases
  <1>3. (ApprovedFinally(p)' <=> ApprovedFinally(p)) /\ (SendsFirst(p)' <=> SendsFirst(p))
    BY <1>2, BlocksKept
  <1>4. /\ phase' \in [Forward!Requests -> SendPhases] /\ phase'[<<p, step>>] = "signed"
        /\ \A r \in Forward!Requests \ {<<p, step>>} : phase'[r] = phase[r]
    BY <1>1, <1>2, Records
  <1>5. /\ place' \in [Pairs -> SendAwaits \X Kinds] /\ \A q \in Pairs \ {p} : place'[q] = place[q]
        /\ place'[p][1] = "observe" /\ place'[p][2] = step
    BY <1>1, <1>2, Goes
  <1>6. /\ phase[<<p, step>>] = "none" /\ <<p, step>> \in Forward!Requests
        /\ <<p, "send">> \in Forward!Requests /\ <<p, "approval">> \in Forward!Requests
    BY <1>1, <1>2 DEF Kinds, Forward!Requests
  <1>7. \A r \in requested' : phase'[r] \notin {"none", "signed"}
    BY <1>2, <1>4, <1>6 DEF ForwardInv, Journaled, SendTyped
  <1>8. Filled(Forward!Nonce(p, step))
    BY NextIsFilled DEF Forward!Sign, Forward!NonceIsNext
  <1>9. \A r \in Forward!Requests : phase'[r] # "none" => phase[r] # "none" \/ Filled(Forward!Nonce(r[1], r[2]))
    BY <1>4, <1>8
  <1>10. \A q \in Pairs \ {p}, s \in Kinds : phase'[<<q, s>>] = phase[<<q, s>>]
    BY <1>4 DEF Forward!Requests, Kinds
  <1>11. CASE step = "approval"
    <2>1. phase'[<<p, "send">>] = "none" /\ phase'[<<p, "approval">>] = "signed"
      BY <1>2, <1>4, <1>6, <1>11
    <2>2. SendIsFounded(p)'
      BY <2>1 DEF SendIsFounded
    <2>3. KnowsWhere(p)'
      BY <1>5, <1>11, <2>1 DEF KnowsWhere, Forward!At, Forward!Step
    <2> QED BY <2>2, <2>3, <1>2, <1>4, <1>5, <1>7, <1>9, <1>10, ToolStep DEF ForwardInv, SendTyped
  <1>12. CASE step = "send"
    <2>1. phase'[<<p, "send">>] = "signed" /\ phase'[<<p, "approval">>] = phase[<<p, "approval">>]
      BY <1>2, <1>4, <1>6, <1>12
    <2>2. SendIsFounded(p)'
      BY <1>2, <1>3, <1>12, <2>1 DEF SendIsFounded
    <2>3. KnowsWhere(p)'
      BY <1>5, <1>12, <2>1 DEF KnowsWhere, Forward!At, Forward!Step
    <2> QED BY <2>2, <2>3, <1>2, <1>4, <1>5, <1>7, <1>9, <1>10, ToolStep DEF ForwardInv, SendTyped
  <1> QED BY <1>1, <1>11, <1>12 DEF Kinds
\* What is true of a signed journal stays true of it when it goes on.
LEMMA GoesOn ==
  ASSUME ForwardInv, NEW p \in Pairs, NEW step \in Kinds, NEW new \in SendPhases \ {"none",
         "signed"},
         phase[<<p, step>>] # "none", Forward!Record(p, step, new),
         UNCHANGED <<requested, existing, start, executed, settled>>
  PROVE  /\ phase' \in [Forward!Requests -> SendPhases] /\ phase'[<<p, step>>] = new
         /\ \A r \in Forward!Requests \ {<<p, step>>} : phase'[r] = phase[r]
         /\ \A q \in Pairs \ {p}, s \in Kinds : phase'[<<q, s>>] = phase[<<q, s>>]
         /\ SendIsFounded(p)'
         /\ \A r \in requested' : phase'[r] \notin {"none", "signed"}
         /\ \A r \in Forward!Requests : phase'[r] # "none" => phase[r] # "none" \/ Filled(Forward!Nonce(r[1], r[2]))
  <1>1. SendTyped /\ SendIsFounded(p)
    BY DEF ForwardInv
  <1>2. /\ phase' \in [Forward!Requests -> SendPhases] /\ phase'[<<p, step>>] = new
        /\ \A r \in Forward!Requests \ {<<p, step>>} : phase'[r] = phase[r]
    BY <1>1, Records
  <1>3. \A q \in Pairs \ {p}, s \in Kinds : phase'[<<q, s>>] = phase[<<q, s>>]
    BY <1>2 DEF Forward!Requests, Kinds
  <1>4. /\ (ApprovedFinally(p)' <=> ApprovedFinally(p)) /\ (SendsFirst(p)' <=> SendsFirst(p))
    BY BlocksKept
  <1>5. /\ phase'[<<p, "send">>] # "none" <=> phase[<<p, "send">>] # "none"
        /\ phase'[<<p, "approval">>] # "none" <=> phase[<<p, "approval">>] # "none"
    BY <1>2 DEF Forward!Requests, Kinds
  <1>6. SendIsFounded(p)'
    BY <1>1, <1>4, <1>5 DEF SendIsFounded
  <1>7. \A r \in requested' : phase'[r] \notin {"none", "signed"}
    BY <1>2 DEF ForwardInv, Journaled, SendTyped
  <1>8. \A r \in Forward!Requests : phase'[r] # "none" => phase[r] # "none" \/ Filled(Forward!Nonce(r[1], r[2]))
    BY <1>2
  <1> QED BY <1>2, <1>3, <1>6, <1>7, <1>8

\* A signed transaction is about to be handed over.
LEMMA SubmitKeeps ==
  ASSUME ForwardInv, NEW p \in Pairs, Forward!Submit(p)
  PROVE  ForwardInv'
  <1> DEFINE step == Forward!Step(p)
  <1>1. SendTyped /\ KnowsWhere(p) /\ step \in Kinds
    BY Stands DEF ForwardInv
  <1>2. /\ UNCHANGED <<quoted, requested, existing, start, executed, settled>>
        /\ place[p][1] = "observe" /\ phase[<<p, step>>] # "none"
        /\ Forward!Record(p, step, "submitting") /\ Forward!Goto(p, "broadcast", step)
        /\ "broadcast" \in SendAwaits /\ "submitting" \in SendPhases \ {"none", "signed"}
        /\ step = "approval" => phase[<<p, "send">>] \in {"none", "signed"}
    BY <1>1 DEF Forward!Submit, KnowsWhere, Forward!At, SendAwaits, SendPhases
  <1>3. /\ place' \in [Pairs -> SendAwaits \X Kinds] /\ \A q \in Pairs \ {p} : place'[q] = place[q]
        /\ place'[p][1] = "broadcast" /\ place'[p][2] = step
    BY <1>1, <1>2, Goes
  <1>4. /\ phase' \in [Forward!Requests -> SendPhases] /\ phase'[<<p, step>>] = "submitting"
        /\ \A r \in Forward!Requests \ {<<p, step>>} : phase'[r] = phase[r]
        /\ \A q \in Pairs \ {p}, s \in Kinds : phase'[<<q, s>>] = phase[<<q, s>>]
        /\ SendIsFounded(p)'
        /\ \A r \in requested' : phase'[r] \notin {"none", "signed"}
        /\ \A r \in Forward!Requests : phase'[r] # "none" => phase[r] # "none" \/ Filled(Forward!Nonce(r[1], r[2]))
    BY <1>1, <1>2, GoesOn
  <1>5. step = "approval" => phase'[<<p, "send">>] = phase[<<p, "send">>]
    BY <1>4 DEF Forward!Requests, Kinds
  <1>6. KnowsWhere(p)'
    BY <1>2, <1>3, <1>4, <1>5 DEF KnowsWhere, Forward!At, Forward!Step
  <1> QED BY <1>1, <1>2, <1>3, <1>4, <1>6, ToolStep DEF SendTyped

\* It is handed over.
LEMMA BroadcastKeeps ==
  ASSUME ForwardInv, NEW p \in Pairs, Forward!Broadcast(p)
  PROVE  ForwardInv'
  <1> DEFINE step == Forward!Step(p)
  <1>1. SendTyped /\ KnowsWhere(p) /\ SendIsFounded(p) /\ step \in Kinds /\ <<p, step>> \in Forward!Requests
    BY Stands DEF ForwardInv
  <1>2. /\ UNCHANGED <<quoted, phase, existing, start, executed, settled>>
        /\ requested' = requested \cup {<<p, step>>} /\ Forward!Goto(p, "response", step)
        /\ "response" \in SendAwaits /\ phase[<<p, step>>] \notin {"none", "signed"}
        /\ step = "approval" => phase[<<p, "send">>] \in {"none", "signed"}
    BY <1>1 DEF Forward!Broadcast, KnowsWhere, Forward!At, SendAwaits
  <1>3. /\ place' \in [Pairs -> SendAwaits \X Kinds] /\ \A q \in Pairs \ {p} : place'[q] = place[q]
        /\ place'[p][1] = "response" /\ place'[p][2] = step
    BY <1>1, <1>2, Goes
  <1>4. \A r \in requested' : phase'[r] \notin {"none", "signed"}
    BY <1>2 DEF ForwardInv, Journaled
  <1>5. SendIsFounded(p)'
    BY <1>1, <1>2, BlocksKept DEF SendIsFounded
  <1>6. KnowsWhere(p)'
    BY <1>2, <1>3 DEF KnowsWhere, Forward!At, Forward!Step
  <1>7. /\ requested \subseteq requested' /\ requested' \subseteq Forward!Requests
        /\ phase' \in [Forward!Requests -> SendPhases] /\ quoted' \in [Pairs -> {"none", "less", "exact"}]
    BY <1>1, <1>2 DEF SendTyped
  <1> QED BY <1>2, <1>3, <1>4, <1>5, <1>6, <1>7, ToolStep

\* The network answered, and the run ends.
LEMMA AnsweredKeeps ==
  ASSUME ForwardInv, NEW p \in Pairs, Forward!Answered(p)
  PROVE  ForwardInv'
  <1> DEFINE step == Forward!Step(p)
  <1>1. SendTyped /\ KnowsWhere(p) /\ step \in Kinds
    BY Stands DEF ForwardInv
  <1>2. /\ UNCHANGED <<quoted, requested, existing, start, executed, settled>>
        /\ phase[<<p, step>>] # "none"
        /\ Forward!Record(p, step, "submitted") /\ Forward!Goto(p, "idle", "send")
        /\ "idle" \in SendAwaits /\ "send" \in Kinds /\ "submitted" \in SendPhases \ {"none", "signed"}
    BY <1>1 DEF Forward!Answered, Forward!Leave, KnowsWhere, Forward!At, SendAwaits, SendPhases,
                Kinds
  <1>3. /\ place' \in [Pairs -> SendAwaits \X Kinds] /\ \A q \in Pairs \ {p} : place'[q] = place[q]
        /\ place'[p][1] = "idle"
    BY <1>1, <1>2, Goes
  <1>4. /\ phase' \in [Forward!Requests -> SendPhases]
        /\ \A q \in Pairs \ {p}, s \in Kinds : phase'[<<q, s>>] = phase[<<q, s>>]
        /\ SendIsFounded(p)'
        /\ \A r \in requested' : phase'[r] \notin {"none", "signed"}
        /\ \A r \in Forward!Requests : phase'[r] # "none" => phase[r] # "none" \/ Filled(Forward!Nonce(r[1], r[2]))
    BY <1>1, <1>2, GoesOn
  <1>5. KnowsWhere(p)'
    BY <1>3 DEF KnowsWhere, Forward!At
  <1> QED BY <1>1, <1>2, <1>3, <1>4, <1>5, ToolStep DEF SendTyped

\* The outcome is final.
LEMMA FindFinalKeeps ==
  ASSUME ForwardInv, NEW p \in Pairs, Forward!FindFinal(p)
  PROVE  ForwardInv'
  <1> DEFINE step == Forward!Step(p)
  <1>1. SendTyped /\ KnowsWhere(p) /\ step \in Kinds
    BY Stands DEF ForwardInv
  <1>2. /\ UNCHANGED <<quoted, requested, existing, start, executed, settled>>
        /\ phase[<<p, step>>] # "none"
        /\ step = "approval" => phase[<<p, "send">>] \in {"none", "signed"}
    BY <1>1 DEF Forward!FindFinal, KnowsWhere, Forward!At
  <1>3. PICK status \in Forward!Outcome(p, step) :
          /\ Forward!Record(p, step, status)
          /\ IF step = "approval" /\ status = "succeeded" THEN Forward!Goto(p, "approved", "send")
             ELSE Forward!Goto(p, "idle", "send")
    BY DEF Forward!FindFinal, Forward!Leave
  <1>4. status \in SendPhases \ {"none", "signed"}
    BY DEF Forward!Outcome, SendPhases, Forward!Terminal
  <1>5. step = "approval" /\ status = "succeeded" => ApprovedFinally(p)
    BY DEF Forward!Outcome, ApprovedFinally
  <1>6. /\ phase' \in [Forward!Requests -> SendPhases]
        /\ \A r \in Forward!Requests \ {<<p, step>>} : phase'[r] = phase[r]
        /\ \A q \in Pairs \ {p}, s \in Kinds : phase'[<<q, s>>] = phase[<<q, s>>]
        /\ SendIsFounded(p)'
        /\ \A r \in requested' : phase'[r] \notin {"none", "signed"}
        /\ \A r \in Forward!Requests : phase'[r] # "none" => phase[r] # "none" \/ Filled(Forward!Nonce(r[1], r[2]))
    BY <1>1, <1>2, <1>3, <1>4, GoesOn
  <1>7. quoted' \in [Pairs -> {"none", "less", "exact"}] /\ requested \subseteq Forward!Requests
    BY <1>1, <1>2 DEF SendTyped
  <1>8. "approved" \in SendAwaits /\ "idle" \in SendAwaits /\ "send" \in Kinds
    BY DEF SendAwaits, Kinds
  <1>9. CASE step = "approval" /\ status = "succeeded"
    <2>1. /\ place' \in [Pairs -> SendAwaits \X Kinds] /\ \A q \in Pairs \ {p} : place'[q] = place[q]
          /\ place'[p][1] = "approved"
      BY <1>1, <1>3, <1>8, <1>9, Goes
    <2>2. phase'[<<p, "send">>] = phase[<<p, "send">>]
      BY <1>6, <1>9 DEF Forward!Requests, Kinds
    <2>3. ApprovedFinally(p)'
      BY <1>2, <1>5, <1>9, BlocksKept
    <2>4. KnowsWhere(p)'
      BY <1>2, <1>9, <2>1, <2>2, <2>3 DEF KnowsWhere, Forward!At
    <2> QED BY <1>2, <1>6, <1>7, <2>1, <2>4, ToolStep
  <1>10. CASE ~ (step = "approval" /\ status = "succeeded")
    <2>1. /\ place' \in [Pairs -> SendAwaits \X Kinds] /\ \A q \in Pairs \ {p} : place'[q] = place[q]
          /\ place'[p][1] = "idle"
      BY <1>1, <1>3, <1>8, <1>10, Goes
    <2>2. KnowsWhere(p)'
      BY <2>1 DEF KnowsWhere, Forward!At
    <2> QED BY <1>2, <1>6, <1>7, <2>1, <2>2, ToolStep
  <1> QED BY <1>9, <1>10----------------------------------------------------------------------------
(* The steps of the chain.                                                 *)

\* A step of the chain leaves the processes what they know, as long as it
\* drops no approval that is final.
LEMMA ChainKeeps ==
  ASSUME ForwardInv, UNCHANGED <<place, quoted, phase, requested, existing, start>>,
         executed' \in Seq(Mined), settled' \in 0 .. Len(executed'),
         BlocksInOrder', Forward!EverySendIsCovered',
         \A p \in Pairs : ApprovedFinally(p) => ApprovedFinally(p)'
  PROVE  ForwardInv'
  <1>1. SendTyped'
    BY DEF ForwardInv, SendTyped
  <1>2. Journaled'
    <2>1. ASSUME NEW r \in Forward!Requests, phase'[r] # "none"
          PROVE  Filled(Forward!Nonce(r[1], r[2]))'
      BY <2>1 DEF ForwardInv, Journaled, Filled, Forward!Nonce
    <2> QED BY <2>1 DEF ForwardInv, Journaled
  <1>3. ASSUME NEW p \in Pairs
        PROVE  SendIsFounded(p)' /\ KnowsWhere(p)'
    <2>1. SendIsFounded(p) /\ KnowsWhere(p)
      BY DEF ForwardInv
    <2>2. SendsFirst(p)' <=> SendsFirst(p)
      BY DEF SendsFirst, Forward!Nonce
    <2>3. ApprovedFinally(p) => ApprovedFinally(p)'
      OBVIOUS
    <2>4. SendIsFounded(p)'
      BY <2>1, <2>2, <2>3 DEF SendIsFounded
    <2>5. /\ Forward!At(p, "approved")' <=> Forward!At(p, "approved")
          /\ Forward!At(p, "prepared")' <=> Forward!At(p, "prepared")
          /\ Forward!At(p, "sign")' <=> Forward!At(p, "sign")
          /\ Forward!Step(p)' = Forward!Step(p)
      BY DEF Forward!At, Forward!Step
    <2>6. KnowsWhere(p)'
      BY <2>1, <2>2, <2>3, <2>5 DEF KnowsWhere
    <2> QED BY <2>4, <2>6
  <1> QED BY <1>1, <1>2, <1>3 DEF ForwardInv

\* The greatest of a set of numbers up to n is n, if n is among them.
LEMMA TopIsMax ==
  ASSUME NEW n \in Nat, NEW S \in SUBSET (1 .. n), n \in S
  PROVE  Forward!Max(S) = n
  <1>1. \A y \in S : n >= y
    OBVIOUS
  <1>2. \A x \in S : (\A y \in S : x >= y) => x = n
    OBVIOUS
  <1> QED BY <1>1, <1>2 DEF Forward!Max

\* When a send is next, the allowance is what it needs: either its approval is
\* the last block, and finalized, or there is no block at all.
LEMMA SendFindsAllowance ==
  ASSUME Forward!PairsAssumption, ForwardInv, NEW p \in Pairs, <<p, "send">> \in requested,
         Forward!Nonce(p, "send") = Forward!NextNonce
  PROVE  Forward!Allowance(Len(executed)) = "exact"
  <1> DEFINE n == Len(executed)
  <1>1. n \in Nat /\ start \in Nat /\ executed \in Seq(Mined) /\ settled \in 0 .. n
    BY DEF ForwardInv, SendTyped
  <1>2. phase[<<p, "send">>] # "none"
    BY DEF ForwardInv, Journaled
  <1>3. /\ phase[<<p, "approval">>] # "none" => ApprovedFinally(p)
        /\ SendsFirst(p) => existing = "exact"
    BY <1>2 DEF ForwardInv, SendIsFounded
  <1>4. CASE n = 0
    <2>1. SendsFirst(p)
      BY <1>1, <1>4 DEF SendsFirst, Forward!NextNonce
    <2> QED BY <1>3, <1>4, <2>1 DEF Forward!Allowance
  <1>5. CASE n # 0
    <2>1. n \in 1 .. n
      BY <1>1, <1>5
    <2>2. PICK r \in requested : r = executed[n].request /\ Forward!Nonce(r[1], r[2]) = start + n - 1
      BY <2>1 DEF ForwardInv, BlocksInOrder
    <2>3. r \in Forward!Requests /\ r[1] \in Pairs /\ r[2] \in Kinds /\ r = <<r[1], r[2]>>
      BY <2>2 DEF ForwardInv, SendTyped, Forward!Requests, Kinds
    <2>4. Forward!Nonce(r[1], r[2]) = Forward!Nonce(p, "approval")
      BY <1>1, <2>2, SameNonce DEF Forward!NextNonce, Kinds
    <2>5. r = <<p, "approval">>
      BY <2>3, <2>4, SameNonce DEF Kinds
    <2>6. ApprovedFinally(p)
      BY <1>3, <2>2, <2>5 DEF ForwardInv, Journaled
    <2>7. PICK i \in 1 .. settled :
            executed[i].request = <<p, "approval">> /\ executed[i].result = "succeeded"
      BY <2>6 DEF ApprovedFinally
    <2>8. i \in 1 .. n
      BY <1>1, <2>7
    <2>9. Forward!Nonce(p, "approval") = start + i - 1
      BY <2>7, <2>8 DEF ForwardInv, BlocksInOrder
    <2>10. i = n
      BY <1>1, <2>2, <2>4, <2>8, <2>9
    <2> DEFINE done == {j \in 1 .. n : executed[j].result = "succeeded"}
    <2>11. n \in done /\ done \in SUBSET (1 .. n)
      BY <2>1, <2>7, <2>10
    <2>12. Forward!Max(done) = n /\ done # {}
      BY <1>1, <2>11, TopIsMax
    <2>13. executed[n].request[2] = "approval"
      BY <2>7, <2>10
    <2>14. Forward!Allowance(n) = IF done = {} THEN existing
                          ELSE IF executed[Forward!Max(done)].request[2] = "approval" THEN "exact" ELSE "less"
      BY DEF Forward!Allowance
    <2> QED BY <2>12, <2>13, <2>14
  <1> QED BY <1>4, <1>5

\* A transaction is mined.
LEMMA ExecuteKeeps ==
  ASSUME Forward!PairsAssumption, ForwardInv, NEW r \in Forward!Requests, NEW ok \in BOOLEAN,
         Forward!Execute(r, ok)
  PROVE  ForwardInv'
  <1> DEFINE n == Len(executed)
  <1>1. n \in Nat /\ start \in Nat /\ executed \in Seq(Mined) /\ settled \in 0 .. n
    BY DEF ForwardInv, SendTyped
  <1>2. /\ UNCHANGED <<place, quoted, phase, requested, existing, start, settled>>
        /\ r \in requested /\ Forward!Nonce(r[1], r[2]) = start + n
    BY DEF Forward!Execute, Forward!NextNonce
  <1>3. PICK fate \in {"succeeded", "reverted", "short"} :
          /\ executed' = Append(executed, [request |-> r, result |-> fate])
          /\ fate = "short" => r[2] = "send" /\ Forward!Allowance(n) # "exact"
    BY DEF Forward!Execute
  <1>4. fate # "short"
    <2>1. r[1] \in Pairs /\ r = <<r[1], r[2]>>
      BY DEF Forward!Requests
    <2> QED BY <1>2, <1>3, <2>1, SendFindsAllowance DEF Forward!NextNonce
  <1>5. PICK b \in Mined : b = [request |-> r, result |-> fate]
    BY DEF Mined
  <1>6. /\ executed' \in Seq(Mined) /\ Len(executed') = n + 1
        /\ \A i \in 1 .. n : executed'[i] = executed[i]
        /\ executed'[n + 1] = b
    BY <1>1, <1>3, <1>5, AppendProperties
  <1>7. b.request = r /\ b.result # "short"
    BY <1>4, <1>5
  <1>8. BlocksInOrder'
    <2>1. ASSUME NEW i \in 1 .. n + 1
          PROVE  /\ executed'[i].request \in requested
                 /\ Forward!Nonce(executed'[i].request[1], executed'[i].request[2]) = start + i - 1
      <3>1. CASE i = n + 1
        BY <1>1, <1>2, <1>6, <1>7, <3>1
      <3>2. CASE i # n + 1
        <4>1. i \in 1 .. n
          BY <1>1, <3>2
        <4> QED BY <1>6, <4>1 DEF ForwardInv, BlocksInOrder
      <3> QED BY <3>1, <3>2
    <2> QED BY <1>2, <1>6, <2>1 DEF BlocksInOrder, Forward!Nonce
  <1>9. Forward!EverySendIsCovered'
    <2>1. ASSUME NEW i \in 1 .. n + 1
          PROVE  executed'[i].result # "short"
      <3>1. CASE i = n + 1
        BY <1>6, <1>7, <3>1
      <3>2. CASE i # n + 1
        <4>1. i \in 1 .. n /\ i \in DOMAIN executed
          BY <1>1, <3>2
        <4> QED BY <1>6, <4>1 DEF ForwardInv, Forward!EverySendIsCovered
      <3> QED BY <3>1, <3>2
    <2>2. DOMAIN executed' = 1 .. n + 1
      BY <1>6
    <2> QED BY <2>1, <2>2 DEF Forward!EverySendIsCovered
  <1>10. \A p \in Pairs : ApprovedFinally(p) => ApprovedFinally(p)'
    BY <1>1, <1>2, <1>6 DEF ApprovedFinally
  <1>11. settled' \in 0 .. Len(executed')
    BY <1>1, <1>2, <1>6
  <1> QED BY <1>2, <1>6, <1>8, <1>9, <1>10, <1>11, ChainKeeps

\* The last block is dropped.
LEMMA ReorganizeKeeps ==
  ASSUME ForwardInv, Forward!Reorganize
  PROVE  ForwardInv'
  <1> DEFINE n == Len(executed)
  <1>1. n \in Nat /\ start \in Nat /\ executed \in Seq(Mined) /\ settled \in 0 .. n /\ n > settled
    BY DEF ForwardInv, SendTyped, Forward!Reorganize
  <1>2. /\ UNCHANGED <<place, quoted, phase, requested, existing, start, settled>>
        /\ executed' = SubSeq(executed, 1, n - 1)
    BY DEF Forward!Reorganize
  <1>3. /\ executed' \in Seq(Mined) /\ Len(executed') = n - 1
        /\ \A i \in 1 .. n - 1 : executed'[i] = executed[i]
    <2>1. PICK m \in Nat : m = n - 1
      BY <1>1
    <2>2. \A i \in 1 .. m : executed[i] \in Mined /\ 1 + i - 1 = i
      BY <1>1, <2>1
    <2>3. /\ SubSeq(executed, 1, m) \in Seq(Mined)
          /\ Len(SubSeq(executed, 1, m)) = IF 1 <= m THEN m - 1 + 1 ELSE 0
          /\ \A i \in 1 .. m - 1 + 1 : SubSeq(executed, 1, m)[i] = executed[1 + i - 1]
      BY <2>2, SubSeqProperties
    <2>4. (IF 1 <= m THEN m - 1 + 1 ELSE 0) = m /\ m - 1 + 1 = m
      BY <2>1
    <2>5. /\ executed' \in Seq(Mined) /\ Len(executed') = m
          /\ \A i \in 1 .. m : executed'[i] = executed[1 + i - 1]
      BY <1>2, <2>1, <2>3, <2>4
    <2> QED BY <2>1, <2>2, <2>5
  <1>4. BlocksInOrder'
    <2>1. \A i \in 1 .. n - 1 : executed'[i] = executed[i] /\ i \in 1 .. n
      BY <1>1, <1>3
    <2> QED BY <1>2, <1>3, <2>1 DEF ForwardInv, BlocksInOrder, Forward!Nonce
  <1>5. Forward!EverySendIsCovered'
    <2>1. DOMAIN executed' = 1 .. n - 1 /\ \A i \in 1 .. n - 1 : i \in DOMAIN executed
      BY <1>1, <1>3
    <2> QED BY <1>3, <2>1 DEF ForwardInv, Forward!EverySendIsCovered
  <1>6. \A p \in Pairs : ApprovedFinally(p) => ApprovedFinally(p)'
    <2>1. \A i \in 1 .. settled : executed'[i] = executed[i]
      BY <1>1, <1>3
    <2> QED BY <1>2, <2>1 DEF ApprovedFinally
  <1>7. settled' \in 0 .. Len(executed')
    BY <1>1, <1>2, <1>3
  <1> QED BY <1>2, <1>3, <1>4, <1>5, <1>6, <1>7, ChainKeeps

\* One more block is final.
LEMMA FinalizeKeeps ==
  ASSUME ForwardInv, Forward!Finalize
  PROVE  ForwardInv'
  <1>1. /\ executed \in Seq(Mined) /\ settled \in 0 .. Len(executed) /\ Len(executed) \in Nat
        /\ UNCHANGED <<place, quoted, phase, requested, existing, start, executed>>
        /\ settled < Len(executed) /\ settled' = settled + 1
    BY DEF ForwardInv, SendTyped, Forward!Finalize
  <1>2. BlocksInOrder' /\ Forward!EverySendIsCovered'
    BY <1>1 DEF ForwardInv, BlocksInOrder, Forward!EverySendIsCovered, Forward!Nonce
  <1>3. \A p \in Pairs : ApprovedFinally(p) => ApprovedFinally(p)'
    BY <1>1 DEF ApprovedFinally
  <1> QED BY <1>1, <1>2, <1>3, ChainKeeps

\* Nothing has run yet.
LEMMA InitForward ==
  ASSUME Forward!PairsAssumption, Forward!Init
  PROVE  ForwardInv
  <1>1. SendTyped
    BY DEF Forward!Init, SendTyped, Forward!PairsAssumption, SendAwaits, Kinds, SendPhases
  <1>2. BlocksInOrder /\ Forward!EverySendIsCovered
    BY DEF Forward!Init, BlocksInOrder, Forward!EverySendIsCovered
  <1>3. Journaled
    BY DEF Forward!Init, Journaled
  <1>4. ASSUME NEW p \in Pairs
        PROVE  SendIsFounded(p) /\ KnowsWhere(p)
    <2>1. phase[<<p, "send">>] = "none" /\ place[p][1] = "idle"
      BY DEF Forward!Init, Forward!Requests
    <2> QED BY <2>1 DEF SendIsFounded, KnowsWhere, Forward!At
  <1> QED BY <1>1, <1>2, <1>3, <1>4 DEF ForwardInv

\* The invariant of the forward transfer (transfer-evm-forward.ts 60-178).
THEOREM ForwardInvariant ==
  ASSUME Forward!PairsAssumption
  PROVE  Forward!Spec => []ForwardInv
  <1>1. Forward!Init => ForwardInv
    BY InitForward
  <1>2. ForwardInv /\ [Forward!Next]_(Forward!forwardVars) => ForwardInv'
    <2> SUFFICES ASSUME ForwardInv, [Forward!Next]_(Forward!forwardVars)
                 PROVE  ForwardInv'
      OBVIOUS
    <2>1. ASSUME NEW p \in Pairs, Forward!Begin(p) \/ Forward!Approved(p) \/ Forward!Prepared(p)
          PROVE  ForwardInv'
      BY <2>1, BeginKeeps, ApprovedKeeps, PreparedKeeps
    <2>2. ASSUME NEW p \in Pairs, Forward!Sign(p) \/ Forward!Stop(p) \/ Forward!Submit(p)
          PROVE  ForwardInv'
      BY <2>2, SignKeeps, StopKeeps, SubmitKeeps
    <2>3. ASSUME NEW p \in Pairs,
                 Forward!Broadcast(p) \/ Forward!Answered(p) \/ Forward!FindFinal(p)
          PROVE  ForwardInv'
      BY <2>3, BroadcastKeeps, AnsweredKeeps, FindFinalKeeps
    <2>4. ASSUME NEW r \in Forward!Requests, NEW ok \in BOOLEAN, Forward!Execute(r, ok)
          PROVE  ForwardInv'
      BY <2>4, ExecuteKeeps
    <2>5. CASE Forward!Reorganize \/ Forward!Finalize
      BY <2>5, ReorganizeKeeps, FinalizeKeeps
    <2>6. CASE UNCHANGED Forward!forwardVars
      BY <2>6 DEF Forward!forwardVars, ForwardInv, SendTyped, BlocksInOrder, Journaled, Filled,
                  Forward!Nonce,
                  SendIsFounded, KnowsWhere, ApprovedFinally, SendsFirst, Forward!At, Forward!Step,
                  Forward!EverySendIsCovered
    <2> QED BY <2>1, <2>2, <2>3, <2>4, <2>5, <2>6 DEF Forward!Next
  <1> QED BY <1>1, <1>2, PTL DEF Forward!Spec

\* Whichever tool runs, the transfer takes a step of its own or none.
LEMMA TransferRuns == ToolsSpec => []ForwardInv
  <1>1. ToolsInit => Forward!Init
    BY DEF ToolsInit
  <1>2. [ToolsNext]_toolVars => [Forward!Next]_(Forward!forwardVars)
    BY DEF ToolsNext, toolVars, RunCustody, RunForward, RunObserve, RunLog, RunStatus,
           forwardVars, Forward!forwardVars
  <1>3. ToolsSpec => Forward!Spec
    BY <1>1, <1>2, PTL DEF ToolsSpec, Forward!Spec
  <1> QED BY <1>3, ForwardInvariant, ToolsAssumption

\* No send ever finds less than the exact allowance (transfer-evm-forward.ts
\* 140-162), for any pairs, nonces that do not overlap, and reorganizations: its
\* approval succeeded in a finalized block, or it is the account's first
\* transaction and found the allowance exact.
THEOREM SendsAreCovered == ToolsSpec => []EverySendIsCovered
  <1>1. ForwardInv => EverySendIsCovered
    BY DEF ForwardInv, EverySendIsCovered
  <1> QED BY <1>1, TransferRuns, PTL

\* Nothing handed to the network waits for a nonce that nobody uses
\* (execute-sepolia.ts 45): a nonce is signed only when all below it are mined or
\* in the pool, and what was handed over keeps its nonce through reorganizations.
THEOREM NoncesHaveNoGap == ToolsSpec => []NoNonceGap
  <1>1. ForwardInv => NoNonceGap
    BY DEF ForwardInv, SendTyped, Journaled, Filled, NoNonceGap, Forward!NoNonceGap
  <1> QED BY <1>1, TransferRuns, PTL
----------------------------------------------------------------------------
(* The observation: chains of any height, any number of changes, and at    *)
(* most one answer of a node that is behind.                               *)

ObservedBlocks == [height : Nat, name : Names \cup {"genesis"}, has : BOOLEAN]

\* A view is a chain, numbered from its first block, and a finalized prefix of it.
IsView(view) ==
  /\ view.chain \in Seq(ObservedBlocks) /\ view.final \in 1 .. Len(view.chain)
  /\ \A i \in 1 .. Len(view.chain) : view.chain[i].height = i

\* What is final in one view is final in the other.
Finalizes(view, later) ==
  /\ view.final <= later.final
  /\ \A i \in 1 .. view.final : later.chain[i] = view.chain[i]

ViewsSound ==
  /\ views \in Seq([known : BOOLEAN, chain : Seq(ObservedBlocks), final : Nat]) /\ Len(views) >= 1
  /\ \A k \in 1 .. Len(views) : IsView(views[k])
  /\ \A k \in 1 .. Len(views), j \in 1 .. Len(views) : j <= k => Finalizes(views[j], views[k])

Settled(b) == b.height \in 1 .. Observe!now.final /\ Observe!now.chain[b.height] = b
Missed == \E k \in read.began .. Len(views) : ~ views[k].known

\* What the reads so far say of the views, were all of them answered at the time;
\* one that was not has used up what the endpoint is allowed.
ReadsTyped ==
  /\ DOMAIN read = DOMAIN Observe!Unread /\ stale \in Nat /\ stale <= MaxStale
  /\ reading \in {"idle", "transaction", "receipt", "absent-transaction", "absent-receipt", "head", "canonical",
                  "receipt-again", "canonical-again", "head-again", "done"}
  /\ reading # "idle" => read.began \in 1 .. Len(views)

AbsenceSeen ==
  /\ reading = "receipt" /\ read.tx = Observe!null => Missed \/ stale >= 1
  /\ reading = "absent-transaction" => Missed \/ stale >= 1
  /\ reading = "absent-receipt" /\ read.again = Observe!null => Missed

ReceiptSeen ==
  /\ reading \in {"head", "canonical", "receipt-again", "canonical-again", "head-again"} =>
       read.receipt.height \in Nat \ {0}
  /\ reading \in {"canonical", "receipt-again", "canonical-again", "head-again"} =>
       read.receipt.height <= Observe!now.final
  /\ reading \in {"receipt-again", "canonical-again"} => Settled(read.receipt) \/ stale >= 1
  /\ reading = "head-again" /\ read.canonicalAgain = read.receipt => Settled(read.receipt)

AnswerGiven ==
  /\ result.kind = "final" => reading = "done" /\ Settled(result.block)
  /\ result.kind = "not-found" => reading = "done" /\ Missed

ObserveInv == ViewsSound /\ ReadsTyped /\ AbsenceSeen /\ ReceiptSeen /\ AnswerGiven

LEMMA NowIsView ==
  ASSUME ViewsSound
  PROVE  /\ Len(views) \in Nat \ {0} /\ Observe!now = views[Len(views)] /\ IsView(Observe!now)
         /\ \A k \in 1 .. Len(views) : Finalizes(views[k], Observe!now)
         /\ \A k \in 1 .. Len(views) : views[k].final \in Nat /\ Len(views[k].chain) \in Nat
  <1>1. Len(views) \in Nat \ {0} /\ Len(views) \in 1 .. Len(views)
    BY DEF ViewsSound
  <1>2. Observe!now = views[Len(views)]
    BY DEF Observe!now, Observe!Last, Last
  <1>3. \A k \in 1 .. Len(views) : k <= Len(views)
    BY <1>1
  <1> QED BY <1>1, <1>2, <1>3 DEF ViewsSound, IsView

\* A step of the network: the view it changes to.
LEMMA ViewsGoOn ==
  ASSUME ObserveInv, NEW view \in [known : BOOLEAN, chain : Seq(ObservedBlocks), final : Nat],
         IsView(view), Finalizes(Observe!now, view), Observe!Change(view)
  PROVE  ObserveInv'
  <1>1. /\ views' = Append(views, view) /\ UNCHANGED <<reading, read, stale, result>>
        /\ Len(views) \in Nat \ {0}
    BY DEF Observe!Change, ObserveInv, ViewsSound
  <1>2. /\ Len(views') = Len(views) + 1 /\ views'[Len(views')] = view
        /\ \A k \in 1 .. Len(views) : views'[k] = views[k]
        /\ views' \in Seq([known : BOOLEAN, chain : Seq(ObservedBlocks), final : Nat])
    BY <1>1 DEF ObserveInv, ViewsSound
  <1>3. Observe!now' = view /\ Observe!now = views[Len(views)]
    BY <1>2 DEF Observe!now, Observe!Last, Last
  <1>4. Observe!now.final <= view.final /\ Observe!now.final \in Nat /\ view.final \in Nat
    BY <1>1, <1>3, NowIsView DEF Finalizes, ObserveInv
  <1>5. ViewsSound'
    <2>1. ASSUME NEW k \in 1 .. Len(views') PROVE IsView(views'[k])
      BY <1>1, <1>2 DEF ObserveInv, ViewsSound
    <2>2. ASSUME NEW k \in 1 .. Len(views'), NEW j \in 1 .. Len(views'), j <= k
          PROVE  Finalizes(views'[j], views'[k])
      <3>1. CASE k <= Len(views)
        BY <1>1, <1>2, <2>2, <3>1 DEF ObserveInv, ViewsSound
      <3>2. CASE k > Len(views) /\ j <= Len(views)
        <4>1. /\ Finalizes(views[j], Observe!now) /\ views[j].final \in Nat
              /\ Observe!now.final \in Nat /\ view.final \in Nat
          BY <1>1, <1>4, <3>2, NowIsView DEF ObserveInv
        <4>2. views'[j] = views[j] /\ k = Len(views') /\ views'[k] = view
          BY <1>1, <1>2, <3>2
        <4> QED BY <4>1, <4>2 DEF Finalizes
      <3>3. CASE j > Len(views)
        <4>1. views'[j] = view /\ views'[k] = view
          BY <1>1, <1>2, <2>2, <3>3
        <4> QED BY <4>1 DEF Finalizes, IsView
      <3> QED BY <1>1, <2>2, <3>1, <3>2, <3>3
    <2> QED BY <1>2, <1>1, <2>1, <2>2 DEF ViewsSound
  <1>6. ASSUME NEW b, Settled(b) PROVE Settled(b)'
    BY <1>3, <1>6, <1>4 DEF Settled, Finalizes
  <1>7. Missed => Missed' \/ reading = "idle"
    BY <1>1, <1>2 DEF Missed, ObserveInv, ReadsTyped
  <1>8. ReadsTyped'
    BY <1>1, <1>2 DEF ObserveInv, ReadsTyped
  <1>9. AbsenceSeen'
    BY <1>1, <1>7 DEF ObserveInv, AbsenceSeen
  <1>10. ReceiptSeen'
    BY <1>1, <1>3, <1>6, <1>4 DEF ObserveInv, ReceiptSeen
  <1>11. AnswerGiven'
    BY <1>1, <1>6, <1>7 DEF ObserveInv, AnswerGiven
  <1> QED BY <1>5, <1>8, <1>9, <1>10, <1>11 DEF ObserveInv

LEMMA NetworkGoesOn ==
  ASSUME ObserveInv,
         \/ Observe!Announce \/ Observe!Evict \/ Observe!Reorganize \/ Observe!Finalize
         \/ \E name \in Names, has \in BOOLEAN : Observe!Extend(name, has)
  PROVE  ObserveInv'
  <1> DEFINE Views == [known : BOOLEAN, chain : Seq(ObservedBlocks), final : Nat]
  <1>1. /\ Observe!now \in Views /\ IsView(Observe!now)
        /\ Observe!now.chain \in Seq(ObservedBlocks) /\ Observe!now.final \in Nat
        /\ Len(Observe!now.chain) \in Nat /\ Observe!now.final \in 1 .. Len(Observe!now.chain)
        /\ \A i \in 1 .. Len(Observe!now.chain) : Observe!now.chain[i].height = i
    <2>1. Observe!now = views[Len(views)] /\ Len(views) \in 1 .. Len(views) /\ IsView(Observe!now)
      BY NowIsView DEF ObserveInv
    <2>2. Observe!now \in Views
      <3>1. views \in Seq(Views)
        BY DEF ObserveInv, ViewsSound
      <3> HIDE DEF Views
      <3> QED BY <2>1, <3>1, ElementOfSeq
    <2> QED BY <2>1, <2>2 DEF IsView
  <1>2. ASSUME NEW view \in Views, view.final \in Observe!now.final .. Len(view.chain), Observe!Change(view),
               \A i \in 1 .. Len(view.chain) : view.chain[i].height = i,
               \A i \in 1 .. Observe!now.final : view.chain[i] = Observe!now.chain[i]
        PROVE  ObserveInv'
    <2>1. IsView(view) /\ Finalizes(Observe!now, view)
      BY <1>1, <1>2 DEF IsView, Finalizes
    <2> QED BY <1>2, <2>1, ViewsGoOn
  <1>3. CASE Observe!Announce \/ Observe!Evict
    <2>1. PICK known \in BOOLEAN : Observe!Change([Observe!now EXCEPT !.known = known])
      BY <1>3 DEF Observe!Announce, Observe!Evict
    <2> DEFINE view == [Observe!now EXCEPT !.known = known]
    <2>2. view \in Views /\ view.chain = Observe!now.chain /\ view.final = Observe!now.final
      BY <1>1
    <2> HIDE DEF view
    <2> QED BY <1>1, <1>2, <2>1, <2>2 DEF view
  <1>4. CASE \E name \in Names, has \in BOOLEAN : Observe!Extend(name, has)
    <2>1. PICK name \in Names, has \in BOOLEAN : Observe!Extend(name, has)
      BY <1>4
    <2> DEFINE new == Observe!Block(Len(Observe!now.chain) + 1, name, has)
               view == [Observe!now EXCEPT !.chain = Append(@, Observe!Block(Len(@) + 1, name, has))]
    <2>2. Observe!Change(view)
      BY <2>1 DEF Observe!Extend
    <2>3. new \in ObservedBlocks /\ new.height = Len(Observe!now.chain) + 1
      BY <1>1 DEF Observe!Block, ObservedBlocks
    <2>4. view.chain = Append(Observe!now.chain, new) /\ view.final = Observe!now.final /\ view \in Views
      BY <1>1, <2>3
    <2> HIDE DEF view, new
    <2>5. /\ Len(view.chain) = Len(Observe!now.chain) + 1 /\ view.chain[Len(view.chain)] = new
          /\ \A i \in 1 .. Len(Observe!now.chain) : view.chain[i] = Observe!now.chain[i]
      BY <1>1, <2>3, <2>4
    <2>6. \A i \in 1 .. Len(view.chain) : view.chain[i].height = i
      <3> SUFFICES ASSUME NEW i \in 1 .. Len(view.chain) PROVE view.chain[i].height = i
        OBVIOUS
      <3>1. CASE i = Len(view.chain)
        BY <1>1, <2>3, <2>5, <3>1
      <3>2. CASE i \in 1 .. Len(Observe!now.chain)
        BY <1>1, <2>5, <3>2 DEF IsView
      <3> QED BY <1>1, <2>5, <3>1, <3>2
    <2>7. /\ view.final \in Observe!now.final .. Len(view.chain)
          /\ \A i \in 1 .. Observe!now.final : view.chain[i] = Observe!now.chain[i]
      BY <1>1, <2>4, <2>5
    <2> QED BY <1>2, <2>2, <2>4, <2>6, <2>7
  <1>5. CASE Observe!Reorganize
    <2> DEFINE view == [Observe!now EXCEPT !.chain = Observe!Front(@)]
    <2>1. Observe!Change(view) /\ Len(Observe!now.chain) > Observe!now.final
      BY <1>5 DEF Observe!Reorganize
    <2>2. view.chain = SubSeq(Observe!now.chain, 1, Len(Observe!now.chain) - 1) /\ view.final = Observe!now.final
          /\ view.known = Observe!now.known
      BY <1>1 DEF Observe!Front
    <2>3. /\ view.chain \in Seq(ObservedBlocks) /\ Len(view.chain) = Len(Observe!now.chain) - 1
          /\ \A i \in 1 .. Len(view.chain) : view.chain[i] = Observe!now.chain[i]
      <3>1. Len(Observe!now.chain) - 1 \in 0 .. Len(Observe!now.chain)
        BY <1>1, <2>1
      <3> QED BY <1>1, <2>2, <3>1, SubSeqProperties
    <2>4. view \in Views
      BY <1>1, <2>2, <2>3
    <2> HIDE DEF view
    <2>5. /\ view.final \in Observe!now.final .. Len(view.chain)
          /\ \A i \in 1 .. Len(view.chain) : view.chain[i].height = i
          /\ \A i \in 1 .. Observe!now.final : view.chain[i] = Observe!now.chain[i]
      BY <1>1, <2>1, <2>2, <2>3
    <2> QED BY <1>2, <2>1, <2>4, <2>5
  <1>6. CASE Observe!Finalize
    <2> DEFINE view == [Observe!now EXCEPT !.final = @ + 1]
    <2>1. Observe!Change(view) /\ Observe!now.final < Len(Observe!now.chain)
      BY <1>6 DEF Observe!Finalize
    <2>2. view \in Views /\ view.chain = Observe!now.chain /\ view.final = Observe!now.final + 1
      BY <1>1
    <2> HIDE DEF view
    <2>3. /\ view.final \in Observe!now.final .. Len(view.chain)
          /\ \A i \in 1 .. Observe!now.final : view.chain[i] = Observe!now.chain[i]
      BY <1>1, <2>1, <2>2
    <2> QED BY <1>1, <1>2, <2>1, <2>2, <2>3
  <1> QED BY <1>3, <1>4, <1>5, <1>6

\* An answer comes from a view there has been; one of an earlier view uses up
\* what the endpoint is allowed.
LEMMA AnswerComes ==
  ASSUME ObserveInv, NEW k \in DOMAIN views, Observe!Answer(k)
  PROVE  /\ views' = views /\ k \in 1 .. Len(views) /\ stale' \in Nat /\ stale' <= MaxStale
         /\ (k = Len(views) /\ stale' = stale) \/ stale' = stale + 1
         /\ stale' >= stale
         /\ IsView(views[k]) /\ Finalizes(views[k], Observe!now) /\ Observe!now = views[Len(views)]
         /\ views[k].final \in Nat /\ Observe!now.final \in Nat
  BY NowIsView DEF ObserveInv, ViewsSound, ReadsTyped, Observe!Answer

LEMMA ReturnGoesOn ==
  ASSUME ObserveInv, views' = views, stale' \in Nat, stale' <= MaxStale, reading # "idle",
         NEW result1, Observe!Return(result1),
         result1.kind = "final" => Settled(result1.block),
         result1.kind = "not-found" => Missed
  PROVE  ObserveInv'
  <1>1. reading' = "done" /\ result' = result1 /\ read' = read /\ Observe!now' = Observe!now
    BY DEF Observe!Return, Observe!now
  <1>2. ViewsSound'
    BY DEF ObserveInv, ViewsSound
  <1>3. ReadsTyped'
    BY <1>1 DEF ObserveInv, ReadsTyped
  <1>4. AbsenceSeen' /\ ReceiptSeen'
    BY <1>1 DEF AbsenceSeen, ReceiptSeen
  <1>5. AnswerGiven'
    BY <1>1 DEF AnswerGiven, Settled, Missed
  <1> QED BY <1>2, <1>3, <1>4, <1>5 DEF ObserveInv

LEMMA UnknownGoesOn ==
  ASSUME ObserveInv, views' = views, stale' \in Nat, stale' <= MaxStale, reading # "idle", Observe!Unknown
  PROVE  ObserveInv'
  BY ReturnGoesOn DEF Observe!Unknown

Fields == {"tx", "receipt", "again", "head", "canonical", "receiptAgain", "canonicalAgain"}

LEMMA ContinueGoesOn ==
  ASSUME ObserveInv, views' = views, stale' \in Nat, stale' <= MaxStale, reading \notin {"idle", "done"},
         NEW next \in {"receipt", "absent-transaction", "absent-receipt", "head", "canonical",
                       "receipt-again", "canonical-again", "head-again"},
         NEW field \in Fields, NEW value, Observe!Continue(next, field, value)
  PROVE  /\ ViewsSound' /\ ReadsTyped' /\ AnswerGiven' /\ reading' = next /\ Observe!now' = Observe!now
         /\ read'[field] = value /\ \A other \in Fields \ {field} : read'[other] = read[other]
         /\ Missed' <=> Missed
  <1>1. /\ reading' = next /\ result' = result /\ read' = [read EXCEPT ![field] = value]
        /\ Observe!now' = Observe!now
    BY DEF Observe!Continue, Observe!now
  <1>2. DOMAIN read = Fields \cup {"began"}
    BY DEF ObserveInv, ReadsTyped, Observe!Unread, Fields
  <1>3. /\ DOMAIN read' = DOMAIN read /\ read'[field] = value
        /\ \A other \in DOMAIN read \ {field} : read'[other] = read[other]
    BY <1>1, <1>2
  <1>4. read'.began = read.began
    BY <1>2, <1>3 DEF Fields
  <1>5. ViewsSound'
    BY DEF ObserveInv, ViewsSound
  <1>6. ReadsTyped'
    BY <1>1, <1>3, <1>4 DEF ObserveInv, ReadsTyped, Observe!Unread
  <1>7. AnswerGiven'
    BY <1>1 DEF ObserveInv, AnswerGiven
  <1>8. Missed' <=> Missed
    BY <1>4 DEF Missed
  <1> QED BY <1>1, <1>2, <1>3, <1>5, <1>6, <1>7, <1>8

\* A block that includes the transaction is one of the view's chain.
LEMMA InView ==
  ASSUME NEW view, IsView(view), Observe!Including(view) # {}
  PROVE  Observe!The(Observe!Including(view)).height \in Nat \ {0}
  <1>1. Observe!The(Observe!Including(view)) \in Observe!Including(view)
    BY DEF Observe!The
  <1>2. PICK i \in DOMAIN view.chain : Observe!The(Observe!Including(view)) = view.chain[i]
    BY <1>1 DEF Observe!Including, Observe!Range, Range
  <1>3. i \in 1 .. Len(view.chain) /\ Len(view.chain) \in Nat
    BY <1>2 DEF IsView
  <1> QED BY <1>2, <1>3 DEF IsView

LEMMA NullIsUnknown ==
  ASSUME NEW view, IsView(view)
  PROVE  /\ Observe!getTransaction(view) = Observe!null => ~ view.known
         /\ Observe!getReceipt(view) # Observe!null => Observe!getReceipt(view).height \in Nat \ {0}
  BY InView DEF Observe!getTransaction, Observe!getReceipt, Observe!null, Observe!pending, Observe!Block

LEMMA ReadTransactionGoesOn == ASSUME ObserveInv, Observe!ReadTransaction PROVE ObserveInv'
  <1>1. PICK k \in DOMAIN views :
          Observe!Answer(k) /\ Observe!Continue("receipt", "tx", Observe!getTransaction(views[k]))
    BY DEF Observe!ReadTransaction
  <1>2. /\ ViewsSound' /\ ReadsTyped' /\ AnswerGiven' /\ reading' = "receipt"
        /\ read'["tx"] = Observe!getTransaction(views[k]) /\ (Missed' <=> Missed)
    BY <1>1, AnswerComes, ContinueGoesOn DEF Observe!ReadTransaction, Fields
  <1>3. read'.tx = Observe!null => Missed \/ stale' >= 1
    <2>1. /\ k \in 1 .. Len(views) /\ (k = Len(views) \/ stale' = stale + 1)
          /\ read.began \in 1 .. Len(views) /\ stale \in Nat
      BY <1>1, AnswerComes DEF ObserveInv, ReadsTyped, Observe!ReadTransaction
    <2>2. read'.tx = Observe!null => ~ views[k].known
      BY <1>1, <1>2, AnswerComes, NullIsUnknown
    <2> QED BY <2>1, <2>2 DEF Missed
  <1> QED BY <1>2, <1>3 DEF ObserveInv, AbsenceSeen, ReceiptSeen

LEMMA ReadReceiptGoesOn == ASSUME ObserveInv, Observe!ReadReceipt PROVE ObserveInv'
  <1>1. PICK k \in DOMAIN views : Observe!Answer(k) /\ Observe!AfterReceipt(Observe!getReceipt(views[k]))
    BY DEF Observe!ReadReceipt
  <1>2. /\ views' = views /\ stale' \in Nat /\ stale' <= MaxStale /\ stale' >= stale /\ stale \in Nat
        /\ IsView(views[k]) /\ reading = "receipt"
    BY <1>1, AnswerComes DEF Observe!ReadReceipt, ObserveInv, ReadsTyped
  <1>3. CASE Observe!Unknown \/ Observe!Return([kind |-> "observed"])
    BY <1>2, <1>3, UnknownGoesOn, ReturnGoesOn
  <1>4. CASE /\ read.tx = Observe!null
             /\ Observe!Continue("absent-transaction", "receipt", Observe!getReceipt(views[k]))
    <2>1. /\ ViewsSound' /\ ReadsTyped' /\ AnswerGiven' /\ reading' = "absent-transaction" /\ (Missed' <=> Missed)
      BY <1>2, <1>4, ContinueGoesOn DEF Fields
    <2>2. Missed \/ stale' >= 1
      BY <1>2, <1>4 DEF ObserveInv, AbsenceSeen
    <2> QED BY <2>1, <2>2 DEF ObserveInv, AbsenceSeen, ReceiptSeen
  <1>5. CASE /\ Observe!getReceipt(views[k]) # Observe!null
             /\ Observe!Continue("head", "receipt", Observe!getReceipt(views[k]))
    <2>1. /\ ViewsSound' /\ ReadsTyped' /\ AnswerGiven' /\ reading' = "head"
          /\ read'["receipt"] = Observe!getReceipt(views[k])
      BY <1>2, <1>5, ContinueGoesOn DEF Fields
    <2> QED BY <1>2, <1>5, <2>1, NullIsUnknown DEF ObserveInv, AbsenceSeen, ReceiptSeen
  <1> QED BY <1>1, <1>3, <1>4, <1>5 DEF Observe!AfterReceipt

LEMMA ReadAbsentTransactionGoesOn ==
  ASSUME ObserveInv, MaxStale <= 1, Observe!ReadAbsentTransaction
  PROVE  ObserveInv'
  <1>1. PICK k \in DOMAIN views :
          Observe!Answer(k) /\ Observe!Continue("absent-receipt", "again", Observe!getTransaction(views[k]))
    BY DEF Observe!ReadAbsentTransaction
  <1>2. /\ ViewsSound' /\ ReadsTyped' /\ AnswerGiven' /\ reading' = "absent-receipt"
        /\ read'["again"] = Observe!getTransaction(views[k]) /\ (Missed' <=> Missed)
    BY <1>1, AnswerComes, ContinueGoesOn DEF Observe!ReadAbsentTransaction, Fields
  <1>3. read'.again = Observe!null => Missed
    <2>1. /\ k \in 1 .. Len(views) /\ (k = Len(views) \/ stale' = stale + 1)
          /\ read.began \in 1 .. Len(views) /\ stale \in Nat /\ stale' <= MaxStale
          /\ Missed \/ stale >= 1
      BY <1>1, AnswerComes DEF ObserveInv, ReadsTyped, AbsenceSeen, Observe!ReadAbsentTransaction
    <2>2. MaxStale \in Nat
      BY ToolsAssumption DEF Observe!ObserveAssumption
    <2>3. read'.again = Observe!null => ~ views[k].known
      BY <1>1, <1>2, AnswerComes, NullIsUnknown
    <2> QED BY <2>1, <2>2, <2>3 DEF Missed
  <1> QED BY <1>2, <1>3 DEF ObserveInv, AbsenceSeen, ReceiptSeen

LEMMA ReadAbsentReceiptGoesOn == ASSUME ObserveInv, Observe!ReadAbsentReceipt PROVE ObserveInv'
  <1>1. PICK k \in DOMAIN views : Observe!Answer(k) /\ Observe!AfterAbsent(Observe!getReceipt(views[k]))
    BY DEF Observe!ReadAbsentReceipt
  <1>2. /\ views' = views /\ stale' \in Nat /\ stale' <= MaxStale /\ reading = "absent-receipt"
    BY <1>1, AnswerComes DEF Observe!ReadAbsentReceipt
  <1>3. CASE read.again = Observe!null /\ Observe!Return([kind |-> "not-found"])
    BY <1>2, <1>3, ReturnGoesOn DEF ObserveInv, AbsenceSeen
  <1> QED BY <1>1, <1>2, <1>3, UnknownGoesOn DEF Observe!AfterAbsent

LEMMA ReadHeadGoesOn == ASSUME ObserveInv, Observe!ReadHead PROVE ObserveInv'
  <1>1. PICK k \in DOMAIN views : Observe!Answer(k) /\ Observe!AfterHead(Observe!getFinalized(views[k]))
    BY DEF Observe!ReadHead
  <1>2. /\ views' = views /\ stale' \in Nat /\ stale' <= MaxStale /\ reading = "head"
        /\ IsView(views[k]) /\ Finalizes(views[k], Observe!now)
        /\ views[k].final \in Nat /\ Observe!now.final \in Nat
    BY <1>1, AnswerComes DEF Observe!ReadHead
  <1>3. CASE Observe!Return([kind |-> "observed"])
    BY <1>2, <1>3, ReturnGoesOn
  <1>4. CASE /\ ~ read.receipt.height > Observe!getFinalized(views[k]).height
             /\ Observe!Continue("canonical", "head", Observe!getFinalized(views[k]))
    <2>1. /\ ViewsSound' /\ ReadsTyped' /\ AnswerGiven' /\ reading' = "canonical"
          /\ Observe!now' = Observe!now /\ read'["receipt"] = read["receipt"]
      BY <1>2, <1>4, ContinueGoesOn DEF Fields
    <2>2. read.receipt.height \in Nat \ {0}
      BY <1>2 DEF ObserveInv, ReceiptSeen
    <2>3. Observe!getFinalized(views[k]).height = views[k].final /\ views[k].final <= Observe!now.final
      BY <1>2 DEF IsView, Finalizes, Observe!getFinalized
    <2>4. read.receipt.height <= Observe!now.final
      BY <1>2, <1>4, <2>2, <2>3
    <2> QED BY <2>1, <2>2, <2>4 DEF ObserveInv, AbsenceSeen, ReceiptSeen
  <1> QED BY <1>1, <1>3, <1>4 DEF Observe!AfterHead

\* A block of the receipt's height that is the receipt's, in the view of now.
LEMMA CanonicalIsSettled ==
  ASSUME ObserveInv, read.receipt.height \in Nat \ {0}, read.receipt.height <= Observe!now.final,
         Observe!Canonical(Observe!now) = read.receipt
  PROVE  Settled(read.receipt)
  <1>1. Observe!now.final \in 1 .. Len(Observe!now.chain) /\ Len(Observe!now.chain) \in Nat
    BY NowIsView DEF ObserveInv, IsView
  <1>2. read.receipt.height \in DOMAIN Observe!now.chain
    BY <1>1, NowIsView DEF ObserveInv, IsView
  <1> QED BY <1>1, <1>2 DEF Settled, Observe!Canonical, Observe!getBlock

LEMMA ReadCanonicalGoesOn == ASSUME ObserveInv, Observe!ReadCanonical PROVE ObserveInv'
  <1>1. PICK k \in DOMAIN views : Observe!Answer(k) /\ Observe!AfterCanonical(Observe!Canonical(views[k]))
    BY DEF Observe!ReadCanonical
  <1>2. /\ views' = views /\ stale' \in Nat /\ stale' <= MaxStale /\ reading = "canonical"
        /\ k = Len(views) \/ stale' = stale + 1
        /\ Observe!now = views[Len(views)] /\ stale \in Nat
        /\ read.receipt.height \in Nat \ {0} /\ read.receipt.height <= Observe!now.final
    BY <1>1, AnswerComes DEF Observe!ReadCanonical, ObserveInv, ReceiptSeen, ReadsTyped
  <1>3. CASE /\ Observe!Canonical(views[k]) = read.receipt
             /\ Observe!Continue("receipt-again", "canonical", Observe!Canonical(views[k]))
    <2>1. /\ ViewsSound' /\ ReadsTyped' /\ AnswerGiven' /\ reading' = "receipt-again"
          /\ Observe!now' = Observe!now /\ read'["receipt"] = read["receipt"]
      BY <1>2, <1>3, ContinueGoesOn DEF Fields
    <2>2. Settled(read.receipt) \/ stale' >= 1
      BY <1>2, <1>3, CanonicalIsSettled
    <2> QED BY <1>2, <2>1, <2>2 DEF ObserveInv, AbsenceSeen, ReceiptSeen, Settled
  <1> QED BY <1>1, <1>2, <1>3, UnknownGoesOn DEF Observe!AfterCanonical

LEMMA ReadReceiptAgainGoesOn == ASSUME ObserveInv, Observe!ReadReceiptAgain PROVE ObserveInv'
  <1>1. PICK k \in DOMAIN views : Observe!Answer(k) /\ Observe!AfterReceiptAgain(Observe!getReceipt(views[k]))
    BY DEF Observe!ReadReceiptAgain
  <1>2. /\ views' = views /\ stale' \in Nat /\ stale' <= MaxStale /\ reading = "receipt-again"
        /\ stale' >= stale /\ stale \in Nat
    BY <1>1, AnswerComes DEF Observe!ReadReceiptAgain, ObserveInv, ReadsTyped
  <1>3. CASE Observe!Continue("canonical-again", "receiptAgain", Observe!getReceipt(views[k]))
    <2>1. /\ ViewsSound' /\ ReadsTyped' /\ AnswerGiven' /\ reading' = "canonical-again"
          /\ Observe!now' = Observe!now /\ read'["receipt"] = read["receipt"]
      BY <1>2, <1>3, ContinueGoesOn DEF Fields
    <2>2. Settled(read.receipt) \/ stale' >= 1
      BY <1>2 DEF ObserveInv, ReceiptSeen
    <2> QED BY <1>2, <2>1, <2>2 DEF ObserveInv, AbsenceSeen, ReceiptSeen, Settled
  <1> QED BY <1>1, <1>2, <1>3, UnknownGoesOn DEF Observe!AfterReceiptAgain

LEMMA ReadCanonicalAgainGoesOn ==
  ASSUME ObserveInv, MaxStale <= 1, Observe!ReadCanonicalAgain
  PROVE  ObserveInv'
  <1>1. PICK k \in DOMAIN views : Observe!Answer(k) /\ Observe!AfterCanonicalAgain(Observe!Canonical(views[k]))
    BY DEF Observe!ReadCanonicalAgain
  <1>2. /\ views' = views /\ stale' \in Nat /\ stale' <= MaxStale /\ reading = "canonical-again"
        /\ k = Len(views) \/ stale' = stale + 1
        /\ Observe!now = views[Len(views)] /\ stale \in Nat
        /\ read.receipt.height \in Nat \ {0} /\ read.receipt.height <= Observe!now.final
        /\ Settled(read.receipt) \/ stale >= 1
    BY <1>1, AnswerComes DEF Observe!ReadCanonicalAgain, ObserveInv, ReceiptSeen, ReadsTyped
  <1>3. CASE Observe!Continue("head-again", "canonicalAgain", Observe!Canonical(views[k]))
    <2>1. /\ ViewsSound' /\ ReadsTyped' /\ AnswerGiven' /\ reading' = "head-again"
          /\ Observe!now' = Observe!now /\ read'["receipt"] = read["receipt"]
          /\ read'["canonicalAgain"] = Observe!Canonical(views[k])
      BY <1>2, <1>3, ContinueGoesOn DEF Fields
    <2>2. ASSUME Observe!Canonical(views[k]) = read.receipt
          PROVE  Settled(read.receipt)
      <3>1. MaxStale \in Nat
        BY ToolsAssumption DEF Observe!ObserveAssumption
      <3>2. k = Len(views) \/ Settled(read.receipt)
        BY <1>2, <3>1
      <3> QED BY <1>2, <2>2, <3>2, CanonicalIsSettled
    <2> QED BY <1>2, <2>1, <2>2 DEF ObserveInv, AbsenceSeen, ReceiptSeen, Settled
  <1> QED BY <1>1, <1>2, <1>3, UnknownGoesOn DEF Observe!AfterCanonicalAgain

LEMMA ReadHeadAgainGoesOn == ASSUME ObserveInv, Observe!ReadHeadAgain PROVE ObserveInv'
  <1>1. PICK k \in DOMAIN views : Observe!Answer(k) /\ Observe!AfterHeadAgain(Observe!getFinalized(views[k]))
    BY DEF Observe!ReadHeadAgain
  <1>2. /\ views' = views /\ stale' \in Nat /\ stale' <= MaxStale /\ reading = "head-again"
    BY <1>1, AnswerComes DEF Observe!ReadHeadAgain
  <1>3. CASE /\ read.canonicalAgain = read.receipt
             /\ Observe!Return([kind |-> "final", block |-> read.receipt])
    BY <1>2, <1>3, ReturnGoesOn DEF ObserveInv, ReceiptSeen
  <1> QED BY <1>1, <1>2, <1>3, UnknownGoesOn DEF Observe!AfterHeadAgain, Observe!Still

LEMMA ObserveStarts == ToolsInit => ObserveInv
  <1> SUFFICES ASSUME Observe!Init PROVE ObserveInv
    BY DEF ToolsInit
  <1> DEFINE first == [known |-> FALSE, chain |-> <<Observe!Genesis>>, final |-> 1]
  <1>0. views = <<first>> /\ reading = "idle" /\ read = Observe!Unread /\ stale = 0 /\ result = [kind |-> "none"]
    BY DEF Observe!Init
  <1>1. /\ Len(views) = 1 /\ views[1].final = 1
        /\ Len(views[1].chain) = 1 /\ views[1].chain[1] = Observe!Genesis
        /\ views[1].chain \in Seq(ObservedBlocks)
        /\ views \in Seq([known : BOOLEAN, chain : Seq(ObservedBlocks), final : Nat])
    <2>1. Observe!Genesis \in ObservedBlocks
      BY DEF Observe!Genesis, Observe!Block, ObservedBlocks
    <2>2. <<Observe!Genesis>> \in Seq(ObservedBlocks)
      BY <2>1
    <2>3. first \in [known : BOOLEAN, chain : Seq(ObservedBlocks), final : Nat]
      BY <2>2
    <2>4. /\ first.final = 1 /\ first.chain \in Seq(ObservedBlocks)
          /\ Len(first.chain) = 1 /\ first.chain[1] = Observe!Genesis
      BY <2>2
    <2> HIDE DEF first
    <2>5. Len(views) = 1 /\ views[1] = first
      BY <1>0
    <2>6. views \in Seq([known : BOOLEAN, chain : Seq(ObservedBlocks), final : Nat])
      BY <1>0, <2>3
    <2> QED BY <2>4, <2>5, <2>6
  <1> HIDE DEF first
  <1>2. IsView(views[1])
    <2>1. Observe!Genesis.height = 1
      BY DEF Observe!Genesis, Observe!Block
    <2> QED BY <1>1, <2>1 DEF IsView
  <1>3. ViewsSound
    BY <1>1, <1>2 DEF ViewsSound, Finalizes, IsView
  <1>4. ReadsTyped
    BY <1>0, ToolsAssumption DEF ReadsTyped, Observe!ObserveAssumption
  <1> QED BY <1>0, <1>3, <1>4 DEF ObserveInv, AbsenceSeen, ReceiptSeen, AnswerGiven

LEMMA ObserveKeeps == MaxStale <= 1 /\ ObserveInv /\ [ToolsNext]_toolVars => ObserveInv'
  <1> SUFFICES ASSUME MaxStale <= 1, ObserveInv, Observe!Next \/ UNCHANGED observeVars PROVE ObserveInv'
    BY DEF ToolsNext, toolVars, RunCustody, RunForward, RunObserve, RunLog, RunStatus
  <1>1. CASE UNCHANGED observeVars
    <2>1. Observe!now' = Observe!now
      BY <1>1 DEF observeVars, Observe!now
    <2> QED BY <1>1, <2>1 DEF observeVars, ObserveInv, ViewsSound, ReadsTyped, AbsenceSeen, ReceiptSeen,
                              AnswerGiven, Settled, Missed
  <1>2. CASE Observe!Begin
    <2>1. /\ reading = "idle" /\ reading' = "transaction" /\ read' = [Observe!Unread EXCEPT !.began = Len(views)]
          /\ UNCHANGED <<views, stale, result>> /\ Observe!now' = Observe!now
      BY <1>2 DEF Observe!Begin, Observe!now
    <2>2. read'.began = Len(views) /\ DOMAIN read' = DOMAIN Observe!Unread
      BY <2>1 DEF Observe!Unread
    <2>3. ViewsSound' /\ AnswerGiven'
      BY <2>1 DEF ObserveInv, ViewsSound, AnswerGiven
    <2>4. ReadsTyped'
      BY <2>1, <2>2, NowIsView DEF ObserveInv, ReadsTyped, Observe!Unread
    <2> QED BY <2>1, <2>3, <2>4 DEF ObserveInv, AbsenceSeen, ReceiptSeen
  <1>3. CASE Observe!Fault
    BY <1>3, UnknownGoesOn DEF Observe!Fault, ObserveInv, ReadsTyped
  <1> QED BY <1>1, <1>2, <1>3, NetworkGoesOn, ReadTransactionGoesOn, ReadReceiptGoesOn,
             ReadAbsentTransactionGoesOn, ReadAbsentReceiptGoesOn, ReadHeadGoesOn, ReadCanonicalGoesOn,
             ReadReceiptAgainGoesOn, ReadCanonicalAgainGoesOn, ReadHeadAgainGoesOn DEF Observe!Next

\* "final" is in the finalized chain and "not-found" was unknown since the first
\* read (evm-rpc.ts 125-167), for chains of any height that change any number
\* of times between the reads, as long as one answer at most is that of a node that is behind.
THEOREM AnswersAreTrue == MaxStale <= 1 /\ ToolsSpec => []AnswerIsTrue
  <1>1. ObserveInv => AnswerIsTrue
    <2> SUFFICES ASSUME ObserveInv PROVE AnswerIsTrue
      OBVIOUS
    <2>1. ASSUME NEW b, Settled(b) PROVE b \in Observe!Range(SubSeq(Observe!now.chain, 1, Observe!now.final))
      <3>1. /\ Observe!now.final \in 1 .. Len(Observe!now.chain) /\ Len(Observe!now.chain) \in Nat
            /\ Observe!now.chain \in Seq(ObservedBlocks)
        BY NowIsView DEF ObserveInv, IsView
      <3>2. /\ b.height \in DOMAIN SubSeq(Observe!now.chain, 1, Observe!now.final)
            /\ SubSeq(Observe!now.chain, 1, Observe!now.final)[b.height] = b
        <4> DEFINE blocks == Observe!now.chain
                   height == Observe!now.final
        <4>1. blocks \in Seq(ObservedBlocks) /\ height \in 1 .. Len(blocks) /\ Len(blocks) \in Nat
          BY <3>1
        <4>2. b.height \in 1 .. height /\ blocks[b.height] = b
          BY <2>1 DEF Settled
        <4> HIDE DEF blocks, height
        <4>3. \A i \in 1 .. height : blocks[i] \in ObservedBlocks
          BY <4>1, ElementOfSeq
        <4>4. /\ SubSeq(blocks, 1, height) \in Seq(ObservedBlocks) /\ Len(SubSeq(blocks, 1, height)) = height
              /\ \A i \in 1 .. height : SubSeq(blocks, 1, height)[i] = blocks[i]
          BY <4>1, <4>3, SubSeqProperties
        <4>5. b.height \in DOMAIN SubSeq(blocks, 1, height) /\ SubSeq(blocks, 1, height)[b.height] = b
          BY <4>2, <4>4
        <4> QED BY <4>5 DEF blocks, height
      <3> QED BY <3>2 DEF Observe!Range, Range
    <2> QED BY <2>1 DEF ObserveInv, AnswerGiven, AnswerIsTrue, Observe!AnswerIsTrue, Missed
  <1>2. CASE MaxStale <= 1
    BY <1>1, <1>2, ObserveStarts, ObserveKeeps, PTL DEF ToolsSpec
  <1> QED BY <1>2

Message == INSTANCE MessageProjection

----------------------------------------------------------------------------
(* What projectMessage() makes of the observations of a message, whatever  *)
(* their number: what it collects depends on which they are, and neither   *)
(* on their order nor on their repetition.                                 *)

IsObservation(e) ==
  /\ e = [identity |-> e.identity, chain |-> e.chain, kind |-> e.kind, tx |-> e.tx,
          block |-> e.block, finality |-> e.finality]
  /\ e.finality \in Message!Finality

\* One turn of collectEvents().
Take(identity, collected, e) ==
  [error  |-> \/ collected.error
              \/ e.identity # identity
              \/ \E f \in collected.events :
                   Message!Key(f) = Message!Key(e) /\ Message!fingerprint(f) # Message!fingerprint(e),
   events |-> Message!KeepHighest(collected.events, e)]

Nothing == [error |-> FALSE, events |-> {}]

\* What is wrong with observations, and those of them that count.
Clash(e, f) == Message!Key(f) = Message!Key(e) /\ Message!fingerprint(f) # Message!fingerprint(e)

Wrong(identity, S) == (\E e \in S : e.identity # identity) \/ (\E e, f \in S : Clash(e, f))

Highest(S) == {e \in S : \A f \in S : Message!Key(f) = Message!Key(e)
                                        => Message!rank(f.finality) <= Message!rank(e.finality)}

\* A loop over a log is a fold: it takes out the last observation each time.
Top(U) == Message!Max(U)

Folds(h, identity, events, D) ==
  h = [U \in SUBSET D |-> IF U = {} THEN Nothing
                          ELSE Take(identity, h[U \ {Top(U)}], events[Top(U)])]

\* collectEvents() is such a fold, over the positions of the log.
LEMMA CollectIsFold ==
  ASSUME NEW identity, NEW events, NEW h, Folds(h, identity, events, DOMAIN events)
  PROVE  \E k : /\ Folds(k, identity, events, DOMAIN events)
                /\ Message!collectEvents(identity, events) = k[DOMAIN events]
  <1> DEFINE D == DOMAIN events
             Turn(k, U) == IF U = {} THEN Nothing
                           ELSE Take(identity, k[U \ {Top(U)}], events[Top(U)])
             F == CHOOSE k : k = [U \in SUBSET D |-> Turn(k, U)]
  <1>1. Message!collectEvents(identity, events) = F[D]
    BY DEF Message!collectEvents, Message!FoldLeft, Message!MapThenFoldSet, Take, Nothing, Top
  <1>2. h = [U \in SUBSET D |-> Turn(h, U)]
    BY DEF Folds
  <1>3. F = [U \in SUBSET D |-> Turn(F, U)]
    <2> HIDE DEF Turn
    <2> QED BY <1>2
  <1> HIDE DEF F
  <1>4. Folds(F, identity, events, D)
    BY <1>3 DEF Folds
  <1> QED BY <1>1, <1>4

\* The highest of some numbers.
LEMMA TopIsHighest ==
  ASSUME NEW n \in Nat, NEW U \in SUBSET (1 .. n), U # {}
  PROVE  Top(U) \in U /\ \A x \in U : x <= Top(U)
  <1> DEFINE C == {n - x : x \in U}
  <1>0. \A y \in U : y \in 1 .. n /\ y \in Int
    OBVIOUS
  <1>1. C \in SUBSET Nat /\ C # {}
    <2>1. \A y \in U : n - y \in Nat
      BY <1>0
    <2> QED BY <2>1
  <1>2. PICK c \in C : \A m \in C : c <= m
    BY <1>1, LeastNumber
  <1>3. PICK x \in U : c = n - x
    BY <1>2
  <1>4. ASSUME NEW y \in U
        PROVE  x >= y
    <2>1. n - y \in C
      OBVIOUS
    <2>2. n - x <= n - y
      BY <1>2, <1>3, <2>1
    <2> QED BY <1>0, <2>2
  <1> HIDE DEF C
  <1>5. Top(U) \in U /\ \A y \in U : Top(U) >= y
    BY <1>4 DEF Top, Message!Max
  <1>6. Top(U) \in Int
    BY <1>0, <1>5
  <1> QED BY <1>0, <1>5, <1>6

\* The recursion has a solution.
LEMMA FoldExists ==
  ASSUME NEW identity, NEW events, NEW N \in Nat
  PROVE  \E h : Folds(h, identity, events, 1 .. N)
  <1> DEFINE D == 1 .. N
             Turn(h, U) == IF U = {} THEN Nothing
                           ELSE Take(identity, h[U \ {Top(U)}], events[Top(U)])
             Upto(h, n) == \A U \in SUBSET D : Cardinality(U) <= n => h[U] = Turn(h, U)
             Bad == {n \in Nat : ~ \E h : h = [U \in SUBSET D |-> h[U]] /\ Upto(h, n)}
  <1>0. IsFiniteSet(D)
    BY FS_Interval
  <1>1. \A U \in SUBSET D : /\ IsFiniteSet(U) /\ Cardinality(U) \in Nat
                            /\ Cardinality(U) <= Cardinality(D)
                            /\ U = {} <=> Cardinality(U) = 0
    BY <1>0, FS_Subset, FS_CardinalityType, FS_EmptySet
  <1>2. \A U \in SUBSET D : U # {} =>
           /\ Top(U) \in U /\ U \ {Top(U)} \in SUBSET D
           /\ Cardinality(U \ {Top(U)}) = Cardinality(U) - 1
    BY <1>1, FS_RemoveElement, TopIsHighest
  <1> HIDE DEF D
  <1>4. Bad = {}
    <2>1. SUFFICES ASSUME Bad # {}
                   PROVE  FALSE
      OBVIOUS
    <2>2. PICK n \in Bad : \A m \in Bad : n <= m
      BY <2>1, LeastNumber
    <2>3. n \in Nat
      BY <2>2
    <2>4. n # 0
      <3> DEFINE z == [U \in SUBSET D |-> Nothing]
      <3>1. z = [U \in SUBSET D |-> z[U]]
        OBVIOUS
      <3>2. Upto(z, 0)
        BY <1>1
      <3> HIDE DEF z, Upto
      <3> QED BY <3>1, <3>2, <2>2
    <2>5. n - 1 \notin Bad /\ n - 1 \in Nat
      <3> HIDE DEF Bad
      <3>1. n - 1 \in Nat /\ ~ (n <= n - 1)
        BY <2>3, <2>4
      <3> QED BY <2>2, <3>1
    <2>6. PICK h : Upto(h, n - 1)
      <3> HIDE DEF Upto
      <3> QED BY <2>5
    <2> DEFINE k == [U \in SUBSET D |-> Turn(h, U)]
    <2>7. k = [U \in SUBSET D |-> k[U]]
      OBVIOUS
    <2>8. ASSUME NEW U \in SUBSET D, Cardinality(U) <= n
          PROVE  k[U] = Turn(k, U)
      <3>1. CASE U = {}
        BY <3>1
      <3>2. CASE U # {}
        <4> DEFINE V == U \ {Top(U)}
        <4>1. V \in SUBSET D /\ Cardinality(V) <= n - 1
          BY <1>1, <1>2, <2>3, <2>8, <3>2
        <4>2. h[V] = Turn(h, V)
          BY <4>1, <2>6
        <4>3. k[V] = Turn(h, V)
          BY <4>1
        <4>4. k[U] = Take(identity, h[V], events[Top(U)])
          BY <3>2
        <4> QED BY <3>2, <4>2, <4>3, <4>4
      <3> QED BY <3>1, <3>2
    <2>9. Upto(k, n)
      BY <2>8
    <2> HIDE DEF k, Upto
    <2> QED BY <2>2, <2>7, <2>9
  <1>5. Cardinality(D) \in Nat
    BY <1>0, FS_CardinalityType
  <1>6. PICK h : h = [U \in SUBSET D |-> h[U]] /\ Upto(h, Cardinality(D))
    <2> HIDE DEF Upto
    <2> QED BY <1>4, <1>5
  <1>7. \A U \in SUBSET D : h[U] = Turn(h, U)
    BY <1>1, <1>6
  <1>8. h = [U \in SUBSET D |-> Turn(h, U)]
    <2> HIDE DEF Turn, Upto
    <2> QED BY <1>6, <1>7
  <1> QED BY <1>8 DEF Folds, D

\* The loop, one observation after the other.
Turns(r, identity, events, N) ==
  /\ r[0] = Nothing
  /\ \A n \in 1 .. N : r[n] = Take(identity, r[n - 1], events[n])
  /\ Message!collectEvents(identity, events) = r[N]

\* The fold takes them in the order of the log.
LEMMA CollectInOrder ==
  ASSUME NEW identity, NEW events, NEW N \in Nat, DOMAIN events = 1 .. N
  PROVE  \E r : Turns(r, identity, events, N)
  <1>1. PICK h : /\ Folds(h, identity, events, 1 .. N)
                 /\ Message!collectEvents(identity, events) = h[1 .. N]
    BY FoldExists, CollectIsFold
  <1> DEFINE r == [n \in 0 .. N |-> h[1 .. n]]
  <1>2. r[0] = Nothing
    <2>1. 0 \in 0 .. N /\ 1 .. 0 = {}
      OBVIOUS
    <2>2. h[{}] = Nothing
      BY <1>1 DEF Folds
    <2> QED BY <2>1, <2>2
  <1>3. ASSUME NEW n \in 1 .. N
        PROVE  r[n] = Take(identity, r[n - 1], events[n])
    <2>1. /\ 1 .. n \in SUBSET (1 .. N) /\ 1 .. n # {} /\ n \in Nat
          /\ n - 1 \in 0 .. N /\ n \in 0 .. N /\ (1 .. n) \ {n} = 1 .. n - 1
      OBVIOUS
    <2>2. Top(1 .. n) = n
      <3>1. Top(1 .. n) \in 1 .. n /\ \A x \in 1 .. n : x <= Top(1 .. n)
        BY <2>1, TopIsHighest
      <3>2. n \in 1 .. n
        BY <2>1
      <3> QED BY <3>1, <3>2
    <2> DEFINE D == 1 .. n
    <2>3. D \in SUBSET (1 .. N) /\ D # {}
      BY <2>1
    <2> HIDE DEF D
    <2>4. h[D] = Take(identity, h[D \ {Top(D)}], events[Top(D)])
      BY <1>1, <2>3 DEF Folds
    <2>5. h[1 .. n] = Take(identity, h[1 .. n - 1], events[n])
      BY <2>1, <2>2, <2>4 DEF D
    <2> QED BY <2>1, <2>5
  <1>4. r[N] = h[1 .. N]
    OBVIOUS
  <1> HIDE DEF r
  <1>5. Turns(r, identity, events, N)
    BY <1>1, <1>2, <1>3, <1>4 DEF Turns
  <1> QED BY <1>5

\* Among the observations of an event some count.
LEMMA HighestExists ==
  ASSUME NEW S, \A e \in S : IsObservation(e), NEW e \in S
  PROVE  \E g \in Highest(S) : /\ Message!Key(g) = Message!Key(e)
                               /\ Message!rank(e.finality) <= Message!rank(g.finality)
  <1> DEFINE Rank(f) == Message!rank(f.finality)
             Same == {f \in S : Message!Key(f) = Message!Key(e)}
  <1>1. \A f \in S : Rank(f) \in {0, 1, 2}
    BY DEF IsObservation, Message!Finality, Message!rank
  <1> HIDE DEF Rank
  <1>2. \E g \in Same : \A f \in Same : Rank(f) <= Rank(g)
    <2>1. CASE \E g \in Same : Rank(g) = 2
      BY <1>1, <2>1
    <2>2. CASE (\A g \in Same : Rank(g) # 2) /\ \E g \in Same : Rank(g) = 1
      BY <1>1, <2>2
    <2>3. CASE \A g \in Same : Rank(g) # 2 /\ Rank(g) # 1
      BY <1>1, <2>3
    <2> QED BY <2>1, <2>2, <2>3
  <1>3. PICK g \in Same : \A f \in Same : Rank(f) <= Rank(g)
    BY <1>2
  <1>4. g \in S /\ Message!Key(g) = Message!Key(e) /\ Rank(e) <= Rank(g)
    BY <1>3
  <1>5. \A f \in S : Message!Key(f) = Message!Key(g) => Rank(f) <= Rank(g)
    BY <1>3
  <1> QED BY <1>4, <1>5 DEF Highest, Rank

\* Two observations that agree on everything are one.
LEMMA ObservationIsItsParts ==
  ASSUME NEW e, NEW f, IsObservation(e), IsObservation(f)
  PROVE  /\ Message!fingerprint(e) = Message!fingerprint(f) =>
              /\ e.identity = f.identity /\ e.chain = f.chain /\ e.kind = f.kind
              /\ e.tx = f.tx /\ e.block = f.block
         /\ Message!fingerprint(e) = Message!fingerprint(f)
              /\ Message!rank(e.finality) = Message!rank(f.finality) => e = f
  <1>1. ASSUME NEW a, IsObservation(a)
        PROVE  Message!fingerprint(a)
                 = [identity |-> a.identity, chain |-> a.chain, kind |-> a.kind, tx |-> a.tx,
                    block |-> a.block, finality |-> "any"]
    <2>1. PICK i0, c0, k0, t0, b0, f0 :
            a = [identity |-> i0, chain |-> c0, kind |-> k0, tx |-> t0, block |-> b0, finality |-> f0]
      BY <1>1 DEF IsObservation
    <2> QED BY <2>1 DEF Message!fingerprint
  <1>2. ASSUME Message!fingerprint(e) = Message!fingerprint(f)
        PROVE  /\ e.identity = f.identity /\ e.chain = f.chain /\ e.kind = f.kind
               /\ e.tx = f.tx /\ e.block = f.block
    <2>1. [identity |-> e.identity, chain |-> e.chain, kind |-> e.kind, tx |-> e.tx,
           block |-> e.block, finality |-> "any"]
          = [identity |-> f.identity, chain |-> f.chain, kind |-> f.kind, tx |-> f.tx,
             block |-> f.block, finality |-> "any"]
      BY <1>1, <1>2
    <2> QED BY <2>1
  <1>3. Message!rank(e.finality) = Message!rank(f.finality) => e.finality = f.finality
    BY DEF IsObservation, Message!Finality, Message!rank
  <1>4. ASSUME Message!fingerprint(e) = Message!fingerprint(f),
               Message!rank(e.finality) = Message!rank(f.finality)
        PROVE  e = f
    BY <1>2, <1>3, <1>4 DEF IsObservation
  <1> QED BY <1>2, <1>4

\* What was collected is what those observations make.
Collects(c, identity, S) ==
  /\ c.error \in BOOLEAN /\ c.error <=> Wrong(identity, S)
  /\ ~ c.error => c.events = Highest(S)

\* One more observation.
LEMMA TakeOne ==
  ASSUME NEW identity, NEW S, NEW e, \A f \in S \cup {e} : IsObservation(f),
         NEW c, Collects(c, identity, S)
  PROVE  Collects(Take(identity, c, e), identity, S \cup {e})
  <1>0. /\ c.error \in BOOLEAN /\ c.error <=> Wrong(identity, S)
        /\ ~ c.error => c.events = Highest(S)
    BY DEF Collects
  <1> SUFFICES LET d == Take(identity, c, e)
               IN  /\ d.error \in BOOLEAN /\ d.error <=> Wrong(identity, S \cup {e})
                   /\ ~ d.error => d.events = Highest(S \cup {e})
    BY DEF Collects
  <1> DEFINE d == Take(identity, c, e)
             Rank(f) == Message!rank(f.finality)
             K(f) == Message!Key(f)
  <1>1. /\ d.error = (c.error \/ e.identity # identity \/ \E f \in c.events : Clash(f, e) \/ Clash(e, f))
        /\ d.events = Message!KeepHighest(c.events, e)
    BY DEF Take, Clash
  <1>2. \A f \in S \cup {e} : Rank(f) \in {0, 1, 2}
    BY DEF IsObservation, Message!Finality, Message!rank
  <1>3. \A f \in S : \E g \in Highest(S) : g \in S /\ K(g) = K(f) /\ Rank(f) <= Rank(g)
    BY HighestExists DEF Highest
  <1>4. CASE Wrong(identity, S)
    <2>1. Wrong(identity, S \cup {e})
      BY <1>4 DEF Wrong
    <2> QED BY <1>0, <1>1, <1>4, <2>1
  <1>5. CASE ~ Wrong(identity, S)
    <2>1. ~ c.error /\ c.events = Highest(S)
      BY <1>0, <1>5
    <2>2. ASSUME d.error
          PROVE  Wrong(identity, S \cup {e})
      <3>1. e.identity # identity \/ \E f \in S : Clash(f, e) \/ Clash(e, f)
        BY <1>1, <2>1, <2>2 DEF Highest
      <3> QED BY <3>1 DEF Wrong
    <2>3. ASSUME ~ d.error
          PROVE  ~ Wrong(identity, S \cup {e})
      <3>1. SUFFICES ASSUME NEW f \in S, Clash(e, f) \/ Clash(f, e)
                     PROVE  FALSE
        <4>1. e.identity = identity
          BY <1>1, <2>3
        <4>2. ~ Clash(e, e)
          BY DEF Clash
        <4> QED BY <1>5, <4>1, <4>2 DEF Wrong
      <3>2. PICK g \in Highest(S) : g \in S /\ K(g) = K(f)
        BY <1>3
      <3>3. Message!fingerprint(g) = Message!fingerprint(f)
        BY <1>5, <3>2 DEF Wrong, Clash
      <3>4. Clash(g, e)
        BY <3>1, <3>2, <3>3 DEF Clash
      <3> QED BY <1>1, <2>1, <2>3, <3>2, <3>4
    <2>4. ASSUME ~ d.error
          PROVE  d.events = Highest(S \cup {e})
      <3>1. ~ Wrong(identity, S \cup {e})
        BY <2>3, <2>4
      <3>2. \A f \in S : K(f) = K(e) /\ Rank(f) = Rank(e) => f = e
        BY <3>1, ObservationIsItsParts DEF Wrong, Clash
      <3>3. CASE \E f \in Highest(S) : K(f) = K(e) /\ Rank(e) <= Rank(f)
        <4>1. d.events = Highest(S)
          BY <1>1, <2>1, <3>3 DEF Message!KeepHighest
        <4>2. PICK f \in Highest(S) : K(f) = K(e) /\ Rank(e) <= Rank(f)
          BY <3>3
        <4>3. f \in S
          BY DEF Highest
        <4>4. ASSUME NEW g \in Highest(S)
              PROVE  g \in Highest(S \cup {e})
          <5>1. g \in S /\ \A x \in S : K(x) = K(g) => Rank(x) <= Rank(g)
            BY DEF Highest
          <5>2. K(e) = K(g) => Rank(e) <= Rank(g)
            BY <1>2, <4>2, <4>3, <5>1
          <5>3. \A x \in S \cup {e} : K(x) = K(g) => Rank(x) <= Rank(g)
            BY <5>1, <5>2
          <5> QED BY <5>1, <5>3 DEF Highest
        <4>5. ASSUME NEW g \in Highest(S \cup {e})
              PROVE  g \in Highest(S)
          <5>1. g \in S \cup {e} /\ \A x \in S \cup {e} : K(x) = K(g) => Rank(x) <= Rank(g)
            BY DEF Highest
          <5>2. CASE g = e
            <6>1. Rank(f) <= Rank(e)
              BY <4>2, <4>3, <5>1, <5>2
            <6>2. f = e
              BY <1>2, <3>2, <4>2, <4>3, <6>1
            <6> QED BY <5>2, <6>2
          <5>3. CASE g \in S
            BY <5>1, <5>3 DEF Highest
          <5> QED BY <5>1, <5>2, <5>3
        <4> QED BY <4>1, <4>4, <4>5
      <3>4. CASE ~ \E f \in Highest(S) : K(f) = K(e) /\ Rank(e) <= Rank(f)
        <4>1. d.events = {f \in Highest(S) : K(f) # K(e)} \cup {e}
          BY <1>1, <2>1, <3>4 DEF Message!KeepHighest
        <4>2. \A f \in S : K(f) = K(e) => Rank(f) < Rank(e)
          BY <1>2, <1>3, <3>4
        <4>3. e \in Highest(S \cup {e})
          <5>1. \A x \in S \cup {e} : K(x) = K(e) => Rank(x) <= Rank(e)
            BY <1>2, <4>2
          <5> QED BY <5>1 DEF Highest
        <4>4. ASSUME NEW g \in Highest(S), K(g) # K(e)
              PROVE  g \in Highest(S \cup {e})
          BY <4>4 DEF Highest
        <4>5. ASSUME NEW g \in Highest(S \cup {e}), g # e
              PROVE  g \in Highest(S) /\ K(g) # K(e)
          <5>1. g \in S /\ \A x \in S \cup {e} : K(x) = K(g) => Rank(x) <= Rank(g)
            BY <4>5 DEF Highest
          <5>2. K(g) # K(e)
            BY <1>2, <4>2, <5>1
          <5> QED BY <5>1, <5>2 DEF Highest
        <4> QED BY <4>1, <4>3, <4>4, <4>5
      <3> QED BY <3>3, <3>4
    <2>5. d.error \in BOOLEAN
      BY <1>1, <2>1
    <2> QED BY <2>2, <2>3, <2>4, <2>5
  <1> QED BY <1>4, <1>5

\* What a log's observations are.
Seen(events, N) == {events[n] : n \in 1 .. N}

\* What is collected from a log depends on which observations are in it.
LEMMA Collected ==
  ASSUME NEW identity, NEW events, NEW N \in Nat, DOMAIN events = 1 .. N,
         \A e \in Seen(events, N) : IsObservation(e)
  PROVE  Collects(Message!collectEvents(identity, events), identity, Seen(events, N))
  <1>0. PICK r : Turns(r, identity, events, N)
    BY CollectInOrder
  <1>1. /\ r[0] = Nothing
        /\ \A n \in 1 .. N : r[n] = Take(identity, r[n - 1], events[n])
        /\ Message!collectEvents(identity, events) = r[N]
    BY <1>0 DEF Turns
  <1> DEFINE Right(n) == Collects(r[n], identity, Seen(events, n))
             Bad == {n \in 0 .. N : ~ Right(n)}
  <1>2. Right(0)
    <2>1. Seen(events, 0) = {}
      BY DEF Seen
    <2>2. r[0].error = FALSE /\ r[0].events = {}
      BY <1>1 DEF Nothing
    <2>3. ~ Wrong(identity, {}) /\ Highest({}) = {}
      BY DEF Wrong, Highest
    <2> QED BY <2>1, <2>2, <2>3 DEF Collects
  <1>3. Bad = {}
    <2>1. SUFFICES ASSUME Bad # {}
                   PROVE  FALSE
      OBVIOUS
    <2> HIDE DEF Right
    <2>2. PICK n \in Bad : \A m \in Bad : n <= m
      <3>1. Bad \in SUBSET Nat
        OBVIOUS
      <3> QED BY <2>1, <3>1, LeastNumber
    <2>3. n \in 1 .. N /\ n - 1 \in 0 .. N /\ n \in Nat
      BY <1>2, <2>2
    <2>4. Right(n - 1)
      <3>1. ~ (n <= n - 1)
        BY <2>3
      <3> QED BY <2>2, <2>3, <3>1
    <2>5. PICK c, e, S : c = r[n - 1] /\ e = events[n] /\ S = Seen(events, n - 1)
      OBVIOUS
    <2>6. Seen(events, n) = S \cup {e}
      BY <2>3, <2>5 DEF Seen
    <2>7. \A f \in S \cup {e} : IsObservation(f)
      BY <2>3, <2>5 DEF Seen
    <2>8. r[n] = Take(identity, c, e)
      BY <1>1, <2>3, <2>5
    <2>9. Collects(c, identity, S)
      BY <2>4, <2>5 DEF Right
    <2>10. Collects(Take(identity, c, e), identity, S \cup {e})
      BY <2>7, <2>9, TakeOne
    <2>11. Right(n)
      BY <2>6, <2>8, <2>10 DEF Right
    <2> QED BY <2>2, <2>11
  <1>4. Right(N)
    <2> HIDE DEF Right
    <2> QED BY <1>3
  <1> QED BY <1>1, <1>4

\* projectMessage() of the observations there are.
Projected(identity, S, manual) ==
  LET At(spot)   == {e \in Highest(S) : <<e.chain, e.kind>> = spot}
      source      == At(Message!roles(identity.direction).source)
      destination == At(Message!roles(identity.direction).destination)
      Final(T)    == \E e \in T : e.finality = "finalized"
  IN  IF Wrong(identity, S)                                THEN Message!Report("inconsistent", -1)
      ELSE IF \E e \in Highest(S) : e.finality = "reorged" THEN Message!Report("unknown", -1)
      ELSE IF \/ Highest(S) # source \cup destination
              \/ Message!Duplicated(source, destination)
              \/ source = {} /\ destination # {}           THEN Message!Report("inconsistent", -1)
      ELSE IF ~ Final(source)                              THEN Message!Report("unknown", -1)
      ELSE IF Final(destination)                           THEN Message!Report("settled", 0)
      ELSE Message!Report(IF manual THEN "manual-execution" ELSE "pending", identity.amount)

\* projectMessage() depends on which observations there are, on nothing else.
LEMMA ProjectionIsOfTheSet ==
  ASSUME NEW identity, NEW events, NEW N \in Nat, DOMAIN events = 1 .. N,
         \A e \in Seen(events, N) : IsObservation(e), NEW manual
  PROVE  Message!projectMessage(identity, events, manual)
           = Projected(identity, Seen(events, N), manual)
  <1> DEFINE c == Message!collectEvents(identity, events)
             S == Seen(events, N)
  <1>1. /\ c.error \in BOOLEAN /\ c.error <=> Wrong(identity, S)
        /\ ~ c.error => c.events = Highest(S)
    BY Collected DEF Collects
  <1> HIDE DEF c, S
  <1>2. CASE c.error
    <2>1. Message!projectMessage(identity, events, manual) = Message!Report("inconsistent", -1)
      BY <1>2 DEF Message!projectMessage, Message!null, c
    <2>2. Projected(identity, S, manual) = Message!Report("inconsistent", -1)
      BY <1>1, <1>2 DEF Projected
    <2> QED BY <2>1, <2>2 DEF S
  <1>3. CASE ~ c.error
    <2>1. c.events = Highest(S) /\ ~ Wrong(identity, S)
      BY <1>1, <1>3
    <2> HIDE <1>1
    <2>2. Message!projectMessage(identity, events, manual) = Projected(identity, S, manual)
      BY <1>3, <2>1 DEF Message!projectMessage, Message!null, Projected, c
    <2> QED BY <2>2 DEF S
  <1> QED BY <1>1, <1>2, <1>3

\* A reorganization among them is heard, whatever else is.
LEMMA ReorganizationIsHeard ==
  ASSUME NEW identity, NEW S, \A e \in S : IsObservation(e), NEW manual,
         NEW e \in S, e.finality = "reorged"
  PROVE  /\ \E g \in Highest(S) : g.finality = "reorged"
         /\ Projected(identity, S, manual).pendingAmount = -1
         /\ Projected(identity, S, manual).status # "settled"
  <1>1. PICK g \in Highest(S) : Message!rank(e.finality) <= Message!rank(g.finality)
    BY HighestExists
  <1>2. g.finality = "reorged"
    <2>1. IsObservation(g)
      BY DEF Highest
    <2> QED BY <1>1, <2>1 DEF IsObservation, Message!Finality, Message!rank
  <1> QED BY <1>2 DEF Projected, Message!Report

\* Of a set with no more than one element there are no two.
LEMMA NoTwo ==
  ASSUME NEW T, IsFiniteSet(T), ~ (Cardinality(T) > 1), NEW x \in T, NEW y \in T
  PROVE  x = y
  <1>1. SUFFICES ASSUME x # y PROVE FALSE
    OBVIOUS
  <1>2. IsFiniteSet(T \ {x}) /\ Cardinality(T \ {x}) = Cardinality(T) - 1
    BY FS_RemoveElement
  <1>3. Cardinality(T \ {x}) # 0
    <2>1. T \ {x} # {}
      BY <1>1
    <2> QED BY <1>2, <2>1, FS_EmptySet
  <1>4. Cardinality(T) \in Nat /\ Cardinality(T \ {x}) \in Nat
    BY <1>2, FS_CardinalityType
  <1> QED BY <1>2, <1>3, <1>4

\* What is settled has been observed of one message only.
LEMMA SettledIsOfOne ==
  ASSUME NEW identity, NEW S, NEW manual, Projected(identity, S, manual).status = "settled"
  PROVE  \A e \in S : e.identity = identity
  <1>1. ~ Wrong(identity, S)
    BY DEF Projected, Message!Report
  <1> QED BY <1>1 DEF Wrong

\* And of one final source and one final settlement, and of nothing else.
LEMMA SettledByTwo ==
  ASSUME NEW identity, NEW S, IsFiniteSet(S), \A e \in S : IsObservation(e), NEW manual,
         Projected(identity, S, manual).status = "settled"
  PROVE  \E s, d \in S :
           /\ s.finality = "finalized" /\ d.finality = "finalized"
           /\ <<s.chain, s.kind>> = Message!roles(identity.direction).source
           /\ <<d.chain, d.kind>> = Message!roles(identity.direction).destination
           /\ \A e \in S : Message!Key(e) \in {Message!Key(s), Message!Key(d)}
  <1> DEFINE At(spot)   == {e \in Highest(S) : <<e.chain, e.kind>> = spot}
             source      == At(Message!roles(identity.direction).source)
             destination == At(Message!roles(identity.direction).destination)
             Final(T)    == \E e \in T : e.finality = "finalized"
  <1>1. /\ ~ Wrong(identity, S)
        /\ Highest(S) = source \cup destination
        /\ ~ Message!Duplicated(source, destination)
        /\ Final(source) /\ Final(destination)
    <2> HIDE DEF source, destination, Final
    <2>1. Projected(identity, S, manual) =
            IF Wrong(identity, S)                                THEN Message!Report("inconsistent", -1)
            ELSE IF \E e \in Highest(S) : e.finality = "reorged" THEN Message!Report("unknown", -1)
            ELSE IF \/ Highest(S) # source \cup destination
                    \/ Message!Duplicated(source, destination)
                    \/ source = {} /\ destination # {}           THEN Message!Report("inconsistent", -1)
            ELSE IF ~ Final(source)                              THEN Message!Report("unknown", -1)
            ELSE IF Final(destination)                           THEN Message!Report("settled", 0)
            ELSE Message!Report(IF manual THEN "manual-execution" ELSE "pending", identity.amount)
      BY DEF Projected, source, destination, Final
    <2> QED BY <2>1 DEF Message!Report
  <1>2. IsFiniteSet(source) /\ IsFiniteSet(destination)
    <2>1. source \in SUBSET S /\ destination \in SUBSET S
      BY DEF Highest
    <2> HIDE DEF source, destination
    <2> QED BY <2>1, FS_Subset
  <1>3. PICK s \in source : s.finality = "finalized"
    BY <1>1
  <1>4. PICK d \in destination : d.finality = "finalized"
    BY <1>1
  <1>5. (\A e \in source : e = s) /\ (\A e \in destination : e = d)
    <2>1. ~ (Cardinality(source) > 1) /\ ~ (Cardinality(destination) > 1)
      <3>1. ~ Message!Duplicated(source, destination)
        BY <1>1
      <3> HIDE DEF source, destination
      <3>2. \A T : Message!Cardinality(T) = Cardinality(T)
        BY DEF Message!Cardinality, Cardinality
      <3> QED BY <3>1, <3>2 DEF Message!Duplicated
    <2>2. s \in source /\ d \in destination
      BY <1>3, <1>4
    <2> HIDE DEF source, destination
    <2>3. \A e \in source : e = s
      BY <1>2, <2>1, <2>2, NoTwo
    <2>4. \A e \in destination : e = d
      BY <1>2, <2>1, <2>2, NoTwo
    <2> QED BY <2>3, <2>4
  <1>6. ASSUME NEW e \in S
        PROVE  Message!Key(e) \in {Message!Key(s), Message!Key(d)}
    <2>1. PICK g \in Highest(S) : Message!Key(g) = Message!Key(e)
      BY HighestExists
    <2>2. g = s \/ g = d
      <3> HIDE DEF source, destination
      <3> QED BY <1>1, <1>5
    <2> QED BY <2>1, <2>2
  <1>9. s \in S /\ d \in S
    BY DEF Highest
  <1>10. /\ <<s.chain, s.kind>> = Message!roles(identity.direction).source
         /\ <<d.chain, d.kind>> = Message!roles(identity.direction).destination
    OBVIOUS
  <1> QED BY <1>3, <1>4, <1>6, <1>9, <1>10

----------------------------------------------------------------------------
(* The log of a message.  What is projected is what its observations are,  *)
(* in any order; an observation that is final names a transaction that is, *)
(* or a reorganization has been observable upon.                          *)

\* The log's own projectMessage() is the one above.
LEMMA LogProjects ==
  ASSUME NEW events, NEW N \in Nat, DOMAIN events = 1 .. N,
         \A e \in Seen(events, N) : IsObservation(e)
  PROVE  Log!Project(events) = Projected(Identity, Seen(events, N), FALSE)
  <1>1. Message!projectMessage(Identity, events, FALSE) = Projected(Identity, Seen(events, N), FALSE)
    BY ProjectionIsOfTheSet
  <1>2. Log!projectMessage(Identity, events, FALSE) = Message!projectMessage(Identity, events, FALSE)
    BY DEF Log!projectMessage, Log!collectEvents, Log!FoldLeft, Log!MapThenFoldSet, Log!Max,
           Log!KeepHighest, Log!Key, Log!fingerprint, Log!rank, Log!roles, Log!Report, Log!null,
           Log!Duplicated, Log!Cardinality,
           Message!projectMessage, Message!collectEvents, Message!FoldLeft,
           Message!MapThenFoldSet, Message!Max, Message!KeepHighest, Message!Key,
           Message!fingerprint, Message!rank, Message!roles, Message!Report, Message!null,
           Message!Duplicated, Message!Cardinality
  <1> QED BY <1>1, <1>2 DEF Log!Project

\* A set listed in some order.
LEMMA SetIsListed ==
  ASSUME NEW S, IsFiniteSet(S)
  PROVE  /\ Cardinality(S) \in Nat /\ DOMAIN Log!SetToSeq(S) = 1 .. Cardinality(S)
         /\ Log!SetToSeq(S) \in Seq(S)
         /\ Seen(Log!SetToSeq(S), Cardinality(S)) = S
  <1> DEFINE n == Cardinality(S)
             Lists(f) == f \in [1 .. n -> S] /\ \A a, b \in DOMAIN f : f[a] = f[b] => a = b
  <1>1. n \in Nat /\ \E f : Lists(f)
    <2>1. n \in Nat /\ ExistsBijection(1 .. n, S)
      BY FS_CardinalityType
    <2> QED BY <2>1 DEF ExistsBijection, Bijection, Injection, IsInjective
  <1>2. Log!SetToSeq(S) = CHOOSE f \in [1 .. n -> S] : \A a, b \in DOMAIN f : f[a] = f[b] => a = b
    <2>1. \A T : Log!Cardinality(T) = Cardinality(T)
      BY DEF Log!Cardinality, Cardinality
    <2> QED BY <2>1 DEF Log!SetToSeq, Log!IsInjective
  <1>3. PICK f : f = Log!SetToSeq(S) /\ f \in [1 .. n -> S]
                 /\ \A a, b \in DOMAIN f : f[a] = f[b] => a = b
    <2> HIDE DEF n
    <2> QED BY <1>1, <1>2
  <1>4. f \in Injection(1 .. n, S)
    BY <1>3 DEF Injection, IsInjective
  <1>5. IsFiniteSet(1 .. n) /\ Cardinality(1 .. n) = n
    BY <1>1, FS_Interval
  <1>6. f \in Surjection(1 .. n, S)
    BY <1>4, <1>5, FS_Injection
  <1>7. Seen(f, n) = S
    BY <1>3, <1>6 DEF Seen, Surjection
  <1>8. f \in Seq(S) /\ DOMAIN f = 1 .. n
    BY <1>1, <1>3
  <1> QED BY <1>1, <1>3, <1>7, <1>8

\* What the adapters can have seen of the chains, when fin is final there and
\* told has been true.
Genuine(e, fin, told) ==
  /\ IsObservation(e)
  /\ e.identity = Identity =>
       \E tx \in Log!Transactions : \E block : e = Log!Observation(tx, block, e.finality)
  /\ e.identity = Identity /\ e.finality = "finalized" =>
       e.tx \in fin \/ \E r \in told : r.finality = "reorged"

Logged(events) == {events[n] : n \in DOMAIN events}

LogInv ==
  /\ \E N \in Nat : DOMAIN log = 1 .. N
  /\ log \in Seq(Logged(log))
  /\ \A e \in true \cup Logged(log) : Genuine(e, final, true)

\* An observation of a transaction.
LEMMA ObservationIsOne ==
  ASSUME NEW tx \in Log!Transactions, NEW block, NEW finality \in {"unfinalized", "finalized", "reorged"}
  PROVE  LET e == Log!Observation(tx, block, finality)
         IN  /\ IsObservation(e) /\ e.identity = Identity /\ e.tx = tx /\ e.finality = finality
             /\ tx = "source" => <<e.chain, e.kind>> = Message!roles(Identity.direction).source
             /\ tx # "source" => <<e.chain, e.kind>> = Message!roles(Identity.direction).destination
  BY DEF Log!Observation, IsObservation, Log!roles, Message!roles, Message!Finality

\* The event of another message is one of another message.
LEMMA MisattributedIsAnother ==
  IsObservation(Log!Misattributed) /\ Log!Misattributed.identity # Identity
  <1>1. Identity \in [direction : Log!Directions, amount : Nat]
    BY ToolsAssumption DEF ToolsAssumption, Log!LogAssumption
  <1>2. [Identity EXCEPT !.amount = @ + 1] # Identity
    <2>1. PICK x : x = [Identity EXCEPT !.amount = @ + 1]
      OBVIOUS
    <2>2. x.amount = Identity.amount + 1 /\ Identity.amount \in Nat
      BY <1>1, <2>1
    <2>3. x # Identity
      BY <2>2
    <2> QED BY <2>1, <2>3
  <1>3. PICK o : o = Log!Observation("settlement", "another", "finalized")
    OBVIOUS
  <1>4. IsObservation(o)
    BY <1>3, ObservationIsOne DEF Log!Transactions
  <1>5. Log!Misattributed = [o EXCEPT !.identity = [Identity EXCEPT !.amount = @ + 1]]
    BY <1>3 DEF Log!Misattributed
  <1>6. PICK i0, c0, k0, t0, b0, f0 :
          /\ o = [identity |-> i0, chain |-> c0, kind |-> k0, tx |-> t0, block |-> b0, finality |-> f0]
          /\ f0 \in Message!Finality
    BY <1>4 DEF IsObservation
  <1>7. Log!Misattributed = [identity |-> [Identity EXCEPT !.amount = @ + 1], chain |-> c0,
                             kind |-> k0, tx |-> t0, block |-> b0, finality |-> f0]
    BY <1>5, <1>6
  <1> QED BY <1>2, <1>6, <1>7 DEF IsObservation

\* A log and one more observation.
LEMMA LogOfSome ==
  ASSUME NEW S, NEW l \in Seq(S), NEW N \in Nat, DOMAIN l = 1 .. N
  PROVE  Len(l) = N /\ l = [n \in 1 .. N |-> l[n]]
  <1>1. DOMAIN l = 1 .. Len(l) /\ Len(l) \in Nat
    OBVIOUS
  <1>2. Len(l) = N
    BY <1>1
  <1>3. l = [n \in 1 .. N |-> l[n]]
    OBVIOUS
  <1> QED BY <1>2, <1>3

Extends(m, l, N, e) ==
  /\ m \in Seq(Logged(l) \cup {e}) /\ DOMAIN m = 1 .. (N + 1)
  /\ \A n \in 1 .. N : m[n] = l[n]
  /\ m[N + 1] = e

\* And one more at its end.
LEMMA LogAndOneMore ==
  ASSUME NEW l, l \in Seq(Logged(l)), NEW N \in Nat, DOMAIN l = 1 .. N, NEW e
  PROVE  Extends(Append(l, e), l, N, e)
  <1>0. PICK S, m : S = Logged(l) /\ m = Append(l, e)
    OBVIOUS
  <1>1. Len(l) = N
    BY <1>0, LogOfSome
  <1>2. l \in Seq(S \cup {e}) /\ e \in S \cup {e}
    BY <1>0
  <1>3. m \in Seq(S \cup {e})
    BY <1>0, <1>2, AppendProperties
  <1>4. /\ Len(m) = N + 1
        /\ \A n \in 1 .. N : m[n] = l[n]
        /\ m[N + 1] = e
    BY <1>0, <1>1, <1>2, AppendProperties
  <1>5. DOMAIN m = 1 .. (N + 1)
    BY <1>3, <1>4
  <1> QED BY <1>0, <1>3, <1>4, <1>5 DEF Extends

\* What was genuine stays so when nothing final is lost without a word.
LEMMA GenuineStays ==
  ASSUME NEW e, NEW fin, NEW told, Genuine(e, fin, told), NEW later, NEW upon,
         (\E r \in told : r.finality = "reorged") => \E r \in upon : r.finality = "reorged",
         fin \subseteq later \/ \E r \in upon : r.finality = "reorged"
  PROVE  Genuine(e, later, upon)
  BY DEF Genuine

\* An observation of what is so is genuine.
LEMMA ObservationIsGenuine ==
  ASSUME NEW tx \in Log!Transactions, NEW block, NEW finality \in {"unfinalized", "finalized", "reorged"},
         NEW fin, NEW told, finality = "finalized" => tx \in fin
  PROVE  Genuine(Log!Observation(tx, block, finality), fin, told)
  <1>1. PICK e : e = Log!Observation(tx, block, finality)
    OBVIOUS
  <1>2. IsObservation(e) /\ e.tx = tx /\ e.finality = finality
    BY <1>1, ObservationIsOne
  <1> QED BY <1>1, <1>2 DEF Genuine

\* A new observation of the chains.
LEMMA TrueGrows ==
  ASSUME LogInv, NEW e, Genuine(e, final', true'), true' = true \cup {e}, log' = log,
         final \subseteq final' \/ e.finality = "reorged"
  PROVE  LogInv'
  <1>1. (\E r \in true : r.finality = "reorged") => \E r \in true' : r.finality = "reorged"
    OBVIOUS
  <1>2. final \subseteq final' \/ \E r \in true' : r.finality = "reorged"
    OBVIOUS
  <1>3. \A f \in true \cup Logged(log) : Genuine(f, final', true')
    BY <1>1, <1>2, GenuineStays DEF LogInv
  <1>4. Logged(log)' = Logged(log)
    BY DEF Logged
  <1>5. \A f \in true' \cup Logged(log)' : Genuine(f, final', true')
    BY <1>3, <1>4
  <1> QED BY <1>4, <1>5 DEF LogInv

\* Whatever the chains do and the adapters deliver, the log stays genuine.
LEMMA LogKeeps == LogInv /\ [ToolsNext]_toolVars => LogInv'
  <1> SUFFICES ASSUME LogInv, [ToolsNext]_toolVars PROVE LogInv'
    OBVIOUS
  <1>1. CASE UNCHANGED logVars
    <2>1. UNCHANGED <<placed, final, true, log, lost>>
      BY <1>1 DEF logVars
    <2> QED BY <2>1 DEF LogInv, Logged
  <1>2. CASE UNCHANGED toolVars \/ RunCustody \/ RunForward \/ RunObserve \/ RunStatus
    BY <1>1, <1>2 DEF toolVars, RunCustody, RunForward, RunObserve, RunStatus
  <1>3. ASSUME NEW tx \in Log!Transactions, NEW block, Log!Include(tx, block)
        PROVE  LogInv'
    <2>1. /\ true' = true \cup {Log!Observation(tx, block, "unfinalized")}
          /\ final' = final /\ log' = log
      BY <1>3 DEF Log!Include
    <2>2. Genuine(Log!Observation(tx, block, "unfinalized"), final', true')
      BY ObservationIsGenuine
    <2> QED BY <2>1, <2>2, TrueGrows
  <1>4. ASSUME NEW tx \in Log!Transactions, Log!Finalize(tx)
        PROVE  LogInv'
    <2>1. /\ true' = true \cup {Log!Observation(tx, placed[tx], "finalized")}
          /\ final' = final \cup {tx} /\ log' = log
      BY <1>4 DEF Log!Finalize
    <2>2. Genuine(Log!Observation(tx, placed[tx], "finalized"), final', true')
      BY <2>1, ObservationIsGenuine
    <2> QED BY <2>1, <2>2, TrueGrows
  <1>5. ASSUME NEW tx \in Log!Transactions, Log!Reorganize(tx)
        PROVE  LogInv'
    <2>1. true' = true \cup {Log!Observation(tx, placed[tx], "reorged")} /\ log' = log
      BY <1>5 DEF Log!Reorganize
    <2>2. Genuine(Log!Observation(tx, placed[tx], "reorged"), final', true')
      BY ObservationIsGenuine
    <2>3. Log!Observation(tx, placed[tx], "reorged").finality = "reorged"
      BY ObservationIsOne
    <2> QED BY <2>1, <2>2, <2>3, TrueGrows
  <1>6. ASSUME NEW e \in true, Log!Deliver(e)
        PROVE  LogInv'
    <2>1. log' = Append(log, e) /\ true' = true /\ final' = final
      BY <1>6 DEF Log!Deliver
    <2>2. PICK N \in Nat : DOMAIN log = 1 .. N
      BY DEF LogInv
    <2>3. PICK S : S = Logged(log) /\ log \in Seq(S)
      BY DEF LogInv
    <2>4. /\ DOMAIN log' = 1 .. (N + 1) /\ log' \in Seq(S \cup {e})
          /\ \A n \in 1 .. N : log'[n] = log[n]
          /\ log'[N + 1] = e
      <3>1. Extends(Append(log, e), log, N, e)
        BY <2>2, LogAndOneMore DEF LogInv
      <3> QED BY <2>1, <2>3, <3>1 DEF Extends
    <2>5. Logged(log)' = Logged(log) \cup {e}
      BY <2>2, <2>4 DEF Logged
    <2>6. log' \in Seq(Logged(log)')
      BY <2>3, <2>4, <2>5
    <2>7. N + 1 \in Nat
      BY <2>2
    <2>8. \A f \in true' \cup Logged(log)' : Genuine(f, final', true')
      BY <2>1, <2>5 DEF LogInv
    <2> QED BY <2>4, <2>6, <2>7, <2>8 DEF LogInv
  <1>7. CASE Log!Replace
    <2> DEFINE canonical == Log!Canonical
    <2>1. /\ log' = Log!SetToSeq(canonical) /\ true' = canonical \cup {Log!Misattributed}
          /\ final' = final
      BY <1>7 DEF Log!Replace
    <2>2. IsFiniteSet(canonical)
      <3> DEFINE There == {t \in Log!Transactions : placed[t] # Log!none}
                 O(tx) == Log!Observation(tx, placed[tx], IF tx \in final THEN "finalized" ELSE "unfinalized")
      <3>1. IsFiniteSet(Log!Transactions)
        <4>1. IsFiniteSet({}) /\ IsFiniteSet({} \cup {"source"})
          BY FS_EmptySet, FS_AddElement
        <4>2. IsFiniteSet(({} \cup {"source"}) \cup {"settlement"})
          BY <4>1, FS_AddElement
        <4>3. IsFiniteSet((({} \cup {"source"}) \cup {"settlement"}) \cup {"second-settlement"})
          BY <4>2, FS_AddElement
        <4>4. (({} \cup {"source"}) \cup {"settlement"}) \cup {"second-settlement"} = Log!Transactions
          BY DEF Log!Transactions
        <4> QED BY <4>3, <4>4
      <3>2. IsFiniteSet(There)
        BY <3>1, FS_Subset
      <3>3. canonical = {O(tx) : tx \in There}
        BY DEF Log!Canonical
      <3> DEFINE f == [tx \in There |-> O(tx)]
      <3>4. f \in Surjection(There, canonical)
        BY <3>3 DEF Surjection
      <3> HIDE DEF f, There
      <3> QED BY <3>2, <3>4, FS_Surjection
    <2>3. \A e \in canonical : Genuine(e, final', true')
      <3>1. SUFFICES ASSUME NEW tx \in Log!Transactions
                     PROVE  Genuine(Log!Observation(tx, placed[tx], IF tx \in final THEN "finalized" ELSE "unfinalized"),
                                    final', true')
        BY DEF Log!Canonical
      <3> QED BY <2>1, ObservationIsGenuine
    <2>4. Genuine(Log!Misattributed, final', true')
      BY MisattributedIsAnother DEF Genuine
    <2> HIDE DEF canonical
    <2>5. /\ Cardinality(canonical) \in Nat /\ DOMAIN log' = 1 .. Cardinality(canonical)
          /\ log' \in Seq(canonical) /\ Seen(log', Cardinality(canonical)) = canonical
      BY <2>1, <2>2, SetIsListed
    <2>6. Logged(log)' = canonical
      BY <2>5 DEF Logged, Seen
    <2> QED BY <2>1, <2>3, <2>4, <2>5, <2>6 DEF LogInv
  <1>8. CASE RunLog
    <2>1. Log!Next
      BY <1>8 DEF RunLog
    <2> QED BY <1>3, <1>4, <1>5, <1>6, <1>7, <2>1 DEF Log!Next
  <1> QED BY <1>2, <1>8 DEF ToolsNext

\* The log begins empty, beside one event that was misattributed.
LEMMA LogStarts == ToolsInit => LogInv
  <1> SUFFICES ASSUME ToolsInit PROVE LogInv
    OBVIOUS
  <1>1. final = {} /\ true = {Log!Misattributed} /\ log = <<>>
    BY DEF ToolsInit, Log!Init
  <1>2. Genuine(Log!Misattributed, final, true)
    BY MisattributedIsAnother DEF Genuine
  <1>3. DOMAIN log = 1 .. 0 /\ \A S : log \in Seq(S)
    <2>1. \A S : <<>> \in Seq(S)
      BY EmptySeq
    <2>2. 1 .. 0 = {} /\ DOMAIN <<>> = {}
      OBVIOUS
    <2> QED BY <1>1, <2>1, <2>2
  <1>4. Logged(log) = {}
    <2>1. DOMAIN log = {}
      BY <1>3
    <2> QED BY <2>1 DEF Logged
  <1> QED BY <1>1, <1>2, <1>3, <1>4 DEF LogInv

\* So the log is always genuine.
LEMMA LogRuns == ToolsSpec => []LogInv
  BY LogStarts, LogKeeps, PTL DEF ToolsSpec

\* What a genuine observation is of.
LEMMA GenuineIsOf ==
  ASSUME NEW e, NEW fin, NEW told, Genuine(e, fin, told), e.identity = Identity
  PROVE  /\ e.tx \in Log!Transactions
         /\ <<e.chain, e.kind>> = Message!roles(Identity.direction).source => e.tx = "source"
         /\ <<e.chain, e.kind>> = Message!roles(Identity.direction).destination => e.tx # "source"
  <1>1. PICK tx \in Log!Transactions : \E block : e = Log!Observation(tx, block, e.finality)
    BY DEF Genuine
  <1>2. e.finality \in {"unfinalized", "finalized", "reorged"}
    BY DEF Genuine, IsObservation, Message!Finality
  <1>3. /\ e.tx = tx
        /\ tx = "source" => <<e.chain, e.kind>> = Message!roles(Identity.direction).source
        /\ tx # "source" => <<e.chain, e.kind>> = Message!roles(Identity.direction).destination
    BY <1>1, <1>2, ObservationIsOne
  <1>4. Message!roles(Identity.direction).source # Message!roles(Identity.direction).destination
    BY DEF Message!roles
  <1> QED BY <1>3, <1>4

\* The order and the repetition of deliveries do not matter, and a message is
\* settled only when its tokens have arrived, by one settlement (84-88).
THEOREM StatusesAreTrue == ToolsSpec => []StatusIsTrue
  <1>1. ASSUME LogInv
        PROVE  Log!Project(log) = Log!Project(Log!SetToSeq(Log!Range(log)))
    <2>1. PICK N \in Nat : DOMAIN log = 1 .. N
      BY <1>1 DEF LogInv
    <2>2. PICK S : S = Seen(log, N)
      OBVIOUS
    <2>3. Log!Range(log) = S /\ Logged(log) = S
      BY <2>1, <2>2 DEF Log!Range, Logged, Seen
    <2>4. IsFiniteSet(S)
      <3>1. log \in Surjection(1 .. N, S)
        <4>1. log = [n \in 1 .. N |-> log[n]]
          <5>1. PICK T : log \in Seq(T)
            BY <1>1 DEF LogInv
          <5> QED BY <2>1, <5>1, LogOfSome
        <4>2. log \in [1 .. N -> S] /\ \A x \in S : \E n \in 1 .. N : log[n] = x
          BY <2>2, <4>1 DEF Seen
        <4> QED BY <4>2 DEF Surjection
      <3>2. IsFiniteSet(1 .. N)
        BY FS_Interval
      <3> QED BY <3>1, <3>2, FS_Surjection
    <2>5. \A e \in S : IsObservation(e)
      BY <1>1, <2>3 DEF LogInv, Genuine
    <2>6. Log!Project(log) = Projected(Identity, S, FALSE)
      BY <2>1, <2>2, <2>5, LogProjects
    <2>7. PICK q, M : /\ q = Log!SetToSeq(S) /\ M = Cardinality(S)
                      /\ M \in Nat /\ DOMAIN q = 1 .. M /\ Seen(q, M) = S
      BY <2>4, SetIsListed
    <2>8. Log!Project(q) = Projected(Identity, Seen(q, M), FALSE)
      BY <2>5, <2>7, LogProjects
    <2> QED BY <2>3, <2>6, <2>7, <2>8
  <1>2. ASSUME LogInv, Log!Project(log).status = "settled"
        PROVE  \E tx \in Log!Transactions \ {"source"} :
                 /\ {e.tx : e \in Log!Range(log)} = {"source", tx}
                 /\ {"source", tx} \subseteq final \/ \E e \in true : e.finality = "reorged"
    <2>1. PICK N \in Nat : DOMAIN log = 1 .. N
      BY <1>2 DEF LogInv
    <2>2. PICK S : S = Seen(log, N)
      OBVIOUS
    <2>3. Log!Range(log) = S /\ Logged(log) = S
      BY <2>1, <2>2 DEF Log!Range, Logged, Seen
    <2>4. IsFiniteSet(S)
      <3>1. log \in Surjection(1 .. N, S)
        <4>1. log = [n \in 1 .. N |-> log[n]]
          <5>1. PICK T : log \in Seq(T)
            BY <1>2 DEF LogInv
          <5> QED BY <2>1, <5>1, LogOfSome
        <4>2. log \in [1 .. N -> S] /\ \A x \in S : \E n \in 1 .. N : log[n] = x
          BY <2>2, <4>1 DEF Seen
        <4> QED BY <4>2 DEF Surjection
      <3>2. IsFiniteSet(1 .. N)
        BY FS_Interval
      <3> QED BY <3>1, <3>2, FS_Surjection
    <2>5. \A e \in S : Genuine(e, final, true) /\ IsObservation(e)
      BY <1>2, <2>3 DEF LogInv, Genuine
    <2>6. Projected(Identity, S, FALSE).status = "settled"
      <3>1. Log!Project(log) = Projected(Identity, Seen(log, N), FALSE)
        BY <2>1, <2>2, <2>5, LogProjects
      <3> QED BY <1>2, <2>2, <3>1
    <2>20. PICK manual : manual = FALSE
      OBVIOUS
    <2>21. Projected(Identity, S, manual).status = "settled" /\ \A e \in S : IsObservation(e)
      BY <2>5, <2>6, <2>20
    <2>7. \A e \in S : e.identity = Identity
      BY <2>21, SettledIsOfOne
    <2>8. PICK s \in S, d \in S :
            /\ s.finality = "finalized" /\ d.finality = "finalized"
            /\ <<s.chain, s.kind>> = Message!roles(Identity.direction).source
            /\ <<d.chain, d.kind>> = Message!roles(Identity.direction).destination
            /\ \A e \in S : Message!Key(e) \in {Message!Key(s), Message!Key(d)}
      BY <2>4, <2>21, SettledByTwo, SMTT(30)
    <2>9. s.tx = "source" /\ d.tx \in Log!Transactions \ {"source"}
      BY <2>5, <2>7, <2>8, GenuineIsOf
    <2>10. \A e \in S : e.tx = s.tx \/ e.tx = d.tx
      BY <2>8 DEF Message!Key
    <2>11. {e.tx : e \in S} = {"source", d.tx}
      BY <2>9, <2>10
    <2>12. {"source", d.tx} \subseteq final \/ \E e \in true : e.finality = "reorged"
      <3>1. s.tx \in final \/ \E e \in true : e.finality = "reorged"
        BY <2>5, <2>7, <2>8 DEF Genuine
      <3>2. d.tx \in final \/ \E e \in true : e.finality = "reorged"
        BY <2>5, <2>7, <2>8 DEF Genuine
      <3> QED BY <2>9, <3>1, <3>2
    <2> QED BY <2>3, <2>9, <2>11, <2>12
  <1>3. LogInv => StatusIsTrue
    BY <1>1, <1>2 DEF StatusIsTrue, Log!StatusIsTrue
  <1> QED BY <1>3, LogRuns, PTL

\* After a reorganization was delivered nothing delivered later restores success
\* (86-87).
THEOREM ReorganizationsStick == ToolsSpec => ReorgSticks
  <1> DEFINE Sticks ==
        (\E e \in Log!Range(log) : e.finality = "reorged") /\ Log!IsStrictPrefix(log, log')
          => Log!Project(log').pendingAmount = Log!null
  <1>1. ASSUME LogInv, LogInv', \E e \in Log!Range(log) : e.finality = "reorged",
               Log!IsStrictPrefix(log, log')
        PROVE  Log!Project(log').pendingAmount = Log!null
    <2>1. PICK S, later, T : /\ S = Logged(log) /\ later = log' /\ T = Logged(later)
      OBVIOUS
    <2>2. log \in Seq(S) /\ later \in Seq(T)
      BY <1>1, <2>1 DEF LogInv
    <2>3. PICK M \in Nat : DOMAIN later = 1 .. M
      BY <1>1, <2>1 DEF LogInv
    <2>4. \A e \in T : IsObservation(e)
      BY <1>1, <2>1 DEF LogInv, Genuine
    <2>5. T = Seen(later, M)
      BY <2>1, <2>3 DEF Logged, Seen
    <2>6. PICK n \in DOMAIN log : log[n].finality = "reorged"
      BY <1>1 DEF Log!Range
    <2>7. Len(log) <= Len(later) /\ SubSeq(log, 1, Len(log)) = SubSeq(later, 1, Len(log))
      BY <1>1, <2>1 DEF Log!IsStrictPrefix, Log!IsPrefix
    <2>8. n \in 1 .. Len(log) /\ Len(log) \in Nat /\ Len(later) \in Nat
          /\ DOMAIN later = 1 .. Len(later)
      BY <2>2, <2>6
    <2>9. SubSeq(log, 1, Len(log))[n] = log[n] /\ SubSeq(later, 1, Len(log))[n] = later[n]
      BY <2>2, <2>7, <2>8
    <2>10. later[n] \in T /\ later[n].finality = "reorged"
      BY <2>1, <2>6, <2>7, <2>8, <2>9 DEF Logged
    <2>11. Projected(Identity, T, FALSE).pendingAmount = -1
      BY <2>4, <2>10, ReorganizationIsHeard
    <2>12. Log!Project(later) = Projected(Identity, Seen(later, M), FALSE)
      BY <2>3, <2>4, <2>5, LogProjects
    <2> QED BY <2>1, <2>5, <2>11, <2>12 DEF Log!null
  <1>2. LogInv /\ LogInv' => [Sticks]_(Log!vars)
    BY <1>1
  <1>3. ReorgSticks <=> [][Sticks]_(Log!vars)
    BY DEF ReorgSticks, Log!ReorgSticks
  <1> HIDE DEF Sticks
  <1> QED BY <1>2, <1>3, LogRuns, PTL

----------------------------------------------------------------------------
(* The supply report.  A transfer of the inventory stands in both ledgers  *)
(* once its two events are final, and what else moved is known apart: two  *)
(* heights at which both events of every transfer are past differ by that. *)

Onward(t) == Status!Forward(t)

\* Where a transfer stands in each ledger; 0: not yet.
EthereumAt == [t \in Transfers |-> IF Onward(t) THEN sourceAt[t] ELSE settledAt[t]]
SolanaAt   == [t \in Transfers |-> IF Onward(t) THEN settledAt[t] ELSE sourceAt[t]]

\* The transfers the books of the inventory are about.
Counted == IF stage = "idle" THEN Transfers ELSE inventory

Past(height, S, h) == {t \in S : height[t] \in 1 .. h}

Brought(height, S, h) == Cardinality({t \in Past(height, S, h) : Onward(t)})
Taken(height, S, h)   == Cardinality({t \in Past(height, S, h) : ~ Onward(t)})

\* A ledger, when each transfer stands in it at its height: what it holds beside
\* what moved otherwise are the transfers of S, and no other.
LedgerTyped(ledger, height) ==
  /\ ledger \in Seq([held : Int, outside : Int, time : Int])
  /\ Len(ledger) # 0
  /\ height \in [Transfers -> Nat]
  /\ \A t \in Transfers : height[t] <= Len(ledger)
  /\ IsFiniteSet({t \in Transfers : height[t] # 0})

Balanced(ledger, height, S) ==
  \A h \in 1 .. Len(ledger) :
    ledger[h].held - ledger[h].outside
      = TransferAmount * (Brought(height, S, h) - Taken(height, S, h))

Ledger(ledger, height, S) == LedgerTyped(ledger, height) /\ Balanced(ledger, height, S)

ChainsInv ==
  /\ clock \in Int /\ inventory \subseteq Transfers
  /\ sourceAt \in [Transfers -> Nat] /\ settledAt \in [Transfers -> Nat]
  /\ \A t \in Transfers : settledAt[t] # 0 => sourceAt[t] # 0
  /\ stage # "idle" => \A t \in inventory : sourceAt[t] # 0
  /\ Ledger(eth, EthereumAt, Counted) /\ Ledger(sol, SolanaAt, Counted)

\* What an inspection says of a transfer whose events are at these heights.
Shows(inspected, onEthereum, onSolana) ==
  inspected.status = "settled" =>
    /\ onEthereum # 0 /\ onSolana # 0
    /\ \E e, f \in Status!Range(inspected.events) :
         /\ e.chain = "ethereum" /\ e.block = onEthereum
         /\ f.chain = "solana" /\ f.block = onSolana

Passed(pass) ==
  /\ DOMAIN pass = inventory
  /\ \A t \in inventory : Shows(pass[t], EthereumAt[t], SolanaAt[t])

Settling(t) == settledAt[t] \in 1 .. (IF Onward(t) THEN tips.solana ELSE tips.ethereum)

Behind == {"solana", "repeat", "after", "cleanup", "done"}

\* What the snapshot holds is what the ledgers held at its heights.
Pictured(seen) ==
  /\ stage \in Behind =>
       seen.ethereumHeight \in 1 .. Len(eth)
         /\ seen.lockedOnEthereum = eth[seen.ethereumHeight].held
  /\ stage \in Behind \ {"solana"} =>
       seen.solanaSlot \in 1 .. Len(sol) /\ seen.supplyOnSolana = sol[seen.solanaSlot].held
  /\ stage \in Behind \ {"solana", "repeat"} =>
       /\ seen.repeatedSlot \in 1 .. Len(sol)
       /\ seen = [ethereumHeight |-> seen.ethereumHeight, lockedOnEthereum |-> seen.lockedOnEthereum,
                  solanaSlot |-> seen.solanaSlot, supplyOnSolana |-> seen.supplyOnSolana,
                  repeatedSlot |-> seen.repeatedSlot, coherent |-> seen.coherent]

ReportInv ==
  /\ stage \in {"idle", "before", "ethereum"} \cup Behind
  /\ stage \in {"ethereum"} \cup Behind =>
       Passed(before) /\ \A t \in inventory : before[t].status = "settled" => Settling(t)
  /\ Pictured(snapshot)
  /\ stage \in {"cleanup", "done"} => Passed(after)
  /\ stage = "cleanup" => (snapshot.coherent => before = after)
  /\ IF stage = "done" THEN ReportIsTrue ELSE ~ report.known

StatusInv == ChainsInv /\ ReportInv

\* A ledger and one more block.
Grown(more, ledger, n, amount, apart) ==
  /\ more \in Seq([held : Int, outside : Int, time : Int]) /\ Len(more) = n + 1
  /\ \A h \in 1 .. n : more[h] = ledger[h]
  /\ more[n + 1].held = ledger[n].held + amount
  /\ more[n + 1].outside = ledger[n].outside + (IF apart THEN amount ELSE 0)

\* A block is added as the chain does.
LEMMA LedgerGrows ==
  ASSUME NEW ledger \in Seq([held : Int, outside : Int, time : Int]), Len(ledger) # 0,
         clock \in Int, NEW amount \in Int, NEW apart \in BOOLEAN
  PROVE  Grown(Status!Extended(ledger, amount, apart), ledger, Len(ledger), amount, apart)
  <1> DEFINE R == [held : Int, outside : Int, time : Int]
             n == Len(ledger)
  <1>1. n \in Nat /\ n \in 1 .. n
    OBVIOUS
  <1>2. ledger[n] \in R
    BY <1>1, ElementOfSeq
  <1>3. ledger[n].held \in Int /\ ledger[n].outside \in Int
    BY <1>2
  <1>4. PICK block : block = [held    |-> ledger[n].held + amount,
                              outside |-> ledger[n].outside + (IF apart THEN amount ELSE 0),
                              time    |-> clock]
    OBVIOUS
  <1>5. /\ block \in R /\ block.held = ledger[n].held + amount
        /\ block.outside = ledger[n].outside + (IF apart THEN amount ELSE 0)
    BY <1>3, <1>4
  <1>6. Status!Extended(ledger, amount, apart) = Append(ledger, block)
    BY <1>4 DEF Status!Extended, Status!Last
  <1> HIDE DEF R
  <1>7. PICK more : more = Append(ledger, block)
    OBVIOUS
  <1>8. /\ more \in Seq(R) /\ Len(more) = n + 1
        /\ \A h \in 1 .. n : more[h] = ledger[h]
        /\ more[n + 1] = block
    BY <1>5, <1>7, AppendProperties DEF R
  <1> QED BY <1>5, <1>6, <1>7, <1>8 DEF Grown, R

\* How many transfers are past a height.
LEMMA CountsAreFinite ==
  ASSUME NEW S \in SUBSET Transfers, NEW height, IsFiniteSet({u \in Transfers : height[u] # 0}),
         NEW h
  PROVE  /\ IsFiniteSet({u \in Past(height, S, h) : Onward(u)})
         /\ IsFiniteSet({u \in Past(height, S, h) : ~ Onward(u)})
         /\ Brought(height, S, h) \in Nat /\ Taken(height, S, h) \in Nat
  <1>1. {u \in Past(height, S, h) : Onward(u)} \subseteq {u \in Transfers : height[u] # 0}
    BY DEF Past
  <1>2. {u \in Past(height, S, h) : ~ Onward(u)} \subseteq {u \in Transfers : height[u] # 0}
    BY DEF Past
  <1>3. /\ IsFiniteSet({u \in Past(height, S, h) : Onward(u)})
        /\ IsFiniteSet({u \in Past(height, S, h) : ~ Onward(u)})
    BY <1>1, <1>2, FS_Subset
  <1> QED BY <1>3, FS_CardinalityType DEF Brought, Taken

\* A block in which no transfer of the inventory moves: none moves, or what does
\* is known apart.
LEMMA LedgerMovesApart ==
  ASSUME NEW S \in SUBSET Transfers, NEW ledger, NEW height, Ledger(ledger, height, S),
         NEW more, NEW amount \in Int, NEW apart \in BOOLEAN, apart \/ amount = 0,
         Grown(more, ledger, Len(ledger), amount, apart)
  PROVE  Ledger(more, height, S)
  <1>1. PICK n \in Nat : n = Len(ledger) /\ n # 0
    BY DEF Ledger, LedgerTyped
  <1>2. Past(height, S, n + 1) = Past(height, S, n)
    BY <1>1 DEF Past, Ledger, LedgerTyped
  <1>3. /\ Brought(height, S, n + 1) = Brought(height, S, n)
        /\ Taken(height, S, n + 1) = Taken(height, S, n)
    BY <1>2 DEF Brought, Taken
  <1>4. n \in 1 .. n /\ ledger[n] \in [held : Int, outside : Int, time : Int]
    <2>1. n \in 1 .. Len(ledger) /\ ledger \in Seq([held : Int, outside : Int, time : Int])
      BY <1>1 DEF Ledger, LedgerTyped
    <2> QED BY <1>1, <2>1, ElementOfSeq
  <1>5. more[n + 1].held - more[n + 1].outside = ledger[n].held - ledger[n].outside
    BY <1>1, <1>4 DEF Grown
  <1>6. Balanced(more, height, S)
    <2>1. SUFFICES ASSUME NEW h \in 1 .. (n + 1)
                   PROVE  more[h].held - more[h].outside
                            = TransferAmount * (Brought(height, S, h) - Taken(height, S, h))
      BY <1>1 DEF Balanced, Grown
    <2>2. CASE h \in 1 .. n
      BY <1>1, <2>2 DEF Grown, Ledger, Balanced
    <2>3. CASE h = n + 1
      BY <1>1, <1>3, <1>4, <1>5, <2>3 DEF Ledger, Balanced
    <2> QED BY <1>1, <2>2, <2>3
  <1>7. LedgerTyped(more, height)
    <2>1. /\ height \in [Transfers -> Nat] /\ \A t \in Transfers : height[t] <= n
          /\ IsFiniteSet({t \in Transfers : height[t] # 0})
      BY <1>1 DEF Ledger, LedgerTyped
    <2>2. more \in Seq([held : Int, outside : Int, time : Int]) /\ Len(more) = n + 1
      BY <1>1 DEF Grown
    <2>3. \A t \in Transfers : height[t] <= n + 1
      BY <1>1, <2>1
    <2> QED BY <1>1, <2>1, <2>2, <2>3 DEF LedgerTyped
  <1> QED BY <1>6, <1>7 DEF Ledger

\* A block in which a transfer moves that did not stand in this ledger.
LEMMA LedgerMoves ==
  ASSUME NEW S \in SUBSET Transfers, NEW ledger, NEW height, Ledger(ledger, height, S),
         NEW t \in Transfers, height[t] = 0, NEW more,
         Grown(more, ledger, Len(ledger), IF Onward(t) THEN TransferAmount ELSE -TransferAmount,
               t \notin S)
  PROVE  Ledger(more, [height EXCEPT ![t] = Len(ledger) + 1], S)
  <1>0. TransferAmount \in Nat
    BY ToolsAssumption DEF Status!StatusAssumption
  <1>1. PICK n \in Nat : n = Len(ledger) /\ n # 0
    BY DEF Ledger, LedgerTyped
  <1>2. PICK new : new = [height EXCEPT ![t] = n + 1]
    OBVIOUS
  <1>3. /\ height \in [Transfers -> Nat] /\ \A u \in Transfers : height[u] <= n
        /\ IsFiniteSet({u \in Transfers : height[u] # 0})
    BY <1>1 DEF Ledger, LedgerTyped
  <1>4. /\ \A h \in 1 .. n : Past(new, S, h) = Past(height, S, h)
        /\ Past(new, S, n + 1) = Past(height, S, n) \cup (IF t \in S THEN {t} ELSE {})
        /\ t \notin Past(height, S, n)
    <2>1. new \in [Transfers -> Nat] /\ new[t] = n + 1 /\ \A u \in Transfers \ {t} : new[u] = height[u]
      BY <1>2, <1>3
    <2>2. \A h \in 1 .. n : Past(new, S, h) = Past(height, S, h)
      BY <1>3, <2>1 DEF Past
    <2>3. /\ Past(new, S, n + 1) = Past(height, S, n) \cup (IF t \in S THEN {t} ELSE {})
          /\ t \notin Past(height, S, n)
      BY <1>3, <2>1 DEF Past
    <2> QED BY <2>2, <2>3
  <1>5. n \in 1 .. n /\ ledger[n] \in [held : Int, outside : Int, time : Int]
    <2>1. n \in 1 .. Len(ledger) /\ ledger \in Seq([held : Int, outside : Int, time : Int])
      BY <1>1 DEF Ledger, LedgerTyped
    <2> QED BY <1>1, <2>1, ElementOfSeq
  <1>6. PICK x \in Int : x = IF Onward(t) THEN TransferAmount ELSE -TransferAmount
    BY <1>0
  <1>7. /\ Len(more) = n + 1 /\ more[n + 1].held = ledger[n].held + x
        /\ more[n + 1].outside = ledger[n].outside + (IF t \notin S THEN x ELSE 0)
        /\ \A h \in 1 .. n : more[h] = ledger[h]
    BY <1>1, <1>6 DEF Grown
  <1>8. /\ IsFiniteSet({u \in Past(height, S, n) : Onward(u)})
        /\ IsFiniteSet({u \in Past(height, S, n) : ~ Onward(u)})
        /\ Brought(height, S, n) \in Nat /\ Taken(height, S, n) \in Nat
    BY <1>3, CountsAreFinite
  <1>9. more[n + 1].held - more[n + 1].outside
          = TransferAmount * (Brought(new, S, n + 1) - Taken(new, S, n + 1))
    <2>0. ledger[n].held - ledger[n].outside
            = TransferAmount * (Brought(height, S, n) - Taken(height, S, n))
      BY <1>1, <1>5 DEF Ledger, Balanced
    <2>1. CASE t \notin S
      <3>1. Past(new, S, n + 1) = Past(height, S, n)
        BY <1>4, <2>1
      <3>2. /\ Brought(new, S, n + 1) = Brought(height, S, n)
            /\ Taken(new, S, n + 1) = Taken(height, S, n)
        BY <3>1 DEF Brought, Taken
      <3>3. ledger[n].held \in Int /\ ledger[n].outside \in Int
        BY <1>5
      <3>4. more[n + 1].held - more[n + 1].outside = ledger[n].held - ledger[n].outside
        BY <1>6, <1>7, <2>1, <3>3
      <3> QED BY <2>0, <3>2, <3>4
    <2>2. CASE t \in S /\ Onward(t)
      <3>1. {u \in Past(new, S, n + 1) : Onward(u)}
              = {u \in Past(height, S, n) : Onward(u)} \cup {t}
        BY <1>4, <2>2
      <3>2. {u \in Past(new, S, n + 1) : ~ Onward(u)} = {u \in Past(height, S, n) : ~ Onward(u)}
        BY <1>4, <2>2
      <3>3. Brought(new, S, n + 1) = Brought(height, S, n) + 1
        BY <1>4, <1>8, <3>1, FS_AddElement DEF Brought
      <3>4. Taken(new, S, n + 1) = Taken(height, S, n)
        BY <3>2 DEF Taken
      <3>5. ledger[n].held \in Int /\ ledger[n].outside \in Int
        BY <1>5
      <3>6. more[n + 1].held - more[n + 1].outside
              = (ledger[n].held - ledger[n].outside) + TransferAmount
        BY <1>0, <1>6, <1>7, <2>2, <3>5
      <3>7. \A a, b \in Nat, x1 \in Nat : x1 * (a - b) + x1 = x1 * ((a + 1) - b)
        OBVIOUS
      <3> QED BY <1>0, <1>8, <2>0, <3>3, <3>4, <3>6, <3>7
    <2>3. CASE t \in S /\ ~ Onward(t)
      <3>1. {u \in Past(new, S, n + 1) : ~ Onward(u)}
              = {u \in Past(height, S, n) : ~ Onward(u)} \cup {t}
        BY <1>4, <2>3
      <3>2. {u \in Past(new, S, n + 1) : Onward(u)} = {u \in Past(height, S, n) : Onward(u)}
        BY <1>4, <2>3
      <3>3. Taken(new, S, n + 1) = Taken(height, S, n) + 1
        BY <1>4, <1>8, <3>1, FS_AddElement DEF Taken
      <3>4. Brought(new, S, n + 1) = Brought(height, S, n)
        BY <3>2 DEF Brought
      <3>5. ledger[n].held \in Int /\ ledger[n].outside \in Int
        BY <1>5
      <3>6. more[n + 1].held - more[n + 1].outside
              = (ledger[n].held - ledger[n].outside) - TransferAmount
        BY <1>0, <1>6, <1>7, <2>3, <3>5
      <3>7. \A a, b \in Nat, x1 \in Nat : x1 * (a - b) - x1 = x1 * (a - (b + 1))
        OBVIOUS
      <3> QED BY <1>0, <1>8, <2>0, <3>3, <3>4, <3>6, <3>7
    <2> QED BY <2>1, <2>2, <2>3
  <1>10. \A h \in 1 .. n : /\ Brought(new, S, h) = Brought(height, S, h)
                           /\ Taken(new, S, h) = Taken(height, S, h)
    BY <1>4 DEF Brought, Taken
  <1>11. Balanced(more, new, S)
    <2>1. SUFFICES ASSUME NEW h \in 1 .. (n + 1)
                   PROVE  more[h].held - more[h].outside
                            = TransferAmount * (Brought(new, S, h) - Taken(new, S, h))
      BY <1>7 DEF Balanced
    <2>2. CASE h \in 1 .. n
      BY <1>1, <1>7, <1>10, <2>2 DEF Ledger, Balanced
    <2>3. CASE h = n + 1
      BY <1>9, <2>3
    <2> QED BY <1>1, <2>2, <2>3
  <1>12. LedgerTyped(more, new)
    <2>1. {u \in Transfers : new[u] # 0} = {u \in Transfers : height[u] # 0} \cup {t}
      BY <1>2, <1>3
    <2>2. IsFiniteSet({u \in Transfers : new[u] # 0})
      BY <1>3, <2>1, FS_AddElement
    <2>3. new \in [Transfers -> Nat] /\ \A u \in Transfers : new[u] <= n + 1
      BY <1>2, <1>3
    <2> QED BY <1>1, <1>7, <2>2, <2>3 DEF LedgerTyped, Grown
  <1> QED BY <1>1, <1>2, <1>11, <1>12 DEF Ledger

\* The books of all transfers are those of an inventory of all that have begun.
LEMMA LedgerOfInventory ==
  ASSUME NEW ledger, NEW height, Ledger(ledger, height, Transfers),
         NEW S \in SUBSET Transfers, \A t \in Transfers : height[t] # 0 => t \in S
  PROVE  Ledger(ledger, height, S)
  <1>1. \A h \in 1 .. Len(ledger) : Past(height, S, h) = Past(height, Transfers, h)
    BY DEF Past
  <1>2. \A h \in 1 .. Len(ledger) : /\ Brought(height, S, h) = Brought(height, Transfers, h)
                                    /\ Taken(height, S, h) = Taken(height, Transfers, h)
    BY <1>1 DEF Brought, Taken
  <1> QED BY <1>2 DEF Ledger, Balanced

\* At heights past which every transfer of the inventory is in both ledgers, what
\* they hold differs by what moved otherwise.
LEMMA BooksAgree ==
  ASSUME ChainsInv, stage # "idle", NEW a \in 1 .. Len(eth), NEW b \in 1 .. Len(sol),
         \A t \in inventory : EthereumAt[t] \in 1 .. a /\ SolanaAt[t] \in 1 .. b
  PROVE  eth[a].held - sol[b].held = eth[a].outside - sol[b].outside
  <1>1. Past(EthereumAt, inventory, a) = Past(SolanaAt, inventory, b)
    BY DEF Past
  <1>2. /\ Brought(EthereumAt, inventory, a) = Brought(SolanaAt, inventory, b)
        /\ Taken(EthereumAt, inventory, a) = Taken(SolanaAt, inventory, b)
    BY <1>1 DEF Brought, Taken
  <1>3. Counted = inventory
    BY DEF Counted
  <1>4. /\ eth[a].held - eth[a].outside = TransferAmount
              * (Brought(EthereumAt, inventory, a) - Taken(EthereumAt, inventory, a))
        /\ sol[b].held - sol[b].outside = TransferAmount
              * (Brought(SolanaAt, inventory, b) - Taken(SolanaAt, inventory, b))
    BY <1>3 DEF ChainsInv, Ledger, Balanced
  <1>5. eth[a] \in [held : Int, outside : Int, time : Int]
    <2>1. eth \in Seq([held : Int, outside : Int, time : Int])
      BY DEF ChainsInv, Ledger, LedgerTyped
    <2> QED BY <2>1, ElementOfSeq
  <1>6. sol[b] \in [held : Int, outside : Int, time : Int]
    <2>1. sol \in Seq([held : Int, outside : Int, time : Int])
      BY DEF ChainsInv, Ledger, LedgerTyped
    <2> QED BY <2>1, ElementOfSeq
  <1>7. eth[a].held - eth[a].outside = sol[b].held - sol[b].outside
    BY <1>2, <1>4
  <1> QED BY <1>5, <1>6, <1>7

\* The report projects observations as the log does.
LEMMA StatusProjects ==
  ASSUME NEW identity, NEW events, NEW N \in Nat, DOMAIN events = 1 .. N,
         \A e \in Seen(events, N) : IsObservation(e), NEW manual
  PROVE  Status!projectMessage(identity, events, manual)
           = Projected(identity, Seen(events, N), manual)
  <1>1. Message!projectMessage(identity, events, manual) = Projected(identity, Seen(events, N), manual)
    BY ProjectionIsOfTheSet
  <1>2. Status!projectMessage(identity, events, manual) = Message!projectMessage(identity, events, manual)
    BY DEF Status!projectMessage, Status!collectEvents, Status!FoldLeft, Status!MapThenFoldSet,
           Status!Max, Status!KeepHighest, Status!Key, Status!fingerprint, Status!rank,
           Status!roles, Status!Report, Status!null, Status!Duplicated, Status!Cardinality,
           Message!projectMessage, Message!collectEvents, Message!FoldLeft,
           Message!MapThenFoldSet, Message!Max, Message!KeepHighest, Message!Key,
           Message!fingerprint, Message!rank, Message!roles, Message!Report, Message!null,
           Message!Duplicated, Message!Cardinality
  <1> QED BY <1>1, <1>2

\* What the report observes of a transfer.
LEMMA EventIsOne ==
  ASSUME NEW t, NEW spot, NEW tx, NEW height
  PROVE  LET e == Status!Event(t, spot, tx, height)
         IN  IsObservation(e) /\ e.chain = spot[1] /\ e.kind = spot[2] /\ e.block = height
  BY DEF Status!Event, IsObservation, Message!Finality

\* A transfer is only inspected as settled when a settlement was found, and then
\* by its two events at their heights.
LEMMA InspectionShows ==
  ASSUME NEW t \in Transfers, NEW found \in BOOLEAN, NEW manual, NEW p,
         p = Status!inspectTransfer(t, found, manual),
         sourceAt \in [Transfers -> Nat], settledAt \in [Transfers -> Nat],
         sourceAt[t] # 0, found => settledAt[t] # 0
  PROVE  Shows(p, EthereumAt[t], SolanaAt[t])
  <1> SUFFICES ASSUME p.status = "settled"
               PROVE  /\ EthereumAt[t] # 0 /\ SolanaAt[t] # 0
                      /\ \E e, f \in Status!Range(p.events) :
                           /\ e.chain = "ethereum" /\ e.block = EthereumAt[t]
                           /\ f.chain = "solana" /\ f.block = SolanaAt[t]
    BY DEF Shows
  <1>1. PICK direction, spots, a, b, identity :
          /\ direction = DirectionOf[t] /\ spots = Status!roles(direction)
          /\ a = Status!Event(t, spots.source, <<t, "source">>, sourceAt[t])
          /\ b = Status!Event(t, spots.destination, <<t, "settlement">>, settledAt[t])
          /\ identity = Status!IdentityOf(t)
    OBVIOUS
  <1>2. PICK events : events = <<a>> \o (IF found THEN <<b>> ELSE <<>>)
    OBVIOUS
  <1>3. /\ p.status = Status!projectMessage(identity, events, manual).status
        /\ p.events = events
    BY <1>1, <1>2 DEF Status!inspectTransfer
  <1>4. IsObservation(a) /\ a.block = sourceAt[t] /\ <<a.chain, a.kind>> = spots.source
    <2>1. spots.source = <<spots.source[1], spots.source[2]>>
      BY <1>1 DEF Status!roles
    <2> QED BY <1>1, <2>1, EventIsOne
  <1>5. IsObservation(b) /\ b.block = settledAt[t] /\ <<b.chain, b.kind>> = spots.destination
    <2>1. spots.destination = <<spots.destination[1], spots.destination[2]>>
      BY <1>1 DEF Status!roles
    <2> QED BY <1>1, <2>1, EventIsOne
  <1>6. identity.direction = direction
    BY <1>1 DEF Status!IdentityOf
  <1>7. spots = Message!roles(direction) /\ spots.source # spots.destination
    BY <1>1 DEF Status!roles, Message!roles
  <1>8. found
    <2>1. SUFFICES ASSUME ~ found PROVE FALSE
      OBVIOUS
    <2>2. DOMAIN events = 1 .. 1 /\ events[1] = a
      BY <1>2, <2>1
    <2>3. Seen(events, 1) = {a}
      BY <2>2 DEF Seen
    <2>4. Status!projectMessage(identity, events, manual) = Projected(identity, Seen(events, 1), manual)
      <3>1. \A e \in Seen(events, 1) : IsObservation(e)
        BY <1>4, <2>3
      <3>2. PICK N \in Nat : N = 1 /\ DOMAIN events = 1 .. N /\ Seen(events, N) = Seen(events, 1)
        BY <2>2
      <3>5. DOMAIN events = 1 .. N /\ \A e \in Seen(events, N) : IsObservation(e)
        BY <3>1, <3>2
      <3>3. Status!projectMessage(identity, events, manual) = Projected(identity, Seen(events, N), manual)
        BY <3>5, StatusProjects
      <3> QED BY <3>2, <3>3
    <2>5. PICK S : S = {a} /\ IsFiniteSet(S) /\ \A e \in S : IsObservation(e)
      <3>1. IsFiniteSet({a})
        BY FS_Singleton
      <3> QED BY <1>4, <3>1
    <2>6. Projected(identity, S, manual).status = "settled"
      BY <1>3, <2>3, <2>4, <2>5
    <2>7. PICK s \in S, d \in S :
            /\ <<s.chain, s.kind>> = Message!roles(identity.direction).source
            /\ <<d.chain, d.kind>> = Message!roles(identity.direction).destination
      BY <2>5, <2>6, SettledByTwo
    <2> QED BY <1>6, <1>7, <2>5, <2>7
  <1>9. DOMAIN events = 1 .. 2 /\ events[1] = a /\ events[2] = b
    BY <1>2, <1>8
  <1>10. a \in Status!Range(p.events) /\ b \in Status!Range(p.events)
    BY <1>3, <1>9 DEF Status!Range
  <1>11. settledAt[t] # 0
    BY <1>8
  <1>12. CASE Onward(t)
    <2>1. EthereumAt[t] = sourceAt[t] /\ SolanaAt[t] = settledAt[t]
      BY <1>12 DEF EthereumAt, SolanaAt
    <2>2. a.chain = "ethereum" /\ b.chain = "solana"
      BY <1>1, <1>4, <1>5, <1>12 DEF Status!roles, Onward, Status!Forward
    <2> QED BY <1>4, <1>5, <1>10, <1>11, <2>1, <2>2
  <1>13. CASE ~ Onward(t)
    <2>1. EthereumAt[t] = settledAt[t] /\ SolanaAt[t] = sourceAt[t]
      BY <1>13 DEF EthereumAt, SolanaAt
    <2>2. b.chain = "ethereum" /\ a.chain = "solana"
      BY <1>1, <1>4, <1>5, <1>13 DEF Status!roles, Onward, Status!Forward
    <2> QED BY <1>4, <1>5, <1>10, <1>11, <2>1, <2>2
  <1> QED BY <1>12, <1>13

runVars == <<stage, inventory, before, after, snapshot, report, tips>>

\* What is on the chains stays there.
Lasting ==
  /\ Len(eth) <= Len(eth') /\ \A h \in 1 .. Len(eth) : eth'[h] = eth[h]
  /\ Len(sol) <= Len(sol') /\ \A h \in 1 .. Len(sol) : sol'[h] = sol[h]
  /\ \A t \in Transfers : sourceAt[t] # 0 => sourceAt'[t] = sourceAt[t]
  /\ \A t \in Transfers : settledAt[t] # 0 => settledAt'[t] = settledAt[t]

\* The chains are sequences of blocks, and the lengths are numbers.
LEMMA ChainsAreTyped ==
  ASSUME ChainsInv
  PROVE  /\ clock \in Int
         /\ eth \in Seq([held : Int, outside : Int, time : Int])
         /\ sol \in Seq([held : Int, outside : Int, time : Int])
  BY DEF ChainsInv, Ledger, LedgerTyped

LEMMA ChainsHaveLengths ==
  ChainsInv => Len(eth) \in Nat \ {0} /\ Len(sol) \in Nat \ {0}
  <1> SUFFICES ASSUME ChainsInv PROVE Len(eth) \in Nat \ {0} /\ Len(sol) \in Nat \ {0}
    OBVIOUS
  <1>1. Len(eth) # 0 /\ Len(sol) # 0
    BY DEF ChainsInv, Ledger, LedgerTyped
  <1>2. Len(eth) \in Nat /\ Len(sol) \in Nat
    BY ChainsAreTyped, LenProperties
  <1> QED BY <1>1, <1>2

\* A block of either chain.
LEMMA EthereumGrows ==
  ASSUME StatusInv, NEW amount \in Int, NEW apart \in BOOLEAN, Status!Ethereum(amount, apart)
  PROVE  Grown(eth', eth, Len(eth), amount, apart) /\ sol' = sol
  <1>1. eth' = Status!Extended(eth, amount, apart) /\ sol' = sol
    BY DEF Status!Ethereum
  <1>2. /\ eth \in Seq([held : Int, outside : Int, time : Int]) /\ Len(eth) # 0 /\ clock \in Int
    BY ChainsAreTyped, ChainsHaveLengths DEF StatusInv
  <1>3. Grown(Status!Extended(eth, amount, apart), eth, Len(eth), amount, apart)
    BY <1>2, LedgerGrows
  <1> QED BY <1>1, <1>3

LEMMA SolanaGrows ==
  ASSUME StatusInv, NEW amount \in Int, NEW apart \in BOOLEAN, Status!Solana(amount, apart)
  PROVE  Grown(sol', sol, Len(sol), amount, apart) /\ eth' = eth
  <1>1. sol' = Status!Extended(sol, amount, apart) /\ eth' = eth
    BY DEF Status!Solana
  <1>2. /\ sol \in Seq([held : Int, outside : Int, time : Int]) /\ Len(sol) # 0 /\ clock \in Int
    BY ChainsAreTyped, ChainsHaveLengths DEF StatusInv
  <1>3. Grown(Status!Extended(sol, amount, apart), sol, Len(sol), amount, apart)
    BY <1>2, LedgerGrows
  <1> QED BY <1>1, <1>3

\* While the report stands, the chains going on take nothing from it.
LEMMA ReportSurvives ==
  ASSUME StatusInv, ChainsInv', UNCHANGED runVars, Lasting
  PROVE  ReportInv'
  <1>1. UNCHANGED <<stage, inventory, before, after, snapshot, report, tips>>
    BY DEF runVars
  <1>2. Len(eth) \in Nat /\ Len(sol) \in Nat /\ Len(eth') \in Nat /\ Len(sol') \in Nat
    <2>1. /\ eth' \in Seq([held : Int, outside : Int, time : Int])
          /\ sol' \in Seq([held : Int, outside : Int, time : Int])
      BY DEF ChainsInv, Ledger, LedgerTyped
    <2> QED BY <2>1, ChainsHaveLengths DEF StatusInv
  <1>3. inventory \subseteq Transfers
    BY DEF StatusInv, ChainsInv
  <1>4. \A t \in inventory : /\ EthereumAt[t] # 0 => EthereumAt'[t] = EthereumAt[t]
                             /\ SolanaAt[t] # 0 => SolanaAt'[t] = SolanaAt[t]
    BY <1>3 DEF EthereumAt, SolanaAt, Lasting
  <1>5. \A p : \A t \in inventory : Shows(p, EthereumAt[t], SolanaAt[t])
                                      => Shows(p, EthereumAt'[t], SolanaAt'[t])
    BY <1>4 DEF Shows
  <1>6. \A t \in inventory : Settling(t) => Settling(t)'
    <2>1. \A m : 0 \notin 1 .. m
      OBVIOUS
    <2> QED BY <1>1, <1>3, <2>1 DEF Settling, Lasting
  <1>7. /\ Passed(before) => Passed(before)'
        /\ Passed(after) => Passed(after)'
    BY <1>1, <1>5 DEF Passed
  <1>8. Pictured(snapshot)'
    <2>1. Pictured(snapshot)
      BY DEF StatusInv, ReportInv
    <2> QED BY <1>1, <1>2, <2>1 DEF Pictured, Lasting, Behind
  <1>9. stage = "done" /\ ReportIsTrue => ReportIsTrue'
    <2>1. SUFFICES ASSUME stage = "done", ReportIsTrue, report.known PROVE ReportIsTrue'
      BY <1>1 DEF ReportIsTrue, Status!ReportIsTrue
    <2>2. /\ snapshot.ethereumHeight \in 1 .. Len(eth) /\ snapshot.solanaSlot \in 1 .. Len(sol)
          /\ snapshot.repeatedSlot \in 1 .. Len(sol)
      BY <2>1 DEF StatusInv, ReportInv, Pictured, Behind
    <2>3. /\ eth'[snapshot.ethereumHeight] = eth[snapshot.ethereumHeight]
          /\ sol'[snapshot.solanaSlot] = sol[snapshot.solanaSlot]
          /\ sol'[snapshot.repeatedSlot] = sol[snapshot.repeatedSlot]
      BY <2>2 DEF Lasting
    <2>4. \A t \in inventory : Settling(t)'
      BY <1>6, <2>1 DEF ReportIsTrue, Status!ReportIsTrue, Settling, Onward
    <2> QED BY <1>1, <2>1, <2>3, <2>4 DEF ReportIsTrue, Status!ReportIsTrue, Settling, Onward
  <1> QED BY <1>1, <1>6, <1>7, <1>8, <1>9 DEF StatusInv, ReportInv

\* A block in which no transfer moves.
LEMMA EthereumApart ==
  ASSUME StatusInv, NEW amount \in Int, NEW apart \in BOOLEAN, apart \/ amount = 0,
         Status!Ethereum(amount, apart),
         UNCHANGED <<clock, sourceAt, settledAt>>, UNCHANGED runVars
  PROVE  StatusInv'
  <1>1. sol' = sol
    BY EthereumGrows
  <1>2. Grown(eth', eth, Len(eth), amount, apart)
    BY EthereumGrows
  <1>3. Counted \subseteq Transfers
    BY DEF Counted, StatusInv, ChainsInv
  <1>4. PICK more, height, S : more = eth' /\ height = EthereumAt /\ S = Counted
    OBVIOUS
  <1>5. Ledger(more, height, S)
    BY <1>2, <1>3, <1>4, LedgerMovesApart DEF StatusInv, ChainsInv
  <1>6. EthereumAt' = EthereumAt /\ SolanaAt' = SolanaAt /\ Counted' = Counted
    BY DEF EthereumAt, SolanaAt, Counted, runVars
  <1>7. ChainsInv'
    BY <1>1, <1>4, <1>5, <1>6 DEF StatusInv, ChainsInv, runVars
  <1>8. Lasting
    BY <1>1, <1>2, ChainsHaveLengths DEF Lasting, Grown, StatusInv
  <1> QED BY <1>7, <1>8, ReportSurvives DEF StatusInv

\* The same of Solana.
LEMMA SolanaApart ==
  ASSUME StatusInv, NEW amount \in Int, NEW apart \in BOOLEAN, apart \/ amount = 0,
         Status!Solana(amount, apart),
         UNCHANGED <<clock, sourceAt, settledAt>>, UNCHANGED runVars
  PROVE  StatusInv'
  <1>1. eth' = eth
    BY SolanaGrows
  <1>2. Grown(sol', sol, Len(sol), amount, apart)
    BY SolanaGrows
  <1>3. Counted \subseteq Transfers
    BY DEF Counted, StatusInv, ChainsInv
  <1>4. PICK more, height, S : more = sol' /\ height = SolanaAt /\ S = Counted
    OBVIOUS
  <1>5. Ledger(more, height, S)
    BY <1>2, <1>3, <1>4, LedgerMovesApart DEF StatusInv, ChainsInv
  <1>6. EthereumAt' = EthereumAt /\ SolanaAt' = SolanaAt /\ Counted' = Counted
    BY DEF EthereumAt, SolanaAt, Counted, runVars
  <1>7. ChainsInv'
    BY <1>1, <1>4, <1>5, <1>6 DEF StatusInv, ChainsInv, runVars
  <1>8. Lasting
    BY <1>1, <1>2, ChainsHaveLengths DEF Lasting, Grown, StatusInv
  <1> QED BY <1>7, <1>8, ReportSurvives DEF StatusInv

\* A block in which a transfer comes to stand in the ledger of its chain.
Arrives(t) ==
  /\ UNCHANGED clock /\ UNCHANGED runVars
  /\ sourceAt' \in [Transfers -> Nat] /\ settledAt' \in [Transfers -> Nat]
  /\ \A u \in Transfers : settledAt'[u] # 0 => sourceAt'[u] # 0
  /\ \A u \in Transfers : sourceAt[u] # 0 => sourceAt'[u] = sourceAt[u]
  /\ \A u \in Transfers : settledAt[u] # 0 => settledAt'[u] = settledAt[u]

Sum(t) == IF Onward(t) THEN TransferAmount ELSE -TransferAmount

\* A transfer of Ethereum's ledger that arrives keeps the books and the report.
LEMMA EthereumMoves ==
  ASSUME StatusInv, NEW t \in Transfers, Arrives(t), EthereumAt[t] = 0,
         Status!Ethereum(Sum(t), Status!Late(t)), SolanaAt' = SolanaAt,
         EthereumAt' = [EthereumAt EXCEPT ![t] = Len(eth')]
  PROVE  StatusInv'
  <1>0. Sum(t) \in Int /\ Status!Late(t) \in BOOLEAN
    BY ToolsAssumption DEF Sum, Status!StatusAssumption, Status!Late
  <1>1. sol' = sol
    BY <1>0, EthereumGrows
  <1>2. Grown(eth', eth, Len(eth), Sum(t), Status!Late(t))
    BY <1>0, EthereumGrows
  <1>3. Counted \subseteq Transfers /\ Status!Late(t) = (t \notin Counted) /\ Counted' = Counted
    BY DEF Counted, StatusInv, ChainsInv, Status!Late, Arrives, runVars
  <1>4. PICK more, height, S : more = eth' /\ height = EthereumAt /\ S = Counted
    OBVIOUS
  <1>5. Ledger(more, [height EXCEPT ![t] = Len(eth) + 1], S)
    <2>1. Grown(more, eth, Len(eth), Sum(t), t \notin S)
      BY <1>2, <1>3, <1>4
    <2>2. Ledger(eth, height, S) /\ height[t] = 0 /\ S \subseteq Transfers
      BY <1>3, <1>4 DEF StatusInv, ChainsInv
    <2> QED BY <2>1, <2>2, LedgerMoves DEF Sum
  <1>6. Len(eth') = Len(eth) + 1
    BY <1>2 DEF Grown
  <1>7. Ledger(eth, EthereumAt, Counted)'
    BY <1>3, <1>4, <1>5, <1>6
  <1>8. Ledger(sol, SolanaAt, Counted)'
    BY <1>1, <1>3 DEF StatusInv, ChainsInv
  <1>9. Lasting
    BY <1>1, <1>2, ChainsHaveLengths DEF Lasting, Grown, StatusInv, Arrives
  <1>10. stage' # "idle" => \A u \in inventory' : sourceAt'[u] # 0
    BY DEF StatusInv, ChainsInv, Arrives, runVars
  <1>11. ChainsInv'
    BY <1>7, <1>8, <1>10 DEF StatusInv, ChainsInv, Arrives, runVars
  <1> QED BY <1>9, <1>11, ReportSurvives DEF StatusInv, Arrives

\* The same of Solana.
LEMMA SolanaMoves ==
  ASSUME StatusInv, NEW t \in Transfers, Arrives(t), SolanaAt[t] = 0,
         Status!Solana(Sum(t), Status!Late(t)), EthereumAt' = EthereumAt,
         SolanaAt' = [SolanaAt EXCEPT ![t] = Len(sol')]
  PROVE  StatusInv'
  <1>0. Sum(t) \in Int /\ Status!Late(t) \in BOOLEAN
    BY ToolsAssumption DEF Sum, Status!StatusAssumption, Status!Late
  <1>1. eth' = eth
    BY <1>0, SolanaGrows
  <1>2. Grown(sol', sol, Len(sol), Sum(t), Status!Late(t))
    BY <1>0, SolanaGrows
  <1>3. Counted \subseteq Transfers /\ Status!Late(t) = (t \notin Counted) /\ Counted' = Counted
    BY DEF Counted, StatusInv, ChainsInv, Status!Late, Arrives, runVars
  <1>4. PICK more, height, S : more = sol' /\ height = SolanaAt /\ S = Counted
    OBVIOUS
  <1>5. Ledger(more, [height EXCEPT ![t] = Len(sol) + 1], S)
    <2>1. Grown(more, sol, Len(sol), Sum(t), t \notin S)
      BY <1>2, <1>3, <1>4
    <2>2. Ledger(sol, height, S) /\ height[t] = 0 /\ S \subseteq Transfers
      BY <1>3, <1>4 DEF StatusInv, ChainsInv
    <2> QED BY <2>1, <2>2, LedgerMoves DEF Sum
  <1>6. Len(sol') = Len(sol) + 1
    BY <1>2 DEF Grown
  <1>7. Ledger(sol, SolanaAt, Counted)'
    BY <1>3, <1>4, <1>5, <1>6
  <1>8. Ledger(eth, EthereumAt, Counted)'
    BY <1>1, <1>3 DEF StatusInv, ChainsInv
  <1>9. Lasting
    BY <1>1, <1>2, ChainsHaveLengths DEF Lasting, Grown, StatusInv, Arrives
  <1>10. stage' # "idle" => \A u \in inventory' : sourceAt'[u] # 0
    BY DEF StatusInv, ChainsInv, Arrives, runVars
  <1>11. ChainsInv'
    BY <1>7, <1>8, <1>10 DEF StatusInv, ChainsInv, Arrives, runVars
  <1> QED BY <1>9, <1>11, ReportSurvives DEF StatusInv, Arrives

\* The source event of a transfer becomes final.
LEMMA SourceFinalKeeps ==
  ASSUME StatusInv, NEW t \in Transfers, Status!SourceFinal(t)
  PROVE  StatusInv'
  <1>1. UNCHANGED <<clock, settledAt>> /\ UNCHANGED runVars /\ sourceAt[t] = 0
    BY DEF Status!SourceFinal, Status!Run, runVars
  <1>2. /\ sourceAt \in [Transfers -> Nat] /\ settledAt \in [Transfers -> Nat]
        /\ settledAt[t] = 0 /\ \A u \in Transfers : settledAt[u] # 0 => sourceAt[u] # 0
    BY <1>1 DEF StatusInv, ChainsInv
  <1>3. ASSUME NEW n \in Nat \ {0}, sourceAt' = [sourceAt EXCEPT ![t] = n]
        PROVE  Arrives(t)
    BY <1>1, <1>2, <1>3 DEF Arrives
  <1>4. EthereumAt[t] = 0 /\ SolanaAt[t] = 0
    BY <1>1, <1>2 DEF EthereumAt, SolanaAt
  <1>5. Sum(t) \in Int
    BY ToolsAssumption DEF Status!StatusAssumption, Sum
  <1>6. Status!Late(t) \in BOOLEAN
    BY DEF Status!Late
  <1>7. CASE Onward(t)
    <2>1. /\ Status!Ethereum(Sum(t), Status!Late(t))
          /\ sourceAt' = [sourceAt EXCEPT ![t] = Len(eth')]
      BY <1>7 DEF Status!SourceFinal, Sum, Onward
    <2>2. Len(eth') \in Nat \ {0}
      <3>1. Grown(eth', eth, Len(eth), Sum(t), Status!Late(t))
        BY <1>5, <1>6, <2>1, EthereumGrows
      <3> QED BY <3>1, ChainsHaveLengths DEF Grown, StatusInv
    <2>3. SolanaAt' = SolanaAt /\ EthereumAt' = [EthereumAt EXCEPT ![t] = Len(eth')]
      BY <1>1, <1>2, <1>7, <2>1 DEF SolanaAt, EthereumAt
    <2> QED BY <1>3, <1>4, <2>1, <2>2, <2>3, EthereumMoves
  <1>8. CASE ~ Onward(t)
    <2>1. /\ Status!Solana(Sum(t), Status!Late(t))
          /\ sourceAt' = [sourceAt EXCEPT ![t] = Len(sol')]
      BY <1>8 DEF Status!SourceFinal, Sum, Onward
    <2>2. Len(sol') \in Nat \ {0}
      <3>1. Grown(sol', sol, Len(sol), Sum(t), Status!Late(t))
        BY <1>5, <1>6, <2>1, SolanaGrows
      <3> QED BY <3>1, ChainsHaveLengths DEF Grown, StatusInv
    <2>3. EthereumAt' = EthereumAt /\ SolanaAt' = [SolanaAt EXCEPT ![t] = Len(sol')]
      BY <1>1, <1>2, <1>8, <2>1 DEF SolanaAt, EthereumAt
    <2> QED BY <1>3, <1>4, <2>1, <2>2, <2>3, SolanaMoves
  <1> QED BY <1>7, <1>8

\* Its settlement becomes final.
LEMMA SettlementFinalKeeps ==
  ASSUME StatusInv, NEW t \in Transfers, Status!SettlementFinal(t)
  PROVE  StatusInv'
  <1>1. UNCHANGED <<clock, sourceAt>> /\ UNCHANGED runVars /\ sourceAt[t] # 0 /\ settledAt[t] = 0
    BY DEF Status!SettlementFinal, Status!Run, runVars
  <1>2. /\ sourceAt \in [Transfers -> Nat] /\ settledAt \in [Transfers -> Nat]
        /\ \A u \in Transfers : settledAt[u] # 0 => sourceAt[u] # 0
    BY <1>1 DEF StatusInv, ChainsInv
  <1>3. ASSUME NEW n \in Nat \ {0}, settledAt' = [settledAt EXCEPT ![t] = n]
        PROVE  Arrives(t)
    BY <1>1, <1>2, <1>3 DEF Arrives
  <1>5. Sum(t) \in Int
    BY ToolsAssumption DEF Status!StatusAssumption, Sum
  <1>6. Status!Late(t) \in BOOLEAN
    BY DEF Status!Late
  <1>7. CASE Onward(t)
    <2>1. /\ Status!Solana(Sum(t), Status!Late(t))
          /\ settledAt' = [settledAt EXCEPT ![t] = Len(sol')]
      BY <1>7 DEF Status!SettlementFinal, Sum, Onward
    <2>2. Len(sol') \in Nat \ {0}
      <3>1. Grown(sol', sol, Len(sol), Sum(t), Status!Late(t))
        BY <1>5, <1>6, <2>1, SolanaGrows
      <3> QED BY <3>1, ChainsHaveLengths DEF Grown, StatusInv
    <2>3. /\ SolanaAt[t] = 0
          /\ EthereumAt' = EthereumAt /\ SolanaAt' = [SolanaAt EXCEPT ![t] = Len(sol')]
      BY <1>1, <1>2, <1>7, <2>1 DEF SolanaAt, EthereumAt
    <2> QED BY <1>3, <2>1, <2>2, <2>3, SolanaMoves
  <1>8. CASE ~ Onward(t)
    <2>1. /\ Status!Ethereum(Sum(t), Status!Late(t))
          /\ settledAt' = [settledAt EXCEPT ![t] = Len(eth')]
      BY <1>8 DEF Status!SettlementFinal, Sum, Onward
    <2>2. Len(eth') \in Nat \ {0}
      <3>1. Grown(eth', eth, Len(eth), Sum(t), Status!Late(t))
        BY <1>5, <1>6, <2>1, EthereumGrows
      <3> QED BY <3>1, ChainsHaveLengths DEF Grown, StatusInv
    <2>3. /\ EthereumAt[t] = 0
          /\ SolanaAt' = SolanaAt /\ EthereumAt' = [EthereumAt EXCEPT ![t] = Len(eth')]
      BY <1>1, <1>2, <1>8, <2>1 DEF SolanaAt, EthereumAt
    <2> QED BY <1>3, <2>1, <2>2, <2>3, EthereumMoves
  <1> QED BY <1>7, <1>8

\* A block that moves something else, or nothing; time passes.
LEMMA OtherBlocksKeep ==
  ASSUME StatusInv, Status!Move \/ Status!EmptyBlock \/ Status!Tick
  PROVE  StatusInv'
  <1>1. CASE Status!Move
    <2>1. UNCHANGED <<clock, sourceAt, settledAt>> /\ UNCHANGED runVars
      BY <1>1 DEF Status!Move, Status!Run, runVars
    <2>2. \E amount : amount \in Int /\ (Status!Ethereum(amount, TRUE) \/ Status!Solana(amount, TRUE))
      <3>1. Status!Ethereum(1, TRUE) \/ Status!Solana(-1, TRUE) \/ Status!Solana(1, TRUE)
        BY <1>1 DEF Status!Move
      <3>2. 1 \in Int /\ -1 \in Int
        OBVIOUS
      <3> QED BY <3>1, <3>2, Zenon
    <2>3. ASSUME NEW amount, amount \in Int, Status!Ethereum(amount, TRUE) PROVE StatusInv'
      BY <2>1, <2>3, EthereumApart
    <2>4. ASSUME NEW amount, amount \in Int, Status!Solana(amount, TRUE) PROVE StatusInv'
      BY <2>1, <2>4, SolanaApart
    <2> QED BY <2>2, <2>3, <2>4
  <1>2. CASE Status!EmptyBlock
    <2>1. UNCHANGED <<clock, sourceAt, settledAt>> /\ UNCHANGED runVars
      BY <1>2 DEF Status!EmptyBlock, Status!Run, runVars
    <2>2. \E amount, apart : /\ amount = 0 /\ apart = FALSE
                             /\ Status!Ethereum(amount, apart) \/ Status!Solana(amount, apart)
      BY <1>2 DEF Status!EmptyBlock
    <2>3. ASSUME NEW amount, NEW apart, amount = 0, apart = FALSE, Status!Ethereum(amount, apart)
          PROVE  StatusInv'
      <3>1. amount \in Int
        BY <2>3
      <3>2. apart \in BOOLEAN /\ (apart \/ amount = 0)
        BY <2>3, Zenon
      <3> QED BY <2>1, <2>3, <3>1, <3>2, EthereumApart
    <2>4. ASSUME NEW amount, NEW apart, amount = 0, apart = FALSE, Status!Solana(amount, apart)
          PROVE  StatusInv'
      <3>1. amount \in Int
        BY <2>4
      <3>2. apart \in BOOLEAN /\ (apart \/ amount = 0)
        BY <2>4, Zenon
      <3> QED BY <2>1, <2>4, <3>1, <3>2, SolanaApart
    <2> QED BY <2>2, <2>3, <2>4
  <1>3. CASE Status!Tick
    <2>1. UNCHANGED <<eth, sol, sourceAt, settledAt>> /\ UNCHANGED runVars /\ clock' = clock + 1
      BY <1>3 DEF Status!Tick, Status!Run, runVars
    <2>2. EthereumAt' = EthereumAt /\ SolanaAt' = SolanaAt /\ Counted' = Counted
      BY <2>1 DEF EthereumAt, SolanaAt, Counted, runVars
    <2>3. ChainsInv'
      BY <2>1, <2>2 DEF StatusInv, ChainsInv, runVars
    <2>4. Lasting
      BY <2>1, ChainsHaveLengths DEF Lasting, StatusInv
    <2> QED BY <2>1, <2>3, <2>4, ReportSurvives DEF StatusInv
  <1> QED BY <1>1, <1>2, <1>3

----------------------------------------------------------------------------
(* The steps of the report; the chains do not move in them.                *)

\* A pass finds nothing that is not there at its end.
LEMMA InspectionsPass ==
  ASSUME StatusInv, stage # "idle", NEW pass \in Status!Inspections
  PROVE  /\ Passed(pass)
         /\ \A t \in inventory : pass[t].status = "settled" => settledAt[t] # 0
  <1>1. PICK found \in SUBSET {t \in inventory : settledAt[t] # 0}, manual \in {{}, inventory} :
          pass = [t \in inventory |-> Status!inspectTransfer(t, t \in found, t \in manual)]
    BY DEF Status!Inspections
  <1>2. /\ inventory \subseteq Transfers /\ \A t \in inventory : sourceAt[t] # 0
        /\ sourceAt \in [Transfers -> Nat] /\ settledAt \in [Transfers -> Nat]
    BY DEF StatusInv, ChainsInv
  <1>3. ASSUME NEW t \in inventory
        PROVE  Shows(pass[t], EthereumAt[t], SolanaAt[t])
    <2>1. PICK f, m : f = (t \in found) /\ m = (t \in manual)
      OBVIOUS
    <2>3. pass[t] = Status!inspectTransfer(t, f, m)
      BY <1>1, <2>1
    <2>4. PICK p : p = pass[t]
      OBVIOUS
    <2>5. f \in BOOLEAN
      BY <2>1
    <2>2. f => settledAt[t] # 0
      BY <1>1, <2>1
    <2> QED BY <1>2, <1>3, <2>2, <2>3, <2>4, <2>5, InspectionShows
  <1>4. DOMAIN pass = inventory
    BY <1>1
  <1>5. \A t \in inventory : EthereumAt[t] # 0 /\ SolanaAt[t] # 0 => settledAt[t] # 0
    BY <1>2 DEF EthereumAt, SolanaAt
  <1> QED BY <1>3, <1>4, <1>5 DEF Passed, Shows

\* The chains as they are.
LEMMA ChainsAtRest ==
  ASSUME StatusInv, Counted' = Counted,
         UNCHANGED <<clock, eth, sol, sourceAt, settledAt, inventory>>, stage # "idle"
  PROVE  ChainsInv' /\ EthereumAt' = EthereumAt /\ SolanaAt' = SolanaAt
  <1>1. EthereumAt' = EthereumAt /\ SolanaAt' = SolanaAt
    BY DEF EthereumAt, SolanaAt
  <1> QED BY <1>1 DEF StatusInv, ChainsInv

\* The inventory is drawn up: nothing that is on a chain is left out of it.
LEMMA BeginReportKeeps ==
  ASSUME StatusInv, Status!Begin
  PROVE  StatusInv'
  <1>1. /\ stage = "idle" /\ stage' = "before" /\ inventory' = {t \in Transfers : sourceAt[t] # 0}
        /\ UNCHANGED <<clock, eth, sol, sourceAt, settledAt>>
        /\ UNCHANGED <<before, after, snapshot, report, tips>>
    BY DEF Status!Begin, Status!chains
  <1>2. EthereumAt' = EthereumAt /\ SolanaAt' = SolanaAt /\ Counted = Transfers
        /\ Counted' = inventory'
    BY <1>1 DEF EthereumAt, SolanaAt, Counted
  <1>3. PICK e, s, S : e = EthereumAt /\ s = SolanaAt /\ S = inventory'
    OBVIOUS
  <1>4. /\ S \subseteq Transfers
        /\ \A t \in Transfers : e[t] # 0 => t \in S
        /\ \A t \in Transfers : s[t] # 0 => t \in S
    BY <1>1, <1>3 DEF EthereumAt, SolanaAt, StatusInv, ChainsInv
  <1>5. Ledger(eth, e, Transfers) /\ Ledger(sol, s, Transfers)
    BY <1>2, <1>3 DEF StatusInv, ChainsInv
  <1>6. Ledger(eth, e, S) /\ Ledger(sol, s, S)
    BY <1>4, <1>5, LedgerOfInventory
  <1>7. ChainsInv'
    BY <1>1, <1>2, <1>3, <1>6 DEF StatusInv, ChainsInv
  <1>8. ReportInv'
    BY <1>1 DEF StatusInv, ReportInv, Pictured, Behind
  <1> QED BY <1>7, <1>8 DEF StatusInv

\* The first pass: what it calls settled is on the chains as they are then.
LEMMA InspectBeforeKeeps ==
  ASSUME StatusInv, Status!InspectBefore
  PROVE  StatusInv'
  <1>1. /\ stage = "before" /\ stage' = "ethereum" /\ before' \in Status!Inspections
        /\ tips' = [ethereum |-> Len(eth), solana |-> Len(sol)]
        /\ UNCHANGED <<clock, eth, sol, sourceAt, settledAt, inventory>>
        /\ UNCHANGED <<after, snapshot, report>>
    BY DEF Status!InspectBefore, Status!chains
  <1>2. ChainsInv' /\ EthereumAt' = EthereumAt /\ SolanaAt' = SolanaAt
    BY <1>1, ChainsAtRest DEF Counted
  <1>3. PICK pass : pass = before' /\ pass \in Status!Inspections
    BY <1>1
  <1>4. Passed(pass) /\ \A t \in inventory : pass[t].status = "settled" => settledAt[t] # 0
    BY <1>1, <1>3, InspectionsPass
  <1>5. Passed(before)'
    BY <1>1, <1>2, <1>3, <1>4 DEF Passed
  <1>6. \A t \in inventory : settledAt[t] # 0 => Settling(t)'
    <2>1. inventory \subseteq Transfers /\ settledAt \in [Transfers -> Nat]
      BY DEF StatusInv, ChainsInv
    <2>2. \A t \in Transfers : EthereumAt[t] <= Len(eth) /\ SolanaAt[t] <= Len(sol)
      BY DEF StatusInv, ChainsInv, Ledger, LedgerTyped
    <2>3. \A t \in inventory : settledAt[t] <= IF Onward(t) THEN Len(sol) ELSE Len(eth)
      BY <2>1, <2>2 DEF EthereumAt, SolanaAt
    <2>4. Len(eth) \in Nat /\ Len(sol) \in Nat
      BY ChainsHaveLengths DEF StatusInv
    <2> QED BY <1>1, <2>1, <2>3, <2>4 DEF Settling
  <1>7. ReportInv'
    BY <1>1, <1>3, <1>4, <1>5, <1>6 DEF StatusInv, ReportInv, Pictured, Behind
  <1> QED BY <1>2, <1>7 DEF StatusInv

\* A read of the snapshot leaves everything else.
Reads ==
  /\ stage # "idle" /\ stage' # "idle"
  /\ UNCHANGED <<clock, eth, sol, sourceAt, settledAt, inventory, before, after, report, tips>>

\* A read disturbs neither the books nor what the first pass found.
LEMMA ReadKeeps ==
  ASSUME StatusInv, Reads
  PROVE  /\ ChainsInv' /\ EthereumAt' = EthereumAt /\ SolanaAt' = SolanaAt
         /\ Passed(before) => Passed(before)'
         /\ \A t \in inventory : Settling(t)' = Settling(t)
  <1>1. ChainsInv' /\ EthereumAt' = EthereumAt /\ SolanaAt' = SolanaAt
    BY ChainsAtRest DEF Reads, Counted
  <1> QED BY <1>1 DEF Reads, Passed, Settling

\* The tokens locked are read at one finalized block.
LEMMA ReadEthereumKeeps ==
  ASSUME StatusInv, Status!ReadEthereum
  PROVE  StatusInv'
  <1>1. /\ stage = "ethereum" /\ stage' = "solana" /\ Reads
    BY DEF Status!ReadEthereum, Status!chains, Reads
  <1>2. PICK height \in DOMAIN eth :
          snapshot' = [ethereumHeight |-> height, lockedOnEthereum |-> eth[height].held]
    BY DEF Status!ReadEthereum
  <1>3. height \in 1 .. Len(eth)
    BY <1>2, ChainsAreTyped, LenProperties DEF StatusInv
  <1>4. Pictured(snapshot)'
    BY <1>1, <1>2, <1>3 DEF Pictured, Behind, Reads
  <1>5. ReportInv'
    BY <1>1, <1>4, ReadKeeps DEF StatusInv, ReportInv, Behind, Reads
  <1> QED BY <1>1, <1>5, ReadKeeps DEF StatusInv

\* The supply is read at one slot.
LEMMA ReadSolanaKeeps ==
  ASSUME StatusInv, Status!ReadSolana
  PROVE  StatusInv'
  <1>1. /\ stage = "solana" /\ stage' = "repeat" /\ Reads
    BY DEF Status!ReadSolana, Status!chains, Reads
  <1>2. PICK slot \in DOMAIN sol :
          snapshot' = [ethereumHeight |-> snapshot.ethereumHeight,
                       lockedOnEthereum |-> snapshot.lockedOnEthereum,
                       solanaSlot |-> slot, supplyOnSolana |-> sol[slot].held]
    BY DEF Status!ReadSolana
  <1>3. slot \in 1 .. Len(sol)
    BY <1>2, ChainsAreTyped, LenProperties DEF StatusInv
  <1>4. Pictured(snapshot)'
    BY <1>1, <1>2, <1>3 DEF StatusInv, ReportInv, Pictured, Behind, Reads
  <1>5. ReportInv'
    BY <1>1, <1>4, ReadKeeps DEF StatusInv, ReportInv, Behind, Reads
  <1> QED BY <1>1, <1>5, ReadKeeps DEF StatusInv

\* The supply is read again, no earlier.
LEMMA RepeatSolanaKeeps ==
  ASSUME StatusInv, Status!RepeatSolana
  PROVE  StatusInv'
  <1>1. /\ stage = "repeat" /\ stage' = "after" /\ Reads
    BY DEF Status!RepeatSolana, Status!chains, Reads
  <1>2. PICK slot \in snapshot.solanaSlot .. Len(sol) : \E whole :
          snapshot' = [ethereumHeight |-> snapshot.ethereumHeight,
                       lockedOnEthereum |-> snapshot.lockedOnEthereum,
                       solanaSlot |-> snapshot.solanaSlot,
                       supplyOnSolana |-> snapshot.supplyOnSolana,
                       repeatedSlot |-> slot, coherent |-> whole]
    BY DEF Status!RepeatSolana
  <1>3. slot \in 1 .. Len(sol)
    BY <1>1, <1>2, ChainsHaveLengths DEF StatusInv, ReportInv, Pictured, Behind
  <1>4. Pictured(snapshot)'
    BY <1>1, <1>2, <1>3 DEF StatusInv, ReportInv, Pictured, Behind, Reads
  <1>5. ReportInv'
    BY <1>1, <1>4, ReadKeeps DEF StatusInv, ReportInv, Behind, Reads
  <1> QED BY <1>1, <1>5, ReadKeeps DEF StatusInv

\* The second pass: the snapshot is only coherent when it finds what the first did.
LEMMA InspectAfterKeeps ==
  ASSUME StatusInv, Status!InspectAfter
  PROVE  StatusInv'
  <1>1. /\ stage = "after" /\ stage' = "cleanup" /\ after' \in Status!Inspections
        /\ snapshot' = [snapshot EXCEPT !.coherent = @ /\ Status!Unchanged(before, after')]
        /\ UNCHANGED <<clock, eth, sol, sourceAt, settledAt, inventory, before, report, tips>>
    BY DEF Status!InspectAfter, Status!chains
  <1>2. ChainsInv' /\ EthereumAt' = EthereumAt /\ SolanaAt' = SolanaAt
    BY <1>1, ChainsAtRest DEF Counted
  <1>3. PICK pass : pass = after' /\ pass \in Status!Inspections
    BY <1>1
  <1>4. Passed(pass)
    BY <1>1, <1>3, InspectionsPass
  <1>5. Passed(after)' /\ Passed(before)'
    BY <1>1, <1>2, <1>3, <1>4 DEF Passed, StatusInv, ReportInv, Behind
  <1>6. snapshot = [ethereumHeight |-> snapshot.ethereumHeight,
                    lockedOnEthereum |-> snapshot.lockedOnEthereum,
                    solanaSlot |-> snapshot.solanaSlot, supplyOnSolana |-> snapshot.supplyOnSolana,
                    repeatedSlot |-> snapshot.repeatedSlot, coherent |-> snapshot.coherent]
    BY <1>1 DEF StatusInv, ReportInv, Pictured, Behind
  <1>7. PICK whole : whole = (snapshot.coherent /\ Status!Unchanged(before, after'))
    OBVIOUS
  <1>8. snapshot' = [snapshot EXCEPT !.coherent = whole]
    BY <1>1, <1>7
  <1>9. snapshot' = [ethereumHeight |-> snapshot.ethereumHeight,
                     lockedOnEthereum |-> snapshot.lockedOnEthereum,
                     solanaSlot |-> snapshot.solanaSlot, supplyOnSolana |-> snapshot.supplyOnSolana,
                     repeatedSlot |-> snapshot.repeatedSlot, coherent |-> whole]
    BY <1>6, <1>8
  <1>10. Pictured(snapshot)'
    BY <1>1, <1>9 DEF StatusInv, ReportInv, Pictured, Behind
  <1>11. snapshot'.coherent => before' = after'
    <2>1. snapshot'.coherent = whole
      BY <1>9
    <2>2. whole => before = after'
      BY <1>7 DEF Status!Unchanged
    <2> QED BY <1>1, <2>1, <2>2
  <1>12. \A t \in inventory : before[t].status = "settled" => Settling(t)'
    BY <1>1 DEF StatusInv, ReportInv, Settling, Behind
  <1>13. ReportInv'
    BY <1>1, <1>5, <1>10, <1>11, <1>12 DEF StatusInv, ReportInv, Behind
  <1> QED BY <1>2, <1>13 DEF StatusInv

\* The report: every event it counts is past in the snapshot, so the books agree.
LEMMA FinishKeeps ==
  ASSUME StatusInv, Status!Finish
  PROVE  StatusInv'
  <1>1. /\ stage = "cleanup" /\ stage' = "done"
        /\ snapshot' = Status!refreshSnapshotFreshness(snapshot)
        /\ report' = Status!accountTransfers(after, Status!refreshSnapshotFreshness(snapshot))
        /\ UNCHANGED <<clock, eth, sol, sourceAt, settledAt, inventory, before, after, tips>>
    BY DEF Status!Finish, Status!chains
  <1>2. ChainsInv' /\ EthereumAt' = EthereumAt /\ SolanaAt' = SolanaAt
    BY <1>1, ChainsAtRest DEF Counted
  <1>3. PICK renewed, whole :
          /\ renewed = Status!refreshSnapshotFreshness(snapshot)
          /\ whole = /\ snapshot.coherent
                     /\ Status!Fresh(eth, snapshot.ethereumHeight, EthereumMaxAge)
                     /\ Status!Fresh(sol, snapshot.solanaSlot, SolanaMaxAge)
                     /\ Status!Fresh(sol, snapshot.repeatedSlot, SolanaMaxAge)
    OBVIOUS
  <1>4. renewed = [snapshot EXCEPT !.coherent = whole]
    BY <1>3 DEF Status!refreshSnapshotFreshness
  <1>5. snapshot = [ethereumHeight |-> snapshot.ethereumHeight,
                    lockedOnEthereum |-> snapshot.lockedOnEthereum,
                    solanaSlot |-> snapshot.solanaSlot, supplyOnSolana |-> snapshot.supplyOnSolana,
                    repeatedSlot |-> snapshot.repeatedSlot, coherent |-> snapshot.coherent]
    BY <1>1 DEF StatusInv, ReportInv, Pictured, Behind
  <1>6. renewed = [ethereumHeight |-> snapshot.ethereumHeight,
                   lockedOnEthereum |-> snapshot.lockedOnEthereum,
                   solanaSlot |-> snapshot.solanaSlot, supplyOnSolana |-> snapshot.supplyOnSolana,
                   repeatedSlot |-> snapshot.repeatedSlot, coherent |-> whole]
    BY <1>4, <1>5
  <1>7. /\ snapshot.ethereumHeight \in 1 .. Len(eth) /\ snapshot.solanaSlot \in 1 .. Len(sol)
        /\ snapshot.lockedOnEthereum = eth[snapshot.ethereumHeight].held
        /\ snapshot.supplyOnSolana = sol[snapshot.solanaSlot].held
        /\ snapshot.repeatedSlot \in 1 .. Len(sol)
    BY <1>1 DEF StatusInv, ReportInv, Pictured, Behind
  <1>8. Pictured(snapshot)'
    BY <1>1, <1>3, <1>6, <1>7 DEF Pictured, Behind
  <1>9. /\ Passed(after)' /\ Passed(before)'
        /\ \A t \in inventory : before[t].status = "settled" => Settling(t)'
    BY <1>1, <1>2 DEF Passed, StatusInv, ReportInv, Behind, Settling
  <1>10. ASSUME report'.known
         PROVE  ReportIsTrue'
    <2> DEFINE surplus == Status!backingSurplus(renewed.lockedOnEthereum, renewed.supplyOnSolana, 0)
    <2>1. /\ renewed.coherent
          /\ \A t \in DOMAIN after :
               /\ Status!settled(after[t])
               /\ \A e \in Status!Range(after[t].events) : Status!WithinSnapshot(e, renewed)
          /\ report'.surplus = surplus /\ report'.time = clock
      <3>1. report' = Status!accountTransfers(after, renewed)
        BY <1>1, <1>3
      <3>2. report' # Status!NoReport
        BY <1>10 DEF Status!NoReport
      <3> QED BY <3>1, <3>2 DEF Status!accountTransfers
    <2>2. /\ snapshot.coherent
          /\ clock - eth[snapshot.ethereumHeight].time <= EthereumMaxAge
          /\ clock - sol[snapshot.solanaSlot].time <= SolanaMaxAge
          /\ clock - sol[snapshot.repeatedSlot].time <= SolanaMaxAge
      <3>1. renewed.coherent = whole
        BY <1>6
      <3> QED BY <1>3, <2>1, <3>1 DEF Status!Fresh
    <2>3. before = after /\ Passed(after) /\ DOMAIN after = inventory
      BY <1>1, <2>2 DEF StatusInv, ReportInv, Passed
    <2>4. ASSUME NEW t \in inventory
          PROVE  /\ Settling(t)'
                 /\ EthereumAt[t] \in 1 .. snapshot.ethereumHeight
                 /\ SolanaAt[t] \in 1 .. snapshot.solanaSlot
      <3>1. after[t].status = "settled"
            /\ \A e \in Status!Range(after[t].events) : Status!WithinSnapshot(e, renewed)
        BY <2>1, <2>3, <2>4 DEF Status!settled
      <3>2. /\ EthereumAt[t] # 0 /\ SolanaAt[t] # 0
            /\ \E e, f \in Status!Range(after[t].events) :
                 /\ e.chain = "ethereum" /\ e.block = EthereumAt[t]
                 /\ f.chain = "solana" /\ f.block = SolanaAt[t]
        BY <2>3, <2>4, <3>1 DEF Passed, Shows
      <3>3. /\ EthereumAt[t] <= renewed.ethereumHeight /\ SolanaAt[t] <= renewed.solanaSlot
        BY <3>1, <3>2 DEF Status!WithinSnapshot
      <3>4. EthereumAt[t] \in Nat /\ SolanaAt[t] \in Nat
        BY <2>4 DEF StatusInv, ChainsInv, Ledger, LedgerTyped
      <3>5. Settling(t)'
        BY <1>9, <2>3, <2>4, <3>1
      <3> QED BY <1>6, <1>7, <3>2, <3>3, <3>4, <3>5
    <2>5. eth[snapshot.ethereumHeight].held - sol[snapshot.solanaSlot].held
            = eth[snapshot.ethereumHeight].outside - sol[snapshot.solanaSlot].outside
      BY <1>1, <1>7, <2>4, BooksAgree DEF StatusInv
    <2>6. surplus = eth[snapshot.ethereumHeight].outside - sol[snapshot.solanaSlot].outside
      <3>1. /\ eth[snapshot.ethereumHeight].held \in Int
            /\ sol[snapshot.solanaSlot].held \in Int
        <4>1. /\ eth \in Seq([held : Int, outside : Int, time : Int])
              /\ sol \in Seq([held : Int, outside : Int, time : Int])
          BY DEF StatusInv, ChainsInv, Ledger, LedgerTyped
        <4>2. /\ eth[snapshot.ethereumHeight] \in [held : Int, outside : Int, time : Int]
              /\ sol[snapshot.solanaSlot] \in [held : Int, outside : Int, time : Int]
          BY <1>7, <4>1, ElementOfSeq
        <4> QED BY <4>2
      <3>2. surplus = eth[snapshot.ethereumHeight].held - sol[snapshot.solanaSlot].held
        BY <1>6, <1>7, <3>1 DEF Status!backingSurplus
      <3> QED BY <2>5, <3>2
    <2>7. /\ snapshot'.ethereumHeight = snapshot.ethereumHeight
          /\ snapshot'.solanaSlot = snapshot.solanaSlot
          /\ snapshot'.repeatedSlot = snapshot.repeatedSlot
      BY <1>1, <1>3, <1>6
    <2>8. \A t \in inventory : Settling(t)'
      BY <2>4
    <2> HIDE DEF surplus
    <2> QED BY <1>1, <2>1, <2>2, <2>6, <2>7, <2>8 DEF ReportIsTrue, Status!ReportIsTrue, Settling, Onward
  <1>11. ReportIsTrue'
    BY <1>10 DEF ReportIsTrue, Status!ReportIsTrue
  <1>12. ReportInv'
    BY <1>1, <1>8, <1>9, <1>11 DEF ReportInv, Behind
  <1> QED BY <1>2, <1>12 DEF StatusInv

\* Every step of the report and of the chains.
LEMMA StatusKeeps == StatusInv /\ [ToolsNext]_toolVars => StatusInv'
  <1> SUFFICES ASSUME StatusInv, [ToolsNext]_toolVars PROVE StatusInv'
    OBVIOUS
  <1>1. CASE UNCHANGED statusVars
    <2>1. UNCHANGED <<clock, eth, sol, sourceAt, settledAt>> /\ UNCHANGED runVars
      BY <1>1 DEF statusVars, runVars
    <2>2. EthereumAt' = EthereumAt /\ SolanaAt' = SolanaAt /\ Counted' = Counted
      BY <2>1 DEF EthereumAt, SolanaAt, Counted, runVars
    <2>3. ChainsInv'
      BY <2>1, <2>2 DEF StatusInv, ChainsInv, runVars
    <2>4. Lasting
      BY <2>1, ChainsHaveLengths DEF Lasting, StatusInv
    <2> QED BY <2>1, <2>3, <2>4, ReportSurvives DEF StatusInv
  <1>2. CASE UNCHANGED toolVars \/ RunCustody \/ RunForward \/ RunObserve \/ RunLog
    BY <1>1, <1>2 DEF toolVars, RunCustody, RunForward, RunObserve, RunLog
  <1>3. CASE RunStatus
    <2>1. Status!Next
      BY <1>3 DEF RunStatus
    <2>2. CASE \E t \in Transfers : Status!SourceFinal(t) \/ Status!SettlementFinal(t)
      BY <2>2, SourceFinalKeeps, SettlementFinalKeeps
    <2>3. CASE Status!Move \/ Status!EmptyBlock \/ Status!Tick
      BY <2>3, OtherBlocksKeep
    <2>4. CASE Status!Begin \/ Status!InspectBefore
      BY <2>4, BeginReportKeeps, InspectBeforeKeeps
    <2>5. CASE Status!ReadEthereum \/ Status!ReadSolana \/ Status!RepeatSolana
      BY <2>5, ReadEthereumKeeps, ReadSolanaKeeps, RepeatSolanaKeeps
    <2>6. CASE Status!InspectAfter \/ Status!Finish
      BY <2>6, InspectAfterKeeps, FinishKeeps
    <2> QED BY <2>1, <2>2, <2>3, <2>4, <2>5, <2>6 DEF Status!Next
  <1> QED BY <1>2, <1>3 DEF ToolsNext

\* Both ledgers begin empty.
LEMMA StatusStarts == ToolsInit => StatusInv
  <1> SUFFICES ASSUME ToolsInit PROVE StatusInv
    OBVIOUS
  <1>1. Status!Init
    BY DEF ToolsInit
  <1>2. /\ clock = 0 /\ eth = <<[held |-> 0, outside |-> 0, time |-> 0]>>
        /\ sol = <<[held |-> 0, outside |-> 0, time |-> 0]>>
        /\ sourceAt = [t \in Transfers |-> 0] /\ settledAt = [t \in Transfers |-> 0]
        /\ stage = "idle" /\ inventory = {} /\ ~ report.known
    BY <1>1 DEF Status!Init, Status!NoReport
  <1>3. \A t \in Transfers : EthereumAt[t] = 0 /\ SolanaAt[t] = 0
    BY <1>2 DEF EthereumAt, SolanaAt
  <1>4. EthereumAt \in [Transfers -> Nat] /\ SolanaAt \in [Transfers -> Nat]
    BY <1>2 DEF EthereumAt, SolanaAt
  <1>5. ASSUME NEW height \in [Transfers -> Nat], \A t \in Transfers : height[t] = 0
        PROVE  Ledger(<<[held |-> 0, outside |-> 0, time |-> 0]>>, height, Transfers)
    <2>1. PICK block, ledger : /\ block = [held |-> 0, outside |-> 0, time |-> 0]
                               /\ ledger = <<block>>
      OBVIOUS
    <2>2. block \in [held : Int, outside : Int, time : Int] /\ block.held = 0 /\ block.outside = 0
      BY <2>1
    <2>3. /\ ledger \in Seq([held : Int, outside : Int, time : Int])
          /\ Len(ledger) = 1 /\ ledger[1].held = 0 /\ ledger[1].outside = 0
      BY <2>1, <2>2
    <2>4. {t \in Transfers : height[t] # 0} = {} /\ Past(height, Transfers, 1) = {}
      BY <1>5 DEF Past
    <2>5. IsFiniteSet({}) /\ Cardinality({}) = 0
      BY FS_EmptySet
    <2>6. Brought(height, Transfers, 1) = 0 /\ Taken(height, Transfers, 1) = 0
      <3>1. /\ {t \in Past(height, Transfers, 1) : Onward(t)} = {}
            /\ {t \in Past(height, Transfers, 1) : ~ Onward(t)} = {}
        BY <2>4
      <3> QED BY <2>5, <3>1 DEF Brought, Taken
    <2>7. TransferAmount \in Nat
      BY ToolsAssumption DEF Status!StatusAssumption
    <2>8. LedgerTyped(ledger, height)
      <3>1. \A t \in Transfers : height[t] <= Len(ledger)
        BY <1>5, <2>3
      <3>2. IsFiniteSet({t \in Transfers : height[t] # 0})
        BY <2>4, <2>5
      <3> QED BY <1>5, <2>3, <3>1, <3>2 DEF LedgerTyped
    <2>9. Balanced(ledger, height, Transfers)
      <3>1. SUFFICES ASSUME NEW h \in 1 .. Len(ledger)
                     PROVE  ledger[h].held - ledger[h].outside
                              = TransferAmount * (Brought(height, Transfers, h) - Taken(height, Transfers, h))
        BY DEF Balanced
      <3>2. h = 1
        BY <2>3
      <3> QED BY <2>6, <2>7, <2>3, <3>2
    <2> QED BY <2>1, <2>8, <2>9 DEF Ledger
  <1>6. Counted = Transfers
    BY <1>2 DEF Counted
  <1>7. PICK e, s : e = EthereumAt /\ s = SolanaAt
    OBVIOUS
  <1>8. Ledger(eth, e, Transfers) /\ Ledger(sol, s, Transfers)
    BY <1>2, <1>3, <1>4, <1>5, <1>7
  <1>9. ChainsInv
    BY <1>2, <1>6, <1>7, <1>8 DEF ChainsInv
  <1>10. ReportInv
    BY <1>2 DEF ReportInv, Pictured, Behind
  <1> QED BY <1>9, <1>10 DEF StatusInv

\* Whatever moves between the reads and whichever nodes answer them, the backing
\* reported is the true one, of transfers settled before the snapshot's first
\* read, and the three blocks it rests on are within their age (413-441).
THEOREM ReportsAreTrue == ToolsSpec => []ReportIsTrue
  <1>1. StatusInv => ReportIsTrue
    BY DEF StatusInv, ReportInv, ReportIsTrue, Status!ReportIsTrue
  <1> QED BY <1>1, StatusStarts, StatusKeeps, PTL DEF ToolsSpec
=============================================================================
