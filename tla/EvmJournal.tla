----------------------------- MODULE EvmJournal -----------------------------
(***************************************************************************)
(* runJournal() of testnet-ccip/application/evm-journal.ts: send one exact *)
(* transaction at most once, over a journal file, an RPC endpoint that may *)
(* fail, lag or lose requests, processes that may be killed at any await,  *)
(* and power losses.                                                       *)
(*                                                                         *)
(* Each process runs the tool any number of times, to execute or to        *)
(* observe only, with an intent of its own.  A process stands at one of    *)
(* the function's awaits.  Every signing yields a transaction of its own   *)
(* (fees differ).  A terminal record holds its receipt, so the receipt's   *)
(* status is the phase.                                                    *)
(***************************************************************************)
EXTENDS JournalFile, FiniteSets

CONSTANTS Intents,      \* what the runs ask to have sent
          MaxSignings,  \* bound: how many transactions are ever signed
          MaxFaults     \* bound: how many crashes and power losses happen

ASSUME JournalAssumption ==
  /\ MaxSignings \in Nat /\ MaxFaults \in Nat
  /\ {"absent", "orphan"} \cap Processes = {}

Transactions == 1 .. MaxSignings
Terminal     == {"succeeded", "reverted"}
Phases       == {"signed", "submitting", "submitted"} \cup Terminal
Records      == [intent : Intents, signed : Transactions, phase : Phases]

ASSUME NoRecordAssumption == NoRecord \notin Records

VARIABLES at,        \* at[p]: the await p stands at
          intent,    \* intent[p]: what p was started with
          observer,  \* observer[p]: started in observe-only mode
          record,    \* record[p]: the record in p's memory
          signings,  \* transactions signed so far
          sent,      \* sent[x]: how often x was handed to the network
          chain,     \* chain[x]: where transaction x stands
          reported,  \* the terminal records returned, under their callers' intents
          faults     \* crashes and power losses so far

runVars == <<at, intent, observer, record>>
vars == <<lock, file, survivors, at, intent, observer, record,
          signings, sent, chain, reported, faults>>

Init ==
  /\ FileInit
  /\ at = [p \in Processes |-> "idle"]
  /\ intent \in [Processes -> Intents]
  /\ observer = [p \in Processes |-> FALSE]
  /\ record = [p \in Processes |-> NoRecord]
  /\ signings = 0
  /\ sent = [x \in Transactions |-> 0]
  /\ chain = [x \in Transactions |-> "unknown"]
  /\ reported = {}
  /\ faults = 0

----------------------------------------------------------------------------
(* Control.                                                                *)

Goto(p, await) == at' = [at EXCEPT ![p] = await]

\* Returning or throwing runs the finally block, which removes the lock.
Leave(p) ==
  /\ Goto(p, "idle")
  /\ ReleaseLock(p)
  /\ record' = [record EXCEPT ![p] = NoRecord]

\* Awaiting write(r); what follows it depends on r's phase only.
AwaitWrite(p, r) ==
  /\ record' = [record EXCEPT ![p] = r]
  /\ Goto(p, "write")
  /\ UNCHANGED lock

AfterWrite(phase) ==
  CASE phase = "signed"     -> "observe"
    [] phase = "submitting" -> "broadcast"
    [] OTHER                -> "return"

\* The caller of p asked about intent[p] and learns of a terminal record.
Report(p) ==
  IF record[p].phase \in Terminal
    THEN reported \cup {[record[p] EXCEPT !.intent = intent[p]]} ELSE reported

Begin(p, i, readOnly) ==
  /\ at[p] = "idle"
  /\ AcquireLock(p)
  /\ Goto(p, "read")
  /\ intent' = [intent EXCEPT ![p] = i]
  /\ observer' = [observer EXCEPT ![p] = readOnly]
  /\ UNCHANGED <<file, survivors, record, signings, sent, chain, reported, faults>>

\* Slip: a journal with another intent is accepted.
AdmitsAny(p) == file # NoRecord

\* Slip: an ambiguous submission is refused instead of observed.
AdmitsUnambiguous(p) ==
  file # NoRecord /\ file.intent = intent[p] /\ file.phase # "submitting"

\* validateRecord() of a loaded record, and the inspection of its bytes.
Admits(p) == file # NoRecord /\ file.intent = intent[p]

ReadExisting(p) ==
  /\ at[p] = "read" /\ Admits(p)
  /\ record' = [record EXCEPT ![p] = file]
  /\ Goto(p, "observe")
  /\ UNCHANGED <<fileVars, intent, observer, signings, sent, chain, reported, faults>>

\* Slip: a signature that was never submitted is replaced.
ReadUnsubmitted(p) ==
  /\ at[p] = "read" /\ (file # NoRecord => file.phase = "signed") /\ ~ observer[p]
  /\ Goto(p, "sign")
  /\ UNCHANGED <<fileVars, intent, observer, record, signings, sent, chain, reported, faults>>

ReadNothing(p) ==
  /\ at[p] = "read" /\ file = NoRecord /\ ~ observer[p]
  /\ Goto(p, "sign")
  /\ UNCHANGED <<fileVars, intent, observer, record, signings, sent, chain, reported, faults>>

Sign(p) ==
  /\ at[p] = "sign" /\ signings < MaxSignings
  /\ signings' = signings + 1
  /\ AwaitWrite(p, [intent |-> intent[p], signed |-> signings + 1, phase |-> "signed"])
  /\ UNCHANGED <<file, survivors, intent, observer, sent, chain, reported, faults>>

\* read(), sign(), inspectSigned() and write() may throw before they have any
\* effect; a conflicting journal, or an observer without one, always throws.
Throws(p) ==
  /\ at[p] \in {"read", "sign", "write"}
  /\ Leave(p)
  /\ UNCHANGED <<file, survivors, intent, observer, signings, sent, chain, reported, faults>>

WriteRenames(p) ==
  /\ at[p] = "write"
  /\ Rename(record[p])
  /\ Goto(p, "sync")
  /\ UNCHANGED <<lock, intent, observer, record, signings, sent, chain, reported, faults>>

\* Slip: write() resolves without waiting for the directory.
WriteUnsynced(p) ==
  /\ at[p] = "sync"
  /\ Goto(p, AfterWrite(record[p].phase))
  /\ UNCHANGED <<fileVars, intent, observer, record, signings, sent, chain, reported, faults>>

WriteSyncs(p) ==
  /\ at[p] = "sync"
  /\ SyncDirectory
  /\ Goto(p, AfterWrite(record[p].phase))
  /\ UNCHANGED <<lock, intent, observer, record, signings, sent, chain, reported, faults>>

\* A write that throws may still have persisted.
WriteSyncThrows(p) ==
  /\ at[p] = "sync"
  /\ Leave(p)
  /\ UNCHANGED <<file, survivors, intent, observer, signings, sent, chain, reported, faults>>

\* observe() failed, or saw anything but the exact transaction with a
\* finalized receipt.
ObserveUnresolved(p) ==
  /\ at[p] = "observe"
  /\ Leave(p)
  /\ UNCHANGED <<file, survivors, intent, observer, signings, sent, chain, reported, faults>>

\* Slip: an attempt that got no answer is repeated.
MayRebroadcast(p) == ~ observer[p] /\ record[p].phase \in {"signed", "submitting"}

\* Only a signed record proves that no attempt was started.
MayBroadcast(p) == ~ observer[p] /\ record[p].phase = "signed"

\* The endpoint does not know the transaction; it may merely lag.
ObserveNotFound(p) ==
  /\ at[p] = "observe"
  /\ IF MayBroadcast(p)
       THEN AwaitWrite(p, [record[p] EXCEPT !.phase = "submitting"])
       ELSE Leave(p)
  /\ UNCHANGED <<file, survivors, intent, observer, signings, sent, chain, reported, faults>>

\* The exact transaction with a receipt in a finalized block.  A receipt that
\* disagrees with the recorded one is unresolved.
ObserveFinal(p) ==
  /\ at[p] = "observe" /\ chain[record[p].signed] \in Terminal
  /\ LET phase == chain[record[p].signed]
     IN  IF record[p].phase \in Terminal
           THEN /\ Leave(p)
                /\ reported' = IF record[p].phase = phase THEN Report(p) ELSE reported
           ELSE /\ AwaitWrite(p, [record[p] EXCEPT !.phase = phase])
                /\ UNCHANGED reported
  /\ UNCHANGED <<file, survivors, intent, observer, signings, sent, chain, faults>>

\* The request leaves the process; no retry.
Broadcast(p) ==
  /\ at[p] = "broadcast"
  /\ sent' = [sent EXCEPT ![record[p].signed] = @ + 1]
  /\ Goto(p, "response")
  /\ UNCHANGED <<fileVars, intent, observer, record, signings, chain, reported, faults>>

\* The endpoint returned the transaction's hash.
BroadcastAnswered(p) ==
  /\ at[p] = "response"
  /\ AwaitWrite(p, [record[p] EXCEPT !.phase = "submitted"])
  /\ UNCHANGED <<file, survivors, intent, observer, signings, sent, chain, reported, faults>>

\* It failed, timed out or returned something else: the outcome is unknown.
BroadcastUnresolved(p) ==
  /\ at[p] = "response"
  /\ Leave(p)
  /\ UNCHANGED <<file, survivors, intent, observer, signings, sent, chain, reported, faults>>

Return(p) ==
  /\ at[p] = "return"
  /\ Leave(p)
  /\ reported' = Report(p)
  /\ UNCHANGED <<file, survivors, intent, observer, signings, sent, chain, faults>>

Step(p) ==
  \/ ReadExisting(p) \/ ReadNothing(p) \/ Sign(p) \/ Throws(p)
  \/ WriteRenames(p) \/ WriteSyncs(p) \/ WriteSyncThrows(p)
  \/ ObserveUnresolved(p) \/ ObserveNotFound(p) \/ ObserveFinal(p)
  \/ Broadcast(p) \/ BroadcastAnswered(p) \/ BroadcastUnresolved(p)
  \/ Return(p)

----------------------------------------------------------------------------
(* The environment.                                                        *)

\* A request handed to the network arrives now, later or never.
NetworkAccepts(x) ==
  /\ sent[x] > 0 /\ chain[x] = "unknown"
  /\ chain' = [chain EXCEPT ![x] = "pending"]
  /\ UNCHANGED <<fileVars, runVars, signings, sent, reported, faults>>

\* What is pending may be mined, reorganized and mined again before it is
\* finalized with a status; the pending state stands for all of that.
ChainFinalizes(x, status) ==
  /\ chain[x] = "pending"
  /\ chain' = [chain EXCEPT ![x] = status]
  /\ UNCHANGED <<fileVars, runVars, signings, sent, reported, faults>>

Crash(p) ==
  /\ at[p] # "idle" /\ faults < MaxFaults
  /\ Goto(p, "idle")
  /\ record' = [record EXCEPT ![p] = NoRecord]
  /\ OrphanLock(p)
  /\ faults' = faults + 1
  /\ UNCHANGED <<file, survivors, intent, observer, signings, sent, chain, reported>>

PowerLoss ==
  /\ faults < MaxFaults
  /\ LosePower
  /\ at' = [p \in Processes |-> "idle"]
  /\ record' = [p \in Processes |-> NoRecord]
  /\ faults' = faults + 1
  /\ UNCHANGED <<intent, observer, signings, sent, chain, reported>>

Reconcile ==
  /\ ClearOrphan
  /\ UNCHANGED <<file, survivors, runVars, signings, sent, chain, reported, faults>>

Next ==
  \/ \E p \in Processes : \/ \E i \in Intents, readOnly \in BOOLEAN : Begin(p, i, readOnly)
                          \/ Step(p)
                          \/ Crash(p)
  \/ \E x \in Transactions : \/ NetworkAccepts(x)
                             \/ \E status \in Terminal : ChainFinalizes(x, status)
  \/ PowerLoss \/ Reconcile

Spec == Init /\ [][Next]_vars

----------------------------------------------------------------------------
(* Safety.                                                                 *)

\* Every variable has its type; only the lock's owner is running.
TypeOK ==
  /\ file \in Records \cup {NoRecord}
  /\ survivors \subseteq Records \cup {NoRecord}
  /\ record \in [Processes -> Records \cup {NoRecord}]
  /\ \A p \in Processes : at[p] # "idle" => lock = p

\* One exact transaction, no re-signing after a send, no uncertain-send
\* retries (evm-journal.ts 101): whatever fails, is killed or loses power, at
\* most one transaction is handed to the network, and at most once.
AtMostOneSend ==
  \A x, y \in Transactions : sent[x] > 0 /\ sent[y] > 0 => x = y /\ sent[x] = 1

\* Only a durable signed record proves that no attempt was started (159): a
\* transaction that was ever handed to the network is in the journal, past the
\* signed phase, in every version a power loss could leave.
SentIsJournaled ==
  \A x \in Transactions :
    sent[x] > 0 => \A r \in survivors \cup {file} :
                     r # NoRecord /\ r.signed = x /\ r.phase # "signed"

\* Whatever a run reports to its caller is what the chain finalized (152-157)
\* of the one journaled transaction, which was signed for that caller's intent
\* (76-80): no two reports, nor a report and the journal, ever disagree.
ReportsAreFinal ==
  /\ \A q \in reported :
       /\ chain[q.signed] = q.phase
       /\ \A r \in survivors : r # NoRecord /\ r.signed = q.signed /\ r.intent = q.intent
  /\ \A r \in survivors : r # NoRecord /\ r.phase \in Terminal => chain[r.signed] = r.phase

\* A journal keeps the intent and the signature it was created with, and moves
\* through its phases in one direction; only a power loss takes back what was
\* not yet durable.
Order(phase) == CASE phase = "signed" -> 0 [] phase = "submitting" -> 1
                  [] phase = "submitted" -> 2 [] OTHER -> 3

PhaseOnlyAdvances ==
  [][file # NoRecord /\ file' # file /\ faults' = faults =>
       /\ file' # NoRecord
       /\ file'.intent = file.intent /\ file'.signed = file.signed
       /\ Order(file'.phase) > Order(file.phase)]_vars

----------------------------------------------------------------------------
(* Liveness.  A step of a run ends: every RPC call has a timeout           *)
(* (evm-rpc.ts 96) and the rest is local.  Beyond the code, the claim      *)
(* assumes an operator who reconciles orphaned locks and keeps running the *)
(* tool, and a disk and an endpoint that do not fail every single time;    *)
(* not that a request ever arrives.                                        *)

Fairness ==
  /\ WF_vars(Reconcile)
  /\ \A p \in Processes :
       /\ WF_vars(Step(p))
       /\ \A i \in Intents : SF_vars(Begin(p, i, FALSE))
       /\ SF_vars(ReadExisting(p)) /\ SF_vars(ObserveFinal(p))
       /\ SF_vars(WriteRenames(p)) /\ SF_vars(WriteSyncs(p))

FairSpec == Spec /\ Fairness

\* A transaction that is finalized is eventually reported, whatever happened to
\* the process that sent it (161, 167-168 leave it unresolved meanwhile).
FinalizedIsReported ==
  \A x \in Transactions : chain[x] \in Terminal ~> \E q \in reported : q.signed = x
=============================================================================
