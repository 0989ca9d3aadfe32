----------------------------- MODULE SolanaSetup -----------------------------
(***************************************************************************)
(* The set-up of the Devnet token pool: a fixed sequence of operations     *)
(* (create-solana-mint, initialize-solana-pool, register-solana-pool,      *)
(* configure-solana-pool), each one signed transaction with a journal file *)
(* of its own, run by runSolanaTransactionJournal() or its twin for the    *)
(* mint, and each signed only after what it builds on is finalized.        *)
(*                                                                         *)
(* The journal files are those of JournalFile, one per operation.  A tool  *)
(* stands at one of its awaits.  Solana executes a transaction in a fork   *)
(* that may be dropped until it is finalized; an endpoint may lag, so      *)
(* "not-found" proves nothing, and neither does "expired".                 *)
(***************************************************************************)
EXTENDS Naturals, Sequences

CONSTANTS Processes, NoRecord,
          LastOperation,  \* how many operations the set-up has
          Checkpointed,   \* those that reconcile the journal before theirs
          MaxSigned,      \* bound: transactions signed per operation
          MaxFailures     \* bound: crashes and power losses

Operations == 1 .. LastOperation
Phases     == {"signed", "submitting", "submitted", "succeeded", "failed"}
Records    == [tx : 1 .. MaxSigned, phase : Phases]

\* Only an operation that has one before it reconciles that one's journal.
SetupAssumption ==
  /\ LastOperation \in Nat \ {0} /\ MaxSigned \in Nat /\ MaxFailures \in Nat
  /\ Checkpointed \subseteq 2 .. LastOperation
  /\ {"absent", "orphan"} \cap Processes = {} /\ NoRecord \notin Records

VARIABLES journals,  \* journals[k]: [lock, file, survivors], see JournalFile
          tools,     \* tools[p]: where p stands, its operation, its record
          signed,    \* signed[k]: transactions signed for k so far
          handed,    \* handed[k]: what was handed to the network for k, in order
          ledger,    \* ledger[k]: the execution of k in the current fork
          failures

setupVars == <<journals, tools, signed, handed, ledger, failures>>

Nowhere == [at |-> "idle", op |-> 1, record |-> NoRecord]

Init ==
  /\ journals = [k \in Operations |-> [lock |-> "absent", file |-> NoRecord, survivors |-> {NoRecord}]]
  /\ tools = [p \in Processes |-> Nowhere]
  /\ signed = [k \in Operations |-> 0]
  /\ handed = [k \in Operations |-> <<>>]
  /\ ledger = [k \in Operations |-> NoRecord]
  /\ failures = 0

----------------------------------------------------------------------------
(* What the tools read of the chain, at commitment "finalized".            *)

Finalized(k) == ledger[k] # NoRecord /\ ledger[k].final

\* The "before" snapshot: all that k builds on is there.
Prerequisite(k) == k > 1 => (Finalized(k - 1) /\ ledger[k - 1].ok)

\* Exactly the recorded transaction is finalized, and so is its status.
ExactFinal(k, record) == Finalized(k) /\ ledger[k].tx = record.tx

Outcome(k) == IF ledger[k].ok THEN "succeeded" ELSE "failed"

----------------------------------------------------------------------------
(* Control.                                                                *)

At(p, await) == tools[p].at = await
Stands(p, await, record) == [tools EXCEPT ![p].at = await, ![p].record = record]
Unlocked(p) == [k \in Operations |->
                  IF journals[k].lock = p THEN [journals[k] EXCEPT !.lock = "absent"] ELSE journals[k]]

\* Returning or throwing releases every lock file p holds.
Leave(p) == tools' = [tools EXCEPT ![p] = Nowhere] /\ journals' = Unlocked(p)

AwaitWrite(p, record) == tools' = Stands(p, "write", record) /\ UNCHANGED journals

Start(p, k) ==
  /\ At(p, "idle") /\ journals[k].lock = "absent"
  /\ journals' = [journals EXCEPT ![k].lock = p]
  /\ tools' = [tools EXCEPT ![p] = [at |-> "read", op |-> k, record |-> NoRecord]]
  /\ UNCHANGED <<signed, handed, ledger, failures>>

\* Slip: a signature that was not submitted yet is replaced by a fresh one.
ReadStale(p) ==
  LET k == tools[p].op  stored == journals[k].file
  IN  /\ At(p, "read")
      /\ tools' = IF stored # NoRecord /\ stored.phase # "submitting"
                    THEN Stands(p, "observe", stored) ELSE Stands(p, "sign", NoRecord)
      /\ UNCHANGED <<journals, signed, handed, ledger, failures>>

Read(p) ==
  LET k == tools[p].op  stored == journals[k].file
  IN  /\ At(p, "read")
      /\ tools' = IF stored # NoRecord THEN Stands(p, "observe", stored)
                  ELSE Stands(p, IF k \in Checkpointed THEN "predecessor" ELSE "sign", NoRecord)
      /\ UNCHANGED <<journals, signed, handed, ledger, failures>>

\* sign(): the predecessor's journal, under its own lock.  Its two exclusive
\* sections are one, since a terminal record changes no more.
ReadPredecessor(p) ==
  LET before == tools[p].op - 1
  IN  /\ At(p, "predecessor") /\ journals[before].lock = "absent"
      /\ journals[before].file # NoRecord /\ journals[before].file.phase = "succeeded"
      /\ journals' = [journals EXCEPT ![before].lock = p]
      /\ tools' = Stands(p, "reconcile", NoRecord)
      /\ UNCHANGED <<signed, handed, ledger, failures>>

\* The predecessor's journal runs again, and may neither sign nor send.
ReconcilePredecessor(p) ==
  LET before == tools[p].op - 1
  IN  /\ At(p, "reconcile")
      /\ ExactFinal(before, journals[before].file) /\ ledger[before].ok
      /\ journals' = [journals EXCEPT ![before].lock = "absent"]
      /\ tools' = Stands(p, "sign", NoRecord)
      /\ UNCHANGED <<signed, handed, ledger, failures>>

\* sign(), from the "before" snapshot on: the operation must not have taken
\* effect yet, and what it builds on must have.
Sign(p) ==
  LET k == tools[p].op
  IN  /\ At(p, "sign") /\ signed[k] < MaxSigned
      /\ Prerequisite(k) /\ ~ (Finalized(k) /\ ledger[k].ok)
      /\ signed' = [signed EXCEPT ![k] = @ + 1]
      /\ AwaitWrite(p, [tx |-> signed[k] + 1, phase |-> "signed"])
      /\ UNCHANGED <<handed, ledger, failures>>

\* Whatever is awaited may throw: a journal or lock that does not fit, a check
\* of sign(), a write, before or after its rename.  The caller learns nothing.
Throws(p) ==
  /\ tools[p].at \in {"read", "predecessor", "reconcile", "sign", "write", "sync"}
  /\ Leave(p)
  /\ UNCHANGED <<signed, handed, ledger, failures>>

WriteRenames(p) ==
  LET k == tools[p].op  record == tools[p].record
  IN  /\ At(p, "write")
      /\ journals' = [journals EXCEPT ![k].file = record, ![k].survivors = @ \cup {record}]
      /\ tools' = Stands(p, "sync", record)
      /\ UNCHANGED <<signed, handed, ledger, failures>>

WriteSyncs(p) ==
  LET k == tools[p].op  record == tools[p].record
      written == [journals EXCEPT ![k].survivors = {journals[k].file}]
  IN  /\ At(p, "sync")
      /\ IF record.phase \in {"signed", "submitting"}
           THEN /\ journals' = written
                /\ tools' = Stands(p, IF record.phase = "signed" THEN "observe" ELSE "broadcast", record)
           ELSE /\ journals' = [written EXCEPT ![k].lock = "absent"]
                /\ tools' = [tools EXCEPT ![p] = Nowhere]
      /\ UNCHANGED <<signed, handed, ledger, failures>>

\* The transaction is final: what is recorded already has to agree.
ObserveFinal(p) ==
  LET k == tools[p].op  record == tools[p].record
  IN  /\ At(p, "observe") /\ ExactFinal(k, record)
      /\ IF record.phase \in {"succeeded", "failed"}
           THEN Leave(p) ELSE AwaitWrite(p, [record EXCEPT !.phase = Outcome(k)])
      /\ UNCHANGED <<signed, handed, ledger, failures>>

\* "unknown", "expired", an error, or a precondition of the broadcast that does
\* not hold: the record stays as it is, and nothing replaces it.
ObserveUnresolved(p) ==
  /\ At(p, "observe") /\ Leave(p)
  /\ UNCHANGED <<signed, handed, ledger, failures>>

\* Neither the transaction nor a status was found, twice.  Only a record that
\* is still "signed" proves that no attempt was started.
ObserveAbsent(p) ==
  LET record == tools[p].record
  IN  /\ At(p, "observe") /\ record.phase = "signed"
      /\ AwaitWrite(p, [record EXCEPT !.phase = "submitting"])
      /\ UNCHANGED <<signed, handed, ledger, failures>>

Broadcast(p) ==
  LET k == tools[p].op
  IN  /\ At(p, "broadcast")
      /\ handed' = [handed EXCEPT ![k] = Append(@, tools[p].record.tx)]
      /\ tools' = Stands(p, "response", tools[p].record)
      /\ UNCHANGED <<journals, signed, ledger, failures>>

\* broadcast() throws before the request leaves (wrong cluster, or the repair's
\* own "before" snapshot), or after it did: the outcome is unknown.
BroadcastUnresolved(p) ==
  /\ tools[p].at \in {"broadcast", "response"} /\ Leave(p)
  /\ UNCHANGED <<signed, handed, ledger, failures>>

BroadcastAnswered(p) ==
  /\ At(p, "response")
  /\ AwaitWrite(p, [tools[p].record EXCEPT !.phase = "submitted"])
  /\ UNCHANGED <<signed, handed, ledger, failures>>

Step(p) ==
  \/ Read(p) \/ ReadPredecessor(p) \/ ReconcilePredecessor(p) \/ Sign(p) \/ Throws(p)
  \/ WriteRenames(p) \/ WriteSyncs(p)
  \/ ObserveFinal(p) \/ ObserveUnresolved(p) \/ ObserveAbsent(p)
  \/ Broadcast(p) \/ BroadcastUnresolved(p) \/ BroadcastAnswered(p)

----------------------------------------------------------------------------
(* The environment.                                                        *)

\* What was handed to the network executes, now, later or never; without what
\* it builds on it fails, and it may fail for reasons of its own.
Execute(k, n, ok) ==
  /\ ledger[k] = NoRecord /\ \E i \in DOMAIN handed[k] : handed[k][i] = n
  /\ (ok /\ k > 1) => (ledger[k - 1] # NoRecord /\ ledger[k - 1].ok)
  /\ ledger' = [ledger EXCEPT ![k] = [tx |-> n, ok |-> ok, final |-> FALSE]]
  /\ UNCHANGED <<journals, tools, signed, handed, failures>>

\* The fork is dropped, with all that was executed on top.
Drop(k) ==
  /\ ledger[k] # NoRecord /\ ~ ledger[k].final
  /\ ledger' = [j \in Operations |-> IF j >= k /\ ~ Finalized(j) THEN NoRecord ELSE ledger[j]]
  /\ UNCHANGED <<journals, tools, signed, handed, failures>>

Finalize(k) ==
  /\ ledger[k] # NoRecord /\ ~ ledger[k].final
  /\ ledger[k].ok => Prerequisite(k)
  /\ ledger' = [ledger EXCEPT ![k].final = TRUE]
  /\ UNCHANGED <<journals, tools, signed, handed, failures>>

Crash(p) ==
  /\ ~ At(p, "idle") /\ failures < MaxFailures
  /\ tools' = [tools EXCEPT ![p] = Nowhere]
  /\ journals' = [k \in Operations |->
                    IF journals[k].lock = p THEN [journals[k] EXCEPT !.lock = "orphan"] ELSE journals[k]]
  /\ failures' = failures + 1
  /\ UNCHANGED <<signed, handed, ledger>>

\* Each journal is left as one of its survivors; with it, any lock file there was.
PowerLoss ==
  /\ failures < MaxFailures
  /\ \E left \in [Operations -> UNION {journals[k].survivors : k \in Operations}] :
       /\ \A k \in Operations : left[k] \in journals[k].survivors
       /\ journals' = [k \in Operations |->
            [lock |-> IF journals[k].lock = "absent" THEN "absent" ELSE "orphan",
             file |-> left[k], survivors |-> {left[k]}]]
  /\ tools' = [p \in Processes |-> Nowhere]
  /\ failures' = failures + 1
  /\ UNCHANGED <<signed, handed, ledger>>

\* The reconciliation the adapter asks an operator for.
ClearOrphan(k) ==
  /\ journals[k].lock = "orphan"
  /\ journals' = [journals EXCEPT ![k].lock = "absent"]
  /\ UNCHANGED <<tools, signed, handed, ledger, failures>>

Next ==
  \/ \E p \in Processes : (\E k \in Operations : Start(p, k)) \/ Step(p) \/ Crash(p)
  \/ \E k \in Operations : \/ \E n \in 1 .. MaxSigned, ok \in BOOLEAN : Execute(k, n, ok)
                           \/ Drop(k) \/ Finalize(k) \/ ClearOrphan(k)
  \/ PowerLoss

Spec == Init /\ [][Next]_setupVars

----------------------------------------------------------------------------
(* Properties.                                                             *)

\* "Expiry or submission uncertainty never authorizes replacement": whatever
\* fails, expires, is killed or loses power, an operation hands one transaction
\* to the network, once, and every version of its journal a power loss could
\* leave names that transaction as possibly sent.  None reaches the network
\* before what it builds on is final (a fork that drops the latter would make
\* it fail, and its journal never sends a second one), and a journal that calls
\* an operation finished agrees with the finalized chain.
SetupSendsOnce ==
  \A k \in Operations :
    /\ handed[k] # <<>> =>
         /\ Len(handed[k]) = 1 /\ Prerequisite(k)
         /\ \A r \in journals[k].survivors :
              r # NoRecord /\ r.tx = handed[k][1] /\ r.phase # "signed"
    /\ \A r \in journals[k].survivors :
         r # NoRecord /\ r.phase \in {"succeeded", "failed"} => ExactFinal(k, r) /\ r.phase = Outcome(k)
=============================================================================
