---------------------- MODULE TransactionJournalsProofs ----------------------
(***************************************************************************)
(* The safety of the two journal engines, for any processes, operations,   *)
(* intents and number of signings and faults.  The argument: only the      *)
(* lock's owner runs; what it has in memory is what is in the file, or one *)
(* phase ahead of it; and nothing was ever sent while a version of the     *)
(* journal that a power loss could leave is absent or still in the signed  *)
(* phase.                                                                  *)
(***************************************************************************)
EXTENDS TransactionJournals, Sequences, TLAPS

Awaits == {"idle", "read", "sign", "write", "sync", "observe", "broadcast", "response", "return"}
Statuses == {"unknown", "pending"} \cup Terminal

Typed ==
  /\ lock \in Processes \cup {"absent", "orphan"}
  /\ file \in Records \cup {NoRecord}
  /\ survivors \in SUBSET (Records \cup {NoRecord})
  /\ at \in [Processes -> Awaits]
  /\ intent \in [Processes -> Intents]
  /\ observer \in [Processes -> BOOLEAN]
  /\ record \in [Processes -> Records \cup {NoRecord}]
  /\ signings \in 0 .. MaxSignings
  /\ sent \in [Transactions -> Nat]
  /\ chain \in [Transactions -> Statuses]
  /\ faults \in Nat

\* Only the lock's owner runs.
OwnerRuns == \A p \in Processes : at[p] # "idle" => lock = p

\* Every version a power loss may leave is of the one transaction in the file.
OneTransaction ==
  /\ file \in survivors
  /\ file = NoRecord => survivors = {NoRecord}
  /\ \A r \in survivors : r # NoRecord => r.signed = file.signed /\ r.intent = file.intent

NothingSent == \A x \in Transactions : sent[x] = 0

\* Where a run stands tells how its memory relates to the file.
InStep(p) ==
  /\ at[p] = "sign" => file = NoRecord
  /\ at[p] \in {"observe", "sync", "broadcast", "response", "return"} =>
       file # NoRecord /\ record[p] = file
  /\ at[p] = "write" => record[p] # NoRecord
  /\ at[p] = "write" /\ file = NoRecord => record[p].phase = "signed"
  /\ at[p] = "write" /\ file # NoRecord =>
       /\ record[p].signed = file.signed /\ record[p].intent = file.intent
       /\ Order(record[p].phase) > Order(file.phase)
  /\ at[p] \notin {"idle", "read", "sign"} => record[p].intent = intent[p]
  /\ at[p] \in {"broadcast", "response"} => record[p].phase = "submitting"
  /\ at[p] \in {"broadcast", "response", "return"} => survivors = {file}
  /\ at[p] \in {"write", "sync", "broadcast"} /\ record[p].phase = "submitting" => NothingSent
  /\ at[p] = "write" /\ record[p].phase \in Terminal => chain[record[p].signed] = record[p].phase

\* Nothing is on the chain that was not sent, and a terminal record says what
\* the chain says.
ChainAgrees ==
  /\ \A x \in Transactions : chain[x] # "unknown" => sent[x] > 0
  /\ \A r \in survivors : r # NoRecord /\ r.phase \in Terminal => chain[r.signed] = r.phase

\* The part of the invariant that only files, the network and reports disturb.
ReportsTerminal == \A q \in reported : q \in Records /\ q.phase \in Terminal

Shared ==
  /\ OneTransaction /\ ChainAgrees /\ ReportsTerminal
  /\ AtMostOneSend /\ SentIsJournaled /\ ReportsAreFinal

IInv == Typed /\ OwnerRuns /\ (\A p \in Processes : InStep(p)) /\ Shared

-----------------------------------------------------------------------------
(* What many steps have in common.                                         *)

LEMMA InitEstablishes == Init => IInv
<1> SUFFICES ASSUME Init PROVE IInv
    OBVIOUS
<1> USE DEF Init, FileInit
<1>1. Typed
      BY JournalAssumption DEF Typed, Awaits, Statuses
<1>2. OwnerRuns
      BY DEF OwnerRuns
<1>3. \A p \in Processes : InStep(p)
      BY DEF InStep
<1>4. Shared
      BY DEF Shared, OneTransaction, ChainAgrees, ReportsTerminal, AtMostOneSend, SentIsJournaled,
              ReportsAreFinal
<1> QED
    BY <1>1, <1>2, <1>3, <1>4 DEF IInv

\* While one process runs, the others are idle.
LEMMA Alone ==
  ASSUME OwnerRuns, NEW p \in Processes, at[p] # "idle", NEW q \in Processes, q # p
  PROVE  at[q] = "idle"
BY DEF OwnerRuns

\* An idle process is in step with anything.
LEMMA IdleInStep ==
  ASSUME NEW p \in Processes, at[p] = "idle"
  PROVE  InStep(p)
BY DEF InStep

\* A step that touches neither files nor network nor reports.
LEMMA QuietKeepsShared ==
  ASSUME Shared, UNCHANGED <<file, survivors, sent, chain, reported>>
  PROVE  Shared'
BY DEF Shared, OneTransaction, ChainAgrees, ReportsTerminal, AtMostOneSend, SentIsJournaled,
              ReportsAreFinal

\* A run that moves on keeps the lock, and its peers stay idle.
LEMMA GotoKeepsOwner ==
  ASSUME Typed, OwnerRuns, NEW p \in Processes, at[p] # "idle", NEW await \in Awaits,
         Goto(p, await), UNCHANGED lock
  PROVE  /\ OwnerRuns'
         /\ at' \in [Processes -> Awaits] /\ at'[p] = await
         /\ \A q \in Processes : q # p => InStep(q)'
<1>1. at' \in [Processes -> Awaits] /\ at'[p] = await /\ \A q \in Processes : q # p => at'[q] = at[q]
      BY DEF Goto, Typed
<1>2. OwnerRuns'
      BY <1>1 DEF OwnerRuns
<1>3. ASSUME NEW q \in Processes, q # p PROVE InStep(q)'
      BY <1>1, <1>3, Alone DEF InStep
<1> QED
    BY <1>1, <1>2, <1>3

\* A run that ends.
LEMMA LeaveKeepsOwner ==
  ASSUME Typed, OwnerRuns, NEW p \in Processes, at[p] # "idle", Leave(p)
  PROVE  /\ OwnerRuns'
         /\ lock' \in Processes \cup {"absent", "orphan"}
         /\ at' \in [Processes -> Awaits]
         /\ record' \in [Processes -> Records \cup {NoRecord}]
         /\ \A q \in Processes : InStep(q)'
<1>1. at' \in [Processes -> Awaits] /\ \A q \in Processes : at'[q] = "idle"
      BY Alone DEF Leave, Goto, Typed, Awaits
<1>2. OwnerRuns'
      BY <1>1 DEF OwnerRuns
<1>3. record' \in [Processes -> Records \cup {NoRecord}]
      BY DEF Leave, Typed
<1>4. lock' \in Processes \cup {"absent", "orphan"}
      BY DEF Leave, ReleaseLock, Typed
<1>5. ASSUME NEW q \in Processes PROVE InStep(q)'
      BY <1>1 DEF InStep
<1> QED
    BY <1>1, <1>2, <1>3, <1>4, <1>5

\* A run that ends without having touched anything else.
LEMMA QuietLeaveKeeps ==
  ASSUME IInv, NEW p \in Processes, at[p] # "idle", Leave(p),
         UNCHANGED <<file, survivors, intent, observer, signings, sent, chain, reported, faults>>
  PROVE  IInv'
<1>1. Shared'
      BY QuietKeepsShared DEF IInv
<1>2. Typed'
      BY LeaveKeepsOwner DEF IInv, Typed
<1> QED
    BY <1>1, <1>2, LeaveKeepsOwner DEF IInv

\* A run that moves on without touching anything shared, with its own record
\* set to r.
LEMMA QuietGotoKeeps ==
  ASSUME IInv, NEW p \in Processes, at[p] # "idle", NEW await \in Awaits,
         NEW r \in Records \cup {NoRecord},
         Goto(p, await), record' = [record EXCEPT ![p] = r], InStep(p)',
         signings' \in 0 .. MaxSignings,
         UNCHANGED <<lock, file, survivors, intent, observer, sent, chain, reported, faults>>
  PROVE  IInv'
<1>1. Shared'
      BY QuietKeepsShared DEF IInv
<1>2. OwnerRuns' /\ at' \in [Processes -> Awaits] /\ \A q \in Processes : q # p => InStep(q)'
      BY GotoKeepsOwner DEF IInv
<1>3. Typed'
      BY <1>2 DEF IInv, Typed
<1> QED
    BY <1>1, <1>2, <1>3 DEF IInv

-----------------------------------------------------------------------------
(* The steps of a run.                                                     *)

LEMMA BeginKeeps ==
  ASSUME IInv, NEW p \in Processes, NEW i \in Intents, NEW readOnly \in BOOLEAN,
         Begin(p, i, readOnly)
  PROVE  IInv'
<1> USE DEF Begin, AcquireLock
<1>1. \A q \in Processes : at[q] = "idle"
      BY JournalAssumption DEF IInv, OwnerRuns
<1>2. at' \in [Processes -> Awaits] /\ at'[p] = "read" /\ \A q \in Processes : q # p => at'[q] = "idle"
      BY <1>1 DEF Goto, IInv, Typed, Awaits
<1>3. Shared'
      BY QuietKeepsShared DEF IInv
<1>4. OwnerRuns'
      BY <1>2 DEF OwnerRuns
<1>5. ASSUME NEW q \in Processes PROVE InStep(q)'
      BY <1>2 DEF InStep
<1>6. Typed'
      BY <1>2 DEF IInv, Typed
<1> QED
    BY <1>3, <1>4, <1>5, <1>6 DEF IInv

LEMMA ReadExistingKeeps ==
  ASSUME IInv, NEW p \in Processes, ReadExisting(p)
  PROVE  IInv'
<1> USE DEF ReadExisting, fileVars
<1>1. file \in Records
      BY DEF Admits, IInv, Typed
<1>2. at'[p] = "observe" /\ record'[p] = file
      BY <1>1 DEF Goto, IInv, Typed
<1>3. InStep(p)'
      BY <1>1, <1>2 DEF InStep, Admits
<1>4. signings' \in 0 .. MaxSignings
      BY DEF IInv, Typed
<1> QED
    BY <1>1, <1>3, <1>4, QuietGotoKeeps DEF Awaits

LEMMA ReadNothingKeeps ==
  ASSUME IInv, NEW p \in Processes, ReadNothing(p)
  PROVE  IInv'
<1> USE DEF ReadNothing, fileVars
<1>1. at'[p] = "sign" /\ record[p] \in Records \cup {NoRecord} /\ record' = [record EXCEPT ![p] = record[p]]
      BY DEF Goto, IInv, Typed
<1>2. InStep(p)'
      BY <1>1 DEF InStep
<1>3. signings' \in 0 .. MaxSignings
      BY DEF IInv, Typed
<1> QED
    BY <1>1, <1>2, <1>3, QuietGotoKeeps DEF Awaits

LEMMA SignKeeps ==
  ASSUME IInv, NEW p \in Processes, Sign(p)
  PROVE  IInv'
<1> DEFINE r == [intent |-> intent[p], signed |-> signings + 1, phase |-> "signed"]
<1>1. r \in Records /\ signings' \in 0 .. MaxSignings
      BY JournalAssumption DEF Sign, IInv, Typed, Records, Transactions, Phases
<1>2. at'[p] = "write" /\ record'[p] = r /\ record' = [record EXCEPT ![p] = r] /\ Goto(p, "write")
      BY DEF Sign, AwaitWrite, Goto, IInv, Typed
<1>3. file = NoRecord
      BY DEF Sign, IInv, InStep
<1>4. InStep(p)'
      <2>1. r # NoRecord
            BY <1>1, NoRecordAssumption
      <2>2. r.intent = intent[p] /\ r.phase = "signed" /\ "signed" \notin Terminal
            BY DEF Terminal
      <2>3. UNCHANGED <<intent, file>>
            BY DEF Sign
      <2> HIDE DEF r
      <2> QED
          BY <1>2, <1>3, <2>1, <2>2, <2>3 DEF InStep
<1> QED
    BY <1>1, <1>2, <1>4, QuietGotoKeeps DEF Sign, AwaitWrite, Awaits

\* write() makes the run's record the file's, one phase on.
LEMMA WriteRenamesKeeps ==
  ASSUME IInv, NEW p \in Processes, WriteRenames(p)
  PROVE  IInv'
<1> USE DEF WriteRenames, Rename
<1> DEFINE r == record[p]
<1>1. r \in Records /\ r # NoRecord
      BY DEF IInv, Typed, InStep
<1>2. file # NoRecord => r.signed = file.signed /\ r.intent = file.intent /\ r.phase # "signed"
      BY DEF IInv, InStep, Order, Typed, Records, Phases, Terminal
<1>3. file = NoRecord \/ r.phase = "submitting" => NothingSent
      BY DEF IInv, InStep, Shared, OneTransaction, SentIsJournaled, NothingSent, Typed
<1>4. OwnerRuns' /\ at' \in [Processes -> Awaits] /\ at'[p] = "sync" /\ \A q \in Processes : q # p => InStep(q)'
      BY GotoKeepsOwner DEF IInv, Awaits
<1>5. InStep(p)'
      BY <1>1, <1>4 DEF IInv, InStep, NothingSent
<1>6. Typed'
      BY <1>1, <1>4 DEF IInv, Typed
<1>7. Shared'
      <2>1. OneTransaction'
            BY <1>1, <1>2 DEF IInv, Shared, OneTransaction
      <2>2. ChainAgrees'
            BY DEF IInv, Shared, ChainAgrees, InStep
      <2>3. AtMostOneSend'
            BY DEF IInv, Shared, AtMostOneSend
      <2>4. SentIsJournaled'
            <3>1. SUFFICES ASSUME NEW x \in Transactions, sent[x] > 0
                           PROVE  r # NoRecord /\ r.signed = x /\ r.phase # "signed"
                  BY DEF IInv, Shared, SentIsJournaled
            <3>2. file # NoRecord
                  BY <1>3, <3>1 DEF NothingSent
            <3>3. file.signed = x
                  BY <3>1 DEF IInv, Shared, SentIsJournaled
            <3> QED
                BY <1>1, <1>2, <3>2, <3>3
      <2>5. ReportsAreFinal'
            <3>1. ASSUME NEW q \in reported
                  PROVE  r.signed = q.signed /\ r.intent = q.intent
                  BY <1>2 DEF IInv, Shared, ReportsAreFinal, OneTransaction
            <3> QED
                BY <1>1, <2>2, <3>1 DEF IInv, Shared, ReportsAreFinal, ChainAgrees
      <2>6. ReportsTerminal'
            BY DEF IInv, Shared, ReportsTerminal
      <2> QED
          BY <2>1, <2>2, <2>3, <2>4, <2>5, <2>6 DEF Shared
<1> QED
    BY <1>4, <1>5, <1>6, <1>7 DEF IInv

\* Once the directory is synced, the file is all a power loss can leave.
LEMMA WriteSyncsKeeps ==
  ASSUME IInv, NEW p \in Processes, WriteSyncs(p)
  PROVE  IInv'
<1> USE DEF WriteSyncs, SyncDirectory
<1> DEFINE await == AfterWrite(record[p].phase)
<1>1. record[p] = file /\ file \in Records /\ file \in survivors /\ file # NoRecord
      BY DEF IInv, InStep, Typed, Shared, OneTransaction
<1>2. /\ await \in {"observe", "broadcast", "return"}
      /\ await = "broadcast" => record[p].phase = "submitting"
      BY <1>1 DEF AfterWrite, Records, Phases
<1>3. await \in Awaits
      BY <1>2 DEF Awaits
<1> HIDE DEF await
<1>4. OwnerRuns' /\ at' \in [Processes -> Awaits] /\ at'[p] = await /\ \A q \in Processes : q # p => InStep(q)'
      BY <1>3, GotoKeepsOwner DEF IInv, await
<1>5. InStep(p)'
      BY <1>1, <1>2, <1>4 DEF IInv, InStep, NothingSent
<1>6. Typed'
      BY <1>1, <1>4 DEF IInv, Typed
<1>7. Shared'
      BY <1>1 DEF IInv, Shared, OneTransaction, ChainAgrees, ReportsTerminal, AtMostOneSend, SentIsJournaled,
             ReportsAreFinal
<1> QED
    BY <1>4, <1>5, <1>6, <1>7 DEF IInv

\* Only a signed record is moved to submitting, and then nothing was sent.
LEMMA ObserveNotFoundKeeps ==
  ASSUME IInv, NEW p \in Processes, ObserveNotFound(p)
  PROVE  IInv'
<1>1. CASE ~ MayBroadcast(p)
      BY <1>1, QuietLeaveKeeps DEF ObserveNotFound
<1>2. CASE MayBroadcast(p)
      <2> DEFINE r == [record[p] EXCEPT !.phase = "submitting"]
      <2>1. /\ record[p] = file /\ file \in Records /\ file \in survivors /\ file # NoRecord
            /\ file.phase = "signed" /\ file.intent = intent[p]
            BY <1>2 DEF ObserveNotFound, MayBroadcast, IInv, InStep, Typed, Shared, OneTransaction
      <2>2. /\ r \in Records /\ r.signed = file.signed /\ r.intent = file.intent
            /\ r.phase = "submitting"
            BY <2>1 DEF Records, Phases
      <2>3. r # NoRecord
            BY <2>2, NoRecordAssumption
      <2>4. NothingSent
            BY <2>1 DEF IInv, Shared, SentIsJournaled, NothingSent, Typed
      <2>5. at[p] # "idle" /\ Goto(p, "write") /\ record' = [record EXCEPT ![p] = r]
            BY <1>2 DEF ObserveNotFound, AwaitWrite
      <2>6. at'[p] = "write" /\ record'[p] = r
            BY <2>5 DEF Goto, IInv, Typed
      <2>7. /\ Order(r.phase) > Order(file.phase) /\ r.phase \notin Terminal
            BY <2>1, <2>2 DEF Order, Terminal
      <2> HIDE DEF r
      <2>8. UNCHANGED <<lock, file, survivors, intent, observer, sent, chain, reported, signings, faults>>
            BY <1>2 DEF ObserveNotFound, AwaitWrite
      <2>9. InStep(p)'
            BY <2>1, <2>2, <2>3, <2>4, <2>6, <2>7, <2>8 DEF InStep, NothingSent, Order
      <2> QED
          BY <2>2, <2>5, <2>8, <2>9, QuietGotoKeeps DEF Awaits, IInv, Typed
<1> QED
    BY <1>1, <1>2

\* A report made while the journal and the chain agree is final.
LEMMA ReportKeepsShared ==
  ASSUME IInv, NEW p \in Processes, record[p] = file, file.intent = intent[p],
         file # NoRecord,
         file.phase \in Terminal => chain[file.signed] = file.phase,
         reported' = Report(p), UNCHANGED <<file, survivors, sent, chain>>
  PROVE  Shared'
<1>1. file \in Records
      BY DEF IInv, Typed
<1>2. OneTransaction' /\ ChainAgrees' /\ AtMostOneSend' /\ SentIsJournaled'
      BY DEF IInv, Shared, OneTransaction, ChainAgrees, AtMostOneSend, SentIsJournaled
<1>3. ReportsAreFinal'
      <2>1. CASE file.phase \notin Terminal
            BY <2>1 DEF Report, ReportsAreFinal, IInv, Shared
      <2>2. CASE file.phase \in Terminal
            <3> DEFINE q == [file EXCEPT !.intent = intent[p]]
            <3>1. reported' = reported \cup {q}
                  BY <2>2 DEF Report
            <3>2. q.signed = file.signed /\ q.phase = file.phase /\ q.intent = file.intent
                  BY <1>1 DEF Records
            <3> HIDE DEF q
            <3>3. sent[file.signed] > 0
                  BY <1>1, <2>2 DEF IInv, Shared, ChainAgrees, Records, Terminal
            <3>4. \A r \in survivors : r # NoRecord /\ r.signed = q.signed /\ r.intent = q.intent
                  BY <1>1, <3>2, <3>3 DEF IInv, Shared, SentIsJournaled, OneTransaction, Records
            <3> QED
                BY <2>2, <3>1, <3>2, <3>4 DEF IInv, Shared, ReportsAreFinal
      <2> QED
          BY <2>1, <2>2
<1>4. ReportsTerminal'
      BY <1>1 DEF Report, ReportsTerminal, IInv, Shared, Records, Typed
<1> QED
    BY <1>2, <1>3, <1>4 DEF Shared

\* The chain's verdict on the journaled transaction, which is known to have
\* been sent.
LEMMA ObserveFinalKeeps ==
  ASSUME IInv, NEW p \in Processes, ObserveFinal(p)
  PROVE  IInv'
<1> DEFINE phase == chain[record[p].signed]
<1>1. /\ record[p] = file /\ file \in Records /\ file \in survivors /\ file # NoRecord
      /\ file.intent = intent[p] /\ phase \in Terminal
      BY DEF ObserveFinal, IInv, InStep, Typed, Shared, OneTransaction
<1>2. CASE record[p].phase \in Terminal
      <2>1. Leave(p) /\ UNCHANGED <<file, survivors, intent, observer, signings, sent, chain, faults>>
            BY <1>2 DEF ObserveFinal
      <2>2. at[p] # "idle"
            BY DEF ObserveFinal
      <2>3. OwnerRuns' /\ \A q \in Processes : InStep(q)'
            BY <2>1, <2>2, LeaveKeepsOwner DEF IInv
      <2>4. Typed'
            BY <2>1, <2>2, LeaveKeepsOwner DEF IInv, Typed
      <2>5. chain[file.signed] = file.phase
            BY <1>1, <1>2 DEF IInv, Shared, ChainAgrees
      <2>6. reported' = Report(p)
            BY <1>1, <1>2, <2>5 DEF ObserveFinal
      <2>7. Shared'
            BY <1>1, <2>1, <2>5, <2>6, ReportKeepsShared
      <2> QED
          BY <2>3, <2>4, <2>7 DEF IInv
<1>3. CASE record[p].phase \notin Terminal
      <2> DEFINE r == [record[p] EXCEPT !.phase = phase]
      <2>1. /\ r \in Records /\ r.signed = file.signed /\ r.intent = file.intent
            /\ r.phase = phase
            BY <1>1 DEF Records, Phases
      <2>2. r # NoRecord
            BY <2>1, NoRecordAssumption
      <2>3. at[p] # "idle" /\ Goto(p, "write") /\ record' = [record EXCEPT ![p] = r]
            BY <1>3 DEF ObserveFinal, AwaitWrite
      <2>4. UNCHANGED <<lock, file, survivors, intent, observer, sent, chain, reported, signings, faults>>
            BY <1>3 DEF ObserveFinal, AwaitWrite
      <2>5. at'[p] = "write" /\ record'[p] = r
            BY <2>3 DEF Goto, IInv, Typed
      <2> HIDE DEF r
      <2>6. Order(r.phase) > Order(file.phase) /\ r.phase # "submitting"
            <3>1. file.phase \in {"signed", "submitting", "submitted"} /\ r.phase \in {"succeeded", "reverted"}
                  BY <1>1, <1>3, <2>1 DEF Terminal, Records, Phases
            <3> QED
                BY <3>1 DEF Order
      <2>7. chain'[r.signed] = r.phase
            BY <1>1, <2>1, <2>4
      <2>8. InStep(p)'
            BY <1>1, <2>1, <2>2, <2>4, <2>5, <2>6, <2>7 DEF InStep, Order
      <2> QED
          BY <2>1, <2>3, <2>4, <2>8, QuietGotoKeeps DEF Awaits, IInv, Typed
<1> QED
    BY <1>2, <1>3

\* The one send.
LEMMA BroadcastKeeps ==
  ASSUME IInv, NEW p \in Processes, Broadcast(p)
  PROVE  IInv'
<1> USE DEF Broadcast, fileVars
<1> DEFINE x == record[p].signed
<1>1. /\ record[p] = file /\ file \in Records /\ file # NoRecord /\ file.phase = "submitting"
      /\ survivors = {file} /\ NothingSent /\ x \in Transactions
      BY DEF IInv, InStep, Typed, Records
<1>2. /\ sent' \in [Transactions -> Nat] /\ sent'[x] = 1
      /\ \A y \in Transactions : y # x => sent'[y] = 0
      BY <1>1 DEF IInv, Typed, NothingSent
<1>3. OwnerRuns' /\ at' \in [Processes -> Awaits] /\ at'[p] = "response" /\ \A q \in Processes : q # p => InStep(q)'
      BY GotoKeepsOwner DEF IInv, Awaits
<1>4. InStep(p)'
      BY <1>1, <1>3 DEF IInv, InStep
<1>5. Typed'
      BY <1>2, <1>3 DEF IInv, Typed
<1>6. Shared'
      <2>1. AtMostOneSend'
            BY <1>2 DEF AtMostOneSend
      <2>2. SentIsJournaled'
            BY <1>1, <1>2 DEF SentIsJournaled
      <2>3. ChainAgrees'
            BY <1>1, <1>2 DEF IInv, Shared, ChainAgrees, NothingSent
      <2> QED
          BY <2>1, <2>2, <2>3 DEF IInv, Shared, OneTransaction, ReportsTerminal, ReportsAreFinal
<1> QED
    BY <1>3, <1>4, <1>5, <1>6 DEF IInv

LEMMA BroadcastAnsweredKeeps ==
  ASSUME IInv, NEW p \in Processes, BroadcastAnswered(p)
  PROVE  IInv'
<1> DEFINE r == [record[p] EXCEPT !.phase = "submitted"]
<1>1. /\ record[p] = file /\ file \in Records /\ file # NoRecord
      /\ file.intent = intent[p] /\ file.phase = "submitting"
      BY DEF BroadcastAnswered, IInv, InStep, Typed
<1>2. r \in Records /\ r.signed = file.signed /\ r.intent = file.intent /\ r.phase = "submitted"
      BY <1>1 DEF Records, Phases
<1>3. r # NoRecord
      BY <1>2, NoRecordAssumption
<1>4. at[p] # "idle" /\ Goto(p, "write") /\ record' = [record EXCEPT ![p] = r]
      BY DEF BroadcastAnswered, AwaitWrite
<1>5. UNCHANGED <<lock, file, survivors, intent, observer, sent, chain, reported, signings, faults>>
      BY DEF BroadcastAnswered, AwaitWrite
<1>6. at'[p] = "write" /\ record'[p] = r
      BY <1>4 DEF Goto, IInv, Typed
<1> HIDE DEF r
<1>7. Order(r.phase) > Order(file.phase) /\ r.phase \notin Terminal
      BY <1>1, <1>2 DEF Order, Terminal
<1>8. InStep(p)'
      BY <1>1, <1>2, <1>3, <1>5, <1>6, <1>7 DEF InStep, Order
<1> QED
    BY <1>2, <1>4, <1>5, <1>8, QuietGotoKeeps DEF Awaits, IInv, Typed

LEMMA ReturnKeeps ==
  ASSUME IInv, NEW p \in Processes, Return(p)
  PROVE  IInv'
<1>1. /\ record[p] = file /\ file \in survivors /\ file # NoRecord /\ file.intent = intent[p]
      BY DEF Return, IInv, InStep, Shared, OneTransaction
<1>2. Shared'
      BY <1>1, ReportKeepsShared DEF Return, IInv, Shared, ChainAgrees
<1>3. OwnerRuns' /\ \A q \in Processes : InStep(q)'
      BY LeaveKeepsOwner DEF Return, IInv
<1>4. Typed'
      BY LeaveKeepsOwner DEF Return, IInv, Typed
<1> QED
    BY <1>2, <1>3, <1>4 DEF IInv

-----------------------------------------------------------------------------
(* The environment.                                                        *)

LEMMA NetworkAcceptsKeeps ==
  ASSUME IInv, NEW x \in Transactions, NetworkAccepts(x)
  PROVE  IInv'
<1> USE DEF NetworkAccepts, fileVars, runVars
<1>1. chain' \in [Transactions -> Statuses] /\ chain'[x] = "pending"
      BY DEF IInv, Typed, Statuses
<1>2. \A y \in Transactions : chain[y] \in Terminal => chain'[y] = chain[y]
      BY DEF IInv, Typed, Terminal
<1>3. \A q \in Processes : InStep(q)'
      BY <1>2 DEF IInv, InStep, NothingSent, Typed, Records
<1>4. Typed' /\ OwnerRuns'
      BY <1>1 DEF IInv, Typed, OwnerRuns
<1>5. OneTransaction' /\ ReportsTerminal' /\ AtMostOneSend' /\ SentIsJournaled'
      BY DEF IInv, Shared, OneTransaction, ReportsTerminal, AtMostOneSend, SentIsJournaled
<1>6. ChainAgrees'
      BY <1>1, <1>2 DEF IInv, Shared, ChainAgrees, Typed, Records
<1>7. ReportsAreFinal'
      <2>1. ASSUME NEW q \in reported PROVE chain'[q.signed] = q.phase
            BY <1>2 DEF IInv, Shared, ReportsAreFinal, ReportsTerminal, Records
      <2> QED
          BY <1>6, <2>1 DEF IInv, Shared, ReportsAreFinal, ChainAgrees
<1> QED
    BY <1>3, <1>4, <1>5, <1>6, <1>7 DEF IInv, Shared

LEMMA ChainFinalizesKeeps ==
  ASSUME IInv, NEW x \in Transactions, NEW status \in Terminal, ChainFinalizes(x, status)
  PROVE  IInv'
<1> USE DEF ChainFinalizes, fileVars, runVars
<1>1. chain' \in [Transactions -> Statuses] /\ chain'[x] = status
      BY DEF IInv, Typed, Statuses
<1>2. \A y \in Transactions : chain[y] \in Terminal => chain'[y] = chain[y]
      BY DEF IInv, Typed, Terminal
<1>3. \A q \in Processes : InStep(q)'
      BY <1>2 DEF IInv, InStep, NothingSent, Typed, Records
<1>4. Typed' /\ OwnerRuns'
      BY <1>1 DEF IInv, Typed, OwnerRuns
<1>5. OneTransaction' /\ ReportsTerminal' /\ AtMostOneSend' /\ SentIsJournaled'
      BY DEF IInv, Shared, OneTransaction, ReportsTerminal, AtMostOneSend, SentIsJournaled
<1>6. ChainAgrees'
      <2>1. ASSUME NEW y \in Transactions, chain'[y] # "unknown" PROVE sent[y] > 0
            <3>1. chain[y] # "unknown"
                  BY <2>1 DEF IInv, Typed
            <3> QED
                BY <3>1 DEF IInv, Shared, ChainAgrees
      <2>2. ASSUME NEW r \in survivors, r # NoRecord, r.phase \in Terminal
            PROVE  chain'[r.signed] = r.phase
            BY <1>2, <2>2 DEF IInv, Shared, ChainAgrees, Typed, Records
      <2> QED
          BY <2>1, <2>2 DEF ChainAgrees
<1>7. ReportsAreFinal'
      <2>1. ASSUME NEW q \in reported PROVE chain'[q.signed] = q.phase
            BY <1>2 DEF IInv, Shared, ReportsAreFinal, ReportsTerminal, Records
      <2> QED
          BY <1>6, <2>1 DEF IInv, Shared, ReportsAreFinal, ChainAgrees
<1> QED
    BY <1>3, <1>4, <1>5, <1>6, <1>7 DEF IInv, Shared

\* A process that dies leaves the file as it was; its lock stays.
LEMMA CrashKeeps ==
  ASSUME IInv, NEW p \in Processes, Crash(p)
  PROVE  IInv'
<1> USE DEF Crash, OrphanLock, Goto
<1>1. at' \in [Processes -> Awaits] /\ \A q \in Processes : at'[q] = "idle"
      BY Alone DEF IInv, Typed, Awaits
<1>2. Shared'
      BY QuietKeepsShared DEF IInv
<1>3. Typed'
      BY <1>1 DEF IInv, Typed
<1>4. OwnerRuns' /\ \A q \in Processes : InStep(q)'
      BY <1>1 DEF OwnerRuns, InStep
<1> QED
    BY <1>2, <1>3, <1>4 DEF IInv

\* A power loss leaves one of the versions the invariant speaks of.
LEMMA PowerLossKeeps ==
  ASSUME IInv, PowerLoss
  PROVE  IInv'
<1> USE DEF PowerLoss, LosePower
<1>1. PICK left \in survivors : file' = left /\ survivors' = {left}
      OBVIOUS
<1>2. Typed'
      BY <1>1 DEF IInv, Typed, Awaits
<1>3. OwnerRuns' /\ \A q \in Processes : InStep(q)'
      BY DEF OwnerRuns, InStep
<1>4. Shared'
      BY <1>1 DEF IInv, Shared, OneTransaction, ChainAgrees, ReportsTerminal, AtMostOneSend,
                  SentIsJournaled, ReportsAreFinal
<1> QED
    BY <1>2, <1>3, <1>4 DEF IInv

LEMMA ReconcileKeeps ==
  ASSUME IInv, Reconcile
  PROVE  IInv'
<1> USE DEF Reconcile, ClearOrphan, runVars
<1>1. Shared'
      BY QuietKeepsShared DEF IInv
<1>2. OwnerRuns'
      BY JournalAssumption DEF IInv, OwnerRuns
<1>3. Typed' /\ \A q \in Processes : InStep(q)'
      BY DEF IInv, Typed, InStep, NothingSent
<1> QED
    BY <1>1, <1>2, <1>3 DEF IInv

-----------------------------------------------------------------------------
(* The theorems.                                                           *)

LEMMA StepKeeps == IInv /\ [Next]_vars => IInv'
<1> SUFFICES ASSUME IInv, [Next]_vars PROVE IInv'
    OBVIOUS
<1>1. ASSUME NEW p \in Processes, Step(p) PROVE IInv'
      <2>1. CASE Throws(p)
            BY <2>1, QuietLeaveKeeps DEF Throws
      <2>2. CASE WriteSyncThrows(p)
            BY <2>2, QuietLeaveKeeps DEF WriteSyncThrows
      <2>3. CASE ObserveUnresolved(p)
            BY <2>3, QuietLeaveKeeps DEF ObserveUnresolved
      <2>4. CASE BroadcastUnresolved(p)
            BY <2>4, QuietLeaveKeeps DEF BroadcastUnresolved
      <2> QED
          BY <1>1, <2>1, <2>2, <2>3, <2>4, ReadExistingKeeps, ReadNothingKeeps, SignKeeps,
             WriteRenamesKeeps, WriteSyncsKeeps, ObserveNotFoundKeeps, ObserveFinalKeeps,
             BroadcastKeeps, BroadcastAnsweredKeeps, ReturnKeeps DEF Step
<1>2. CASE UNCHANGED vars
      <2>1. Shared'
            BY <1>2, QuietKeepsShared DEF IInv, vars
      <2> QED
          BY <1>2, <2>1 DEF IInv, vars, Typed, OwnerRuns, InStep, NothingSent
<1> QED
    BY <1>1, <1>2, BeginKeeps, NetworkAcceptsKeeps, ChainFinalizesKeeps, CrashKeeps,
       PowerLossKeeps, ReconcileKeeps DEF Next

\* Whatever fails, is killed or loses power, the invariant holds.
THEOREM JournalInvariant == Spec => []IInv
BY InitEstablishes, StepKeeps, PTL DEF Spec

\* One exact transaction is handed to the network, once (evm-journal.ts 101,
\* 159-170), for any number of processes, intents, crashes and power losses.
THEOREM JournalSendsOnce == Spec => []AtMostOneSend
<1>1. IInv => AtMostOneSend
      BY DEF IInv, Shared
<1> QED
    BY <1>1, JournalInvariant, PTL

\* What was sent is in every version of the journal a power loss can leave, past
\* the signed phase (evm-journal-file.ts 58-74, evm-journal.ts 159-162).
THEOREM JournalKnowsWhatWasSent == Spec => []SentIsJournaled
<1>1. IInv => SentIsJournaled
      BY DEF IInv, Shared
<1> QED
    BY <1>1, JournalInvariant, PTL

\* Every report is of the chain's verdict on the one journaled transaction,
\* signed for the intent it is reported under (evm-journal.ts 76-80, 152-157).
THEOREM JournalReportsFinal == Spec => []ReportsAreFinal
<1>1. IInv => ReportsAreFinal
      BY DEF IInv, Shared
<1> QED
    BY <1>1, JournalInvariant, PTL

\* Every variable keeps its type, and only the lock's owner runs.
THEOREM JournalTyped == Spec => []TypeOK
<1>1. IInv => TypeOK
      BY DEF IInv, Typed, OwnerRuns, TypeOK
<1> QED
    BY <1>1, JournalInvariant, PTL

\* The journal keeps intent and signature and moves one way through its phases,
\* but for a power loss (evm-journal.ts 127-170): renames are the only other
\* change of the file.
THEOREM JournalPhasesAdvance == Spec => PhaseOnlyAdvances
<1> DEFINE Advance == file # NoRecord /\ file' # file /\ faults' = faults =>
                        /\ file' # NoRecord
                        /\ file'.intent = file.intent /\ file'.signed = file.signed
                        /\ Order(file'.phase) > Order(file.phase)
<1>1. IInv /\ [Next]_vars => [Advance]_vars
      <2> SUFFICES ASSUME IInv, Next, file # NoRecord, file' # file, faults' = faults
                   PROVE  /\ file' # NoRecord
                          /\ file'.intent = file.intent /\ file'.signed = file.signed
                          /\ Order(file'.phase) > Order(file.phase)
          OBVIOUS
      <2>1. ~ PowerLoss
            BY DEF PowerLoss, IInv, Typed
      <2>2. PICK p \in Processes : WriteRenames(p)
            BY <2>1 DEF Next, Step, Begin, ReadExisting, ReadNothing, Sign, Throws, WriteSyncs, SyncDirectory,
               WriteSyncThrows, ObserveUnresolved, ObserveNotFound, ObserveFinal, Broadcast,
               BroadcastAnswered, BroadcastUnresolved, Return, NetworkAccepts, ChainFinalizes,
               Crash, Reconcile, fileVars
      <2> QED
          BY <2>2 DEF IInv, InStep, WriteRenames, Rename
<1> QED
    BY <1>1, JournalInvariant, PTL DEF Spec, PhaseOnlyAdvances-----------------------------------------------------------------------------
(* The set-up on Solana.  The argument is the same for each operation's    *)
(* journal; besides, what a journal builds on never changes once it is     *)
(* final, so what was true of it when a transaction was signed stays true. *)

SetupAwaits == {"idle", "read", "predecessor", "reconcile", "sign", "write", "sync", "observe",
                "broadcast", "response"}
Executions  == [tx : 1 .. MaxSigned, ok : BOOLEAN, final : BOOLEAN] \cup {NoRecord}
Stored      == Setup!Records \cup {NoRecord}
StoredSets  == SUBSET Stored
Locks       == Processes \cup {"absent", "orphan"}
Journals    == [lock : Locks, file : Stored, survivors : StoredSets]
Tools       == [at : SetupAwaits, op : Setup!Operations, record : Stored]

SetupTyped ==
  /\ journals \in [Setup!Operations -> Journals]
  /\ tools \in [Processes -> Tools]
  /\ signed \in [Setup!Operations -> 0 .. MaxSigned]
  /\ handed \in [Setup!Operations -> Seq(1 .. MaxSigned)]
  /\ ledger \in [Setup!Operations -> Executions]
  /\ failures \in Nat

\* A tool runs only with its operation's lock, and reconciles the operation
\* before only with that one's, too.
Locked(p) ==
  /\ ~ Setup!At(p, "idle") => journals[tools[p].op].lock = p
  /\ tools[p].at \in {"predecessor", "reconcile"} => tools[p].op - 1 \in Setup!Operations
  /\ Setup!At(p, "reconcile") => journals[tools[p].op - 1].lock = p

\* A record that calls operation k finished agrees with the finalized chain.
FinalIsTrue(k, r) ==
  r.phase \in {"succeeded", "failed"} => Setup!ExactFinal(k, r) /\ r.phase = Setup!Outcome(k)

\* What the journal of operation k says of what was handed over for it.
OperationSound(k) ==
  LET stored == journals[k].file  left == journals[k].survivors
  IN  /\ stored \in left
      /\ stored = NoRecord => left = {NoRecord}
      /\ \A r \in left : r # NoRecord => r.tx = stored.tx /\ FinalIsTrue(k, r)
      /\ stored # NoRecord => Setup!Prerequisite(k)
      /\ handed[k] # <<>> =>
           /\ Len(handed[k]) = 1
           /\ \A r \in left : r # NoRecord /\ r.tx = handed[k][1] /\ r.phase # "signed"

\* Where a tool stands tells how its memory relates to its operation's journal.
ToolInStep(p) ==
  LET k == tools[p].op  mine == tools[p].record  stored == journals[k].file
  IN  /\ tools[p].at \in {"predecessor", "reconcile", "sign"} => stored = NoRecord
      /\ tools[p].at \in {"observe", "sync", "broadcast", "response"} =>
           stored # NoRecord /\ mine = stored
      /\ tools[p].at \in {"broadcast", "response"} =>
           mine.phase = "submitting" /\ journals[k].survivors = {stored}
      /\ tools[p].at \in {"write", "sync", "broadcast"} /\ mine.phase = "submitting" =>
           handed[k] = <<>>
      /\ Setup!At(p, "write") =>
           /\ mine # NoRecord /\ Setup!Prerequisite(k) /\ FinalIsTrue(k, mine)
           /\ stored = NoRecord => mine.phase = "signed"
           /\ stored # NoRecord => mine.tx = stored.tx /\ mine.phase # "signed"

SetupInv ==
  /\ SetupTyped
  /\ \A p \in Processes : Locked(p) /\ ToolInStep(p)
  /\ \A k \in Setup!Operations : OperationSound(k)

\* Whatever was final is as it was.
FinalKept == \A k \in Setup!Operations : Setup!Finalized(k) => ledger'[k] = ledger[k]

LEMMA FinalStays ==
  ASSUME FinalKept
  PROVE  /\ \A k \in Setup!Operations : Setup!Prerequisite(k) => Setup!Prerequisite(k)'
         /\ \A k \in Setup!Operations, r \in Stored : FinalIsTrue(k, r) => FinalIsTrue(k, r)'
<1>1. \A k \in Setup!Operations : Setup!Finalized(k) => Setup!Finalized(k)' /\ ledger'[k] = ledger[k]
      BY DEF FinalKept, Setup!Finalized
<1>2. \A k \in Setup!Operations : k > 1 => k - 1 \in Setup!Operations
      BY JournalsAssumption DEF Setup!SetupAssumption, Setup!Operations
<1>3. \A k \in Setup!Operations : Setup!Prerequisite(k) => Setup!Prerequisite(k)'
      BY <1>1, <1>2 DEF Setup!Prerequisite
<1>4. \A k \in Setup!Operations, r \in Stored : FinalIsTrue(k, r) => FinalIsTrue(k, r)'
      BY <1>1 DEF FinalIsTrue, Setup!ExactFinal, Setup!Outcome
<1> QED
    BY <1>3, <1>4

\* The journal of k is as it was, and so is what was handed over for it.
SameJournal(k) ==
  /\ journals'[k].file = journals[k].file /\ journals'[k].survivors = journals[k].survivors
  /\ handed'[k] = handed[k]

LEMMA SameJournalSound ==
  ASSUME SetupTyped, FinalKept, NEW k \in Setup!Operations, OperationSound(k), SameJournal(k)
  PROVE  OperationSound(k)'
<1>1. \A r \in journals[k].survivors : r \in Stored
      BY DEF SetupTyped, Journals, StoredSets
<1> QED
    BY <1>1, FinalStays DEF OperationSound, SameJournal

LEMMA SameToolInStep ==
  ASSUME SetupTyped, FinalKept, NEW p \in Processes, ToolInStep(p), tools'[p] = tools[p],
         SameJournal(tools[p].op)
  PROVE  ToolInStep(p)'
<1>1. tools[p].op \in Setup!Operations /\ tools[p].record \in Stored
      BY DEF SetupTyped, Tools
<1> QED
    BY <1>1, FinalStays DEF ToolInStep, SameJournal, Setup!At

\* Two tools that run are at different operations.
LEMMA OneToolEach ==
  ASSUME NEW p \in Processes, NEW q \in Processes, p # q, Locked(p), Locked(q),
         ~ Setup!At(p, "idle"), ~ Setup!At(q, "idle")
  PROVE  tools[p].op # tools[q].op
BY DEF Locked

LEMMA IdleToolInStep ==
  ASSUME NEW p \in Processes, Setup!At(p, "idle")
  PROVE  ToolInStep(p)
BY DEF ToolInStep, Setup!At

\* A step of tool p at operation k disturbs only what it says of k.
LEMMA ToolStepKeeps ==
  ASSUME SetupInv, SetupTyped', FinalKept, NEW p \in Processes, NEW k \in Setup!Operations,
         \A q \in Processes : Locked(q)',
         \A q \in Processes : q # p => tools'[q] = tools[q],
         \A j \in Setup!Operations : j # k => SameJournal(j),
         SameJournal(k) \/ (~ Setup!At(p, "idle") /\ tools[p].op = k /\ OperationSound(k)'),
         ToolInStep(p)'
  PROVE  SetupInv'
<1>1. ASSUME NEW q \in Processes, q # p PROVE ToolInStep(q)'
      <2>1. CASE Setup!At(q, "idle")
            BY <1>1, <2>1 DEF ToolInStep, Setup!At
      <2>2. CASE ~ Setup!At(q, "idle")
            <3>1. SameJournal(tools[q].op)
                  BY <1>1, <2>2, OneToolEach DEF SetupInv, SetupTyped, Tools
            <3> QED
                BY <1>1, <3>1, SameToolInStep DEF SetupInv
      <2> QED
          BY <2>1, <2>2
<1>2. ASSUME NEW j \in Setup!Operations PROVE OperationSound(j)'
      BY SameJournalSound DEF SetupInv
<1> QED
    BY <1>1, <1>2 DEF SetupInv

-----------------------------------------------------------------------------
(* The steps of a tool.                                                    *)

\* Standing at another await, with record r.
LEMMA StandsThere ==
  ASSUME SetupTyped, NEW p \in Processes, NEW await \in SetupAwaits, NEW r \in Stored,
         tools' = Setup!Stands(p, await, r)
  PROVE  /\ tools' \in [Processes -> Tools]
         /\ tools'[p].at = await /\ tools'[p].op = tools[p].op /\ tools'[p].record = r
         /\ \A q \in Processes : q # p => tools'[q] = tools[q]
<1>1. tools \in [Processes -> Tools] /\ tools[p] \in Tools
      BY DEF SetupTyped
<1>2. tools'[p] = [[tools[p] EXCEPT !.at = await] EXCEPT !.record = r]
      BY <1>1 DEF Setup!Stands
<1>3. /\ tools'[p].at = await /\ tools'[p].op = tools[p].op /\ tools'[p].record = r
      /\ tools'[p] \in Tools
      BY <1>1, <1>2 DEF Tools
<1>4. \A q \in Processes : q # p => tools'[q] = tools[q]
      BY <1>1 DEF Setup!Stands
<1>5. tools' \in [Processes -> Tools]
      BY <1>1, <1>3, <1>4 DEF Setup!Stands
<1> QED
    BY <1>3, <1>4, <1>5

\* A tool that moves on without touching files, network or chain.
LEMMA QuietStandsKeeps ==
  ASSUME SetupInv, NEW p \in Processes, ~ Setup!At(p, "idle"),
         NEW await \in SetupAwaits \ {"predecessor", "reconcile"}, NEW r \in Stored,
         tools' = Setup!Stands(p, await, r), ToolInStep(p)',
         signed' \in [Setup!Operations -> 0 .. MaxSigned],
         UNCHANGED <<journals, handed, ledger, failures>>
  PROVE  SetupInv'
<1>1. /\ tools' \in [Processes -> Tools] /\ tools'[p].at = await /\ tools'[p].op = tools[p].op
      /\ \A q \in Processes : q # p => tools'[q] = tools[q]
      BY StandsThere DEF SetupInv
<1>2. SetupTyped' /\ FinalKept
      BY <1>1 DEF SetupInv, SetupTyped, FinalKept
<1>3. ASSUME NEW q \in Processes PROVE Locked(q)'
      BY <1>1 DEF SetupInv, Locked, Setup!At
<1>4. \A j \in Setup!Operations : SameJournal(j)
      BY DEF SameJournal
<1>5. tools[p].op \in Setup!Operations
      BY DEF SetupInv, SetupTyped, Tools
<1> QED
    BY <1>1, <1>2, <1>3, <1>4, <1>5, ToolStepKeeps

\* What is locked or unlocked: files and their survivors stay.
LEMMA LockTyped ==
  ASSUME SetupTyped, NEW k \in Setup!Operations, NEW l \in Locks,
         journals' = [journals EXCEPT ![k].lock = l]
  PROVE  /\ journals' \in [Setup!Operations -> Journals]
         /\ journals'[k].lock = l
         /\ \A j \in Setup!Operations :
              /\ journals'[j].file = journals[j].file /\ journals'[j].survivors = journals[j].survivors
              /\ j # k => journals'[j] = journals[j]
<1>1. journals \in [Setup!Operations -> Journals]
      BY DEF SetupTyped
<1>2. \A j \in Setup!Operations : journals'[j] = IF j = k THEN [journals[j] EXCEPT !.lock = l] ELSE journals[j]
      BY <1>1
<1>3. \A j \in Setup!Operations : journals[j] \in Journals
      BY <1>1
<1>4. journals'[k] = [lock |-> l, file |-> journals[k].file, survivors |-> journals[k].survivors]
      BY <1>2, <1>3 DEF Journals
<1>5. \A j \in Setup!Operations : journals'[j] \in Journals
      BY <1>2, <1>3, <1>4 DEF Journals
<1>6. journals' \in [Setup!Operations -> Journals]
      BY <1>1, <1>5
<1> QED
    BY <1>2, <1>4, <1>6

LEMMA StartKeeps ==
  ASSUME SetupInv, NEW p \in Processes, NEW k \in Setup!Operations, Setup!Start(p, k)
  PROVE  SetupInv'
<1> USE DEF Setup!Start
<1>1. /\ journals' \in [Setup!Operations -> Journals]
      /\ journals'[k].lock = p
      /\ \A j \in Setup!Operations :
              /\ journals'[j].file = journals[j].file /\ journals'[j].survivors = journals[j].survivors
              /\ j # k => journals'[j] = journals[j]
      BY LockTyped DEF SetupInv, Locks
<1> DEFINE t == [at |-> "read", op |-> k, record |-> NoRecord]
<1>2. t \in Tools
      BY DEF Tools, SetupAwaits, Stored
<1>3. /\ tools' \in [Processes -> Tools] /\ tools'[p] = t
      /\ \A q \in Processes : q # p => tools'[q] = tools[q]
      BY <1>2 DEF SetupInv, SetupTyped
<1>4. SetupTyped' /\ FinalKept
      BY <1>1, <1>3 DEF SetupInv, SetupTyped, FinalKept
<1>5. ASSUME NEW q \in Processes PROVE Locked(q)'
      <2>1. CASE q = p
            BY <1>1, <1>3, <2>1 DEF Locked, Setup!At
      <2>2. CASE q # p
            <3>1. \A j \in Setup!Operations : journals[j].lock = q => journals'[j] = journals[j]
                  BY <1>1, JournalsAssumption DEF Setup!SetupAssumption
            <3>2. tools[q].op \in Setup!Operations
                  BY DEF SetupInv, SetupTyped, Tools
            <3>3. tools'[q] = tools[q] /\ Locked(q)
                  BY <1>3, <2>2 DEF SetupInv
            <3> QED
                BY <3>1, <3>2, <3>3 DEF Locked, Setup!At
      <2> QED
          BY <2>1, <2>2
<1>6. ToolInStep(p)'
      BY <1>3 DEF ToolInStep, Setup!At
<1>7. \A j \in Setup!Operations : SameJournal(j)
      BY <1>1 DEF SameJournal
<1> QED
    BY <1>3, <1>4, <1>5, <1>6, <1>7, ToolStepKeeps

LEMMA ReadKeeps ==
  ASSUME SetupInv, NEW p \in Processes, Setup!Read(p)
  PROVE  SetupInv'
<1> DEFINE k == tools[p].op
           stored == journals[k].file
<1>1. ~ Setup!At(p, "idle") /\ k \in Setup!Operations /\ stored \in Stored
      BY DEF SetupInv, SetupTyped, Tools, Journals, Setup!Read, Setup!At
<1>2. UNCHANGED <<journals, signed, handed, ledger, failures>> /\ signed' \in [Setup!Operations -> 0 .. MaxSigned]
      BY DEF Setup!Read, SetupInv, SetupTyped
<1>3. CASE stored # NoRecord
      <2>1. tools' = Setup!Stands(p, "observe", stored)
            BY <1>3 DEF Setup!Read
      <2>2. "observe" \in SetupAwaits \ {"predecessor", "reconcile"}
            BY DEF SetupAwaits
      <2>3. ToolInStep(p)'
            <3>1. tools'[p].at = "observe" /\ tools'[p].op = tools[p].op /\ tools'[p].record = journals[k].file
                  BY <1>1, <2>1, <2>2, StandsThere DEF SetupInv
            <3> QED
                BY <1>2, <1>3, <3>1 DEF ToolInStep, Setup!At
      <2> HIDE DEF stored
      <2> QED
          BY <1>1, <1>2, <2>1, <2>2, <2>3, QuietStandsKeeps
<1>4. CASE stored = NoRecord /\ k \notin Checkpointed
      <2>1. tools' = Setup!Stands(p, "sign", NoRecord)
            BY <1>4 DEF Setup!Read
      <2>2. "sign" \in SetupAwaits \ {"predecessor", "reconcile"} /\ NoRecord \in Stored
            BY DEF SetupAwaits, Stored
      <2>3. ToolInStep(p)'
            BY <1>1, <1>2, <1>4, <2>1, <2>2, StandsThere DEF ToolInStep, SetupInv, Setup!At
      <2> QED
          BY <1>1, <1>2, <2>1, <2>2, <2>3, QuietStandsKeeps
<1>5. CASE stored = NoRecord /\ k \in Checkpointed
      <2>1. tools' = Setup!Stands(p, "predecessor", NoRecord)
            BY <1>5 DEF Setup!Read
      <2>2. "predecessor" \in SetupAwaits /\ NoRecord \in Stored
            BY DEF SetupAwaits, Stored
      <2>3. /\ tools' \in [Processes -> Tools] /\ tools'[p].at = "predecessor" /\ tools'[p].op = k
            /\ \A q \in Processes : q # p => tools'[q] = tools[q]
            BY <2>1, <2>2, StandsThere DEF SetupInv
      <2>4. ToolInStep(p)'
            BY <1>1, <1>2, <1>5, <2>3 DEF ToolInStep, SetupInv, Setup!At
      <2>5. SetupTyped' /\ FinalKept
            BY <1>2, <2>3 DEF SetupInv, SetupTyped, FinalKept
      <2>6. k - 1 \in Setup!Operations
            BY <1>1, <1>5, JournalsAssumption DEF Setup!SetupAssumption, Setup!Operations
      <2>7. ASSUME NEW q \in Processes PROVE Locked(q)'
            BY <1>1, <1>2, <2>3, <2>6 DEF SetupInv, Locked, Setup!At
      <2>8. \A j \in Setup!Operations : SameJournal(j)
            BY <1>2 DEF SameJournal
      <2> QED
          BY <1>1, <2>3, <2>4, <2>5, <2>7, <2>8, ToolStepKeeps
<1> QED
    BY <1>3, <1>4, <1>5

\* Unlocking what p holds.
LEMMA UnlockedThere ==
  ASSUME SetupTyped, NEW p \in Processes, journals' = Setup!Unlocked(p)
  PROVE  /\ journals' \in [Setup!Operations -> Journals]
         /\ \A j \in Setup!Operations :
              /\ journals'[j].file = journals[j].file /\ journals'[j].survivors = journals[j].survivors
              /\ journals[j].lock # p => journals'[j] = journals[j]
<1>1. \A j \in Setup!Operations :
        /\ journals[j] \in Journals
        /\ journals'[j] = IF journals[j].lock = p THEN [journals[j] EXCEPT !.lock = "absent"] ELSE journals[j]
      BY DEF SetupTyped, Setup!Unlocked
<1>2. \A j \in Setup!Operations :
        journals[j].lock = p =>
          journals'[j] = [lock |-> "absent", file |-> journals[j].file, survivors |-> journals[j].survivors]
      BY <1>1 DEF Journals
<1>3. \A j \in Setup!Operations : journals'[j] \in Journals
      BY <1>1, <1>2 DEF Journals, Locks
<1>4. journals' \in [Setup!Operations -> Journals]
      BY <1>3 DEF Setup!Unlocked
<1> QED
    BY <1>1, <1>2, <1>4

\* A tool that is back where it started.
LEMMA NowhereThere ==
  ASSUME SetupTyped, NEW p \in Processes, tools' = [tools EXCEPT ![p] = Setup!Nowhere]
  PROVE  /\ tools' \in [Processes -> Tools] /\ tools'[p].at = "idle"
         /\ \A q \in Processes : q # p => tools'[q] = tools[q]
<1>1. Setup!Nowhere \in Tools /\ Setup!Nowhere.at = "idle"
      <2>1. 1 \in Setup!Operations
            BY JournalsAssumption DEF Setup!SetupAssumption, Setup!Operations
      <2> QED
          BY <2>1 DEF Setup!Nowhere, Tools, SetupAwaits, Stored
<1> HIDE DEF Setup!Nowhere
<1> QED
    BY <1>1 DEF SetupTyped

\* A tool that ends without having touched anything else.
LEMMA SetupLeaveKeeps ==
  ASSUME SetupInv, NEW p \in Processes, ~ Setup!At(p, "idle"), Setup!Leave(p),
         UNCHANGED <<signed, handed, ledger, failures>>
  PROVE  SetupInv'
<1>1. /\ tools' \in [Processes -> Tools] /\ tools'[p].at = "idle"
      /\ \A q \in Processes : q # p => tools'[q] = tools[q]
      BY NowhereThere DEF SetupInv, Setup!Leave
<1>2. /\ journals' \in [Setup!Operations -> Journals]
      /\ \A j \in Setup!Operations :
              /\ journals'[j].file = journals[j].file /\ journals'[j].survivors = journals[j].survivors
              /\ journals[j].lock # p => journals'[j] = journals[j]
      BY UnlockedThere DEF SetupInv, Setup!Leave
<1>3. SetupTyped' /\ FinalKept
      BY <1>1, <1>2 DEF SetupInv, SetupTyped, FinalKept
<1>4. ASSUME NEW q \in Processes PROVE Locked(q)'
      <2>1. CASE q = p
            BY <1>1, <2>1 DEF Locked, Setup!At
      <2>2. CASE q # p
            <3>1. \A j \in Setup!Operations : journals[j].lock = q => journals'[j] = journals[j]
                  BY <1>2, <2>2
            <3>2. tools[q].op \in Setup!Operations
                  BY DEF SetupInv, SetupTyped, Tools
            <3>3. tools'[q] = tools[q] /\ Locked(q)
                  BY <1>1, <2>2 DEF SetupInv
            <3> QED
                BY <3>1, <3>2, <3>3 DEF Locked, Setup!At
      <2> QED
          BY <2>1, <2>2
<1>5. ToolInStep(p)'
      BY <1>1 DEF ToolInStep, Setup!At
<1>6. \A j \in Setup!Operations : SameJournal(j)
      BY <1>2 DEF SameJournal
<1>7. tools[p].op \in Setup!Operations
      BY DEF SetupInv, SetupTyped, Tools
<1> QED
    BY <1>1, <1>3, <1>4, <1>5, <1>6, <1>7, ToolStepKeeps

LEMMA SetupThrowsKeeps ==
  ASSUME SetupInv, NEW p \in Processes,
         Setup!Throws(p) \/ Setup!ObserveUnresolved(p) \/ Setup!BroadcastUnresolved(p)
  PROVE  SetupInv'
<1>1. ~ Setup!At(p, "idle") /\ Setup!Leave(p) /\ UNCHANGED <<signed, handed, ledger, failures>>
      BY DEF Setup!Throws, Setup!ObserveUnresolved, Setup!BroadcastUnresolved, Setup!At
<1> QED
    BY <1>1, SetupLeaveKeeps

LEMMA ReadPredecessorKeeps ==
  ASSUME SetupInv, NEW p \in Processes, Setup!ReadPredecessor(p)
  PROVE  SetupInv'
<1> USE DEF Setup!ReadPredecessor
<1>0. PICK k : k = tools[p].op
      OBVIOUS
<1>1. k \in Setup!Operations /\ k - 1 \in Setup!Operations /\ tools[p].at = "predecessor"
      BY <1>0 DEF SetupInv, SetupTyped, Tools, Locked, Setup!At
<1>2. /\ journals' \in [Setup!Operations -> Journals]
      /\ journals'[k - 1].lock = p
      /\ \A j \in Setup!Operations :
              /\ journals'[j].file = journals[j].file /\ journals'[j].survivors = journals[j].survivors
              /\ j # k - 1 => journals'[j] = journals[j]
      BY <1>0, <1>1, LockTyped DEF SetupInv, Locks
<1>3. "reconcile" \in SetupAwaits /\ NoRecord \in Stored
      BY DEF SetupAwaits, Stored
<1>4. /\ tools' \in [Processes -> Tools] /\ tools'[p].at = "reconcile" /\ tools'[p].op = k
      /\ \A q \in Processes : q # p => tools'[q] = tools[q]
      BY <1>0, <1>3, StandsThere DEF SetupInv
<1>5. SetupTyped' /\ FinalKept
      BY <1>2, <1>4 DEF SetupInv, SetupTyped, FinalKept
<1>6. k # k - 1
      BY <1>1 DEF Setup!Operations
<1>7. ASSUME NEW q \in Processes PROVE Locked(q)'
      <2>1. CASE q = p
            BY <1>0, <1>1, <1>2, <1>4, <1>6, <2>1 DEF Locked, Setup!At, SetupInv
      <2>2. CASE q # p
            <3>1. \A j \in Setup!Operations : journals[j].lock = q => journals'[j] = journals[j]
                  BY <1>0, <1>2, JournalsAssumption DEF Setup!SetupAssumption
            <3>2. tools[q].op \in Setup!Operations
                  BY DEF SetupInv, SetupTyped, Tools
            <3>3. tools'[q] = tools[q] /\ Locked(q)
                  BY <1>4, <2>2 DEF SetupInv
            <3> QED
                BY <3>1, <3>2, <3>3 DEF Locked, Setup!At
      <2> QED
          BY <2>1, <2>2
<1>8. \A j \in Setup!Operations : SameJournal(j)
      BY <1>2 DEF SameJournal
<1>9. ToolInStep(p)'
      <2>1. journals[k].file = NoRecord
            BY <1>0, <1>1 DEF SetupInv, ToolInStep
      <2>2. journals'[k].file = NoRecord
            BY <1>1, <1>2, <2>1
      <2> QED
          BY <1>4, <2>2 DEF ToolInStep, Setup!At
<1> QED
    BY <1>1, <1>4, <1>5, <1>7, <1>8, <1>9, ToolStepKeeps

LEMMA ReconcilePredecessorKeeps ==
  ASSUME SetupInv, NEW p \in Processes, Setup!ReconcilePredecessor(p)
  PROVE  SetupInv'
<1> USE DEF Setup!ReconcilePredecessor
<1>0. PICK k : k = tools[p].op
      OBVIOUS
<1>1. /\ k \in Setup!Operations /\ k - 1 \in Setup!Operations /\ tools[p].at = "reconcile"
      /\ journals[k - 1].lock = p
      BY <1>0 DEF SetupInv, SetupTyped, Tools, Locked, Setup!At
<1>2. /\ journals' \in [Setup!Operations -> Journals]
      /\ \A j \in Setup!Operations :
              /\ journals'[j].file = journals[j].file /\ journals'[j].survivors = journals[j].survivors
              /\ j # k - 1 => journals'[j] = journals[j]
      BY <1>0, <1>1, LockTyped DEF SetupInv, Locks
<1>3. "sign" \in SetupAwaits /\ NoRecord \in Stored
      BY DEF SetupAwaits, Stored
<1>4. /\ tools' \in [Processes -> Tools] /\ tools'[p].at = "sign" /\ tools'[p].op = k
      /\ \A q \in Processes : q # p => tools'[q] = tools[q]
      BY <1>0, <1>3, StandsThere DEF SetupInv
<1>5. SetupTyped' /\ FinalKept
      BY <1>2, <1>4 DEF SetupInv, SetupTyped, FinalKept
<1>6. k # k - 1
      BY <1>1 DEF Setup!Operations
<1>7. ASSUME NEW q \in Processes PROVE Locked(q)'
      <2>1. CASE q = p
            BY <1>0, <1>1, <1>2, <1>4, <1>6, <2>1 DEF Locked, Setup!At, SetupInv
      <2>2. CASE q # p
            <3>1. \A j \in Setup!Operations : journals[j].lock = q => journals'[j] = journals[j]
                  BY <1>1, <1>2, <2>2
            <3>2. tools[q].op \in Setup!Operations
                  BY DEF SetupInv, SetupTyped, Tools
            <3>3. tools'[q] = tools[q] /\ Locked(q)
                  BY <1>4, <2>2 DEF SetupInv
            <3> QED
                BY <3>1, <3>2, <3>3 DEF Locked, Setup!At
      <2> QED
          BY <2>1, <2>2
<1>8. \A j \in Setup!Operations : SameJournal(j)
      BY <1>2 DEF SameJournal
<1>9. ToolInStep(p)'
      <2>1. journals[k].file = NoRecord
            BY <1>0, <1>1 DEF SetupInv, ToolInStep
      <2>2. journals'[k].file = NoRecord
            BY <1>1, <1>2, <2>1
      <2> QED
          BY <1>4, <2>2 DEF ToolInStep, Setup!At
<1> QED
    BY <1>1, <1>4, <1>5, <1>7, <1>8, <1>9, ToolStepKeeps

\* What is signed is new, and what it builds on is final.
LEMMA SetupSignKeeps ==
  ASSUME SetupInv, NEW p \in Processes, Setup!Sign(p)
  PROVE  SetupInv'
<1>0. PICK k, r : k = tools[p].op /\ r = [tx |-> signed[k] + 1, phase |-> "signed"]
      OBVIOUS
<1>1. /\ k \in Setup!Operations /\ ~ Setup!At(p, "idle") /\ tools[p].at = "sign"
      /\ "write" \in SetupAwaits \ {"predecessor", "reconcile"}
      BY <1>0 DEF SetupInv, SetupTyped, Tools, Setup!Sign, Setup!At, SetupAwaits
<1>2. signed[k] + 1 \in 1 .. MaxSigned /\ signed' \in [Setup!Operations -> 0 .. MaxSigned]
      BY <1>0, <1>1, JournalsAssumption DEF SetupInv, SetupTyped, Setup!Sign, Setup!SetupAssumption
<1>3. r \in Setup!Records /\ r \in Stored /\ r # NoRecord /\ r.phase = "signed"
      BY <1>0, <1>2, JournalsAssumption DEF Setup!Records, Setup!Phases, Stored, Setup!SetupAssumption
<1>4. /\ tools' = Setup!Stands(p, "write", r) /\ UNCHANGED <<journals, handed, ledger, failures>>
      /\ Setup!Prerequisite(k)
      BY <1>0 DEF Setup!Sign, Setup!AwaitWrite
<1>5. tools'[p].at = "write" /\ tools'[p].op = k /\ tools'[p].record = r
      BY <1>0, <1>1, <1>3, <1>4, StandsThere DEF SetupInv
<1>6. journals[k].file = NoRecord
      BY <1>0, <1>1 DEF SetupInv, ToolInStep
<1>7. Setup!Prerequisite(k)'
      <2>1. FinalKept
            BY <1>4 DEF FinalKept
      <2> QED
          BY <1>1, <1>4, <2>1, FinalStays
<1>8. FinalIsTrue(k, r)'
      BY <1>3 DEF FinalIsTrue
<1>9. journals'[k].file = NoRecord
      BY <1>4, <1>6
<1>10. ToolInStep(p)'
      BY <1>3, <1>5, <1>7, <1>8, <1>9 DEF ToolInStep, Setup!At
<1> QED
    BY <1>1, <1>2, <1>3, <1>4, <1>10, QuietStandsKeeps

\* What becomes of one journal when one of its parts is replaced.
LEMMA JournalParts ==
  ASSUME NEW J \in Journals, NEW x
  PROVE  /\ [[J EXCEPT !.file = x] EXCEPT !.survivors = @ \cup {x}]
              = [lock |-> J.lock, file |-> x, survivors |-> J.survivors \cup {x}]
         /\ [J EXCEPT !.survivors = x] = [lock |-> J.lock, file |-> J.file, survivors |-> x]
         /\ [J EXCEPT !.lock = x] = [lock |-> x, file |-> J.file, survivors |-> J.survivors]
<1>1. J = [lock |-> J.lock, file |-> J.file, survivors |-> J.survivors]
      BY DEF Journals
<1>2. PICK a, b, c : J = [lock |-> a, file |-> b, survivors |-> c]
      BY <1>1
<1>3. J.lock = a /\ J.file = b /\ J.survivors = c
      BY <1>2
<1>4. [J EXCEPT !.survivors = x] = [lock |-> a, file |-> b, survivors |-> x]
      BY <1>2
<1>5. [J EXCEPT !.lock = x] = [lock |-> x, file |-> b, survivors |-> c]
      BY <1>2
<1>6. [J EXCEPT !.file = x] = [lock |-> a, file |-> x, survivors |-> c]
      BY <1>2
<1>7. [[lock |-> a, file |-> x, survivors |-> c] EXCEPT !.survivors = @ \cup {x}]
        = [lock |-> a, file |-> x, survivors |-> c \cup {x}]
      OBVIOUS
<1> QED
    BY <1>3, <1>4, <1>5, <1>6, <1>7

\* write() makes the tool's record the file's.
LEMMA SetupWriteRenamesKeeps ==
  ASSUME SetupInv, NEW p \in Processes, Setup!WriteRenames(p)
  PROVE  SetupInv'
<1>0. PICK k, r : k = tools[p].op /\ r = tools[p].record
      OBVIOUS
<1>1. /\ k \in Setup!Operations /\ tools[p].at = "write" /\ r \in Stored /\ r # NoRecord
      /\ "sync" \in SetupAwaits /\ ~ Setup!At(p, "idle") /\ journals[k] \in Journals
      BY <1>0 DEF SetupInv, SetupTyped, Tools, Setup!WriteRenames, Setup!At, ToolInStep, SetupAwaits
<1> DEFINE j == [lock |-> journals[k].lock, file |-> r, survivors |-> journals[k].survivors \cup {r}]
<1>2. journals' = [journals EXCEPT ![k] = j]
      <2>2. journals' = [[journals EXCEPT ![k].file = r] EXCEPT ![k].survivors = @ \cup {r}]
            BY <1>0 DEF Setup!WriteRenames
      <2>3. [[journals[k] EXCEPT !.file = r] EXCEPT !.survivors = @ \cup {r}] = j
            BY <1>1, JournalParts
      <2> HIDE DEF j
      <2> QED
          BY <1>1, <2>2, <2>3 DEF SetupInv, SetupTyped
<1>3. j \in Journals
      BY <1>1 DEF Journals, StoredSets
<1>4. /\ journals' \in [Setup!Operations -> Journals]
      /\ journals'[k].lock = journals[k].lock /\ journals'[k].file = r
      /\ journals'[k].survivors = journals[k].survivors \cup {r}
      /\ \A i \in Setup!Operations : i # k => journals'[i] = journals[i]
      BY <1>1, <1>2, <1>3 DEF SetupInv, SetupTyped
<1> HIDE DEF j
<1>5. tools' = Setup!Stands(p, "sync", r) /\ UNCHANGED <<signed, handed, ledger, failures>>
      BY <1>0 DEF Setup!WriteRenames
<1>6. /\ tools' \in [Processes -> Tools] /\ tools'[p].at = "sync" /\ tools'[p].op = k /\ tools'[p].record = r
      /\ \A q \in Processes : q # p => tools'[q] = tools[q]
      BY <1>0, <1>1, <1>5, StandsThere DEF SetupInv
<1>7. SetupTyped' /\ FinalKept
      BY <1>4, <1>5, <1>6 DEF SetupInv, SetupTyped, FinalKept
<1>8. ASSUME NEW q \in Processes PROVE Locked(q)'
      <2>1. \A i \in Setup!Operations : journals'[i].lock = journals[i].lock
            BY <1>4
      <2>2. tools'[q].op = tools[q].op /\ tools[q].op \in Setup!Operations /\ Locked(q)
            BY <1>0, <1>6 DEF SetupInv, SetupTyped, Tools
      <2>3. CASE q = p
            BY <1>0, <1>1, <1>6, <2>1, <2>2, <2>3 DEF Locked, Setup!At
      <2>4. CASE q # p
            BY <1>6, <2>1, <2>2, <2>4 DEF Locked, Setup!At
      <2> QED
          BY <2>3, <2>4
<1>9. /\ Setup!Prerequisite(k) /\ FinalIsTrue(k, r)
      /\ journals[k].file = NoRecord => r.phase = "signed"
      /\ journals[k].file # NoRecord => r.tx = journals[k].file.tx /\ r.phase # "signed"
      /\ r.phase = "submitting" => handed[k] = <<>>
      BY <1>0, <1>1 DEF SetupInv, ToolInStep, Setup!At
<1>10. Setup!Prerequisite(k)' /\ \A s \in Stored : FinalIsTrue(k, s) => FinalIsTrue(k, s)'
      BY <1>1, <1>7, <1>9, FinalStays
<1>11. ToolInStep(p)'
      BY <1>1, <1>4, <1>5, <1>6, <1>9 DEF ToolInStep, Setup!At
<1>12. OperationSound(k)'
      <2>1. OperationSound(k)
            BY <1>1 DEF SetupInv
      <2>2. \A s \in journals[k].survivors : s \in Stored
            BY <1>1 DEF Journals, StoredSets
      <2>3. ASSUME NEW s \in journals'[k].survivors, s # NoRecord
            PROVE  s.tx = r.tx /\ FinalIsTrue(k, s)'
            BY <1>1, <1>4, <1>9, <1>10, <2>1, <2>2, <2>3 DEF OperationSound
      <2>4. ASSUME handed[k] # <<>>
            PROVE  /\ Len(handed[k]) = 1
                   /\ \A s \in journals'[k].survivors : s # NoRecord /\ s.tx = handed[k][1] /\ s.phase # "signed"
            BY <1>1, <1>4, <1>9, <2>1, <2>4 DEF OperationSound
      <2> QED
          BY <1>1, <1>4, <1>5, <1>10, <2>3, <2>4 DEF OperationSound
<1>13. \A i \in Setup!Operations : i # k => SameJournal(i)
      BY <1>4, <1>5 DEF SameJournal
<1> QED
    BY <1>0, <1>1, <1>6, <1>7, <1>8, <1>11, <1>12, <1>13, ToolStepKeeps

\* Once the directory is synced, the file is all a power loss can leave; what is
\* read again or finished has let go of its lock.
LEMMA SetupWriteSyncsKeeps ==
  ASSUME SetupInv, NEW p \in Processes, Setup!WriteSyncs(p)
  PROVE  SetupInv'
<1>0. PICK k, r : k = tools[p].op /\ r = tools[p].record
      OBVIOUS
<1>1. /\ k \in Setup!Operations /\ tools[p].at = "sync" /\ r \in Stored /\ r # NoRecord
      /\ ~ Setup!At(p, "idle") /\ journals[k] \in Journals
      /\ r = journals[k].file /\ r \in journals[k].survivors
      BY <1>0 DEF SetupInv, SetupTyped, Tools, Setup!WriteSyncs, Setup!At, ToolInStep, OperationSound
<1>2. PICK l \in Locks :
        /\ journals' = [journals EXCEPT ![k] = [lock |-> l, file |-> r, survivors |-> {r}]]
        /\ \/ /\ l = journals[k].lock
              /\ \/ r.phase = "signed" /\ tools' = Setup!Stands(p, "observe", r)
                 \/ r.phase = "submitting" /\ tools' = Setup!Stands(p, "broadcast", r)
           \/ l = "absent" /\ tools' = [tools EXCEPT ![p] = Setup!Nowhere]
      <2> DEFINE written == [journals EXCEPT ![k].survivors = {r}]
                 synced(l) == [lock |-> l, file |-> r, survivors |-> {r}]
      <2>1. [journals[k] EXCEPT !.survivors = {r}] = synced(journals[k].lock)
            BY <1>1, JournalParts
      <2>2. written = [journals EXCEPT ![k] = synced(journals[k].lock)]
            <3> HIDE DEF synced
            <3> QED
                BY <1>1, <2>1 DEF SetupInv, SetupTyped
      <2>3. [written EXCEPT ![k].lock = "absent"] = [journals EXCEPT ![k] = synced("absent")]
            <3>1. [synced(journals[k].lock) EXCEPT !.lock = "absent"] = synced("absent")
                  OBVIOUS
            <3>2. written[k] = synced(journals[k].lock)
                  BY <1>1, <2>2 DEF SetupInv, SetupTyped
            <3> HIDE DEF synced, written
            <3> QED
                BY <1>1, <2>2, <3>1, <3>2 DEF SetupInv, SetupTyped
      <2>4. journals[k].lock \in Locks /\ "absent" \in Locks
            BY <1>1 DEF Journals, Locks
      <2>5. IF r.phase \in {"signed", "submitting"}
             THEN /\ journals' = written
                  /\ tools' = Setup!Stands(p, IF r.phase = "signed" THEN "observe" ELSE "broadcast", r)
             ELSE /\ journals' = [written EXCEPT ![k].lock = "absent"]
                  /\ tools' = [tools EXCEPT ![p] = Setup!Nowhere]
            BY <1>0, <1>1 DEF Setup!WriteSyncs
      <2> HIDE DEF written
      <2>6. CASE r.phase = "signed"
            BY <2>2, <2>4, <2>5, <2>6
      <2>7. CASE r.phase = "submitting"
            BY <2>2, <2>4, <2>5, <2>7
      <2>8. CASE r.phase \notin {"signed", "submitting"}
            BY <2>3, <2>4, <2>5, <2>8
      <2> QED
          BY <2>6, <2>7, <2>8
<1> DEFINE j == [lock |-> l, file |-> r, survivors |-> {r}]
<1>3. j \in Journals
      BY <1>1 DEF Journals, StoredSets
<1>4. /\ journals' \in [Setup!Operations -> Journals]
      /\ journals'[k].lock = l /\ journals'[k].file = r /\ journals'[k].survivors = {r}
      /\ \A i \in Setup!Operations : i # k => journals'[i] = journals[i]
      BY <1>1, <1>2, <1>3 DEF SetupInv, SetupTyped
<1> HIDE DEF j
<1>5. UNCHANGED <<signed, handed, ledger, failures>>
      BY DEF Setup!WriteSyncs
<1>6. /\ tools' \in [Processes -> Tools]
      /\ \A q \in Processes : q # p => tools'[q] = tools[q]
      /\ \/ /\ l = journals[k].lock /\ tools'[p].op = k /\ tools'[p].record = r
            /\ \/ r.phase = "signed" /\ tools'[p].at = "observe"
               \/ r.phase = "submitting" /\ tools'[p].at = "broadcast"
         \/ l = "absent" /\ tools'[p].at = "idle"
      <2>1. "observe" \in SetupAwaits /\ "broadcast" \in SetupAwaits /\ SetupTyped
            BY DEF SetupAwaits, SetupInv
      <2> QED
          BY <1>0, <1>1, <1>2, <2>1, StandsThere, NowhereThere
<1>7. SetupTyped' /\ FinalKept
      BY <1>4, <1>5, <1>6 DEF SetupInv, SetupTyped, FinalKept
<1>8. ASSUME NEW q \in Processes PROVE Locked(q)'
      <2>1. tools[q].op \in Setup!Operations /\ Locked(q) /\ Locked(p)
            BY DEF SetupInv, SetupTyped, Tools
      <2>2. CASE q = p
            BY <1>0, <1>1, <1>4, <1>6, <2>1, <2>2 DEF Locked, Setup!At
      <2>3. CASE q # p
            <3>1. journals[k].lock = p
                  BY <1>0, <1>1, <2>1 DEF Locked
            <3>2. \A i \in Setup!Operations : journals[i].lock = q => journals'[i].lock = q
                  BY <1>4, <2>3, <3>1
            <3>3. tools'[q] = tools[q]
                  BY <1>6, <2>3
            <3> QED
                BY <2>1, <3>2, <3>3 DEF Locked, Setup!At
      <2> QED
          BY <2>2, <2>3
<1>9. r.phase = "submitting" => handed[k] = <<>>
      BY <1>0, <1>1 DEF SetupInv, ToolInStep, Setup!At
<1>10. ToolInStep(p)'
      BY <1>1, <1>4, <1>5, <1>6, <1>9 DEF ToolInStep, Setup!At
<1>11. OperationSound(k)'
      <2>1. OperationSound(k)
            BY <1>1 DEF SetupInv
      <2>2. Setup!Prerequisite(k)' /\ (FinalIsTrue(k, r) => FinalIsTrue(k, r)')
            BY <1>1, <1>7, <2>1, FinalStays DEF OperationSound
      <2> QED
          BY <1>1, <1>4, <1>5, <2>1, <2>2 DEF OperationSound
<1>12. \A i \in Setup!Operations : i # k => SameJournal(i)
      BY <1>4, <1>5 DEF SameJournal
<1> QED
    BY <1>0, <1>1, <1>6, <1>7, <1>8, <1>10, <1>11, <1>12, ToolStepKeeps

\* Only a signed record is moved to submitting, and then nothing was handed over;
\* a final transaction is recorded as the chain has it.
LEMMA SetupObserveKeeps ==
  ASSUME SetupInv, NEW p \in Processes,
         Setup!ObserveFinal(p) \/ Setup!ObserveAbsent(p) \/ Setup!BroadcastAnswered(p)
  PROVE  SetupInv'
<1> USE DEF Setup!ObserveFinal, Setup!ObserveAbsent, Setup!BroadcastAnswered
<1>0. PICK k, r : k = tools[p].op /\ r = tools[p].record
      OBVIOUS
<1>1. /\ k \in Setup!Operations /\ tools[p].at \in {"observe", "response"} /\ r \in Stored /\ r # NoRecord
      /\ ~ Setup!At(p, "idle") /\ r = journals[k].file /\ r \in journals[k].survivors
      /\ "write" \in SetupAwaits \ {"predecessor", "reconcile"}
      BY <1>0 DEF SetupInv, SetupTyped, Tools, Setup!At, ToolInStep, OperationSound, SetupAwaits
<1>2. OperationSound(k) /\ Setup!Prerequisite(k)
      BY <1>1 DEF SetupInv, OperationSound
<1>3. UNCHANGED <<signed, handed, ledger, failures>> /\ signed' \in [Setup!Operations -> 0 .. MaxSigned]
      BY DEF SetupInv, SetupTyped
<1>4. CASE Setup!Leave(p)
      BY <1>1, <1>3, <1>4, SetupLeaveKeeps
<1>5. CASE ~ Setup!Leave(p)
      <2>1. PICK phase \in Setup!Phases :
              /\ tools' = Setup!Stands(p, "write", [r EXCEPT !.phase = phase]) /\ UNCHANGED journals
              /\ phase # "signed"
              /\ phase = "submitting" => r.phase = "signed"
              /\ phase \in {"succeeded", "failed"} => Setup!ExactFinal(k, r) /\ phase = Setup!Outcome(k)
            <3>1. Setup!Outcome(k) \in {"succeeded", "failed"}
                  BY DEF Setup!Outcome
            <3>2. CASE Setup!ObserveFinal(p)
                  <4>1. /\ tools' = Setup!Stands(p, "write", [r EXCEPT !.phase = Setup!Outcome(k)])
                        /\ UNCHANGED journals /\ Setup!ExactFinal(k, r)
                        BY <1>0, <1>5, <3>2 DEF Setup!AwaitWrite
                  <4>2. Setup!Outcome(k) \in Setup!Phases
                        BY <3>1 DEF Setup!Phases
                  <4> QED
                      BY <3>1, <4>1, <4>2
            <3>3. CASE Setup!ObserveAbsent(p)
                  BY <1>0, <3>3 DEF Setup!AwaitWrite, Setup!Phases
            <3>4. CASE Setup!BroadcastAnswered(p)
                  BY <1>0, <3>4 DEF Setup!AwaitWrite, Setup!Phases
            <3> QED
                BY <3>2, <3>3, <3>4
      <2>2. PICK s : s = [r EXCEPT !.phase = phase]
            OBVIOUS
      <2>3. s \in Setup!Records /\ s \in Stored /\ s # NoRecord /\ s.tx = r.tx /\ s.phase = phase
            <3>1. r \in Setup!Records
                  BY <1>1 DEF Stored
            <3>2. s \in Setup!Records /\ s.tx = r.tx /\ s.phase = phase
                  BY <2>2, <3>1 DEF Setup!Records
            <3> QED
                BY <3>2, JournalsAssumption DEF Stored, Setup!SetupAssumption
      <2>4. FinalKept
            BY <1>3 DEF FinalKept
      <2>5. FinalIsTrue(k, s)
            BY <2>1, <2>3 DEF FinalIsTrue, Setup!ExactFinal
      <2>6. Setup!Prerequisite(k)' /\ FinalIsTrue(k, s)'
            BY <1>1, <1>2, <2>3, <2>4, <2>5, FinalStays
      <2>7. phase = "submitting" => handed[k] = <<>>
            BY <1>1, <1>2, <2>1 DEF OperationSound
      <2>8. tools' = Setup!Stands(p, "write", s)
            BY <2>1, <2>2
      <2>9. tools'[p].at = "write" /\ tools'[p].op = k /\ tools'[p].record = s
            BY <1>0, <1>1, <2>3, <2>8, StandsThere DEF SetupInv
      <2>10. journals'[k].file = r /\ handed'[k] = handed[k]
            BY <1>1, <1>3, <2>1
      <2>11. ToolInStep(p)'
            BY <1>1, <2>1, <2>3, <2>6, <2>7, <2>9, <2>10 DEF ToolInStep, Setup!At
      <2> QED
          BY <1>1, <1>3, <2>1, <2>3, <2>8, <2>11, QuietStandsKeeps
<1> QED
    BY <1>4, <1>5

\* The one hand-over: nothing was handed over before, and every version of the
\* journal that a power loss may leave says so from before it on.
LEMMA SetupBroadcastKeeps ==
  ASSUME SetupInv, NEW p \in Processes, Setup!Broadcast(p)
  PROVE  SetupInv'
<1>0. PICK k, r : k = tools[p].op /\ r = tools[p].record
      OBVIOUS
<1>1. /\ k \in Setup!Operations /\ tools[p].at = "broadcast" /\ r \in Stored /\ r # NoRecord
      /\ ~ Setup!At(p, "idle") /\ r = journals[k].file /\ journals[k].survivors = {r}
      /\ r.phase = "submitting" /\ handed[k] = <<>> /\ "response" \in SetupAwaits
      BY <1>0 DEF SetupInv, SetupTyped, Tools, Setup!Broadcast, Setup!At, ToolInStep, OperationSound, SetupAwaits
<1>2. r.tx \in 1 .. MaxSigned
      BY <1>1 DEF Stored, Setup!Records
<1>3. /\ handed' \in [Setup!Operations -> Seq(1 .. MaxSigned)]
      /\ Len(handed'[k]) = 1 /\ handed'[k][1] = r.tx
      /\ \A i \in Setup!Operations : i # k => handed'[i] = handed[i]
      <2>1. Append(handed[k], r.tx) = <<r.tx>> /\ <<r.tx>> \in Seq(1 .. MaxSigned)
            BY <1>1, <1>2
      <2>2. handed' = [handed EXCEPT ![k] = <<r.tx>>]
            BY <1>0, <2>1 DEF Setup!Broadcast
      <2> QED
          BY <1>1, <2>1, <2>2 DEF SetupInv, SetupTyped
<1>4. tools' = Setup!Stands(p, "response", r) /\ UNCHANGED <<journals, signed, ledger, failures>>
      BY <1>0 DEF Setup!Broadcast
<1>5. /\ tools' \in [Processes -> Tools] /\ tools'[p].at = "response" /\ tools'[p].op = k /\ tools'[p].record = r
      /\ \A q \in Processes : q # p => tools'[q] = tools[q]
      BY <1>0, <1>1, <1>4, StandsThere DEF SetupInv
<1>6. SetupTyped' /\ FinalKept
      BY <1>3, <1>4, <1>5 DEF SetupInv, SetupTyped, FinalKept
<1>7. ASSUME NEW q \in Processes PROVE Locked(q)'
      BY <1>0, <1>1, <1>4, <1>5 DEF SetupInv, Locked, Setup!At
<1>8. ToolInStep(p)'
      BY <1>1, <1>4, <1>5 DEF ToolInStep, Setup!At
<1>9. OperationSound(k)'
      <2>1. OperationSound(k)
            BY <1>1 DEF SetupInv
      <2>2. Setup!Prerequisite(k)' /\ (FinalIsTrue(k, r) => FinalIsTrue(k, r)')
            BY <1>1, <1>6, <2>1, FinalStays DEF OperationSound
      <2> QED
          BY <1>1, <1>3, <1>4, <2>1, <2>2 DEF OperationSound
<1>10. \A i \in Setup!Operations : i # k => SameJournal(i)
      BY <1>3, <1>4 DEF SameJournal
<1> QED
    BY <1>0, <1>1, <1>5, <1>6, <1>7, <1>8, <1>9, <1>10, ToolStepKeeps

-----------------------------------------------------------------------------
(* The environment of the set-up.                                          *)

\* A step of the chain alone that leaves what is final.
LEMMA ChainStepKeeps ==
  ASSUME SetupInv, FinalKept, ledger' \in [Setup!Operations -> Executions],
         UNCHANGED <<journals, tools, signed, handed, failures>>
  PROVE  SetupInv'
<1>1. SetupTyped'
      BY DEF SetupInv, SetupTyped
<1>2. \A k \in Setup!Operations : SameJournal(k)
      BY DEF SameJournal
<1>3. ASSUME NEW k \in Setup!Operations PROVE OperationSound(k)'
      BY <1>2, SameJournalSound DEF SetupInv
<1>4. ASSUME NEW p \in Processes PROVE ToolInStep(p)' /\ Locked(p)'
      <2>1. tools[p].op \in Setup!Operations /\ Locked(p)
            BY DEF SetupInv, SetupTyped, Tools
      <2>2. Locked(p)'
            BY <2>1 DEF Locked, Setup!At
      <2> QED
          BY <1>2, <2>1, <2>2, SameToolInStep DEF SetupInv
<1> QED
    BY <1>1, <1>3, <1>4 DEF SetupInv

LEMMA ChainKeeps ==
  ASSUME SetupInv, NEW k \in Setup!Operations,
         \/ \E n \in 1 .. MaxSigned, ok \in BOOLEAN : Setup!Execute(k, n, ok)
         \/ Setup!Drop(k) \/ Setup!Finalize(k)
  PROVE  SetupInv'
<1>1. ledger \in [Setup!Operations -> Executions]
      BY DEF SetupInv, SetupTyped
<1>2. CASE \E n \in 1 .. MaxSigned, ok \in BOOLEAN : Setup!Execute(k, n, ok)
      <2>1. PICK n \in 1 .. MaxSigned, ok \in BOOLEAN : Setup!Execute(k, n, ok)
            BY <1>2
      <2>2. [tx |-> n, ok |-> ok, final |-> FALSE] \in Executions
            BY DEF Executions
      <2>3. ledger' \in [Setup!Operations -> Executions] /\ FinalKept
            BY <1>1, <2>1, <2>2 DEF Setup!Execute, FinalKept, Setup!Finalized
      <2> QED
          BY <2>1, <2>3, ChainStepKeeps DEF Setup!Execute
<1>3. CASE Setup!Drop(k)
      <2>1. ledger' \in [Setup!Operations -> Executions] /\ FinalKept
            BY <1>1, <1>3 DEF Setup!Drop, FinalKept, Setup!Finalized, Executions
      <2> QED
          BY <1>3, <2>1, ChainStepKeeps DEF Setup!Drop
<1>4. CASE Setup!Finalize(k)
      <2>1. [ledger[k] EXCEPT !.final = TRUE] \in Executions
            <3>1. ledger[k] \in [tx : 1 .. MaxSigned, ok : BOOLEAN, final : BOOLEAN]
                  BY <1>1, <1>4 DEF Setup!Finalize, Executions
            <3> QED
                BY <3>1 DEF Executions
      <2>2. ledger' = [ledger EXCEPT ![k] = [ledger[k] EXCEPT !.final = TRUE]]
            BY <1>1, <1>4 DEF Setup!Finalize
      <2>3. ledger' \in [Setup!Operations -> Executions] /\ FinalKept
            BY <1>1, <1>4, <2>1, <2>2 DEF Setup!Finalize, FinalKept, Setup!Finalized
      <2> QED
          BY <1>4, <2>3, ChainStepKeeps DEF Setup!Finalize
<1> QED
    BY <1>2, <1>3, <1>4

LEMMA SetupCrashKeeps ==
  ASSUME SetupInv, NEW p \in Processes, Setup!Crash(p)
  PROVE  SetupInv'
<1> USE DEF Setup!Crash
<1>1. /\ tools' \in [Processes -> Tools] /\ tools'[p].at = "idle"
      /\ \A q \in Processes : q # p => tools'[q] = tools[q]
      BY NowhereThere DEF SetupInv
<1>2. \A j \in Setup!Operations :
        /\ journals[j] \in Journals
        /\ journals'[j] = IF journals[j].lock = p THEN [journals[j] EXCEPT !.lock = "orphan"] ELSE journals[j]
      BY DEF SetupInv, SetupTyped
<1>3. \A j \in Setup!Operations :
        journals[j].lock = p =>
          journals'[j] = [lock |-> "orphan", file |-> journals[j].file, survivors |-> journals[j].survivors]
      BY <1>2, JournalParts
<1>4. \A j \in Setup!Operations :
        /\ journals'[j] \in Journals
        /\ journals'[j].file = journals[j].file /\ journals'[j].survivors = journals[j].survivors
        /\ journals[j].lock # p => journals'[j] = journals[j]
      BY <1>2, <1>3 DEF Journals, Locks
<1>5. SetupTyped' /\ FinalKept
      <2>1. journals' \in [Setup!Operations -> Journals]
            BY <1>4
      <2>2. failures' \in Nat
            BY DEF SetupInv, SetupTyped
      <2> QED
          BY <1>1, <2>1, <2>2 DEF SetupInv, SetupTyped, FinalKept
<1>6. ASSUME NEW q \in Processes PROVE Locked(q)'
      <2>1. CASE q = p
            BY <1>1, <2>1 DEF Locked, Setup!At
      <2>2. CASE q # p
            <3>1. \A j \in Setup!Operations : journals[j].lock = q => journals'[j] = journals[j]
                  BY <1>4, <2>2
            <3>2. tools[q].op \in Setup!Operations
                  BY DEF SetupInv, SetupTyped, Tools
            <3>3. tools'[q] = tools[q] /\ Locked(q)
                  BY <1>1, <2>2 DEF SetupInv
            <3> QED
                BY <3>1, <3>2, <3>3 DEF Locked, Setup!At
      <2> QED
          BY <2>1, <2>2
<1>7. ToolInStep(p)'
      BY <1>1 DEF ToolInStep, Setup!At
<1>8. \A j \in Setup!Operations : SameJournal(j)
      BY <1>4 DEF SameJournal
<1>9. tools[p].op \in Setup!Operations
      BY DEF SetupInv, SetupTyped, Tools
<1> QED
    BY <1>1, <1>5, <1>6, <1>7, <1>8, <1>9, ToolStepKeeps

\* What a power loss leaves of a journal is one of its versions, and each of them
\* says what was handed over.
LEMMA SetupPowerLossKeeps ==
  ASSUME SetupInv, Setup!PowerLoss
  PROVE  SetupInv'
<1>1. PICK left : /\ \A k \in Setup!Operations : left[k] \in journals[k].survivors
                  /\ journals' = [k \in Setup!Operations |->
                       [lock |-> IF journals[k].lock = "absent" THEN "absent" ELSE "orphan",
                        file |-> left[k], survivors |-> {left[k]}]]
      BY DEF Setup!PowerLoss
<1>2. /\ tools' = [p \in Processes |-> Setup!Nowhere] /\ failures' = failures + 1
      /\ UNCHANGED <<signed, handed, ledger>>
      BY DEF Setup!PowerLoss
<1>3. \A k \in Setup!Operations : left[k] \in Stored
      BY <1>1 DEF SetupInv, SetupTyped, Journals, StoredSets
<1>4. ASSUME NEW k \in Setup!Operations
      PROVE  journals'[k] \in Journals /\ journals'[k].file = left[k] /\ journals'[k].survivors = {left[k]}
      BY <1>1, <1>3 DEF Journals, Locks, StoredSets
<1>5. Setup!Nowhere \in Tools /\ Setup!Nowhere.at = "idle"
      <2>1. 1 \in Setup!Operations
            BY JournalsAssumption DEF Setup!SetupAssumption, Setup!Operations
      <2> QED
          BY <2>1 DEF Setup!Nowhere, Tools, SetupAwaits, Stored
<1> HIDE DEF Setup!Nowhere
<1>6. tools' \in [Processes -> Tools] /\ \A p \in Processes : tools'[p].at = "idle"
      BY <1>2, <1>5
<1>7. SetupTyped' /\ FinalKept
      <2>1. journals' \in [Setup!Operations -> Journals]
            BY <1>1, <1>4
      <2> QED
          BY <1>2, <1>6, <2>1 DEF SetupInv, SetupTyped, FinalKept
<1>8. ASSUME NEW p \in Processes PROVE Locked(p)' /\ ToolInStep(p)'
      BY <1>6 DEF Locked, ToolInStep, Setup!At
<1>9. ASSUME NEW k \in Setup!Operations PROVE OperationSound(k)'
      <2>1. OperationSound(k)
            BY DEF SetupInv
      <2>2. PICK r : r = left[k]
            OBVIOUS
      <2>3. r \in journals[k].survivors /\ r \in Stored /\ journals'[k].file = r /\ journals'[k].survivors = {r}
            BY <1>1, <1>3, <1>4, <2>2
      <2>4. r # NoRecord => journals[k].file # NoRecord
            BY <2>1, <2>3 DEF OperationSound
      <2>5. r # NoRecord => Setup!Prerequisite(k)' /\ FinalIsTrue(k, r)'
            BY <1>7, <2>1, <2>3, <2>4, FinalStays DEF OperationSound
      <2> QED
          BY <1>2, <2>1, <2>3, <2>5 DEF OperationSound
<1> QED
    BY <1>7, <1>8, <1>9 DEF SetupInv

LEMMA ClearOrphanKeeps ==
  ASSUME SetupInv, NEW k \in Setup!Operations, Setup!ClearOrphan(k)
  PROVE  SetupInv'
<1> USE DEF Setup!ClearOrphan
<1>1. /\ journals' \in [Setup!Operations -> Journals]
      /\ \A j \in Setup!Operations :
              /\ journals'[j].file = journals[j].file /\ journals'[j].survivors = journals[j].survivors
              /\ j # k => journals'[j] = journals[j]
      BY LockTyped DEF SetupInv, Locks
<1>2. SetupTyped' /\ FinalKept
      BY <1>1 DEF SetupInv, SetupTyped, FinalKept
<1>3. \A j \in Setup!Operations : SameJournal(j)
      BY <1>1 DEF SameJournal
<1>4. ASSUME NEW j \in Setup!Operations PROVE OperationSound(j)'
      BY <1>2, <1>3, SameJournalSound DEF SetupInv
<1>5. ASSUME NEW q \in Processes PROVE ToolInStep(q)' /\ Locked(q)'
      <2>1. tools[q].op \in Setup!Operations /\ Locked(q) /\ tools'[q] = tools[q]
            BY DEF SetupInv, SetupTyped, Tools
      <2>2. \A j \in Setup!Operations : journals[j].lock = q => journals'[j] = journals[j]
            BY <1>1, JournalsAssumption DEF Setup!SetupAssumption
      <2>3. Locked(q)'
            BY <2>1, <2>2 DEF Locked, Setup!At
      <2> QED
          BY <1>2, <1>3, <2>1, <2>3, SameToolInStep DEF SetupInv
<1> QED
    BY <1>2, <1>4, <1>5 DEF SetupInv

-----------------------------------------------------------------------------
(* The theorem.                                                            *)

LEMMA SetupInitEstablishes == Setup!Init => SetupInv
<1> SUFFICES ASSUME Setup!Init PROVE SetupInv
    OBVIOUS
<1> USE DEF Setup!Init
<1>1. /\ [lock |-> "absent", file |-> NoRecord, survivors |-> {NoRecord}] \in Journals
      /\ NoRecord \in Executions /\ 0 \in 0 .. MaxSigned /\ <<>> \in Seq(1 .. MaxSigned)
      BY JournalsAssumption DEF Journals, Locks, Stored, StoredSets, Executions, Setup!SetupAssumption
<1>2. Setup!Nowhere \in Tools /\ Setup!Nowhere.at = "idle"
      <2>1. 1 \in Setup!Operations
            BY JournalsAssumption DEF Setup!SetupAssumption, Setup!Operations
      <2> QED
          BY <2>1 DEF Setup!Nowhere, Tools, SetupAwaits, Stored
<1> HIDE DEF Setup!Nowhere
<1>3. SetupTyped
      BY <1>1, <1>2 DEF SetupTyped
<1>4. \A p \in Processes : Locked(p) /\ ToolInStep(p)
      BY <1>2 DEF Locked, ToolInStep, Setup!At
<1>5. \A k \in Setup!Operations : OperationSound(k)
      BY DEF OperationSound
<1> QED
    BY <1>3, <1>4, <1>5 DEF SetupInv

LEMMA SetupNextKeeps == SetupInv /\ Setup!Next => SetupInv'
<1> SUFFICES ASSUME SetupInv, Setup!Next PROVE SetupInv'
    OBVIOUS
<1>1. ASSUME NEW p \in Processes, NEW k \in Setup!Operations, Setup!Start(p, k) PROVE SetupInv'
      BY <1>1, StartKeeps
<1>2. ASSUME NEW p \in Processes, Setup!Step(p) PROVE SetupInv'
      BY <1>2, ReadKeeps, ReadPredecessorKeeps, ReconcilePredecessorKeeps, SetupSignKeeps, SetupThrowsKeeps,
         SetupWriteRenamesKeeps, SetupWriteSyncsKeeps, SetupObserveKeeps, SetupBroadcastKeeps
      DEF Setup!Step
<1>3. ASSUME NEW p \in Processes, Setup!Crash(p) PROVE SetupInv'
      BY <1>3, SetupCrashKeeps
<1>4. ASSUME NEW k \in Setup!Operations,
             \/ \E n \in 1 .. MaxSigned, ok \in BOOLEAN : Setup!Execute(k, n, ok)
             \/ Setup!Drop(k) \/ Setup!Finalize(k) \/ Setup!ClearOrphan(k)
      PROVE  SetupInv'
      BY <1>4, ChainKeeps, ClearOrphanKeeps
<1>5. CASE Setup!PowerLoss
      BY <1>5, SetupPowerLossKeeps
<1> QED
    BY <1>1, <1>2, <1>3, <1>4, <1>5 DEF Setup!Next

\* A tool runs under its operation's lock and is in step with its journal, and
\* every version of a journal that a power loss could leave tells what was
\* handed over (solana-transaction-journal.ts 66-113, journal-file.ts 38-74).
THEOREM SetupInvariant == JournalsSpec => []SetupInv
<1>1. JournalsInit => SetupInv
      BY SetupInitEstablishes DEF JournalsInit
<1>2. SetupInv /\ [JournalsNext]_journalsVars => SetupInv'
      <2>1. SetupInv /\ UNCHANGED setupVars => SetupInv'
            BY DEF SetupInv, SetupTyped, Locked, ToolInStep, OperationSound, FinalIsTrue, setupVars, Setup!At,
               Setup!ExactFinal, Setup!Outcome, Setup!Prerequisite, Setup!Finalized
      <2> QED
          BY <2>1, SetupNextKeeps DEF JournalsNext, RunEvm, RunSetup, journalsVars
<1> QED
    BY <1>1, <1>2, PTL DEF JournalsSpec

\* Every operation of the set-up is handed to the network once, after what it
\* builds on is final, and its journal always names it; a journal that calls it
\* finished agrees with the finalized chain, for any number of operations,
\* tools, signings, failures and dropped forks
\* (solana-transaction-journal.ts 90-112, register-solana-pool.mjs 66-82).
THEOREM OperationsAreSentOnce == JournalsSpec => []SetupSendsOnce
<1>1. SetupInv => SetupSendsOnce
      <2> SUFFICES ASSUME SetupInv, NEW k \in Setup!Operations
                   PROVE  /\ handed[k] # <<>> =>
                               /\ Len(handed[k]) = 1 /\ Setup!Prerequisite(k)
                               /\ \A r \in journals[k].survivors :
                                    r # NoRecord /\ r.tx = handed[k][1] /\ r.phase # "signed"
                          /\ \A r \in journals[k].survivors :
                               r # NoRecord /\ r.phase \in {"succeeded", "failed"} =>
                                 Setup!ExactFinal(k, r) /\ r.phase = Setup!Outcome(k)
          BY DEF SetupSendsOnce, Setup!SetupSendsOnce
      <2>1. OperationSound(k)
            BY DEF SetupInv
      <2> QED
          BY <2>1 DEF OperationSound, FinalIsTrue
<1> QED
    BY <1>1, SetupInvariant, PTL
=============================================================================
