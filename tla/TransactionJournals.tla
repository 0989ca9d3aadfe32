------------------------- MODULE TransactionJournals -------------------------
(***************************************************************************)
(* The two engines that send through a journal file: one transaction on    *)
(* Ethereum (EvmJournal), and the operations of the set-up on Solana       *)
(* (SolanaSetup).  They share the file's adapter and no state: each is run *)
(* by itself, the other at rest.                                           *)
(***************************************************************************)
EXTENDS EvmJournal, TLC

CONSTANTS LastOperation, Checkpointed, MaxSigned, MaxFailures

VARIABLES running, journals, tools, signed, handed, ledger, failures

setupVars == <<journals, tools, signed, handed, ledger, failures>>
journalsVars == <<running, vars, setupVars>>

Setup == INSTANCE SolanaSetup

\* Processes are interchangeable, and so are intents.
JournalSymmetry == Permutations(Processes) \cup Permutations(Intents)

ASSUME JournalsAssumption == Setup!SetupAssumption

JournalsInit ==
  /\ Init /\ Setup!Init
  /\ \/ running = "EvmJournal"
     \/ running = "SolanaSetup" /\ \A p, q \in Processes : intent[p] = intent[q]

RunEvm == running = "EvmJournal" /\ Next /\ UNCHANGED <<running, setupVars>>

RunSetup == running = "SolanaSetup" /\ Setup!Next /\ UNCHANGED <<running, vars>>

JournalsNext == RunEvm \/ RunSetup

JournalsSpec == JournalsInit /\ [][JournalsNext]_journalsVars

\* What the set-up promises: every operation is sent once, after what it builds
\* on, and its journal always knows (see SolanaSetup).
SetupSendsOnce == Setup!SetupSendsOnce
=============================================================================
