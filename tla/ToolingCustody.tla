--------------------------- MODULE ToolingCustody ---------------------------
(***************************************************************************)
(* The machines the tooling keeps files and processes with: a command      *)
(* under custody (ProcessCustody), the proof that runs such commands and   *)
(* deletes its workspace (RollbackProof), the publication of a bundle      *)
(* (OwnedOutput), that of a delivery (DeliveryStore), the installation of  *)
(* a tool (ToolchainPublication) and the port blocks of local Solana       *)
(* fixtures (PortLeases).  They share no state: each is run by itself, and *)
(* nothing is there of the others.  Of a command the proof takes what      *)
(* CustodyIsTrue promises and no more.                                     *)
(***************************************************************************)
EXTENDS Naturals

CONSTANTS Timeout, TermAfter, DrainFor, MaxClockFailures,
          Planners, Stranger, LastLeaf, MaxEvents,
          Publishers, Deliveries, LastFile, MaxMishaps,
          Parts, MaxAttempts,
          Plan, Directories, MaxCommands,
          Owners, Dead, Blocks

VARIABLES running,
          tree, got, time, cancelled, observer, record, helper, report, late, outcome, removed,
          dirs, await, answer, events,
          store, pub, reader, mishaps,
          installed, found, staged, leftover, backups, attempt, ended, good,
          at, slot, changed, plan, reported, commands, quiescent, survivor, cleanup, drift, left,
          path, marker, stand, purpose, todo, block, entry

commandVars == <<tree, got, time, cancelled, observer, record, helper, report, late, outcome, removed>>
outputVars == <<dirs, await, answer, events>>
deliveryVars == <<store, pub, reader, mishaps>>
toolVars == <<installed, found, staged, leftover, backups, attempt, ended, good>>
proofVars == <<at, slot, changed, plan, reported, commands, quiescent, survivor, cleanup, drift, left>>
portVars == <<path, marker, stand, purpose, todo, block, entry>>
toolingVars == <<running, commandVars, outputVars, deliveryVars, toolVars, proofVars, portVars>>

Command == INSTANCE ProcessCustody
Output == INSTANCE OwnedOutput WITH at <- await
Delivery == INSTANCE DeliveryStore WITH LastLeaf <- LastFile
Installation == INSTANCE ToolchainPublication WITH outcome <- ended
Proof == INSTANCE RollbackProof
Ports == INSTANCE PortLeases WITH at <- stand, Processes <- Owners

ASSUME ToolingAssumption ==
  /\ Ports!PortsAssumption /\ Proof!PlanAssumption /\ Command!CustodyAssumption
  /\ Installation!PartsAssumption /\ Output!OutputAssumption /\ Delivery!DeliveryAssumption

None == <<>>

InitCommand ==
  IF running = "command" THEN Command!Init
  ELSE /\ tree = None /\ got = None /\ time = None /\ cancelled = None /\ observer = None
       /\ record = None /\ helper = None /\ report = None /\ late = None /\ outcome = None
       /\ removed = None

InitOutput ==
  IF running = "output" THEN Output!Init
  ELSE dirs = None /\ await = None /\ answer = None /\ events = None

InitDelivery ==
  IF running = "delivery" THEN Delivery!Init
  ELSE store = None /\ pub = None /\ reader = None /\ mishaps = None

InitInstallation ==
  IF running = "installation" THEN Installation!Init
  ELSE /\ installed = None /\ found = None /\ staged = None /\ leftover = None
       /\ backups = None /\ attempt = None /\ ended = None /\ good = None

InitProof ==
  IF running = "proof" THEN Proof!Init
  ELSE /\ at = None /\ slot = None /\ changed = None /\ plan = None /\ reported = None
       /\ commands = None /\ quiescent = None /\ survivor = None /\ cleanup = None
       /\ drift = None /\ left = None

InitPorts ==
  IF running = "ports" THEN Ports!Init
  ELSE /\ path = None /\ marker = None /\ stand = None /\ purpose = None /\ todo = None
       /\ block = None /\ entry = None

ToolingInit ==
  /\ running \in {"command", "proof", "output", "delivery", "installation", "ports"}
  /\ InitCommand /\ InitOutput /\ InitDelivery /\ InitInstallation /\ InitProof /\ InitPorts

RunCommand ==
  /\ running = "command" /\ Command!Next
  /\ UNCHANGED <<running, outputVars, deliveryVars, toolVars, proofVars, portVars>>

RunProof ==
  /\ running = "proof" /\ Proof!Next
  /\ UNCHANGED <<running, commandVars, outputVars, deliveryVars, toolVars, portVars>>

RunOutput ==
  /\ running = "output" /\ Output!Next
  /\ UNCHANGED <<running, commandVars, deliveryVars, toolVars, proofVars, portVars>>

RunDelivery ==
  /\ running = "delivery" /\ Delivery!Next
  /\ UNCHANGED <<running, commandVars, outputVars, toolVars, proofVars, portVars>>

RunInstallation ==
  /\ running = "installation" /\ Installation!Next
  /\ UNCHANGED <<running, commandVars, outputVars, deliveryVars, proofVars, portVars>>

RunPorts ==
  /\ running = "ports" /\ Ports!Next
  /\ UNCHANGED <<running, commandVars, outputVars, deliveryVars, toolVars, proofVars>>

ToolingNext ==
  RunCommand \/ RunProof \/ RunOutput \/ RunDelivery \/ RunInstallation \/ RunPorts

ToolingSpec == ToolingInit /\ [][ToolingNext]_toolingVars

\* A command's custody and signals (see ProcessCustody).
CustodyIsTrue == running = "command" => Command!CustodyIsTrue
SignalledOnce == running = "command" => Command!SignalledOnce

\* What READY and the answer of who published it say of the disk, of a bundle
\* (see OwnedOutput) and of a delivery (see DeliveryStore).
ReadyIsTrue == running = "output" => Output!ReadyIsTrue
DeliveryIsTrue == running = "delivery" => Delivery!DeliveryIsTrue

\* A failed installation loses and changes nothing (see ToolchainPublication).
InstallationIsKept == running = "installation" => Installation!InstallationIsKept

\* The rollback proof moves and deletes what it captured (see RollbackProof).
OnlyCapturedIsRemoved == running = "proof" => Proof!OnlyCapturedIsRemoved

\* As long as no process dies, blocks of ports are held one at a time (see PortLeases).
SerializedWhileNoneDies == running = "ports" => Ports!SerializedWhileNoneDies
=============================================================================
