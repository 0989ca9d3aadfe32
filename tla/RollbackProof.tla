---------------------------- MODULE RollbackProof ----------------------------
(***************************************************************************)
(* The proof that a slice can be rolled back (proof-slice.mjs): in a       *)
(* private workspace the manifest's paths are moved into a quarantine      *)
(* (removal-quarantine.mjs), commands are run under custody, and the       *)
(* workspace is deleted by identity (cleanup.mjs) if nothing failed; what  *)
(* failed is preserved.                                                    *)
(*                                                                         *)
(* A peer works on the workspace's paths while they are there; a process   *)
(* that survived a command of uncertain custody holds descriptors, and     *)
(* works on anything at any time.  Neither is assumed to find the          *)
(* quarantine by its name.                                                 *)
(***************************************************************************)
EXTENDS Naturals, Sequences

CONSTANTS Plan,         \* the paths to remove: the files, then the directories
          Directories,
          MaxCommands   \* bound: how many commands are run

Paths == {Plan[i] : i \in 1 .. Len(Plan)}

\* What ToolingCustody assumes of the constants.
PlanAssumption == Plan \in Seq(Paths)

None == 0
Captured == 1   \* the object that was at the path when the plan was taken
Foreign == 2    \* one that a peer put there

VARIABLES at,        \* at[x]: the object at path x
          slot,      \* slot[x]: what was moved out of x
          changed,   \* the paths whose captured object was changed since
          plan,      \* [next, step]: the progress through Plan
          reported,  \* the paths reported as quarantined
          commands,  \* how many were run
          quiescent, \* the recorder's processesQuiescent
          survivor,  \* a process of a command is still there
          cleanup,   \* the cleanup's step, in the end its status
          drift,     \* the paths where something changed since the snapshot
          left       \* the paths whose objects are not deleted

removalVars == <<at, slot, changed, plan, reported>>
commandVars == <<commands, quiescent, survivor>>
cleanupVars == <<cleanup, left>>
proofVars == <<removalVars, commandVars, cleanupVars, drift>>

Init ==
  /\ at = [x \in Paths |-> Captured] /\ slot = [x \in Paths |-> None] /\ changed = {}
  /\ plan = [next |-> 1, step |-> "check"] /\ reported = {}
  /\ commands = 0 /\ quiescent = TRUE /\ survivor = FALSE
  /\ cleanup = "none" /\ drift = {} /\ left = Paths

----------------------------------------------------------------------------
(* Others.                                                                 *)

ByPath == cleanup \in {"none", "assert", "move"} \/ survivor

Works ==
  /\ ByPath
  /\ \E x \in left :
       /\ drift' = drift \cup {x}
       /\ \/ at[x] = Captured /\ changed' = changed \cup {x} /\ UNCHANGED at
          \/ at' = [at EXCEPT ![x] = Foreign] /\ UNCHANGED changed
          \/ at' = [at EXCEPT ![x] = None] /\ UNCHANGED changed
  /\ UNCHANGED <<slot, plan, reported, commandVars, cleanupVars>>

\* Only a survivor reaches what was moved.
WorksOnMoved ==
  /\ survivor
  /\ \E x \in left : drift' = drift \cup {x} /\ changed' = changed \cup {x}
  /\ UNCHANGED <<at, slot, plan, reported, commandVars, cleanupVars>>

----------------------------------------------------------------------------
(* Removal into the quarantine (stageRollbackRemoval).                     *)

Busy == cleanup = "none" /\ plan.next <= Len(Plan)
Path == Plan[plan.next]
Step(step) == Busy /\ plan.step = step
Goto(step) == plan' = [plan EXCEPT !.step = step]
Fail == cleanup' = "preserved" /\ UNCHANGED left

\* The object at x is the one captured, with the metadata it had; what a
\* directory holds is looked at, through its descriptor.
CheckBefore ==
  /\ Step("check") /\ UNCHANGED <<at, slot, changed, reported, commandVars, drift>>
  /\ \/ at[Path] = Captured /\ Path \notin changed /\ Goto("rename") /\ UNCHANGED cleanupVars
     \/ Fail /\ UNCHANGED plan

Rename ==
  /\ Step("rename") /\ UNCHANGED <<changed, reported, commandVars, drift>>
  /\ \/ /\ at[Path] # None /\ Goto("after") /\ UNCHANGED cleanupVars
        /\ slot' = [slot EXCEPT ![Path] = at[Path]] /\ at' = [at EXCEPT ![Path] = None]
     \/ Fail /\ UNCHANGED <<at, slot, plan>>

\* Slip: the check before the rename is trusted.
TrustedBefore(x) == TRUE

\* What was moved is the captured object, and if a directory, empty.
IsCaptured(x) == slot[x] = Captured /\ (x \in Directories => x \notin changed)

CheckAfter ==
  /\ Step("after") /\ UNCHANGED <<at, slot, changed, commandVars, drift>>
  /\ \/ /\ IsCaptured(Path) /\ UNCHANGED cleanupVars
        /\ plan' = [next |-> plan.next + 1, step |-> "check"] /\ reported' = reported \cup {Path}
     \/ Fail /\ UNCHANGED <<plan, reported>>

----------------------------------------------------------------------------
(* Commands, before, between and after the removals (CommandRecorder.run): *)
(* what is not completed fails the proof, and what is not certain to be    *)
(* over (CustodyIsTrue of ProcessCustody) is remembered.                   *)

Command ==
  /\ cleanup = "none" /\ plan.step = "check" /\ commands < MaxCommands /\ commands' = commands + 1
  /\ UNCHANGED <<removalVars, drift>>
  /\ \/ UNCHANGED <<quiescent, survivor, cleanupVars>>
     \/ Fail /\ UNCHANGED <<quiescent, survivor>>
     \/ Fail /\ quiescent' = FALSE /\ survivor' \in BOOLEAN

----------------------------------------------------------------------------
(* Cleanup (captureCleanupTreeSnapshot, finalizeRollbackTemporaryParent,   *)
(* cleanupIdentityBoundDirectory).                                         *)

Cleans(step) == cleanup = step
CleanupOnly == UNCHANGED <<removalVars, commandVars>>

Snapshot ==
  /\ Cleans("none") /\ plan.next > Len(Plan) /\ quiescent /\ CleanupOnly
  /\ \/ cleanup' = "assert" /\ drift' = {} /\ UNCHANGED left
     \/ Fail /\ UNCHANGED drift

AssertSnapshot(next) ==
  (drift = {} /\ cleanup' = next /\ UNCHANGED left) \/ Fail

AssertInPlace == Cleans("assert") /\ AssertSnapshot("move") /\ CleanupOnly /\ UNCHANGED drift

\* The workspace is renamed into the cleanup's own quarantine.
MoveTree ==
  /\ Cleans("move") /\ CleanupOnly /\ UNCHANGED drift
  /\ (cleanup' = "assert moved" /\ UNCHANGED left) \/ Fail

AssertMoved == Cleans("assert moved") /\ AssertSnapshot("delete") /\ CleanupOnly /\ UNCHANGED drift

\* Entry by entry, each compared with the snapshot again before it is deleted.
DeleteEntry ==
  /\ Cleans("delete") /\ CleanupOnly /\ UNCHANGED drift
  /\ \/ \E x \in left \ drift : left' = left \ {x} /\ UNCHANGED cleanup
     \/ left = {} /\ cleanup' = "passed" /\ UNCHANGED left
     \/ Fail

Next ==
  \/ Works \/ WorksOnMoved
  \/ CheckBefore \/ Rename \/ CheckAfter \/ Command
  \/ Snapshot \/ AssertInPlace \/ MoveTree \/ AssertMoved \/ DeleteEntry

----------------------------------------------------------------------------
(* What is promised.                                                       *)

\* A path is reported as removed only if what was moved from it is what was
\* captured; nothing is deleted that had changed since the snapshot; and
\* while a process of the proof may be left nothing is deleted at all.
OnlyCapturedIsRemoved ==
  /\ \A x \in reported : slot[x] = Captured
  /\ drift \cap (Paths \ left) = {}
  /\ survivor => left = Paths
=============================================================================
