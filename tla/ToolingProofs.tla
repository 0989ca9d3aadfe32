--------------------------- MODULE ToolingProofs ---------------------------
(***************************************************************************)
(* What the tooling promises of files and processes, component by          *)
(* component: while another one runs, nothing of this one is there.        *)
(***************************************************************************)
EXTENDS ToolingCustody, SequenceTheorems, TLAPS

----------------------------------------------------------------------------
(* The rollback proof: any plan, any directories, any number of commands.  *)

RemovalTyped ==
  /\ at \in [Proof!Paths -> {Proof!None, Proof!Captured, Proof!Foreign}]
  /\ slot \in [Proof!Paths -> {Proof!None, Proof!Captured, Proof!Foreign}]
  /\ plan \in [next : Nat \ {0}, step : {"check", "rename", "after"}]
  /\ reported \subseteq Proof!Paths /\ left \subseteq Proof!Paths

\* Nobody puts the captured object back: what was moved out of a path was not
\* what was captured there, or it is reported and the path holds none of it.
MovedOnce ==
  /\ \A x \in reported : slot[x] = Proof!Captured /\ at[x] # Proof!Captured
  /\ Proof!Busy /\ plan.step \in {"rename", "after"} => Proof!Path \notin reported
  /\ Proof!Busy /\ plan.step = "after" => at[Proof!Path] # Proof!Captured

\* A survivor stops the proof before anything is deleted.
DeletedLast ==
  /\ cleanup \in {"none", "assert", "move", "assert moved"} => left = Proof!Paths
  /\ survivor => cleanup = "preserved" /\ left = Proof!Paths
  /\ drift \cap (Proof!Paths \ left) = {}

RemovalInv == running = "proof" => RemovalTyped /\ MovedOnce /\ DeletedLast

\* Paths is a set of the plan's entries, and the one under hand is one of them.
LEMMA PathUnderHand ==
  ASSUME plan \in [next : Nat \ {0}, step : {"check", "rename", "after"}], Proof!Busy
  PROVE  Proof!Path \in Proof!Paths
  BY ToolingAssumption DEF Proof!PlanAssumption, Proof!Busy, Proof!Path, Proof!Paths

LEMMA RemovalStarts == ToolingInit => RemovalInv
  BY DEF ToolingInit, InitProof, Proof!Init, RemovalInv, RemovalTyped, MovedOnce, DeletedLast,
         Proof!None, Proof!Captured, Proof!Foreign

LEMMA RemovalGoesOn ==
  ASSUME RemovalTyped, MovedOnce, DeletedLast, Proof!Next
  PROVE  RemovalTyped' /\ MovedOnce' /\ DeletedLast'
  <1> USE DEF Proof!None, Proof!Captured, Proof!Foreign, Proof!Fail, Proof!Step, Proof!Goto,
              Proof!commandVars, Proof!cleanupVars, Proof!removalVars
  <1>0. Proof!Busy => Proof!Path \in Proof!Paths
    BY PathUnderHand DEF RemovalTyped
  <1>1. CASE Proof!Works
    <2>1. PICK x \in left :
             /\ drift' = drift \cup {x}
             /\ at' = at \/ at' = [at EXCEPT ![x] = Proof!Foreign] \/ at' = [at EXCEPT ![x] = Proof!None]
             /\ UNCHANGED <<slot, plan, reported, commands, quiescent, survivor, cleanup, left>>
      BY <1>1 DEF Proof!Works
    <2>2. RemovalTyped'
      BY <2>1 DEF RemovalTyped
    <2>3. \A y \in Proof!Paths : at[y] # Proof!Captured => at'[y] # Proof!Captured
      BY <2>1 DEF RemovalTyped
    <2>4. Proof!Busy' = Proof!Busy /\ Proof!Path' = Proof!Path
      BY <2>1 DEF Proof!Busy, Proof!Path
    <2>5. MovedOnce'
      BY <1>0, <2>1, <2>3, <2>4 DEF RemovalTyped, MovedOnce
    <2> QED BY <2>1, <2>2, <2>5 DEF DeletedLast
  <1>2. CASE Proof!WorksOnMoved
    <2>1. PICK x \in left :
             /\ drift' = drift \cup {x}
             /\ UNCHANGED <<at, slot, plan, reported, commands, quiescent, survivor, cleanup, left>>
      BY <1>2 DEF Proof!WorksOnMoved
    <2> QED BY <2>1 DEF RemovalTyped, MovedOnce, DeletedLast, Proof!Busy, Proof!Path
  <1>3. CASE Proof!CheckBefore
    <2>1. RemovalTyped'
      BY <1>3 DEF Proof!CheckBefore, RemovalTyped
    <2>2. MovedOnce'
      BY <1>3 DEF Proof!CheckBefore, RemovalTyped, MovedOnce, Proof!Busy, Proof!Path
    <2> QED BY <1>3, <2>1, <2>2 DEF Proof!CheckBefore, DeletedLast
  <1>4. CASE Proof!Rename
    <2>1. RemovalTyped'
      BY <1>0, <1>4 DEF Proof!Rename, RemovalTyped
    <2>2. MovedOnce'
      BY <1>0, <1>4 DEF Proof!Rename, RemovalTyped, MovedOnce, Proof!Busy, Proof!Path
    <2> QED BY <1>4, <2>1, <2>2 DEF Proof!Rename, DeletedLast
  <1>5. CASE Proof!CheckAfter
    <2>1. RemovalTyped'
      BY <1>0, <1>5 DEF Proof!CheckAfter, RemovalTyped
    <2>2. MovedOnce'
      BY <1>0, <1>5 DEF Proof!CheckAfter, RemovalTyped, MovedOnce, Proof!Busy, Proof!Path, Proof!IsCaptured
    <2> QED BY <1>5, <2>1, <2>2 DEF Proof!CheckAfter, DeletedLast
  <1>6. CASE Proof!Command
    <2>1. /\ cleanup = "none" /\ UNCHANGED <<at, slot, changed, plan, reported, drift, left>>
          /\ cleanup' \in {cleanup, "preserved"} /\ (survivor' # survivor => cleanup' = "preserved")
      BY <1>6 DEF Proof!Command
    <2>2. RemovalTyped' /\ MovedOnce'
      BY <2>1 DEF RemovalTyped, MovedOnce, Proof!Busy, Proof!Path
    <2> QED BY <2>1, <2>2 DEF DeletedLast
  <1>7. CASE Proof!Snapshot \/ Proof!AssertInPlace \/ Proof!MoveTree \/ Proof!AssertMoved
    <2>1. /\ UNCHANGED <<at, slot, changed, plan, reported, survivor, left>>
          /\ drift' \in {drift, {}} /\ cleanup # "preserved"
          /\ cleanup \in {"none", "assert", "move", "assert moved"}
          /\ cleanup' \in {"assert", "move", "assert moved", "delete", "preserved"}
      BY <1>7 DEF Proof!Snapshot, Proof!AssertInPlace, Proof!MoveTree, Proof!AssertMoved,
                  Proof!Cleans, Proof!CleanupOnly, Proof!AssertSnapshot
    <2>2. RemovalTyped' /\ MovedOnce'
      BY <2>1 DEF RemovalTyped, MovedOnce, Proof!Busy, Proof!Path
    <2> QED BY <2>1, <2>2 DEF DeletedLast
  <1>8. CASE Proof!DeleteEntry
    BY <1>8 DEF Proof!DeleteEntry, Proof!Cleans, Proof!CleanupOnly,
                RemovalTyped, MovedOnce, DeletedLast, Proof!Busy, Proof!Path
  <1> QED BY <1>1, <1>2, <1>3, <1>4, <1>5, <1>6, <1>7, <1>8 DEF Proof!Next

LEMMA RemovalKeeps == RemovalInv /\ [ToolingNext]_toolingVars => RemovalInv'
  <1> SUFFICES ASSUME RemovalInv, [ToolingNext]_toolingVars, running' = "proof"
               PROVE  RemovalTyped' /\ MovedOnce' /\ DeletedLast'
    BY DEF RemovalInv
  <1>1. running = "proof" /\ RemovalTyped /\ MovedOnce /\ DeletedLast
    BY DEF RemovalInv, ToolingNext, toolingVars, RunCommand, RunProof, RunOutput, RunDelivery,
           RunInstallation, RunPorts
  <1>2. CASE Proof!Next
    BY <1>1, <1>2, RemovalGoesOn
  <1>3. CASE UNCHANGED proofVars
    BY <1>1, <1>3 DEF proofVars, RemovalTyped, MovedOnce, DeletedLast, Proof!Busy, Proof!Path
  <1> QED BY <1>1, <1>2, <1>3 DEF ToolingNext, toolingVars, RunCommand, RunProof, RunOutput,
                                  RunDelivery, RunInstallation, RunPorts

\* A rollback proof reports and deletes only what it captured, and deletes nothing
\* while a process of it may be left (removal-quarantine.mjs, cleanup.mjs): for
\* any plan and any number of commands.
THEOREM RemovalIsCaptured == ToolingSpec => []OnlyCapturedIsRemoved
  <1>1. RemovalInv => OnlyCapturedIsRemoved
    BY DEF RemovalInv, MovedOnce, DeletedLast, OnlyCapturedIsRemoved, Proof!OnlyCapturedIsRemoved
  <1> QED BY <1>1, RemovalStarts, RemovalKeeps, PTL DEF ToolingSpec
----------------------------------------------------------------------------
(* The installation of a tool: any number of attempts.                     *)

InstallationSteps ==
  {"idle", "backup", "keep payload", "keep wrapper", "payload", "part", "wrapper", "validate", "discard",
   "undo", "undo wrapper", "restore wrapper", "undo payload", "restore payload", "drop", "lost", "failed"}

BackupStates ==
  [held : [Parts -> Nat], snapshot : SUBSET Parts, handle : {"none", "open", "closed"}]

InstallationTyped ==
  /\ installed \in [Parts -> Nat] /\ found \in [Parts -> Nat] /\ good \in Nat
  /\ backups \in [Installation!Attempts -> BackupStates]
  /\ attempt \in [n : 0 .. MaxAttempts, step : InstallationSteps, valid : BOOLEAN,
                  published : SUBSET Parts, committed : BOOLEAN]
  /\ attempt.step # "idle" => attempt.n # 0

\* Versions are not used again: what a later attempt has is nothing yet.
Unused ==
  /\ good <= Installation!Version
  /\ attempt.step # "idle" => ended = "none" /\ (good = Installation!Version => attempt.committed)
  /\ \A n \in Installation!Attempts : n > attempt.n =>
       backups[n] = [held |-> Installation!Empty, snapshot |-> {}, handle |-> "none"]

\* The published parts, except those that the rollback has taken out again by
\* the time it comes to a step.
Undone(step) ==
  CASE step = "restore wrapper" \/ step = "undo payload" -> {"wrapper"}
    [] step = "restore payload" \/ step = "drop"         -> {"wrapper", "payload"}
    [] OTHER                                             -> {}

Standing == attempt.published \ Undone(attempt.step)

\* What was found at a path is in the backup or, unless the new version
\* stands there, still at the path.
Traceable ==
  \A x \in Parts :
    IF x \in Standing
      THEN installed[x] = Installation!Version /\ Installation!Backup.held[x] = found[x]
      ELSE \/ installed[x] = Installation!None /\ Installation!Backup.held[x] = found[x]
           \/ installed[x] = found[x] /\ Installation!Backup.held[x] = Installation!None

\* How far an attempt that has not committed has come.
Underway ==
  /\ attempt.step \notin {"discard", "failed"}
  /\ attempt.step # "lost" => Traceable /\ Installation!Backup.handle # "closed"
  /\ attempt.step \in {"backup", "keep payload", "keep wrapper"} => attempt.published = {}
  /\ attempt.step \in {"part", "wrapper"} => "payload" \in attempt.published /\ "wrapper" \in Parts
  /\ attempt.step = "validate" => attempt.published = Parts
  /\ attempt.step \in {"undo payload", "restore payload", "drop"} => "wrapper" \notin Installation!Held
  /\ attempt.step = "drop" => Installation!Held = {}

\* Once committed the new version stays, whatever becomes of the backup.
Committed ==
  /\ attempt.step \in {"idle", "discard", "undo", "failed"}
  /\ installed = [x \in Parts |-> Installation!Version] /\ good = Installation!Version

Attempted ==
  /\ attempt.step # "idle" /\ ~ attempt.committed => Underway
  /\ attempt.committed => Committed

InstallationInv ==
  running = "installation" =>
    InstallationTyped /\ Unused /\ Attempted /\ Installation!InstallationIsKept
LEMMA InstallationStarts == ToolingInit => InstallationInv
  <1> SUFFICES ASSUME Installation!Init
               PROVE  InstallationTyped /\ Unused /\ Attempted /\ Installation!InstallationIsKept
    BY DEF ToolingInit, InitInstallation, InstallationInv
  <1> USE DEF Installation!Init, Installation!None, Installation!Empty
  <1>1. attempt.n = 0 /\ attempt.step = "idle" /\ attempt.committed = FALSE
    OBVIOUS
  <1>2. InstallationTyped
    <2>1. MaxAttempts \in Nat /\ "idle" \in InstallationSteps
      BY ToolingAssumption DEF Installation!PartsAssumption, InstallationSteps
    <2>2. attempt \in [n : 0 .. MaxAttempts, step : InstallationSteps, valid : BOOLEAN,
                       published : SUBSET Parts, committed : BOOLEAN]
      BY <2>1
    <2>3. [held |-> Installation!Empty, snapshot |-> {}, handle |-> "none"] \in BackupStates
      BY DEF BackupStates
    <2> QED BY <2>2, <2>3, <1>1 DEF InstallationTyped
  <1>3. Unused
    BY <1>1 DEF Unused, Installation!Version, Installation!Attempts
  <1>4. Attempted
    BY <1>1 DEF Attempted
  <1>5. Installation!InstallationIsKept
    BY DEF Installation!InstallationIsKept, Installation!Kept
  <1> QED BY <1>2, <1>3, <1>4, <1>5

LEMMA BackupTyped ==
  ASSUME InstallationTyped, attempt.step # "idle"
  PROVE  /\ attempt.n \in Installation!Attempts /\ Installation!Version \in Nat \ {0}
         /\ Installation!Backup \in BackupStates
         /\ Installation!Held \subseteq Parts
  BY ToolingAssumption DEF InstallationTyped, Installation!PartsAssumption, Installation!Attempts,
     Installation!Version, Installation!Backup, Installation!Held

\* What a step of an attempt leaves alone: the numbers, and every other backup.
SameAttempt ==
  /\ attempt'.n = attempt.n /\ attempt'.committed = attempt.committed
  /\ good' = good /\ found' = found
  /\ \A m \in Installation!Attempts \ {attempt.n} : backups'[m] = backups[m]

LEMMA UnusedGoesOn ==
  ASSUME InstallationTyped, Unused, attempt.step # "idle", SameAttempt,
         attempt'.step # "idle" => ended' = ended
  PROVE  Unused'
  <1>1. good' <= Installation!Version'
    BY DEF Unused, SameAttempt, Installation!Version
  <1>2. attempt'.step # "idle" => ended' = "none" /\ (good' = Installation!Version' => attempt'.committed)
    BY DEF Unused, SameAttempt, Installation!Version
  <1>3. ASSUME NEW m \in Installation!Attempts, m > attempt'.n
        PROVE  backups'[m] = [held |-> Installation!Empty, snapshot |-> {}, handle |-> "none"]
    <2>1. m > attempt.n /\ m # attempt.n
      BY <1>3, BackupTyped DEF SameAttempt, Installation!Attempts
    <2> QED BY <2>1 DEF Unused, SameAttempt
  <1> QED BY <1>1, <1>2, <1>3 DEF Unused, Installation!Empty, Installation!None

\* No part of the good version is lost when no path and no entry loses one.
LEMMA KeptGoesOn ==
  ASSUME InstallationTyped, Installation!InstallationIsKept, attempt.step # "idle", SameAttempt,
         \A x \in Parts : \/ good = Installation!None
                          \/ good \notin {installed[x], Installation!Backup.held[x]}
                          \/ good \in {installed'[x], (Installation!Backup').held[x]},
         ended' \notin {"failed", "installed"}
  PROVE  Installation!InstallationIsKept'
  <1>1. attempt.n \in Installation!Attempts /\ attempt'.n = attempt.n /\ good' = good
    BY BackupTyped DEF SameAttempt
  <1> SUFFICES ASSUME good # Installation!None, NEW x \in Parts
               PROVE  Installation!Kept(x, good)'
    BY <1>1 DEF Installation!InstallationIsKept, Installation!None
  <1>2. Installation!Kept(x, good)
    BY DEF Installation!InstallationIsKept
  <1>3. CASE good \in {installed[x], Installation!Backup.held[x]}
    BY <1>1, <1>3 DEF Installation!Kept, Installation!Backup
  <1>4. CASE good \notin {installed[x], Installation!Backup.held[x]}
    BY <1>1, <1>2, <1>4 DEF Installation!Kept, Installation!Backup, SameAttempt
  <1> QED BY <1>3, <1>4

LEMMA WithBackup ==
  ASSUME InstallationTyped, attempt.step # "idle", attempt'.n = attempt.n,
         NEW backup \in BackupStates, Installation!With(backup)
  PROVE  /\ backups' \in [Installation!Attempts -> BackupStates] /\ Installation!Backup' = backup
         /\ \A m \in Installation!Attempts \ {attempt.n} : backups'[m] = backups[m]
  BY BackupTyped DEF InstallationTyped, Installation!With, Installation!Backup
\* An attempt that has not committed is underway; where no commit can be, it has not.
LEMMA NotCommitted ==
  ASSUME InstallationTyped, Attempted, attempt.step \notin {"idle", "discard", "undo", "failed"}
  PROVE  attempt.committed = FALSE /\ Underway
  BY DEF InstallationTyped, Attempted, Committed

\* A step of control: neither a path nor the backup changes.
LEMMA ControlGoesOn ==
  ASSUME InstallationTyped, Unused, Installation!InstallationIsKept, attempt.step # "idle",
         NEW step \in InstallationSteps \ {"idle"}, Installation!Goto(step), UNCHANGED <<installed, backups>>
  PROVE  /\ InstallationTyped' /\ Unused' /\ Installation!InstallationIsKept' /\ SameAttempt
         /\ attempt'.step = step /\ attempt'.published = attempt.published /\ attempt'.valid = attempt.valid
         /\ Installation!Backup' = Installation!Backup /\ Installation!Held' = Installation!Held
         /\ Installation!Version' = Installation!Version
  <1>1. /\ attempt' = [attempt EXCEPT !.step = step] /\ UNCHANGED <<found, ended, good>>
    BY DEF Installation!Goto
  <1>2. /\ attempt'.step = step /\ attempt'.published = attempt.published /\ attempt'.n = attempt.n
        /\ attempt'.valid = attempt.valid /\ attempt'.committed = attempt.committed
        /\ attempt' \in [n : 0 .. MaxAttempts, step : InstallationSteps, valid : BOOLEAN,
                         published : SUBSET Parts, committed : BOOLEAN]
    BY <1>1 DEF InstallationTyped
  <1>3. SameAttempt
    BY <1>1, <1>2 DEF SameAttempt
  <1>4. InstallationTyped'
    BY <1>1, <1>2 DEF InstallationTyped
  <1>5. ended' \notin {"failed", "installed"}
    BY <1>1 DEF Unused
  <1>6. Installation!Backup' = Installation!Backup /\ Installation!Version' = Installation!Version
    BY <1>2 DEF Installation!Backup, Installation!Version
  <1>7. Installation!Held' = Installation!Held
    BY <1>6 DEF Installation!Held
  <1>8. Installation!InstallationIsKept'
    BY <1>3, <1>5, <1>6, KeptGoesOn
  <1> QED BY <1>1, <1>2, <1>3, <1>4, <1>6, <1>7, <1>8, UnusedGoesOn

\* A step that moves the entry of x to or from its path, or makes the backup.
LEMMA EntryGoesOn ==
  ASSUME InstallationTyped, Unused, Installation!InstallationIsKept, attempt.step # "idle",
         NEW step \in InstallationSteps \ {"idle"}, Installation!Goto(step),
         installed' \in [Parts -> Nat], NEW backup \in BackupStates, Installation!With(backup),
         \A x \in Parts : \/ good = Installation!None
                          \/ good \notin {installed[x], Installation!Backup.held[x]}
                          \/ good \in {installed'[x], backup.held[x]}
  PROVE  /\ InstallationTyped' /\ Unused' /\ Installation!InstallationIsKept' /\ SameAttempt
         /\ attempt'.step = step /\ attempt'.published = attempt.published /\ attempt'.valid = attempt.valid
         /\ Installation!Backup' = backup /\ Installation!Version' = Installation!Version
         /\ Installation!Held' = {x \in Parts : backup.held[x] # Installation!None}
  <1>1. /\ attempt' = [attempt EXCEPT !.step = step] /\ UNCHANGED <<found, ended, good>>
    BY DEF Installation!Goto
  <1>2. /\ attempt'.step = step /\ attempt'.published = attempt.published /\ attempt'.n = attempt.n
        /\ attempt'.valid = attempt.valid /\ attempt'.committed = attempt.committed
        /\ attempt' \in [n : 0 .. MaxAttempts, step : InstallationSteps, valid : BOOLEAN,
                         published : SUBSET Parts, committed : BOOLEAN]
    BY <1>1 DEF InstallationTyped
  <1>3. /\ backups' \in [Installation!Attempts -> BackupStates] /\ Installation!Backup' = backup
        /\ \A m \in Installation!Attempts \ {attempt.n} : backups'[m] = backups[m]
    BY <1>2, WithBackup
  <1>4. SameAttempt
    BY <1>1, <1>2, <1>3 DEF SameAttempt
  <1>5. InstallationTyped'
    BY <1>1, <1>2, <1>3 DEF InstallationTyped
  <1>6. ended' \notin {"failed", "installed"}
    BY <1>1 DEF Unused
  <1>7. Installation!InstallationIsKept'
    BY <1>3, <1>4, <1>6, KeptGoesOn
  <1>8. Installation!Held' = {x \in Parts : backup.held[x] # Installation!None}
    BY <1>3 DEF Installation!Held
  <1> QED BY <1>1, <1>2, <1>3, <1>4, <1>5, <1>7, <1>8, UnusedGoesOn DEF Installation!Version
\* The new version of x comes to its free path.
LEMMA PublishGoesOn ==
  ASSUME InstallationTyped, Unused, Installation!InstallationIsKept, attempt.step # "idle",
         NEW step \in InstallationSteps \ {"idle"}, NEW x \in Parts, Installation!Published(x, step),
         installed[x] = Installation!None, installed' = [installed EXCEPT ![x] = Installation!Version],
         UNCHANGED backups
  PROVE  /\ InstallationTyped' /\ Unused' /\ Installation!InstallationIsKept' /\ SameAttempt
         /\ attempt'.step = step /\ attempt'.published = attempt.published \cup {x}
         /\ Installation!Backup' = Installation!Backup /\ Installation!Version' = Installation!Version
  <1>1. /\ attempt' = [attempt EXCEPT !.published = @ \cup {x}, !.step = step]
        /\ UNCHANGED <<found, ended, good>>
    BY DEF Installation!Published
  <1>2. /\ attempt'.step = step /\ attempt'.published = attempt.published \cup {x}
        /\ attempt'.n = attempt.n /\ attempt'.committed = attempt.committed
        /\ attempt' \in [n : 0 .. MaxAttempts, step : InstallationSteps, valid : BOOLEAN,
                         published : SUBSET Parts, committed : BOOLEAN]
    BY <1>1 DEF InstallationTyped
  <1>3. SameAttempt
    BY <1>1, <1>2 DEF SameAttempt
  <1>4. InstallationTyped'
    BY <1>1, <1>2, BackupTyped DEF InstallationTyped
  <1>5. ended' \notin {"failed", "installed"}
    BY <1>1 DEF Unused
  <1>6. Installation!Backup' = Installation!Backup /\ Installation!Version' = Installation!Version
    BY <1>2 DEF Installation!Backup, Installation!Version
  <1>7. \A y \in Parts : installed[y] # Installation!None => installed'[y] = installed[y]
    BY DEF InstallationTyped
  <1>8. Installation!InstallationIsKept'
    BY <1>3, <1>5, <1>6, <1>7, KeptGoesOn
  <1> QED BY <1>1, <1>2, <1>3, <1>4, <1>6, <1>8, UnusedGoesOn

\* The end of an attempt, its backup closed or not.
LEMMA EndGoesOn ==
  ASSUME InstallationTyped, Unused, Attempted, Installation!InstallationIsKept, attempt.step # "idle",
         NEW result, Installation!End(result), UNCHANGED installed,
         UNCHANGED backups \/ Installation!With(Installation!Closed),
         result = "failed" => installed = IF attempt.committed THEN [x \in Parts |-> Installation!Version] ELSE found,
         result = "installed" => installed = [x \in Parts |-> Installation!Version]
  PROVE  InstallationTyped' /\ Unused' /\ Attempted' /\ Installation!InstallationIsKept'
  <1>1. /\ attempt' = [attempt EXCEPT !.step = "idle"] /\ ended' = result /\ UNCHANGED <<found, good, installed>>
    BY DEF Installation!End
  <1>2. "idle" \in InstallationSteps
    BY DEF InstallationSteps
  <1>3. /\ attempt'.step = "idle" /\ attempt'.n = attempt.n /\ attempt'.committed = attempt.committed
        /\ attempt' \in [n : 0 .. MaxAttempts, step : InstallationSteps, valid : BOOLEAN,
                         published : SUBSET Parts, committed : BOOLEAN]
    BY <1>1, <1>2 DEF InstallationTyped
  <1>4. Installation!Closed \in BackupStates /\ Installation!Closed.held = Installation!Backup.held
    BY BackupTyped DEF BackupStates, Installation!Closed
  <1>5. /\ backups' \in [Installation!Attempts -> BackupStates]
        /\ (Installation!Backup').held = Installation!Backup.held
        /\ \A m \in Installation!Attempts \ {attempt.n} : backups'[m] = backups[m]
    <2>1. CASE UNCHANGED backups
      BY <1>3, <2>1 DEF InstallationTyped, Installation!Backup
    <2>2. CASE Installation!With(Installation!Closed)
      BY <1>3, <1>4, <2>2, WithBackup
    <2> QED BY <2>1, <2>2
  <1>6. SameAttempt /\ InstallationTyped' /\ Installation!Version' = Installation!Version
    BY <1>1, <1>3, <1>5 DEF SameAttempt, InstallationTyped, Installation!Version
  <1>7. Attempted'
    BY <1>1, <1>3, <1>6 DEF Attempted, Committed
  <1>8. Installation!InstallationIsKept'
    <2>1. ASSUME NEW x \in Parts, good # Installation!None
          PROVE  Installation!Kept(x, good)'
      <3>1. Installation!Kept(x, good)
        BY <2>1 DEF Installation!InstallationIsKept
      <3>2. \A m \in Installation!Attempts : backups'[m].held = backups[m].held
        BY <1>3, <1>5 DEF Installation!Backup
      <3> QED BY <3>1, <3>2, <1>1 DEF Installation!Kept
    <2> QED BY <2>1, <1>1, <1>3, <1>6 DEF Installation!InstallationIsKept, Installation!None
  <1> QED BY <1>3, <1>6, <1>7, <1>8, UnusedGoesOn

LEMMA KeepGoesOn ==
  ASSUME InstallationTyped, Unused, Attempted, Installation!InstallationIsKept,
         attempt.step \in {"keep payload", "keep wrapper"}, NEW x \in Parts,
         NEW next \in {"keep wrapper", "payload"}, Installation!Keep(x, next)
  PROVE  InstallationTyped' /\ Unused' /\ Attempted' /\ Installation!InstallationIsKept'
  <1>0. /\ attempt.committed = FALSE /\ Traceable /\ Installation!Backup.handle # "closed"
        /\ {next, "undo"} \subseteq InstallationSteps \ {"idle"} /\ attempt.step # "idle"
        /\ Standing = {} /\ attempt.published = {}
    BY NotCommitted DEF Underway, InstallationSteps, Standing, Undone
  <1>1. CASE \E step \in {next, "undo"} : Installation!Goto(step) /\ UNCHANGED <<installed, backups>>
    <2>1. PICK step \in {next, "undo"} : Installation!Goto(step) /\ UNCHANGED <<installed, backups>>
      BY <1>1
    <2>2. /\ InstallationTyped' /\ Unused' /\ Installation!InstallationIsKept' /\ SameAttempt
          /\ attempt'.step = step /\ attempt'.published = attempt.published
          /\ Installation!Backup' = Installation!Backup /\ Installation!Version' = Installation!Version
      BY <1>0, <2>1, ControlGoesOn
    <2>3. Standing' = Standing
      BY <1>0, <2>2 DEF Standing, Undone
    <2>4. Traceable'
      BY <1>0, <2>1, <2>2, <2>3 DEF Traceable, SameAttempt, Installation!None
    <2> QED BY <1>0, <2>2, <2>4 DEF Attempted, Underway, SameAttempt
  <1>2. CASE /\ installed[x] # Installation!None /\ installed' = [installed EXCEPT ![x] = Installation!None]
             /\ \E step \in {next, "undo"}, kept \in SUBSET Parts :
                  /\ Installation!Goto(step)
                  /\ Installation!With([Installation!MoveIn(x) EXCEPT !.snapshot = kept])
    <2>1. PICK step \in {next, "undo"}, kept \in SUBSET Parts :
            /\ Installation!Goto(step)
            /\ Installation!With([Installation!MoveIn(x) EXCEPT !.snapshot = kept])
      BY <1>2
    <2> DEFINE backup == [Installation!MoveIn(x) EXCEPT !.snapshot = kept]
    <2>2. /\ backup \in BackupStates /\ backup.handle = Installation!Backup.handle
          /\ backup.held = [Installation!Backup.held EXCEPT ![x] = installed[x]]
      BY <1>0, BackupTyped DEF BackupStates, Installation!MoveIn, InstallationTyped
    <2>3. Installation!Backup.held[x] = Installation!None /\ installed[x] = found[x]
      BY <1>0, <1>2 DEF Traceable
    <2>4. /\ installed' \in [Parts -> Nat] /\ installed'[x] = Installation!None /\ backup.held[x] = found[x]
          /\ \A y \in Parts \ {x} : installed'[y] = installed[y] /\ backup.held[y] = Installation!Backup.held[y]
      BY <1>2, <2>2, <2>3, BackupTyped, <1>0 DEF InstallationTyped, BackupStates, Installation!None
    <2>5. /\ InstallationTyped' /\ Unused' /\ Installation!InstallationIsKept' /\ SameAttempt
          /\ attempt'.step = step /\ attempt'.published = attempt.published
          /\ Installation!Backup' = backup /\ Installation!Version' = Installation!Version
      BY <1>0, <2>1, <2>2, <2>3, <2>4, EntryGoesOn
    <2>6. Standing' = {}
      BY <1>0, <2>5 DEF Standing, Undone
    <2>7. Traceable'
      BY <1>0, <2>3, <2>4, <2>5, <2>6 DEF Traceable, SameAttempt, Installation!None
    <2> QED BY <1>0, <2>2, <2>5, <2>7 DEF Attempted, Underway, SameAttempt
  <1>3. /\ Installation!MoveIn(x) = [Installation!MoveIn(x) EXCEPT !.snapshot = Installation!MoveIn(x).snapshot]
        /\ Installation!MoveIn(x).snapshot \in SUBSET Parts
    BY <1>0, BackupTyped DEF BackupStates, Installation!MoveIn
  <1> QED BY <1>1, <1>2, <1>3 DEF Installation!Keep, Installation!Fail
LEMMA RestoreGoesOn ==
  ASSUME InstallationTyped, Unused, Attempted, Installation!InstallationIsKept, NEW x, NEW next,
         \/ attempt.step = "restore wrapper" /\ x = "wrapper" /\ next = "undo payload"
         \/ attempt.step = "restore payload" /\ x = "payload" /\ next = "drop",
         Installation!Restore(x, next)
  PROVE  InstallationTyped' /\ Unused' /\ Attempted' /\ Installation!InstallationIsKept'
  <1>0. /\ attempt.committed = FALSE /\ Traceable /\ Installation!Backup.handle # "closed"
        /\ {next, "lost"} \subseteq InstallationSteps \ {"idle"} /\ attempt.step # "idle"
        /\ attempt.step = "restore payload" => "wrapper" \notin Installation!Held
        /\ x \notin Standing /\ Parts \subseteq {"payload", "wrapper"}
    BY NotCommitted, ToolingAssumption DEF Underway, InstallationSteps, Standing, Undone, Installation!PartsAssumption
  <1>1. CASE /\ UNCHANGED <<installed, backups>>
             /\ \/ Installation!Goto("lost")
                \/ Installation!Goto(next) /\ x \notin Installation!Held
    <2>1. PICK step \in {next, "lost"} : Installation!Goto(step) /\ (step = next => x \notin Installation!Held)
      BY <1>0, <1>1 DEF InstallationSteps
    <2>2. /\ InstallationTyped' /\ Unused' /\ Installation!InstallationIsKept' /\ SameAttempt
          /\ attempt'.step = step /\ attempt'.published = attempt.published
          /\ Installation!Backup' = Installation!Backup /\ Installation!Version' = Installation!Version
          /\ Installation!Held' = Installation!Held
      BY <1>0, <1>1, <2>1, ControlGoesOn
    <2>3. CASE step = "lost"
      BY <1>0, <2>2, <2>3 DEF Attempted, Underway, SameAttempt
    <2>4. CASE step = next
      <3>1. Standing' = Standing
        BY <1>0, <2>2, <2>4 DEF Standing, Undone
      <3>2. Traceable'
        BY <1>0, <1>1, <2>2, <3>1 DEF Traceable, SameAttempt, Installation!None
      <3>3. x \notin Installation!Held /\ (next = "drop" => Installation!Held = {})
        BY <1>0, <2>1, <2>4 DEF Installation!Held
      <3> QED BY <1>0, <2>2, <2>4, <3>2, <3>3 DEF Attempted, Underway, SameAttempt
    <2> QED BY <2>1, <2>3, <2>4
  <1>2. CASE /\ x \in Installation!Held /\ installed[x] = Installation!None
             /\ installed' = [installed EXCEPT ![x] = Installation!Backup.held[x]]
             /\ \E step \in {next, "lost"}, kept \in SUBSET Parts :
                  /\ Installation!Goto(step)
                  /\ Installation!With([Installation!MoveOut(x) EXCEPT !.snapshot = kept])
    <2>1. PICK step \in {next, "lost"}, kept \in SUBSET Parts :
            /\ Installation!Goto(step)
            /\ Installation!With([Installation!MoveOut(x) EXCEPT !.snapshot = kept])
      BY <1>2
    <2> DEFINE backup == [Installation!MoveOut(x) EXCEPT !.snapshot = kept]
    <2>2. /\ backup \in BackupStates /\ backup.handle = Installation!Backup.handle
          /\ backup.held = [Installation!Backup.held EXCEPT ![x] = Installation!None]
      BY <1>0, BackupTyped DEF BackupStates, Installation!MoveOut, Installation!None
    <2>3. x \in Parts /\ Installation!Backup.held[x] = found[x]
      BY <1>0, <1>2 DEF Traceable, Installation!Held, Installation!None
    <2>4. /\ installed' \in [Parts -> Nat] /\ installed'[x] = found[x] /\ backup.held[x] = Installation!None
          /\ \A y \in Parts \ {x} : installed'[y] = installed[y] /\ backup.held[y] = Installation!Backup.held[y]
      <3>1. installed \in [Parts -> Nat] /\ found[x] \in Nat /\ Installation!Backup.held \in [Parts -> Nat]
        BY <1>0, <2>3, BackupTyped DEF InstallationTyped, BackupStates
      <3> QED BY <1>2, <2>2, <2>3, <3>1
    <2>8. \A y \in Parts : \/ good = Installation!None
                           \/ good \notin {installed[y], Installation!Backup.held[y]}
                           \/ good \in {installed'[y], backup.held[y]}
      BY <1>2, <2>3, <2>4
    <2>5. /\ InstallationTyped' /\ Unused' /\ Installation!InstallationIsKept' /\ SameAttempt
          /\ attempt'.step = step /\ attempt'.published = attempt.published
          /\ Installation!Backup' = backup /\ Installation!Version' = Installation!Version
          /\ Installation!Held' = {y \in Parts : backup.held[y] # Installation!None}
      BY <1>0, <2>1, <2>2, <2>4, <2>8, EntryGoesOn
    <2>6. CASE step = "lost"
      BY <1>0, <2>5, <2>6 DEF Attempted, Underway, SameAttempt
    <2>7. CASE step = next
      <3>1. Standing' = Standing
        BY <1>0, <2>5, <2>7 DEF Standing, Undone
      <3>2. Traceable'
        <4>1. ASSUME NEW y \in Parts \ {x}
              PROVE  /\ installed'[y] = installed[y] /\ (Installation!Backup').held[y] = Installation!Backup.held[y]
                     /\ found'[y] = found[y]
          BY <2>4, <2>5 DEF SameAttempt
        <4>2. installed'[x] = found'[x] /\ (Installation!Backup').held[x] = Installation!None /\ x \notin Standing'
          BY <1>0, <2>4, <2>5, <3>1 DEF SameAttempt
        <4>3. ASSUME NEW y \in Parts \ {x}
              PROVE  IF y \in Standing'
                       THEN installed'[y] = Installation!Version' /\ (Installation!Backup').held[y] = found'[y]
                       ELSE \/ installed'[y] = Installation!None /\ (Installation!Backup').held[y] = found'[y]
                            \/ installed'[y] = found'[y] /\ (Installation!Backup').held[y] = Installation!None
          <5>1. IF y \in Standing
                  THEN installed[y] = Installation!Version /\ Installation!Backup.held[y] = found[y]
                  ELSE \/ installed[y] = Installation!None /\ Installation!Backup.held[y] = found[y]
                       \/ installed[y] = found[y] /\ Installation!Backup.held[y] = Installation!None
            BY <1>0 DEF Traceable
          <5> QED BY <2>5, <3>1, <4>1, <5>1
        <4> QED BY <4>2, <4>3 DEF Traceable, Installation!None
      <3>3. x \notin Installation!Held' /\ (next = "drop" => Installation!Held' = {})
        <4>1. next = "drop" => \A y \in Parts \ {x} : Installation!Backup.held[y] = Installation!None
          BY <1>0 DEF Installation!Held
        <4> QED BY <2>4, <2>5, <4>1
      <3> QED BY <1>0, <2>2, <2>5, <2>7, <3>2, <3>3 DEF Attempted, Underway, SameAttempt
    <2> QED BY <2>1, <2>6, <2>7
  <1>3. /\ Installation!MoveOut(x) = [Installation!MoveOut(x) EXCEPT !.snapshot = Installation!MoveOut(x).snapshot]
        /\ Installation!MoveOut(x).snapshot \in SUBSET Parts
    BY <1>0, BackupTyped DEF BackupStates, Installation!MoveOut
  <1>4. Installation!MoveOut(x).snapshot \ {x} \in SUBSET Parts
    BY <1>3
  <1> QED BY <1>1, <1>2, <1>3, <1>4 DEF Installation!Restore, Installation!FailUndo

\* The deletion of the backup, once there is nothing left to lose.
LEMMA DiscardGoesOn ==
  ASSUME InstallationTyped, Unused, Attempted, Installation!InstallationIsKept,
         Installation!DiscardBackup \/ Installation!DropBackup
  PROVE  InstallationTyped' /\ Unused' /\ Attempted' /\ Installation!InstallationIsKept'
  <1> USE DEF Installation!At
  <1>1. CASE Installation!DiscardBackup
    <2>0. /\ attempt.step = "discard" /\ attempt.committed /\ attempt.step # "idle"
          /\ installed = [x \in Parts |-> Installation!Version] /\ good = Installation!Version
          /\ {"discard", "undo"} \subseteq InstallationSteps \ {"idle"} /\ installed \in [Parts -> Nat]
          /\ UNCHANGED installed
      BY <1>1 DEF Installation!DiscardBackup, Installation!Discard, Attempted, Underway, Committed,
                  InstallationSteps, InstallationTyped
    <2>1. ASSUME NEW step \in {"discard", "undo"}, Installation!Goto(step),
                 NEW backup \in BackupStates, Installation!With(backup)
          PROVE  InstallationTyped' /\ Unused' /\ Attempted' /\ Installation!InstallationIsKept'
      <3>1. /\ InstallationTyped' /\ Unused' /\ Installation!InstallationIsKept' /\ SameAttempt
            /\ attempt'.step = step /\ Installation!Version' = Installation!Version
        BY <2>0, <2>1, EntryGoesOn
      <3> QED BY <2>0, <3>1 DEF Attempted, Committed, SameAttempt
    <2>2. CASE /\ UNCHANGED backups \/ Installation!With(Installation!Closed)
               /\ Installation!End("installed")
      BY <2>0, <2>2, EndGoesOn
    <2>3. Installation!Closed \in BackupStates
      BY <2>0, BackupTyped DEF BackupStates, Installation!Closed
    <2>4. ASSUME NEW x \in Installation!Held
          PROVE  [Installation!MoveOut(x) EXCEPT !.snapshot = @ \ {x}] \in BackupStates
      BY <2>0, BackupTyped DEF BackupStates, Installation!MoveOut, Installation!None
    <2> QED BY <1>1, <2>1, <2>2, <2>3, <2>4 DEF Installation!DiscardBackup, Installation!Discard, Installation!Fail
  <1>2. CASE Installation!DropBackup
    <2>0. /\ attempt.step = "drop" /\ attempt.committed = FALSE /\ attempt.step # "idle" /\ Traceable
          /\ Installation!Held = {} /\ "lost" \in InstallationSteps \ {"idle"} /\ UNCHANGED installed
      BY <1>2, NotCommitted DEF Installation!DropBackup, Installation!Discard, Underway, InstallationSteps
    <2>1. installed = found
      <3>1. Standing = {}
        BY <2>0, ToolingAssumption DEF Standing, Undone, Installation!PartsAssumption, InstallationTyped
      <3>2. ASSUME NEW x \in Parts PROVE installed[x] = found[x]
        BY <2>0, <3>1 DEF Traceable, Installation!Held, Installation!None
      <3> QED BY <3>2 DEF InstallationTyped
    <2>2. CASE /\ UNCHANGED backups \/ Installation!With(Installation!Closed)
               /\ Installation!End("failed")
      BY <2>0, <2>1, <2>2, EndGoesOn
    <2>3. CASE Installation!With(Installation!Closed) /\ Installation!Goto("lost")
      <3>1. Installation!Closed \in BackupStates /\ Installation!Closed.held = Installation!Backup.held
        BY <2>0, BackupTyped DEF BackupStates, Installation!Closed
      <3>2. /\ InstallationTyped' /\ Unused' /\ Installation!InstallationIsKept' /\ SameAttempt
            /\ attempt'.step = "lost"
        BY <2>0, <2>3, <3>1, EntryGoesOn DEF InstallationTyped
      <3> QED BY <2>0, <3>2 DEF Attempted, Underway, SameAttempt
    <2> QED BY <1>2, <2>0, <2>2, <2>3 DEF Installation!DropBackup, Installation!Discard, Installation!FailUndo
  <1> QED BY <1>1, <1>2
\* A step of control in an attempt that has not committed, and does not decide
\* where the rollback has come to.
LEMMA ForwardGoesOn ==
  ASSUME InstallationTyped, Unused, Attempted, Installation!InstallationIsKept,
         attempt.step \notin {"idle", "discard", "failed", "lost"}, attempt.committed = FALSE,
         NEW step \in InstallationSteps \ {"idle", "discard", "failed"},
         Installation!Goto(step), UNCHANGED <<installed, backups>>,
         step # "lost" => attempt.published \ Undone(step) = Standing,
         step \in {"keep payload", "keep wrapper"} => attempt.published = {},
         step # "backup",
         step \in {"part", "wrapper"} => "payload" \in attempt.published /\ "wrapper" \in Parts,
         step = "validate" => attempt.published = Parts,
         step \in {"undo payload", "restore payload", "drop"} => "wrapper" \notin Installation!Held,
         step = "drop" => Installation!Held = {}
  PROVE  InstallationTyped' /\ Unused' /\ Attempted' /\ Installation!InstallationIsKept'
  <1>1. Underway
    BY DEF Attempted
  <1>2. /\ InstallationTyped' /\ Unused' /\ Installation!InstallationIsKept' /\ SameAttempt
        /\ attempt'.step = step /\ attempt'.published = attempt.published
        /\ Installation!Backup' = Installation!Backup /\ Installation!Held' = Installation!Held
        /\ Installation!Version' = Installation!Version
    BY ControlGoesOn
  <1>3. step # "lost" => Standing' = Standing
    BY <1>2 DEF Standing
  <1>4. step # "lost" => Traceable' /\ (Installation!Backup').handle # "closed"
    BY <1>1, <1>2, <1>3 DEF Underway, Traceable, SameAttempt, Installation!None
  <1> QED BY <1>2, <1>4 DEF Attempted, Underway, SameAttempt

\* The publication of one part, or its failure after the rename.
LEMMA PartGoesOn ==
  ASSUME InstallationTyped, Unused, Attempted, Installation!InstallationIsKept, NEW x \in Parts, NEW step,
         \/ attempt.step = "payload" /\ x = "payload"
         \/ attempt.step = "wrapper" /\ x = "wrapper",
         \/ step = "part" /\ x = "payload" /\ "wrapper" \in Parts
         \/ step = "validate" /\ attempt.published \cup {x} = Parts
         \/ step = "undo",
         Installation!Published(x, step),
         installed[x] = Installation!None, installed' = [installed EXCEPT ![x] = Installation!Version],
         UNCHANGED backups
  PROVE  InstallationTyped' /\ Unused' /\ Attempted' /\ Installation!InstallationIsKept'
  <1>1. /\ attempt.committed = FALSE /\ Traceable /\ Installation!Backup.handle # "closed" /\ attempt.step # "idle"
        /\ step \in InstallationSteps \ {"idle"} /\ Standing = attempt.published
    BY NotCommitted DEF Underway, InstallationSteps, Standing, Undone
  <1>2. /\ InstallationTyped' /\ Unused' /\ Installation!InstallationIsKept' /\ SameAttempt
        /\ attempt'.step = step /\ attempt'.published = attempt.published \cup {x}
        /\ Installation!Backup' = Installation!Backup /\ Installation!Version' = Installation!Version
    BY <1>1, PublishGoesOn
  <1>3. Standing' = Standing \cup {x}
    BY <1>1, <1>2 DEF Standing, Undone
  <1>4. /\ installed'[x] = Installation!Version /\ Installation!Backup.held[x] = found[x]
        /\ \A y \in Parts \ {x} : installed'[y] = installed[y]
    BY <1>1, BackupTyped DEF InstallationTyped, Traceable, Installation!None
  <1>5. Traceable'
    BY <1>1, <1>2, <1>3, <1>4 DEF Traceable, SameAttempt, Installation!None
  <1> QED BY <1>1, <1>2, <1>5 DEF Attempted, Underway, SameAttempt

\* The rollback takes the new version of x away again.
LEMMA RemoveGoesOn ==
  ASSUME InstallationTyped, Unused, Attempted, Installation!InstallationIsKept, NEW x \in attempt.published, NEW step,
         \/ attempt.step = "undo wrapper" /\ x = "wrapper" /\ step = "restore wrapper"
         \/ attempt.step = "undo payload" /\ x = "payload" /\ step \in {"restore payload", "lost"},
         Installation!Goto(step),
         installed' = [installed EXCEPT ![x] = Installation!None], UNCHANGED backups
  PROVE  InstallationTyped' /\ Unused' /\ Attempted' /\ Installation!InstallationIsKept'
  <1>1. /\ attempt.committed = FALSE /\ Underway /\ Traceable /\ Installation!Backup.handle # "closed"
        /\ attempt.step # "idle" /\ step \in InstallationSteps \ {"idle"} /\ x \in Parts /\ x \in Standing
    BY NotCommitted DEF Underway, InstallationSteps, InstallationTyped, Standing, Undone
  <1>2. /\ Installation!Backup \in BackupStates /\ Installation!With(Installation!Backup)
        /\ good # Installation!Version
    BY <1>1, BackupTyped DEF Installation!With, Installation!Backup, InstallationTyped, Unused
  <1>3. /\ installed' \in [Parts -> Nat] /\ installed'[x] = Installation!None
        /\ installed[x] = Installation!Version /\ Installation!Backup.held[x] = found[x]
        /\ \A y \in Parts \ {x} : installed'[y] = installed[y]
    BY <1>1 DEF InstallationTyped, Traceable, Installation!None
  <1>4. \A y \in Parts : \/ good = Installation!None
                         \/ good \notin {installed[y], Installation!Backup.held[y]}
                         \/ good \in {installed'[y], Installation!Backup.held[y]}
    BY <1>2, <1>3
  <1>5. /\ InstallationTyped' /\ Unused' /\ Installation!InstallationIsKept' /\ SameAttempt
        /\ attempt'.step = step /\ attempt'.published = attempt.published
        /\ Installation!Backup' = Installation!Backup /\ Installation!Version' = Installation!Version
        /\ Installation!Held' = {y \in Parts : Installation!Backup.held[y] # Installation!None}
    BY <1>1, <1>2, <1>3, <1>4, EntryGoesOn
  <1>6. CASE step = "lost"
    BY <1>1, <1>5, <1>6 DEF Attempted, Underway, SameAttempt
  <1>7. CASE step # "lost"
    <2>1. Standing' = Standing \ {x}
      BY <1>1, <1>5, <1>7 DEF Standing, Undone
    <2>2. Traceable'
      BY <1>1, <1>3, <1>5, <2>1 DEF Traceable, SameAttempt, Installation!None
    <2>3. Installation!Held' = Installation!Held
      BY <1>5 DEF Installation!Held
    <2> QED BY <1>1, <1>5, <1>7, <2>2, <2>3 DEF Attempted, Underway, SameAttempt
  <1> QED BY <1>6, <1>7
LEMMA BeginGoesOn ==
  ASSUME InstallationTyped, Unused, Installation!InstallationIsKept, Installation!Begin
  PROVE  InstallationTyped' /\ Unused' /\ Attempted' /\ Installation!InstallationIsKept'
  <1>1. PICK valid \in BOOLEAN :
          attempt' = [n |-> attempt.n + 1, step |-> "backup", valid |-> valid, published |-> {}, committed |-> FALSE]
    BY DEF Installation!Begin
  <1>2. /\ attempt.step = "idle" /\ attempt.n \in 0 .. MaxAttempts /\ attempt.n < MaxAttempts
        /\ found' = installed /\ staged' = TRUE /\ ended' = "none"
        /\ UNCHANGED <<installed, leftover, backups, good>> /\ MaxAttempts \in Nat
    BY ToolingAssumption DEF Installation!Begin, Installation!At, InstallationTyped, Installation!PartsAssumption
  <1>3. InstallationTyped'
    <2>1. "backup" \in InstallationSteps /\ attempt.n + 1 \in 0 .. MaxAttempts
      BY <1>2 DEF InstallationSteps
    <2>2. attempt' \in [n : 0 .. MaxAttempts, step : InstallationSteps, valid : BOOLEAN,
                        published : SUBSET Parts, committed : BOOLEAN]
      BY <1>1, <2>1
    <2> QED BY <1>1, <1>2, <2>2 DEF InstallationTyped
  <1>4. Unused'
    BY <1>1, <1>2 DEF InstallationTyped, Unused, Installation!Version, Installation!Attempts,
                      Installation!Empty, Installation!None
  <1>5. Attempted'
    <2>1. attempt'.n \in Installation!Attempts /\ attempt'.n > attempt.n
      BY <1>1, <1>2 DEF Installation!Attempts
    <2>2. Installation!Backup' = [held |-> Installation!Empty, snapshot |-> {}, handle |-> "none"]
      BY <1>2, <2>1 DEF Unused, Installation!Backup
    <2>3. \A x \in Parts : (Installation!Backup').held[x] = Installation!None
      BY <2>2 DEF Installation!Empty
    <2>4. Standing' = {}
      BY <1>1 DEF Standing, Undone
    <2>5. Traceable'
      BY <1>2, <2>3, <2>4 DEF Traceable, Installation!None
    <2> QED BY <1>1, <2>2, <2>5 DEF Attempted, Underway
  <1>6. Installation!InstallationIsKept'
    BY <1>1, <1>2 DEF Installation!InstallationIsKept, Installation!Kept, Installation!None
  <1> QED BY <1>3, <1>4, <1>5, <1>6

\* The commit, and what leads from it to the end when the backup cannot be deleted.
LEMMA CommitGoesOn ==
  ASSUME InstallationTyped, Unused, Attempted, Installation!InstallationIsKept, Installation!At("validate"),
         UNCHANGED <<installed, backups, found, ended>>, good' = Installation!Version,
         attempt' = [attempt EXCEPT !.committed = TRUE, !.step = "discard"]
  PROVE  InstallationTyped' /\ Unused' /\ Attempted' /\ Installation!InstallationIsKept'
  <1>1. /\ attempt.step = "validate" /\ Traceable /\ attempt.published = Parts
        /\ "discard" \in InstallationSteps
    BY NotCommitted DEF Installation!At, Underway, InstallationSteps
  <1>2. /\ attempt'.step = "discard" /\ attempt'.committed = TRUE /\ attempt'.n = attempt.n
        /\ attempt' \in [n : 0 .. MaxAttempts, step : InstallationSteps, valid : BOOLEAN,
                         published : SUBSET Parts, committed : BOOLEAN]
    BY <1>1 DEF InstallationTyped
  <1>3. Installation!Version \in Nat \ {0} /\ Installation!Version' = Installation!Version
    BY <1>1, <1>2, BackupTyped DEF Installation!Version
  <1>4. installed = [x \in Parts |-> Installation!Version]
    <2>1. Standing = Parts
      BY <1>1 DEF Standing, Undone
    <2>2. \A x \in Parts : installed[x] = Installation!Version
      BY <1>1, <2>1 DEF Traceable
    <2> QED BY <2>2 DEF InstallationTyped
  <1>5. InstallationTyped'
    BY <1>1, <1>2, <1>3 DEF InstallationTyped
  <1>6. Unused'
    BY <1>1, <1>2, <1>3 DEF Unused, InstallationTyped, Installation!Empty, Installation!None
  <1>7. Attempted'
    BY <1>2, <1>3, <1>4 DEF Attempted, Committed
  <1>8. Installation!InstallationIsKept'
    BY <1>1, <1>2, <1>3, <1>4 DEF Installation!InstallationIsKept, Installation!Kept, Unused
  <1> QED BY <1>5, <1>6, <1>7, <1>8

LEMMA InstallationGoesOn ==
  ASSUME InstallationTyped, Unused, Attempted, Installation!InstallationIsKept, Installation!Next
  PROVE  InstallationTyped' /\ Unused' /\ Attempted' /\ Installation!InstallationIsKept'
  <1> USE DEF Installation!At, Installation!Fail, Installation!FailUndo
  <1>0. "payload" \in Parts /\ Parts \subseteq {"payload", "wrapper"}
    BY ToolingAssumption DEF Installation!PartsAssumption
  <1>1. CASE Installation!Begin
    BY <1>1, BeginGoesOn
  <1>2. CASE Installation!MakeBackup
    <2>1. /\ attempt.step = "backup" /\ attempt.published = {} /\ attempt.committed = FALSE
          /\ UNCHANGED installed /\ Traceable /\ Installation!Backup.handle # "closed"
          /\ {"payload", "undo", "keep payload"} \subseteq InstallationSteps \ {"idle", "discard", "failed"}
      BY <1>2, NotCommitted DEF Installation!MakeBackup, Underway, InstallationSteps
    <2>2. CASE \E step \in {"payload", "undo"} : Installation!Goto(step) /\ UNCHANGED backups
      <3>1. \A step \in {"payload", "undo"} : attempt.published \ Undone(step) = Standing
        BY <2>1 DEF Standing, Undone
      <3> QED BY <2>1, <2>2, <3>1, ForwardGoesOn
    <2>3. CASE Installation!Goto("keep payload") /\ Installation!With([Installation!Backup EXCEPT !.handle = "open"])
      <3> DEFINE backup == [Installation!Backup EXCEPT !.handle = "open"]
      <3>1. backup \in BackupStates /\ backup.handle = "open" /\ backup.held = Installation!Backup.held
        BY <2>1, BackupTyped DEF BackupStates
      <3>2. /\ InstallationTyped' /\ Unused' /\ Installation!InstallationIsKept' /\ SameAttempt
            /\ attempt'.step = "keep payload" /\ attempt'.published = attempt.published
            /\ Installation!Backup' = backup /\ Installation!Version' = Installation!Version
        BY <2>1, <2>3, <3>1, EntryGoesOn DEF InstallationTyped
      <3>3. Standing' = Standing
        BY <2>1, <3>2 DEF Standing, Undone
      <3>4. Traceable'
        BY <2>1, <3>1, <3>2, <3>3 DEF Traceable, SameAttempt, Installation!None
      <3> QED BY <2>1, <3>1, <3>2, <3>4 DEF Attempted, Underway, SameAttempt
    <2> QED BY <1>2, <2>2, <2>3 DEF Installation!MakeBackup
  <1>3. CASE Installation!KeepPayload
    BY <1>0, <1>3, KeepGoesOn DEF Installation!KeepPayload
  <1>4. CASE Installation!KeepWrapper
    <2>1. CASE "wrapper" \in Parts
      BY <1>4, <2>1, KeepGoesOn DEF Installation!KeepWrapper
    <2>2. CASE "wrapper" \notin Parts
      <3>1. /\ attempt.step = "keep wrapper" /\ attempt.committed = FALSE
            /\ Installation!Goto("payload") /\ UNCHANGED <<installed, backups>>
            /\ "payload" \in InstallationSteps \ {"idle", "discard", "failed"}
        BY <1>4, <2>2, NotCommitted DEF Installation!KeepWrapper, InstallationSteps
      <3>2. attempt.published \ Undone("payload") = Standing
        BY <3>1 DEF Standing, Undone
      <3> QED BY <3>1, <3>2, ForwardGoesOn
    <2> QED BY <2>1, <2>2
  <1>5. CASE Installation!PublishPayload
    <2>1. attempt.step = "payload" /\ attempt.committed = FALSE /\ UNCHANGED backups
          /\ "undo" \in InstallationSteps \ {"idle", "discard", "failed"}
          /\ Standing = attempt.published \ Undone("undo")
      BY <1>5, NotCommitted DEF Installation!PublishPayload, InstallationSteps, Standing, Undone
    <2>2. CASE Installation!Goto("undo") /\ UNCHANGED installed
      BY <2>1, <2>2, ForwardGoesOn
    <2>3. CASE /\ installed["payload"] = Installation!None
               /\ installed' = [installed EXCEPT !["payload"] = Installation!Version]
               /\ \E step \in {IF "wrapper" \in Parts THEN "part" ELSE "validate", "undo"} :
                    Installation!Published("payload", step)
      <3>1. PICK step \in {IF "wrapper" \in Parts THEN "part" ELSE "validate", "undo"} :
              Installation!Published("payload", step)
        BY <2>3
      <3>2. \/ step = "part" /\ "wrapper" \in Parts
            \/ step = "validate" /\ attempt.published \cup {"payload"} = Parts
            \/ step = "undo"
        BY <1>0, <3>1 DEF InstallationTyped
      <3> QED BY <1>0, <2>1, <2>3, <3>1, <3>2, PartGoesOn
    <2> QED BY <1>5, <2>2, <2>3 DEF Installation!PublishPayload
  <1>6. CASE Installation!WritePart
    <2>1. /\ attempt.step = "part" /\ attempt.committed = FALSE /\ UNCHANGED <<installed, backups>>
          /\ "payload" \in attempt.published /\ "wrapper" \in Parts
          /\ {"wrapper", "undo"} \subseteq InstallationSteps \ {"idle", "discard", "failed"}
      BY <1>6, NotCommitted DEF Installation!WritePart, Underway, InstallationSteps
    <2>2. PICK step \in {"wrapper", "undo"} : Installation!Goto(step)
      BY <1>6 DEF Installation!WritePart
    <2>3. Standing = attempt.published \ Undone(step)
      BY <2>1 DEF Standing, Undone
    <2> QED BY <2>1, <2>2, <2>3, ForwardGoesOn
  <1>7. CASE Installation!PublishWrapper
    <2>1. /\ attempt.step = "wrapper" /\ attempt.committed = FALSE /\ UNCHANGED backups
          /\ "payload" \in attempt.published /\ "wrapper" \in Parts
          /\ "undo" \in InstallationSteps \ {"idle", "discard", "failed"}
          /\ Standing = attempt.published \ Undone("undo")
      BY <1>7, NotCommitted DEF Installation!PublishWrapper, Underway, InstallationSteps, Standing, Undone
    <2>2. CASE Installation!Goto("undo") /\ UNCHANGED installed
      BY <2>1, <2>2, ForwardGoesOn
    <2>3. CASE /\ installed["wrapper"] = Installation!None
               /\ installed' = [installed EXCEPT !["wrapper"] = Installation!Version]
               /\ \E step \in {"validate", "undo"} : Installation!Published("wrapper", step)
      <3>1. PICK step \in {"validate", "undo"} : Installation!Published("wrapper", step)
        BY <2>3
      <3>2. attempt.published \cup {"wrapper"} = Parts
        BY <1>0, <2>1 DEF InstallationTyped
      <3> QED BY <2>1, <2>3, <3>1, <3>2, PartGoesOn
    <2> QED BY <1>7, <2>2, <2>3 DEF Installation!PublishWrapper
  <1>8. CASE Installation!Validate
    <2>1. /\ attempt.step = "validate" /\ attempt.committed = FALSE /\ UNCHANGED <<installed, backups>>
          /\ "undo" \in InstallationSteps \ {"idle", "discard", "failed"}
          /\ Standing = attempt.published \ Undone("undo")
      BY <1>8, NotCommitted DEF Installation!Validate, InstallationSteps, Standing, Undone
    <2>2. CASE Installation!Goto("undo")
      BY <2>1, <2>2, ForwardGoesOn
    <2> QED BY <1>8, <2>1, <2>2, CommitGoesOn DEF Installation!Validate
  <1>9. CASE Installation!DiscardBackup \/ Installation!DropBackup
    BY <1>9, DiscardGoesOn
  <1>10. CASE Installation!Undo
    <2>1. /\ attempt.step = "undo" /\ attempt.step # "idle" /\ UNCHANGED <<installed, backups>>
          /\ {"failed", "undo wrapper", "lost"} \subseteq InstallationSteps \ {"idle"}
      BY <1>10 DEF Installation!Undo, InstallationSteps
    <2>2. CASE attempt.committed
      <3>1. Installation!Goto("failed")
        BY <1>10, <2>2 DEF Installation!Undo
      <3>2. /\ InstallationTyped' /\ Unused' /\ Installation!InstallationIsKept' /\ SameAttempt
            /\ attempt'.step = "failed" /\ Installation!Version' = Installation!Version
        BY <2>1, <3>1, ControlGoesOn
      <3> QED BY <2>1, <2>2, <3>2 DEF Attempted, Committed, SameAttempt
    <2>3. CASE ~ attempt.committed
      <3>1. attempt.committed = FALSE /\ Installation!Backup.handle # "closed"
        BY <2>1, <2>3 DEF Attempted, Underway, InstallationTyped
      <3>2. PICK step \in {"undo wrapper", "lost"} : Installation!Goto(step)
        BY <1>10, <3>1 DEF Installation!Undo
      <3>3. step # "lost" => attempt.published \ Undone(step) = Standing
        BY <2>1 DEF Standing, Undone
      <3> QED BY <2>1, <3>1, <3>2, <3>3, ForwardGoesOn
    <2> QED BY <2>2, <2>3
  <1>11. CASE Installation!UndoWrapper
    <2>1. /\ attempt.step = "undo wrapper" /\ attempt.committed = FALSE /\ UNCHANGED backups
          /\ {"restore wrapper", "lost"} \subseteq InstallationSteps \ {"idle", "discard", "failed"}
      BY <1>11, NotCommitted DEF Installation!UndoWrapper, InstallationSteps
    <2>2. CASE /\ "wrapper" \in attempt.published /\ Installation!Goto("restore wrapper")
               /\ installed' = [installed EXCEPT !["wrapper"] = Installation!None]
      BY <2>1, <2>2, RemoveGoesOn
    <2>3. CASE /\ UNCHANGED installed
               /\ \/ Installation!Goto("lost")
                  \/ Installation!Goto("restore wrapper") /\ "wrapper" \notin attempt.published
      <3>1. "wrapper" \notin attempt.published => attempt.published \ Undone("restore wrapper") = Standing
        BY <2>1 DEF Standing, Undone
      <3> QED BY <2>1, <2>3, <3>1, ForwardGoesOn
    <2> QED BY <1>11, <2>2, <2>3 DEF Installation!UndoWrapper
  <1>14. CASE Installation!UndoPayload
    <2>1. /\ attempt.step = "undo payload" /\ attempt.committed = FALSE /\ UNCHANGED backups
          /\ "wrapper" \notin Installation!Held
          /\ {"restore payload", "lost"} \subseteq InstallationSteps \ {"idle", "discard", "failed"}
      BY <1>14, NotCommitted DEF Installation!UndoPayload, Underway, InstallationSteps
    <2>2. CASE /\ "payload" \in attempt.published
               /\ Installation!Goto("restore payload") \/ Installation!Goto("lost")
               /\ installed' = [installed EXCEPT !["payload"] = Installation!None]
      BY <2>1, <2>2, RemoveGoesOn
    <2>3. CASE /\ UNCHANGED installed
               /\ \/ Installation!Goto("lost")
                  \/ Installation!Goto("restore payload") /\ "payload" \notin attempt.published
      <3>1. "payload" \notin attempt.published => attempt.published \ Undone("restore payload") = Standing
        BY <2>1 DEF Standing, Undone
      <3> QED BY <2>1, <2>3, <3>1, ForwardGoesOn
    <2> QED BY <1>14, <2>2, <2>3 DEF Installation!UndoPayload
  <1>12. CASE Installation!RestoreWrapper \/ Installation!RestorePayload
    BY <1>12, RestoreGoesOn DEF Installation!RestoreWrapper, Installation!RestorePayload
  <1>13. CASE Installation!Finish \/ Installation!Kill
    <2>1. PICK result \in {"rollback failed", "failed", "killed"} :
            /\ Installation!End(result) /\ Installation!With(Installation!Closed)
            /\ UNCHANGED installed /\ attempt.step # "idle"
            /\ result = "failed" => attempt.step = "failed"
      BY <1>13 DEF Installation!Finish, Installation!Kill
    <2>2. result = "failed" => attempt.committed /\ Committed
      BY <2>1 DEF Attempted, Underway
    <2>3. result = "failed" => installed = [x \in Parts |-> Installation!Version]
      BY <2>2 DEF Committed
    <2> QED BY <2>1, <2>2, <2>3, EndGoesOn
  <1> QED BY <1>1, <1>2, <1>3, <1>4, <1>5, <1>6, <1>7, <1>8, <1>9, <1>10, <1>11, <1>12, <1>13,
           <1>14 DEF Installation!Next

LEMMA InstallationKeeps == InstallationInv /\ [ToolingNext]_toolingVars => InstallationInv'
  <1> SUFFICES ASSUME InstallationInv, [ToolingNext]_toolingVars, running' = "installation"
               PROVE  InstallationTyped' /\ Unused' /\ Attempted' /\ Installation!InstallationIsKept'
    BY DEF InstallationInv
  <1>1. /\ running = "installation"
        /\ InstallationTyped /\ Unused /\ Attempted /\ Installation!InstallationIsKept
    BY DEF InstallationInv, ToolingNext, toolingVars, RunCommand, RunProof, RunOutput, RunDelivery,
           RunInstallation, RunPorts
  <1>2. CASE Installation!Next
    BY <1>1, <1>2, InstallationGoesOn
  <1>3. CASE UNCHANGED toolVars
    <2>1. InstallationTyped' /\ Unused'
      BY <1>1, <1>3 DEF toolVars, InstallationTyped, Unused, Installation!Version
    <2>2. Attempted'
      BY <1>1, <1>3 DEF toolVars, Attempted, Underway, Committed, Traceable, Standing, Installation!Backup,
                        Installation!Held, Installation!Version
    <2> QED BY <1>1, <1>3, <2>1, <2>2 DEF toolVars, Installation!InstallationIsKept, Installation!Kept,
                                          Installation!Version
  <1> QED BY <1>1, <1>2, <1>3 DEF ToolingNext, toolingVars, RunCommand, RunProof, RunOutput,
                                  RunDelivery, RunInstallation, RunPorts

\* Whatever call of an installation throws and whenever it is killed, no part of
\* the version committed last is lost, and an attempt that throws has changed nothing
\* or says that its rollback failed (toolchain-publication.mjs): for any number of attempts.
THEOREM InstallationKeepsTheGood == ToolingSpec => []InstallationIsKept
  <1>1. InstallationInv => InstallationIsKept
    BY DEF InstallationInv, InstallationIsKept
  <1> QED BY <1>1, InstallationStarts, InstallationKeeps, PTL DEF ToolingSpec
----------------------------------------------------------------------------
(* The publication of a bundle: any number of planners, bundles of any     *)
(* size, any number of power losses and of acts of others.                 *)

Unnamed  == {"claim", "write", "sync", "missing", "rename"}
Unmarked == Unnamed \cup {"identity", "parent", "content", "open"}
Marking  == {"pending", "pendingcheck", "commit"}
Marked   == {"ready", "readysync", "durable", "final"}
OutputAwaits == Unmarked \cup Marking \cup Marked \cup {"close", "over"}

Answers  == {"none", "refused", "unready", "published", "rejected", "uncertain", "lost"}
Public   == {"target", "archive"}
Spots    == Public \cup {"none", "staging", "cleanup"}
Markings == {"none", "pending", "ready"}

BundleDirs == [place : Spots, places : SUBSET Spots, leaves : Nat, kept : Nat,
               marker : Markings, markers : SUBSET Markings, stray : BOOLEAN]

OutputTyped ==
  /\ dirs \in [Output!Trees -> BundleDirs]
  /\ await \in [Planners -> OutputAwaits] /\ answer \in [Planners -> Answers]

\* Wherever a power loss may leave READY, it leaves the whole bundle in public.
ReadyIsLast(dir) ==
  /\ dir.place \in dir.places /\ dir.marker \in dir.markers
  /\ "ready" \in dir.markers => dir.kept = LastLeaf /\ dir.leaves = LastLeaf /\ dir.places \subseteq Public

\* What is in the directory of a planner, and where a power loss may leave it,
\* at an await; and what an answer says of it for good.
Filled(step, dir) ==
  /\ step = "sync" => dir.leaves = LastLeaf
  /\ step \in (Unmarked \cup Marking \cup Marked) \ {"claim", "write", "sync"} =>
       dir.kept = LastLeaf /\ dir.leaves = LastLeaf

Named(step, result, dir) ==
  /\ step \in Unnamed \/ result = "refused" => dir.places \cap Public = {}
  /\ step \in {"identity", "parent"} => dir.place \in Public
  /\ step \in {"content", "open"} \cup Marking \cup Marked \/ result \in {"unready", "published", "rejected"} =>
       dir.places \subseteq Public

Signed(step, result, dir) ==
  /\ step \in Unmarked => dir.markers = {"none"}
  /\ step \in Marking \/ result = "unready" => "ready" \notin dir.markers
  /\ step = "readysync" => dir.marker = "ready"
  /\ step \in {"durable", "final"} \/ result \in {"published", "rejected"} => dir.markers = {"ready"}

BundleSound(step, result, dir) ==
  ReadyIsLast(dir) /\ Filled(step, dir) /\ Named(step, result, dir) /\ Signed(step, result, dir)

Answering(step, result) == step \in Unmarked \cup Marking \cup Marked => result = "none"

OutputSound ==
  /\ OutputTyped
  /\ \A p \in Planners : Answering(await[p], answer[p]) /\ BundleSound(await[p], answer[p], dirs[p])

OutputInv == running = "output" => OutputSound

LEMMA OutputStarts == ToolingInit => OutputInv
  <1> SUFFICES ASSUME Output!Init PROVE OutputSound
    BY DEF ToolingInit, InitOutput, OutputInv
  <1>1. Output!NoDirectory \in BundleDirs
    BY DEF Output!NoDirectory, BundleDirs, Spots, Public, Markings
  <1>2. /\ Output!NoDirectory.places = {"none"} /\ Output!NoDirectory.markers = {"none"}
        /\ Output!NoDirectory.place = "none" /\ Output!NoDirectory.marker = "none"
    BY DEF Output!NoDirectory
  <1>3. \A p \in Planners : dirs[p] = Output!NoDirectory /\ await[p] = "claim" /\ answer[p] = "none"
    BY DEF Output!Init, Output!Trees
  <1>4. OutputTyped
    BY <1>1 DEF OutputTyped, Output!Init, OutputAwaits, Unmarked, Unnamed, Answers
  <1>5. ASSUME NEW p \in Planners
        PROVE  Answering(await[p], answer[p]) /\ BundleSound(await[p], answer[p], dirs[p])
    BY <1>2, <1>3 DEF Answering, BundleSound, ReadyIsLast, Filled, Named, Signed, Public, Marking, Marked
  <1> QED BY <1>4, <1>5 DEF OutputSound

\* What becomes of a directory when its planner does nothing.
Passes(dir, new) ==
  \/ new = dir \/ new = [dir EXCEPT !.places = {dir.place}] \/ new = [dir EXCEPT !.stray = TRUE]

LEMMA PassesSoundly ==
  ASSUME NEW step, NEW result, NEW dir \in BundleDirs, NEW new, Passes(dir, new),
         BundleSound(step, result, dir)
  PROVE  BundleSound(step, result, new)
  <1>1. /\ new.place = dir.place /\ new.marker = dir.marker /\ new.markers = dir.markers
        /\ new.leaves = dir.leaves /\ new.kept = dir.kept
        /\ new.places = dir.places \/ new.places = {dir.place}
    BY DEF Passes, BundleDirs
  <1>2. new.place \in new.places /\ new.places \subseteq dir.places
    BY <1>1 DEF BundleSound, ReadyIsLast
  <1> QED BY <1>1, <1>2 DEF BundleSound, ReadyIsLast, Filled, Named, Signed

\* A step of planner p: what it makes of its directory, and the await it comes to.
LEMMA PlannerGoesOn ==
  ASSUME OutputSound, NEW p \in Planners, NEW step \in OutputAwaits, NEW result \in Answers, NEW dir,
         dirs' \in [Output!Trees -> BundleDirs], dirs'[p] = dir,
         \A q \in Planners \ {p} : Passes(dirs[q], dirs'[q]),
         await' = [await EXCEPT ![p] = step],
         (answer' = answer /\ result = answer[p]) \/ answer' = [answer EXCEPT ![p] = result],
         Answering(step, result), BundleSound(step, result, dir)
  PROVE  OutputSound'
  <1>1. /\ await' \in [Planners -> OutputAwaits] /\ answer' \in [Planners -> Answers]
        /\ await'[p] = step /\ answer'[p] = result
        /\ \A q \in Planners \ {p} : await'[q] = await[q] /\ answer'[q] = answer[q]
    BY DEF OutputSound, OutputTyped
  <1>2. ASSUME NEW q \in Planners \ {p}
        PROVE  Answering(await'[q], answer'[q]) /\ BundleSound(await'[q], answer'[q], dirs'[q])
    <2>1. dirs[q] \in BundleDirs /\ Answering(await[q], answer[q]) /\ BundleSound(await[q], answer[q], dirs[q])
      BY DEF OutputSound, OutputTyped, Output!Trees
    <2> QED BY <1>1, <2>1, PassesSoundly
  <1>3. ASSUME NEW q \in Planners
        PROVE  Answering(await'[q], answer'[q]) /\ BundleSound(await'[q], answer'[q], dirs'[q])
    <2>1. CASE q = p
      BY <1>1, <2>1
    <2> QED BY <1>2, <2>1
  <1> QED BY <1>1, <1>3 DEF OutputSound, OutputTyped

\* The same, of what p alone does to its own directory.
LEMMA OwnGoesOn ==
  ASSUME OutputSound, NEW p \in Planners, NEW step \in OutputAwaits, NEW result \in Answers,
         NEW dir \in BundleDirs, dirs' = [dirs EXCEPT ![p] = dir],
         await' = [await EXCEPT ![p] = step],
         (answer' = answer /\ result = answer[p]) \/ answer' = [answer EXCEPT ![p] = result],
         Answering(step, result), BundleSound(step, result, dir)
  PROVE  OutputSound'
  <1>1. p \in Output!Trees /\ \A q \in Planners : q \in Output!Trees
    BY DEF Output!Trees
  <1>2. /\ dirs' \in [Output!Trees -> BundleDirs] /\ dirs'[p] = dir
        /\ \A q \in Planners \ {p} : dirs'[q] = dirs[q]
    BY <1>1 DEF OutputSound, OutputTyped
  <1> QED BY <1>2, PlannerGoesOn DEF Passes

\* An await that leaves the disk alone, or throws.
LEMMA AwaitGoesOn ==
  ASSUME OutputSound, NEW p \in Planners, dirs' = dirs, NEW step \in OutputAwaits, NEW result \in Answers,
         await' = [await EXCEPT ![p] = step],
         (answer' = answer /\ result = answer[p]) \/ answer' = [answer EXCEPT ![p] = result],
         Answering(step, result), BundleSound(step, result, dirs[p])
  PROVE  OutputSound'
  <1>1. dirs' \in [Output!Trees -> BundleDirs] /\ \A q \in Planners : dirs'[q] = dirs[q]
    BY DEF OutputSound, OutputTyped
  <1> QED BY <1>1, PlannerGoesOn DEF Passes

LEMMA ThrowGoesOn ==
  ASSUME OutputSound, NEW p \in Planners, dirs' = dirs, Output!Uncertain(p)
  PROVE  OutputSound'
  <1>1. BundleSound(await[p], answer[p], dirs[p])
    BY DEF OutputSound
  <1>2. BundleSound("over", "uncertain", dirs[p]) /\ Answering("over", "uncertain")
    BY <1>1 DEF BundleSound, Filled, Named, Signed, Answering, Unmarked, Unnamed, Marking, Marked
  <1>3. "over" \in OutputAwaits /\ "uncertain" \in Answers
    BY DEF OutputAwaits, Answers
  <1> QED BY <1>2, <1>3, AwaitGoesOn DEF Output!Uncertain

\* What a directory is when it is renamed.
Moved(dir, to) == [dir EXCEPT !.place = to, !.places = dir.places \cup {to}]

LEMMA MoveMoves ==
  ASSUME OutputTyped, NEW d \in Output!Trees, NEW to \in Spots
  PROVE  Output!Move(d, to) = [dirs EXCEPT ![d] = Moved(dirs[d], to)] /\ Moved(dirs[d], to) \in BundleDirs
  <1>1. dirs[d] \in BundleDirs /\ dirs \in [Output!Trees -> BundleDirs]
    BY DEF OutputTyped
  <1>2. Moved(dirs[d], to) \in BundleDirs
    BY <1>1 DEF Moved, BundleDirs
  <1>3. Output!Move(d, to) = [dirs EXCEPT ![d] = Moved(dirs[d], to)]
    BY <1>1 DEF Output!Move, Moved
  <1> QED BY <1>2, <1>3

LEMMA ParentSyncs ==
  ASSUME NEW ds \in [Output!Trees -> BundleDirs]
  PROVE  /\ Output!ParentSynced(ds) \in [Output!Trees -> BundleDirs]
         /\ \A d \in Output!Trees : Output!ParentSynced(ds)[d] = [ds[d] EXCEPT !.places = {ds[d].place}]
  <1>1. \A d \in Output!Trees : ds[d] \in BundleDirs /\ [ds[d] EXCEPT !.places = {ds[d].place}] \in BundleDirs
    BY DEF BundleDirs
  <1> QED BY <1>1 DEF Output!ParentSynced

\* The awaits up to the publication.
LEMMA StagingGoesOn ==
  ASSUME OutputSound, NEW p \in Planners,
         \/ Output!Claim(p) \/ Output!Write(p) \/ Output!SyncStaging(p) \/ Output!AssertMissing(p)
  PROVE  OutputSound'
  <1> DEFINE dir == dirs[p]
  <1>1. /\ dir \in BundleDirs /\ p \in Output!Trees /\ dirs \in [Output!Trees -> BundleDirs]
        /\ Answering(await[p], answer[p]) /\ BundleSound(await[p], answer[p], dir)
    BY DEF OutputSound, OutputTyped, Output!Trees
  <1>2. await[p] \in {"claim", "write", "sync", "missing"}
    BY DEF Output!Claim, Output!Write, Output!SyncStaging, Output!AssertMissing
  <1>3. answer[p] = "none" /\ dir.markers = {"none"} /\ dir.places \cap Public = {}
    BY <1>1, <1>2 DEF Answering, BundleSound, Named, Signed, Unmarked, Unnamed
  <1> DEFINE Still(new) == /\ new \in BundleDirs /\ ReadyIsLast(new)
                           /\ new.markers = {"none"} /\ new.places \cap Public = {}
  <1>4. Still(dir)
    BY <1>1, <1>3 DEF BundleSound
  <1>5. ASSUME NEW new, Still(new), dirs' = [dirs EXCEPT ![p] = new], Output!End(p, "refused")
        PROVE  OutputSound'
    <2>1. BundleSound("close", "refused", new) /\ Answering("close", "refused")
      BY <1>5 DEF BundleSound, Filled, Named, Signed, Answering, Unmarked, Unnamed, Marking, Marked
    <2>2. "close" \in OutputAwaits /\ "refused" \in Answers
      BY DEF OutputAwaits, Answers
    <2> QED BY <1>5, <2>1, <2>2, OwnGoesOn DEF Output!End
  <1>6. ASSUME NEW step \in {"write", "sync", "missing", "rename"}, NEW new, Still(new), Filled(step, new),
               dirs' = [dirs EXCEPT ![p] = new], Output!Goto(p, step)
        PROVE  OutputSound'
    <2>1. BundleSound(step, "none", new) /\ Answering(step, "none")
      BY <1>6 DEF BundleSound, Named, Signed, Answering, Unmarked, Unnamed, Marking, Marked
    <2>2. step \in OutputAwaits /\ "none" \in Answers
      BY DEF OutputAwaits, Answers, Unmarked, Unnamed
    <2> QED BY <1>3, <1>6, <2>1, <2>2, OwnGoesOn DEF Output!Goto
  <1>7. UNCHANGED dirs => dirs' = [dirs EXCEPT ![p] = dir]
    BY <1>1
  <1>8. CASE Output!Claim(p)
    <2>1. dirs' = Output!Move(p, "staging") => /\ dirs' = [dirs EXCEPT ![p] = Moved(dir, "staging")]
                                              /\ Moved(dir, "staging") \in BundleDirs
      BY <1>1, MoveMoves DEF OutputSound, Spots
    <2>2. Moved(dir, "staging") \in BundleDirs => Still(Moved(dir, "staging"))
      BY <1>1, <1>3, <1>4 DEF Moved, ReadyIsLast, BundleDirs, Public
    <2>3. Filled("write", Moved(dir, "staging"))
      BY DEF Filled
    <2> QED BY <1>4, <1>5, <1>6, <1>7, <1>8, <2>1, <2>2, <2>3 DEF Output!Claim
  <1>9. CASE Output!Write(p)
    <2>1. CASE /\ dir.leaves < LastLeaf /\ Output!Goto(p, "write")
               /\ dirs' = [dirs EXCEPT ![p].leaves = @ + 1]
      <3> DEFINE new == [dir EXCEPT !.leaves = dir.leaves + 1]
      <3>1. dirs' = [dirs EXCEPT ![p] = new]
        BY <1>1, <2>1
      <3>2. Still(new)
        BY <1>1, <1>4 DEF ReadyIsLast, BundleDirs
      <3>3. Filled("write", new)
        BY DEF Filled
      <3> QED BY <1>6, <2>1, <3>1, <3>2, <3>3
    <2>2. CASE Output!End(p, "refused") /\ dirs' = [dirs EXCEPT ![p].stray = TRUE]
      <3> DEFINE new == [dir EXCEPT !.stray = TRUE]
      <3>1. dirs' = [dirs EXCEPT ![p] = new]
        BY <1>1, <2>2
      <3>2. Still(new)
        BY <1>1, <1>4 DEF ReadyIsLast, BundleDirs
      <3> QED BY <1>5, <2>2, <3>1, <3>2
    <2>3. CASE dir.leaves = LastLeaf /\ Output!Goto(p, "sync") /\ UNCHANGED dirs
      <3>1. Filled("sync", dir)
        BY <2>3 DEF Filled
      <3> QED BY <1>4, <1>6, <1>7, <2>3, <3>1
    <2>4. CASE Output!End(p, "refused") /\ UNCHANGED dirs
      BY <1>4, <1>5, <1>7, <2>4
    <2> QED BY <1>9, <2>1, <2>2, <2>3, <2>4 DEF Output!Write
  <1>10. CASE Output!SyncStaging(p)
    <2> DEFINE new == Output!Synced(dir)
    <2>1. dirs' = [dirs EXCEPT ![p] = Output!Synced(@)] => dirs' = [dirs EXCEPT ![p] = new]
      BY <1>1
    <2>2. new \in BundleDirs /\ Still(new)
      BY <1>1, <1>3, <1>4 DEF Output!Synced, ReadyIsLast, BundleDirs
    <2>3. Filled("missing", new)
      BY <1>1, <1>10 DEF Output!SyncStaging, BundleSound, Filled, Output!Synced, BundleDirs
    <2> HIDE DEF new
    <2> QED BY <1>4, <1>5, <1>6, <1>7, <1>10, <2>1, <2>2, <2>3 DEF Output!SyncStaging
  <1>11. CASE Output!AssertMissing(p)
    <2>1. Filled("rename", dir)
      BY <1>1, <1>11 DEF Output!AssertMissing, BundleSound, Filled, Unmarked, Unnamed
    <2> QED BY <1>4, <1>5, <1>6, <1>7, <1>11, <2>1 DEF Output!AssertMissing
  <1> QED BY <1>8, <1>9, <1>10, <1>11

\* The rename, and the sync of the parent that makes it last.
LEMMA PublicationGoesOn ==
  ASSUME OutputSound, NEW p \in Planners,
         Output!Rename(p) \/ Output!Identity(p) \/ Output!SyncParent(p)
  PROVE  OutputSound'
  <1> DEFINE dir == dirs[p]
  <1>1. /\ dir \in BundleDirs /\ p \in Output!Trees /\ dirs \in [Output!Trees -> BundleDirs]
        /\ Answering(await[p], answer[p]) /\ BundleSound(await[p], answer[p], dir)
    BY DEF OutputSound, OutputTyped, Output!Trees
  <1>2. await[p] \in {"rename", "identity", "parent"}
    BY DEF Output!Rename, Output!Identity, Output!SyncParent
  <1>3. /\ answer[p] = "none" /\ dir.markers = {"none"} /\ dir.kept = LastLeaf /\ dir.leaves = LastLeaf
        /\ ReadyIsLast(dir)
    BY <1>1, <1>2 DEF Answering, BundleSound, Filled, Signed, Unmarked, Unnamed
  <1>4. CASE Output!Rename(p)
    <2> DEFINE new == Moved(dir, "target")
    <2>1. dirs' = Output!Move(p, "target") => dirs' = [dirs EXCEPT ![p] = new] /\ new \in BundleDirs
      BY <1>1, MoveMoves DEF OutputSound, Spots, Public
    <2>2. new.markers = {"none"} /\ new.kept = LastLeaf /\ new.leaves = LastLeaf /\ new.place = "target" /\ ReadyIsLast(new)
      BY <1>1, <1>3 DEF Moved, ReadyIsLast, BundleDirs
    <2> HIDE DEF new
    <2>3. CASE dirs' = Output!Move(p, "target") /\ Output!Goto(p, "identity")
      <3>1. BundleSound("identity", "none", new) /\ Answering("identity", "none")
        BY <2>2 DEF BundleSound, Filled, Named, Signed, Answering, Unnamed, Unmarked, Marking, Marked, Public
      <3>2. "identity" \in OutputAwaits /\ "none" \in Answers
        BY DEF OutputAwaits, Answers, Unmarked
      <3> QED BY <1>3, <2>1, <2>3, <3>1, <3>2, OwnGoesOn DEF Output!Goto
    <2>4. CASE dirs' = Output!Move(p, "target") /\ Output!Uncertain(p)
      <3>1. BundleSound("over", "uncertain", new) /\ Answering("over", "uncertain")
        BY <2>2 DEF BundleSound, Filled, Named, Signed, Answering, Unnamed, Unmarked, Marking, Marked
      <3>2. "over" \in OutputAwaits /\ "uncertain" \in Answers
        BY DEF OutputAwaits, Answers
      <3> QED BY <2>1, <2>4, <3>1, <3>2, OwnGoesOn DEF Output!Uncertain
    <2>5. CASE UNCHANGED dirs /\ Output!End(p, "refused")
      <3>1. BundleSound("close", "refused", dir) /\ Answering("close", "refused")
        BY <1>1, <1>3, <1>4 DEF Output!Rename, BundleSound, Filled, Named, Signed, Answering, Unnamed, Unmarked,
                              Marking, Marked
      <3>2. "close" \in OutputAwaits /\ "refused" \in Answers
        BY DEF OutputAwaits, Answers
      <3> QED BY <2>5, <3>1, <3>2, AwaitGoesOn DEF Output!End
    <2>6. CASE UNCHANGED dirs /\ Output!Uncertain(p)
      BY <2>6, ThrowGoesOn
    <2> QED BY <1>4, <2>3, <2>4, <2>5, <2>6 DEF Output!Rename
  <1>5. CASE Output!Identity(p)
    <2>1. CASE Output!Target = {p} /\ Output!Goto(p, "parent")
      <3>1. dir.place \in Public
        BY <2>1 DEF Output!Target, Public
      <3>2. BundleSound("parent", "none", dir) /\ Answering("parent", "none")
        BY <1>3, <3>1 DEF BundleSound, Filled, Named, Signed, Answering, Unnamed, Unmarked, Marking, Marked
      <3>3. "parent" \in OutputAwaits /\ "none" \in Answers
        BY DEF OutputAwaits, Answers, Unmarked
      <3> QED BY <1>3, <1>5, <2>1, <3>2, <3>3, AwaitGoesOn DEF Output!Identity, Output!Goto
    <2> QED BY <1>5, <2>1, ThrowGoesOn DEF Output!Identity
  <1>6. CASE Output!SyncParent(p)
    <2>1. CASE Output!Goto(p, "content") /\ dirs' = Output!ParentSynced(dirs)
      <3> DEFINE new == [dir EXCEPT !.places = {dir.place}]
      <3>1. /\ dirs' \in [Output!Trees -> BundleDirs] /\ dirs'[p] = new
            /\ \A q \in Planners \ {p} : Passes(dirs[q], dirs'[q])
        BY <1>1, <2>1, ParentSyncs DEF Passes, Output!Trees
      <3>2. dir.place \in Public
        BY <1>1, <1>6 DEF Output!SyncParent, BundleSound, Named
      <3>3. /\ new.markers = {"none"} /\ new.kept = LastLeaf /\ new.leaves = LastLeaf /\ ReadyIsLast(new)
            /\ new.places \subseteq Public /\ new.place \in Public
        BY <1>1, <1>3, <3>2 DEF ReadyIsLast, BundleDirs
      <3> HIDE DEF new
      <3>4. BundleSound("content", "none", new) /\ Answering("content", "none")
        BY <3>3 DEF BundleSound, Filled, Named, Signed, Answering, Unnamed, Unmarked, Marking, Marked
      <3>5. "content" \in OutputAwaits /\ "none" \in Answers
        BY DEF OutputAwaits, Answers, Unmarked
      <3> QED BY <1>3, <2>1, <3>1, <3>4, <3>5, PlannerGoesOn DEF Output!Goto
    <2> QED BY <1>6, <2>1, ThrowGoesOn DEF Output!SyncParent
  <1> QED BY <1>4, <1>5, <1>6

\* finalizeReady(), up to the marker's rename.
LEMMA MarkingGoesOn ==
  ASSUME OutputSound, NEW p \in Planners,
         Output!CheckContent(p) \/ Output!OpenPending(p) \/ Output!SyncPending(p) \/ Output!CheckPending(p)
  PROVE  OutputSound'
  <1> DEFINE dir == dirs[p]
  <1>1. /\ dir \in BundleDirs /\ p \in Output!Trees /\ dirs \in [Output!Trees -> BundleDirs]
        /\ Answering(await[p], answer[p]) /\ BundleSound(await[p], answer[p], dir)
    BY DEF OutputSound, OutputTyped, Output!Trees
  <1>2. await[p] \in {"content", "open", "pending", "pendingcheck"}
    BY DEF Output!CheckContent, Output!OpenPending, Output!SyncPending, Output!CheckPending
  <1> DEFINE Still(new) ==
        /\ new \in BundleDirs /\ ReadyIsLast(new) /\ new.kept = LastLeaf /\ new.leaves = LastLeaf
        /\ new.places \subseteq Public /\ "ready" \notin new.markers
  <1>3. answer[p] = "none" /\ Still(dir)
    BY <1>1, <1>2 DEF Answering, BundleSound, Filled, Named, Signed, Unmarked, Unnamed, Marking
  <1>4. ASSUME NEW new, Still(new), dirs' = [dirs EXCEPT ![p] = new], Output!End(p, "unready")
        PROVE  OutputSound'
    <2>1. BundleSound("close", "unready", new) /\ Answering("close", "unready")
      BY <1>4 DEF BundleSound, Filled, Named, Signed, Answering, Unmarked, Unnamed, Marking, Marked
    <2>2. "close" \in OutputAwaits /\ "unready" \in Answers
      BY DEF OutputAwaits, Answers
    <2> QED BY <1>4, <2>1, <2>2, OwnGoesOn DEF Output!End
  <1>5. ASSUME NEW new, Still(new), NEW step \in {"open"} \cup Marking, step = "open" => new.markers = {"none"},
               dirs' = [dirs EXCEPT ![p] = new], Output!Goto(p, step)
        PROVE  OutputSound'
    <2>1. BundleSound(step, "none", new) /\ Answering(step, "none")
      BY <1>5 DEF BundleSound, Filled, Named, Signed, Answering, Unmarked, Unnamed, Marking, Marked
    <2>2. step \in OutputAwaits /\ "none" \in Answers
      BY DEF OutputAwaits, Answers, Unmarked
    <2> QED BY <1>3, <1>5, <2>1, <2>2, OwnGoesOn DEF Output!Goto
  <1>6. UNCHANGED dirs => dirs' = [dirs EXCEPT ![p] = dir]
    BY <1>1
  <1>7. CASE Output!CheckContent(p)
    <2>1. dir.markers = {"none"}
      BY <1>1, <1>7 DEF Output!CheckContent, BundleSound, Signed, Unmarked
    <2> QED BY <1>3, <1>4, <1>5, <1>6, <1>7, <2>1 DEF Output!CheckContent
  <1>8. CASE Output!OpenPending(p)
    <2>1. CASE Output!End(p, "unready") /\ UNCHANGED dirs
      BY <1>3, <1>4, <1>6, <2>1
    <2>2. CASE \E d \in Output!Target :
                 /\ Output!Goto(p, "pending")
                 /\ dirs' = IF d = p THEN [dirs EXCEPT ![p].marker = "pending", ![p].markers = @ \cup {"pending"}]
                                     ELSE [dirs EXCEPT ![d].stray = TRUE]
      <3>1. PICK d \in Output!Target :
                 /\ Output!Goto(p, "pending")
                 /\ dirs' = IF d = p THEN [dirs EXCEPT ![p].marker = "pending", ![p].markers = @ \cup {"pending"}]
                                     ELSE [dirs EXCEPT ![d].stray = TRUE]
        BY <2>2
      <3>2. d \in Output!Trees
        BY DEF Output!Target
      <3>3. CASE d = p
        <4> DEFINE new == [dir EXCEPT !.marker = "pending", !.markers = dir.markers \cup {"pending"}]
        <4>1. dirs' = [dirs EXCEPT ![p] = new]
          BY <1>1, <3>1, <3>3
        <4>2. Still(new)
          BY <1>1, <1>3 DEF ReadyIsLast, BundleDirs, Markings
        <4>3. "pending" \in Marking
          BY DEF Marking
        <4> HIDE DEF new
        <4> QED BY <1>5, <3>1, <4>1, <4>2, <4>3
      <3>4. CASE d # p
        <4>1. dirs' = [dirs EXCEPT ![d] = [dirs[d] EXCEPT !.stray = TRUE]] /\ [dirs[d] EXCEPT !.stray = TRUE] \in BundleDirs
          BY <1>1, <3>1, <3>2, <3>4 DEF BundleDirs
        <4>2. /\ dirs' \in [Output!Trees -> BundleDirs] /\ dirs'[p] = dir
              /\ \A q \in Planners \ {p} : Passes(dirs[q], dirs'[q])
          BY <1>1, <3>2, <3>4, <4>1 DEF Passes, Output!Trees
        <4>3. BundleSound("pending", "none", dir) /\ Answering("pending", "none")
          BY <1>3 DEF BundleSound, Filled, Named, Signed, Answering, Unmarked, Unnamed, Marking, Marked
        <4>4. "pending" \in OutputAwaits /\ "none" \in Answers
          BY DEF OutputAwaits, Answers, Marking
        <4> QED BY <1>3, <3>1, <4>2, <4>3, <4>4, PlannerGoesOn DEF Output!Goto
      <3> QED BY <3>3, <3>4
    <2> QED BY <1>8, <2>1, <2>2 DEF Output!OpenPending
  <1>9. CASE Output!SyncPending(p)
    <2> DEFINE new == Output!Synced(dir)
    <2>1. dirs' = [dirs EXCEPT ![p] = Output!Synced(@)] => dirs' = [dirs EXCEPT ![p] = new]
      BY <1>1
    <2>2. Still(new)
      BY <1>1, <1>3 DEF Output!Synced, ReadyIsLast, BundleDirs
    <2>3. "pendingcheck" \in Marking
      BY DEF Marking
    <2> HIDE DEF new
    <2> QED BY <1>3, <1>4, <1>5, <1>6, <1>9, <2>1, <2>2, <2>3 DEF Output!SyncPending
  <1>10. CASE Output!CheckPending(p)
    <2>1. "commit" \in Marking
      BY DEF Marking
    <2> QED BY <1>3, <1>4, <1>5, <1>6, <1>10, <2>1 DEF Output!CheckPending
  <1> QED BY <1>7, <1>8, <1>9, <1>10

\* The rename of the marker, and what is looked at and synced after it.
LEMMA MarkedGoesOn ==
  ASSUME OutputSound, NEW p \in Planners,
         \/ Output!Commit(p) \/ Output!CheckReady(p) \/ Output!SyncReady(p) \/ Output!Durable(p)
         \/ Output!Final(p)
  PROVE  OutputSound'
  <1> DEFINE dir == dirs[p]
  <1>1. /\ dir \in BundleDirs /\ p \in Output!Trees /\ dirs \in [Output!Trees -> BundleDirs]
        /\ Answering(await[p], answer[p]) /\ BundleSound(await[p], answer[p], dir)
    BY DEF OutputSound, OutputTyped, Output!Trees
  <1>2. await[p] \in {"commit"} \cup Marked
    BY DEF Output!Commit, Output!CheckReady, Output!SyncReady, Output!Durable, Output!Final, Marked
  <1> DEFINE Still(new) ==
        /\ new \in BundleDirs /\ ReadyIsLast(new) /\ new.kept = LastLeaf /\ new.leaves = LastLeaf
        /\ new.places \subseteq Public
  <1>3. answer[p] = "none" /\ Still(dir)
    BY <1>1, <1>2 DEF Answering, BundleSound, Filled, Named, Unmarked, Unnamed, Marking, Marked
  <1>4. ASSUME NEW new, Still(new), NEW step \in Marked, dirs' = [dirs EXCEPT ![p] = new], Output!Goto(p, step),
               step = "readysync" => new.marker = "ready",
               step \in {"durable", "final"} => new.markers = {"ready"}
        PROVE  OutputSound'
    <2>1. BundleSound(step, "none", new) /\ Answering(step, "none")
      BY <1>4 DEF BundleSound, Filled, Named, Signed, Answering, Unmarked, Unnamed, Marking, Marked
    <2>2. step \in OutputAwaits /\ "none" \in Answers
      BY DEF OutputAwaits, Answers
    <2> QED BY <1>3, <1>4, <2>1, <2>2, OwnGoesOn DEF Output!Goto
  <1>5. ASSUME NEW result \in {"unready", "published", "rejected"}, UNCHANGED dirs, Output!End(p, result),
               result = "unready" => "ready" \notin dir.markers,
               result # "unready" => dir.markers = {"ready"}
        PROVE  OutputSound'
    <2>1. BundleSound("close", result, dir) /\ Answering("close", result)
      BY <1>3, <1>5 DEF BundleSound, Filled, Named, Signed, Answering, Unmarked, Unnamed, Marking, Marked
    <2>2. "close" \in OutputAwaits /\ result \in Answers
      BY DEF OutputAwaits, Answers
    <2> QED BY <1>5, <2>1, <2>2, AwaitGoesOn DEF Output!End
  <1>6. UNCHANGED dirs => dirs' = [dirs EXCEPT ![p] = dir]
    BY <1>1
  <1>7. {"ready", "readysync", "durable", "final"} \subseteq Marked
    BY DEF Marked
  <1>8. CASE Output!Commit(p)
    <2> DEFINE new == [dir EXCEPT !.marker = "ready", !.markers = dir.markers \cup {"ready"}]
    <2>1. dirs' = [dirs EXCEPT ![p].marker = "ready", ![p].markers = @ \cup {"ready"}] => dirs' = [dirs EXCEPT ![p] = new]
      BY <1>1
    <2>2. Still(new)
      BY <1>1, <1>3 DEF ReadyIsLast, BundleDirs, Markings
    <2> HIDE DEF new
    <2>3. CASE dirs' = [dirs EXCEPT ![p] = new] /\ Output!Uncertain(p)
      <3>1. BundleSound("over", "uncertain", new) /\ Answering("over", "uncertain")
        BY <2>2 DEF BundleSound, Filled, Named, Signed, Answering, Unmarked, Unnamed, Marking, Marked
      <3>2. "over" \in OutputAwaits /\ "uncertain" \in Answers
        BY DEF OutputAwaits, Answers
      <3> QED BY <2>2, <2>3, <3>1, <3>2, OwnGoesOn DEF Output!Uncertain
    <2>4. CASE dirs' = [dirs EXCEPT ![p] = new] /\ Output!Goto(p, "ready")
      BY <1>4, <1>7, <2>2, <2>4
    <2>5. CASE UNCHANGED dirs /\ Output!Uncertain(p)
      BY <2>5, ThrowGoesOn
    <2>6. CASE UNCHANGED dirs /\ Output!End(p, "unready")
      <3>1. "ready" \notin dir.markers
        BY <1>1, <1>8 DEF Output!Commit, BundleSound, Signed, Marking
      <3> QED BY <1>5, <2>6, <3>1
    <2> QED BY <1>8, <2>1, <2>3, <2>4, <2>5, <2>6 DEF Output!Commit
  <1>9. CASE Output!CheckReady(p)
    <2>1. Output!Unchanged(p, "ready") => dir.marker = "ready"
      BY DEF Output!Unchanged
    <2> QED BY <1>3, <1>4, <1>6, <1>7, <1>9, <2>1, ThrowGoesOn DEF Output!CheckReady
  <1>10. CASE Output!SyncReady(p)
    <2> DEFINE new == Output!Synced(dir)
    <2>1. dirs' = [dirs EXCEPT ![p] = Output!Synced(@)] => dirs' = [dirs EXCEPT ![p] = new]
      BY <1>1
    <2>2. dir.marker = "ready"
      BY <1>1, <1>10 DEF Output!SyncReady, BundleSound, Signed
    <2>3. Still(new) /\ new.markers = {"ready"}
      BY <1>1, <1>3, <2>2 DEF Output!Synced, ReadyIsLast, BundleDirs
    <2> HIDE DEF new
    <2> QED BY <1>4, <1>7, <1>10, <2>1, <2>3, ThrowGoesOn DEF Output!SyncReady
  <1>11. CASE Output!Durable(p) \/ Output!Final(p)
    <2>1. dir.markers = {"ready"}
      BY <1>1, <1>11 DEF Output!Durable, Output!Final, BundleSound, Signed
    <2> QED BY <1>3, <1>4, <1>5, <1>6, <1>7, <1>11, <2>1, ThrowGoesOn DEF Output!Durable, Output!Final
  <1> QED BY <1>8, <1>9, <1>10, <1>11

\* close().
LEMMA CloseGoesOn ==
  ASSUME OutputSound, NEW p \in Planners, Output!Close(p)
  PROVE  OutputSound'
  <1> DEFINE dir == dirs[p]
             new == Moved(dir, "cleanup")
  <1>1. /\ dir \in BundleDirs /\ p \in Output!Trees /\ dirs \in [Output!Trees -> BundleDirs]
        /\ BundleSound(await[p], answer[p], dir) /\ answer[p] \in Answers
    BY DEF OutputSound, OutputTyped, Output!Trees
  <1>2. "over" \in OutputAwaits
    BY DEF OutputAwaits
  <1>3. ASSUME NEW later, BundleSound("close", answer[p], later)
        PROVE  BundleSound("over", answer[p], later) /\ Answering("over", answer[p])
    BY <1>3 DEF BundleSound, Filled, Named, Signed, Answering, Unmarked, Unnamed, Marking, Marked
  <1>4. await[p] = "close" /\ await' = [await EXCEPT ![p] = "over"] /\ answer' = answer
    BY DEF Output!Close, Output!Goto
  <1>5. CASE UNCHANGED dirs
    BY <1>1, <1>2, <1>3, <1>4, <1>5, AwaitGoesOn
  <1>6. ASSUME dir.place = "staging"
        PROVE  /\ Output!Move(p, "cleanup") = [dirs EXCEPT ![p] = new] /\ new \in BundleDirs
               /\ BundleSound("close", answer[p], new)
    <2>1. Output!Move(p, "cleanup") = [dirs EXCEPT ![p] = new] /\ new \in BundleDirs
      BY <1>1, MoveMoves DEF OutputSound, Spots
    <2>2. /\ "staging" \in dir.places /\ "staging" \notin Public /\ "cleanup" \notin Public
          /\ ~ dir.places \subseteq Public
      BY <1>1, <1>6 DEF BundleSound, ReadyIsLast, Public
    <2>3. /\ new.place = "cleanup" /\ new.places = dir.places \cup {"cleanup"} /\ new.marker = dir.marker
          /\ new.markers = dir.markers /\ new.leaves = dir.leaves /\ new.kept = dir.kept
      BY <1>1 DEF Moved, BundleDirs
    <2> HIDE DEF new
    <2> QED BY <1>1, <1>4, <2>1, <2>2, <2>3
            DEF BundleSound, ReadyIsLast, Filled, Named, Signed, Unmarked, Unnamed, Marking, Marked
  <1>7. CASE dir.place = "staging" /\ dirs' = Output!Move(p, "cleanup")
    <2> HIDE DEF new
    <2> QED BY <1>1, <1>2, <1>3, <1>4, <1>6, <1>7, OwnGoesOn
  <1>8. CASE dir.place = "staging" /\ dirs' = Output!ParentSynced(Output!Move(p, "cleanup"))
    <2> DEFINE moved == [dirs EXCEPT ![p] = new]
               later == [new EXCEPT !.places = {new.place}]
    <2> HIDE DEF new
    <2>1. moved \in [Output!Trees -> BundleDirs] /\ moved[p] = new /\ \A q \in Planners \ {p} : moved[q] = dirs[q]
      BY <1>1, <1>6, <1>8 DEF Output!Trees
    <2>2. dirs' = Output!ParentSynced(moved)
      BY <1>6, <1>8
    <2> HIDE DEF moved
    <2>3. /\ dirs' \in [Output!Trees -> BundleDirs] /\ dirs'[p] = later
          /\ \A q \in Planners \ {p} : Passes(dirs[q], dirs'[q])
      BY <1>1, <2>1, <2>2, ParentSyncs DEF Passes, Output!Trees
    <2>4. BundleSound("close", answer[p], later)
      BY <1>6, <1>8, PassesSoundly DEF Passes
    <2> QED BY <1>1, <1>2, <1>3, <1>4, <2>3, <2>4, PlannerGoesOn
  <1> QED BY <1>5, <1>7, <1>8 DEF Output!Close

\* What the others do at the target.
LEMMA OthersGoOn ==
  ASSUME OutputSound, Output!OutputAssumption,
         \/ Output!Occupy \/ \E d \in Output!Trees : Output!Archive(d) \/ Output!Litter(d)
  PROVE  OutputSound'
  <1>1. /\ dirs \in [Output!Trees -> BundleDirs] /\ Stranger \notin Planners /\ Stranger \in Output!Trees
        /\ await' = await /\ answer' = answer
    BY DEF OutputSound, OutputTyped, Output!OutputAssumption, Output!Trees, Output!Occupy, Output!Archive,
           Output!Litter
  <1>2. ASSUME NEW d \in Output!Trees, NEW new \in BundleDirs, dirs' = [dirs EXCEPT ![d] = new],
               d \in Planners => BundleSound(await[d], answer[d], new)
        PROVE  OutputSound'
    <2>1. dirs' \in [Output!Trees -> BundleDirs] /\ dirs'[d] = new
          /\ \A p \in Planners \ {d} : dirs'[p] = dirs[p]
      BY <1>1, <1>2 DEF Output!Trees
    <2>2. ASSUME NEW p \in Planners
          PROVE  Answering(await'[p], answer'[p]) /\ BundleSound(await'[p], answer'[p], dirs'[p])
      <3>1. Answering(await[p], answer[p]) /\ BundleSound(await[p], answer[p], dirs[p])
        BY DEF OutputSound
      <3> QED BY <1>1, <1>2, <2>1, <3>1
    <2> QED BY <1>1, <2>1, <2>2 DEF OutputSound, OutputTyped
  <1>3. CASE Output!Occupy
    <2>1. "target" \in Spots
      BY DEF Spots, Public
    <2>2. dirs' = [dirs EXCEPT ![Stranger] = Moved(dirs[Stranger], "target")] /\ Moved(dirs[Stranger], "target") \in BundleDirs
      BY <1>1, <1>3, <2>1, MoveMoves DEF Output!Occupy, OutputSound
    <2> QED BY <1>1, <1>2, <2>2
  <1>4. ASSUME NEW d \in Output!Trees, Output!Archive(d)
        PROVE  OutputSound'
    <2> DEFINE dir == dirs[d]
               new == Moved(dir, "archive")
    <2>1. "archive" \in Spots /\ "archive" \in Public /\ "target" \in Public
      BY DEF Spots, Public
    <2>2. dirs' = [dirs EXCEPT ![d] = new] /\ new \in BundleDirs /\ dir.place = "target" /\ dir \in BundleDirs
      BY <1>1, <1>4, <2>1, MoveMoves DEF Output!Archive, Output!Target, OutputSound
    <2>3. /\ new.place = "archive" /\ new.places = dir.places \cup {"archive"} /\ new.marker = dir.marker
          /\ new.markers = dir.markers /\ new.leaves = dir.leaves /\ new.kept = dir.kept
      BY <2>2 DEF Moved, BundleDirs
    <2> HIDE DEF new
    <2>4. ASSUME d \in Planners PROVE BundleSound(await[d], answer[d], new)
      <3>1. BundleSound(await[d], answer[d], dir)
        BY <2>4 DEF OutputSound
      <3>2. dir.places \cap Public # {}
        BY <2>1, <2>2, <3>1 DEF BundleSound, ReadyIsLast
      <3> QED BY <2>1, <2>3, <3>1, <3>2 DEF BundleSound, ReadyIsLast, Filled, Named, Signed
    <2> QED BY <1>2, <2>2, <2>4
  <1>5. ASSUME NEW d \in Output!Trees, Output!Litter(d)
        PROVE  OutputSound'
    <2> DEFINE new == [dirs[d] EXCEPT !.stray = TRUE]
    <2>1. dirs[d] \in BundleDirs /\ dirs' = [dirs EXCEPT ![d] = new]
      BY <1>1, <1>5 DEF Output!Litter
    <2>2. new \in BundleDirs
      BY <2>1 DEF BundleDirs
    <2>3. d \in Planners => BundleSound(await[d], answer[d], new)
      BY <2>1, PassesSoundly DEF Passes, OutputSound
    <2> HIDE DEF new
    <2> QED BY <1>2, <2>1, <2>2, <2>3
  <1> QED BY <1>3, <1>4, <1>5

\* What a power loss leaves of a directory is something of what it might leave.
LEMMA SurvivorIsSound ==
  ASSUME LastLeaf \in Nat, NEW step, NEW result, NEW d \in Output!Trees, dirs[d] \in BundleDirs,
         NEW dir \in Output!Survivors(d)
  PROVE  /\ dir \in BundleDirs
         /\ BundleSound(step, result, dirs[d]) =>
              BundleSound("over", result, dir) /\ (step = "claim" => BundleSound("claim", result, dir))
  <1>1. PICK place \in dirs[d].places, leaves \in dirs[d].kept .. dirs[d].leaves, mark \in dirs[d].markers :
          dir = [place |-> place, places |-> {place}, leaves |-> leaves, kept |-> leaves,
                 marker |-> mark, markers |-> {mark}, stray |-> dirs[d].stray]
    BY DEF Output!Survivors
  <1>2. /\ place \in Spots /\ mark \in Markings /\ leaves \in Nat /\ dirs[d].stray \in BOOLEAN
        /\ dirs[d].kept = LastLeaf /\ dirs[d].leaves = LastLeaf => leaves = LastLeaf
    BY <1>1 DEF BundleDirs
  <1>3. /\ dir.place = place /\ dir.places = {place} /\ dir.leaves = leaves /\ dir.kept = leaves
        /\ dir.marker = mark /\ dir.markers = {mark}
    BY <1>1
  <1>4. dir \in BundleDirs
    BY <1>1, <1>2 DEF BundleDirs
  <1>5. ASSUME BundleSound(step, result, dirs[d])
        PROVE  BundleSound("over", result, dir) /\ (step = "claim" => BundleSound("claim", result, dir))
    <2>1. ReadyIsLast(dir)
      BY <1>2, <1>3, <1>5 DEF BundleSound, ReadyIsLast
    <2>2. Named("over", result, dir) /\ (step = "claim" => Named("claim", result, dir))
      BY <1>3, <1>5 DEF BundleSound, Named, Unmarked, Unnamed, Marking, Marked
    <2>3. Signed("over", result, dir) /\ (step = "claim" => Signed("claim", result, dir))
      BY <1>3, <1>5 DEF BundleSound, Signed, Unmarked, Unnamed, Marking, Marked
    <2>4. Filled("over", dir) /\ Filled("claim", dir)
      BY DEF Filled, Unmarked, Unnamed, Marking, Marked
    <2> QED BY <2>1, <2>2, <2>3, <2>4 DEF BundleSound
  <1> QED BY <1>4, <1>5

LEMMA LossGoesOn ==
  ASSUME OutputSound, Output!OutputAssumption, Output!PowerLoss
  PROVE  OutputSound'
  <1>1. /\ dirs \in [Output!Trees -> BundleDirs] /\ await \in [Planners -> OutputAwaits]
        /\ answer \in [Planners -> Answers]
    BY DEF OutputSound, OutputTyped
  <1>2. /\ dirs' \in [Output!Trees -> UNION {Output!Survivors(d) : d \in Output!Trees}]
        /\ \A d \in Output!Trees : dirs'[d] \in Output!Survivors(d)
    BY DEF Output!PowerLoss, Output!Remains
  <1>3. ASSUME NEW d \in Output!Trees
        PROVE  dirs'[d] \in BundleDirs
    BY <1>1, <1>2, SurvivorIsSound DEF Output!OutputAssumption
  <1>4. /\ await' = [p \in Planners |-> IF await[p] = "claim" THEN "claim" ELSE "over"]
        /\ answer' = [p \in Planners |-> IF await[p] # "claim" /\ answer[p] = "none" THEN "lost" ELSE answer[p]]
    BY DEF Output!PowerLoss
  <1>5. "claim" \in OutputAwaits /\ "over" \in OutputAwaits /\ "lost" \in Answers
    BY DEF OutputAwaits, Answers, Unmarked, Unnamed
  <1>6. OutputTyped'
    <2>1. dirs' \in [Output!Trees -> BundleDirs]
      BY <1>2, <1>3
    <2>2. await' \in [Planners -> OutputAwaits] /\ answer' \in [Planners -> Answers]
      BY <1>1, <1>4, <1>5
    <2> QED BY <2>1, <2>2 DEF OutputTyped
  <1>7. ASSUME NEW p \in Planners
        PROVE  Answering(await'[p], answer'[p]) /\ BundleSound(await'[p], answer'[p], dirs'[p])
    <2>1. /\ p \in Output!Trees /\ dirs'[p] \in Output!Survivors(p) /\ dirs[p] \in BundleDirs
          /\ Answering(await[p], answer[p]) /\ BundleSound(await[p], answer[p], dirs[p])
      BY <1>1, <1>2 DEF OutputSound, Output!Trees
    <2>2. /\ BundleSound("over", answer[p], dirs'[p])
          /\ await[p] = "claim" => BundleSound("claim", answer[p], dirs'[p])
      BY <2>1, SurvivorIsSound DEF Output!OutputAssumption
    <2>3. CASE await[p] = "claim"
      BY <1>4, <2>1, <2>2, <2>3
    <2>4. CASE await[p] # "claim"
      <3>1. await'[p] = "over" /\ answer'[p] = IF answer[p] = "none" THEN "lost" ELSE answer[p]
        BY <1>4, <2>4
      <3>2. BundleSound("over", answer'[p], dirs'[p])
        BY <2>2, <3>1 DEF BundleSound, Named, Signed
      <3> QED BY <3>1, <3>2 DEF Answering, Unmarked, Unnamed, Marking, Marked
    <2> QED BY <2>3, <2>4
  <1> QED BY <1>6, <1>7 DEF OutputSound

LEMMA OutputKeeps == OutputInv /\ [ToolingNext]_toolingVars => OutputInv'
  <1> SUFFICES ASSUME OutputInv, [ToolingNext]_toolingVars, running' = "output"
               PROVE  OutputSound'
    BY DEF OutputInv
  <1>1. running = "output" /\ OutputSound
    BY DEF OutputInv, ToolingNext, toolingVars, RunCommand, RunProof, RunOutput, RunDelivery,
           RunInstallation, RunPorts
  <1>2. CASE Output!Next
    BY <1>1, <1>2, ToolingAssumption, StagingGoesOn, PublicationGoesOn, MarkingGoesOn, MarkedGoesOn, CloseGoesOn,
       OthersGoOn, LossGoesOn DEF Output!Next, Output!Step
  <1>3. CASE UNCHANGED outputVars
    BY <1>1, <1>3 DEF outputVars, OutputSound, OutputTyped
  <1> QED BY <1>1, <1>2, <1>3 DEF ToolingNext, toolingVars, RunCommand, RunProof, RunOutput,
                                  RunDelivery, RunInstallation, RunPorts

\* READY denotes a complete published bundle whatever a power loss leaves, and
\* how a planner ended stays true of the disk (safe-output.ts): for any number of
\* planners under one name, of leaves, of power losses and of acts of others.
THEOREM ReadyMeansPublished == ToolingSpec => []ReadyIsTrue
  <1>1. OutputInv => ReadyIsTrue
    <2> SUFFICES ASSUME OutputSound, NEW p \in Planners
                 PROVE  /\ dirs[p].marker = "ready" => (Output!Published(p) /\ dirs[p].leaves = LastLeaf)
                        /\ answer[p] \in {"published", "rejected"} => (Output!Published(p) /\ dirs[p].marker = "ready")
                        /\ answer[p] = "refused" => ~ Output!Published(p)
                        /\ answer[p] = "unready" => dirs[p].marker # "ready"
      BY DEF OutputInv, ReadyIsTrue, Output!ReadyIsTrue
    <2>1. BundleSound(await[p], answer[p], dirs[p])
      BY DEF OutputSound
    <2> QED BY <2>1 DEF BundleSound, ReadyIsLast, Named, Signed, Output!Published, Public
  <1> QED BY <1>1, OutputStarts, OutputKeeps, PTL DEF ToolingSpec
----------------------------------------------------------------------------
(* The publication of a delivery: any number of publishers and of leaves,  *)
(* whatever fails, is killed, lost with the power or put in the lock's     *)
(* place.                                                                  *)

FileStates == Deliveries \cup {"absent", "partial", "common"}
Locks == Publishers \cup {"none", "stranger"}

\* The awaits of a publisher that has the lock, and those after.
Writing   == {"write", "sync", "entry"}
Locked    == {"list", "parent", "verify", "finally", "stage", "capture"} \cup Writing
Departing == {"finally", "stage", "capture", "captured", "leave"}
PubAwaits == Locked \cup Departing \cup {"idle", "lock", "over"}

StoreStates ==
  [made : BOOLEAN, firm : BOOLEAN, files : [Delivery!Files -> FileStates],
   may : [Delivery!Files -> SUBSET FileStates], lock : Locks,
   stages : [Publishers -> Locks \cup {"empty"}], foreign : BOOLEAN, lost : BOOLEAN]

PubStates ==
  [at : PubAwaits, file : Delivery!Files, what : Deliveries \cup {"none"}, resume : BOOLEAN, ready : BOOLEAN,
   answer : {"none", "refused", "failed", "published", "lost"}]

ReaderStates ==
  [at : {"idle", "list", "leaves", "ready", "accepted"}, what : Deliveries \cup {"none"}, ready : BOOLEAN]

DeliveryTyped ==
  store \in StoreStates /\ pub \in [Publishers -> PubStates] /\ reader \in ReaderStates

\* One publisher at a time has the lock, or a stranger's is in its place; whoever
\* gives it back stages it, and a stranger's is not deleted.
LockSound ==
  /\ \A p \in Publishers : pub[p].at \in Locked => store.lock \in {p, "stranger"}
  /\ \A p, q \in Publishers : pub[p].at \in Locked /\ pub[q].at \in Locked => p = q
  /\ \A p \in Publishers : pub[p].at \in {"idle", "lock"} \cup (Locked \ {"capture"}) => store.stages[p] = "none"
  /\ \A p \in Publishers : pub[p].at \in {"capture", "leave"} => store.stages[p] = "empty"
  /\ \A p \in Publishers : pub[p].at = "captured" => store.stages[p] # "none"
  /\ store.foreign => store.lock = "stranger" \/ \E p \in Publishers : store.stages[p] = "stranger"

\* The files a publisher has written or found, and those that a power loss will
\* not take: of one that does not resume, all it has synced.
Written(r, last) == Delivery!Holds(r.what, last)
Durable(r, last) == ~ r.resume => \A f \in 1 .. last : store.may[f] \subseteq {Delivery!Content(r.what, f)}

Finished(r) ==
  LET last == IF r.ready THEN Delivery!READY ELSE Delivery!Inventory
  IN r.what \in Deliveries /\ store.firm /\ Written(r, last) /\ Durable(r, last)

Progress(r) ==
  /\ r.at \in {"lock", "list", "parent", "verify"} \cup Writing => r.what \in Deliveries /\ r.answer = "none"
  /\ r.at \in {"lock", "list"} => r.file = 1
  /\ r.at = "parent" => r.file = Delivery!Inventory
  /\ r.at = "verify" => r.file \in {Delivery!Inventory, Delivery!READY}
  /\ r.at \in Writing => Written(r, r.file - 1) /\ Durable(r, r.file - 1)
  /\ r.at \in {"sync", "entry", "parent", "verify"} => Written(r, r.file)
  /\ r.at = "entry" /\ ~ r.resume => store.may[r.file] \subseteq {"absent", Delivery!Content(r.what, r.file)}
  /\ r.at \in {"parent", "verify"} => Durable(r, r.file)
  /\ r.at = "verify" \/ (r.at \in Writing /\ r.file = Delivery!READY) => store.firm
  /\ r.at \in Departing /\ r.answer = "none" => Finished(r)
  /\ r.answer = "published" => (r.resume /\ store.lost) \/ Finished(r)

\* What the consumer has read of the delivery its inventory names.
ReaderSound ==
  /\ reader.at \in {"list", "leaves", "ready", "accepted"} =>
       reader.what \in Deliveries /\ store.files[Delivery!Inventory] = reader.what
  /\ reader.at \in {"ready", "accepted"} => Delivery!Holds(reader.what, Delivery!Inventory)
  /\ reader.at = "accepted" /\ reader.ready => store.files[Delivery!READY] = reader.what

ReadySound ==
  \A d \in Deliveries :
    store.files[Delivery!READY] = d /\ ~ store.lost => Delivery!Holds(d, Delivery!READY)

DeliverySound ==
  /\ DeliveryTyped /\ LockSound /\ ReaderSound /\ ReadySound
  /\ \A p \in Publishers : Progress(pub[p])

DeliveryInv == running = "delivery" => DeliverySound

LEMMA FilesNumbered ==
  /\ LastFile \in Nat \ {0} /\ Delivery!Inventory = LastFile + 1 /\ Delivery!READY = LastFile + 2
  /\ Delivery!Files = 1 .. LastFile + 2
  BY ToolingAssumption DEF Delivery!DeliveryAssumption, Delivery!Inventory, Delivery!READY, Delivery!Files

LEMMA ContentTyped ==
  /\ \A d \in Deliveries, f \in Delivery!Files :
       Delivery!Content(d, f) \in FileStates /\ Delivery!Content(d, f) \notin {"absent", "partial"}
  /\ \A d : Delivery!Content(d, Delivery!Inventory) = d /\ Delivery!Content(d, Delivery!READY) = d
  <1>1. Deliveries \cap {"absent", "partial", "common"} = {}
    BY ToolingAssumption DEF Delivery!DeliveryAssumption
  <1> QED BY <1>1, FilesNumbered DEF Delivery!Content, FileStates

\* What a step without a power loss keeps of the files.
FilesKept ==
  /\ \A f \in Delivery!Files : store.files[f] # "absent" =>
       store'.files[f] = store.files[f] /\ store'.may[f] \subseteq store.may[f]
  /\ store.firm => store'.firm = TRUE
  /\ store'.lost = store.lost

\* A READY that appears completes a delivery.
ReadyKept ==
  store.files[Delivery!READY] = "absent" /\ store'.files[Delivery!READY] \in Deliveries =>
    \A f \in 1 .. Delivery!READY : store'.files[f] = Delivery!Content(store'.files[Delivery!READY], f)

LEMMA WrittenStays ==
  ASSUME FilesKept, NEW r, r.what \in Deliveries, NEW last \in 0 .. Delivery!READY, Written(r, last)
  PROVE  Written(r, last)' /\ (Durable(r, last) => Durable(r, last)')
  <1>1. ASSUME NEW f \in 1 .. last
        PROVE  /\ store'.files[f] = Delivery!Content(r.what, f)
               /\ store'.may[f] \subseteq store.may[f]
    <2>1. f \in Delivery!Files /\ store.files[f] = Delivery!Content(r.what, f)
      BY FilesNumbered DEF Written, Delivery!Holds
    <2> QED BY <2>1, ContentTyped DEF FilesKept
  <1> QED BY <1>1 DEF Written, Durable, Delivery!Holds

LEMMA ProgressStays ==
  ASSUME FilesKept, NEW r \in PubStates, Progress(r)
  PROVE  Progress(r)'
  <1> DEFINE last == IF r.ready THEN Delivery!READY ELSE Delivery!Inventory
  <1>1. /\ r.file \in 0 .. Delivery!READY /\ r.file - 1 \in 0 .. Delivery!READY /\ last \in 0 .. Delivery!READY
        /\ r.file \in Delivery!Files
    BY FilesNumbered DEF PubStates
  <1>2. Finished(r) => Finished(r)'
    BY <1>1, WrittenStays DEF Finished, FilesKept
  <1>3. r.at \in Writing => Written(r, r.file - 1)' /\ Durable(r, r.file - 1)'
    BY <1>1, WrittenStays DEF Progress
  <1>4. r.at \in {"sync", "entry", "parent", "verify"} => Written(r, r.file)'
    BY <1>1, WrittenStays DEF Progress, Writing
  <1>5. r.at \in {"parent", "verify"} => Durable(r, r.file)'
    BY <1>1, WrittenStays DEF Progress
  <1>6. r.at = "entry" /\ ~ r.resume => store'.may[r.file] \subseteq {"absent", Delivery!Content(r.what, r.file)}
    <2> SUFFICES ASSUME r.at = "entry", ~ r.resume
                 PROVE  store'.may[r.file] \subseteq {"absent", Delivery!Content(r.what, r.file)}
      OBVIOUS
    <2>1. /\ r.what \in Deliveries /\ Written(r, r.file)
          /\ store.may[r.file] \subseteq {"absent", Delivery!Content(r.what, r.file)}
      BY DEF Progress, Writing
    <2>2. store.files[r.file] = Delivery!Content(r.what, r.file)
      BY <1>1, <2>1, FilesNumbered DEF Written, Delivery!Holds
    <2>3. store.files[r.file] # "absent"
      BY <1>1, <2>1, <2>2, ContentTyped
    <2> QED BY <1>1, <2>1, <2>3 DEF FilesKept
  <1>7. store'.lost = store.lost /\ (store.firm => store'.firm = TRUE)
    BY DEF FilesKept
  <1> HIDE DEF last
  <1> QED BY <1>2, <1>3, <1>4, <1>5, <1>6, <1>7 DEF Progress

LEMMA ReaderStays ==
  ASSUME DeliverySound, FilesKept, reader' = reader
  PROVE  ReaderSound'
  <1>1. PICK r : r = reader
    OBVIOUS
  <1>2. r.at \in {"list", "leaves", "ready", "accepted"} =>
          r.what \in Deliveries /\ store.files[Delivery!Inventory] = r.what
    BY <1>1 DEF DeliverySound, ReaderSound
  <1>3. /\ Delivery!Inventory \in Delivery!Files /\ Delivery!READY \in Delivery!Files
        /\ Delivery!Inventory \in 0 .. Delivery!READY
    BY FilesNumbered
  <1>4. \A d \in Deliveries : d # "absent"
    BY ToolingAssumption DEF Delivery!DeliveryAssumption
  <1>5. r.at \in {"list", "leaves", "ready", "accepted"} => store'.files[Delivery!Inventory] = r.what
    BY <1>2, <1>3, <1>4 DEF FilesKept
  <1>6. r.at \in {"ready", "accepted"} => Written(r, Delivery!Inventory)'
    <2>1. r.at \in {"ready", "accepted"} => Written(r, Delivery!Inventory)
      BY <1>1 DEF DeliverySound, ReaderSound, Written
    <2> QED BY <1>2, <1>3, <2>1, WrittenStays
  <1>7. r.at = "accepted" /\ r.ready => store'.files[Delivery!READY] = r.what
    BY <1>1, <1>2, <1>3, <1>4 DEF DeliverySound, ReaderSound, FilesKept
  <1> QED BY <1>1, <1>2, <1>5, <1>6, <1>7 DEF ReaderSound, Written, Delivery!Holds

LEMMA ReadyStays ==
  ASSUME DeliverySound, FilesKept, ReadyKept, store' \in StoreStates
  PROVE  ReadySound'
  <1> SUFFICES ASSUME NEW d \in Deliveries, store'.files[Delivery!READY] = d, ~ store'.lost
               PROVE  \A f \in 1 .. Delivery!READY : store'.files[f] = Delivery!Content(d, f)
    BY DEF ReadySound, Delivery!Holds
  <1>1. /\ Delivery!READY \in Delivery!Files /\ Delivery!READY \in 0 .. Delivery!READY
    BY FilesNumbered
  <1>2. CASE store.files[Delivery!READY] = "absent"
    BY <1>2 DEF ReadyKept
  <1>3. CASE store.files[Delivery!READY] # "absent"
    <2>1. store.files[Delivery!READY] = d /\ ~ store.lost
      BY <1>1, <1>3 DEF FilesKept
    <2> DEFINE r == [what |-> d]
    <2>2. Written(r, Delivery!READY)
      BY <2>1 DEF DeliverySound, ReadySound, Written
    <2>3. Written(r, Delivery!READY)'
      BY <1>1, <2>2, WrittenStays
    <2> QED BY <2>3 DEF Written, Delivery!Holds
  <1> QED BY <1>2, <1>3

\* A step of publisher p that does not touch the lock.
LEMMA LockStays ==
  ASSUME LockSound, DeliveryTyped, NEW p \in Publishers, NEW r \in PubStates, pub' = [pub EXCEPT ![p] = r],
         store'.lock = store.lock, store'.stages = store.stages, store'.foreign = store.foreign,
         r.at \in Locked => pub[p].at \in Locked,
         r.at \in {"idle", "lock"} \cup (Locked \ {"capture"}) =>
           pub[p].at \in {"idle", "lock"} \cup (Locked \ {"capture"}),
         r.at \notin {"capture", "captured", "leave"}
  PROVE  LockSound'
  <1>1. pub'[p] = r /\ \A q \in Publishers \ {p} : pub'[q] = pub[q]
    BY DEF DeliveryTyped
  <1>2. \A q \in Publishers : pub'[q].at \in Locked => pub[q].at \in Locked
    BY <1>1
  <1>3. \A q \in Publishers : pub'[q].at \in {"idle", "lock"} \cup (Locked \ {"capture"}) =>
          pub[q].at \in {"idle", "lock"} \cup (Locked \ {"capture"})
    BY <1>1
  <1>4. \A q \in Publishers : pub'[q].at \in {"capture", "captured", "leave"} => pub'[q] = pub[q]
    BY <1>1
  <1> QED BY <1>2, <1>3, <1>4 DEF LockSound

LEMMA PubGoesOn ==
  ASSUME DeliverySound, NEW p \in Publishers, NEW r \in PubStates, pub' = [pub EXCEPT ![p] = r],
         store' \in StoreStates, reader' = reader, FilesKept, ReadyKept, LockSound', Progress(r)'
  PROVE  DeliverySound'
  <1>1. DeliveryTyped'
    BY DEF DeliverySound, DeliveryTyped
  <1>2. ASSUME NEW q \in Publishers
        PROVE  Progress(pub[q])'
    <2>1. CASE q = p
      <3>1. pub'[q] = r
        BY <2>1 DEF DeliverySound, DeliveryTyped
      <3> QED BY <3>1 DEF Progress, Finished, Written, Durable, Delivery!Holds
    <2>2. CASE q # p
      <3>1. PICK s : s = pub[q]
        OBVIOUS
      <3>2. pub'[q] = s /\ s \in PubStates /\ Progress(s)
        BY <2>2, <3>1 DEF DeliverySound, DeliveryTyped
      <3>3. Progress(s)'
        BY <3>2, ProgressStays
      <3> QED BY <3>2, <3>3 DEF Progress, Finished, Written, Durable, Delivery!Holds
    <2> QED BY <2>1, <2>2
  <1> QED BY <1>1, <1>2, ReaderStays, ReadyStays DEF DeliverySound

\* The lock, its stages and the mark of a stranger's aside, nothing changes.
SameFiles ==
  /\ store' \in StoreStates /\ store'.files = store.files /\ store'.firm = store.firm
  /\ \A f \in Delivery!Files : store'.may[f] \subseteq store.may[f]
  /\ store'.lost = store.lost

SameLock ==
  /\ store'.lock = store.lock /\ store'.stages = store.stages /\ store'.foreign = store.foreign

LEMMA SameFilesKept ==
  ASSUME SameFiles
  PROVE  FilesKept /\ ReadyKept
  <1>1. "absent" \notin Deliveries
    BY ToolingAssumption DEF Delivery!DeliveryAssumption
  <1> QED BY <1>1 DEF SameFiles, FilesKept, ReadyKept

LEMMA StoreUnchanged ==
  ASSUME DeliverySound, store' = store
  PROVE  SameFiles /\ SameLock /\ FilesKept /\ ReadyKept
  BY SameFilesKept DEF SameFiles, SameLock, DeliverySound, DeliveryTyped

\* Publisher p goes on with record r, of the same arguments.
Moves(p, r, step, file, result) ==
  /\ pub' = [pub EXCEPT ![p] = r]
  /\ r.at = step /\ r.file = file /\ r.answer = result
  /\ r.what = pub[p].what /\ r.resume = pub[p].resume /\ r.ready = pub[p].ready

LEMMA GotoMoves ==
  ASSUME DeliverySound, NEW p \in Publishers, NEW step \in PubAwaits, Delivery!Goto(p, step)
  PROVE  \E r \in PubStates : Moves(p, r, step, pub[p].file, pub[p].answer)
  <1>1. pub[p] \in PubStates /\ pub \in [Publishers -> PubStates]
    BY DEF DeliverySound, DeliveryTyped
  <1> DEFINE r == [pub[p] EXCEPT !.at = step]
  <1>2. r \in PubStates /\ Moves(p, r, step, pub[p].file, pub[p].answer)
    BY <1>1 DEF PubStates, Delivery!Goto, Moves
  <1> QED BY <1>2

LEMMA ThrowMoves ==
  ASSUME DeliverySound, NEW p \in Publishers, Delivery!Throw(p)
  PROVE  \E r \in PubStates : Moves(p, r, "finally", pub[p].file, "failed")
  <1>1. pub[p] \in PubStates /\ pub \in [Publishers -> PubStates]
    BY DEF DeliverySound, DeliveryTyped
  <1> DEFINE r == [pub[p] EXCEPT !.at = "finally", !.answer = "failed"]
  <1>2. r \in PubStates /\ Moves(p, r, "finally", pub[p].file, "failed")
    BY <1>1 DEF PubStates, PubAwaits, Departing, Delivery!Throw, Moves
  <1> QED BY <1>2

LEMMA EndMoves ==
  ASSUME DeliverySound, NEW p \in Publishers, NEW result \in {"refused", "failed", "published", "lost"},
         Delivery!End(p, result)
  PROVE  \E r \in PubStates : Moves(p, r, "over", pub[p].file, result)
  <1>1. pub[p] \in PubStates /\ pub \in [Publishers -> PubStates]
    BY DEF DeliverySound, DeliveryTyped
  <1> DEFINE r == [pub[p] EXCEPT !.at = "over", !.answer = result]
  <1>2. r \in PubStates /\ Moves(p, r, "over", pub[p].file, result)
    BY <1>1 DEF PubStates, PubAwaits, Delivery!End, Moves
  <1> QED BY <1>2

\* A step that leaves the lock alone, to an await before the lock is given back.
LEMMA StepGoesOn ==
  ASSUME DeliverySound, NEW p \in Publishers, NEW step \in Writing \cup {"parent", "verify", "finally", "stage"},
         NEW file, NEW result, NEW r \in PubStates, Moves(p, r, step, file, result),
         pub[p].at \in Locked \ {"capture"}, reader' = reader, store' \in StoreStates, FilesKept, ReadyKept, SameLock,
         Progress(r)'
  PROVE  DeliverySound'
  <1>1. LockSound'
    BY LockStays DEF DeliverySound, SameLock, Locked, Writing, Moves
  <1> QED BY <1>1, PubGoesOn DEF Moves

LEMMA ThrowPublisherGoesOn ==
  ASSUME DeliverySound, NEW p \in Publishers, Delivery!Throw(p),
         pub[p].at \in Locked \ {"capture"}, reader' = reader, store' \in StoreStates, FilesKept, ReadyKept, SameLock
  PROVE  DeliverySound'
  <1>1. PICK r \in PubStates : Moves(p, r, "finally", pub[p].file, "failed")
    BY ThrowMoves
  <1>2. r.at = "finally" /\ r.answer = "failed"
    BY <1>1 DEF Moves
  <1>3. Progress(r)'
    BY <1>2 DEF Progress, Writing, Departing
  <1> QED BY <1>1, <1>3, StepGoesOn

\* One that ends without the delivery leaves what it has of the lock.
LEMMA EndPublisherGoesOn ==
  ASSUME DeliverySound, NEW p \in Publishers, NEW result \in {"refused", "failed"}, Delivery!End(p, result),
         reader' = reader, SameFiles, store'.foreign = store.foreign,
         store'.lock = store.lock \/ (store.lock = "none" /\ store'.lock = p),
         \A q \in Publishers \ {p} : store'.stages[q] = store.stages[q],
         store.stages[p] = "stranger" => store'.stages[p] = "stranger"
  PROVE  DeliverySound'
  <1>1. PICK r \in PubStates : Moves(p, r, "over", pub[p].file, result)
    BY EndMoves
  <1>2. r.at = "over" /\ r.answer = result /\ pub' = [pub EXCEPT ![p] = r]
    BY <1>1 DEF Moves
  <1>3. Progress(r)'
    BY <1>2 DEF Progress, Writing, Departing
  <1>4. pub'[p] = r /\ \A q \in Publishers \ {p} : pub'[q] = pub[q]
    BY <1>2 DEF DeliverySound, DeliveryTyped
  <1>5. "over" \notin Locked \cup {"idle", "lock", "captured", "leave"}
    BY DEF Locked, Writing
  <1>6. "none" \notin Publishers
    BY ToolingAssumption DEF Delivery!DeliveryAssumption
  <1>7. LockSound'
    <2>1. ASSUME NEW q \in Publishers, pub'[q].at \in Locked \cup {"idle", "lock", "captured", "leave"}
          PROVE  q # p /\ pub'[q] = pub[q] /\ store'.stages[q] = store.stages[q]
      BY <2>1, <1>2, <1>4, <1>5
    <2>2. \A q \in Publishers : pub'[q].at \in Locked => store'.lock \in {q, "stranger"}
      BY <2>1, <1>6 DEF DeliverySound, LockSound
    <2>3. \A q, o \in Publishers : pub'[q].at \in Locked /\ pub'[o].at \in Locked => q = o
      BY <2>1 DEF DeliverySound, LockSound
    <2>4. \A q \in Publishers : pub'[q].at \in {"idle", "lock"} \cup (Locked \ {"capture"}) => store'.stages[q] = "none"
      BY <2>1 DEF DeliverySound, LockSound
    <2>5. /\ \A q \in Publishers : pub'[q].at \in {"capture", "leave"} => store'.stages[q] = "empty"
          /\ \A q \in Publishers : pub'[q].at = "captured" => store'.stages[q] # "none"
      BY <2>1 DEF DeliverySound, LockSound, Locked
    <2>6. store'.foreign => store'.lock = "stranger" \/ \E q \in Publishers : store'.stages[q] = "stranger"
      BY DEF DeliverySound, LockSound
    <2> QED BY <2>2, <2>3, <2>4, <2>5, <2>6 DEF LockSound
  <1> QED BY <1>2, <1>3, <1>7, SameFilesKept, PubGoesOn DEF SameFiles

\* ---- The steps of a publisher.
LEMMA BeginDeliveryGoesOn ==
  ASSUME DeliverySound, NEW p \in Publishers, Delivery!Begin(p), reader' = reader
  PROVE  DeliverySound'
  <1>1. PICK d \in Deliveries, resume \in BOOLEAN, ready \in BOOLEAN :
          /\ store' = [store EXCEPT !.made = @ \/ ~ resume]
          /\ pub' = [pub EXCEPT ![p] =
               IF store.made = resume
               THEN [Delivery!NotBegun EXCEPT !.at = "lock", !.what = d, !.resume = resume, !.ready = ready]
               ELSE [Delivery!NotBegun EXCEPT !.at = "over", !.answer = "refused"]]
    BY DEF Delivery!Begin
  <1>2. SameFiles /\ SameLock
    BY <1>1 DEF SameFiles, SameLock, DeliverySound, DeliveryTyped, StoreStates
  <1>3. PICK r : r = IF store.made = resume
               THEN [Delivery!NotBegun EXCEPT !.at = "lock", !.what = d, !.resume = resume, !.ready = ready]
               ELSE [Delivery!NotBegun EXCEPT !.at = "over", !.answer = "refused"]
    OBVIOUS
  <1>4. /\ r.at \in {"lock", "over"} /\ r.answer \in {"none", "refused"} /\ r.file = 1
        /\ r.at = "lock" => r.what \in Deliveries /\ r.answer = "none"
        /\ r \in PubStates
    <2>1. 1 \in Delivery!Files /\ {"lock", "over"} \subseteq PubAwaits
      BY FilesNumbered DEF PubAwaits
    <2>2. r = [at |-> "lock", file |-> 1, what |-> d, resume |-> resume, ready |-> ready, answer |-> "none"]
            \/ r = [at |-> "over", file |-> 1, what |-> "none", resume |-> FALSE, ready |-> FALSE, answer |-> "refused"]
      BY <1>3 DEF Delivery!NotBegun
    <2>3. CASE r = [at |-> "lock", file |-> 1, what |-> d, resume |-> resume, ready |-> ready, answer |-> "none"]
      BY <2>1, <2>3 DEF PubStates
    <2>4. CASE r = [at |-> "over", file |-> 1, what |-> "none", resume |-> FALSE, ready |-> FALSE, answer |-> "refused"]
      BY <2>1, <2>4 DEF PubStates
    <2> QED BY <2>2, <2>3, <2>4
  <1>5. Progress(r)'
    BY <1>4 DEF Progress, Writing, Departing
  <1>6. pub' = [pub EXCEPT ![p] = r]
    BY <1>1, <1>3
  <1>7. LockSound'
    BY <1>2, <1>4, <1>6, LockStays DEF DeliverySound, SameLock, Locked, Writing, Delivery!Begin
  <1> QED BY <1>2, <1>4, <1>5, <1>6, <1>7, SameFilesKept, PubGoesOn DEF SameFiles

LEMMA TakeLockGoesOn ==
  ASSUME DeliverySound, NEW p \in Publishers, Delivery!TakeLock(p), reader' = reader
  PROVE  DeliverySound'
  <1>1. CASE UNCHANGED store /\ Delivery!End(p, "refused")
    BY <1>1, StoreUnchanged, EndPublisherGoesOn DEF SameLock
  <1>2. ASSUME store.lock = "none", store' = [store EXCEPT !.lock = p]
        PROVE  /\ SameFiles /\ store'.lock = p
               /\ store'.stages = store.stages /\ store'.foreign = store.foreign
    BY <1>2 DEF DeliverySound, DeliveryTyped, StoreStates, SameFiles, Locks
  <1>3. CASE store.lock = "none" /\ store' = [store EXCEPT !.lock = p] /\ Delivery!End(p, "failed")
    BY <1>2, <1>3, EndPublisherGoesOn
  <1>4. CASE store.lock = "none" /\ store' = [store EXCEPT !.lock = p] /\ Delivery!Goto(p, "list")
    <2>1. PICK r \in PubStates : Moves(p, r, "list", pub[p].file, pub[p].answer)
      BY <1>4, GotoMoves DEF PubAwaits, Locked
    <2>2. pub'[p] = r /\ r.at = "list" /\ \A q \in Publishers \ {p} : pub'[q] = pub[q]
      BY <2>1 DEF Moves, DeliverySound, DeliveryTyped
    <2>3. "none" \notin Publishers
      BY ToolingAssumption DEF Delivery!DeliveryAssumption
    <2>4. \A q \in Publishers : pub[q].at \notin Locked
      BY <1>4, <2>3 DEF DeliverySound, LockSound
    <2>5. store.stages[p] = "none" /\ pub[p].at = "lock"
      BY DEF Delivery!TakeLock, DeliverySound, LockSound
    <2>6. LockSound'
      BY <1>2, <1>4, <2>2, <2>4, <2>5 DEF DeliverySound, LockSound
    <2>7. r.file = 1 /\ r.what \in Deliveries /\ r.answer = "none"
      BY <2>1, <2>5 DEF Moves, DeliverySound, Progress
    <2>8. Progress(r)'
      BY <2>2, <2>7 DEF Progress, Writing, Departing
    <2> QED BY <1>2, <1>4, <2>1, <2>6, <2>8, SameFilesKept, PubGoesOn DEF SameFiles, Moves
  <1> QED BY <1>1, <1>3, <1>4 DEF Delivery!TakeLock

LEMMA ListGoesOn ==
  ASSUME DeliverySound, NEW p \in Publishers, Delivery!List(p), reader' = reader
  PROVE  DeliverySound'
  <1>1. pub[p].at = "list" /\ pub[p].at \in Locked \ {"capture"}
    BY DEF Delivery!List, Locked
  <1>2. SameFiles /\ SameLock /\ FilesKept /\ ReadyKept /\ store' \in StoreStates
    BY StoreUnchanged DEF Delivery!List, SameFiles
  <1>3. CASE Delivery!Throw(p)
    BY <1>1, <1>2, <1>3, ThrowPublisherGoesOn
  <1>4. CASE Delivery!Goto(p, "write")
    <2>1. PICK r \in PubStates : Moves(p, r, "write", pub[p].file, pub[p].answer)
      BY <1>4, GotoMoves DEF PubAwaits, Locked, Writing
    <2>2. r.at = "write" /\ r.file = 1 /\ r.what \in Deliveries /\ r.answer = "none"
      BY <1>1, <2>1 DEF Moves, DeliverySound, Progress
    <2>3. r.file # Delivery!READY
      BY <2>2, FilesNumbered
    <2>4. Written(r, r.file - 1)' /\ Durable(r, r.file - 1)'
      BY <2>2 DEF Written, Durable, Delivery!Holds
    <2>5. Progress(r)'
      BY <2>2, <2>3, <2>4 DEF Progress, Departing
    <2> QED BY <1>1, <1>2, <2>1, <2>5, StepGoesOn DEF Writing
  <1> QED BY <1>3, <1>4 DEF Delivery!List

\* Whatever is put where there was nothing.
LEMMA PutKeeps ==
  ASSUME DeliverySound, NEW f \in Delivery!Files, NEW content \in FileStates, Delivery!Put(f, content),
         store.files[f] = "absent"
  PROVE  /\ store' \in StoreStates /\ SameLock /\ FilesKept
         /\ store'.files[f] = content
         /\ \A g \in Delivery!Files \ {f} : store'.files[g] = store.files[g]
  <1>1. store \in StoreStates
    BY DEF DeliverySound, DeliveryTyped
  <1>2. store.files \in [Delivery!Files -> FileStates] /\ store.may \in [Delivery!Files -> SUBSET FileStates]
    BY <1>1 DEF StoreStates
  <1>3. /\ store'.files = [store.files EXCEPT ![f] = content]
        /\ store'.may = [store.may EXCEPT ![f] = @ \cup {"partial", content}]
        /\ SameLock /\ store'.firm = store.firm /\ store'.lost = store.lost /\ store'.made = store.made
    BY <1>1 DEF StoreStates, Delivery!Put, SameLock
  <1>4. store'.files \in [Delivery!Files -> FileStates] /\ store'.may \in [Delivery!Files -> SUBSET FileStates]
    BY <1>2, <1>3 DEF FileStates
  <1>5. store' \in StoreStates
    <2>1. store' = [store EXCEPT !.files = store'.files, !.may = store'.may]
      BY <1>1 DEF StoreStates, Delivery!Put
    <2> QED BY <1>1, <1>4, <2>1 DEF StoreStates
  <1>6. \A g \in Delivery!Files \ {f} : store'.files[g] = store.files[g] /\ store'.may[g] = store.may[g]
    BY <1>2, <1>3
  <1>7. store'.files[f] = content
    BY <1>2, <1>3
  <1>8. FilesKept
    BY <1>3, <1>6 DEF FilesKept
  <1> QED BY <1>3, <1>5, <1>6, <1>7, <1>8

LEMMA FileOfPublisher ==
  ASSUME DeliverySound, NEW p \in Publishers
  PROVE  /\ pub[p] \in PubStates /\ Progress(pub[p])
         /\ pub[p].file \in Delivery!Files /\ pub[p].file \in 1 .. Delivery!READY
         /\ pub[p].file \in 0 .. Delivery!READY /\ pub[p].file - 1 \in 0 .. Delivery!READY
  BY FilesNumbered DEF DeliverySound, DeliveryTyped, PubStates

\* A publisher at a file has written those before it; what it puts there, or
\* finds there, is its own.
LEMMA OneMoreWritten ==
  ASSUME DeliverySound, FilesKept, NEW p \in Publishers, pub[p].at = "write",
         NEW r, r.what = pub[p].what, r.file = pub[p].file, r.resume = pub[p].resume,
         store'.files[r.file] = Delivery!Content(r.what, r.file)
  PROVE  Written(r, r.file)' /\ Durable(r, r.file - 1)'
  <1>1. Written(r, r.file - 1) /\ Durable(r, r.file - 1) /\ r.what \in Deliveries
    BY FileOfPublisher DEF Progress, Writing, Written, Durable
  <1>2. r.file - 1 \in 0 .. Delivery!READY /\ r.file \in 1 .. Delivery!READY /\ Delivery!READY \in Nat
    BY FileOfPublisher, FilesNumbered
  <1>3. Written(r, r.file - 1)' /\ Durable(r, r.file - 1)'
    BY <1>1, <1>2, WrittenStays
  <1>4. \A f \in 1 .. r.file : f \in 1 .. (r.file - 1) \/ f = r.file
    BY <1>2
  <1> QED BY <1>3, <1>4 DEF Written, Delivery!Holds

LEMMA WriteGoesOn ==
  ASSUME DeliverySound, NEW p \in Publishers, Delivery!Write(p), reader' = reader
  PROVE  DeliverySound'
  <1>1. PICK f, content : f = pub[p].file /\ content = Delivery!Content(pub[p].what, f)
    OBVIOUS
  <1>2. /\ pub[p].at = "write" /\ pub[p].at \in Locked \ {"capture"}
        /\ f \in Delivery!Files /\ pub[p].what \in Deliveries /\ pub[p].answer = "none"
    BY <1>1, FileOfPublisher DEF Delivery!Write, Locked, Writing, Progress
  <1>3. content \in FileStates /\ content \notin {"absent", "partial"}
    BY <1>1, <1>2, ContentTyped
  <1>4. "absent" \notin Deliveries /\ "partial" \notin Deliveries /\ Delivery!READY \in Delivery!Files
    BY ToolingAssumption, FilesNumbered DEF Delivery!DeliveryAssumption
  <1>5. CASE store.files[f] = "absent" /\ Delivery!Put(f, content) /\ (Delivery!Goto(p, "sync") \/ Delivery!Throw(p))
    <2>1. /\ store' \in StoreStates /\ SameLock /\ FilesKept
          /\ store'.files[f] = content
          /\ \A g \in Delivery!Files \ {f} : store'.files[g] = store.files[g]
      BY <1>2, <1>3, <1>5, PutKeeps
    <2>2. PICK s : s = pub[p]
      OBVIOUS
    <2>3. Written(s, s.file)' /\ Durable(s, s.file - 1)'
      BY <1>1, <1>2, <2>1, <2>2, OneMoreWritten
    <2>4. ReadyKept
      <3> SUFFICES ASSUME store.files[Delivery!READY] = "absent", store'.files[Delivery!READY] \in Deliveries
                   PROVE  \A g \in 1 .. Delivery!READY :
                            store'.files[g] = Delivery!Content(store'.files[Delivery!READY], g)
        BY DEF ReadyKept
      <3>1. f = Delivery!READY
        BY <1>4, <2>1
      <3>2. store'.files[Delivery!READY] = s.what
        BY <1>1, <1>2, <2>1, <2>2, <3>1, ContentTyped
      <3> QED BY <1>1, <2>2, <2>3, <3>1, <3>2 DEF Written, Delivery!Holds
    <2>5. CASE Delivery!Throw(p)
      BY <1>2, <2>1, <2>4, <2>5, ThrowPublisherGoesOn
    <2>6. CASE Delivery!Goto(p, "sync")
      <3>1. PICK r \in PubStates : Moves(p, r, "sync", pub[p].file, pub[p].answer)
        BY <2>6, GotoMoves DEF PubAwaits, Locked, Writing
      <3>2. /\ r.at = "sync" /\ r.file = f /\ r.answer = "none" /\ r.what = pub[p].what
            /\ r.resume = pub[p].resume /\ r.ready = pub[p].ready
        BY <1>1, <1>2, <3>1 DEF Moves
      <3>3. Written(r, r.file)' /\ Durable(r, r.file - 1)'
        BY <1>1, <1>2, <2>1, <3>2, OneMoreWritten
      <3>4. Written(r, r.file - 1)'
        <4>1. \A g \in 1 .. (r.file - 1) : g \in 1 .. r.file
          BY <1>2, <3>2, FilesNumbered
        <4> QED BY <3>3, <4>1 DEF Written, Delivery!Holds
      <3>5. r.file = Delivery!READY => store'.firm
        <4>1. pub[p].file = Delivery!READY => store.firm
          BY <1>2, FileOfPublisher DEF Progress, Writing
        <4> QED BY <1>1, <2>1, <3>2, <4>1 DEF FilesKept
      <3>6. Progress(r)'
        BY <1>2, <3>2, <3>3, <3>4, <3>5 DEF Progress, Departing
      <3> QED BY <1>2, <2>1, <2>4, <3>1, <3>6, StepGoesOn DEF Writing
    <2> QED BY <1>5, <2>5, <2>6
  <1>6. CASE store.files[f] = "absent" /\ Delivery!Put(f, "partial") /\ Delivery!Throw(p)
    <2>1. /\ store' \in StoreStates /\ SameLock /\ FilesKept
          /\ store'.files[f] = "partial"
          /\ \A g \in Delivery!Files \ {f} : store'.files[g] = store.files[g]
      BY <1>2, <1>6, PutKeeps DEF FileStates
    <2>2. ReadyKept
      BY <1>4, <2>1 DEF ReadyKept
    <2> QED BY <1>2, <1>6, <2>1, <2>2, ThrowPublisherGoesOn
  <1>7. CASE UNCHANGED store /\ store.files[f] = content /\ pub[p].resume /\ Delivery!Goto(p, "entry")
    <2>1. SameFiles /\ SameLock /\ FilesKept /\ ReadyKept /\ store' \in StoreStates
      BY <1>7, StoreUnchanged DEF SameFiles
    <2>2. PICK r \in PubStates : Moves(p, r, "entry", pub[p].file, pub[p].answer)
      BY <1>7, GotoMoves DEF PubAwaits, Locked, Writing
    <2>3. /\ r.at = "entry" /\ r.file = f /\ r.answer = "none" /\ r.what = pub[p].what
          /\ r.resume = pub[p].resume /\ r.ready = pub[p].ready
      BY <1>1, <1>2, <2>2 DEF Moves
    <2>4. Written(r, r.file)' /\ Durable(r, r.file - 1)'
      BY <1>1, <1>2, <1>7, <2>1, <2>3, OneMoreWritten
    <2>5. Written(r, r.file - 1)'
      <3>1. \A g \in 1 .. (r.file - 1) : g \in 1 .. r.file
        BY <1>2, <2>3, FilesNumbered
      <3> QED BY <2>4, <3>1 DEF Written, Delivery!Holds
    <2>6. r.file = Delivery!READY => store'.firm
      <3>1. pub[p].file = Delivery!READY => store.firm
        BY <1>2, FileOfPublisher DEF Progress, Writing
      <3> QED BY <1>1, <1>7, <2>3, <3>1
    <2>7. Progress(r)'
      BY <1>2, <1>7, <2>3, <2>4, <2>5, <2>6 DEF Progress, Departing
    <2> QED BY <1>2, <2>1, <2>2, <2>7, StepGoesOn DEF Writing
  <1>8. CASE UNCHANGED store /\ Delivery!Throw(p)
    BY <1>2, <1>8, StoreUnchanged, ThrowPublisherGoesOn DEF SameFiles
  <1> QED BY <1>1, <1>5, <1>6, <1>7, <1>8 DEF Delivery!Write, Delivery!Present

LEMMA SyncFileGoesOn ==
  ASSUME DeliverySound, NEW p \in Publishers, Delivery!SyncFile(p), reader' = reader
  PROVE  DeliverySound'
  <1>1. PICK s : s = pub[p]
    OBVIOUS
  <1>2. /\ s.at = "sync" /\ s.at \in Locked \ {"capture"} /\ s.what \in Deliveries /\ s.answer = "none"
        /\ Written(s, s.file) /\ Written(s, s.file - 1) /\ Durable(s, s.file - 1)
        /\ s.file = Delivery!READY => store.firm
    BY <1>1, FileOfPublisher DEF Delivery!SyncFile, Locked, Writing, Progress
  <1>3. CASE UNCHANGED store /\ Delivery!Throw(p)
    BY <1>1, <1>2, <1>3, StoreUnchanged, ThrowPublisherGoesOn DEF SameFiles
  <1>4. CASE store' = [store EXCEPT !.may[s.file] = @ \cap {"absent", store.files[s.file]}]
    <2>1. store \in StoreStates /\ store.may \in [Delivery!Files -> SUBSET FileStates]
      BY DEF DeliverySound, DeliveryTyped, StoreStates
    <2>2. s.file \in Delivery!Files
      BY <1>1, FileOfPublisher
    <2>3. PICK may : may = [store.may EXCEPT ![s.file] = @ \cap {"absent", store.files[s.file]}]
      OBVIOUS
    <2>4. may \in [Delivery!Files -> SUBSET FileStates] /\ \A f \in Delivery!Files : may[f] \subseteq store.may[f]
      BY <2>1, <2>2, <2>3
    <2>5. may[s.file] \subseteq {"absent", store.files[s.file]}
      BY <2>1, <2>2, <2>3
    <2>6. store' = [store EXCEPT !.may = may]
      BY <1>4, <2>1, <2>3 DEF StoreStates
    <2>7. SameFiles /\ SameLock /\ store'.may = may
      BY <2>1, <2>4, <2>6 DEF SameFiles, SameLock, StoreStates
    <2>8. FilesKept /\ ReadyKept /\ store' \in StoreStates
      BY <2>7, SameFilesKept DEF SameFiles
    <2>9. CASE Delivery!Throw(p)
      BY <1>1, <1>2, <2>7, <2>8, <2>9, ThrowPublisherGoesOn
    <2>10. CASE Delivery!Goto(p, "entry")
      <3>1. PICK r \in PubStates : Moves(p, r, "entry", pub[p].file, pub[p].answer)
        BY <2>10, GotoMoves DEF PubAwaits, Locked, Writing
      <3>2. /\ r.at = "entry" /\ r.file = s.file /\ r.answer = "none" /\ r.what = s.what
            /\ r.resume = s.resume /\ r.ready = s.ready
        BY <1>1, <1>2, <3>1 DEF Moves
      <3>3. Written(r, r.file) /\ Written(r, r.file - 1) /\ Durable(r, r.file - 1)
        BY <1>2, <3>2 DEF Written, Durable
      <3>4. /\ r.file \in Delivery!Files /\ r.file \in 1 .. r.file
            /\ r.file \in 0 .. Delivery!READY /\ r.file - 1 \in 0 .. Delivery!READY
        BY <1>1, <3>2, FileOfPublisher, FilesNumbered
      <3>5. Written(r, r.file)' /\ Written(r, r.file - 1)' /\ Durable(r, r.file - 1)'
        BY <1>2, <2>8, <3>2, <3>3, <3>4, WrittenStays
      <3>6. store'.may[r.file] \subseteq {"absent", Delivery!Content(r.what, r.file)}
        BY <2>5, <2>7, <3>2, <3>3, <3>4 DEF Written, Delivery!Holds
      <3>7. r.file = Delivery!READY => store'.firm
        BY <1>2, <2>8, <3>2 DEF FilesKept
      <3>8. Progress(r)'
        BY <1>2, <3>2, <3>5, <3>6, <3>7 DEF Progress, Departing
      <3> QED BY <1>1, <1>2, <2>7, <2>8, <3>1, <3>8, StepGoesOn DEF Writing
    <2> QED BY <1>1, <2>9, <2>10, <1>3 DEF Delivery!SyncFile
  <1> QED BY <1>1, <1>3, <1>4 DEF Delivery!SyncFile

LEMMA SyncEntryGoesOn ==
  ASSUME DeliverySound, NEW p \in Publishers, Delivery!SyncEntry(p), reader' = reader
  PROVE  DeliverySound'
  <1>1. PICK s : s = pub[p]
    OBVIOUS
  <1>2. /\ s.at = "entry" /\ s.at \in Locked \ {"capture"} /\ s.what \in Deliveries /\ s.answer = "none"
        /\ Written(s, s.file) /\ Durable(s, s.file - 1)
        /\ s.file = Delivery!READY => store.firm
        /\ ~ s.resume => store.may[s.file] \subseteq {"absent", Delivery!Content(s.what, s.file)}
    BY <1>1, FileOfPublisher DEF Delivery!SyncEntry, Locked, Writing, Progress
  <1>3. CASE UNCHANGED store /\ Delivery!Throw(p)
    BY <1>1, <1>2, <1>3, StoreUnchanged, ThrowPublisherGoesOn DEF SameFiles
  <1>4. CASE ~ (UNCHANGED store /\ Delivery!Throw(p))
    <2>1. store \in StoreStates /\ store.may \in [Delivery!Files -> SUBSET FileStates]
      BY DEF DeliverySound, DeliveryTyped, StoreStates
    <2>2. PICK may : may = [f \in Delivery!Files |->
                              IF Delivery!Present(f) THEN store.may[f] \ {"absent"} ELSE store.may[f]]
      OBVIOUS
    <2>3. may \in [Delivery!Files -> SUBSET FileStates] /\ \A f \in Delivery!Files : may[f] \subseteq store.may[f]
      BY <2>1, <2>2
    <2>4. store' = [store EXCEPT !.may = may]
      BY <1>4, <2>1, <2>2 DEF StoreStates, Delivery!SyncEntry
    <2>5. SameFiles /\ SameLock /\ store'.may = may
      BY <2>1, <2>3, <2>4 DEF SameFiles, SameLock, StoreStates
    <2>6. FilesKept /\ ReadyKept /\ store' \in StoreStates
      BY <2>5, SameFilesKept DEF SameFiles
    <2>7. /\ s.file \in Delivery!Files /\ s.file \in 1 .. s.file
          /\ s.file \in 0 .. Delivery!READY /\ s.file - 1 \in 0 .. Delivery!READY
      BY <1>1, FileOfPublisher, FilesNumbered
    <2>8. Written(s, s.file)' /\ Durable(s, s.file)'
      <3>1. Written(s, s.file)' /\ Durable(s, s.file - 1)'
        <4>1. Written(s, s.file - 1)
          <5>1. \A f \in 1 .. (s.file - 1) : f \in 1 .. s.file
            BY <2>7, FilesNumbered
          <5> QED BY <1>2, <5>1 DEF Written, Delivery!Holds
        <4> QED BY <1>2, <2>6, <2>7, <4>1, WrittenStays
      <3>2. ~ s.resume => store'.may[s.file] \subseteq {Delivery!Content(s.what, s.file)}
        <4>1. store.files[s.file] = Delivery!Content(s.what, s.file)
          BY <1>2, <2>7 DEF Written, Delivery!Holds
        <4>2. Delivery!Present(s.file)
          BY <1>2, <2>7, <4>1, ContentTyped DEF Delivery!Present
        <4>3. store'.may[s.file] = store.may[s.file] \ {"absent"}
          BY <2>2, <2>5, <2>7, <4>2
        <4> QED BY <1>2, <4>3
      <3>3. \A f \in 1 .. s.file : f \in 1 .. (s.file - 1) \/ f = s.file
        BY <2>7, FilesNumbered
      <3> QED BY <3>1, <3>2, <3>3 DEF Durable
    <2>9. ASSUME NEW r \in PubStates, r.what = s.what, r.resume = s.resume, r.file = s.file
          PROVE  Written(r, r.file)' /\ Durable(r, r.file)'
      BY <2>8, <2>9 DEF Written, Durable, Delivery!Holds
    <2>10. CASE s.file < Delivery!Inventory /\ pub' = [pub EXCEPT ![p].at = "write", ![p].file = @ + 1]
      <3>1. PICK r : r = [s EXCEPT !.at = "write", !.file = @ + 1]
        OBVIOUS
      <3>2. s \in PubStates /\ s.file + 1 \in Delivery!Files
        BY <1>1, <2>7, <2>10, FileOfPublisher, FilesNumbered
      <3>3. /\ r \in PubStates /\ r.at = "write" /\ r.file = s.file + 1 /\ r.answer = s.answer
            /\ r.what = s.what /\ r.resume = s.resume /\ r.ready = s.ready
        <4>1. "write" \in PubAwaits
          BY DEF PubAwaits, Locked, Writing
        <4> QED BY <3>1, <3>2, <4>1 DEF PubStates
      <3>4. pub' = [pub EXCEPT ![p] = r]
        BY <1>1, <2>10, <3>1, <3>2 DEF DeliverySound, DeliveryTyped, PubStates
      <3>5. Moves(p, r, "write", s.file + 1, "none")
        BY <1>1, <1>2, <3>3, <3>4 DEF Moves
      <3>6. Written(r, r.file - 1)' /\ Durable(r, r.file - 1)'
        <4>1. r.file - 1 = s.file
          BY <2>7, <3>3, FilesNumbered
        <4> QED BY <2>8, <3>3, <4>1 DEF Written, Durable, Delivery!Holds
      <3>7. r.file # Delivery!READY
        BY <2>7, <2>10, <3>3, FilesNumbered
      <3>8. Progress(r)'
        BY <1>2, <3>3, <3>6, <3>7 DEF Progress, Departing
      <3> QED BY <1>1, <1>2, <2>5, <2>6, <3>3, <3>5, <3>8, StepGoesOn DEF Writing
    <2>11. CASE s.file = Delivery!Inventory /\ Delivery!Goto(p, "parent")
      <3>1. PICK r \in PubStates : Moves(p, r, "parent", pub[p].file, pub[p].answer)
        BY <2>11, GotoMoves DEF PubAwaits, Locked, Writing
      <3>2. /\ r.at = "parent" /\ r.file = s.file /\ r.answer = "none" /\ r.what = s.what
            /\ r.resume = s.resume /\ r.ready = s.ready
        BY <1>1, <1>2, <3>1 DEF Moves
      <3>3. Progress(r)'
        BY <1>2, <2>9, <2>11, <3>2 DEF Progress, Departing, Writing
      <3> QED BY <1>1, <1>2, <2>5, <2>6, <3>1, <3>3, StepGoesOn
    <2>12. CASE s.file = Delivery!READY /\ Delivery!Goto(p, "verify")
      <3>1. PICK r \in PubStates : Moves(p, r, "verify", pub[p].file, pub[p].answer)
        BY <2>12, GotoMoves DEF PubAwaits, Locked, Writing
      <3>2. /\ r.at = "verify" /\ r.file = s.file /\ r.answer = "none" /\ r.what = s.what
            /\ r.resume = s.resume /\ r.ready = s.ready
        BY <1>1, <1>2, <3>1 DEF Moves
      <3>3. store'.firm
        BY <1>2, <2>6, <2>12 DEF FilesKept
      <3>4. Progress(r)'
        BY <1>2, <2>9, <2>12, <3>2, <3>3 DEF Progress, Departing, Writing
      <3> QED BY <1>1, <1>2, <2>5, <2>6, <3>1, <3>4, StepGoesOn
    <2> QED BY <1>1, <1>4, <2>10, <2>11, <2>12 DEF Delivery!SyncEntry
  <1> QED BY <1>3, <1>4

LEMMA SyncParentGoesOn ==
  ASSUME DeliverySound, NEW p \in Publishers, Delivery!SyncParent(p), reader' = reader
  PROVE  DeliverySound'
  <1>1. PICK s : s = pub[p]
    OBVIOUS
  <1>2. /\ s.at = "parent" /\ s.at \in Locked \ {"capture"} /\ s.what \in Deliveries /\ s.answer = "none"
        /\ Written(s, s.file) /\ Durable(s, s.file) /\ s.file = Delivery!Inventory /\ s.ready \in BOOLEAN
    BY <1>1, FileOfPublisher DEF Delivery!SyncParent, Locked, Writing, Progress, PubStates
  <1>3. CASE UNCHANGED store /\ Delivery!Throw(p)
    BY <1>1, <1>2, <1>3, StoreUnchanged, ThrowPublisherGoesOn DEF SameFiles
  <1>4. CASE store' = [store EXCEPT !.firm = TRUE] /\ Delivery!Goto(p, IF s.ready THEN "verify" ELSE "finally")
    <2>1. store \in StoreStates
      BY DEF DeliverySound, DeliveryTyped
    <2>2. /\ store' \in StoreStates /\ SameLock /\ store'.firm = TRUE
          /\ store'.files = store.files /\ store'.may = store.may /\ store'.lost = store.lost
      BY <1>4, <2>1 DEF StoreStates, SameLock
    <2>3. FilesKept /\ ReadyKept
      <3>1. "absent" \notin Deliveries
        BY ToolingAssumption DEF Delivery!DeliveryAssumption
      <3> QED BY <2>2, <3>1 DEF FilesKept, ReadyKept
    <2>4. PICK step \in {"verify", "finally"} : step = IF s.ready THEN "verify" ELSE "finally"
      OBVIOUS
    <2>5. PICK r \in PubStates : Moves(p, r, step, pub[p].file, pub[p].answer)
      BY <1>4, <2>4, GotoMoves DEF PubAwaits, Locked
    <2>6. /\ r.at = step /\ r.file = Delivery!Inventory /\ r.answer = "none" /\ r.what = s.what
          /\ r.resume = s.resume /\ r.ready = s.ready
      BY <1>1, <1>2, <2>5 DEF Moves
    <2>7. Written(r, Delivery!Inventory)' /\ Durable(r, Delivery!Inventory)'
      BY <1>2, <2>2, <2>6 DEF Written, Durable, Delivery!Holds
    <2>8. step = "finally" => Finished(r)'
      BY <1>2, <2>2, <2>4, <2>6, <2>7 DEF Finished
    <2>9. Progress(r)'
      <3>1. CASE step = "verify"
        BY <1>2, <2>2, <2>6, <2>7, <3>1 DEF Progress, Writing, Departing
      <3>2. CASE step = "finally"
        BY <2>6, <2>8, <3>2 DEF Progress, Writing
      <3> QED BY <3>1, <3>2
    <2> QED BY <1>1, <1>2, <2>2, <2>3, <2>5, <2>9, StepGoesOn
  <1> QED BY <1>1, <1>3, <1>4 DEF Delivery!SyncParent

LEMMA VerifyGoesOn ==
  ASSUME DeliverySound, NEW p \in Publishers, Delivery!Verify(p), reader' = reader
  PROVE  DeliverySound'
  <1>1. PICK s : s = pub[p]
    OBVIOUS
  <1>2. /\ s.at = "verify" /\ s.at \in Locked \ {"capture"} /\ s.what \in Deliveries /\ s.answer = "none"
        /\ Written(s, s.file) /\ Durable(s, s.file) /\ s.file \in {Delivery!Inventory, Delivery!READY}
        /\ store.firm /\ s.ready \in BOOLEAN /\ s \in PubStates
    BY <1>1, FileOfPublisher DEF Delivery!Verify, Locked, Writing, Progress, PubStates
  <1>3. store' = store /\ SameLock /\ FilesKept /\ ReadyKept /\ store' \in StoreStates
    BY StoreUnchanged DEF Delivery!Verify, SameFiles
  <1>4. CASE Delivery!Throw(p)
    BY <1>1, <1>2, <1>3, <1>4, ThrowPublisherGoesOn
  <1>5. \A f \in 1 .. Delivery!Inventory : f \in 1 .. s.file
    BY <1>2, FilesNumbered
  <1>6. CASE s.file = Delivery!READY /\ Delivery!Goto(p, "finally")
    <2>1. PICK r \in PubStates : Moves(p, r, "finally", pub[p].file, pub[p].answer)
      BY <1>6, GotoMoves DEF PubAwaits, Locked
    <2>2. /\ r.at = "finally" /\ r.file = Delivery!READY /\ r.answer = "none" /\ r.what = s.what
          /\ r.resume = s.resume /\ r.ready = s.ready
      BY <1>1, <1>2, <1>6, <2>1 DEF Moves
    <2>3. Finished(r)
      BY <1>2, <1>5, <1>6, <2>2 DEF Finished, Written, Durable, Delivery!Holds
    <2>4. Finished(r)'
      BY <1>3, <2>3 DEF Finished, Written, Durable, Delivery!Holds
    <2>5. Progress(r)'
      BY <2>2, <2>4 DEF Progress, Writing
    <2> QED BY <1>1, <1>2, <1>3, <2>1, <2>5, StepGoesOn
  <1>7. CASE s.file # Delivery!READY /\ pub' = [pub EXCEPT ![p].at = "write", ![p].file = Delivery!READY]
    <2>1. PICK r : r = [s EXCEPT !.at = "write", !.file = Delivery!READY]
      OBVIOUS
    <2>2. /\ r \in PubStates /\ r.at = "write" /\ r.file = Delivery!READY /\ r.answer = s.answer
          /\ r.what = s.what /\ r.resume = s.resume /\ r.ready = s.ready
      <3>1. s \in PubStates /\ "write" \in PubAwaits /\ Delivery!READY \in Delivery!Files
        BY <1>2, FilesNumbered DEF PubAwaits, Locked, Writing
      <3> QED BY <2>1, <3>1 DEF PubStates
    <2>3. pub' = [pub EXCEPT ![p] = r]
      BY <1>1, <1>2, <1>7, <2>1 DEF DeliverySound, DeliveryTyped, PubStates
    <2>4. Moves(p, r, "write", Delivery!READY, "none")
      BY <1>1, <1>2, <2>2, <2>3 DEF Moves
    <2>5. r.file - 1 = s.file
      BY <1>2, <1>7, <2>2, FilesNumbered
    <2>6. Written(r, r.file - 1)' /\ Durable(r, r.file - 1)'
      BY <1>2, <1>3, <2>2, <2>5 DEF Written, Durable, Delivery!Holds
    <2>7. Progress(r)'
      BY <1>2, <1>3, <2>2, <2>6 DEF Progress, Departing
    <2> QED BY <1>1, <1>2, <1>3, <2>2, <2>4, <2>7, StepGoesOn DEF Writing
  <1> QED BY <1>1, <1>4, <1>6, <1>7 DEF Delivery!Verify

\* Whoever gives the lock back carries what it finished.
LEMMA DepartingGoesOn ==
  ASSUME DeliverySound, NEW p \in Publishers, NEW step \in Departing, Delivery!Goto(p, step),
         pub[p].at \in Departing, SameFiles, reader' = reader,
         ASSUME NEW r, pub' = [pub EXCEPT ![p] = r], r.at = step
         PROVE  LockSound'
  PROVE  DeliverySound'
  <1>1. PICK s : s = pub[p]
    OBVIOUS
  <1>2. PICK r \in PubStates : Moves(p, r, step, pub[p].file, pub[p].answer)
    BY GotoMoves DEF PubAwaits
  <1>3. /\ r.at = step /\ r.file = s.file /\ r.answer = s.answer /\ r.what = s.what
        /\ r.resume = s.resume /\ r.ready = s.ready
    BY <1>1, <1>2 DEF Moves
  <1>4. LockSound'
    BY <1>2 DEF Moves
  <1>5. FilesKept /\ ReadyKept /\ store' \in StoreStates
    BY SameFilesKept DEF SameFiles
  <1>6. s \in PubStates /\ Progress(s) /\ s.at \in Departing
    BY <1>1, FileOfPublisher
  <1>7. Progress(s)'
    BY <1>5, <1>6, ProgressStays
  <1>8. (s.answer = "none" => Finished(s)') /\ (s.answer = "published" => (s.resume /\ store'.lost) \/ Finished(s)')
    BY <1>6, <1>7 DEF Progress
  <1>9. Finished(s)' => Finished(r)'
    BY <1>3 DEF Finished, Written, Durable, Delivery!Holds
  <1>10. Progress(r)'
    <2>1. r.at \notin {"lock", "list", "parent", "verify"} \cup Writing
      BY <1>3 DEF Departing, Writing
    <2> QED BY <1>3, <1>8, <1>9, <2>1 DEF Progress, Writing
  <1> QED BY <1>2, <1>4, <1>5, <1>10, PubGoesOn DEF Moves

LEMMA FinallyGoesOn ==
  ASSUME DeliverySound, NEW p \in Publishers, Delivery!Finally(p), reader' = reader
  PROVE  DeliverySound'
  <1>1. SameFiles /\ SameLock /\ pub[p].at = "finally"
    BY StoreUnchanged DEF Delivery!Finally
  <1>2. CASE Delivery!End(p, "failed")
    BY <1>1, <1>2, EndPublisherGoesOn DEF SameLock
  <1>3. CASE Delivery!Goto(p, "stage")
    <2>1. ASSUME NEW r, pub' = [pub EXCEPT ![p] = r], r.at = "stage"
          PROVE  LockSound'
      <3>1. pub'[p] = r /\ \A q \in Publishers \ {p} : pub'[q] = pub[q]
        BY <2>1 DEF DeliverySound, DeliveryTyped
      <3>2. /\ \A q \in Publishers : pub'[q].at \in Locked <=> pub[q].at \in Locked
            /\ \A q \in Publishers : pub'[q].at \in {"idle", "lock"} \cup (Locked \ {"capture"}) <=>
                 pub[q].at \in {"idle", "lock"} \cup (Locked \ {"capture"})
            /\ \A q \in Publishers : pub'[q].at \in {"capture", "captured", "leave"} => pub'[q] = pub[q]
        BY <1>1, <2>1, <3>1 DEF Locked
      <3> QED BY <1>1, <3>2 DEF DeliverySound, LockSound, SameLock
    <2> QED BY <1>1, <1>3, <2>1, DepartingGoesOn DEF Departing
  <1> QED BY <1>2, <1>3 DEF Delivery!Finally

LEMMA MakeStageGoesOn ==
  ASSUME DeliverySound, NEW p \in Publishers, Delivery!MakeStage(p), reader' = reader
  PROVE  DeliverySound'
  <1>1. pub[p].at = "stage" /\ store.stages[p] = "none" /\ store \in StoreStates
    BY DEF Delivery!MakeStage, DeliverySound, DeliveryTyped, LockSound, Locked
  <1>2. CASE UNCHANGED store /\ Delivery!End(p, "failed")
    BY <1>2, StoreUnchanged, EndPublisherGoesOn DEF SameLock
  <1>3. CASE store' = [store EXCEPT !.stages[p] = "empty"]
    <2>1. /\ SameFiles /\ store'.lock = store.lock /\ store'.foreign = store.foreign
          /\ store'.stages[p] = "empty"
          /\ \A q \in Publishers \ {p} : store'.stages[q] = store.stages[q]
      BY <1>1, <1>3 DEF SameFiles, StoreStates
    <2>2. CASE Delivery!End(p, "failed")
      BY <1>1, <2>1, <2>2, EndPublisherGoesOn
    <2>3. CASE Delivery!Goto(p, "capture")
      <3>1. ASSUME NEW r, pub' = [pub EXCEPT ![p] = r], r.at = "capture"
            PROVE  LockSound'
        <4>1. pub'[p] = r /\ \A q \in Publishers \ {p} : pub'[q] = pub[q]
          BY <3>1 DEF DeliverySound, DeliveryTyped
        <4>2. \A q \in Publishers : pub'[q].at \in Locked <=> pub[q].at \in Locked
          BY <1>1, <3>1, <4>1 DEF Locked
        <4>3. \A q \in Publishers : pub'[q].at \in {"idle", "lock"} \cup (Locked \ {"capture"}) => store'.stages[q] = "none"
          BY <2>1, <3>1, <4>1 DEF DeliverySound, LockSound
        <4>4. /\ \A q \in Publishers : pub'[q].at \in {"capture", "leave"} => store'.stages[q] = "empty"
              /\ \A q \in Publishers : pub'[q].at = "captured" => store'.stages[q] # "none"
          BY <2>1, <3>1, <4>1 DEF DeliverySound, LockSound
        <4>5. store'.foreign => store'.lock = "stranger" \/ \E q \in Publishers : store'.stages[q] = "stranger"
          BY <1>1, <2>1 DEF DeliverySound, LockSound
        <4> QED BY <2>1, <4>2, <4>3, <4>4, <4>5 DEF DeliverySound, LockSound
      <3> QED BY <1>1, <2>1, <2>3, <3>1, DepartingGoesOn DEF Departing
    <2> QED BY <1>2, <2>2, <2>3 DEF Delivery!MakeStage
  <1> QED BY <1>2, <1>3 DEF Delivery!MakeStage

LEMMA CaptureGoesOn ==
  ASSUME DeliverySound, NEW p \in Publishers, Delivery!Capture(p), reader' = reader
  PROVE  DeliverySound'
  <1>1. /\ pub[p].at = "capture" /\ store.stages[p] = "empty" /\ store \in StoreStates
        /\ store.lock \in {p, "stranger"} /\ p # "none"
        /\ \A q \in Publishers : pub[q].at \in Locked => q = p
    BY ToolingAssumption DEF Delivery!Capture, DeliverySound, DeliveryTyped, LockSound, Locked, Delivery!DeliveryAssumption
  <1>2. CASE UNCHANGED store /\ Delivery!End(p, "failed")
    BY <1>2, StoreUnchanged, EndPublisherGoesOn DEF SameLock
  <1>3. CASE store' = [store EXCEPT !.lock = "none", !.stages[p] = store.lock] /\ Delivery!Goto(p, "captured")
    <2>1. store' = [store EXCEPT !.lock = "none", !.stages = [store.stages EXCEPT ![p] = store.lock]]
      BY <1>1, <1>3 DEF StoreStates
    <2>2. store.stages \in [Publishers -> Locks \cup {"empty"}] /\ store.lock \in Locks /\ "none" \in Locks
      BY <1>1 DEF StoreStates, Locks
    <2>3. /\ SameFiles /\ store'.foreign = store.foreign /\ store'.lock = "none"
          /\ store'.stages[p] = store.lock
          /\ \A q \in Publishers \ {p} : store'.stages[q] = store.stages[q]
      BY <1>1, <2>1, <2>2 DEF SameFiles, StoreStates
    <2>4. ASSUME NEW r, pub' = [pub EXCEPT ![p] = r], r.at = "captured"
          PROVE  LockSound'
      <3>1. pub'[p] = r /\ \A q \in Publishers \ {p} : pub'[q] = pub[q]
        BY <2>4 DEF DeliverySound, DeliveryTyped
      <3>2. "captured" \notin Locked \cup {"idle", "lock"}
        BY DEF Locked, Writing
      <3>3. \A q \in Publishers : pub'[q].at \notin Locked
        BY <1>1, <2>4, <3>1, <3>2
      <3>4. \A q \in Publishers : pub'[q].at \in {"idle", "lock"} => store'.stages[q] = "none"
        BY <2>3, <2>4, <3>1, <3>2 DEF DeliverySound, LockSound
      <3>5. /\ \A q \in Publishers : pub'[q].at \in {"capture", "leave"} => store'.stages[q] = "empty"
            /\ \A q \in Publishers : pub'[q].at = "captured" => store'.stages[q] # "none"
        BY <1>1, <2>3, <2>4, <3>1 DEF DeliverySound, LockSound
      <3>6. store'.foreign => \E q \in Publishers : store'.stages[q] = "stranger"
        BY <1>1, <2>3 DEF DeliverySound, LockSound
      <3> QED BY <3>3, <3>4, <3>5, <3>6 DEF LockSound
    <2> QED BY <1>1, <1>3, <2>3, <2>4, DepartingGoesOn DEF Departing
  <1> QED BY <1>2, <1>3 DEF Delivery!Capture

\* Once the lock is captured nothing that p does touches the others' stages.
LEMMA StageGoesOn ==
  ASSUME DeliverySound, NEW p \in Publishers, pub[p].at \in {"captured", "leave"},
         store.stages[p] # "stranger" \/ store'.stages[p] = store.stages[p],
         store'.lock = store.lock, store'.foreign = store.foreign,
         \A q \in Publishers \ {p} : store'.stages[q] = store.stages[q],
         NEW r, pub' = [pub EXCEPT ![p] = r],
         r.at = "over" \/ (r.at = "leave" /\ store'.stages[p] = "empty")
  PROVE  LockSound'
  <1>1. pub'[p] = r /\ \A q \in Publishers \ {p} : pub'[q] = pub[q]
    BY DEF DeliverySound, DeliveryTyped
  <1>2. \A q \in Publishers : pub'[q].at \in Locked \cup {"idle", "lock"} =>
          pub'[q] = pub[q] /\ store'.stages[q] = store.stages[q]
    BY <1>1 DEF Locked, Writing
  <1>3. /\ \A q \in Publishers : pub'[q].at \in {"capture", "leave"} => store'.stages[q] = "empty"
        /\ \A q \in Publishers : pub'[q].at = "captured" => store'.stages[q] # "none"
    BY <1>1 DEF DeliverySound, LockSound
  <1>4. store'.foreign => store'.lock = "stranger" \/ \E q \in Publishers : store'.stages[q] = "stranger"
    BY DEF DeliverySound, LockSound
  <1> QED BY <1>2, <1>3, <1>4 DEF DeliverySound, LockSound

LEMMA UnlinkGoesOn ==
  ASSUME DeliverySound, NEW p \in Publishers, Delivery!Unlink(p), reader' = reader
  PROVE  DeliverySound'
  <1>1. pub[p].at = "captured" /\ store \in StoreStates /\ p # "stranger"
    BY ToolingAssumption DEF Delivery!Unlink, DeliverySound, DeliveryTyped, Delivery!DeliveryAssumption
  <1>2. CASE UNCHANGED store /\ Delivery!End(p, "failed")
    BY <1>2, StoreUnchanged, EndPublisherGoesOn DEF SameLock
  <1>3. CASE store.stages[p] = p /\ store' = [store EXCEPT !.stages[p] = "empty"]
    <2>1. /\ SameFiles /\ store'.lock = store.lock /\ store'.foreign = store.foreign
          /\ store'.stages[p] = "empty"
          /\ \A q \in Publishers \ {p} : store'.stages[q] = store.stages[q]
      BY <1>1, <1>3 DEF SameFiles, StoreStates
    <2>2. CASE Delivery!End(p, "failed")
      BY <1>1, <1>3, <2>1, <2>2, EndPublisherGoesOn
    <2>3. CASE Delivery!Goto(p, "leave")
      <3>1. ASSUME NEW r, pub' = [pub EXCEPT ![p] = r], r.at = "leave"
            PROVE  LockSound'
        BY <1>1, <1>3, <2>1, <3>1, StageGoesOn
      <3> QED BY <1>1, <2>1, <2>3, <3>1, DepartingGoesOn DEF Departing
    <2> QED BY <1>2, <2>2, <2>3 DEF Delivery!Unlink
  <1> QED BY <1>2, <1>3 DEF Delivery!Unlink

LEMMA LeaveGoesOn ==
  ASSUME DeliverySound, NEW p \in Publishers, Delivery!Leave(p), reader' = reader
  PROVE  DeliverySound'
  <1>1. pub[p].at = "leave" /\ store.stages[p] = "empty" /\ store \in StoreStates
    BY DEF Delivery!Leave, DeliverySound, DeliveryTyped, LockSound
  <1>2. CASE UNCHANGED store /\ Delivery!End(p, "failed")
    BY <1>2, StoreUnchanged, EndPublisherGoesOn DEF SameLock
  <1>3. CASE /\ store' = [store EXCEPT !.stages[p] = "none"]
             /\ Delivery!End(p, IF pub[p].answer = "none" THEN "published" ELSE pub[p].answer)
    <2>1. /\ SameFiles /\ store'.lock = store.lock /\ store'.foreign = store.foreign
          /\ \A q \in Publishers \ {p} : store'.stages[q] = store.stages[q]
      BY <1>1, <1>3 DEF SameFiles, StoreStates, Locks
    <2>2. PICK s : s = pub[p]
      OBVIOUS
    <2>3. s \in PubStates /\ Progress(s) /\ s.at = "leave"
      BY <1>1, <2>2, FileOfPublisher
    <2>4. PICK result \in {"refused", "failed", "published", "lost"} :
            result = IF s.answer = "none" THEN "published" ELSE s.answer
      BY <2>3 DEF PubStates
    <2>5. PICK r \in PubStates : Moves(p, r, "over", pub[p].file, result)
      BY <1>3, <2>2, <2>4, EndMoves
    <2>6. /\ r.at = "over" /\ r.answer = result /\ r.what = s.what
          /\ r.resume = s.resume /\ r.ready = s.ready
      BY <2>2, <2>5 DEF Moves
    <2>7. FilesKept /\ ReadyKept /\ store' \in StoreStates
      BY <2>1, SameFilesKept DEF SameFiles
    <2>8. Progress(s)'
      BY <2>3, <2>7, ProgressStays
    <2>9. r.answer = "published" => (s.resume /\ store'.lost) \/ Finished(s)'
      BY <2>3, <2>4, <2>6, <2>8 DEF Progress, Departing
    <2>10. Finished(s)' => Finished(r)'
      BY <2>6 DEF Finished, Written, Durable, Delivery!Holds
    <2>11. Progress(r)'
      BY <2>6, <2>9, <2>10 DEF Progress, Writing, Departing
    <2>12. LockSound'
      BY <1>1, <2>1, <2>5, <2>6, StageGoesOn DEF Moves
    <2> QED BY <2>5, <2>7, <2>11, <2>12, PubGoesOn DEF Moves
  <1> QED BY <1>2, <1>3 DEF Delivery!Leave

\* ---- The consumer, and the rest of the world.
\* A step that touches no publisher and no file.
LEMMA BystandersGoOn ==
  ASSUME DeliverySound, SameFiles, pub' = pub, LockSound', reader' \in ReaderStates, ReaderSound'
  PROVE  DeliverySound'
  <1>1. FilesKept /\ ReadyKept
    BY SameFilesKept
  <1>2. DeliveryTyped'
    BY DEF DeliverySound, DeliveryTyped, SameFiles
  <1>3. ASSUME NEW p \in Publishers
        PROVE  Progress(pub[p])'
    <2>1. PICK s : s = pub[p]
      OBVIOUS
    <2>2. Progress(s)'
      BY <1>1, <2>1, FileOfPublisher, ProgressStays
    <2> QED BY <2>1, <2>2 DEF Progress, Finished, Written, Durable, Delivery!Holds
  <1>4. ReadySound'
    BY <1>1, <1>2, ReadyStays DEF DeliveryTyped
  <1> QED BY <1>2, <1>3, <1>4 DEF DeliverySound

LEMMA KillGoesOn ==
  ASSUME DeliverySound, NEW p \in Publishers, Delivery!Kill(p)
  PROVE  DeliverySound'
  <1>1. SameFiles /\ SameLock /\ FilesKept /\ ReadyKept /\ store' \in StoreStates
    BY StoreUnchanged DEF Delivery!Kill, SameFiles
  <1>2. PICK s : s = pub[p]
    OBVIOUS
  <1>3. s \in PubStates /\ Progress(s)
    BY <1>2, FileOfPublisher
  <1>4. PICK r : r = [s EXCEPT !.at = "over", !.answer = IF @ = "none" THEN "lost" ELSE @]
    OBVIOUS
  <1>5. /\ r \in PubStates /\ r.at = "over" /\ r.what = s.what /\ r.resume = s.resume /\ r.ready = s.ready
        /\ r.answer = "published" => s.answer = "published"
    BY <1>3, <1>4 DEF PubStates, PubAwaits
  <1>6. pub' = [pub EXCEPT ![p] = r]
    BY <1>2, <1>4 DEF Delivery!Kill, Delivery!Killed
  <1>7. Progress(s)'
    BY <1>1, <1>3, ProgressStays
  <1>8. Progress(r)'
    <2>1. Finished(s)' => Finished(r)'
      BY <1>5 DEF Finished, Written, Durable, Delivery!Holds
    <2>2. r.answer = "published" => (r.resume /\ store'.lost) \/ Finished(r)'
      BY <1>5, <1>7, <2>1 DEF Progress
    <2> QED BY <1>5, <2>2 DEF Progress, Writing, Departing
  <1>9. LockSound'
    BY <1>1, <1>5, <1>6, LockStays DEF DeliverySound, SameLock, Locked, Writing
  <1> QED BY <1>1, <1>5, <1>6, <1>8, <1>9, PubGoesOn DEF Delivery!Kill

LEMMA SameLockSound ==
  ASSUME DeliverySound, SameLock, pub' = pub
  PROVE  LockSound'
  BY DEF DeliverySound, LockSound, SameLock

LEMMA ConsumeGoesOn ==
  ASSUME DeliverySound, Delivery!Consume
  PROVE  DeliverySound'
  <1>1. SameFiles /\ SameLock /\ LockSound' /\ store' = store /\ pub' = pub
    BY StoreUnchanged, SameLockSound DEF Delivery!Consume
  <1>2. reader \in ReaderStates /\ ReaderSound
    BY DEF DeliverySound, DeliveryTyped
  <1>3. PICK r : r = reader
    OBVIOUS
  <1>4. CASE reader' = Delivery!Waiting
    <2>1. reader' \in ReaderStates /\ ReaderSound'
      BY <1>4 DEF Delivery!Waiting, ReaderStates, ReaderSound
    <2> QED BY <1>1, <2>1, BystandersGoOn
  <1>5. CASE Delivery!ReadInventory
    <2>1. reader' \in ReaderStates /\ ReaderSound'
      BY <1>1, <1>5 DEF Delivery!ReadInventory, ReaderStates, ReaderSound
    <2> QED BY <1>1, <2>1, BystandersGoOn
  <1>6. CASE /\ reader.at = "list"
             /\ reader' = [reader EXCEPT !.at = "leaves", !.ready = Delivery!Present(Delivery!READY)]
    <2>1. reader' \in ReaderStates /\ ReaderSound'
      BY <1>1, <1>2, <1>6 DEF ReaderStates, ReaderSound, Delivery!Present
    <2> QED BY <1>1, <2>1, BystandersGoOn
  <1>7. CASE /\ reader.at = "leaves" /\ Delivery!Holds(reader.what, LastFile)
             /\ reader' = [reader EXCEPT !.at = IF reader.ready THEN "ready" ELSE "accepted"]
    <2>1. /\ reader' \in ReaderStates /\ reader'.what = reader.what /\ reader'.ready = reader.ready
          /\ reader'.at = (IF reader.ready THEN "ready" ELSE "accepted")
      BY <1>2, <1>7 DEF ReaderStates
    <2>2. Delivery!Holds(reader.what, Delivery!Inventory)
      <3>1. /\ store.files[Delivery!Inventory] = reader.what
            /\ \A f \in 1 .. Delivery!Inventory : f \in 1 .. LastFile \/ f = Delivery!Inventory
        BY <1>2, <1>7, FilesNumbered DEF ReaderSound
      <3> QED BY <1>7, <3>1, ContentTyped DEF Delivery!Holds
    <2>3. ReaderSound'
      BY <1>1, <1>2, <1>7, <2>1, <2>2 DEF ReaderSound, Delivery!Holds
    <2> QED BY <1>1, <2>1, <2>3, BystandersGoOn
  <1>8. CASE /\ reader.at = "ready" /\ store.files[Delivery!READY] = reader.what
             /\ reader' = [reader EXCEPT !.at = "accepted"]
    <2>1. /\ reader' \in ReaderStates /\ reader'.what = reader.what /\ reader'.at = "accepted"
      BY <1>2, <1>8 DEF ReaderStates
    <2>2. ReaderSound'
      BY <1>1, <1>2, <1>8, <2>1 DEF ReaderSound, Delivery!Holds
    <2> QED BY <1>1, <2>1, <2>2, BystandersGoOn
  <1> QED BY <1>4, <1>5, <1>6, <1>7, <1>8 DEF Delivery!Consume, Delivery!ReadEntries, Delivery!ReadLeaves,
              Delivery!ReadReady, Delivery!ReadOn

LEMMA SubstituteGoesOn ==
  ASSUME DeliverySound, Delivery!Substitute
  PROVE  DeliverySound'
  <1>1. SameFiles /\ store'.lock = "stranger" /\ store'.stages = store.stages
    BY DEF Delivery!Substitute, DeliverySound, DeliveryTyped, StoreStates, Locks, SameFiles
  <1>2. LockSound'
    BY <1>1 DEF Delivery!Substitute, DeliverySound, LockSound
  <1>3. ReaderSound' /\ reader' \in ReaderStates
    BY <1>1, SameFilesKept, ReaderStays DEF Delivery!Substitute, DeliverySound, DeliveryTyped
  <1> QED BY <1>1, <1>2, <1>3, BystandersGoOn DEF Delivery!Substitute

LEMMA ClearGoesOn ==
  ASSUME DeliverySound, Delivery!Clear
  PROVE  DeliverySound'
  <1>1. store' = [store EXCEPT !.lock = "none", !.stages = [p \in Publishers |-> "none"], !.foreign = FALSE]
    BY DEF Delivery!Clear, Delivery!Nothing
  <1>2. /\ SameFiles /\ store'.foreign = FALSE /\ store'.lock = "none"
        /\ \A p \in Publishers : store'.stages[p] = "none"
    BY <1>1 DEF DeliverySound, DeliveryTyped, StoreStates, Locks, SameFiles
  <1>3. \A p \in Publishers : pub'[p].at \in {"idle", "over"}
    BY DEF Delivery!Clear
  <1>4. LockSound'
    BY <1>2, <1>3 DEF LockSound, Locked, Writing
  <1>5. ReaderSound' /\ reader' \in ReaderStates
    BY <1>2, SameFilesKept, ReaderStays DEF Delivery!Clear, DeliverySound, DeliveryTyped
  <1> QED BY <1>2, <1>4, <1>5, BystandersGoOn DEF Delivery!Clear

\* What a power loss leaves of a publisher.
LEMMA LossKills ==
  ASSUME DeliverySound, Delivery!PowerLoss, NEW p \in Publishers
  PROVE  \E r \in PubStates :
           /\ pub'[p] = r /\ r.what = pub[p].what /\ r.resume = pub[p].resume /\ r.ready = pub[p].ready
           /\ r.at = "over" \/ (r.at = "idle" /\ pub[p].at = "idle")
           /\ r.answer = "published" => pub[p].answer = "published"
  <1>1. pub[p] \in PubStates
    BY FileOfPublisher
  <1>2. pub'[p] = IF pub[p].at # "idle"
                  THEN [pub[p] EXCEPT !.at = "over", !.answer = IF @ = "none" THEN "lost" ELSE @] ELSE pub[p]
    BY DEF Delivery!PowerLoss, Delivery!Begun, Delivery!Killed
  <1>3. CASE pub[p].at = "idle"
    BY <1>1, <1>2, <1>3
  <1>4. CASE pub[p].at # "idle"
    <2> DEFINE r == [pub[p] EXCEPT !.at = "over", !.answer = IF @ = "none" THEN "lost" ELSE @]
    <2>1. /\ r \in PubStates /\ r.what = pub[p].what /\ r.resume = pub[p].resume /\ r.ready = pub[p].ready
          /\ r.at = "over" /\ (r.answer = "published" => pub[p].answer = "published")
      BY <1>1 DEF PubStates, PubAwaits
    <2> QED BY <1>2, <1>4, <2>1
  <1> QED BY <1>3, <1>4

\* What it leaves of the directory: nothing of one that was not synced, and of
\* another what may be left of each file.
LossLeaves ==
  /\ store'.foreign = FALSE /\ store'.lost = TRUE
  /\ \A p \in Publishers : pub[p].at = "idle" => store'.stages[p] = "none"
  /\ store.firm => /\ store'.firm = TRUE
                   /\ \A f \in Delivery!Files : store'.files[f] \in store.may[f] /\ store'.may[f] = {store'.files[f]}

LEMMA LossOfStore ==
  ASSUME DeliverySound, Delivery!PowerLoss
  PROVE  store' \in StoreStates /\ LossLeaves
  <1>1. store \in StoreStates
    BY DEF DeliverySound, DeliveryTyped
  <1>2. {"none", "empty"} \subseteq Locks \cup {"empty"} /\ {"absent"} \subseteq FileStates
    BY DEF Locks, FileStates
  <1>3. CASE ~ store.firm /\ store' = [Delivery!Nothing EXCEPT !.lost = TRUE]
    <2>1. store' = [made |-> FALSE, firm |-> FALSE, files |-> [f \in Delivery!Files |-> "absent"],
                    may |-> [f \in Delivery!Files |-> {"absent"}], lock |-> "none",
                    stages |-> [q \in Publishers |-> "none"], foreign |-> FALSE, lost |-> TRUE]
      BY <1>3 DEF Delivery!Nothing
    <2>2. /\ [f \in Delivery!Files |-> "absent"] \in [Delivery!Files -> FileStates]
          /\ [f \in Delivery!Files |-> {"absent"}] \in [Delivery!Files -> SUBSET FileStates]
          /\ [q \in Publishers |-> "none"] \in [Publishers -> Locks \cup {"empty"}] /\ "none" \in Locks
      BY <1>2 DEF Locks
    <2>3. store' \in StoreStates
      BY <2>1, <2>2 DEF StoreStates
    <2>4. LossLeaves
      BY <1>3, <2>1 DEF LossLeaves
    <2> QED BY <2>3, <2>4
  <1>4. ASSUME NEW files \in [Delivery!Files -> UNION {store.may[f] : f \in Delivery!Files}],
               NEW locks \in SUBSET {p \in Publishers : Delivery!Begun(p)},
               \A f \in Delivery!Files : files[f] \in store.may[f],
               store' = [Delivery!Nothing EXCEPT
                 !.made = store.made, !.firm = TRUE, !.files = files, !.may = [f \in Delivery!Files |-> {files[f]}],
                 !.stages = [p \in Publishers |-> IF p \in locks THEN "empty" ELSE "none"], !.lost = TRUE]
        PROVE  store' \in StoreStates /\ LossLeaves
    <2>1. store' = [made |-> store.made, firm |-> TRUE, files |-> files,
                    may |-> [f \in Delivery!Files |-> {files[f]}], lock |-> "none",
                    stages |-> [q \in Publishers |-> IF q \in locks THEN "empty" ELSE "none"],
                    foreign |-> FALSE, lost |-> TRUE]
      BY <1>4 DEF Delivery!Nothing
    <2>2. files \in [Delivery!Files -> FileStates]
      <3>1. \A f \in Delivery!Files : store.may[f] \subseteq FileStates
        BY <1>1 DEF StoreStates
      <3> QED BY <1>4, <3>1
    <2>3. /\ [f \in Delivery!Files |-> {files[f]}] \in [Delivery!Files -> SUBSET FileStates]
          /\ [q \in Publishers |-> IF q \in locks THEN "empty" ELSE "none"] \in [Publishers -> Locks \cup {"empty"}]
          /\ "none" \in Locks /\ store.made \in BOOLEAN
      BY <1>1, <1>2, <2>2 DEF StoreStates, Locks
    <2>4. store' \in StoreStates
      BY <2>1, <2>2, <2>3 DEF StoreStates
    <2>5. \A p \in Publishers : pub[p].at = "idle" => p \notin locks
      BY <1>4 DEF Delivery!Begun
    <2>6. /\ store'.foreign = FALSE /\ store'.lost = TRUE /\ store'.firm = TRUE /\ store'.files = files
          /\ \A f \in Delivery!Files : store'.may[f] = {files[f]}
          /\ \A p \in Publishers : store'.stages[p] = IF p \in locks THEN "empty" ELSE "none"
      BY <2>1
    <2>7. LossLeaves
      BY <1>4, <2>5, <2>6 DEF LossLeaves
    <2> QED BY <2>4, <2>7
  <1> QED BY <1>3, <1>4 DEF Delivery!PowerLoss

LEMMA PowerLossGoesOn ==
  ASSUME DeliverySound, Delivery!PowerLoss
  PROVE  DeliverySound'
  <1>1. store' \in StoreStates /\ LossLeaves
    BY LossOfStore
  <1>2. pub' \in [Publishers -> PubStates]
    <2>1. \A p \in Publishers : pub'[p] \in PubStates
      BY LossKills
    <2>2. pub' = [p \in Publishers |-> pub'[p]]
      BY DEF Delivery!PowerLoss
    <2> QED BY <2>1, <2>2
  <1>3. reader' \in ReaderStates /\ ReaderSound'
    BY DEF Delivery!PowerLoss, Delivery!Waiting, ReaderStates, ReaderSound
  <1>4. ReadySound'
    BY <1>1 DEF LossLeaves, ReadySound
  <1>5. LockSound'
    <2>1. \A p \in Publishers : pub'[p].at = "over" \/ (pub'[p].at = "idle" /\ pub[p].at = "idle")
      BY LossKills
    <2> QED BY <1>1, <2>1 DEF LossLeaves, LockSound, Locked, Writing
  <1>6. ASSUME NEW p \in Publishers
        PROVE  Progress(pub[p])'
    <2>1. PICK r \in PubStates :
            /\ pub'[p] = r /\ r.what = pub[p].what /\ r.resume = pub[p].resume /\ r.ready = pub[p].ready
            /\ r.at = "over" \/ (r.at = "idle" /\ pub[p].at = "idle")
            /\ r.answer = "published" => pub[p].answer = "published"
      BY LossKills
    <2>2. ASSUME r.answer = "published", ~ r.resume
          PROVE  Finished(r)'
      <3>1. Finished(pub[p])
        BY <2>1, <2>2, FileOfPublisher DEF Progress
      <3>2. PICK last : last = IF r.ready THEN Delivery!READY ELSE Delivery!Inventory
        OBVIOUS
      <3>3. /\ r.what \in Deliveries /\ store.firm
            /\ \A f \in 1 .. last : store.may[f] \subseteq {Delivery!Content(r.what, f)}
        BY <2>1, <2>2, <3>1, <3>2 DEF Finished, Durable
      <3>4. \A f \in 1 .. last : f \in Delivery!Files
        BY <3>2, FilesNumbered
      <3>5. \A f \in 1 .. last :
              store'.files[f] = Delivery!Content(r.what, f) /\ store'.may[f] \subseteq {Delivery!Content(r.what, f)}
        BY <1>1, <3>3, <3>4 DEF LossLeaves
      <3> QED BY <1>1, <3>2, <3>3, <3>5 DEF LossLeaves, Finished, Written, Durable, Delivery!Holds
    <2>3. Progress(r)'
      BY <1>1, <2>1, <2>2 DEF LossLeaves, Progress, Writing, Departing, PubStates
    <2> QED BY <2>1, <2>3 DEF Progress, Finished, Written, Durable, Delivery!Holds
  <1> QED BY <1>1, <1>2, <1>3, <1>4, <1>5, <1>6 DEF DeliverySound, DeliveryTyped

LEMMA DeliveryGoesOn ==
  ASSUME DeliverySound, Delivery!Next
  PROVE  DeliverySound'
  <1>1. ASSUME NEW p \in Publishers, Delivery!Publish(p)
        PROVE  DeliverySound'
    <2>1. reader' = reader
      BY <1>1 DEF Delivery!Publish
    <2> QED BY <1>1, <2>1, BeginDeliveryGoesOn, TakeLockGoesOn, ListGoesOn, WriteGoesOn, SyncFileGoesOn, SyncEntryGoesOn,
               SyncParentGoesOn, VerifyGoesOn, FinallyGoesOn, MakeStageGoesOn, CaptureGoesOn, UnlinkGoesOn,
               LeaveGoesOn DEF Delivery!Publish
  <1> QED BY <1>1, KillGoesOn, ConsumeGoesOn, SubstituteGoesOn, PowerLossGoesOn, ClearGoesOn DEF Delivery!Next

LEMMA DeliveryStarts == ToolingInit => DeliveryInv
  <1> SUFFICES ASSUME Delivery!Init
               PROVE  DeliverySound
    BY DEF ToolingInit, InitDelivery, DeliveryInv
  <1>1. store = [made |-> FALSE, firm |-> FALSE, files |-> [f \in Delivery!Files |-> "absent"],
                 may |-> [f \in Delivery!Files |-> {"absent"}], lock |-> "none",
                 stages |-> [q \in Publishers |-> "none"], foreign |-> FALSE, lost |-> FALSE]
    BY DEF Delivery!Init, Delivery!Nothing
  <1>2. store \in StoreStates
    <2>1. /\ [f \in Delivery!Files |-> "absent"] \in [Delivery!Files -> FileStates]
          /\ [f \in Delivery!Files |-> {"absent"}] \in [Delivery!Files -> SUBSET FileStates]
          /\ [q \in Publishers |-> "none"] \in [Publishers -> Locks \cup {"empty"}] /\ "none" \in Locks
      BY DEF Locks, FileStates
    <2> QED BY <1>1, <2>1 DEF StoreStates
  <1>3. pub \in [Publishers -> PubStates] /\ \A p \in Publishers : pub[p] = Delivery!NotBegun
    <2>1. 1 \in Delivery!Files /\ "idle" \in PubAwaits
      BY FilesNumbered DEF PubAwaits
    <2>2. Delivery!NotBegun \in PubStates
      BY <2>1 DEF Delivery!NotBegun, PubStates
    <2> QED BY <2>2 DEF Delivery!Init
  <1>4. reader \in ReaderStates /\ ReaderSound
    BY DEF Delivery!Init, Delivery!Waiting, ReaderStates, ReaderSound
  <1>5. \A p \in Publishers : store.stages[p] = "none" /\ pub[p].at = "idle" /\ pub[p].answer = "none"
    BY <1>1, <1>3 DEF Delivery!NotBegun
  <1>6. LockSound
    BY <1>1, <1>5 DEF LockSound, Locked, Writing
  <1>7. \A p \in Publishers : Progress(pub[p])
    BY <1>5 DEF Progress, Writing, Departing
  <1>8. ReadySound
    <2>1. "absent" \notin Deliveries /\ Delivery!READY \in Delivery!Files
      BY ToolingAssumption, FilesNumbered DEF Delivery!DeliveryAssumption
    <2> QED BY <1>1, <2>1 DEF ReadySound
  <1> QED BY <1>2, <1>3, <1>4, <1>6, <1>7, <1>8 DEF DeliverySound, DeliveryTyped

LEMMA DeliveryKeeps == DeliveryInv /\ [ToolingNext]_toolingVars => DeliveryInv'
  <1> SUFFICES ASSUME DeliveryInv, [ToolingNext]_toolingVars, running' = "delivery"
               PROVE  DeliverySound'
    BY DEF DeliveryInv
  <1>1. running = "delivery" /\ DeliverySound
    BY DEF DeliveryInv, ToolingNext, toolingVars, RunCommand, RunProof, RunOutput, RunDelivery,
           RunInstallation, RunPorts
  <1>2. CASE Delivery!Next
    BY <1>1, <1>2, DeliveryGoesOn
  <1>3. CASE UNCHANGED deliveryVars
    <2>1. SameFiles /\ SameLock /\ pub' = pub /\ reader' = reader
      BY <1>1, <1>3, StoreUnchanged DEF deliveryVars
    <2>2. ReaderSound' /\ reader' \in ReaderStates
      BY <1>1, <2>1, SameFilesKept, ReaderStays DEF DeliverySound, DeliveryTyped
    <2> QED BY <1>1, <2>1, <2>2, SameLockSound, BystandersGoOn
  <1> QED BY <1>1, <1>2, <1>3 DEF ToolingNext, toolingVars, RunCommand, RunProof, RunOutput,
                                  RunDelivery, RunInstallation, RunPorts

\* From the lock to the last await of a publisher whoever lists the directory is
\* kept out; what a consumer accepted, a publisher reported or READY says is whole
\* and one delivery; and a stranger's lock is not deleted (deployment-store.ts):
\* for any number of publishers, deliveries and leaves, and of kills, power losses
\* and strangers.
THEOREM DeliveriesAreWhole == ToolingSpec => []DeliveryIsTrue
  <1>1. DeliveryInv => DeliveryIsTrue
    <2> SUFFICES ASSUME running = "delivery", DeliverySound
                 PROVE  Delivery!DeliveryIsTrue
      BY DEF DeliveryInv, DeliveryIsTrue
    <2>1. ASSUME NEW p \in Publishers, Delivery!Holding(p)
          PROVE  store.lock # "none" \/ Delivery!Staged
      <3>1. "none" \notin Publishers
        BY ToolingAssumption DEF Delivery!DeliveryAssumption
      <3>2. CASE pub[p].at \in Locked
        BY <3>1, <3>2 DEF DeliverySound, LockSound
      <3>3. CASE pub[p].at \in {"captured", "leave"}
        BY <3>3 DEF DeliverySound, LockSound, Delivery!Staged
      <3> QED BY <2>1, <3>2, <3>3 DEF Delivery!Holding, Delivery!Releasing, Locked, Writing
    <2>2. reader.at = "accepted" => Delivery!Whole(reader.what, reader.ready)
      <3> SUFFICES ASSUME reader.at = "accepted"
                   PROVE  Delivery!Whole(reader.what, reader.ready)
        OBVIOUS
      <3>1. Delivery!Holds(reader.what, Delivery!Inventory)
        BY DEF DeliverySound, ReaderSound
      <3>2. CASE reader.ready
        <4>1. store.files[Delivery!READY] = reader.what
          BY <3>2 DEF DeliverySound, ReaderSound
        <4>2. \A f \in 1 .. Delivery!READY : f \in 1 .. Delivery!Inventory \/ f = Delivery!READY
          BY FilesNumbered
        <4>3. Delivery!Holds(reader.what, Delivery!READY)
          BY <3>1, <4>1, <4>2, ContentTyped DEF Delivery!Holds
        <4> QED BY <3>2, <4>3 DEF Delivery!Whole
      <3> QED BY <3>1, <3>2 DEF Delivery!Whole
    <2>3. ASSUME NEW p \in Publishers, pub[p].answer = "published", pub[p].resume => ~ store.lost
          PROVE  Delivery!Whole(pub[p].what, pub[p].ready)
      <3>1. Finished(pub[p])
        BY <2>3, FileOfPublisher DEF Progress
      <3> QED BY <3>1 DEF Finished, Written, Delivery!Whole
    <2>4. \A d \in Deliveries : store.files[Delivery!READY] = d /\ ~ store.lost => Delivery!Whole(d, TRUE)
      BY DEF DeliverySound, ReadySound, Delivery!Whole
    <2>5. store.foreign => "stranger" \in {store.lock} \cup {store.stages[p] : p \in Publishers}
      BY DEF DeliverySound, LockSound
    <2> QED BY <2>1, <2>2, <2>3, <2>4, <2>5 DEF Delivery!DeliveryIsTrue
  <1> QED BY <1>1, DeliveryStarts, DeliveryKeeps, PTL DEF ToolingSpec
----------------------------------------------------------------------------
(* A command under custody, for any deadline, drain and number of failed   *)
(* readings of the clock.  A process that is left is the helper's child or *)
(* has a living parent that is left, as long as the helper is there; so    *)
(* when the helper has no child none is left, and none can begin any more. *)

Ends == {"none", "0", "signal", "124", "125", "126", "127", "128"}
Parents == {"none", "helper", "observer", "target", "init"}
ProcessStates ==
  [state : {"unborn", "live", "zombie", "gone"}, parent : Parents,
   pid : Command!Processes, group : Command!Processes, end : Ends]

RecordStates == [finished : BOOLEAN, status : Ends, timedOut : BOOLEAN, failed : BOOLEAN, spawnFailed : BOOLEAN]
ObserverStates == [pc : {"exec", "spawn", "wait", "quiesce", "record", "exit", "over"}, will : RecordStates]

Signals == {"TERM", "KILL"}
Sendings == Command!Processes \X Signals
Reasons == {"none", "ECANCELLED", "ETIMEDOUT", "ELEAK"}
Supervising == {"wait", "look", "pipe", "settle"}
HelperSteps == Supervising \cup {"reported", "exited", "killed"}
HelperStates ==
  [pc : HelperSteps, none : BOOLEAN, reason : Reasons, uncertain : BOOLEAN, began : Nat, failures : Nat,
   list : SUBSET Command!Processes, sent : SUBSET Sendings]

ReportStates ==
  [custody : {"none", "uncertain", "reaped", "completed"}, error : Reasons, uncertain : BOOLEAN, status : Ends]

CommandTyped ==
  /\ tree \in [Command!Processes -> ProcessStates] /\ got \in [Command!Processes -> [Signals -> Nat]]
  /\ time \in Nat /\ cancelled \in BOOLEAN
  /\ observer \in ObserverStates /\ record \in RecordStates
  /\ helper \in HelperStates /\ report \in ReportStates /\ late \in BOOLEAN
  /\ outcome \in ReportStates /\ removed \in BOOLEAN

\* Whose child each process is, and that no two have one number.
TreeSound ==
  /\ tree["observer"].state # "unborn"
  /\ Command!Live("observer") <=> observer.pc # "over"
  /\ observer.pc \in {"exec", "spawn"} => tree["target"].state = "unborn"
  /\ tree["target"].state = "unborn" => tree["child"].state = "unborn" /\ tree["target"].end = "none"
  /\ ~ Command!HelperOver =>
       /\ tree["observer"].parent = "helper"
       /\ ~ Command!Gone("target") =>
            tree["target"].parent = "helper" \/ (tree["target"].parent = "observer" /\ Command!Live("observer"))
       /\ ~ Command!Gone("child") =>
            tree["child"].parent = "helper" \/ (tree["child"].parent = "target" /\ Command!Live("target"))
  /\ tree["observer"].pid = "observer" /\ tree["target"].pid = "target"
  /\ tree["child"].pid = "child" \/ (tree["child"].pid = "observer" /\ tree["observer"].state = "gone")

\* The target has ended so, or was never spawned.
Ended(status) == tree["target"].state \in {"unborn", "gone"} /\ status = tree["target"].end

RecordSound ==
  /\ observer.will.finished => observer.pc \in {"quiesce", "record"} /\ Ended(observer.will.status)
  /\ record.finished => observer.pc \in {"exit", "over"} /\ Ended(record.status)

HelperSound ==
  /\ helper.pc \in {"pipe", "settle"} \/ (helper.pc = "look" /\ helper.none) => Command!AllGone
  /\ helper.pc = "settle" /\ late => cancelled \/ time >= Timeout
  /\ helper.pc \in Supervising => report = Command!NoReport
  /\ report.custody \in {"reaped", "completed"} => Command!AllGone
  /\ report.custody = "completed" => ~ late
  /\ outcome # Command!NoReport => Command!HelperOver
  /\ outcome # Command!NoReport /\ ~ outcome.uncertain =>
       Command!AllGone /\ Ended(outcome.status) /\ (outcome.custody = "completed" => ~ late)
  /\ removed => Command!AllGone

\* What the helper has sent is what it remembers to have sent.
SignalsSound ==
  /\ helper.pc \in Supervising =>
       \A p \in Command!Processes, s \in Signals : got[p][s] = IF <<p, s>> \in helper.sent THEN 1 ELSE 0
  /\ \A p \in Command!Processes, s \in Signals : got[p][s] <= 1
  /\ report.custody = "uncertain" /\ ~ report.uncertain => \A p \in helper.list : got[p]["KILL"] = 1

CommandSound == CommandTyped /\ TreeSound /\ RecordSound /\ HelperSound /\ SignalsSound

CommandInv == running = "command" => CommandSound

\* What is over stays over.
EndStays == \A status \in Ends : Ended(status) => Ended(status)'
TreeCalm == Command!AllGone => Command!AllGone' /\ EndStays

\* A step of the processes, the clock or the observer, on which the helper looks later.
LEMMA CommandStepGoesOn ==
  ASSUME CommandSound, TreeCalm, TreeSound', tree' \in [Command!Processes -> ProcessStates],
         UNCHANGED <<got, helper, report, late, outcome, removed>>,
         time' \in Nat, time' >= time, cancelled' \in BOOLEAN, cancelled => cancelled',
         observer' \in ObserverStates, record' \in RecordStates, RecordSound'
  PROVE  CommandSound'
  <1>1. CommandTyped'
    BY DEF CommandSound, CommandTyped
  <1>2. HelperSound'
    <2>1. helper.pc = "settle" /\ late => cancelled' \/ time' >= Timeout
      BY ToolingAssumption DEF CommandSound, CommandTyped, HelperSound, Command!CustodyAssumption
    <2>2. outcome.status \in Ends
      BY DEF CommandSound, CommandTyped, ReportStates
    <2>3. Command!HelperOver' <=> Command!HelperOver
      BY DEF Command!HelperOver
    <2> QED BY <2>1, <2>2, <2>3 DEF CommandSound, HelperSound, TreeCalm, EndStays, Command!NoReport
  <1>3. SignalsSound'
    BY DEF CommandSound, SignalsSound
  <1> QED BY <1>1, <1>2, <1>3 DEF CommandSound

\* The record is the observer's, who did nothing.
LEMMA RecordStays ==
  ASSUME CommandSound, EndStays, UNCHANGED <<observer, record>>
  PROVE  RecordSound'
  <1>1. observer.will.status \in Ends /\ record.status \in Ends
    BY DEF CommandSound, CommandTyped, ObserverStates, RecordStates
  <1> QED BY <1>1 DEF CommandSound, RecordSound, EndStays

\* ---- The processes.
\* What the end of a process changes of the tree.
Dies(p, end, parent) ==
  /\ tree'[p].state = "zombie" /\ tree'[p].end = end /\ tree'[p].pid = tree[p].pid /\ tree'[p].parent = tree[p].parent
  /\ \A q \in Command!Processes \ {p} :
       /\ tree'[q].state = tree[q].state /\ tree'[q].end = tree[q].end /\ tree'[q].pid = tree[q].pid
       /\ tree'[q].parent = IF tree[q].parent = p /\ ~ Command!Gone(q) THEN parent ELSE tree[q].parent

LEMMA DieIs ==
  ASSUME CommandSound, NEW p \in Command!Processes, NEW end \in Ends, Command!Live(p), Command!Die(p, end)
  PROVE  /\ tree' \in [Command!Processes -> ProcessStates]
         /\ Dies(p, end, Command!Adopter)
  <1>1. tree \in [Command!Processes -> ProcessStates] /\ Command!Adopter \in Parents
    BY DEF CommandSound, CommandTyped, Command!Adopter, Parents
  <1>2. tree' = [q \in Command!Processes |->
                   IF q = p THEN [tree[q] EXCEPT !.state = "zombie", !.end = end]
                   ELSE IF q \in Command!Children(p) THEN [tree[q] EXCEPT !.parent = Command!Adopter]
                   ELSE tree[q]]
    BY DEF Command!Die
  <1>3. ASSUME NEW q \in Command!Processes
        PROVE  tree'[q] \in ProcessStates
    <2>1. tree[q] \in ProcessStates
      BY <1>1
    <2>2. CASE q = p
      BY <1>2, <2>1, <2>2 DEF ProcessStates
    <2>3. CASE q # p /\ q \in Command!Children(p)
      BY <1>1, <1>2, <2>1, <2>3 DEF ProcessStates
    <2>4. CASE q # p /\ q \notin Command!Children(p)
      BY <1>2, <2>1, <2>4
    <2> QED BY <2>2, <2>3, <2>4
  <1>4. tree'[p].state = "zombie" /\ tree'[p].end = end /\ tree'[p].pid = tree[p].pid /\ tree'[p].parent = tree[p].parent
    <2>1. tree[p] \in ProcessStates /\ tree'[p] = [tree[p] EXCEPT !.state = "zombie", !.end = end]
      BY <1>1, <1>2
    <2> QED BY <2>1 DEF ProcessStates
  <1>5. ASSUME NEW q \in Command!Processes \ {p}
        PROVE  /\ tree'[q].state = tree[q].state /\ tree'[q].end = tree[q].end /\ tree'[q].pid = tree[q].pid
               /\ tree'[q].parent = IF tree[q].parent = p /\ ~ Command!Gone(q) THEN Command!Adopter ELSE tree[q].parent
    <2>1. q \in Command!Children(p) <=> tree[q].parent = p /\ ~ Command!Gone(q)
      BY DEF Command!Children
    <2>2. tree[q] \in ProcessStates
      BY <1>1
    <2> QED BY <1>2, <2>1, <2>2 DEF ProcessStates
  <1>6. tree' \in [Command!Processes -> ProcessStates]
    BY <1>2, <1>3
  <1> QED BY <1>4, <1>5, <1>6 DEF Dies

LEMMA DyingIsCalm ==
  ASSUME CommandSound, NEW p \in Command!Processes, NEW end, NEW parent, Command!Live(p), Dies(p, end, parent)
  PROVE  TreeCalm /\ EndStays
  <1>1. ~ Command!AllGone
    BY DEF Command!AllGone, Command!Gone, Command!Live
  <1>2. \A status : Ended(status) => p # "target"
    BY DEF Ended, Command!Live
  <1>3. "target" \in Command!Processes
    BY DEF Command!Processes
  <1> QED BY <1>1, <1>2, <1>3 DEF TreeCalm, EndStays, Ended, Dies

LEMMA EndsGoesOn ==
  ASSUME CommandSound, Command!Ends
  PROVE  CommandSound'
  <1>1. PICK p \in {"target", "child"}, end \in Ends : Command!Live(p) /\ Command!Die(p, end)
    BY DEF Command!Ends, Command!Statuses, Ends
  <1>2. p \in Command!Processes
    BY DEF Command!Processes
  <1>3. tree' \in [Command!Processes -> ProcessStates] /\ Dies(p, end, Command!Adopter) /\ TreeCalm /\ EndStays
    BY <1>1, <1>2, DieIs, DyingIsCalm
  <1>4. UNCHANGED <<got, time, cancelled, observer, record, helper, report, late, outcome, removed>>
    BY DEF Command!Ends, Command!observerVars, Command!helperVars, Command!invokerVars
  <1>5. Command!HelperOver' <=> Command!HelperOver
    BY <1>4 DEF Command!HelperOver
  <1>6. ~ Command!HelperOver => Command!Adopter = "helper"
    BY DEF Command!Adopter
  <1>7. TreeSound'
    BY <1>1, <1>3, <1>4, <1>5, <1>6 DEF CommandSound, TreeSound, Dies, Command!Gone, Command!Live, Command!Processes
  <1>8. time \in Nat /\ time' >= time /\ RecordSound'
    BY <1>3, <1>4, RecordStays DEF CommandSound, CommandTyped
  <1> QED BY <1>3, <1>4, <1>7, <1>8, CommandStepGoesOn DEF CommandSound, CommandTyped

\* What a fork changes of the tree.
LEMMA ForkIs ==
  ASSUME CommandSound, NEW p \in Command!Processes, NEW parent \in Parents, NEW groups \in SUBSET Command!Processes,
         Command!Fork(p, parent, groups)
  PROVE  /\ tree' \in [Command!Processes -> ProcessStates]
         /\ tree'[p].state = "live" /\ tree'[p].parent = parent
         /\ tree'[p].pid = p \/ \E q \in Command!Processes : tree[q].state = "gone" /\ tree'[p].pid = tree[q].pid
         /\ \A q \in Command!Processes \ {p} : tree'[q] = tree[q]
  <1>1. tree \in [Command!Processes -> ProcessStates]
    BY DEF CommandSound, CommandTyped
  <1>2. PICK n \in {p} \cup {tree[q].pid : q \in {r \in Command!Processes : tree[r].state = "gone"}}, g \in groups :
          tree' = [tree EXCEPT ![p] = [state |-> "live", parent |-> parent, pid |-> n, group |-> g, end |-> "none"]]
    BY DEF Command!Fork, Command!NoStatus
  <1>3. n \in Command!Processes
    <2>1. \A q \in Command!Processes : tree[q].pid \in Command!Processes
      BY <1>1 DEF ProcessStates
    <2> QED BY <1>2, <2>1
  <1>4. [state |-> "live", parent |-> parent, pid |-> n, group |-> g, end |-> "none"] \in ProcessStates
    BY <1>3 DEF ProcessStates, Ends
  <1>5. tree'[p] = [state |-> "live", parent |-> parent, pid |-> n, group |-> g, end |-> "none"]
    BY <1>1, <1>2
  <1> QED BY <1>1, <1>2, <1>4, <1>5

LEMMA TargetForksGoesOn ==
  ASSUME CommandSound, Command!TargetForks
  PROVE  CommandSound'
  <1>1. /\ {"target", "child"} \subseteq Command!Processes /\ "target" \in Parents
        /\ Command!Live("target") /\ tree["child"].state = "unborn" /\ Command!Fork("child", "target", {"target", "child"})
    BY DEF Command!TargetForks, Command!Processes, Parents
  <1>2. /\ tree' \in [Command!Processes -> ProcessStates]
        /\ tree'["child"].state = "live" /\ tree'["child"].parent = "target"
        /\ \/ tree'["child"].pid = "child"
           \/ \E q \in Command!Processes : tree[q].state = "gone" /\ tree'["child"].pid = tree[q].pid
        /\ \A q \in Command!Processes \ {"child"} : tree'[q] = tree[q]
    BY <1>1, ForkIs
  <1>3. UNCHANGED <<got, time, cancelled, observer, record, helper, report, late, outcome, removed>>
    BY DEF Command!TargetForks, Command!observerVars, Command!helperVars, Command!invokerVars
  <1>4. tree'["target"] = tree["target"] /\ tree'["observer"] = tree["observer"]
    BY <1>2 DEF Command!Processes
  <1>5. TreeCalm /\ EndStays
    BY <1>1, <1>4 DEF TreeCalm, EndStays, Ended, Command!AllGone, Command!Gone, Command!Live
  <1>6. tree'["child"].pid = "child" \/ (tree'["child"].pid = "observer" /\ tree["observer"].state = "gone")
    BY <1>1, <1>2 DEF CommandSound, TreeSound, Command!Processes, Command!Live
  <1>7. TreeSound'
    BY <1>1, <1>2, <1>3, <1>4, <1>6 DEF CommandSound, TreeSound, Command!Gone, Command!Live, Command!HelperOver
  <1>8. time \in Nat /\ time' >= time /\ RecordSound'
    BY <1>3, <1>5, RecordStays DEF CommandSound, CommandTyped
  <1> QED BY <1>2, <1>3, <1>5, <1>7, <1>8, CommandStepGoesOn DEF CommandSound, CommandTyped

\* A zombie that is reaped.
Reaps(p) == Command!Zombie(p) /\ tree' = [tree EXCEPT ![p].state = "gone"]

LEMMA ReapIs ==
  ASSUME CommandSound, NEW p \in Command!Processes, Reaps(p)
  PROVE  /\ tree' \in [Command!Processes -> ProcessStates]
         /\ tree'[p].state = "gone" /\ tree'[p].pid = tree[p].pid /\ tree'[p].end = tree[p].end /\ tree'[p].parent = tree[p].parent
         /\ \A q \in Command!Processes \ {p} : tree'[q] = tree[q]
         /\ TreeCalm /\ EndStays
  <1>1. tree \in [Command!Processes -> ProcessStates] /\ tree[p] \in ProcessStates
    BY DEF CommandSound, CommandTyped
  <1>2. /\ tree' \in [Command!Processes -> ProcessStates]
        /\ tree'[p].state = "gone" /\ tree'[p].pid = tree[p].pid /\ tree'[p].end = tree[p].end /\ tree'[p].parent = tree[p].parent
        /\ \A q \in Command!Processes \ {p} : tree'[q] = tree[q]
    BY <1>1 DEF Reaps, ProcessStates
  <1>3. "target" \in Command!Processes /\ tree[p].state = "zombie"
    BY DEF Command!Processes, Reaps, Command!Zombie
  <1>4. TreeCalm /\ EndStays
    BY <1>2, <1>3 DEF TreeCalm, EndStays, Ended, Command!AllGone, Command!Gone
  <1> QED BY <1>2, <1>4

LEMMA ReapedTree ==
  ASSUME CommandSound, NEW p \in Command!Processes, Reaps(p), helper' = helper,
         (observer.pc \in {"exec", "spawn"} <=> observer'.pc \in {"exec", "spawn"}),
         (observer.pc = "over" <=> observer'.pc = "over")
  PROVE  TreeSound'
  <1>1. /\ tree'[p].state = "gone" /\ tree'[p].pid = tree[p].pid /\ tree[p].state = "zombie" /\ tree'[p].parent = tree[p].parent
        /\ \A q \in Command!Processes \ {p} : tree'[q] = tree[q]
    BY ReapIs DEF Reaps, Command!Zombie
  <1>2. CASE p = "observer"
    <2>1. tree'["target"] = tree["target"] /\ tree'["child"] = tree["child"]
      BY <1>1, <1>2 DEF Command!Processes
    <2> QED BY <1>1, <1>2, <2>1 DEF CommandSound, TreeSound, Command!Gone, Command!Live, Command!HelperOver
  <1>3. CASE p = "target"
    <2>1. tree'["observer"] = tree["observer"] /\ tree'["child"] = tree["child"]
      BY <1>1, <1>3 DEF Command!Processes
    <2> QED BY <1>1, <1>3, <2>1 DEF CommandSound, TreeSound, Command!Gone, Command!Live, Command!HelperOver
  <1>4. CASE p = "child"
    <2>1. tree'["observer"] = tree["observer"] /\ tree'["target"] = tree["target"]
      BY <1>1, <1>4 DEF Command!Processes
    <2> QED BY <1>1, <1>4, <2>1 DEF CommandSound, TreeSound, Command!Gone, Command!Live, Command!HelperOver
  <1> QED BY <1>2, <1>3, <1>4 DEF Command!Processes

LEMMA ReapingGoesOn ==
  ASSUME CommandSound, Command!ReapedElsewhere \/ Command!Reap
  PROVE  CommandSound'
  <1>1. PICK p \in Command!Processes : Reaps(p)
    BY DEF Command!ReapedElsewhere, Command!Reap, Command!Children, Reaps
  <1>2. UNCHANGED <<got, time, cancelled, observer, record, helper, report, late, outcome, removed>>
    BY DEF Command!ReapedElsewhere, Command!Reap, Command!observerVars, Command!helperVars, Command!invokerVars,
           Command!HelperOnly
  <1>3. tree' \in [Command!Processes -> ProcessStates] /\ TreeCalm /\ EndStays /\ TreeSound'
    BY <1>1, <1>2, ReapIs, ReapedTree
  <1>4. time \in Nat /\ time' >= time /\ RecordSound'
    BY <1>2, <1>3, RecordStays DEF CommandSound, CommandTyped
  <1> QED BY <1>2, <1>3, <1>4, CommandStepGoesOn DEF CommandSound, CommandTyped

LEMMA SameTree ==
  ASSUME CommandSound, tree' = tree
  PROVE  TreeCalm /\ EndStays /\ tree' \in [Command!Processes -> ProcessStates]
  BY DEF TreeCalm, EndStays, Ended, Command!AllGone, Command!Gone, CommandSound, CommandTyped

LEMMA TickOrCancelGoesOn ==
  ASSUME CommandSound, Command!Tick \/ Command!Cancel
  PROVE  CommandSound'
  <1>1. /\ UNCHANGED <<tree, got, observer, record, helper, report, late, outcome, removed>>
        /\ time' \in Nat /\ time' >= time /\ cancelled' \in BOOLEAN /\ (cancelled => cancelled')
    <2>1. time \in Nat /\ cancelled \in BOOLEAN
      BY DEF CommandSound, CommandTyped
    <2>2. CASE Command!Tick
      BY <2>1, <2>2 DEF Command!Tick, Command!treeVars, Command!observerVars, Command!helperVars, Command!invokerVars
    <2>3. CASE Command!Cancel
      BY <2>1, <2>3 DEF Command!Cancel, Command!treeVars, Command!observerVars, Command!helperVars, Command!invokerVars
    <2> QED BY <2>2, <2>3
  <1>2. TreeSound'
    BY <1>1 DEF CommandSound, TreeSound, Command!Gone, Command!Live, Command!HelperOver
  <1> QED BY <1>1, <1>2, SameTree, RecordStays, CommandStepGoesOn DEF CommandSound, CommandTyped

\* ---- The observer.
LEMMA ObserverStepGoesOn ==
  ASSUME CommandSound, Command!ObserverOnly, TreeCalm, TreeSound', tree' \in [Command!Processes -> ProcessStates],
         observer' \in ObserverStates, record' \in RecordStates, RecordSound'
  PROVE  CommandSound'
  <1>1. /\ UNCHANGED <<got, time, cancelled, helper, report, late, outcome, removed>>
        /\ time' \in Nat /\ time' >= time /\ cancelled' \in BOOLEAN
    BY DEF Command!ObserverOnly, Command!helperVars, Command!invokerVars, CommandSound, CommandTyped
  <1> QED BY <1>1, CommandStepGoesOn

\* An await of the observer that touches no process.
LEMMA ObserverAwaitGoesOn ==
  ASSUME CommandSound, Command!ObserverOnly, tree' = tree, Command!Live("observer"),
         observer' \in ObserverStates, record' \in RecordStates, RecordSound',
         observer'.pc # "over", observer'.pc \in {"exec", "spawn"} => observer.pc \in {"exec", "spawn"}
  PROVE  CommandSound'
  <1>1. helper' = helper
    BY DEF Command!ObserverOnly, Command!helperVars
  <1>2. TreeSound'
    BY <1>1 DEF CommandSound, TreeSound, Command!Gone, Command!Live, Command!HelperOver
  <1> QED BY <1>2, SameTree, ObserverStepGoesOn

LEMMA ObserverRunsGoesOn ==
  ASSUME CommandSound, Command!ObserverRuns
  PROVE  CommandSound'
  <1>1. /\ tree' = tree /\ record' = record /\ observer.pc = "exec" /\ Command!Live("observer")
        /\ observer' = [observer EXCEPT !.pc = "spawn"] /\ Command!ObserverOnly
    BY DEF Command!ObserverRuns, Command!Observes, Command!ObserverGoto
  <1>2. /\ observer' \in ObserverStates /\ observer'.pc = "spawn" /\ observer'.will = observer.will
        /\ record' \in RecordStates
    BY <1>1 DEF CommandSound, CommandTyped, ObserverStates
  <1>3. RecordSound'
    BY <1>1, <1>2 DEF CommandSound, RecordSound
  <1> QED BY <1>1, <1>2, <1>3, ObserverAwaitGoesOn

LEMMA SpawnGoesOn ==
  ASSUME CommandSound, Command!Spawn
  PROVE  CommandSound'
  <1>1. /\ record' = record /\ observer.pc = "spawn" /\ Command!Live("observer") /\ Command!ObserverOnly
        /\ record' \in RecordStates /\ observer \in ObserverStates
        /\ tree["target"].state = "unborn" /\ tree["child"].state = "unborn" /\ tree["observer"].state = "live"
    BY DEF Command!Spawn, Command!Observes, CommandSound, CommandTyped, TreeSound, Command!Live
  <1>2. ~ record.finished /\ ~ observer.will.finished
    BY <1>1 DEF CommandSound, RecordSound
  <1>3. CASE Command!Fork("target", "observer", {"target"}) /\ Command!ObserverGoto("wait")
    <2>1. "target" \in Command!Processes /\ "observer" \in Command!Processes /\ "observer" \in Parents
      BY DEF Command!Processes, Parents
    <2>2. /\ tree' \in [Command!Processes -> ProcessStates]
          /\ tree'["target"].state = "live" /\ tree'["target"].parent = "observer"
          /\ \/ tree'["target"].pid = "target"
             \/ \E q \in Command!Processes : tree[q].state = "gone" /\ tree'["target"].pid = tree[q].pid
          /\ \A q \in Command!Processes \ {"target"} : tree'[q] = tree[q]
      BY <1>3, <2>1, ForkIs
    <2>3. tree'["target"].pid = "target"
      BY <1>1, <2>2 DEF Command!Processes
    <2>4. tree'["observer"] = tree["observer"] /\ tree'["child"] = tree["child"]
      BY <2>2 DEF Command!Processes
    <2>5. observer' \in ObserverStates /\ observer'.pc = "wait" /\ observer'.will = observer.will
      BY <1>1, <1>3 DEF Command!ObserverGoto, ObserverStates
    <2>6. helper' = helper
      BY <1>1 DEF Command!ObserverOnly, Command!helperVars
    <2>7. TreeSound'
      BY <1>1, <2>2, <2>3, <2>4, <2>5, <2>6
         DEF CommandSound, TreeSound, Command!Gone, Command!Live, Command!HelperOver
    <2>8. TreeCalm
      BY <1>1, <2>1 DEF TreeCalm, Command!AllGone, Command!Gone
    <2>9. RecordSound'
      BY <1>1, <1>2, <2>5 DEF RecordSound
    <2> QED BY <1>1, <2>2, <2>5, <2>7, <2>8, <2>9, ObserverStepGoesOn
  <1>4. CASE /\ UNCHANGED tree
             /\ observer' = [pc |-> "record", will |-> [Command!NoRecord EXCEPT !.finished = TRUE, !.spawnFailed = TRUE]]
    <2>1. observer'.pc = "record" /\ observer'.will.status = "none"
      BY <1>4 DEF Command!NoRecord, Command!NoStatus
    <2>2. observer' \in ObserverStates
      BY <1>4 DEF Command!NoRecord, Command!NoStatus, ObserverStates, RecordStates, Ends
    <2>3. tree["target"].end = "none"
      BY <1>1 DEF CommandSound, TreeSound
    <2>4. RecordSound'
      BY <1>1, <1>2, <1>4, <2>1, <2>3 DEF RecordSound, Ended
    <2> QED BY <1>1, <1>4, <2>1, <2>2, <2>4, ObserverAwaitGoesOn
  <1> QED BY <1>3, <1>4 DEF Command!Spawn

LEMMA SeesEndGoesOn ==
  ASSUME CommandSound, Command!SeesEnd
  PROVE  CommandSound'
  <1>1. /\ record' = record /\ observer.pc = "wait" /\ Command!Live("observer") /\ Command!ObserverOnly
        /\ record' \in RecordStates /\ "target" \in Command!Processes /\ Reaps("target")
    BY DEF Command!SeesEnd, Command!Observes, CommandSound, CommandTyped, Command!Processes, Reaps
  <1>2. PICK timedOut \in BOOLEAN, failed \in BOOLEAN :
          observer' = [pc |-> "quiesce",
                       will |-> [finished |-> TRUE, status |-> tree["target"].end, timedOut |-> timedOut,
                                 failed |-> failed, spawnFailed |-> FALSE]]
    BY DEF Command!SeesEnd
  <1>3. tree["target"].end \in Ends
    BY <1>1 DEF CommandSound, CommandTyped, ProcessStates
  <1>4. observer' \in ObserverStates /\ observer'.pc = "quiesce" /\ observer'.will.status = tree["target"].end
    BY <1>2, <1>3 DEF ObserverStates, RecordStates
  <1>5. helper' = helper
    BY <1>1 DEF Command!ObserverOnly, Command!helperVars
  <1>6. /\ tree' \in [Command!Processes -> ProcessStates] /\ TreeCalm
        /\ tree'["target"].state = "gone" /\ tree'["target"].end = tree["target"].end
    BY <1>1, ReapIs
  <1>7. TreeSound'
    BY <1>1, <1>4, <1>5, ReapedTree
  <1>8. RecordSound'
    BY <1>1, <1>4, <1>6 DEF CommandSound, RecordSound, Ended
  <1> QED BY <1>1, <1>4, <1>6, <1>7, <1>8, ObserverStepGoesOn

LEMMA QuiesceGoesOn ==
  ASSUME CommandSound, Command!Quiesce
  PROVE  CommandSound'
  <1>1. /\ record' = record /\ tree' = tree /\ observer.pc = "quiesce" /\ Command!Live("observer")
        /\ Command!ObserverOnly /\ record' \in RecordStates
        /\ observer \in ObserverStates
    BY DEF Command!Quiesce, Command!Observes, CommandSound, CommandTyped
  <1>2. PICK survives \in BOOLEAN : survives = \E p \in Command!Processes : Command!Live(p) /\ tree[p].group = "target"
    OBVIOUS
  <1>3. observer' = [observer EXCEPT !.pc = "record", !.will.failed = @ \/ survives]
    BY <1>2 DEF Command!Quiesce
  <1>4. observer.will \in RecordStates
    BY <1>1 DEF ObserverStates
  <1>5. PICK w : w = [observer.will EXCEPT !.failed = @ \/ survives]
    OBVIOUS
  <1>6. w \in RecordStates /\ w.finished = observer.will.finished /\ w.status = observer.will.status
    BY <1>4, <1>5 DEF RecordStates
  <1>7. observer' = [observer EXCEPT !.pc = "record", !.will = w]
    BY <1>1, <1>3, <1>5 DEF ObserverStates
  <1>8. observer' \in ObserverStates /\ observer'.pc = "record" /\ observer'.will = w
    BY <1>1, <1>6, <1>7 DEF ObserverStates
  <1>9. RecordSound'
    BY <1>1, <1>6, <1>8 DEF CommandSound, RecordSound, Ended
  <1> QED BY <1>1, <1>8, <1>9, ObserverAwaitGoesOn

LEMMA WriteFinishedGoesOn ==
  ASSUME CommandSound, Command!WriteFinished
  PROVE  CommandSound'
  <1>1. /\ record' = observer.will /\ tree' = tree /\ observer.pc = "record" /\ Command!Live("observer")
        /\ observer' = [pc |-> "exit", will |-> Command!NoRecord]
        /\ Command!ObserverOnly /\ observer \in ObserverStates
    BY DEF Command!WriteFinished, Command!Observes, CommandSound, CommandTyped
  <1>2. Command!NoRecord \in RecordStates /\ ~ Command!NoRecord.finished
    BY DEF Command!NoRecord, Command!NoStatus, RecordStates, Ends
  <1>3. record' \in RecordStates /\ observer' \in ObserverStates /\ observer'.pc = "exit"
    BY <1>1, <1>2 DEF ObserverStates
  <1>4. RecordSound'
    BY <1>1, <1>2, <1>3 DEF CommandSound, RecordSound, Ended
  <1> QED BY <1>1, <1>3, <1>4, ObserverAwaitGoesOn

LEMMA ObserverEndsGoesOn ==
  ASSUME CommandSound, Command!ObserverEnds
  PROVE  CommandSound'
  <1>1. /\ record' = record /\ Command!Live("observer") /\ Command!ObserverOnly
        /\ observer' = [pc |-> "over", will |-> Command!NoRecord]
        /\ record \in RecordStates /\ "observer" \in Command!Processes
    BY DEF Command!ObserverEnds, CommandSound, CommandTyped, Command!Processes
  <1>2. Command!ObserverExit(record) \in Ends
    BY <1>1 DEF Command!ObserverExit, RecordStates, Ends
  <1>3. PICK end \in Ends : Command!Die("observer", end)
    BY <1>2 DEF Command!ObserverEnds, Ends
  <1>4. /\ tree' \in [Command!Processes -> ProcessStates] /\ Dies("observer", end, Command!Adopter)
        /\ TreeCalm /\ EndStays
    BY <1>1, <1>3, DieIs, DyingIsCalm
  <1>5. Command!NoRecord \in RecordStates /\ ~ Command!NoRecord.finished
    BY DEF Command!NoRecord, Command!NoStatus, RecordStates, Ends
  <1>6. observer' \in ObserverStates /\ observer'.pc = "over" /\ helper' = helper
    BY <1>1, <1>5 DEF ObserverStates, Command!ObserverOnly, Command!helperVars
  <1>7. ~ Command!HelperOver => Command!Adopter = "helper"
    BY DEF Command!Adopter
  <1>8. TreeSound'
    BY <1>1, <1>4, <1>6, <1>7 DEF CommandSound, TreeSound, Dies, Command!Gone, Command!Live, Command!Processes,
       Command!HelperOver
  <1>9. RecordSound'
    <2>1. record.status \in Ends
      BY <1>1 DEF RecordStates
    <2> QED BY <1>1, <1>4, <1>5, <1>6, <2>1 DEF CommandSound, RecordSound, EndStays
  <1> QED BY <1>1, <1>4, <1>6, <1>8, <1>9, ObserverStepGoesOn

\* ---- The helper.
LEMMA HelperStepGoesOn ==
  ASSUME CommandSound, Command!HelperOnly, tree' = tree, ~ Command!HelperOver,
         helper' \in HelperStates, helper'.pc \notin {"exited", "killed"},
         got' \in [Command!Processes -> [Signals -> Nat]], report' \in ReportStates, late' \in BOOLEAN,
         helper'.pc \in {"pipe", "settle"} \/ (helper'.pc = "look" /\ helper'.none) => Command!AllGone,
         helper'.pc = "settle" /\ late' => cancelled \/ time >= Timeout,
         helper'.pc \in Supervising => report' = Command!NoReport,
         report'.custody \in {"reaped", "completed"} => Command!AllGone,
         report'.custody = "completed" => ~ late',
         SignalsSound'
  PROVE  CommandSound'
  <1>1. UNCHANGED <<time, cancelled, observer, record, outcome, removed>>
    BY DEF Command!HelperOnly, Command!observerVars, Command!invokerVars
  <1>2. CommandTyped'
    BY <1>1 DEF CommandSound, CommandTyped
  <1>3. ~ Command!HelperOver'
    BY DEF Command!HelperOver
  <1>4. TreeSound'
    BY <1>1, <1>3 DEF CommandSound, TreeSound, Command!Gone, Command!Live
  <1>5. RecordSound'
    BY <1>1, SameTree, RecordStays
  <1>6. outcome = Command!NoReport /\ (Command!AllGone' <=> Command!AllGone)
    BY DEF CommandSound, HelperSound, Command!AllGone, Command!Gone
  <1>7. HelperSound'
    BY <1>1, <1>6 DEF CommandSound, HelperSound, Command!NoReport
  <1> QED BY <1>2, <1>4, <1>5, <1>7 DEF CommandSound

\* One that sends nothing.
LEMMA HelperLooksOn ==
  ASSUME CommandSound, helper.pc \in Supervising, got' = got, helper' \in HelperStates,
         helper'.pc \in Supervising => helper'.sent = helper.sent,
         report'.custody = "uncertain" => report'.uncertain
  PROVE  SignalsSound'
  BY DEF CommandSound, SignalsSound

\* Nothing is left when the helper has no child.
LEMMA NoChildIsGone ==
  ASSUME CommandSound, ~ Command!HelperOver, Command!Children("helper") = {}
  PROVE  Command!AllGone
  <1>1. \A p \in Command!Processes : tree[p].parent = "helper" => Command!Gone(p)
    BY DEF Command!Children
  <1>2. Command!Gone("observer")
    BY <1>1 DEF CommandSound, TreeSound, Command!Processes
  <1>3. Command!Gone("target")
    BY <1>1, <1>2 DEF CommandSound, TreeSound, Command!Processes, Command!Gone, Command!Live
  <1>4. Command!Gone("child")
    BY <1>1, <1>3 DEF CommandSound, TreeSound, Command!Processes, Command!Gone, Command!Live
  <1> QED BY <1>2, <1>3, <1>4 DEF Command!AllGone, Command!Processes

LEMMA FreshHelperTyped ==
  ASSUME NEW pc \in HelperSteps
  PROVE  Command!FreshHelper(pc) \in HelperStates /\ Command!FreshHelper(pc).pc = pc
  <1>1. Command!NotBegun \in Nat
    BY ToolingAssumption DEF Command!CustodyAssumption, Command!NotBegun, Command!MaxTime
  <1> QED BY <1>1 DEF Command!FreshHelper, HelperStates, Reasons, Sendings

LEMMA HelperAt ==
  ASSUME CommandSound, helper.pc \in Supervising
  PROVE  /\ ~ Command!HelperOver /\ report = Command!NoReport /\ outcome = Command!NoReport
         /\ helper \in HelperStates /\ got \in [Command!Processes -> [Signals -> Nat]]
         /\ report \in ReportStates /\ late \in BOOLEAN /\ cancelled \in BOOLEAN /\ time \in Nat
         /\ report.custody = "none" /\ Timeout \in Nat
  <1>1. ~ Command!HelperOver
    BY DEF Command!HelperOver, Supervising
  <1> QED BY <1>1, ToolingAssumption
          DEF CommandSound, CommandTyped, HelperSound, Command!NoReport, Command!CustodyAssumption

LEMMA WaitEndsGoesOn ==
  ASSUME CommandSound, Command!WaitEnds
  PROVE  CommandSound'
  <1>1. /\ helper.pc = "wait" /\ UNCHANGED <<tree, got, report, late>> /\ Command!HelperOnly
        /\ helper.pc \in Supervising
    BY DEF Command!WaitEnds, Command!Helps, Command!treeVars, Supervising
  <1>2. PICK none \in BOOLEAN : none = (Command!Children("helper") = {})
    OBVIOUS
  <1>3. /\ helper' \in HelperStates /\ helper'.pc = "look" /\ helper'.sent = helper.sent
        /\ helper'.none => none
    <2>1. helper \in HelperStates /\ "look" \in HelperSteps
      BY <1>1, HelperAt DEF HelperSteps, Supervising
    <2>2. CASE helper' = [helper EXCEPT !.pc = "look", !.none = none]
      BY <2>1, <2>2 DEF HelperStates
    <2>3. CASE helper' = [helper EXCEPT !.pc = "look", !.none = FALSE, !.uncertain = TRUE]
      BY <2>1, <2>3 DEF HelperStates
    <2> QED BY <1>2, <2>2, <2>3 DEF Command!WaitEnds
  <1>4. none => Command!AllGone
    BY <1>1, <1>2, HelperAt, NoChildIsGone
  <1>5. SignalsSound'
    BY <1>1, <1>3, HelperAt, HelperLooksOn
  <1> QED BY <1>1, <1>3, <1>4, <1>5, HelperAt, HelperStepGoesOn

LEMMA LatchedIsReason ==
  ASSUME CommandSound, helper.pc \in Supervising, NEW read \in BOOLEAN
  PROVE  /\ Command!Latched(read) \in Reasons /\ Command!Reason(read) \in Reasons
         /\ read /\ Command!Latched(read) = "none" => ~ cancelled /\ ~ (time >= Timeout)
  BY HelperAt DEF Command!Latched, Command!Reason, HelperStates, Reasons

LEMMA LookAndSettleGoesOn ==
  ASSUME CommandSound, Command!LookAndSettle
  PROVE  CommandSound'
  <1>1. /\ helper.pc = "look" /\ UNCHANGED <<tree, got, report, late>> /\ Command!HelperOnly
        /\ helper.pc \in Supervising /\ helper.none
    BY DEF Command!LookAndSettle, Command!Settles, Command!Helps, Command!treeVars, Supervising
  <1>2. /\ helper' \in HelperStates /\ helper'.pc = "pipe" /\ helper'.sent = helper.sent
    BY <1>1, HelperAt, LatchedIsReason DEF Command!LookAndSettle, HelperStates, HelperSteps, Supervising
  <1>3. Command!AllGone
    BY <1>1 DEF CommandSound, HelperSound
  <1>4. SignalsSound'
    BY <1>1, <1>2, HelperAt, HelperLooksOn
  <1> QED BY <1>1, <1>2, <1>3, <1>4, HelperAt, HelperStepGoesOn

LEMMA ReadPipeGoesOn ==
  ASSUME CommandSound, Command!ReadPipe
  PROVE  CommandSound'
  <1>1. /\ helper.pc = "pipe" /\ UNCHANGED <<tree, got, report>> /\ Command!HelperOnly
        /\ helper.pc \in Supervising /\ late' = (cancelled \/ time >= Timeout)
    BY DEF Command!ReadPipe, Command!Helps, Command!treeVars, Supervising
  <1>2. PICK uncertain \in BOOLEAN : helper' = [helper EXCEPT !.pc = "settle", !.uncertain = uncertain]
    BY <1>1, HelperAt DEF Command!ReadPipe, HelperStates
  <1>3. helper' \in HelperStates /\ helper'.pc = "settle" /\ helper'.sent = helper.sent
    BY <1>1, <1>2, HelperAt DEF HelperStates, HelperSteps, Supervising
  <1>4. Command!AllGone
    BY <1>1 DEF CommandSound, HelperSound
  <1>5. SignalsSound'
    BY <1>1, <1>3, HelperAt, HelperLooksOn
  <1>6. late' \in BOOLEAN
    BY <1>1, HelperAt
  <1> QED BY <1>1, <1>3, <1>4, <1>5, <1>6, HelperAt, HelperStepGoesOn

LEMMA ReportIs ==
  ASSUME CommandSound, NEW custody \in {"uncertain", "reaped", "completed"}, NEW why \in Reasons,
         NEW uncertain \in BOOLEAN, Command!Reports(custody, why, uncertain)
  PROVE  report' \in ReportStates /\ report'.custody = custody /\ report'.uncertain = uncertain
  <1>1. tree["observer"].end \in Ends /\ "none" \in Ends
    BY DEF CommandSound, CommandTyped, ProcessStates, Command!Processes, Ends
  <1> QED BY <1>1 DEF Command!Reports, ReportStates, Command!NoStatus

LEMMA SettleGoesOn ==
  ASSUME CommandSound, Command!Settle
  PROVE  CommandSound'
  <1>1. /\ helper.pc = "settle" /\ UNCHANGED <<tree, got, late>> /\ Command!HelperOnly
        /\ helper.pc \in Supervising /\ helper' = Command!FreshHelper("reported")
    BY DEF Command!Settle, Command!Helps, Command!treeVars, Supervising
  <1>2. PICK read \in BOOLEAN :
          LET uncertain == helper.uncertain \/ ~ read
          IN Command!Reports(IF uncertain THEN "uncertain"
                             ELSE IF Command!Latched(read) # "none" THEN "reaped" ELSE "completed",
                             Command!Latched(read), uncertain)
    BY DEF Command!Settle
  <1>3. PICK uncertain \in BOOLEAN : uncertain = (helper.uncertain \/ ~ read)
    BY <1>1, HelperAt DEF HelperStates
  <1>4. PICK custody \in {"uncertain", "reaped", "completed"} :
          custody = IF uncertain THEN "uncertain"
                    ELSE IF Command!Latched(read) # "none" THEN "reaped" ELSE "completed"
    OBVIOUS
  <1>5. Command!Reports(custody, Command!Latched(read), uncertain)
    BY <1>2, <1>3, <1>4
  <1>6. report' \in ReportStates /\ report'.custody = custody /\ report'.uncertain = uncertain
    BY <1>1, <1>5, ReportIs, LatchedIsReason
  <1>7. custody = "completed" => ~ late
    <2>1. custody = "completed" => read /\ Command!Latched(read) = "none"
      BY <1>3, <1>4
    <2> QED BY <1>1, <2>1, LatchedIsReason DEF CommandSound, HelperSound
  <1>8. helper' \in HelperStates /\ helper'.pc = "reported"
    BY <1>1, FreshHelperTyped DEF HelperSteps
  <1>9. Command!AllGone
    BY <1>1 DEF CommandSound, HelperSound
  <1>10. SignalsSound'
    BY <1>1, <1>4, <1>6, <1>8, HelperLooksOn DEF Supervising
  <1> QED BY <1>1, <1>6, <1>7, <1>8, <1>9, <1>10, HelperAt, HelperStepGoesOn DEF Supervising

LEMMA LookAndGiveUpGoesOn ==
  ASSUME CommandSound, Command!LookAndGiveUp
  PROVE  CommandSound'
  <1>1. /\ helper.pc = "look" /\ UNCHANGED <<tree, got, late>> /\ Command!HelperOnly
        /\ helper.pc \in Supervising /\ helper' = Command!FreshHelper("reported")
        /\ Command!Reports("uncertain", Command!Latched(FALSE), TRUE)
    BY DEF Command!LookAndGiveUp, Command!Helps, Command!treeVars, Supervising
  <1>2. report' \in ReportStates /\ report'.custody = "uncertain" /\ report'.uncertain
    BY <1>1, ReportIs, LatchedIsReason
  <1>3. helper' \in HelperStates /\ helper'.pc = "reported"
    BY <1>1, FreshHelperTyped DEF HelperSteps
  <1>4. SignalsSound'
    BY <1>1, <1>2, <1>3, HelperLooksOn DEF Supervising
  <1> QED BY <1>1, <1>2, <1>3, <1>4, HelperAt, HelperStepGoesOn DEF Supervising

LEMMA ReadingsTyped ==
  ASSUME CommandSound, helper.pc \in Supervising, NEW read \in BOOLEAN
  PROVE  Command!Failures(read) \in Nat /\ Command!Now(read) \in Nat /\ Command!Began(read) \in Nat
  BY HelperAt DEF Command!Failures, Command!Now, Command!Began, HelperStates

LEMMA LookAndNapGoesOn ==
  ASSUME CommandSound, Command!LookAndNap
  PROVE  CommandSound'
  <1>1. /\ helper.pc = "look" /\ UNCHANGED <<tree, got, report, late>> /\ Command!HelperOnly
        /\ helper.pc \in Supervising
    BY DEF Command!LookAndNap, Command!Helps, Command!treeVars, Supervising
  <1>2. PICK read \in BOOLEAN :
          helper' = [helper EXCEPT !.pc = "wait", !.uncertain = @ \/ ~ read, !.failures = Command!Failures(read)]
    BY DEF Command!LookAndNap
  <1>3. helper' \in HelperStates /\ helper'.pc = "wait" /\ helper'.sent = helper.sent
    BY <1>1, <1>2, HelperAt, ReadingsTyped DEF HelperStates, HelperSteps, Supervising
  <1>4. SignalsSound'
    BY <1>1, <1>3, HelperAt, HelperLooksOn
  <1> QED BY <1>1, <1>3, <1>4, HelperAt, HelperStepGoesOn

\* No two processes that are left have one number, so the entry of a tracked
\* child is its own.
LEMMA EntryIsOwn ==
  ASSUME CommandSound, NEW p \in Command!Processes, ~ Command!Gone(p), helper.sent \subseteq Sendings
  PROVE  Command!Entry(p) = p
  <1>1. ASSUME NEW q \in Command!Processes, ~ Command!Gone(q), tree[q].pid = tree[p].pid
        PROVE  q = p
    BY <1>1 DEF CommandSound, TreeSound, Command!Gone, Command!Processes
  <1>2. \A q \in Command!Tracked(p) : q \in Command!Processes
    BY DEF Command!Tracked, Sendings
  <1>3. \A q \in Command!Tracked(p) : q = p
    BY <1>1, <1>2 DEF Command!Tracked
  <1>4. CASE Command!Tracked(p) = {}
    BY <1>4 DEF Command!Entry
  <1>5. CASE Command!Tracked(p) # {}
    <2>1. Command!Entry(p) \in Command!Tracked(p)
      BY <1>5 DEF Command!Entry
    <2> QED BY <1>3, <2>1
  <1> QED BY <1>4, <1>5

LEMMA LookAndSignalGoesOn ==
  ASSUME CommandSound, Command!LookAndSignal
  PROVE  CommandSound'
  <1>1. /\ helper.pc = "look" /\ UNCHANGED <<tree, late>> /\ Command!HelperOnly /\ helper.pc \in Supervising
    BY DEF Command!LookAndSignal, Command!Helps, Supervising
  <1>2. PICK read \in BOOLEAN, reached \in SUBSET Command!Children("helper") :
          LET signal == IF Command!Now(read) >= Command!Began(read) + TermAfter THEN "KILL" ELSE "TERM"
              new == {<<Command!Entry(p), signal>> : p \in reached} \ helper.sent
              uncertain == helper.uncertain \/ ~ read \/ reached # Command!Children("helper")
              over == Command!Now(read) >= Command!Began(read) + DrainFor
          IN /\ got' = [p \in Command!Processes |->
                   IF <<p, signal>> \in new /\ ~ Command!Gone(p) THEN [got[p] EXCEPT ![signal] = @ + 1] ELSE got[p]]
             /\ IF over
                THEN /\ helper' = [Command!FreshHelper("reported") EXCEPT !.list = reached]
                     /\ Command!Reports("uncertain", Command!Reason(read), uncertain)
                ELSE /\ UNCHANGED report
                     /\ helper' = [helper EXCEPT !.pc = "wait", !.reason = Command!Reason(read),
                          !.began = Command!Began(read), !.uncertain = uncertain,
                          !.failures = Command!Failures(read), !.sent = @ \cup new]
    BY DEF Command!LookAndSignal
  <1>3. PICK signal \in Signals : signal = IF Command!Now(read) >= Command!Began(read) + TermAfter THEN "KILL" ELSE "TERM"
    BY DEF Signals
  <1>4. PICK new : new = {<<Command!Entry(p), signal>> : p \in reached} \ helper.sent
    OBVIOUS
  <1>5. PICK uncertain \in BOOLEAN : uncertain = (helper.uncertain \/ ~ read \/ reached # Command!Children("helper"))
    BY <1>1, HelperAt DEF HelperStates
  <1>6. helper \in HelperStates /\ helper.sent \subseteq Sendings
    BY <1>1, HelperAt DEF HelperStates
  <1>7. \A p \in reached : p \in Command!Processes /\ ~ Command!Gone(p)
    BY DEF Command!Children
  <1>8. \A p \in reached : Command!Entry(p) = p
    BY <1>6, <1>7, EntryIsOwn
  <1>9. new = {<<p, signal>> : p \in reached} \ helper.sent
    BY <1>4, <1>8
  <1>10. /\ new \subseteq Sendings
         /\ \A p \in Command!Processes, s \in Signals :
              <<p, s>> \in new <=> p \in reached /\ s = signal /\ <<p, s>> \notin helper.sent
    BY <1>7, <1>9 DEF Sendings
  <1>11. got' = [p \in Command!Processes |->
                   IF <<p, signal>> \in new /\ ~ Command!Gone(p) THEN [got[p] EXCEPT ![signal] = @ + 1] ELSE got[p]]
    BY <1>2, <1>3, <1>4
  <1>12. got' \in [Command!Processes -> [Signals -> Nat]]
    <2>1. \A p \in Command!Processes : got[p] \in [Signals -> Nat]
      BY <1>1, HelperAt
    <2>2. \A p \in Command!Processes : [got[p] EXCEPT ![signal] = @ + 1] \in [Signals -> Nat]
      BY <2>1
    <2> QED BY <1>11, <2>1, <2>2
  <1>13. ASSUME NEW p \in Command!Processes, NEW s \in Signals
         PROVE  got'[p][s] = IF <<p, s>> \in helper.sent \cup new THEN 1 ELSE 0
    <2>1. got[p] \in [Signals -> Nat] /\ got[p][s] = IF <<p, s>> \in helper.sent THEN 1 ELSE 0
      BY <1>1, HelperAt DEF CommandSound, SignalsSound
    <2>2. CASE <<p, signal>> \in new
      <3>1. ~ Command!Gone(p)
        BY <1>7, <1>10, <2>2
      <3>2. got'[p] = [got[p] EXCEPT ![signal] = @ + 1]
        BY <1>11, <2>2, <3>1
      <3>3. CASE s = signal
        BY <1>10, <2>1, <2>2, <3>2, <3>3
      <3>4. CASE s # signal
        BY <1>10, <2>1, <3>2, <3>4
      <3> QED BY <3>3, <3>4
    <2>3. CASE <<p, signal>> \notin new
      <3>1. got'[p] = got[p]
        BY <1>11, <2>3
      <3>2. <<p, s>> \notin new
        BY <1>10, <2>3
      <3> QED BY <2>1, <3>1, <3>2
    <2> QED BY <2>2, <2>3
  <1>16. ASSUME NEW p \in Command!Processes, NEW s \in Signals
         PROVE  got'[p][s] <= 1
    <2>1. got'[p][s] = 1 \/ got'[p][s] = 0
      BY <1>13
    <2> QED BY <2>1
  <1>14. CASE Command!Now(read) >= Command!Began(read) + DrainFor
    <2>1. helper' = [Command!FreshHelper("reported") EXCEPT !.list = reached]
      BY <1>2, <1>14
    <2>2. Command!Reports("uncertain", Command!Reason(read), uncertain)
      BY <1>2, <1>5, <1>14
    <2>3. report' \in ReportStates /\ report'.custody = "uncertain"
      BY <1>1, <2>2, ReportIs, LatchedIsReason
    <2>4. helper' \in HelperStates /\ helper'.pc = "reported" /\ helper'.list = reached
      <3>1. Command!FreshHelper("reported") \in HelperStates /\ Command!FreshHelper("reported").pc = "reported"
        BY FreshHelperTyped DEF HelperSteps
      <3>2. reached \in SUBSET Command!Processes
        BY <1>7
      <3> QED BY <2>1, <3>1, <3>2 DEF HelperStates
    <2>5. signal = "KILL"
      BY <1>1, <1>3, <1>14, ReadingsTyped, ToolingAssumption DEF Command!CustodyAssumption
    <2>6. \A p \in reached : got'[p]["KILL"] = 1
      <3>1. \A p \in reached : <<p, signal>> \in helper.sent \cup new
        BY <1>9
      <3> QED BY <1>7, <1>13, <2>5, <3>1
    <2>7. \A p \in Command!Processes, s \in Signals : got'[p][s] <= 1
      BY <1>16
    <2>8. SignalsSound'
      BY <2>4, <2>6, <2>7 DEF SignalsSound, Supervising
    <2> QED BY <1>1, <1>12, <2>3, <2>4, <2>8, HelperAt, HelperStepGoesOn DEF Supervising
  <1>15. CASE ~ (Command!Now(read) >= Command!Began(read) + DrainFor)
    <2>1. /\ report' = report
          /\ helper' = [helper EXCEPT !.pc = "wait", !.reason = Command!Reason(read),
                          !.began = Command!Began(read), !.uncertain = uncertain,
                          !.failures = Command!Failures(read), !.sent = @ \cup new]
      BY <1>2, <1>3, <1>4, <1>5, <1>15
    <2>2. /\ Command!Reason(read) \in Reasons /\ Command!Began(read) \in Nat /\ Command!Failures(read) \in Nat
          /\ "wait" \in HelperSteps /\ helper.sent \cup new \in SUBSET Sendings
      BY <1>1, <1>6, <1>10, LatchedIsReason, ReadingsTyped DEF HelperSteps, Supervising
    <2>3. helper' \in HelperStates /\ helper'.pc = "wait" /\ helper'.sent = helper.sent \cup new
      BY <1>6, <2>1, <2>2 DEF HelperStates
    <2>4. report.custody = "none"
      BY <1>1, HelperAt
    <2>5. \A p \in Command!Processes, s \in Signals : got'[p][s] <= 1
      BY <1>16
    <2>6. SignalsSound'
      BY <1>13, <2>1, <2>3, <2>4, <2>5 DEF SignalsSound
    <2> QED BY <1>1, <1>12, <2>1, <2>3, <2>6, HelperAt, HelperStepGoesOn
  <1> QED BY <1>14, <1>15

LEMMA HelperEndsGoesOn ==
  ASSUME CommandSound, Command!HelperEnds
  PROVE  CommandSound'
  <1>1. /\ UNCHANGED <<time, cancelled, observer, record, outcome, removed, report, late>>
        /\ got' = Command!Nothing
    BY DEF Command!HelperEnds, Command!HelperOnly, Command!observerVars, Command!invokerVars
  <1>2. PICK pc \in {"exited", "killed"} : helper' = Command!FreshHelper(pc)
    BY DEF Command!HelperEnds
  <1>3. helper' \in HelperStates /\ helper'.pc = pc /\ helper'.list = {}
    BY <1>2, FreshHelperTyped DEF HelperSteps, Command!FreshHelper
  <1>4. tree \in [Command!Processes -> ProcessStates]
    BY DEF CommandSound, CommandTyped
  <1>5. tree' = [p \in Command!Processes |->
                   IF p \in Command!Children("helper") THEN [tree[p] EXCEPT !.parent = "init"] ELSE tree[p]]
    BY DEF Command!HelperEnds
  <1>6. ASSUME NEW p \in Command!Processes
        PROVE  /\ tree'[p] \in ProcessStates /\ tree'[p].state = tree[p].state
               /\ tree'[p].end = tree[p].end /\ tree'[p].pid = tree[p].pid
    <2>1. tree[p] \in ProcessStates /\ "init" \in Parents
      BY <1>4 DEF Parents
    <2>2. tree'[p] = IF p \in Command!Children("helper") THEN [tree[p] EXCEPT !.parent = "init"] ELSE tree[p]
      BY <1>5
    <2> QED BY <2>1, <2>2 DEF ProcessStates
  <1>7. tree' \in [Command!Processes -> ProcessStates]
    BY <1>5, <1>6
  <1>8. got' \in [Command!Processes -> [Signals -> Nat]] /\ \A p \in Command!Processes, s \in Signals : got'[p][s] = 0
    BY <1>1 DEF Command!Nothing, Signals
  <1>9. Command!HelperOver'
    BY <1>3 DEF Command!HelperOver
  <1>10. {"observer", "target", "child"} \subseteq Command!Processes
    BY DEF Command!Processes
  <1>11. TreeSound'
    BY <1>1, <1>6, <1>9, <1>10 DEF CommandSound, TreeSound, Command!Live
  <1>12. (Command!AllGone' <=> Command!AllGone) /\ \A status : Ended(status)' <=> Ended(status)
    BY <1>6, <1>10 DEF Command!AllGone, Command!Gone, Ended
  <1>13. RecordSound'
    BY <1>1, <1>12 DEF CommandSound, RecordSound
  <1>14. HelperSound'
    BY <1>1, <1>3, <1>9, <1>12 DEF CommandSound, HelperSound, Supervising, Command!NoReport
  <1>15. SignalsSound'
    BY <1>3, <1>8 DEF SignalsSound, Supervising
  <1> QED BY <1>1, <1>3, <1>7, <1>8, <1>11, <1>13, <1>14, <1>15 DEF CommandSound, CommandTyped

\* ---- The invoker.
LEMMA InvokerStepGoesOn ==
  ASSUME CommandSound, UNCHANGED <<tree, got, time, cancelled, observer, record, helper, report, late>>,
         outcome' \in ReportStates, removed' \in BOOLEAN,
         outcome' # Command!NoReport => Command!HelperOver,
         outcome' # Command!NoReport /\ ~ outcome'.uncertain =>
           Command!AllGone /\ Ended(outcome'.status) /\ (outcome'.custody = "completed" => ~ late),
         removed' => Command!AllGone
  PROVE  CommandSound'
  <1>1. CommandTyped'
    BY DEF CommandSound, CommandTyped
  <1>2. TreeSound'
    BY DEF CommandSound, TreeSound, Command!Gone, Command!Live, Command!HelperOver
  <1>3. RecordSound'
    BY SameTree, RecordStays
  <1>4. (Command!AllGone' <=> Command!AllGone) /\ (Command!HelperOver' <=> Command!HelperOver)
    BY DEF Command!AllGone, Command!Gone, Command!HelperOver
  <1>5. HelperSound'
    BY <1>4 DEF CommandSound, HelperSound, Ended, Command!NoReport
  <1>6. SignalsSound'
    BY DEF CommandSound, SignalsSound
  <1> QED BY <1>1, <1>2, <1>3, <1>5, <1>6 DEF CommandSound

LEMMA JudgeGoesOn ==
  ASSUME CommandSound, Command!Judge
  PROVE  CommandSound'
  <1>1. /\ UNCHANGED <<tree, got, time, cancelled, observer, record, helper, report, late, removed>>
        /\ Command!HelperOver
    BY DEF Command!Judge, Command!treeVars, Command!observerVars, Command!helperVars
  <1>2. PICK native \in {report, Command!NoReport}, overflowed \in BOOLEAN :
          outcome' = [custody |-> IF ~ Command!Quiescent(native) THEN "uncertain"
                                  ELSE IF native.custody = "reaped" \/ record.timedOut \/ overflowed THEN "reaped"
                                  ELSE "completed",
                      error |-> native.error, uncertain |-> ~ Command!Quiescent(native), status |-> record.status]
    BY DEF Command!Judge
  <1>3. Command!NoReport \in ReportStates /\ Command!NoReport.custody = "none"
    BY DEF Command!NoReport, Command!NoStatus, ReportStates, Reasons, Ends
  <1>4. /\ native \in ReportStates /\ record \in RecordStates /\ late \in BOOLEAN /\ removed \in BOOLEAN
        /\ removed => Command!AllGone
    BY <1>3 DEF CommandSound, CommandTyped, HelperSound
  <1>5. PICK custody \in {"uncertain", "reaped", "completed"}, uncertain \in BOOLEAN :
          /\ custody = IF ~ Command!Quiescent(native) THEN "uncertain"
                       ELSE IF native.custody = "reaped" \/ record.timedOut \/ overflowed THEN "reaped"
                       ELSE "completed"
          /\ uncertain = ~ Command!Quiescent(native)
    OBVIOUS
  <1>6. outcome' = [custody |-> custody, error |-> native.error, uncertain |-> uncertain, status |-> record.status]
    BY <1>2, <1>5
  <1>7. /\ outcome' \in ReportStates /\ outcome'.uncertain = uncertain /\ outcome'.custody = custody
        /\ outcome'.status = record.status
    BY <1>4, <1>6 DEF ReportStates, RecordStates
  <1>8. ASSUME ~ uncertain
        PROVE  Command!AllGone /\ Ended(record.status) /\ (custody = "completed" => ~ late)
    <2>1. record.finished /\ native.custody \notin {"none", "uncertain"}
      BY <1>5, <1>8 DEF Command!Quiescent, Command!Settled
    <2>2. native = report /\ report.custody \in {"reaped", "completed"}
      BY <1>3, <1>4, <2>1 DEF ReportStates
    <2>3. custody = "completed" => native.custody = "completed"
      BY <1>5, <2>1, <2>2
    <2> QED BY <2>1, <2>2, <2>3 DEF CommandSound, HelperSound, RecordSound
  <1> QED BY <1>1, <1>4, <1>7, <1>8, InvokerStepGoesOn

LEMMA RemoveInvocationGoesOn ==
  ASSUME CommandSound, Command!RemoveInvocation
  PROVE  CommandSound'
  <1>1. /\ UNCHANGED <<tree, got, time, cancelled, observer, record, helper, report, late, outcome>>
        /\ removed' = TRUE /\ outcome # Command!NoReport /\ ~ outcome.uncertain
    BY DEF Command!RemoveInvocation, Command!treeVars, Command!observerVars, Command!helperVars
  <1>2. outcome \in ReportStates
    BY DEF CommandSound, CommandTyped
  <1> QED BY <1>1, <1>2, InvokerStepGoesOn DEF CommandSound, HelperSound

LEMMA CommandStarts == ToolingInit => CommandInv
  <1> SUFFICES ASSUME Command!Init
               PROVE  CommandSound
    BY DEF ToolingInit, InitCommand, CommandInv
  <1>1. /\ got = Command!Nothing /\ time = 0 /\ cancelled = FALSE
        /\ observer = [pc |-> "exec", will |-> Command!NoRecord] /\ record = Command!NoRecord
        /\ helper = Command!FreshHelper("wait") /\ report = Command!NoReport /\ late = FALSE
        /\ outcome = Command!NoReport /\ removed = FALSE
    BY DEF Command!Init
  <1>2. {"observer", "target", "child"} = Command!Processes /\ "none" \in Ends /\ {"none", "helper"} \subseteq Parents
    BY DEF Command!Processes, Ends, Parents
  <1>3. \A p \in Command!Processes : Command!Unborn(p) \in ProcessStates
    BY <1>2 DEF Command!Unborn, Command!NoStatus, ProcessStates
  <1>4. \A p \in Command!Processes :
          tree[p] = IF p = "observer" THEN [Command!Unborn(p) EXCEPT !.state = "live", !.parent = "helper"]
                    ELSE Command!Unborn(p)
    BY DEF Command!Init
  <1>5. [Command!Unborn("observer") EXCEPT !.state = "live", !.parent = "helper"] \in ProcessStates
    <2>1. Command!Unborn("observer") \in ProcessStates
      BY <1>2, <1>3
    <2> QED BY <1>2, <2>1 DEF ProcessStates
  <1>6. tree \in [Command!Processes -> ProcessStates]
    BY <1>3, <1>4, <1>5 DEF Command!Init
  <1>7. Command!NoRecord \in RecordStates /\ ~ Command!NoRecord.finished
    BY <1>2 DEF Command!NoRecord, Command!NoStatus, RecordStates
  <1>8. Command!NoReport \in ReportStates /\ Command!NoReport.custody = "none"
    BY <1>2 DEF Command!NoReport, Command!NoStatus, ReportStates, Reasons
  <1>9. got \in [Command!Processes -> [Signals -> Nat]] /\ \A p \in Command!Processes, s \in Signals : got[p][s] = 0
    BY <1>1 DEF Command!Nothing, Signals
  <1>10. observer \in ObserverStates /\ observer.pc = "exec" /\ ~ observer.will.finished
    BY <1>1, <1>7 DEF ObserverStates
  <1>11. helper \in HelperStates /\ helper.pc = "wait" /\ helper.sent = {}
    BY <1>1, FreshHelperTyped DEF HelperSteps, Supervising, Command!FreshHelper
  <1>12. CommandTyped
    BY <1>1, <1>6, <1>7, <1>8, <1>9, <1>10, <1>11 DEF CommandTyped
  <1>13. /\ tree["observer"].state = "live" /\ tree["observer"].parent = "helper" /\ tree["observer"].pid = "observer"
         /\ tree["target"].state = "unborn" /\ tree["target"].pid = "target" /\ tree["target"].end = "none"
         /\ tree["child"].state = "unborn" /\ tree["child"].pid = "child"
    <2>1. /\ tree["observer"] = [Command!Unborn("observer") EXCEPT !.state = "live", !.parent = "helper"]
          /\ tree["target"] = Command!Unborn("target") /\ tree["child"] = Command!Unborn("child")
      BY <1>2, <1>4
    <2> QED BY <2>1 DEF Command!Unborn, Command!NoStatus
  <1>14. TreeSound
    BY <1>10, <1>13 DEF TreeSound, Command!Live, Command!Gone
  <1>15. RecordSound
    BY <1>1, <1>7, <1>10 DEF RecordSound
  <1>16. HelperSound
    BY <1>1, <1>8, <1>11 DEF HelperSound
  <1>17. SignalsSound
    BY <1>1, <1>8, <1>9, <1>11 DEF SignalsSound
  <1> QED BY <1>12, <1>14, <1>15, <1>16, <1>17 DEF CommandSound

LEMMA CommandGoesOn ==
  ASSUME CommandSound, Command!Next
  PROVE  CommandSound'
  BY TargetForksGoesOn, EndsGoesOn, ReapingGoesOn, TickOrCancelGoesOn, ObserverRunsGoesOn, SpawnGoesOn, SeesEndGoesOn,
     QuiesceGoesOn, WriteFinishedGoesOn, ObserverEndsGoesOn, WaitEndsGoesOn, LookAndSettleGoesOn, ReadPipeGoesOn,
     SettleGoesOn, LookAndGiveUpGoesOn, LookAndNapGoesOn, LookAndSignalGoesOn, HelperEndsGoesOn, JudgeGoesOn,
     RemoveInvocationGoesOn DEF Command!Next

LEMMA CommandKeeps == CommandInv /\ [ToolingNext]_toolingVars => CommandInv'
  <1> SUFFICES ASSUME CommandInv, [ToolingNext]_toolingVars, running' = "command"
               PROVE  CommandSound'
    BY DEF CommandInv
  <1>1. running = "command" /\ CommandSound
    BY DEF CommandInv, ToolingNext, toolingVars, RunCommand, RunProof, RunOutput, RunDelivery,
           RunInstallation, RunPorts
  <1>2. CASE Command!Next
    BY <1>1, <1>2, CommandGoesOn
  <1>3. CASE UNCHANGED commandVars
    <2>1. UNCHANGED <<tree, got, time, cancelled, observer, record, helper, report, late, outcome, removed>>
      BY <1>3 DEF commandVars
    <2>2. outcome \in ReportStates /\ removed \in BOOLEAN
      BY <1>1 DEF CommandSound, CommandTyped
    <2> QED BY <1>1, <2>1, <2>2, InvokerStepGoesOn DEF CommandSound, HelperSound
  <1> QED BY <1>1, <1>2, <1>3 DEF ToolingNext, toolingVars, RunCommand, RunProof, RunOutput,
                                  RunDelivery, RunInstallation, RunPorts

\* The inductive invariant of a command under custody.
THEOREM CommandInvariant == ToolingSpec => []CommandInv
  BY CommandStarts, CommandKeeps, PTL DEF ToolingSpec

\* What the invoker calls anything but uncertain has left no process, ended as the
\* outcome says, and was neither cancelled nor late if it is "completed"; its
\* directory is deleted only then (subreaper.c, toolchain-execution.mjs): for any
\* deadline and drain, whatever is killed and however often a number is used again.
THEOREM CommandsAreInCustody == ToolingSpec => []CustodyIsTrue
  <1>1. CommandInv => CustodyIsTrue
    BY DEF CommandInv, CommandSound, HelperSound, Ended, CustodyIsTrue, Command!CustodyIsTrue
  <1> QED BY <1>1, CommandInvariant, PTL

\* No process is sent TERM or KILL twice, and whatever the helper leaves behind for
\* no other reason was sent KILL (signal_children()): for any drain.
THEOREM SignalsAreSentOnce == ToolingSpec => []SignalledOnce
  <1>1. CommandInv => SignalledOnce
    BY DEF CommandInv, CommandSound, SignalsSound, Signals, SignalledOnce, Command!SignalledOnce
  <1> QED BY <1>1, CommandInvariant, PTL

----------------------------------------------------------------------------
(* The leases of port blocks: any number of processes and blocks.           *)

PortNames ==
  {Ports!Unmade, Ports!Gone} \cup {Ports!Block(b) : b \in Blocks}
    \cup {Ports!Release(l) : l \in Ports!Leases \cup {Ports!NoLease}}

PortAwaits ==
  {"new", "scan", "read", "authenticate", "validate", "rename", "confirm", "restore", "unlink", "rmdir",
   "acquire", "acquire-again", "mark", "listen", "held", "bound", "over", "dead"}

FilesTyped ==
  /\ path \in [Ports!Leases -> PortNames]
  /\ marker \in [Ports!Leases -> Ports!Leases \cup {Ports!NoLease}]

HandsTyped ==
  /\ stand \in [Owners -> PortAwaits]
  /\ purpose \in [Owners -> {"scan", "allocate", "busy", "release"}]
  /\ todo \in [Owners -> SUBSET Blocks] /\ block \in [Owners -> Blocks]
  /\ entry \in [Owners -> Ports!Leases \cup {Ports!NoLease}]

\* A process that deletes its own lease, and not a stale one.
Releasing(p) == purpose[p] \in {"busy", "release"}

\* From the directory that is made to the one that is removed.
Holding(p) ==
  \/ stand[p] \in {"mark", "listen", "held", "bound"}
  \/ Releasing(p) /\ stand[p] \in {"validate", "rename", "confirm", "unlink", "rmdir"}

\* Where a process's lease of a block is, by where the process stands.
LeaseSound(p, b) ==
  LET l == <<p, b>> IN
  /\ ~(Holding(p) /\ b = block[p]) =>
       path[l] \in {Ports!Unmade, Ports!Gone} /\ marker[l] = Ports!NoLease
  /\ b = block[p] =>
       /\ stand[p] = "mark" => path[l] = Ports!Block(b) /\ marker[l] = Ports!NoLease
       /\ \/ stand[p] \in {"listen", "held", "bound"}
          \/ Releasing(p) /\ stand[p] \in {"validate", "rename"}
          => path[l] = Ports!Block(b) /\ marker[l] = l
       /\ Releasing(p) /\ stand[p] \in {"confirm", "unlink"} =>
            path[l] = Ports!Release(l) /\ marker[l] = l
       /\ Releasing(p) /\ stand[p] = "rmdir" =>
            path[l] = Ports!Release(l) /\ marker[l] = Ports!NoLease

\* The owner of a lease that looked stale has come to an end.
OwnerIsOver(l) == l \in Ports!Leases /\ (l[1] # Dead => stand[l[1]] = "over")

\* What a process is about to delete is its own, or was of one that is over.
OwnerSound(p) ==
  /\ stand[p] \notin {"restore", "dead"}
  /\ stand[p] \in {"rename", "confirm", "unlink", "rmdir"} => Releasing(p)
  /\ Releasing(p) => stand[p] \in {"validate", "rename", "confirm", "unlink", "rmdir", "over"}
  /\ Releasing(p) /\ stand[p] # "over" => entry[p] = Ports!Own(p)
  /\ ~Releasing(p) /\ stand[p] = "validate" => OwnerIsOver(entry[p])
  /\ stand[p] = "authenticate" => entry[p] \in Ports!Leases

\* mkdir() of a name that is there fails.
OneBehindName ==
  \A b \in Blocks : \A l, m \in Ports!At(Ports!Block(b)) : l = m

\* Nothing is left of a process that died before.
NoneLeft == \A b \in Blocks : path[<<Dead, b>>] = Ports!Unmade /\ marker[<<Dead, b>>] = Ports!NoLease

PortsSound ==
  /\ NoneLeft /\ OneBehindName
  /\ \A p \in Owners : OwnerSound(p) /\ \A b \in Blocks : LeaseSound(p, b)

\* A death may leave any of these behind; without one they are inductive.
PortsInv == running = "ports" => FilesTyped /\ HandsTyped /\ (Ports!NoneDied => PortsSound)

LEMMA NamesDiffer ==
  /\ \A b, l : Ports!Block(b) # Ports!Release(l)
  /\ \A b : Ports!Block(b) \notin {Ports!Unmade, Ports!Gone}
  /\ \A l : Ports!Release(l) \notin {Ports!Unmade, Ports!Gone}
  /\ Ports!Unmade # Ports!Gone
  /\ \A b, c : Ports!Block(b) = Ports!Block(c) => b = c
  /\ \A l, m : Ports!Release(l) = Ports!Release(m) => l = m
  BY DEF Ports!Block, Ports!Release, Ports!Unmade, Ports!Gone

LEMMA LeasesArePairs ==
  /\ \A l \in Ports!Leases : l = <<l[1], l[2]>> /\ l[1] \in Owners \cup {Dead} /\ l[2] \in Blocks
  /\ \A p \in Owners : \A b \in Blocks : <<p, b>> \in Ports!Leases /\ <<p, b>>[1] = p /\ <<p, b>>[2] = b
  /\ \A b \in Blocks : <<Dead, b>> \in Ports!Leases
  /\ Ports!NoLease \notin Ports!Leases /\ Dead \notin Owners
  BY ToolingAssumption DEF Ports!Leases, Ports!NoLease, Ports!PortsAssumption

LEMMA OwnIsLease ==
  ASSUME HandsTyped, NEW p \in Owners
  PROVE  /\ Ports!Own(p) \in Ports!Leases /\ Ports!Own(p)[1] = p /\ Ports!Own(p)[2] = block[p]
         /\ Ports!Own(p) = <<p, block[p]>> /\ block[p] \in Blocks
  BY LeasesArePairs DEF HandsTyped, Ports!Own

----------------------------------------------------------------------------
(* The steps of any process keep the types.                                *)

LEMMA GotoTyped ==
  ASSUME HandsTyped, NEW p \in Owners, NEW stop \in PortAwaits, Ports!Goto(p, stop)
  PROVE  stand' \in [Owners -> PortAwaits]
  BY DEF HandsTyped, Ports!Goto

LEMMA HandsStay ==
  ASSUME HandsTyped, NEW p \in Owners, NEW stop \in PortAwaits, Ports!Goto(p, stop), UNCHANGED Ports!Hand
  PROVE  HandsTyped'
  BY GotoTyped DEF HandsTyped, Ports!Hand

LEMMA NextBlockTyped ==
  ASSUME HandsTyped, NEW p \in Owners, Ports!NextBlock(p)
  PROVE  HandsTyped'
  <1>1. stand' \in [Owners -> PortAwaits]
    BY GotoTyped DEF Ports!NextBlock, PortAwaits
  <1>2. todo' \in [Owners -> SUBSET Blocks] /\ block' \in [Owners -> Blocks]
    BY DEF Ports!NextBlock, HandsTyped
  <1> QED BY <1>1, <1>2 DEF Ports!NextBlock, HandsTyped

LEMMA EndsTyped ==
  ASSUME HandsTyped, NEW p \in Owners, Ports!Return(p) \/ Ports!Throw(p)
  PROVE  HandsTyped'
  <1>1. purpose[p] \in {"scan", "allocate", "busy", "release"}
    BY DEF HandsTyped
  <1>2. \/ Ports!NextBlock(p)
        \/ UNCHANGED Ports!Hand /\ \E stop \in PortAwaits : Ports!Goto(p, stop)
    BY <1>1 DEF Ports!Return, Ports!Throw, PortAwaits
  <1> QED BY <1>2, NextBlockTyped, HandsStay

LEMMA HandsGoOn ==
  ASSUME HandsTyped, NEW p \in Owners, Ports!Step(p)
  PROVE  HandsTyped'
  <1> USE DEF PortAwaits
  <1>1. CASE Ports!List(p)
    BY <1>1, GotoTyped DEF Ports!List, HandsTyped
  <1>2. CASE Ports!ScanNext(p)
    BY <1>2, GotoTyped DEF Ports!ScanNext, HandsTyped
  <1>3. CASE Ports!ScanOver(p)
    BY <1>3, GotoTyped DEF Ports!ScanOver, HandsTyped
  <1>4. CASE Ports!ReadMarker(p)
    <2>1. CASE Ports!Return(p)
      BY <2>1, EndsTyped
    <2>2. CASE ~Ports!Return(p)
      <3>1. PICK l \in Ports!Leases : entry' = [entry EXCEPT ![p] = l]
        BY <1>4, <2>2 DEF Ports!ReadMarker, Ports!At
      <3> QED BY <1>4, <2>2, <3>1, GotoTyped DEF Ports!ReadMarker, HandsTyped
    <2> QED BY <2>1, <2>2
  <1>5. CASE Ports!AuthenticateOwner(p)
    BY <1>5, EndsTyped, HandsStay DEF Ports!AuthenticateOwner
  <1>6. CASE Ports!Validate(p)
    BY <1>6, EndsTyped, HandsStay DEF Ports!Validate
  <1>7. CASE Ports!Quarantine(p)
    BY <1>7, EndsTyped, HandsStay DEF Ports!Quarantine
  <1>8. CASE Ports!Confirm(p)
    BY <1>8, HandsStay DEF Ports!Confirm
  <1>9. CASE Ports!Restore(p)
    BY <1>9, EndsTyped DEF Ports!Restore
  <1>10. CASE Ports!Unlink(p)
    BY <1>10, EndsTyped, HandsStay DEF Ports!Unlink
  <1>11. CASE Ports!Rmdir(p)
    BY <1>11, EndsTyped DEF Ports!Rmdir
  <1>12. CASE Ports!MakeDirectory(p)
    BY <1>12, HandsStay DEF Ports!MakeDirectory
  <1>13. CASE Ports!FindTaken(p)
    BY <1>13, NextBlockTyped, HandsStay DEF Ports!FindTaken
  <1>14. CASE Ports!WriteMarker(p)
    BY <1>14, HandsStay DEF Ports!WriteMarker
  <1>15. CASE Ports!Listen(p)
    BY <1>15, HandsStay DEF Ports!Listen
  <1>16. CASE Ports!FindBusy(p)
    BY <1>16, GotoTyped, OwnIsLease DEF Ports!FindBusy, HandsTyped
  <1>17. CASE Ports!Bind(p)
    BY <1>17, HandsStay DEF Ports!Bind
  <1>18. CASE Ports!ReleaseAcquired(p)
    BY <1>18, GotoTyped, OwnIsLease DEF Ports!ReleaseAcquired, HandsTyped
  <1>19. CASE Ports!Die(p)
    BY <1>19, HandsStay DEF Ports!Die
  <1> QED BY <1>1, <1>2, <1>3, <1>4, <1>5, <1>6, <1>7, <1>8, <1>9, <1>10, <1>11, <1>12, <1>13, <1>14,
             <1>15, <1>16, <1>17, <1>18, <1>19 DEF Ports!Step

\* What a rename does to the directories, whoever makes it.
LEMMA MoveTyped ==
  ASSUME FilesTyped, NEW l \in Ports!Leases, NEW name \in PortNames, name # Ports!Unmade, Ports!Moves(l, name)
  PROVE  /\ path' \in [Ports!Leases -> PortNames]
         /\ \A x \in Ports!Leases : path'[x] = Ports!Unmade => path[x] = Ports!Unmade
  BY NamesDiffer DEF FilesTyped, Ports!Moves, PortNames

\* What was made stays made.
LEMMA FilesGoOn ==
  ASSUME FilesTyped, HandsTyped, NEW p \in Owners, Ports!Step(p)
  PROVE  FilesTyped' /\ \A l \in Ports!Leases : path'[l] = Ports!Unmade => path[l] = Ports!Unmade
  <1> DEFINE Stays == \A l \in Ports!Leases : path'[l] = Ports!Unmade => path[l] = Ports!Unmade
  <1>1. CASE UNCHANGED Ports!Files
    BY <1>1 DEF Ports!Files, FilesTyped
  <1>2. block[p] \in Blocks /\ entry[p] \in Ports!Leases \cup {Ports!NoLease}
    BY DEF HandsTyped
  <1>3. /\ Ports!Block(block[p]) \in PortNames /\ Ports!Block(block[p]) # Ports!Unmade
        /\ Ports!Release(entry[p]) \in PortNames /\ Ports!Release(entry[p]) # Ports!Unmade
        /\ Ports!Gone \in PortNames /\ Ports!Gone # Ports!Unmade
    BY <1>2, NamesDiffer DEF PortNames
  <1>4. ASSUME UNCHANGED marker,
               \/ UNCHANGED path
               \/ \E l \in Ports!Leases : Ports!Moves(l, Ports!Block(block[p])) \/ Ports!Moves(l, Ports!Release(entry[p]))
        PROVE  FilesTyped' /\ Stays
    BY <1>3, <1>4, MoveTyped DEF FilesTyped
  <1>5. CASE Ports!Quarantine(p) \/ Ports!Restore(p)
    BY <1>4, <1>5 DEF Ports!Quarantine, Ports!Restore, Ports!At
  <1>6. CASE Ports!Unlink(p)
    BY <1>6, LeasesArePairs DEF Ports!Unlink, FilesTyped
  <1>7. CASE Ports!Rmdir(p)
    BY <1>3, <1>7 DEF Ports!Rmdir, Ports!At, FilesTyped
  <1>8. CASE Ports!MakeDirectory(p)
    BY <1>3, <1>8, OwnIsLease DEF Ports!MakeDirectory, FilesTyped
  <1>9. CASE Ports!WriteMarker(p)
    BY <1>9, OwnIsLease DEF Ports!WriteMarker, FilesTyped
  <1> QED BY <1>1, <1>5, <1>6, <1>7, <1>8, <1>9 DEF Ports!Step, Ports!Files, Ports!List, Ports!ScanNext,
       Ports!ScanOver, Ports!ReadMarker, Ports!AuthenticateOwner, Ports!Validate, Ports!Confirm,
       Ports!FindTaken, Ports!Listen, Ports!FindBusy, Ports!Bind, Ports!ReleaseAcquired, Ports!Die

----------------------------------------------------------------------------
(* While no process has died, every step leaves the leases as they should be. *)

\* Behind a block's name is at most the lease of the one process that holds it.
LEMMA BehindName ==
  ASSUME HandsTyped, PortsSound, NEW l \in Ports!Leases
  PROVE  /\ \A b \in Blocks : path[l] = Ports!Block(b) =>
              l[1] \in Owners /\ Holding(l[1]) /\ block[l[1]] = b /\ l = Ports!Own(l[1])
         /\ \A m : path[l] = Ports!Release(m) =>
              l[1] \in Owners /\ Holding(l[1]) /\ l = Ports!Own(l[1]) /\ m = l
  <1>1. CASE l[1] = Dead
    BY <1>1, LeasesArePairs, NamesDiffer DEF PortsSound, NoneLeft
  <1>2. CASE l[1] \in Owners
    <2>1. l = <<l[1], l[2]>> /\ l[2] \in Blocks
      BY LeasesArePairs
    <2>2. LeaseSound(l[1], l[2]) /\ OwnerSound(l[1])
      BY <1>2, <2>1 DEF PortsSound
    <2>3. CASE ~(Holding(l[1]) /\ l[2] = block[l[1]])
      BY <2>1, <2>2, <2>3, NamesDiffer DEF LeaseSound
    <2>4. CASE Holding(l[1]) /\ l[2] = block[l[1]]
      BY <1>2, <2>1, <2>2, <2>4, NamesDiffer DEF LeaseSound, OwnerSound, Holding, Ports!Own
    <2> QED BY <2>3, <2>4
  <1> QED BY <1>1, <1>2, LeasesArePairs

\* Where the lease under hand of a process that holds one is.
LEMMA OwnInPlace ==
  ASSUME HandsTyped, PortsSound, NEW p \in Owners
  PROVE  /\ stand[p] = "mark" =>
              path[Ports!Own(p)] = Ports!Block(block[p]) /\ marker[Ports!Own(p)] = Ports!NoLease
         /\ \/ stand[p] \in {"listen", "held", "bound"}
            \/ Releasing(p) /\ stand[p] \in {"validate", "rename"}
            => path[Ports!Own(p)] = Ports!Block(block[p]) /\ marker[Ports!Own(p)] = Ports!Own(p)
         /\ Releasing(p) /\ stand[p] \in {"confirm", "unlink"} =>
              path[Ports!Own(p)] = Ports!Release(Ports!Own(p)) /\ marker[Ports!Own(p)] = Ports!Own(p)
         /\ Releasing(p) /\ stand[p] = "rmdir" =>
              path[Ports!Own(p)] = Ports!Release(Ports!Own(p)) /\ marker[Ports!Own(p)] = Ports!NoLease
  <1>1. LeaseSound(p, block[p]) /\ Ports!Own(p) = <<p, block[p]>>
    BY OwnIsLease DEF PortsSound
  <1> QED BY <1>1 DEF LeaseSound

\* So these names have nothing else behind them.
LEMMA OwnAlone ==
  ASSUME HandsTyped, PortsSound, NEW p \in Owners
  PROVE  /\ path[Ports!Own(p)] = Ports!Block(block[p]) => Ports!At(Ports!Block(block[p])) = {Ports!Own(p)}
         /\ path[Ports!Own(p)] = Ports!Release(Ports!Own(p)) =>
              Ports!At(Ports!Release(Ports!Own(p))) = {Ports!Own(p)}
         /\ path[Ports!Own(p)] # Ports!Release(Ports!Own(p)) => Ports!At(Ports!Release(Ports!Own(p))) = {}
  <1>1. Ports!Own(p) \in Ports!Leases /\ block[p] \in Blocks
    BY OwnIsLease
  <1>2. ASSUME path[Ports!Own(p)] = Ports!Block(block[p])
        PROVE  Ports!At(Ports!Block(block[p])) = {Ports!Own(p)}
    BY <1>1, <1>2 DEF Ports!At, PortsSound, OneBehindName
  <1>3. \A l \in Ports!At(Ports!Release(Ports!Own(p))) : l = Ports!Own(p)
    BY BehindName DEF Ports!At
  <1> QED BY <1>1, <1>2, <1>3 DEF Ports!At

\* A step of one process that touches no lease but its own leaves the others as they are.
LEMMA OthersStand ==
  ASSUME HandsTyped, PortsSound, NEW p \in Owners, stand[p] # "over",
         \A q \in Owners \ {p} : stand'[q] = stand[q] /\ purpose'[q] = purpose[q]
                                   /\ block'[q] = block[q] /\ entry'[q] = entry[q],
         \A l \in Ports!Leases : l[1] # p => path'[l] = path[l] /\ marker'[l] = marker[l],
         OneBehindName', OwnerSound(p)', \A b \in Blocks : LeaseSound(p, b)'
  PROVE  PortsSound'
  <1>1. NoneLeft'
    BY LeasesArePairs DEF PortsSound, NoneLeft
  <1>2. ASSUME NEW q \in Owners \ {p}
        PROVE  OwnerSound(q)' /\ \A b \in Blocks : LeaseSound(q, b)'
    <2>1. OwnerSound(q) /\ \A b \in Blocks : LeaseSound(q, b)
      BY DEF PortsSound
    <2>2. stand'[q] = stand[q] /\ purpose'[q] = purpose[q] /\ block'[q] = block[q] /\ entry'[q] = entry[q]
      OBVIOUS
    <2>3. ASSUME NEW l, OwnerIsOver(l) PROVE OwnerIsOver(l)'
      BY <2>3, LeasesArePairs DEF OwnerIsOver
    <2>4. OwnerSound(q)'
      BY <2>1, <2>2, <2>3 DEF OwnerSound, Releasing, Ports!Own
    <2>5. ASSUME NEW b \in Blocks PROVE LeaseSound(q, b)'
      <3>1. path'[<<q, b>>] = path[<<q, b>>] /\ marker'[<<q, b>>] = marker[<<q, b>>]
        BY LeasesArePairs
      <3> QED BY <2>1, <2>2, <3>1 DEF LeaseSound, Holding, Releasing
    <2> QED BY <2>4, <2>5
  <1> QED BY <1>1, <1>2 DEF PortsSound

\* A step of one process that holds no lease, then or after, and touches no file.
LEMMA LookGoesOn ==
  ASSUME HandsTyped, PortsSound, NEW p \in Owners, stand[p] # "over", ~Holding(p), ~Holding(p)',
         \A q \in Owners \ {p} : stand'[q] = stand[q] /\ purpose'[q] = purpose[q]
                                   /\ block'[q] = block[q] /\ entry'[q] = entry[q],
         UNCHANGED path, UNCHANGED marker, OwnerSound(p)'
  PROVE  PortsSound'
  <1>1. OneBehindName'
    BY DEF PortsSound, OneBehindName, Ports!At
  <1>2. ASSUME NEW b \in Blocks PROVE LeaseSound(p, b)'
    BY DEF PortsSound, LeaseSound, Holding
  <1> QED BY <1>1, <1>2, OthersStand

\* What Goto and EXCEPT leave of the others.
LEMMA StepOfOne ==
  ASSUME HandsTyped, NEW p \in Owners, Ports!Step(p)
  PROVE  \A q \in Owners \ {p} : stand'[q] = stand[q] /\ purpose'[q] = purpose[q]
                                   /\ block'[q] = block[q] /\ entry'[q] = entry[q]
  <1> DEFINE Rest == \A q \in Owners \ {p} : stand'[q] = stand[q] /\ purpose'[q] = purpose[q]
                                   /\ block'[q] = block[q] /\ entry'[q] = entry[q]
  <1>1. ASSUME NEW stop, Ports!Goto(p, stop) PROVE \A q \in Owners \ {p} : stand'[q] = stand[q]
    BY <1>1 DEF Ports!Goto, HandsTyped
  <1>2. ASSUME NEW stop, Ports!Goto(p, stop), UNCHANGED Ports!Hand PROVE Rest
    BY <1>1, <1>2 DEF Ports!Hand
  <1>3. CASE Ports!NextBlock(p)
    BY <1>1, <1>3 DEF Ports!NextBlock, HandsTyped
  <1>4. purpose[p] \in {"scan", "allocate", "busy", "release"}
    BY DEF HandsTyped
  <1>5. CASE Ports!Return(p) \/ Ports!Throw(p)
    BY <1>2, <1>3, <1>4, <1>5 DEF Ports!Return, Ports!Throw
  <1>6. CASE Ports!List(p) \/ Ports!ScanNext(p) \/ Ports!ScanOver(p) \/ Ports!FindBusy(p) \/ Ports!ReleaseAcquired(p)
    BY <1>1, <1>6 DEF Ports!List, Ports!ScanNext, Ports!ScanOver, Ports!FindBusy, Ports!ReleaseAcquired, HandsTyped
  <1>7. CASE Ports!ReadMarker(p)
    BY <1>1, <1>5, <1>7 DEF Ports!ReadMarker, HandsTyped
  <1>8. CASE Ports!AuthenticateOwner(p) \/ Ports!Validate(p) \/ Ports!Quarantine(p)
    BY <1>2, <1>5, <1>8 DEF Ports!AuthenticateOwner, Ports!Validate, Ports!Quarantine
  <1>9. CASE Ports!Confirm(p) \/ Ports!Restore(p) \/ Ports!Unlink(p) \/ Ports!Rmdir(p)
    BY <1>2, <1>5, <1>9 DEF Ports!Confirm, Ports!Restore, Ports!Unlink, Ports!Rmdir
  <1>10. CASE Ports!MakeDirectory(p) \/ Ports!FindTaken(p) \/ Ports!WriteMarker(p)
    BY <1>2, <1>3, <1>10 DEF Ports!MakeDirectory, Ports!FindTaken, Ports!WriteMarker
  <1>11. CASE Ports!Listen(p) \/ Ports!Bind(p) \/ Ports!Die(p)
    BY <1>2, <1>11 DEF Ports!Listen, Ports!Bind, Ports!Die
  <1> QED BY <1>6, <1>7, <1>8, <1>9, <1>10, <1>11 DEF Ports!Step

\* Looking for stale leases, and for a block that is free.
LEMMA LookingGoesOn ==
  ASSUME HandsTyped, PortsSound, NEW p \in Owners,
         Ports!List(p) \/ Ports!ScanNext(p) \/ Ports!ScanOver(p) \/ Ports!ReadMarker(p)
           \/ Ports!AuthenticateOwner(p) \/ Ports!FindTaken(p)
  PROVE  PortsSound'
  <1>1. OwnerSound(p) /\ purpose[p] \in {"scan", "allocate", "busy", "release"}
    BY DEF PortsSound, HandsTyped
  <1>2. stand[p] \in {"new", "scan", "read", "authenticate", "acquire", "acquire-again"} /\ UNCHANGED Ports!Files
    BY DEF Ports!List, Ports!ScanNext, Ports!ScanOver, Ports!ReadMarker, Ports!AuthenticateOwner, Ports!FindTaken,
           Ports!Files
  <1>3. ~Releasing(p) /\ ~Holding(p) /\ stand[p] # "over" /\ purpose[p] \in {"scan", "allocate"}
    BY <1>1, <1>2 DEF OwnerSound, Holding, Releasing
  <1> SUFFICES ~Holding(p)' /\ OwnerSound(p)'
    <2>1. \A q \in Owners \ {p} : stand'[q] = stand[q] /\ purpose'[q] = purpose[q]
                                   /\ block'[q] = block[q] /\ entry'[q] = entry[q]
      BY StepOfOne DEF Ports!Step
    <2> QED BY <1>2, <1>3, <2>1, LookGoesOn DEF Ports!Files
  <1>4. ASSUME stand'[p] \in {"scan", "read", "authenticate", "acquire", "acquire-again", "over"},
               purpose'[p] \in {"scan", "allocate"}, stand'[p] = "authenticate" => entry'[p] \in Ports!Leases
        PROVE  ~Holding(p)' /\ OwnerSound(p)'
    BY <1>4 DEF Holding, Releasing, OwnerSound
  <1>5. CASE Ports!List(p) \/ Ports!ScanNext(p) \/ Ports!ScanOver(p)
    <2>1. stand'[p] \in {"scan", "read", "acquire"} /\ purpose'[p] \in {"scan", "allocate"}
      BY <1>3, <1>5 DEF Ports!List, Ports!ScanNext, Ports!ScanOver, Ports!Goto, HandsTyped
    <2> QED BY <1>4, <2>1
  <1>6. ASSUME Ports!Return(p) \/ Ports!NextBlock(p)
        PROVE  stand'[p] \in {"scan", "acquire-again", "acquire", "over"} /\ purpose'[p] \in {"scan", "allocate"}
    BY <1>3, <1>6 DEF Ports!Return, Ports!NextBlock, Ports!Hand, Ports!Goto, HandsTyped
  <1>7. CASE Ports!ReadMarker(p)
    <2>1. CASE Ports!Return(p)
      BY <1>4, <1>6, <2>1
    <2>2. CASE ~Ports!Return(p)
      <3>1. stand'[p] = "authenticate" /\ purpose'[p] = purpose[p] /\ entry'[p] \in Ports!Leases
        BY <1>7, <2>2 DEF Ports!ReadMarker, Ports!At, Ports!Goto, HandsTyped
      <3> QED BY <1>3, <1>4, <3>1
    <2> QED BY <2>1, <2>2
  <1>8. CASE Ports!AuthenticateOwner(p)
    <2>1. CASE Ports!Return(p)
      BY <1>4, <1>6, <2>1
    <2>2. CASE ~Ports!Return(p)
      <3>1. /\ stand[p] = "authenticate" /\ ~Ports!Alive(entry[p][1])
            /\ stand' = [stand EXCEPT ![p] = "validate"] /\ purpose'[p] = purpose[p] /\ entry'[p] = entry[p]
        BY <1>8, <2>2 DEF Ports!AuthenticateOwner, Ports!Goto, Ports!Hand
      <3>2. entry[p] \in Ports!Leases
        BY <1>1, <3>1 DEF OwnerSound
      <3>3. entry[p][1] # Dead => entry[p][1] \in Owners /\ stand[entry[p][1]] = "over"
        BY <3>1, <3>2, LeasesArePairs DEF Ports!Alive, PortsSound, OwnerSound
      <3>4. OwnerIsOver(entry[p])'
        BY <3>1, <3>2, <3>3 DEF OwnerIsOver, HandsTyped
      <3> QED BY <1>3, <3>1, <3>4 DEF OwnerSound, Holding, Releasing, HandsTyped
    <2> QED BY <2>1, <2>2
  <1>9. CASE Ports!FindTaken(p)
    <2>1. stand'[p] \in {"read", "acquire", "over"} /\ purpose'[p] \in {"scan", "allocate"}
      BY <1>3, <1>6, <1>9 DEF Ports!FindTaken, Ports!NextBlock, Ports!Goto, Ports!Hand, HandsTyped
    <2> QED BY <1>4, <2>1
  <1> QED BY <1>5, <1>7, <1>8, <1>9

\* A stale lease is not there any more when its name is looked at again, and one's own is.
LEMMA ValidateGoesOn ==
  ASSUME HandsTyped, PortsSound, NEW p \in Owners, Ports!Validate(p)
  PROVE  PortsSound'
  <1>1. /\ OwnerSound(p) /\ stand[p] = "validate" /\ purpose[p] \in {"scan", "allocate", "busy", "release"}
        /\ UNCHANGED path /\ UNCHANGED marker
    BY DEF PortsSound, HandsTyped, Ports!Validate, Ports!Files
  <1>2. \A q \in Owners \ {p} : stand'[q] = stand[q] /\ purpose'[q] = purpose[q]
                                   /\ block'[q] = block[q] /\ entry'[q] = entry[q]
    BY StepOfOne DEF Ports!Step
  <1>3. CASE Releasing(p)
    <2>1. /\ entry[p] = Ports!Own(p) /\ path[Ports!Own(p)] = Ports!Block(block[p])
          /\ marker[Ports!Own(p)] = Ports!Own(p)
      BY <1>1, <1>3, OwnInPlace DEF OwnerSound
    <2>2. Ports!ValidAt(Ports!Block(block[p]), entry[p])
      BY <2>1, OwnAlone DEF Ports!ValidAt
    <2>3. stand' = [stand EXCEPT ![p] = "rename"] /\ UNCHANGED Ports!Hand
      BY <2>2 DEF Ports!Validate, Ports!Goto
    <2>4. OwnerSound(p)'
      BY <1>1, <1>3, <2>1, <2>3 DEF OwnerSound, Releasing, Ports!Own, Ports!Hand, HandsTyped
    <2>5. ASSUME NEW b \in Blocks PROVE LeaseSound(p, b)'
      <3>1. LeaseSound(p, b)
        BY DEF PortsSound
      <3>2. stand'[p] = "rename"
        BY <2>3 DEF HandsTyped
      <3> QED BY <1>1, <1>3, <2>3, <3>1, <3>2 DEF LeaseSound, Holding, Releasing, Ports!Hand
    <2>6. OneBehindName'
      BY <1>1 DEF PortsSound, OneBehindName, Ports!At
    <2> QED BY <1>1, <1>2, <2>4, <2>5, <2>6, OthersStand
  <1>4. CASE ~Releasing(p)
    <2>1. OwnerIsOver(entry[p])
      BY <1>1, <1>4 DEF OwnerSound
    <2>2. entry[p] \in Ports!Leases /\ block[p] \in Blocks
      BY <2>1 DEF OwnerIsOver, HandsTyped
    <2>3. entry[p] \notin Ports!At(Ports!Block(block[p]))
      BY <2>1, <2>2, BehindName, LeasesArePairs DEF OwnerIsOver, Holding, Ports!At
    <2>4. Ports!Throw(p)
      BY <2>3 DEF Ports!Validate, Ports!ValidAt
    <2>5. stand'[p] \in {"scan", "over"} /\ purpose'[p] = purpose[p]
      BY <1>1, <1>4, <2>4 DEF Ports!Throw, Releasing, Ports!Goto, Ports!Hand, HandsTyped
    <2>6. ~Holding(p) /\ ~Holding(p)' /\ OwnerSound(p)'
      BY <1>1, <1>4, <2>5 DEF Holding, Releasing, OwnerSound
    <2> QED BY <1>1, <1>2, <2>6, LookGoesOn
  <1> QED BY <1>3, <1>4

\* The step of a process that holds a lease, before and after, touches that one only,
\* and puts it where it should be.
LEMMA HoldingGoesOn ==
  ASSUME HandsTyped, PortsSound, NEW p \in Owners, Ports!Step(p), Holding(p), Holding(p)',
         block'[p] = block[p], OwnerSound(p)', LeaseSound(p, block[p])',
         \A l \in Ports!Leases : l # Ports!Own(p) => path'[l] = path[l] /\ marker'[l] = marker[l],
         path'[Ports!Own(p)] = path[Ports!Own(p)] \/ \A b \in Blocks : path'[Ports!Own(p)] # Ports!Block(b)
  PROVE  PortsSound'
  <1>1. Ports!Own(p) = <<p, block[p]>> /\ Ports!Own(p) \in Ports!Leases /\ Ports!Own(p)[1] = p
    BY OwnIsLease
  <1>2. stand[p] # "over"
    BY DEF Holding
  <1>3. OneBehindName'
    BY DEF PortsSound, OneBehindName, Ports!At
  <1>4. ASSUME NEW b \in Blocks, b # block[p] PROVE LeaseSound(p, b)'
    <2>1. path'[<<p, b>>] = path[<<p, b>>] /\ marker'[<<p, b>>] = marker[<<p, b>>]
      BY <1>1, <1>4, LeasesArePairs
    <2>2. LeaseSound(p, b)
      BY DEF PortsSound
    <2> QED BY <1>4, <2>1, <2>2 DEF LeaseSound
  <1> QED BY <1>1, <1>2, <1>3, <1>4, StepOfOne, OthersStand

LEMMA ListeningGoesOn ==
  ASSUME HandsTyped, PortsSound, NEW p \in Owners,
         Ports!Listen(p) \/ Ports!FindBusy(p) \/ Ports!Bind(p) \/ Ports!ReleaseAcquired(p)
  PROVE  PortsSound'
  <1>1. /\ stand[p] \in {"listen", "held", "bound"} /\ UNCHANGED path /\ UNCHANGED marker /\ block'[p] = block[p]
        /\ Ports!Step(p) /\ OwnerSound(p) /\ LeaseSound(p, block[p])
    BY OwnIsLease DEF Ports!Listen, Ports!FindBusy, Ports!Bind, Ports!ReleaseAcquired, Ports!Files, Ports!Hand,
           Ports!Step, PortsSound
  <1>2. \/ stand'[p] \in {"held", "bound"} /\ purpose'[p] = purpose[p]
        \/ stand'[p] = "validate" /\ purpose'[p] \in {"busy", "release"} /\ entry'[p] = Ports!Own(p)
    BY DEF Ports!Listen, Ports!FindBusy, Ports!Bind, Ports!ReleaseAcquired, Ports!Goto, Ports!Hand, HandsTyped
  <1>3. ~Releasing(p)
    BY <1>1 DEF OwnerSound
  <1>4. Holding(p) /\ Holding(p)' /\ OwnerSound(p)'
    BY <1>1, <1>2, <1>3 DEF Holding, Releasing, OwnerSound, Ports!Own
  <1>5. LeaseSound(p, block[p])'
    BY <1>1, <1>2, <1>3 DEF LeaseSound, Holding, Releasing
  <1> QED BY <1>1, <1>4, <1>5, HoldingGoesOn

LEMMA QuarantineGoesOn ==
  ASSUME FilesTyped, HandsTyped, PortsSound, NEW p \in Owners, Ports!Quarantine(p)
  PROVE  PortsSound'
  <1> DEFINE own == Ports!Own(p)
  <1>1. /\ stand[p] = "rename" /\ Releasing(p) /\ entry[p] = own
        /\ own = <<p, block[p]>> /\ own \in Ports!Leases
    BY OwnIsLease DEF Ports!Quarantine, PortsSound, OwnerSound
  <1>2. path[own] = Ports!Block(block[p]) /\ marker[own] = own
    BY <1>1, OwnInPlace
  <1>3. Ports!At(Ports!Block(block[p])) = {own} /\ Ports!At(Ports!Release(own)) = {}
    BY <1>2, OwnAlone, NamesDiffer
  <1>4. Ports!Moves(own, Ports!Release(own)) /\ Ports!Goto(p, "confirm") /\ UNCHANGED Ports!Hand /\ UNCHANGED marker
    BY <1>1, <1>3 DEF Ports!Quarantine
  <1>5. path'[own] = Ports!Release(own) /\ \A l \in Ports!Leases : l # own => path'[l] = path[l]
    BY <1>1, <1>3, <1>4 DEF Ports!Moves
  <1>6. stand'[p] = "confirm" /\ purpose'[p] = purpose[p] /\ block'[p] = block[p] /\ entry'[p] = entry[p]
    BY <1>4 DEF Ports!Goto, Ports!Hand, HandsTyped
  <1>7. Holding(p) /\ Holding(p)' /\ OwnerSound(p)'
    BY <1>1, <1>6 DEF Holding, Releasing, OwnerSound, Ports!Own
  <1>8. LeaseSound(p, block[p])'
    BY <1>1, <1>2, <1>4, <1>5, <1>6, <1>7 DEF LeaseSound, Releasing
  <1> QED BY <1>4, <1>5, <1>6, <1>7, <1>8, NamesDiffer, HoldingGoesOn DEF Ports!Step

LEMMA ConfirmGoesOn ==
  ASSUME HandsTyped, PortsSound, NEW p \in Owners, Ports!Confirm(p)
  PROVE  PortsSound'
  <1> DEFINE own == Ports!Own(p)
  <1>1. /\ stand[p] = "confirm" /\ Releasing(p) /\ entry[p] = own
        /\ own = <<p, block[p]>> /\ own \in Ports!Leases
    BY OwnIsLease DEF Ports!Confirm, PortsSound, OwnerSound
  <1>2. path[own] = Ports!Release(own) /\ marker[own] = own
    BY <1>1, OwnInPlace
  <1>3. Ports!StillOurs(p)
    BY <1>1, <1>2, OwnAlone DEF Ports!StillOurs, Ports!ValidAt
  <1>4. /\ stand'[p] = "unlink" /\ purpose'[p] = purpose[p] /\ block'[p] = block[p] /\ entry'[p] = entry[p]
        /\ UNCHANGED path /\ UNCHANGED marker
    BY <1>3 DEF Ports!Confirm, Ports!Goto, Ports!Hand, Ports!Files, HandsTyped
  <1>5. Holding(p) /\ Holding(p)' /\ OwnerSound(p)'
    BY <1>1, <1>4 DEF Holding, Releasing, OwnerSound, Ports!Own
  <1>6. LeaseSound(p, block[p])'
    BY <1>1, <1>2, <1>4, <1>5 DEF LeaseSound, Releasing
  <1> QED BY <1>4, <1>5, <1>6, HoldingGoesOn DEF Ports!Step

LEMMA UnlinkMarkerGoesOn ==
  ASSUME FilesTyped, HandsTyped, PortsSound, NEW p \in Owners, Ports!Unlink(p)
  PROVE  PortsSound'
  <1> DEFINE own == Ports!Own(p)
  <1>1. /\ stand[p] = "unlink" /\ Releasing(p) /\ entry[p] = own
        /\ own = <<p, block[p]>> /\ own \in Ports!Leases
    BY OwnIsLease DEF Ports!Unlink, PortsSound, OwnerSound
  <1>2. path[own] = Ports!Release(own) /\ Ports!At(Ports!Release(own)) = {own}
    BY <1>1, OwnInPlace, OwnAlone
  <1>3. /\ UNCHANGED path /\ Ports!Goto(p, "rmdir") /\ UNCHANGED Ports!Hand
        /\ marker' = [l \in Ports!Leases |-> IF l \in {own} THEN Ports!NoLease ELSE marker[l]]
    BY <1>1, <1>2 DEF Ports!Unlink
  <1>4. marker'[own] = Ports!NoLease /\ \A l \in Ports!Leases : l # own => marker'[l] = marker[l]
    BY <1>1, <1>3
  <1>5. stand'[p] = "rmdir" /\ purpose'[p] = purpose[p] /\ block'[p] = block[p] /\ entry'[p] = entry[p]
    BY <1>3 DEF Ports!Goto, Ports!Hand, HandsTyped
  <1>6. Holding(p) /\ Holding(p)' /\ OwnerSound(p)'
    BY <1>1, <1>5 DEF Holding, Releasing, OwnerSound, Ports!Own
  <1>7. LeaseSound(p, block[p])'
    BY <1>1, <1>2, <1>3, <1>4, <1>5, <1>6 DEF LeaseSound, Releasing
  <1> QED BY <1>3, <1>4, <1>5, <1>6, <1>7, HoldingGoesOn DEF Ports!Step

LEMMA RmdirGoesOn ==
  ASSUME FilesTyped, HandsTyped, PortsSound, NEW p \in Owners, Ports!Rmdir(p)
  PROVE  PortsSound'
  <1> DEFINE own == Ports!Own(p)
  <1>1. /\ stand[p] = "rmdir" /\ Releasing(p) /\ entry[p] = own
        /\ own = <<p, block[p]>> /\ own \in Ports!Leases /\ own[1] = p
    BY OwnIsLease DEF Ports!Rmdir, PortsSound, OwnerSound
  <1>2. path[own] = Ports!Release(own) /\ marker[own] = Ports!NoLease /\ Ports!At(Ports!Release(own)) = {own}
    BY <1>1, OwnInPlace, OwnAlone
  <1>3. UNCHANGED marker /\ path' = [path EXCEPT ![own] = Ports!Gone] /\ Ports!Return(p)
    BY <1>1, <1>2 DEF Ports!Rmdir
  <1>4. path'[own] = Ports!Gone /\ \A l \in Ports!Leases : l # own => path'[l] = path[l]
    BY <1>1, <1>3 DEF FilesTyped
  <1>5. \/ stand'[p] = "over"
        \/ stand'[p] = "acquire" /\ purpose'[p] = "allocate"
    BY <1>1, <1>3 DEF Ports!Return, Ports!NextBlock, Releasing, Ports!Goto, HandsTyped
  <1>6. ~Holding(p)' /\ OwnerSound(p)'
    BY <1>5 DEF Holding, Releasing, OwnerSound
  <1>7. OneBehindName'
    BY <1>4, NamesDiffer DEF PortsSound, OneBehindName, Ports!At
  <1>8. ASSUME NEW b \in Blocks PROVE LeaseSound(p, b)'
    <2>1. path'[<<p, b>>] \in {Ports!Unmade, Ports!Gone} /\ marker'[<<p, b>>] = Ports!NoLease
      <3>1. CASE b = block[p]
        BY <1>1, <1>2, <1>3, <1>4, <3>1
      <3>2. CASE b # block[p]
        <4>1. <<p, b>> # own /\ <<p, b>> \in Ports!Leases /\ LeaseSound(p, b)
          BY <1>1, <3>2, LeasesArePairs DEF PortsSound
        <4> QED BY <1>3, <1>4, <3>2, <4>1 DEF LeaseSound
      <3> QED BY <3>1, <3>2
    <2> QED BY <1>6, <2>1 DEF LeaseSound, Holding
  <1>9. \A l \in Ports!Leases : l[1] # p => path'[l] = path[l] /\ marker'[l] = marker[l]
    BY <1>1, <1>3, <1>4
  <1> QED BY <1>1, <1>6, <1>7, <1>8, <1>9, StepOfOne, OthersStand DEF Ports!Step

\* A name is made only where there is none.
LEMMA MakeDirectoryGoesOn ==
  ASSUME FilesTyped, HandsTyped, PortsSound, NEW p \in Owners, Ports!MakeDirectory(p)
  PROVE  PortsSound'
  <1> DEFINE own == Ports!Own(p)
  <1>1. /\ stand[p] \in {"acquire", "acquire-again"} /\ Ports!At(Ports!Block(block[p])) = {}
        /\ path' = [path EXCEPT ![own] = Ports!Block(block[p])] /\ UNCHANGED marker
        /\ Ports!Goto(p, "mark") /\ UNCHANGED Ports!Hand
    BY DEF Ports!MakeDirectory
  <1>2. own = <<p, block[p]>> /\ own \in Ports!Leases /\ own[1] = p /\ block[p] \in Blocks
    BY OwnIsLease
  <1>3. path'[own] = Ports!Block(block[p]) /\ \A l \in Ports!Leases : l # own => path'[l] = path[l]
    BY <1>1, <1>2 DEF FilesTyped
  <1>4. stand'[p] = "mark" /\ purpose'[p] = purpose[p] /\ block'[p] = block[p]
    BY <1>1 DEF Ports!Goto, Ports!Hand, HandsTyped
  <1>5. OwnerSound(p) /\ ~Holding(p) /\ ~Releasing(p)
    BY <1>1 DEF PortsSound, OwnerSound, Holding
  <1>6. Holding(p)' /\ OwnerSound(p)'
    BY <1>4, <1>5 DEF OwnerSound, Holding, Releasing
  <1>7. OneBehindName'
    BY <1>1, <1>3, NamesDiffer DEF PortsSound, OneBehindName, Ports!At
  <1>8. ASSUME NEW b \in Blocks PROVE LeaseSound(p, b)'
    <2>1. path[<<p, b>>] \in {Ports!Unmade, Ports!Gone} /\ marker[<<p, b>>] = Ports!NoLease
      BY <1>5 DEF PortsSound, LeaseSound
    <2>2. CASE b = block[p]
      BY <1>1, <1>2, <1>3, <1>4, <1>6, <2>1, <2>2 DEF LeaseSound, Releasing
    <2>3. CASE b # block[p]
      <3>1. <<p, b>> # own /\ <<p, b>> \in Ports!Leases
        BY <1>2, <2>3, LeasesArePairs
      <3> QED BY <1>1, <1>3, <1>4, <2>1, <2>3, <3>1 DEF LeaseSound
    <2> QED BY <2>2, <2>3
  <1>9. \A l \in Ports!Leases : l[1] # p => path'[l] = path[l] /\ marker'[l] = marker[l]
    BY <1>1, <1>2, <1>3
  <1> QED BY <1>1, <1>6, <1>7, <1>8, <1>9, StepOfOne, OthersStand DEF Ports!Step

LEMMA WriteMarkerGoesOn ==
  ASSUME FilesTyped, HandsTyped, PortsSound, NEW p \in Owners, Ports!WriteMarker(p)
  PROVE  PortsSound'
  <1> DEFINE own == Ports!Own(p)
  <1>1. stand[p] = "mark" /\ own = <<p, block[p]>> /\ own \in Ports!Leases /\ OwnerSound(p)
    BY OwnIsLease DEF Ports!WriteMarker, PortsSound
  <1>2. /\ path[own] = Ports!Block(block[p]) /\ marker[own] = Ports!NoLease
        /\ Ports!At(Ports!Block(block[p])) = {own}
    BY <1>1, OwnInPlace, OwnAlone
  <1>3. /\ UNCHANGED path /\ Ports!Goto(p, "listen") /\ UNCHANGED Ports!Hand
        /\ marker' = [l \in Ports!Leases |-> IF l \in {own} THEN own ELSE marker[l]]
    BY <1>2 DEF Ports!WriteMarker
  <1>4. marker'[own] = own /\ \A l \in Ports!Leases : l # own => marker'[l] = marker[l]
    BY <1>1, <1>3
  <1>5. stand'[p] = "listen" /\ purpose'[p] = purpose[p] /\ block'[p] = block[p]
    BY <1>3 DEF Ports!Goto, Ports!Hand, HandsTyped
  <1>6. ~Releasing(p) /\ Holding(p) /\ Holding(p)' /\ OwnerSound(p)'
    BY <1>1, <1>5 DEF OwnerSound, Holding, Releasing
  <1>7. LeaseSound(p, block[p])'
    BY <1>1, <1>2, <1>3, <1>4, <1>5, <1>6 DEF LeaseSound, Releasing
  <1> QED BY <1>3, <1>4, <1>5, <1>6, <1>7, HoldingGoesOn DEF Ports!Step

LEMMA LeasesStaySound ==
  ASSUME FilesTyped, HandsTyped, PortsSound, NEW p \in Owners, Ports!Step(p), stand'[p] # "dead"
  PROVE  PortsSound'
  <1>1. ~Ports!Restore(p)
    BY DEF PortsSound, OwnerSound, Ports!Restore
  <1>2. ~Ports!Die(p)
    BY DEF Ports!Die, Ports!Goto, HandsTyped
  <1> QED BY <1>1, <1>2, LookingGoesOn, ValidateGoesOn, QuarantineGoesOn, ConfirmGoesOn, UnlinkMarkerGoesOn, RmdirGoesOn,
             MakeDirectoryGoesOn, WriteMarkerGoesOn, ListeningGoesOn DEF Ports!Step

LEMMA PortsStart == ToolingInit => PortsInv
  <1> SUFFICES ASSUME ToolingInit, running = "ports"
               PROVE  FilesTyped /\ HandsTyped /\ (Ports!NoneDied => PortsSound)
    BY DEF PortsInv
  <1>1. Ports!Init
    BY DEF ToolingInit, InitPorts
  <1>2. PICK stale \in SUBSET ({Dead} \X Blocks) :
          /\ path = [l \in Ports!Leases |-> IF l \in stale THEN Ports!Block(l[2]) ELSE Ports!Unmade]
          /\ marker = [l \in Ports!Leases |-> IF l \in stale THEN l ELSE Ports!NoLease]
    BY <1>1 DEF Ports!Init
  <1>3. HandsTyped /\ \A p \in Owners : stand[p] = "new" /\ purpose[p] = "scan"
    BY <1>1 DEF Ports!Init, HandsTyped, PortAwaits
  <1>4. FilesTyped
    BY <1>2, LeasesArePairs DEF FilesTyped, PortNames
  <1>5. ASSUME Ports!NoneDied PROVE PortsSound
    <2>1. \A l \in Ports!Leases : path[l] = Ports!Unmade /\ marker[l] = Ports!NoLease
      <3> SUFFICES ASSUME NEW l \in Ports!Leases, l \in stale PROVE FALSE
        BY <1>2
      <3>1. PICK b \in Blocks : l = <<Dead, b>>
        BY <1>2
      <3>2. path[l] = Ports!Block(l[2])
        BY <1>2
      <3> QED BY <1>5, <3>1, <3>2, NamesDiffer DEF Ports!NoneDied
    <2>2. NoneLeft /\ OneBehindName
      BY <2>1, LeasesArePairs, NamesDiffer DEF NoneLeft, OneBehindName, Ports!At
    <2>3. ASSUME NEW p \in Owners PROVE OwnerSound(p) /\ \A b \in Blocks : LeaseSound(p, b)
      <3>1. ~Holding(p) /\ OwnerSound(p)
        BY <1>3 DEF Holding, Releasing, OwnerSound
      <3>2. ASSUME NEW b \in Blocks PROVE LeaseSound(p, b)
        BY <1>3, <2>1, LeasesArePairs DEF LeaseSound
      <3> QED BY <3>1, <3>2
    <2> QED BY <2>2, <2>3 DEF PortsSound
  <1> QED BY <1>3, <1>4, <1>5

LEMMA PortsKeep == PortsInv /\ [ToolingNext]_toolingVars => PortsInv'
  <1> SUFFICES ASSUME PortsInv, [ToolingNext]_toolingVars, running' = "ports"
               PROVE  FilesTyped' /\ HandsTyped' /\ (Ports!NoneDied' => PortsSound')
    BY DEF PortsInv
  <1>1. running = "ports" /\ FilesTyped /\ HandsTyped /\ (Ports!NoneDied => PortsSound)
    BY DEF PortsInv, ToolingNext, toolingVars, RunCommand, RunProof, RunOutput, RunDelivery,
           RunInstallation, RunPorts
  <1>2. CASE UNCHANGED portVars
    <2>1. UNCHANGED <<path, marker, stand, purpose, todo, block, entry>>
      BY <1>2 DEF portVars
    <2>2. FilesTyped' /\ HandsTyped' /\ (Ports!NoneDied' => Ports!NoneDied)
      BY <1>1, <2>1 DEF FilesTyped, HandsTyped, Ports!NoneDied
    <2>3. PortsSound => PortsSound'
      BY <2>1 DEF PortsSound, NoneLeft, OneBehindName, Ports!At, OwnerSound, LeaseSound, Holding, Releasing,
                  OwnerIsOver, Ports!Own
    <2> QED BY <1>1, <2>2, <2>3
  <1>3. CASE Ports!Next
    <2>1. PICK p \in Owners : Ports!Step(p)
      BY <1>3 DEF Ports!Next
    <2>2. FilesTyped' /\ HandsTyped'
      BY <1>1, <2>1, FilesGoOn, HandsGoOn
    <2>3. ASSUME Ports!NoneDied' PROVE PortsSound'
      <3>1. stand[p] # "dead"
        BY <2>1 DEF Ports!Step, Ports!List, Ports!ScanNext, Ports!ScanOver, Ports!ReadMarker,
             Ports!AuthenticateOwner, Ports!Validate, Ports!Quarantine, Ports!Confirm, Ports!Restore,
             Ports!Unlink, Ports!Rmdir, Ports!MakeDirectory, Ports!FindTaken, Ports!WriteMarker,
             Ports!Listen, Ports!FindBusy, Ports!Bind, Ports!ReleaseAcquired, Ports!Die
      <3>2. Ports!NoneDied
        BY <1>1, <2>1, <2>3, <3>1, StepOfOne, FilesGoOn, LeasesArePairs DEF Ports!NoneDied
      <3>3. stand'[p] # "dead"
        BY <2>3 DEF Ports!NoneDied
      <3> QED BY <1>1, <2>1, <3>2, <3>3, LeasesStaySound
    <2> QED BY <2>2, <2>3
  <1> QED BY <1>1, <1>2, <1>3 DEF ToolingNext, toolingVars, RunCommand, RunProof, RunOutput,
                                  RunDelivery, RunInstallation, RunPorts

\* As long as no process has died, no two are given the same block and each lease stays
\* behind its block's name until its process releases it (ports.ts 25, 30-171): for any
\* number of processes and blocks, in whatever order their awaits come.
THEOREM PortBlocksAreSerialized == ToolingSpec => []SerializedWhileNoneDies
  <1>1. PortsInv => SerializedWhileNoneDies
    <2> SUFFICES ASSUME running = "ports", HandsTyped, PortsSound
                 PROVE  Ports!BlockHeldOnce /\ Ports!LeaseIsInPlace
      BY DEF PortsInv, SerializedWhileNoneDies, Ports!SerializedWhileNoneDies
    <2>1. Ports!LeaseIsInPlace
      BY OwnInPlace DEF Ports!LeaseIsInPlace
    <2>2. ASSUME NEW p \in Owners, NEW q \in Owners, {stand[p], stand[q]} \subseteq {"held", "bound"},
                 block[p] = block[q]
          PROVE  p = q
      <3>1. path[Ports!Own(q)] = Ports!Block(block[p])
        BY <2>1, <2>2 DEF Ports!LeaseIsInPlace
      <3>2. path[Ports!Own(p)] = Ports!Block(block[p])
        BY <2>1, <2>2 DEF Ports!LeaseIsInPlace
      <3>3. Ports!Own(q) \in Ports!At(Ports!Block(block[p])) /\ Ports!Own(p) \in Ports!At(Ports!Block(block[p]))
        BY <3>1, <3>2, OwnIsLease DEF Ports!At
      <3>4. Ports!Own(p) = Ports!Own(q)
        BY <3>3, OwnIsLease DEF PortsSound, OneBehindName
      <3> QED BY <3>4, OwnIsLease
    <2> QED BY <2>1, <2>2 DEF Ports!BlockHeldOnce
  <1> QED BY <1>1, PortsStart, PortsKeep, PTL DEF ToolingSpec
=============================================================================
