------------------------ MODULE ToolchainPublication ------------------------
(***************************************************************************)
(* Installation of a tool over the one in use (toolchain-publication.mjs): *)
(* the payload and its wrapper in use are renamed into a backup, the new   *)
(* ones into their places, and the backup is deleted once the new ones     *)
(* were validated.  Every call may throw, in the rollback too, and the     *)
(* process may be killed between two renames; the next attempt starts from *)
(* what it finds.                                                          *)
(*                                                                         *)
(* Attempt n installs version n + 1.  The backup is deleted by identity    *)
(* (cleanup.mjs): only while it holds what its snapshot says, entry by     *)
(* entry, and what is left when that fails is preserved.                   *)
(***************************************************************************)
EXTENDS Naturals

CONSTANTS Parts,        \* {"payload"}, or {"payload", "wrapper"}
          MaxAttempts   \* bound: how often the tool is installed

\* What ToolingCustody assumes of the constants.
PartsAssumption ==
  /\ "payload" \in Parts /\ Parts \subseteq {"payload", "wrapper"}
  /\ MaxAttempts \in Nat

None == 0
Attempts == 1 .. MaxAttempts

VARIABLES installed,  \* installed[x]: the version at x's path
          found,      \* found[x]: that when the attempt began
          staged,     \* the prepared payload is at its source
          leftover,   \* a wrapper.part exists
          backups,    \* backups[n]: [held, snapshot, handle] of attempt n
          attempt,    \* [n, step, valid, published, committed]
          outcome,    \* how the last attempt ended, as its caller sees it
          good        \* the version committed last

toolVars == <<installed, found, staged, leftover, backups, attempt, outcome, good>>

Empty == [x \in Parts |-> None]

\* A tool is installed, or is not yet; its first version was validated.
Init ==
  /\ good \in {None, 1} /\ installed = [x \in Parts |-> good] /\ found = installed
  /\ staged = FALSE /\ leftover = FALSE
  /\ backups = [n \in Attempts |-> [held |-> Empty, snapshot |-> {}, handle |-> "none"]]
  /\ attempt = [n |-> 0, step |-> "idle", valid |-> TRUE, published |-> {}, committed |-> FALSE]
  /\ outcome = "none"

----------------------------------------------------------------------------
(* Control.                                                                *)

Version == attempt.n + 1   \* what this attempt installs
Backup == backups[attempt.n]
Held == {x \in Parts : Backup.held[x] # None}

At(step) == attempt.step = step
Goto(step) == attempt' = [attempt EXCEPT !.step = step] /\ UNCHANGED <<found, outcome, good>>
Published(x, step) ==
  /\ attempt' = [attempt EXCEPT !.published = @ \cup {x}, !.step = step]
  /\ UNCHANGED <<found, outcome, good>>

Fail == Goto("undo")
FailUndo == Goto("lost")

End(result) ==
  /\ attempt' = [attempt EXCEPT !.step = "idle"] /\ outcome' = result
  /\ UNCHANGED <<found, good>>

With(backup) == backups' = [backups EXCEPT ![attempt.n] = backup]
Closed == [Backup EXCEPT !.handle = IF @ = "open" THEN "closed" ELSE @]

\* The move of x into the backup, and out of it.
MoveIn(x) == [Backup EXCEPT !.held[x] = installed[x]]
MoveOut(x) == [Backup EXCEPT !.held[x] = None]

Begin ==
  /\ At("idle") /\ attempt.n < MaxAttempts
  /\ \E valid \in BOOLEAN :
       attempt' = [n |-> attempt.n + 1, step |-> "backup", valid |-> valid, published |-> {}, committed |-> FALSE]
  /\ found' = installed /\ staged' = TRUE /\ outcome' = "none"
  /\ UNCHANGED <<installed, leftover, backups, good>>

----------------------------------------------------------------------------
(* publishPreparedInstallation().                                          *)

\* createPublicationBackup().
MakeBackup ==
  /\ At("backup") /\ UNCHANGED <<installed, staged, leftover>>
  /\ \/ installed = Empty /\ Goto("payload") /\ UNCHANGED backups
     \/ installed # Empty /\ Goto("keep payload") /\ With([Backup EXCEPT !.handle = "open"])
     \/ Fail /\ UNCHANGED backups

\* backupCurrentEntry(): when the snapshot does not take, x is moved back;
\* that may fail as well.
Keep(x, next) ==
  /\ UNCHANGED <<staged, leftover>>
  /\ \/ installed[x] = None /\ Goto(next) /\ UNCHANGED <<installed, backups>>
     \/ /\ installed[x] # None /\ installed' = [installed EXCEPT ![x] = None]
        /\ \/ With([MoveIn(x) EXCEPT !.snapshot = @ \cup {x}]) /\ Goto(next)
           \/ With(MoveIn(x)) /\ Fail
     \/ Fail /\ UNCHANGED <<installed, backups>>

KeepPayload == At("keep payload") /\ Keep("payload", "keep wrapper")
KeepWrapper ==
  At("keep wrapper") /\ IF "wrapper" \in Parts THEN Keep("wrapper", "payload")
                        ELSE Goto("payload") /\ UNCHANGED <<installed, staged, leftover, backups>>

PublishPayload ==
  /\ At("payload") /\ UNCHANGED <<leftover, backups>>
  /\ \/ /\ installed.payload = None /\ installed' = [installed EXCEPT !.payload = Version] /\ staged' = FALSE
        /\ \/ Published("payload", IF "wrapper" \in Parts THEN "part" ELSE "validate")
           \/ Published("payload", "undo")
     \/ Fail /\ UNCHANGED <<installed, staged>>

\* writePublishedWrapper(): the part is made, and removed again on failure.
WritePart ==
  /\ At("part") /\ UNCHANGED <<installed, staged, backups>>
  /\ \/ ~ leftover /\ leftover' = TRUE /\ Goto("wrapper")
     \/ ~ leftover /\ leftover' = TRUE /\ Fail
     \/ UNCHANGED leftover /\ Fail

PublishWrapper ==
  /\ At("wrapper") /\ UNCHANGED <<staged, backups>>
  /\ \/ /\ installed.wrapper = None /\ installed' = [installed EXCEPT !.wrapper = Version] /\ leftover' = FALSE
        /\ Published("wrapper", "validate") \/ Published("wrapper", "undo")
     \/ leftover' \in BOOLEAN /\ UNCHANGED installed /\ Fail

\* From the commit on the new installation stays.
Validate ==
  /\ At("validate") /\ UNCHANGED <<installed, staged, leftover, backups>>
  /\ \/ /\ attempt.valid
        /\ attempt' = [attempt EXCEPT !.committed = TRUE, !.step = "discard"] /\ good' = Version
        /\ UNCHANGED <<found, outcome>>
     \/ Fail

\* cleanupIdentityBoundDirectory(): the handle is closed whatever happens.
Discard(step, ended, Thrown) ==
  /\ At(step) /\ UNCHANGED <<installed, staged, leftover>>
  /\ \/ Backup.handle = "none" /\ End(ended) /\ UNCHANGED backups
     \/ \E x \in Held :
          /\ Backup.handle = "open" /\ Backup.snapshot = Held
          /\ With([MoveOut(x) EXCEPT !.snapshot = @ \ {x}]) /\ Goto(step)
     \/ Backup.handle = "open" /\ Held = {} /\ Backup.snapshot = {} /\ With(Closed) /\ End(ended)
     \/ Backup.handle = "open" /\ With(Closed) /\ Thrown

DiscardBackup == Discard("discard", "installed", Fail)

----------------------------------------------------------------------------
(* rollbackPublication() and finishFailedPublication().                    *)

Undo ==
  /\ At("undo") /\ UNCHANGED <<installed, staged, leftover, backups>>
  /\ \/ (attempt.committed \/ Backup.handle = "closed") /\ Goto("failed")
     \/ /\ ~ attempt.committed /\ Backup.handle # "closed"
        /\ (Backup.snapshot = Held /\ Goto("undo wrapper")) \/ FailUndo

UndoWrapper ==
  /\ At("undo wrapper") /\ UNCHANGED <<staged, leftover, backups>>
  /\ \/ "wrapper" \notin attempt.published /\ UNCHANGED installed /\ Goto("restore wrapper")
     \/ /\ "wrapper" \in attempt.published /\ installed' = [installed EXCEPT !.wrapper = None]
        /\ Goto("restore wrapper")
     \/ UNCHANGED installed /\ FailUndo

\* Slip: what was not published needs no restoring.
RestorePublished(x, next) ==
  /\ UNCHANGED <<staged, leftover>>
  /\ \/ x \notin (Held \cap attempt.published) /\ Goto(next) /\ UNCHANGED <<installed, backups>>
     \/ /\ x \in (Held \cap attempt.published) /\ installed[x] = None
        /\ installed' = [installed EXCEPT ![x] = Backup.held[x]]
        /\ \/ With([MoveOut(x) EXCEPT !.snapshot = @ \ {x}]) /\ Goto(next)
           \/ With(MoveOut(x)) /\ FailUndo
     \/ x \in Held /\ FailUndo /\ UNCHANGED <<installed, backups>>

\* restoreBackupEntry().
Restore(x, next) ==
  /\ UNCHANGED <<staged, leftover>>
  /\ \/ x \notin Held /\ Goto(next) /\ UNCHANGED <<installed, backups>>
     \/ /\ x \in Held /\ installed[x] = None
        /\ installed' = [installed EXCEPT ![x] = Backup.held[x]]
        /\ \/ With([MoveOut(x) EXCEPT !.snapshot = @ \ {x}]) /\ Goto(next)
           \/ With(MoveOut(x)) /\ FailUndo
     \/ x \in Held /\ FailUndo /\ UNCHANGED <<installed, backups>>

\* The new payload goes back to its source, if it is still valid.
UndoPayload ==
  /\ At("undo payload") /\ UNCHANGED <<leftover, backups>>
  /\ \/ "payload" \notin attempt.published /\ UNCHANGED <<installed, staged>> /\ Goto("restore payload")
     \/ /\ "payload" \in attempt.published /\ attempt.valid /\ ~ staged
        /\ installed' = [installed EXCEPT !.payload = None] /\ staged' = TRUE
        /\ Goto("restore payload") \/ FailUndo
     \/ UNCHANGED <<installed, staged>> /\ FailUndo

RestoreWrapper == At("restore wrapper") /\ Restore("wrapper", "undo payload")
RestorePayload == At("restore payload") /\ Restore("payload", "drop")

DropBackup == Discard("drop", "failed", FailUndo)

\* The backup that was not deleted is preserved.
Finish ==
  /\ At("lost") \/ At("failed")
  /\ With(Closed) /\ End(IF At("lost") THEN "rollback failed" ELSE "failed")
  /\ UNCHANGED <<installed, staged, leftover>>

Kill ==
  /\ ~ At("idle") /\ With(Closed) /\ End("killed")
  /\ UNCHANGED <<installed, staged, leftover>>

Next ==
  \/ Begin \/ MakeBackup \/ KeepPayload \/ KeepWrapper \/ PublishPayload
  \/ WritePart \/ PublishWrapper \/ Validate \/ DiscardBackup
  \/ Undo \/ UndoWrapper \/ RestoreWrapper \/ UndoPayload \/ RestorePayload
  \/ DropBackup \/ Finish \/ Kill

----------------------------------------------------------------------------
(* What is promised.                                                       *)

Kept(x, version) == installed[x] = version \/ \E n \in Attempts : backups[n].held[x] = version

\* Whatever fails and whenever the process is killed, no part of the version
\* committed last is lost: it is installed, or in a backup that is preserved.
\* An attempt that throws, and does not say that its rollback failed, changed
\* nothing, or had committed; one that returns installed all of its version.
InstallationIsKept ==
  /\ good # None => \A x \in Parts : Kept(x, good)
  /\ outcome = "failed" => installed = IF attempt.committed THEN [x \in Parts |-> Version] ELSE found
  /\ outcome = "installed" => installed = [x \in Parts |-> Version]
=============================================================================
