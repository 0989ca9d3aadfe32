----------------------------- MODULE OwnedOutput -----------------------------
(***************************************************************************)
(* Publication of a plan bundle (safe-output.ts, driven by                 *)
(* publishReadyLast() and runUnsignedPlanner()): the leaves are written    *)
(* into a private staging directory, the directory is renamed to its       *)
(* target without replacing anything, and only when that is on disk is a   *)
(* hidden marker renamed to READY inside it.                               *)
(*                                                                         *)
(* Any number of planners publish under the same name; each makes one      *)
(* directory and holds it open, while every path may come to name another  *)
(* directory between two awaits: an operator moves a preserved target      *)
(* away, and others put things at the target or into it.  A rename is on   *)
(* disk once its directory is synced; a power loss keeps any state since.  *)
(* The native helper may perform a rename and lose its answer.             *)
(***************************************************************************)
EXTENDS Naturals

CONSTANTS Planners,    \* the planners that publish this bundle
          Stranger,    \* a directory of somebody else
          LastLeaf,    \* how many leaves a bundle has, READY apart
          MaxEvents    \* bound: power losses, and acts of the others

\* What ToolingCustody assumes of the constants.
OutputAssumption == Stranger \notin Planners /\ {LastLeaf, MaxEvents} \subseteq Nat

Trees == Planners \cup {Stranger}

VARIABLES dirs,    \* dirs[d]: where d is and what is in it
          at,      \* at[p]: the await p stands at
          answer,  \* answer[p]: how p ended, as its caller sees it
          events

outputVars == <<dirs, at, answer, events>>

\* place and marker are what the processes see; places and markers what a
\* power loss may leave of them; leaves of the kept ones up to leaves.
NoDirectory == [place |-> "none", places |-> {"none"}, leaves |-> 0, kept |-> 0,
                marker |-> "none", markers |-> {"none"}, stray |-> FALSE]

Init ==
  /\ dirs = [d \in Trees |-> NoDirectory]
  /\ at = [p \in Planners |-> "claim"]
  /\ answer = [p \in Planners |-> "none"]
  /\ events = 0

----------------------------------------------------------------------------
(* The file system.                                                        *)

Target == {d \in Trees : dirs[d].place = "target"}

Move(d, to) == [dirs EXCEPT ![d].place = to, ![d].places = @ \cup {to}]

\* A directory's sync keeps its own entries, the parent's sync its own.
Synced(dir) == [dir EXCEPT !.kept = dir.leaves, !.markers = {dir.marker}]
ParentSynced(ds) == [d \in Trees |-> [ds[d] EXCEPT !.places = {ds[d].place}]]

Goto(p, await) == at' = [at EXCEPT ![p] = await] /\ UNCHANGED <<answer, events>>

\* p throws, as it may at every await, or returns; close() follows.
End(p, result) ==
  /\ at' = [at EXCEPT ![p] = "close"] /\ answer' = [answer EXCEPT ![p] = result]
  /\ UNCHANGED events

\* What was done is done: the target is preserved, and nothing is cleaned up.
Uncertain(p) ==
  /\ at' = [at EXCEPT ![p] = "over"] /\ answer' = [answer EXCEPT ![p] = "uncertain"]
  /\ UNCHANGED events

----------------------------------------------------------------------------
(* claimOwnedOutputDirectory(), writeExclusive().                          *)

Claim(p) ==
  /\ at[p] = "claim"
  /\ IF Target # {} THEN End(p, "refused") /\ UNCHANGED dirs
     ELSE Goto(p, "write") /\ dirs' = Move(p, "staging")

\* A leaf is created, written and synced, or is left behind untracked.
Write(p) ==
  /\ at[p] = "write"
  /\ \/ dirs[p].leaves < LastLeaf /\ Goto(p, "write") /\ dirs' = [dirs EXCEPT ![p].leaves = @ + 1]
     \/ dirs[p].leaves < LastLeaf /\ End(p, "refused") /\ dirs' = [dirs EXCEPT ![p].stray = TRUE]
     \/ dirs[p].leaves = LastLeaf /\ ~ dirs[p].stray /\ Goto(p, "sync") /\ UNCHANGED dirs
     \/ End(p, "refused") /\ UNCHANGED dirs

----------------------------------------------------------------------------
(* publish().                                                              *)

SyncStaging(p) ==
  /\ at[p] = "sync"
  /\ \/ Goto(p, "missing") /\ dirs' = [dirs EXCEPT ![p] = Synced(@)]
     \/ End(p, "refused") /\ UNCHANGED dirs

AssertMissing(p) ==
  /\ at[p] = "missing" /\ UNCHANGED dirs
  /\ (Target = {} /\ Goto(p, "rename")) \/ End(p, "refused")

\* Slip: a helper that failed did not rename.
RenameRefused(p) ==
  /\ at[p] = "rename"
  /\ \/ Target = {} /\ dirs' = Move(p, "target") /\ (Goto(p, "identity") \/ End(p, "refused"))
     \/ UNCHANGED dirs /\ End(p, "refused")

\* A failed helper that did not say EEXIST may have renamed all the same.
Rename(p) ==
  /\ at[p] = "rename"
  /\ \/ Target = {} /\ dirs' = Move(p, "target") /\ (Goto(p, "identity") \/ Uncertain(p))
     \/ Target # {} /\ UNCHANGED dirs /\ End(p, "refused")
     \/ UNCHANGED dirs /\ Uncertain(p)

Identity(p) ==
  /\ at[p] = "identity" /\ UNCHANGED dirs
  /\ (Target = {p} /\ Goto(p, "parent")) \/ Uncertain(p)

\* Slip: the published directory is not synced before READY.
SyncParentLater(p) ==
  /\ at[p] = "parent" /\ UNCHANGED dirs
  /\ Goto(p, "content") \/ Uncertain(p)

SyncParent(p) ==
  /\ at[p] = "parent"
  /\ \/ Goto(p, "content") /\ dirs' = ParentSynced(dirs)
     \/ Uncertain(p) /\ UNCHANGED dirs

----------------------------------------------------------------------------
(* finalizeReady().                                                        *)

\* assertPublishedTreeUnchanged(): the target is still the directory p made,
\* and holds what p put there.
Unchanged(p, marker) ==
  /\ Target = {p} /\ ~ dirs[p].stray
  /\ dirs[p].leaves = LastLeaf /\ dirs[p].marker = marker

CheckContent(p) ==
  /\ at[p] = "content" /\ UNCHANGED dirs
  /\ (Unchanged(p, "none") /\ Goto(p, "open")) \/ End(p, "unready")

\* The hidden marker is made by path, in whatever stands at the target now.
OpenPending(p) ==
  /\ at[p] = "open"
  /\ \/ End(p, "unready") /\ UNCHANGED dirs
     \/ \E d \in Target :
          /\ Goto(p, "pending")
          /\ dirs' = IF d = p THEN [dirs EXCEPT ![p].marker = "pending", ![p].markers = @ \cup {"pending"}]
                              ELSE [dirs EXCEPT ![d].stray = TRUE]

SyncPending(p) ==
  /\ at[p] = "pending"
  /\ \/ Goto(p, "pendingcheck") /\ dirs' = [dirs EXCEPT ![p] = Synced(@)]
     \/ End(p, "unready") /\ UNCHANGED dirs

CheckPending(p) ==
  /\ at[p] = "pendingcheck" /\ UNCHANGED dirs
  /\ (Unchanged(p, "pending") /\ Goto(p, "commit")) \/ End(p, "unready")

\* Inside the directory p holds, wherever that is by now; a READY that was
\* put there first is a stray.
Commit(p) ==
  /\ at[p] = "commit"
  /\ \/ /\ dirs' = [dirs EXCEPT ![p].marker = "ready", ![p].markers = @ \cup {"ready"}]
        /\ Goto(p, "ready") \/ Uncertain(p)
     \/ UNCHANGED dirs /\ Uncertain(p)
     \/ dirs[p].stray /\ UNCHANGED dirs /\ End(p, "unready")

\* assertPublishedReady().
CheckReady(p) ==
  /\ at[p] = "ready" /\ UNCHANGED dirs
  /\ (Unchanged(p, "ready") /\ Goto(p, "readysync")) \/ Uncertain(p)

SyncReady(p) ==
  /\ at[p] = "readysync"
  /\ \/ Goto(p, "durable") /\ dirs' = [dirs EXCEPT ![p] = Synced(@)]
     \/ Uncertain(p) /\ UNCHANGED dirs

Durable(p) ==
  /\ at[p] = "durable" /\ UNCHANGED dirs
  /\ (Unchanged(p, "ready") /\ Goto(p, "final")) \/ Uncertain(p)

\* assertCommitted(), then verifyBundle(): the bundle is read through the
\* handles p holds, the chain is read again, and the tree is looked at.
Final(p) ==
  /\ at[p] = "final" /\ UNCHANGED dirs
  /\ (Unchanged(p, "ready") /\ End(p, "published")) \/ End(p, "rejected")

----------------------------------------------------------------------------
(* close().                                                                *)

\* An unpublished staging directory that is as p left it is renamed aside.
Close(p) ==
  /\ at[p] = "close" /\ Goto(p, "over")
  /\ \/ UNCHANGED dirs
     \/ dirs[p].place = "staging" /\ ~ dirs[p].stray /\ dirs' = Move(p, "cleanup")
     \/ dirs[p].place = "staging" /\ ~ dirs[p].stray /\ dirs' = ParentSynced(Move(p, "cleanup"))

----------------------------------------------------------------------------
(* The others, and the machine.                                            *)

Event == events < MaxEvents /\ events' = events + 1

\* Somebody makes a directory under the name of the bundle.
Occupy ==
  /\ Event /\ Target = {} /\ dirs[Stranger].place = "none"
  /\ dirs' = Move(Stranger, "target") /\ UNCHANGED <<at, answer>>

\* An operator moves what stands at the target away.
Archive(d) ==
  /\ Event /\ d \in Target /\ dirs' = Move(d, "archive") /\ UNCHANGED <<at, answer>>

\* Somebody leaves a file in a bundle.
Litter(d) ==
  /\ Event /\ d \in Target /\ ~ dirs[d].stray
  /\ dirs' = [dirs EXCEPT ![d].stray = TRUE] /\ UNCHANGED <<at, answer>>

\* What may be found of d afterwards.
Survivors(d) ==
  {[place |-> place, places |-> {place}, leaves |-> leaves, kept |-> leaves,
    marker |-> marker, markers |-> {marker}, stray |-> dirs[d].stray] :
     place \in dirs[d].places, leaves \in dirs[d].kept .. dirs[d].leaves, marker \in dirs[d].markers}

\* What may be found of all: a name has one directory.
Remains ==
  {ds \in [Trees -> UNION {Survivors(d) : d \in Trees}] :
     /\ \A d \in Trees : ds[d] \in Survivors(d)
     /\ \A d, e \in Trees : ds[d].place = "target" /\ ds[e].place = "target" => d = e}

\* The planners under way end with the machine.
PowerLoss ==
  /\ Event
  /\ \E ds \in Remains : dirs' = ds
  /\ at' = [p \in Planners |-> IF at[p] = "claim" THEN "claim" ELSE "over"]
  /\ answer' = [p \in Planners |-> IF at[p] # "claim" /\ answer[p] = "none" THEN "lost" ELSE answer[p]]

Step(p) ==
  \/ Claim(p) \/ Write(p) \/ SyncStaging(p) \/ AssertMissing(p) \/ Rename(p)
  \/ Identity(p) \/ SyncParent(p) \/ CheckContent(p) \/ OpenPending(p)
  \/ SyncPending(p) \/ CheckPending(p) \/ Commit(p) \/ CheckReady(p)
  \/ SyncReady(p) \/ Durable(p) \/ Final(p) \/ Close(p)

Next ==
  \/ \E p \in Planners : Step(p)
  \/ \E d \in Trees : Archive(d) \/ Litter(d)
  \/ Occupy \/ PowerLoss

----------------------------------------------------------------------------
(* What is promised.                                                       *)

Published(d) == dirs[d].place \in {"target", "archive"}

\* READY denotes a complete bundle that was published: whatever is lost with
\* the power, no directory holds it that is still staging or misses a leaf.
\* And how a planner ended stays true, of the disk as well: a bundle reported
\* as published is there with its READY, a publication refused was not made,
\* and one that stopped before READY has none.
ReadyIsTrue ==
  \A p \in Planners :
    /\ dirs[p].marker = "ready" => (Published(p) /\ dirs[p].leaves = LastLeaf)
    /\ answer[p] \in {"published", "rejected"} => (Published(p) /\ dirs[p].marker = "ready")
    /\ answer[p] = "refused" => ~ Published(p)
    /\ answer[p] = "unready" => dirs[p].marker # "ready"
=============================================================================
