----------------------------- MODULE PortLeases -----------------------------
(***************************************************************************)
(* The port blocks of local Solana fixtures (ports.ts): a process reclaims *)
(* the leases dead processes left, makes a directory named for a block     *)
(* with a marker that says whose it is, tries the block's ports, and in    *)
(* the end renames the directory to a name made of its token and deletes   *)
(* it there.                                                               *)
(*                                                                         *)
(* A file system call names a path, and what is behind it may have been    *)
(* moved since it was looked at.  rename() takes the place of an empty     *)
(* directory and fails on any other.  Making a directory and reading its   *)
(* inode, and reading a marker and the inodes it must match, are one step  *)
(* each.  A process calls allocate() once; it may die at any await.        *)
(***************************************************************************)
EXTENDS Naturals

CONSTANTS Processes,
          Dead,     \* a process that died before, with leases of its own
          Blocks

\* What ToolingCustody assumes of the constants.
PortsAssumption == Dead \notin Processes /\ Blocks # {}

\* A lease is one directory: who made it, for which block.
Leases == (Processes \cup {Dead}) \X Blocks
NoLease == <<>>

VARIABLES path,    \* path[l]: the name of lease l's directory
          marker,  \* marker[l]: the lease the marker in it was written for
          at,      \* at[p]: the await process p stands at
          purpose, \* purpose[p]: what its reclamation or release is part of
          todo,    \* todo[p]: the blocks yet to scan, or yet to try
          block,   \* block[p]: the block under hand
          entry    \* entry[p]: the lease to delete

portVars == <<path, marker, at, purpose, todo, block, entry>>

Block(b) == <<"block", b>>
Release(l) == <<"release", l>>
Unmade == <<"unmade">>
Gone == <<"gone">>

At(name) == {l \in Leases : path[l] = name}

Init ==
  /\ \E stale \in SUBSET ({Dead} \X Blocks) :
       /\ path = [l \in Leases |-> IF l \in stale THEN Block(l[2]) ELSE Unmade]
       /\ marker = [l \in Leases |-> IF l \in stale THEN l ELSE NoLease]
  /\ at = [p \in Processes |-> "new"] /\ purpose = [p \in Processes |-> "scan"]
  /\ todo = [p \in Processes |-> {}] /\ block \in [Processes -> Blocks]
  /\ entry = [p \in Processes |-> NoLease]

Goto(p, await) == at' = [at EXCEPT ![p] = await]

Files == <<path, marker>>
Hand == <<purpose, todo, block, entry>>

Die(p) ==
  /\ at[p] \notin {"new", "over", "dead"} /\ Goto(p, "dead")
  /\ UNCHANGED <<Files, Hand>>

\* Slip: one that is through with allocate() cannot be read, and is taken for stale.
AliveIfAllocating(p) == p \in Processes /\ at[p] \notin {"held", "bound", "over", "dead"}

\* leaseOwnerIsProvablyStale(): a process is known by its start, not its number.
Alive(p) == p \in Processes /\ at[p] \notin {"over", "dead"}

\* The directory a block was acquired with is there under a name, its marker in it.
ValidAt(name, l) == At(name) = {l} /\ marker[l] = l

----------------------------------------------------------------------------
(* How a reclamation or a release ends.                                    *)

\* allocate() goes on with the next block, or throws.
NextBlock(p) ==
  /\ IF todo[p] = {}
       THEN Goto(p, "over") /\ UNCHANGED <<todo, block>>
       ELSE \E b \in todo[p] :
              /\ Goto(p, "acquire")
              /\ block' = [block EXCEPT ![p] = b] /\ todo' = [todo EXCEPT ![p] = @ \ {b}]
  /\ purpose' = [purpose EXCEPT ![p] = "allocate"] /\ UNCHANGED entry

Return(p) ==
  CASE purpose[p] = "scan"     -> Goto(p, "scan") /\ UNCHANGED Hand
    [] purpose[p] = "allocate" -> Goto(p, "acquire-again") /\ UNCHANGED Hand
    [] purpose[p] = "busy"     -> NextBlock(p)
    [] purpose[p] = "release"  -> Goto(p, "over") /\ UNCHANGED Hand

\* A lease whose release threw is still held, and release() may be called again.
Throw(p) ==
  CASE purpose[p] = "scan"     -> Goto(p, "scan") /\ UNCHANGED Hand
    [] purpose[p] = "allocate" -> Goto(p, "over") /\ UNCHANGED Hand
    [] purpose[p] = "busy"     -> NextBlock(p)
    [] purpose[p] = "release"  -> Goto(p, "held") /\ UNCHANGED Hand

----------------------------------------------------------------------------
(* reclaimStaleLeases() and reclaimStale().                                *)

List(p) ==
  /\ at[p] = "new" /\ Goto(p, "scan")
  /\ todo' = [todo EXCEPT ![p] = {b \in Blocks : At(Block(b)) # {}}]
  /\ UNCHANGED <<Files, purpose, block, entry>>

ScanNext(p) ==
  /\ at[p] = "scan" /\ Goto(p, "read")
  /\ \E b \in todo[p] : todo' = [todo EXCEPT ![p] = @ \ {b}] /\ block' = [block EXCEPT ![p] = b]
  /\ UNCHANGED <<Files, purpose, entry>>

\* The first block tried is a random one.
ScanOver(p) ==
  /\ at[p] = "scan" /\ todo[p] = {} /\ Goto(p, "acquire")
  /\ \E b \in Blocks : block' = [block EXCEPT ![p] = b] /\ todo' = [todo EXCEPT ![p] = Blocks \ {b}]
  /\ purpose' = [purpose EXCEPT ![p] = "allocate"] /\ UNCHANGED <<Files, entry>>

\* A marker that is absent, or is not bound to its directory, is let be.
ReadMarker(p) ==
  /\ at[p] = "read" /\ UNCHANGED Files
  /\ IF \E l \in Leases : ValidAt(Block(block[p]), l)
       THEN /\ \E l \in At(Block(block[p])) : entry' = [entry EXCEPT ![p] = l]
            /\ Goto(p, "authenticate") /\ UNCHANGED <<purpose, todo, block>>
       ELSE Return(p)

AuthenticateOwner(p) ==
  /\ at[p] = "authenticate" /\ UNCHANGED Files
  /\ IF Alive(entry[p][1]) THEN Return(p) ELSE Goto(p, "validate") /\ UNCHANGED Hand

----------------------------------------------------------------------------
(* quarantineAndDelete(), of a stale lease or of one's own.                *)

Validate(p) ==
  /\ at[p] = "validate" /\ UNCHANGED Files
  /\ IF ValidAt(Block(block[p]), entry[p]) THEN Goto(p, "rename") /\ UNCHANGED Hand ELSE Throw(p)

\* rename(): what is behind one name gets another, unless that is in use.
Moves(l, name) ==
  /\ \A other \in At(name) : marker[other] = NoLease
  /\ path' = [x \in Leases |-> IF x = l THEN name ELSE IF x \in At(name) THEN Gone ELSE path[x]]

Quarantine(p) ==
  /\ at[p] = "rename" /\ UNCHANGED marker
  /\ \/ /\ \E l \in At(Block(block[p])) : Moves(l, Release(entry[p]))
        /\ Goto(p, "confirm") /\ UNCHANGED Hand
     \/ /\ At(Block(block[p])) = {} \/ \E l \in At(Release(entry[p])) : marker[l] # NoLease
        /\ UNCHANGED path /\ Throw(p)

StillOurs(p) == ValidAt(Release(entry[p]), entry[p])

Confirm(p) ==
  /\ at[p] = "confirm" /\ Goto(p, IF StillOurs(p) THEN "unlink" ELSE "restore")
  /\ UNCHANGED <<Files, Hand>>

\* What was renamed by mistake is renamed back; that this may fail is ignored.
Restore(p) ==
  /\ at[p] = "restore" /\ UNCHANGED marker /\ Throw(p)
  /\ \/ \E l \in At(Release(entry[p])) : Moves(l, Block(block[p]))
     \/ /\ At(Release(entry[p])) = {} \/ \E l \in At(Block(block[p])) : marker[l] # NoLease
        /\ UNCHANGED path

\* By its path, whatever has come to be there since the confirmation.
Unlink(p) ==
  /\ at[p] = "unlink" /\ UNCHANGED path
  /\ marker' = [l \in Leases |-> IF l \in At(Release(entry[p])) THEN NoLease ELSE marker[l]]
  /\ IF At(Release(entry[p])) # {} THEN Goto(p, "rmdir") /\ UNCHANGED Hand ELSE Throw(p)

Rmdir(p) ==
  /\ at[p] = "rmdir" /\ UNCHANGED marker
  /\ \/ /\ \E l \in At(Release(entry[p])) : marker[l] = NoLease /\ path' = [path EXCEPT ![l] = Gone]
        /\ Return(p)
     \/ /\ \A l \in At(Release(entry[p])) : marker[l] # NoLease
        /\ UNCHANGED path /\ Throw(p)

----------------------------------------------------------------------------
(* allocate() and release().                                               *)

Own(p) == <<p, block[p]>>

MakeDirectory(p) ==
  /\ at[p] \in {"acquire", "acquire-again"} /\ At(Block(block[p])) = {}
  /\ path' = [path EXCEPT ![Own(p)] = Block(block[p])] /\ Goto(p, "mark")
  /\ UNCHANGED <<marker, Hand>>

\* The block is taken: once it is reclaimed, if it is stale, and tried again.
FindTaken(p) ==
  /\ At(Block(block[p])) # {} /\ UNCHANGED Files
  /\ \/ at[p] = "acquire" /\ Goto(p, "read") /\ UNCHANGED Hand
     \/ at[p] = "acquire-again" /\ NextBlock(p)

\* The marker is created by its path, exclusively; if it cannot be, allocate() throws.
WriteMarker(p) ==
  /\ at[p] = "mark" /\ UNCHANGED <<path, Hand>>
  /\ IF \E l \in At(Block(block[p])) : marker[l] = NoLease
       THEN /\ marker' = [l \in Leases |-> IF l \in At(Block(block[p])) THEN Own(p) ELSE marker[l]]
            /\ Goto(p, "listen")
       ELSE UNCHANGED marker /\ Goto(p, "over")

\* canListen() of every port: a validator may already be bound to one.
Listen(p) ==
  /\ at[p] = "listen" /\ \A q \in Processes : at[q] = "bound" => block[q] # block[p]
  /\ Goto(p, "held") /\ UNCHANGED <<Files, Hand>>

\* Or another program is; the lease is given up again.
FindBusy(p) ==
  /\ at[p] = "listen" /\ Goto(p, "validate")
  /\ purpose' = [purpose EXCEPT ![p] = "busy"] /\ entry' = [entry EXCEPT ![p] = Own(p)]
  /\ UNCHANGED <<Files, todo, block>>

\* The fixture's validator binds the ports of the block it was given.
Bind(p) ==
  /\ at[p] = "held" /\ \A q \in Processes : at[q] = "bound" => block[q] # block[p]
  /\ Goto(p, "bound") /\ UNCHANGED <<Files, Hand>>

ReleaseAcquired(p) ==
  /\ at[p] \in {"held", "bound"} /\ Goto(p, "validate")
  /\ purpose' = [purpose EXCEPT ![p] = "release"] /\ entry' = [entry EXCEPT ![p] = Own(p)]
  /\ UNCHANGED <<Files, todo, block>>

Step(p) ==
  \/ List(p) \/ ScanNext(p) \/ ScanOver(p) \/ ReadMarker(p) \/ AuthenticateOwner(p)
  \/ Validate(p) \/ Quarantine(p) \/ Confirm(p) \/ Restore(p) \/ Unlink(p) \/ Rmdir(p)
  \/ MakeDirectory(p) \/ FindTaken(p) \/ WriteMarker(p) \/ Listen(p) \/ FindBusy(p)
  \/ Bind(p) \/ ReleaseAcquired(p) \/ Die(p)

Next == \E p \in Processes : Step(p)

Spec == Init /\ [][Next]_portVars

----------------------------------------------------------------------------
(* Properties.                                                             *)

\* "Cross-process lease directories serialize every fixture-owned port block"
\* (ports.ts 25): no two processes are given the same block at a time.
BlockHeldOnce ==
  \A p, q \in Processes : p # q /\ {at[p], at[q]} \subseteq {"held", "bound"} => block[p] # block[q]

\* A process that was given a block has its own lease behind the block's name.
LeaseIsInPlace ==
  \A p \in Processes : at[p] \in {"listen", "held", "bound"} =>
    path[Own(p)] = Block(block[p]) /\ marker[Own(p)] = Own(p)

NoneDied == (\A p \in Processes : at[p] # "dead") /\ \A b \in Blocks : path[<<Dead, b>>] = Unmade

\* Where that sentence does hold: as long as no process has died, however processes
\* overtake each other between the looks, renames and deletions of their
\* reclamations and releases (30-171).
SerializedWhileNoneDies == NoneDied => BlockHeldOnce /\ LeaseIsInPlace
=============================================================================
