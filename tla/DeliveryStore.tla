---------------------------- MODULE DeliveryStore ----------------------------
(***************************************************************************)
(* The delivery directory of a genesis deployment (deployment-store.ts).   *)
(* A publisher writes the leaves in place, one by one, then the inventory  *)
(* that binds them, then READY; a lock file keeps the others out, and a    *)
(* publisher that resumes takes what it finds if it would have written it. *)
(* The lock is given back by way of a private staging directory, so that   *)
(* whoever replaced it loses nothing.  A consumer takes no lock and reads  *)
(* one file after the other.                                               *)
(*                                                                         *)
(* Every await may fail; a publisher may be killed, the power lost, the    *)
(* lock replaced by a stranger's; an operator clears away what they left.  *)
(***************************************************************************)
EXTENDS Naturals

CONSTANTS Publishers, Deliveries,  \* the publishers, and what they may publish
          LastLeaf, MaxMishaps     \* leaves of a delivery; bound: kills, losses, strangers

\* What ToolingCustody assumes of the constants.
DeliveryAssumption ==
  /\ LastLeaf \in Nat \ {0} /\ MaxMishaps \in Nat
  /\ Publishers \cap {"none", "empty", "stranger"} = {} /\ Deliveries \cap {"absent", "partial", "common"} = {}

VARIABLES store,   \* the directory: see Nothing
          pub,     \* pub[p]: the await p stands at, its arguments and its answer
          reader,  \* the consumer: its await, the delivery it reads, whether it saw READY
          mishaps

deliveryVars == <<store, pub, reader, mishaps>>

Inventory == LastLeaf + 1
READY == LastLeaf + 2
Files == 1 .. READY

\* What file f of delivery d holds; the first leaf is the same in all.
Content(d, f) == IF f = 1 THEN "common" ELSE d

\* files[f] is what a process reads, may[f] what a power loss may leave of it,
\* firm that the directory itself would stay; foreign that a stranger's lock
\* was put here, lost that the power was.
Nothing == [made |-> FALSE, firm |-> FALSE, files |-> [f \in Files |-> "absent"],
            may |-> [f \in Files |-> {"absent"}], lock |-> "none",
            stages |-> [p \in Publishers |-> "none"], foreign |-> FALSE, lost |-> FALSE]

NotBegun == [at |-> "idle", file |-> 1, what |-> "none", resume |-> FALSE, ready |-> FALSE, answer |-> "none"]

Waiting == [at |-> "idle", what |-> "none", ready |-> FALSE]

Init == store = Nothing /\ pub = [p \in Publishers |-> NotBegun] /\ reader = Waiting /\ mishaps = 0

Goto(p, await) == pub' = [pub EXCEPT ![p].at = await]

End(p, answer) == pub' = [pub EXCEPT ![p].at = "over", ![p].answer = answer]

\* Whatever throws under the lock leads to the finally clause.
Throw(p) == pub' = [pub EXCEPT ![p].at = "finally", ![p].answer = "failed"]

Present(f) == store.files[f] # "absent"

\* A staging directory stands, of a release under way or left by one.
Staged == \E p \in Publishers : store.stages[p] # "none"

\* The directory holds delivery d, up to file last.
Holds(d, last) == \A f \in 1 .. last : store.files[f] = Content(d, f)

----------------------------------------------------------------------------
(* publishDeploymentFiles().                                               *)

Begin(p) ==
  /\ pub[p].at = "idle"
  /\ \E d \in Deliveries, resume, ready \in BOOLEAN :
       /\ store' = [store EXCEPT !.made = @ \/ ~ resume]
       /\ pub' = [pub EXCEPT ![p] =
            IF store.made = resume
            THEN [NotBegun EXCEPT !.at = "lock", !.what = d, !.resume = resume, !.ready = ready]
            ELSE [NotBegun EXCEPT !.at = "over", !.answer = "refused"]]

TakeLock(p) ==
  /\ pub[p].at = "lock"
  /\ \/ store.lock = "none" /\ store' = [store EXCEPT !.lock = p] /\ (Goto(p, "list") \/ End(p, "failed"))
     \/ UNCHANGED store /\ End(p, "refused")

List(p) ==
  /\ pub[p].at = "list" /\ UNCHANGED store
  /\ (~ Staged /\ (Present(READY) => pub[p].ready) /\ Goto(p, "write")) \/ Throw(p)

Put(f, content) == store' = [store EXCEPT !.files[f] = content, !.may[f] = @ \cup {"partial", content}]

\* exclusiveOrMatch(): the file is created, or found and compared.
Write(p) ==
  LET f == pub[p].file
      content == Content(pub[p].what, f)
  IN /\ pub[p].at = "write"
     /\ \/ ~ Present(f) /\ Put(f, content) /\ (Goto(p, "sync") \/ Throw(p))
        \/ ~ Present(f) /\ Put(f, "partial") /\ Throw(p)
        \/ UNCHANGED store /\ store.files[f] = content /\ pub[p].resume /\ Goto(p, "entry")
        \/ UNCHANGED store /\ Throw(p)

SyncFile(p) ==
  LET f == pub[p].file
  IN /\ pub[p].at = "sync"
     /\ \/ store' = [store EXCEPT !.may[f] = @ \cap {"absent", store.files[f]}] /\ (Goto(p, "entry") \/ Throw(p))
        \/ UNCHANGED store /\ Throw(p)

\* The entry is on disk, and so are all before it.
SyncEntry(p) ==
  /\ pub[p].at = "entry"
  /\ \/ /\ store' = [store EXCEPT !.may = [f \in Files |-> IF Present(f) THEN @[f] \ {"absent"} ELSE @[f]]]
        /\ \/ pub[p].file < Inventory /\ pub' = [pub EXCEPT ![p].at = "write", ![p].file = @ + 1]
           \/ pub[p].file = Inventory /\ Goto(p, "parent")
           \/ pub[p].file = READY /\ Goto(p, "verify")
     \/ UNCHANGED store /\ Throw(p)

SyncParent(p) ==
  /\ pub[p].at = "parent"
  /\ \/ store' = [store EXCEPT !.firm = TRUE] /\ Goto(p, IF pub[p].ready THEN "verify" ELSE "finally")
     \/ UNCHANGED store /\ Throw(p)

\* verifyOwnedPublication(), before READY and after it.
Verify(p) ==
  /\ pub[p].at = "verify" /\ UNCHANGED store
  /\ \/ /\ store.lock = p /\ ~ Staged
        /\ Holds(pub[p].what, IF Present(READY) THEN READY ELSE Inventory)
        /\ IF pub[p].file = READY THEN Present(READY) /\ Goto(p, "finally")
           ELSE pub' = [pub EXCEPT ![p].at = "write", ![p].file = READY]
     \/ Throw(p)

\* The lock is closed, and looked at by name.
Finally(p) ==
  /\ pub[p].at = "finally" /\ UNCHANGED store
  /\ (store.lock = p /\ Goto(p, "stage")) \/ End(p, "failed")

----------------------------------------------------------------------------
(* releasePublicationLock().                                               *)

MakeStage(p) ==
  /\ pub[p].at = "stage"
  /\ \/ store' = [store EXCEPT !.stages[p] = "empty"] /\ (Goto(p, "capture") \/ End(p, "failed"))
     \/ UNCHANGED store /\ End(p, "failed")

\* Slip: the lock is removed under its public name.
RemovePublicLock(p) ==
  /\ pub[p].at = "capture"
  /\ store' = [store EXCEPT !.lock = "none"] /\ Goto(p, "leave")

Capture(p) ==
  /\ pub[p].at = "capture"
  /\ \/ store' = [store EXCEPT !.lock = "none", !.stages[p] = store.lock] /\ Goto(p, "captured")
     \/ UNCHANGED store /\ End(p, "failed")

\* What was captured is looked at before it is deleted.
Unlink(p) ==
  /\ pub[p].at = "captured"
  /\ \/ store.stages[p] = p /\ store' = [store EXCEPT !.stages[p] = "empty"] /\ (Goto(p, "leave") \/ End(p, "failed"))
     \/ UNCHANGED store /\ End(p, "failed")

Leave(p) ==
  /\ pub[p].at = "leave"
  /\ \/ /\ store' = [store EXCEPT !.stages[p] = "none"]
        /\ End(p, IF pub[p].answer = "none" THEN "published" ELSE pub[p].answer)
     \/ UNCHANGED store /\ End(p, "failed")

Publish(p) ==
  /\ UNCHANGED <<reader, mishaps>>
  /\ \/ Begin(p) \/ TakeLock(p) \/ List(p) \/ Write(p) \/ SyncFile(p) \/ SyncEntry(p) \/ SyncParent(p)
     \/ Verify(p) \/ Finally(p) \/ MakeStage(p) \/ Capture(p) \/ Unlink(p) \/ Leave(p)

----------------------------------------------------------------------------
(* verifyDeploymentFiles().                                                *)

\* Whatever throws is thrown to the consumer, who may come again.
ReadOn(await) == (reader' = [reader EXCEPT !.at = await]) \/ (reader' = Waiting)

ReadInventory ==
  /\ reader.at = "idle" /\ store.files[Inventory] \in Deliveries
  /\ reader' = [at |-> "list", what |-> store.files[Inventory], ready |-> FALSE]

\* requireReady asks for READY, and whoever finds it reads it.
ReadEntries ==
  /\ reader.at = "list"
  /\ \/ /\ store.lock = "none" /\ ~ Staged /\ \A f \in 1 .. Inventory : Present(f)
        /\ reader' = [reader EXCEPT !.at = "leaves", !.ready = Present(READY)]
     \/ reader' = Waiting

ReadLeaves ==
  /\ reader.at = "leaves"
  /\ (Holds(reader.what, LastLeaf) /\ ReadOn(IF reader.ready THEN "ready" ELSE "accepted")) \/ reader' = Waiting

ReadReady ==
  /\ reader.at = "ready"
  /\ (store.files[READY] = reader.what /\ ReadOn("accepted")) \/ reader' = Waiting

Consume ==
  /\ UNCHANGED <<store, pub, mishaps>>
  /\ ReadInventory \/ ReadEntries \/ ReadLeaves \/ ReadReady \/ (reader.at = "accepted" /\ reader' = Waiting)

----------------------------------------------------------------------------
(* The rest of the world.                                                  *)

Mishap == mishaps < MaxMishaps /\ mishaps' = mishaps + 1

Begun(p) == pub[p].at # "idle"

Killed(p) == [pub[p] EXCEPT !.at = "over", !.answer = IF @ = "none" THEN "lost" ELSE @]

Kill(p) ==
  /\ Mishap /\ pub[p].at \notin {"idle", "over"} /\ pub' = [pub EXCEPT ![p] = Killed(p)]
  /\ UNCHANGED <<store, reader>>

\* Somebody moves the lock away and puts another in its place.
Substitute ==
  /\ Mishap /\ store.lock \in Publishers
  /\ store' = [store EXCEPT !.lock = "stranger", !.foreign = TRUE]
  /\ UNCHANGED <<pub, reader>>

\* The lock and the staging directories may come back, or not.
PowerLoss ==
  /\ Mishap /\ reader' = Waiting
  /\ pub' = [p \in Publishers |-> IF Begun(p) THEN Killed(p) ELSE pub[p]]
  /\ \/ ~ store.firm /\ store' = [Nothing EXCEPT !.lost = TRUE]
     \/ \E files \in [Files -> UNION {store.may[f] : f \in Files}],
           locks \in SUBSET {p \in Publishers : Begun(p)} :
          /\ \A f \in Files : files[f] \in store.may[f]
          /\ store' = [Nothing EXCEPT
               !.made = store.made, !.firm = TRUE, !.files = files, !.may = [f \in Files |-> {files[f]}],
               !.stages = [p \in Publishers |-> IF p \in locks THEN "empty" ELSE "none"], !.lost = TRUE]

\* An operator clears away what was left, while nobody publishes.
Clear ==
  /\ \A p \in Publishers : pub[p].at \in {"idle", "over"}
  /\ store.lock # "none" \/ Staged
  /\ store' = [store EXCEPT !.lock = "none", !.stages = Nothing.stages, !.foreign = FALSE]
  /\ UNCHANGED <<pub, reader, mishaps>>

Next == (\E p \in Publishers : Publish(p) \/ Kill(p)) \/ Consume \/ Substitute \/ PowerLoss \/ Clear

----------------------------------------------------------------------------
(* What is promised.                                                       *)

Releasing == {"stage", "capture", "captured", "leave"}
Holding(p) == pub[p].at \in {"list", "write", "sync", "entry", "parent", "verify"} \cup Releasing

Whole(d, ready) == Holds(d, IF ready THEN READY ELSE Inventory)

\* A delivery is what its inventory says.  From the lock to the last await of
\* a publisher whoever lists the directory finds something that keeps it out;
\* what a consumer accepted stays whole and is one delivery, whoever resumes or
\* fails meanwhile; so does what a publisher reported, through power losses too
\* when it wrote the delivery alone (one that resumes does not sync the leaves
\* it finds); READY means the whole; and a stranger's lock is never deleted.
DeliveryIsTrue ==
  /\ \A p \in Publishers : Holding(p) => (store.lock # "none" \/ Staged)
  /\ reader.at = "accepted" => Whole(reader.what, reader.ready)
  /\ \A p \in Publishers :
       pub[p].answer = "published" /\ (pub[p].resume => ~ store.lost) => Whole(pub[p].what, pub[p].ready)
  /\ \A d \in Deliveries : store.files[READY] = d /\ ~ store.lost => Whole(d, TRUE)
  /\ store.foreign => "stranger" \in {store.lock} \cup {store.stages[p] : p \in Publishers}
=============================================================================
