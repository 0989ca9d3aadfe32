------------------------------ MODULE RunLease ------------------------------
(***************************************************************************)
(* The private directories of local-evm runs (run-lease.ts,                *)
(* run-initialization.ts, and their callers in runner.ts and process.ts):  *)
(* every run first removes what dead runs left behind, then makes a        *)
(* directory of its own, has a supervisor start an Anvil in its custody,   *)
(* and removes the directory when that has stopped.                        *)
(*                                                                         *)
(* Any number of runs overlap; runners and supervisors may be killed       *)
(* between any two awaits.  A file system call names a path, and the       *)
(* directory behind a path may have changed since it was looked at.  A     *)
(* process is authenticated by its start time as well as its number, so a  *)
(* number used again is no owner: each run here is one process.  A thrown  *)
(* error ends the process like a kill; the directory is never cleaned up   *)
(* on the way.  Only the owner's user works below the private root, and a  *)
(* file is published or replaced at once (safe-fs.ts).                     *)
(***************************************************************************)
EXTENDS Naturals, TLC

CONSTANTS Runs,      \* the runs, each a process of its own
          MaxKills   \* bound: how many processes are killed

Nobody == "nobody"

ASSUME LeaseAssumption == Nobody \notin Runs /\ MaxKills \in Nat

\* The runs are interchangeable.
RunSymmetry == Permutations(Runs)

\* A run makes its directory, and reserves the name it will move it to with
\* another, empty one.
Directories == Runs \X {"initial", "reserved"}
NoDirectory == <<Nobody, "none">>

VARIABLES path,        \* path[d]: the name of directory d
          lease,       \* lease[d]: its lease: "none", or of its run's Anvil
                       \* "null" or "registered"
          at,          \* at[p]: the await runner p stands at
          todo,        \* todo[p]: the names p has yet to scan
          entry,       \* entry[p]: what p knows of the entry under hand
          supervisor,  \* supervisor[p]: where p's supervisor stands
          anvil,       \* anvil[p]: "none", "alive" or "stopped"
          kills

vars == <<path, lease, at, todo, entry, supervisor, anvil, kills>>

----------------------------------------------------------------------------
(* Names.                                                                  *)

\* A name made by its own run; it names the run's process.
Name(kind, run) == [kind |-> kind, of |-> kind, run |-> run, inode |-> NoDirectory, by |-> Nobody]

\* A claim keeps the run and the phase of the name it replaces, and names the
\* directory claimed and the claimant.
Claim(kind, name, d, p) == [kind |-> kind, of |-> name.of, run |-> name.run, inode |-> d, by |-> p]

Gone == Name("gone", Nobody)

At(name) == {d \in Directories : path[d] = name}

NoEntry == [name |-> Gone, identity |-> NoDirectory, lease |-> "none"]

Init ==
  /\ path = [d \in Directories |-> Gone] /\ lease = [d \in Directories |-> "none"]
  /\ at = [p \in Runs |-> "new"]
  /\ todo = [p \in Runs |-> {}] /\ entry = [p \in Runs |-> NoEntry]
  /\ supervisor = [p \in Runs |-> "none"] /\ anvil = [p \in Runs |-> "none"]
  /\ kills = 0

\* authenticateProcess(); nobody is not a process.
Alive(p) == p \in Runs /\ at[p] \notin {"new", "over"}

Goto(p, await) == at' = [at EXCEPT ![p] = await]

World == <<supervisor, anvil, kills>>

----------------------------------------------------------------------------
(* reclaimStaleRuns().                                                     *)

List(p) ==
  /\ at[p] = "new" /\ Goto(p, "scan")
  /\ todo' = [todo EXCEPT ![p] = {path[d] : d \in Directories} \ {Gone}]
  /\ UNCHANGED <<path, lease, entry, World>>

\* The name under hand is left as it is, and the scan goes on.
Skip(p) ==
  /\ Goto(p, "scan") /\ entry' = [entry EXCEPT ![p] = NoEntry]
  /\ UNCHANGED <<path, lease, todo, World>>

Throw(p) == Goto(p, "over") /\ UNCHANGED <<path, lease, todo, entry, World>>

\* What comes after an entry's name and claimant were looked at.
Phase(name) == IF name.kind = "delete" THEN "delete"
               ELSE IF name.of = "initialize" THEN "claim" ELSE "read"

\* Slip: a claim is anyone's.
InitializerAlive(name) == Phase(name) = "claim" /\ Alive(name.run)

Owned(name) == Alive(name.by) \/ (Phase(name) = "claim" /\ Alive(name.run))

\* A name is looked at: what it names, whether that is what was claimed, and
\* whether its claimant, or the initializer of an unfinished run, is alive.
Inspect(p, name) ==
  /\ at[p] = "scan" /\ name \in todo[p]
  /\ todo' = [todo EXCEPT ![p] = @ \ {name}]
  /\ IF \E d \in At(name) : name.inode \notin {NoDirectory, d}
       THEN Goto(p, "over") /\ UNCHANGED entry
     ELSE IF At(name) = {} \/ Owned(name)
       THEN UNCHANGED <<at, entry>>
     ELSE \E d \in At(name) :
            /\ Goto(p, Phase(name))
            /\ entry' = [entry EXCEPT ![p] = [name |-> name, identity |-> d, lease |-> "none"]]
  /\ UNCHANGED <<path, lease, World>>

\* readReclaimLease(); a directory that is gone has nothing to reclaim.
ReadLease(p) ==
  /\ at[p] = "read"
  /\ IF At(entry[p].name) = {} THEN Skip(p)
     ELSE \E d \in At(entry[p].name) :
            /\ entry' = [entry EXCEPT ![p].lease = lease[d]]
            /\ Goto(p, IF lease[d] = "none" THEN "provisional" ELSE "leased")
            /\ UNCHANGED <<path, lease, todo, World>>

\* provisionalIsStale().
AuthenticateInitializer(p) ==
  /\ at[p] = "provisional"
  /\ IF Alive(entry[p].name.run) THEN Skip(p)
     ELSE Goto(p, "claim") /\ UNCHANGED <<path, lease, todo, entry, World>>

\* Slip: without a registered Anvil there is none to wait for.
StoppedOrNull(e) == e.lease = "null" \/ anvil[e.name.run] # "alive"

\* A null identity proves neither no spawn nor successful cleanup.
Stopped(e) == e.lease # "null" /\ anvil[e.name.run] # "alive"

\* reclaimLeasedEntry(), up to the claim.
AuthenticateRunner(p) ==
  /\ at[p] = "leased"
  /\ IF Alive(entry[p].name.run) THEN Skip(p)
     ELSE IF ~ Stopped(entry[p]) THEN Throw(p)
     ELSE Goto(p, "claim") /\ UNCHANGED <<path, lease, todo, entry, World>>

----------------------------------------------------------------------------
(* claimDirectory() and deleteClaim(): for scans and for a run's own.      *)

\* A scan goes on with the next entry; a run's own directory was its last.
Return(p) ==
  /\ Goto(p, IF entry[p].name.run = p THEN "over" ELSE "scan")
  /\ entry' = [entry EXCEPT ![p] = NoEntry]

\* Renames what the name names now; only then is it known what that was.
ClaimAs(kind, p, next) ==
  LET e == entry[p]
  IN  IF At(e.name) = {} THEN Return(p) /\ UNCHANGED <<path, lease, todo, World>>
      ELSE \E d \in At(e.name) :
             LET claim == Claim(kind, e.name, e.identity, p)
             IN  /\ path' = [path EXCEPT ![d] = claim]
                 /\ entry' = [entry EXCEPT ![p].name = claim]
                 /\ Goto(p, IF d = e.identity THEN next ELSE "over")
                 /\ UNCHANGED <<lease, todo, World>>

ClaimDirectory(p) == at[p] = "claim" /\ ClaimAs("reclaim", p, "confirm")

\* The lease of a claimed directory is compared with the one it was claimed for.
Confirm(p) ==
  /\ at[p] = "confirm"
  /\ \E d \in At(entry[p].name) :
       IF entry[p].lease \notin {"none", lease[d]} THEN Throw(p)
       ELSE Goto(p, "delete") /\ UNCHANGED <<path, lease, todo, entry, World>>

DeleteClaim(p) == at[p] = "delete" /\ ClaimAs("delete", p, "erase")

\* rm, recursively: the contents go before the directory.
Erase(p) ==
  /\ at[p] = "erase" /\ Goto(p, "remove")
  /\ lease' = [d \in Directories |-> IF d \in At(entry[p].name) THEN "none" ELSE lease[d]]
  /\ UNCHANGED <<path, todo, entry, World>>

Remove(p) ==
  /\ at[p] = "remove" /\ Return(p)
  /\ path' = [d \in Directories |-> IF d \in At(entry[p].name) THEN Gone ELSE path[d]]
  /\ UNCHANGED <<lease, todo, World>>

Reclaim(p) ==
  \/ List(p) \/ (\E name \in todo[p] : Inspect(p, name)) \/ ReadLease(p)
  \/ AuthenticateInitializer(p) \/ AuthenticateRunner(p)
  \/ ClaimDirectory(p) \/ Confirm(p) \/ DeleteClaim(p) \/ Erase(p) \/ Remove(p)

----------------------------------------------------------------------------
(* runLocalEvm(): the run's own directory.                                 *)

Initial(p)  == <<p, "initial">>
Reserved(p) == <<p, "reserved">>

Steps == <<lease, todo, entry, World>>

\* createInitializingRunDirectory().
Create(p) ==
  /\ at[p] = "scan" /\ todo[p] = {} /\ Goto(p, "publish")
  /\ path' = [path EXCEPT ![Initial(p)] = Name("initialize", p)]
  /\ UNCHANGED Steps

IsInitializing(p) == At(Name("initialize", p)) = {Initial(p)}

\* createRunLease(): no Anvil yet.
Publish(p) ==
  /\ at[p] = "publish"
  /\ IF ~ IsInitializing(p) THEN Throw(p)
     ELSE /\ lease' = [lease EXCEPT ![Initial(p)] = "null"] /\ Goto(p, "reserve")
          /\ UNCHANGED <<path, todo, entry, World>>

Reserve(p) ==
  /\ at[p] = "reserve"
  /\ IF ~ IsInitializing(p) THEN Throw(p)
     ELSE /\ path' = [path EXCEPT ![Reserved(p)] = Name("run", p)] /\ Goto(p, "promote")
          /\ UNCHANGED Steps

\* The directory moves over its empty reservation, which is gone by that.
Promote(p) ==
  /\ at[p] = "promote"
  /\ IF ~ IsInitializing(p) \/ At(Name("run", p)) # {Reserved(p)} THEN Throw(p)
     ELSE /\ path' = [path EXCEPT ![Initial(p)] = Name("run", p), ![Reserved(p)] = Gone]
          /\ Goto(p, "prepare") /\ UNCHANGED Steps

\* Tools and wallet; any of it may fail, or be interrupted, before a spawn.
FailToPrepare(p) ==
  /\ at[p] = "prepare" /\ Goto(p, "remove-own") /\ UNCHANGED <<path, Steps>>

StartSupervisor(p) ==
  /\ at[p] = "prepare" /\ Goto(p, "await")
  /\ supervisor' = [supervisor EXCEPT ![p] = "started"]
  /\ UNCHANGED <<path, lease, todo, entry, anvil, kills>>

\* The supervisor's identity message, and confirmRunAnvilRegistration().
ConfirmRegistration(p) ==
  /\ at[p] = "await" /\ supervisor[p] = "registered"
  /\ \E d \in At(Name("run", p)) : lease[d] = "registered"
  /\ Goto(p, "running") /\ UNCHANGED <<path, Steps>>

\* The run ends, fails or is interrupted, or its supervisor has: stop.
Stop(p) ==
  /\ at[p] \in {"await", "running"} /\ Goto(p, "stopping")
  /\ UNCHANGED <<path, Steps>>

\* A supervisor that does not exit in time is killed by its runner.
StopTimesOut(p) ==
  /\ at[p] = "stopping" /\ supervisor[p] \notin {"exited", "failed"}
  /\ supervisor' = [supervisor EXCEPT ![p] = "failed"]
  /\ UNCHANGED <<path, lease, at, todo, entry, anvil, kills>>

StopIsConfirmed(p) == supervisor[p] = "exited" /\ anvil[p] # "alive"

\* stopSupervisor(), and what finalizeLocalRun() does when it throws: nothing.
FinishStopping(p) ==
  /\ at[p] = "stopping" /\ supervisor[p] \in {"exited", "failed"}
  /\ Goto(p, IF StopIsConfirmed(p) THEN "remove-own" ELSE "over")
  /\ UNCHANGED <<path, Steps>>

\* removeOwnedRunDirectory(), up to the claim.
LookAtOwn(p) ==
  /\ at[p] = "remove-own"
  /\ LET name == Name("run", p)
     IN  IF At(name) = {} THEN Throw(p)
         ELSE \E d \in At(name) :
                IF lease[d] = "none" \/ (lease[d] = "registered" /\ anvil[p] = "alive") THEN Throw(p)
                ELSE /\ entry' = [entry EXCEPT ![p] = [name |-> name, identity |-> d, lease |-> lease[d]]]
                     /\ Goto(p, "claim") /\ UNCHANGED <<path, lease, todo, World>>

Run(p) ==
  \/ Create(p) \/ Publish(p) \/ Reserve(p) \/ Promote(p)
  \/ FailToPrepare(p) \/ StartSupervisor(p) \/ ConfirmRegistration(p)
  \/ Stop(p) \/ StopTimesOut(p) \/ FinishStopping(p) \/ LookAtOwn(p)

----------------------------------------------------------------------------
(* superviseAnvil() of a run's supervisor, and the run's Anvil.            *)

Rest == <<path, at, todo, entry, kills>>

SpawnAnvil(p) ==
  /\ supervisor[p] = "started"
  /\ supervisor' = [supervisor EXCEPT ![p] = "spawned"]
  /\ anvil' = [anvil EXCEPT ![p] = "alive"]
  /\ UNCHANGED <<Rest, lease>>

Unregistered(p) == {d \in At(Name("run", p)) : lease[d] = "null"}

\* registerSupervisedRunAnvil(): the lease is read and then replaced, if it is
\* still there; both want the Anvil's lease to be null.
ReadToRegister(p) ==
  /\ supervisor[p] = "spawned"
  /\ supervisor' = [supervisor EXCEPT ![p] =
       IF anvil[p] = "alive" /\ Unregistered(p) # {} THEN "registering" ELSE "failing"]
  /\ UNCHANGED <<Rest, lease, anvil>>

Register(p) ==
  /\ supervisor[p] = "registering"
  /\ IF Unregistered(p) = {}
       THEN supervisor' = [supervisor EXCEPT ![p] = "failing"] /\ UNCHANGED lease
       ELSE /\ supervisor' = [supervisor EXCEPT ![p] = "registered"]
            /\ lease' = [d \in Directories |-> IF d \in Unregistered(p) THEN "registered" ELSE lease[d]]
  /\ UNCHANGED <<Rest, anvil>>

\* Its input ends with its runner, or says stop.
Terminate(p) ==
  /\ supervisor[p] = "registered" /\ (at[p] = "stopping" \/ ~ Alive(p))
  /\ supervisor' = [supervisor EXCEPT ![p] = "finishing"]
  /\ UNCHANGED <<Rest, lease, anvil>>

\* Anvil does not listen, or a message cannot be written.
Fail(p) ==
  /\ supervisor[p] = "registered"
  /\ supervisor' = [supervisor EXCEPT ![p] = "failing"]
  /\ UNCHANGED <<Rest, lease, anvil>>

\* stopExactChild(); the exit code says whether all went well.
StopChild(p) ==
  /\ supervisor[p] \in {"finishing", "failing"}
  /\ anvil' = [anvil EXCEPT ![p] = "stopped"]
  /\ supervisor' = [supervisor EXCEPT ![p] = IF @ = "finishing" THEN "exited" ELSE "failed"]
  /\ UNCHANGED <<Rest, lease>>

ChildDoesNotClose(p) ==
  /\ supervisor[p] \in {"finishing", "failing"} /\ anvil[p] = "alive"
  /\ supervisor' = [supervisor EXCEPT ![p] = "failed"]
  /\ UNCHANGED <<Rest, lease, anvil>>

AnvilExits(p) ==
  /\ anvil[p] = "alive" /\ anvil' = [anvil EXCEPT ![p] = "stopped"]
  /\ UNCHANGED <<Rest, lease, supervisor>>

Supervise(p) ==
  \/ SpawnAnvil(p) \/ ReadToRegister(p) \/ Register(p) \/ Terminate(p) \/ Fail(p)
  \/ StopChild(p) \/ ChildDoesNotClose(p) \/ AnvilExits(p)

----------------------------------------------------------------------------

Kill(p) ==
  /\ kills < MaxKills /\ kills' = kills + 1
  /\ \/ Alive(p) /\ Goto(p, "over") /\ UNCHANGED supervisor
     \/ /\ supervisor[p] \notin {"none", "exited", "failed"} /\ UNCHANGED at
        /\ supervisor' = [supervisor EXCEPT ![p] = "failed"]
  /\ UNCHANGED <<path, lease, todo, entry, anvil>>

Next == \E p \in Runs : Reclaim(p) \/ Run(p) \/ Supervise(p) \/ Kill(p)

Spec == Init /\ [][Next]_vars

----------------------------------------------------------------------------
(* Properties.                                                             *)

TypeOK ==
  /\ \A d \in Directories : path[d].inode \in Directories \cup {NoDirectory}
  /\ lease \in [Directories -> {"none", "null", "registered"}]
  /\ supervisor \in [Runs -> {"none", "started", "spawned", "registering", "registered",
                              "finishing", "failing", "exited", "failed"}]
  /\ anvil \in [Runs -> {"none", "alive", "stopped"}]
  /\ kills \in 0 .. MaxKills

\* As long as an Anvil is alive the directory of its run is there with its
\* lease, whoever was killed, scans or removes: it is the only record that
\* leads to the process (75-78, 177-180).
AliveIsInCustody ==
  \A p \in Runs : anvil[p] = "alive" =>
    path[Initial(p)] # Gone /\ lease[Initial(p)] # "none"

\* Nobody renames or removes what a live run has made, from the first mkdtemp
\* until the run itself claims it: not its initializing directory, not its
\* reservation, not its promoted directory.  And no two live processes delete the
\* same directory, although claims of killed processes are taken over.
OneOwner ==
  \A p \in Runs :
    /\ at[p] \in {"publish", "reserve", "promote"} => path[Initial(p)] = Name("initialize", p)
    /\ at[p] = "promote" => path[Reserved(p)] = Name("run", p)
    /\ at[p] \in {"prepare", "await", "running", "stopping", "remove-own"} =>
         path[Initial(p)] = Name("run", p)
    /\ \A q \in Runs : p # q /\ {at[p], at[q]} \subseteq {"erase", "remove"}
                        => entry[p].identity # entry[q].identity

\* "a later run reclaims a registered run after runner SIGKILL"
\* (runner.integration.test.ts 115): the directory of a dead run whose Anvil
\* was registered and has stopped never has a name every later scan throws at.
DeadRunsAreReclaimable ==
  \A p \in Runs :
    /\ at[p] = "over" /\ lease[Initial(p)] = "registered" /\ anvil[p] = "stopped"
    => path[Initial(p)].inode \in {NoDirectory, Initial(p)}
=============================================================================
