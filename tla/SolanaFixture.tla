---------------------------- MODULE SolanaFixture ----------------------------
(***************************************************************************)
(* Runs of the local Solana fixture: each first reclaims what dead runs    *)
(* left, makes a private directory with a lease and a record of startup    *)
(* custody, forks a supervisor that takes the custody and spawns the       *)
(* validator, registers the validator in the lease, and in the end has it  *)
(* stopped and removes the directory.                                      *)
(*                                                                         *)
(* Runs overlap; a runner or a supervisor may be killed between any two    *)
(* awaits.  A process is known by its start time as well as its number, so *)
(* a number used again is nobody's.  An error that ends a process early    *)
(* ends it like a kill.  The writes of one record are serialized and each  *)
(* is one step, but for the lease, which is truncated first.  What the     *)
(* validator is used for, the ports (PortLeases), the stages noted in the  *)
(* record and the snapshots of the tools are left out.                     *)
(***************************************************************************)
EXTENDS Naturals, TLC

CONSTANTS Runs,
          Old,         \* a dead run of a version that kept no startup custody
          MaxStarts,   \* how often a start is tried that finds its ports taken
          MaxKills,    \* bound: how many processes are killed
          MaxFailures  \* bound: syncs and deletions that fail

FixtureAssumption ==
  /\ Old \notin Runs /\ MaxStarts \in Nat \ {0} /\ {MaxKills, MaxFailures} \subseteq Nat

\* The runs are interchangeable.
RunSymmetry == Permutations(Runs)

Directories == Runs \cup {Old}

CleanupAttempts == 2

VARIABLES place,         \* place[p]: where p's directory is
          lease,         \* its lease, if readable, and whether it names a validator
          marker,        \* its record of startup custody
          pending,       \* whether the guard file beside the record is there
          at,            \* at[p]: the await runner p stands at
          todo,          \* todo[p]: the runs p has yet to scan
          entry,         \* entry[p]: the run under hand, and what its lease said
          attempt,       \* attempt[p]: of a start, or of a cleanup
          cause,         \* cause[p]: what p stops its validator for
          known,         \* known[p]: whether p has the validator's identity
          registration,  \* registration[p]: how far registerValidator() is
          supervisor,    \* supervisor[p]: "none", "alive" or "exited"
          starting,      \* starting[p]: how far its start message is served
          stopping,      \* stopping[p]: how far terminateAndExit() is
          validator,     \* validator[p]: "none", "alive" or "stopped"
          kills, failures

files == <<place, lease, marker, pending>>
runner == <<at, todo, entry, attempt, cause, known, registration>>
processes == <<supervisor, starting, stopping, validator>>
fixtureVars == <<files, runner, processes, kills, failures>>

NoEntry == [run |-> Old, registered |-> FALSE]

Init ==
  /\ place = [q \in Directories |-> IF q = Old THEN "run" ELSE "none"]
  /\ lease = [q \in Directories |-> IF q = Old THEN "registered" ELSE "none"]
  /\ marker = [q \in Directories |-> "none"] /\ pending = [q \in Directories |-> FALSE]
  /\ at = [p \in Runs |-> "new"] /\ todo = [p \in Runs |-> {}]
  /\ entry = [p \in Runs |-> NoEntry] /\ attempt = [p \in Runs |-> 1]
  /\ cause = [p \in Runs |-> "none"] /\ known = [p \in Runs |-> FALSE]
  /\ registration = [p \in Runs |-> "none"]
  /\ supervisor = [p \in Runs |-> "none"] /\ starting = [p \in Runs |-> "idle"]
  /\ stopping = [p \in Runs |-> "no"]
  /\ validator = [q \in Directories |-> IF q = Old THEN "alive" ELSE "none"]
  /\ kills = 0 /\ failures = 0

Alive(p) == p \in Runs /\ at[p] \notin {"new", "over"}

Goto(p, await) == at' = [at EXCEPT ![p] = await]

\* A step of runner p that changes no file and nothing else of p.
Hand == <<todo, entry, attempt, cause, known, registration>>
Others == <<processes, kills, failures>>

\* Nothing is left of what a process had in hand when it ends.
End(p) ==
  /\ Goto(p, "over") /\ todo' = [todo EXCEPT ![p] = {}] /\ entry' = [entry EXCEPT ![p] = NoEntry]
  /\ attempt' = [attempt EXCEPT ![p] = 1] /\ cause' = [cause EXCEPT ![p] = "none"]
  /\ known' = [known EXCEPT ![p] = FALSE] /\ registration' = [registration EXCEPT ![p] = "none"]

Leave(p) ==
  /\ supervisor' = [supervisor EXCEPT ![p] = "exited"]
  /\ starting' = [starting EXCEPT ![p] = "idle"] /\ stopping' = [stopping EXCEPT ![p] = "no"]

----------------------------------------------------------------------------
(* startupCustodySettled() and what follows from it.                       *)

\* Without a record, or a directory to look for one in, a registered validator
\* stands for an older version's run.
Settled(q, registered) ==
  IF place[q] # "run" \/ marker[q] = "none"
    THEN registered /\ ~ (place[q] = "run" /\ pending[q])
    ELSE marker[q] = "settled" /\ ~ pending[q]

\* validateOwnedRun(): the directory is there and its lease can be read.
Valid(q) == place[q] = "run" /\ lease[q] # "none"

----------------------------------------------------------------------------
(* reclaimStale().                                                         *)

List(p) ==
  /\ at[p] = "new" /\ Goto(p, "scan")
  /\ todo' = [todo EXCEPT ![p] = {q \in Directories : place[q] = "run"}]
  /\ UNCHANGED <<files, entry, attempt, cause, known, registration, Others>>

ReadRun(p) ==
  /\ at[p] = "scan"
  /\ \E q \in todo[p] :
       /\ todo' = [todo EXCEPT ![p] = @ \ {q}]
       /\ IF Valid(q)
            THEN /\ entry' = [entry EXCEPT ![p] = [run |-> q, registered |-> lease[q] = "registered"]]
                 /\ Goto(p, "owner")
            ELSE UNCHANGED <<at, entry>>
  /\ UNCHANGED <<files, attempt, cause, known, registration, Others>>

Skip(p) ==
  /\ Goto(p, "scan") /\ entry' = [entry EXCEPT ![p] = NoEntry]
  /\ UNCHANGED <<todo, attempt, cause, known, registration>>

AuthenticateOwner(p) ==
  /\ at[p] = "owner" /\ UNCHANGED <<files, Others>>
  /\ IF Alive(entry[p].run) THEN Skip(p) ELSE Goto(p, "settled") /\ UNCHANGED Hand

CheckSettled(p) ==
  /\ at[p] = "settled" /\ UNCHANGED <<files, Others>>
  /\ IF Settled(entry[p].run, entry[p].registered) THEN Goto(p, "claim") /\ UNCHANGED Hand ELSE Skip(p)

----------------------------------------------------------------------------
(* claimRunQuarantine() and quarantineAndDeleteRun(), of a stale run or of *)
(* one's own.                                                              *)

Own(p) == entry[p].run = p

\* retryCleanup().
Retry(p) ==
  IF attempt[p] < CleanupAttempts
    THEN /\ Goto(p, "cleanup") /\ attempt' = [attempt EXCEPT ![p] = @ + 1]
         /\ UNCHANGED <<todo, entry, cause, known, registration>>
    ELSE End(p)

\* A runner that throws while it scans makes no run; a cleanup is tried again.
Throw(p) == IF Own(p) THEN Retry(p) ELSE End(p)

\* A stale run that is gone was reclaimed by another.
Lost(p) == IF ~ Own(p) /\ place[entry[p].run] # "run" THEN Skip(p) ELSE Throw(p)

CheckAgain(p) ==
  /\ at[p] = "claim" /\ UNCHANGED <<files, Others>>
  /\ IF Settled(entry[p].run, entry[p].registered)
       THEN Goto(p, IF Own(p) THEN "validate" ELSE "terminate") /\ UNCHANGED Hand
       ELSE Lost(p)

\* terminateAuthenticatedValidator(): the validator the stale lease names.
TerminateStale(p) ==
  LET q == entry[p].run
      Live == entry[p].registered /\ validator[q] = "alive"
  IN  /\ at[p] = "terminate" /\ UNCHANGED <<files, supervisor, starting, stopping, kills, failures>>
      /\ \/ ~ Live /\ Goto(p, "validate") /\ UNCHANGED <<Hand, validator>>
         \/ /\ Live /\ place[q] = "run"
            /\ validator' = [validator EXCEPT ![q] = "stopped"]
            /\ Goto(p, "validate") /\ UNCHANGED Hand

Revalidate(p) ==
  /\ at[p] = "validate" /\ UNCHANGED <<files, Others>>
  /\ IF Valid(entry[p].run) THEN Goto(p, "rename") /\ UNCHANGED Hand ELSE Lost(p)

Quarantine(p) ==
  LET q == entry[p].run
  IN  /\ at[p] = "rename" /\ UNCHANGED <<lease, marker, pending, Others>>
      /\ IF place[q] = "run"
           THEN place' = [place EXCEPT ![q] = "quarantine"] /\ Goto(p, "delete") /\ UNCHANGED Hand
           ELSE UNCHANGED place /\ Lost(p)

Delete(p) ==
  LET q == entry[p].run
  IN  /\ at[p] = "delete" /\ UNCHANGED <<lease, marker, pending, Others>>
      /\ place' = [place EXCEPT ![q] = "gone"]
      /\ IF Own(p) THEN End(p) ELSE Skip(p)

\* rm fails with some of the files gone; what is left is renamed back, and that
\* this may fail too is ignored.
DeleteFails(p) ==
  LET q == entry[p].run
  IN  /\ at[p] = "delete" /\ failures < MaxFailures /\ failures' = failures + 1
      /\ place' \in {place, [place EXCEPT ![q] = "run"]}
      /\ lease' \in {lease, [lease EXCEPT ![q] = "none"]}
      /\ marker' \in {marker, [marker EXCEPT ![q] = "none"]}
      /\ Throw(p) /\ UNCHANGED <<pending, processes, kills>>

Reclaim(p) ==
  \/ List(p) \/ ReadRun(p) \/ AuthenticateOwner(p) \/ CheckSettled(p)
  \/ CheckAgain(p) \/ TerminateStale(p) \/ Revalidate(p) \/ Quarantine(p) \/ Delete(p) \/ DeleteFails(p)

----------------------------------------------------------------------------
(* FileRunStore.create() and runLocalSolanaFixture() up to the start.      *)

Create(p) ==
  /\ at[p] = "scan" /\ todo[p] = {} /\ Goto(p, "lease")
  /\ place' = [place EXCEPT ![p] = "run"]
  /\ UNCHANGED <<lease, marker, pending, Hand, Others>>

WriteLease(p) ==
  /\ at[p] = "lease" /\ Goto(p, "custody") /\ lease' = [lease EXCEPT ![p] = "null"]
  /\ UNCHANGED <<place, marker, pending, Hand, Others>>

\* initializeStartupCustody(): nothing was started yet.
InitializeCustody(p) ==
  /\ at[p] = "custody" /\ Goto(p, "reserve") /\ marker' = [marker EXCEPT ![p] = "settled"]
  /\ UNCHANGED <<place, lease, pending, Hand, Others>>

CleanUp(p) ==
  /\ Goto(p, "cleanup") /\ attempt' = [attempt EXCEPT ![p] = 1]
  /\ cause' = [cause EXCEPT ![p] = "none"] /\ UNCHANGED <<todo, entry, known, registration>>

\* The tools, the keys, the ports, or the fork of the supervisor.
FailToStart(p) ==
  /\ at[p] \in {"reserve", "fork"} /\ CleanUp(p) /\ UNCHANGED <<files, Others>>

\* reserveStartupCustody(): the guard is there before the record is rewritten.
Reserve(p) ==
  /\ at[p] = "reserve" /\ marker[p] = "settled" /\ ~ pending[p]
  /\ Goto(p, "reserve-record") /\ pending' = [pending EXCEPT ![p] = TRUE]
  /\ UNCHANGED <<place, lease, marker, Hand, Others>>

ReserveRecord(p) ==
  /\ at[p] = "reserve-record" /\ Goto(p, "fork") /\ marker' = [marker EXCEPT ![p] = "reserved"]
  /\ UNCHANGED <<place, lease, pending, Hand, Others>>

Fork(p) ==
  /\ at[p] = "fork" /\ Goto(p, "await")
  /\ supervisor' = [supervisor EXCEPT ![p] = "alive"]
  /\ known' = [known EXCEPT ![p] = FALSE] /\ cause' = [cause EXCEPT ![p] = "none"]
  /\ UNCHANGED <<files, todo, entry, attempt, registration, starting, stopping, validator>>
  /\ UNCHANGED <<kills, failures>>

----------------------------------------------------------------------------
(* OwnedValidatorAdapter.start() and registerValidator().                  *)

Learn(p) ==
  /\ at[p] = "await" /\ starting[p] = "captured" /\ Goto(p, "register")
  /\ known' = [known EXCEPT ![p] = TRUE]
  /\ UNCHANGED <<files, todo, entry, attempt, cause, registration, Others>>

\* Only an unregistered run is registered, so no second start of a run is.  A
\* registration goes on when the runner no longer waits for it.
Truncate(p) ==
  /\ at[p] = "register" /\ registration[p] = "none" /\ lease[p] = "null"
  /\ registration' = [registration EXCEPT ![p] = "writing"]
  /\ lease' = [lease EXCEPT ![p] = "none"]
  /\ UNCHANGED <<place, marker, pending, at, todo, entry, attempt, cause, known, Others>>

Register(p) ==
  /\ Alive(p) /\ registration[p] = "writing"
  /\ registration' = [registration EXCEPT ![p] = "done"]
  /\ lease' = [lease EXCEPT ![p] = "registered"]
  /\ UNCHANGED <<place, marker, pending, at, todo, entry, attempt, cause, known, Others>>

SendAcknowledge(p) ==
  /\ at[p] = "register" /\ registration[p] = "done" /\ Goto(p, "acknowledge")
  /\ UNCHANGED <<files, Hand, Others>>

\* The acknowledgement came, and the validator outlived the first half second.
Survive(p) ==
  /\ at[p] = "acknowledge" /\ starting[p] = "acknowledged" /\ Goto(p, "running")
  /\ UNCHANGED <<files, Hand, Others>>

\* stopSupervisor(), after a failure to start, an abort or a finished run; which
\* failures are followed by a new start, a cleanup, or neither.
Stop(p) ==
  /\ at[p] \in {"await", "register", "acknowledge", "running"} /\ Goto(p, "stopping")
  /\ \E c \in {"collision", "confirmed", "unknown"} :
       /\ c = "collision" => at[p] \in {"await", "acknowledge"}
       /\ c = "unknown" => at[p] = "register"
       /\ cause' = [cause EXCEPT ![p] = c]
  /\ UNCHANGED <<files, todo, entry, attempt, known, registration, Others>>

StopConfirmed(p) ==
  /\ at[p] = "stopping" /\ supervisor[p] = "exited"
  /\ ~ (known[p] /\ validator[p] = "alive") /\ Settled(p, FALSE)
  /\ \/ cause[p] = "unknown" /\ End(p)
     \/ /\ cause[p] = "collision" /\ attempt[p] < MaxStarts
        /\ Goto(p, "reserve") /\ attempt' = [attempt EXCEPT ![p] = @ + 1]
        /\ UNCHANGED <<todo, entry, cause, known, registration>>
     \/ cause[p] = "collision" /\ attempt[p] = MaxStarts /\ CleanUp(p)
     \/ cause[p] = "confirmed" /\ CleanUp(p)
  /\ UNCHANGED <<files, Others>>

\* What cannot be shown to have stopped keeps its directory.
StopUnconfirmed(p) ==
  /\ at[p] = "stopping" /\ End(p) /\ UNCHANGED <<files, Others>>

\* cleanup(), of a run whose registered validator has exited.
Cleanup(p) ==
  LET registered == lease[p] = "registered"
  IN  /\ at[p] = "cleanup" /\ place[p] = "run"
      /\ IF Valid(p) /\ Settled(p, registered) /\ ~ (registered /\ validator[p] = "alive")
           THEN /\ entry' = [entry EXCEPT ![p] = [run |-> p, registered |-> registered]]
                /\ Goto(p, "claim") /\ UNCHANGED <<todo, attempt, cause, known, registration>>
           ELSE Retry(p)
      /\ UNCHANGED <<files, Others>>

\* A directory that is not there was removed.
CleanedUp(p) ==
  /\ at[p] = "cleanup" /\ place[p] # "run" /\ End(p)
  /\ UNCHANGED <<files, Others>>

Operate(p) ==
  \/ Create(p) \/ WriteLease(p) \/ InitializeCustody(p) \/ FailToStart(p) \/ Reserve(p)
  \/ ReserveRecord(p) \/ Fork(p) \/ Learn(p) \/ Truncate(p) \/ Register(p)
  \/ SendAcknowledge(p) \/ Survive(p) \/ Stop(p) \/ StopConfirmed(p) \/ StopUnconfirmed(p)
  \/ Cleanup(p) \/ CleanedUp(p)

----------------------------------------------------------------------------
(* validator-supervisor.ts.                                                *)

Supervising(p) == supervisor[p] = "alive"
Begin(p, step) == starting' = [starting EXCEPT ![p] = step]
Halt(p, step) == stopping' = [stopping EXCEPT ![p] = step]
Rest == <<runner, kills>>

\* The start message is served once, and not by a supervisor that closes.
ReceiveStart(p) ==
  /\ Supervising(p) /\ starting[p] = "idle" /\ stopping[p] = "no" /\ Begin(p, "acquiring")
  /\ UNCHANGED <<files, Rest, supervisor, stopping, validator, failures>>

Acquire(p) ==
  /\ Supervising(p) /\ starting[p] = "acquiring" /\ Begin(p, "acquired")
  /\ marker' = [marker EXCEPT ![p] = "acquired"]
  /\ UNCHANGED <<place, lease, pending, Rest, supervisor, stopping, validator, failures>>

\* Slip: closing is looked at when the start message comes only.
SpawnAnyway(p) == TRUE

MaySpawn(p) == stopping[p] = "no"

Spawn(p) ==
  /\ Supervising(p) /\ starting[p] = "acquired" /\ MaySpawn(p) /\ Begin(p, "spawned")
  /\ validator' = [validator EXCEPT ![p] = "alive"]
  /\ UNCHANGED <<files, Rest, supervisor, stopping, failures>>

\* The validator's identity is captured; in the end the runner knows and has
\* registered it.
Capture(p) ==
  /\ Supervising(p) /\ stopping[p] = "no"
  /\ \/ starting[p] = "spawned" /\ validator[p] = "alive" /\ Begin(p, "captured")
     \/ starting[p] = "captured" /\ at[p] = "acknowledge" /\ Begin(p, "acknowledged")
  /\ UNCHANGED <<files, Rest, supervisor, stopping, validator, failures>>

\* terminateAndExit(): asked to, on its own account, or left by its runner.
Close(p) ==
  /\ Supervising(p) /\ stopping[p] = "no" /\ Halt(p, "closing")
  /\ UNCHANGED <<files, Rest, supervisor, starting, validator, failures>>

\* stopValidator(); a child that cannot be authenticated is not signalled.
StopValidator(p) ==
  /\ Supervising(p) /\ stopping[p] = "closing"
  /\ \/ /\ Halt(p, "settling")
        /\ validator' = [validator EXCEPT ![p] = IF @ = "alive" THEN "stopped" ELSE @]
     \/ validator[p] = "alive" /\ Halt(p, "stuck") /\ UNCHANGED validator
  /\ UNCHANGED <<files, Rest, supervisor, starting, failures>>

\* updateStartupCustody(): it waits for the one that acquires the record.
Settle(p) ==
  /\ Supervising(p) /\ stopping[p] = "settling" /\ marker[p] = "acquired" /\ pending[p]
  /\ marker' = [marker EXCEPT ![p] = "settled"] /\ Halt(p, "settled")
  /\ UNCHANGED <<place, lease, pending, Rest, supervisor, starting, validator, failures>>

Clear(p) ==
  /\ Supervising(p) /\ stopping[p] = "settled" /\ pending[p]
  /\ pending' = [pending EXCEPT ![p] = FALSE]
  /\ UNCHANGED <<place, lease, marker, Rest, supervisor, starting, stopping, validator, failures>>

\* Once settled, or when there is no custody to settle.
Exit(p) ==
  /\ Supervising(p) /\ Leave(p)
  /\ \/ stopping[p] = "settled" /\ ~ pending[p]
     \/ stopping[p] = "settling" /\ starting[p] = "idle"
  /\ UNCHANGED <<files, Rest, validator, failures>>

\* The record cannot be written, or synced: it may be seen as settled all the same.
SettleFails(p) ==
  /\ Supervising(p) /\ stopping[p] = "settling" /\ marker[p] = "acquired"
  /\ failures < MaxFailures /\ failures' = failures + 1
  /\ marker' \in {marker, [marker EXCEPT ![p] = "settled"]} /\ Leave(p)
  /\ UNCHANGED <<place, lease, pending, Rest, validator>>

ValidatorExits(q) ==
  /\ validator[q] = "alive" /\ validator' = [validator EXCEPT ![q] = "stopped"]
  /\ UNCHANGED <<files, Rest, supervisor, starting, stopping, failures>>

Supervise(p) ==
  \/ ReceiveStart(p) \/ Acquire(p) \/ Spawn(p) \/ Capture(p) \/ Close(p) \/ StopValidator(p)
  \/ Settle(p) \/ Clear(p) \/ Exit(p) \/ SettleFails(p)

Kill(p) ==
  /\ kills < MaxKills /\ kills' = kills + 1
  /\ \/ Alive(p) /\ End(p) /\ UNCHANGED <<supervisor, starting, stopping>>
     \/ Supervising(p) /\ Leave(p) /\ UNCHANGED runner
  /\ UNCHANGED <<files, validator, failures>>

Next ==
  \/ \E p \in Runs : Reclaim(p) \/ Operate(p) \/ Supervise(p) \/ Kill(p)
  \/ \E q \in Directories : ValidatorExits(q)

Spec == Init /\ [][Next]_fixtureVars

----------------------------------------------------------------------------
(* Properties.                                                             *)

\* No directory is taken away while its validator runs, or by another while its
\* runner does: neither a supervisor that spawns late, nor a registration that
\* goes on, nor a deletion that was undone misleads whoever removes (210-260).
RemovedIsStopped ==
  /\ \A q \in Directories : place[q] \in {"quarantine", "gone"} => validator[q] # "alive"
  /\ \A p \in Runs : Alive(p) /\ place[p] \in {"quarantine", "gone"} => entry[p].run = p

\* An authenticated child identity lets a later invocation terminate and await a
\* validator orphaned by SIGKILL before deleting its run (README.md 22): one that
\* has read the lease that names it does not go on and leave it running.
OrphanIsTerminated ==
  [][\A p \in Runs :
       at[p] \in {"owner", "settled", "claim", "terminate"} /\ at'[p] = "scan"
         => LET q == entry[p].run
            IN  entry[p].registered /\ ~ Alive(q) /\ (q \in Runs => supervisor[q] = "exited")
                  => validator'[q] # "alive"]_fixtureVars
=============================================================================
