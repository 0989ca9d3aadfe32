------------------------------ MODULE LocalRuns ------------------------------
(***************************************************************************)
(* The two kinds of local runs, of local-evm and of the Solana fixture.    *)
(* They keep their directories and processes apart, so each runs by itself *)
(* while the other rests in its initial state.                             *)
(***************************************************************************)
EXTENDS RunLease

CONSTANTS Old, MaxStarts, MaxFailures

VARIABLES place, fixtureLease, marker, pending, fixtureAt, fixtureTodo, fixtureEntry, attempt,
          cause, known, registration, keeper, starting, stopping, validator, fixtureKills, failures

Fixture == INSTANCE SolanaFixture
             WITH lease <- fixtureLease, at <- fixtureAt, todo <- fixtureTodo, entry <- fixtureEntry,
                  supervisor <- keeper, kills <- fixtureKills

ASSUME RunsAssumption == Fixture!FixtureAssumption

FixtureSpec ==
  /\ Init /\ Fixture!Init
  /\ [][Fixture!Next /\ UNCHANGED vars]_<<vars, Fixture!fixtureVars>>

\* No directory is taken away while its validator runs, or by another while its
\* runner does: neither a supervisor that spawns late, nor a registration that
\* goes on, nor a deletion that was undone misleads whoever removes.
RemovedIsStopped == Fixture!RemovedIsStopped
=============================================================================
