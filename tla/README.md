# A verification development for the AGTMAI token and its tooling

This directory models the repository's own logic in TLA+: the grant and reserve
contracts, the journals and reports of the testnet CCIP tooling, the custody
of local EVM and Solana runs, and the scripts that keep files and processes (publication of
plans and tools, supervised commands, rollback proofs). TLC checks every model on
a small instance; TLAPS proves the theorems of eight modules for every value of
the constants.

- Check a model: `tlc -config MC_GrantReserves.cfg MC_GrantReserves.tla`
- Check the proofs of a module: `tlapm TransactionJournalsProofs.tla`
- `PROJECT.json` lists the runs, the source lines of every definition, the
  mutants that show each property can fail, the hazards and the theorems.

Numbers in comments, such as `(161, 167-168)`, are lines of the source file the
module's header names.

## 1. The system

### On chain: `src/contracts/evm`

**Token** (`AGTMAIToken`, `AGTMAICCIPToken`). State: an ERC-20 ledger of fixed
supply. Its constructor takes a sorted list of allocations, checks it and sums
it in *unchecked* arithmetic in one pass, and mints in a second. It is correct
when it accepts exactly the well-formed lists that add up to the declared supply
and then mints exactly those. After that only transfers move balances.

**GrantAccounting** (library). State: one grant: terms, released, funded or
cancelled, the entitlement frozen by a cancellation. Operations: `initialize`,
`release`, `cancel`, `entitlement`. Its caller supplies the time and the
amounts. Hard: rounding (the curve `floor(A*x/d)` is computed in two halves to
stay within 256 bits), calls in any order, a time that goes backwards. Correct
when the curve is the floor it claims to be, nothing is ever released beyond
the entitlement, and released, owed and refunded amounts make up the allocation.

**GrantVault**. State: a grant, its parties and its tokens. `fund` (by the
reserve, once, before accrual), `release` (by the beneficiary, everything owed),
`cancel` (by the controller, team grants only, pays the unvested rest back).
Every one calls the token in the middle, which may run anybody's code, keep a
fee, return false or revert. Correct when the vault always holds what it owes,
the ledger says what really moved, and what is owed can always be claimed.

**PurposeReserveVault**. State: an array of outflow checkpoints. `transferOut`
is limited to a cap in any rolling window; the expired prefix is found by binary
search. Correct when no window sees more than the cap leave, whatever the token
does, and what `availableOutflow` offers `transferOut` accepts.

**ReserveController** creates, funds and may cancel contributor vaults; its
rolling limit counts *gross* commitments, which a refund must not give back.
**FounderGrantReserve** creates one vault for three percent of the supply, funded
by anybody's call. **GrantCalendar** accepts only schedules whose dates are
Gregorian anniversaries, with one of two conventions for 29 February.

The contracts interact by calls: controllers and reserves create vaults, fund
them by `transferFrom`, and receive refunds through the token.

### Off chain: `src/tooling/testnet-ccip`, `src/packages`

**EVM transaction journal** (`evm-journal.ts`, `evm-journal-file.ts`). State: a
journal file with one record (intent, signed transaction, phase), its lock file,
and each process's progress through `runJournal`. The phases go signed,
submitting, submitted, succeeded or reverted; each is made durable by
write-temporary, fsync, rename, fsync-directory. Hard: a kill between any two
awaits, a power loss that takes renames back, a broadcast whose answer is lost,
two processes. Correct when one intent leads to at most one send.

**Solana set-up** (`solana-transaction-journal.ts`, `solana-setup-journal.ts` and the
steps on top of them). State: one journal per operation of a fixed sequence (mint,
pool, registration, configuration). The engine is that of the EVM journal with
other reasons to stop: a blockhash expires, forks are dropped until a transaction is
finalized, what an operation builds on is read before signing and again before the
broadcast. Correct when an operation is sent once, after what it builds on is final.

**Forward transfer** (`transfer-evm-forward.ts`, `evm-forward-journal.ts`). State: a
pair of bound journals, one of an approval, one of a send, of consecutive nonces.
Every run decides anew, from both journals and the chain, what is next. Hard: an
allowance read from a block that is reorganized away; an approval that is decided
not to be needed after all, whose nonce the send then waits for. Correct when every
send finds its allowance and every nonce below it is used.

**EVM observation** (`observe` in `evm-rpc.ts`). No state; up to seven reads whose
answers come from different nodes of a chain that goes on and reorganizes. The
journal and the custody run act on its verdict: "not-found" is what permits a
broadcast, "final" what ends a journal.

**Custody run** (`custody-run.ts`, `custody.ts`). State: the run record (current
operation, completed receipts, failure). Each call selects the next operation of
a founder's and a team's grant from a finalized snapshot, journals it, and
records its proof. Hard: it forgets everything but its record at any await, and
the snapshot lags. Correct when nothing is repeated, funding precedes vesting, and
"complete" means complete.

**Message status and reconciliation** (`packages/domain`). Pure: observations of a
CCIP message give its status and pending amount (`message.ts`); two ledgers and
the pending amounts give the backing (`supply.ts`). Observations arrive late,
twice, out of order, and are undone by reorganizations.

**Transfer status report** (`transfer-status.mjs`, three layers). Inspects every
transfer of an inventory on both chains, takes a snapshot of both ledgers,
inspects again and reconciles. Hard: no read sees both chains.

### Off chain: `src/tooling/local-evm`

**Run custody** (`run-lease.ts`, `run-initialization.ts`, `process.ts`,
`runner.ts`). State: directories below a private root with identity and lease
files; a runner, a supervisor and an Anvil per run. Every run reclaims what dead
runs left (claim by rename, compare inodes, delete), prepares a directory of its
own (initialize, reserve, promote), and removes it at the end. Hard: any number
of runs overlap, all by path name, each killed anywhere.

### Off chain: `src/tooling/local-solana`

**Solana fixture runs** (`filesystem.ts`, `startup-custody.ts`, `validator-supervisor.ts`,
`process.ts`, `runner.ts`). State: a directory per run with its lease, a record of
startup custody and a guard file beside it; a runner, a supervisor and a validator.
The guard is made before the supervisor is forked, which acquires the record before
it spawns and settles it after its child has stopped; only a settled run may be
removed. Hard: runner and supervisor die or time out independently, the registration
truncates the lease in place and goes on when nobody waits for it, a deletion that
fails is renamed back. Correct when no directory is removed while its validator runs.

**Port leases** (`ports.ts`). State: one directory per port block with a marker of whose
it is. A process reclaims stale blocks (rename to a name of the lease's token, compare
inodes, delete), makes a directory, marks it and tries the ports. Hard: renames
and creations by path, of several processes. Correct when a block is one process's.

### Off chain: plans, tools and proofs

**Owned output** (`safe-output.ts`, `native-no-replace.ts`). State: a staging
directory, its handles, and the marker READY. A bundle is written leaf by leaf, the
directory is renamed to its target without replacing anything, and READY is renamed
into it when that is durable. Hard: the paths may name something else between any two
awaits, the native helper may perform a rename and lose its answer, power may fail.
Correct when READY means a complete published bundle and every answer stays true.

**Genesis delivery** (`deployment-store.ts` of `packages/contexts/supply`). State: one directory with
leaves, an inventory of their digests, READY, and a lock file. Leaves are written in place; a
resumed publication takes what it finds when it is what it would write; the lock is
renamed into a private staging directory before it is deleted. Consumers list and read
without a lock. Hard: a consumer overlaps any await of a publisher, a release, or a failed
attempt; the lock may be another's by the time it is deleted. Correct when whoever lists
during a publication is kept out and what is accepted or reported stays one whole delivery.

**Toolchain publication** (`toolchain-publication.mjs`). State: the installation in
use, the prepared one, a backup directory with its snapshot. Four renames replace the
one by the other; every call may throw, in the rollback too. Correct when no
part of the version in use is ever lost.

**Command supervision** (`subreaper.c`, `toolchain-execution.mjs`, the observer). State:
a tree of processes, what the observer records, the helper's report. Hard: any of them
may be killed at any moment, process numbers are reused, the last wait races the
deadline. Correct when a custody that is not called uncertain left no process.

**Rollback proof** (`removal-quarantine.mjs`, `cleanup.mjs`, `proof-slice.mjs`). State: the
paths to remove, the quarantine, the recorder of commands, the workspace's snapshot.
Hard: a peer changes the paths between a check and the rename it is for. Correct when
only what was captured is removed and nothing that changed is deleted.

### How they interact

The custody run drives the vaults through transaction journals, which act on
`observe`; the forward transfer and the set-up drive journals of their own. The
transfer report feeds what it saw on both chains to `packages/domain`. The rollback
proof runs its commands under the supervision and believes its verdict on custody;
the toolchain's publication deletes its backup with the proof's cleanup, and the
helper of the owned output is the same no-replace rename. The local run custody is
independent of the rest. Everything else is listed
under "What is not modelled".

## 2. The modules

| Module | Models | Used by |
| --- | --- | --- |
| `GrantAccounting` | the library, as operators on a grant | all grant modules |
| `GrantLedger` | an arbitrary wrapper that calls the library | `ContractLibraries` |
| `RollingWindow` | checkpoint arrays and the rolling total | reserve modules |
| `CheckpointSearch` | the binary search, one iteration a step | `ContractLibraries` |
| `GrantCalendar` | the year search and the anniversaries | `ContractLibraries` |
| `TokenGenesis` | the token's constructor, one loop iteration a step | `ContractLibraries` |
| `ContractLibraries` | the four above, side by side | run `libraries` |
| `VestingPromise` | **abstract**: what a vault promises its parties | `GrantVault` |
| `GrantVault` | one vault and a hostile token | `GrantReserves` |
| `PurposeReserveVault` | one purpose reserve and a hostile token | `GrantReserves` |
| `ReserveController` | the controller and the vaults it creates | `GrantReserves` |
| `FounderGrantReserve` | the founder's reserve and its vault | `GrantReserves` |
| `GrantReserves` | the two above, `PurposeReserveVault` and `GrantVault`, side by side | run `reserves` |
| `JournalFile` | the durable file, its lock, power losses | `EvmJournal` |
| `EvmJournal` | `runJournal` in several processes | `TransactionJournals`, run `journal_live` |
| `SolanaSetup` | the set-up's sequence of journals over forks | `TransactionJournals` |
| `TransactionJournals` | the two above, side by side | run `journal` |
| `CustodyRun` | `runCustody` over the chain it drives | `ChainTools` |
| `ForwardTransfer` | pairs of approval and send of one account | `ChainTools` |
| `MessageProjection` | `message.ts` and `supply.ts`, as operators | `ObservationLog`, `TransferStatus` |
| `ObservationLog` | how observations of a message arrive | `ChainTools` |
| `TransferStatus` | the report over two moving chains | `ChainTools` |
| `EvmObserve` | `observe`, one read a step | `ChainTools` |
| `ChainTools` | `CustodyRun`, `ForwardTransfer`, `ObservationLog`, `TransferStatus` and `EvmObserve`, side by side | runs `chains`, `custody_preflight` |
| `RunLease` | directories, leases, supervisors and Anvils of runs | runs `lease`, `lease_wedged` |
| `SolanaFixture` | directories, leases, startup custody, supervisors and validators of runs | `LocalRuns`, run `orphan` |
| `LocalRuns` | `RunLease`, and beside it `SolanaFixture` | run `fixture` |
| `PortLeases` | the leases of port blocks, by path and inode | `ToolingCustody`, run `ports_shared` |
| `OwnedOutput` | planners that publish a bundle under one name | `ToolingCustody` |
| `DeliveryStore` | publishers and a consumer of one delivery directory | `ToolingCustody` |
| `ToolchainPublication` | an installation over the one in use, and its rollback | `ToolingCustody` |
| `ProcessCustody` | a supervised command: target, observer, helper, invoker | `ToolingCustody` |
| `RollbackProof` | removal into the quarantine, commands, cleanup | `ToolingCustody` |
| `ToolingCustody` | the five above and `PortLeases`, side by side | run `tooling` |
| `CurveProofs` | **theorems** about the curve, that the library keeps a grant sound, and what a sum by folding is | the contracts' proofs |
| `ContractLibrariesProofs`, `GrantVaultProofs`, `GrantReservesProofs` | **theorems** about the contracts | |
| `TransactionJournalsProofs`, `ChainToolsProofs` | **theorems** about the testnet tooling | |
| `LocalRunsProofs` | **theorems** about the directories of local runs, of both kinds | |
| `ToolingProofs` | **theorems** about installations, commands, rollback proofs, bundles, deliveries and port blocks | |

"Side by side" means that the modules share no state. The composition picks one
in its initial state (`running`) and runs it alone with the others at rest, so one
TLC run covers the sum of their states instead of the product; no interaction is
lost, because there is none (`LocalRuns` runs the fixture; `RunLease`, which it extends, has runs of its own). Where one does rely on another, the promise stands
between them: `RollbackProof` takes of a command what `CustodyIsTrue` says and no more.
`MC_*` modules hold the values of constants only.

### State and actions

**Contracts.** A call is one action: its guard is the conjunction of the checks
that would revert. A reverted call changes nothing and has no action of its own,
except where the contract had already given control away (below).

**`GrantVault`, `PurposeReserveVault`.** A call of the token in the middle of an
operation splits the operation in two: the part before it (`Fund`, `Release`,
`Cancel`, `TransferOut`) pushes a *frame* that remembers what the EVM restores on a
revert, then the token acts (`TokenMoves`, `TokenReturnsFalse`, `TokenReverts`, and
any further vault call, nested, or outside transfer), and `Finish` checks the
balances and returns. A failing check is `Rollback`. Time stands still inside.
`Committed` is what an observer of finished transactions sees.
`vault` and `bal` are the contract's storage and the token's; `flow` (tokens that
really changed hands) is bookkeeping for properties.

**`ReserveController`, `FounderGrantReserve`.** The token is the repository's own
(OpenZeppelin ERC-20, exact, no hooks), so a transaction is one action.

**`EvmJournal`.** `at[p]` is the await at which process `p` stands, `record[p]` the
record its local variable holds. One action per outcome of an await:
`ReadExisting`/`ReadUnsubmitted`/`ReadNothing`, `Sign`, `WriteRenames`/`WriteUnsynced`/`WriteSyncs`/
`WriteSyncThrows`, `ObserveUnresolved`/`ObserveNotFound`/`ObserveFinal`, `Broadcast`,
`BroadcastAnswered`/`BroadcastUnresolved`, `Return`. The environment: `NetworkAccepts`,
`ChainFinalizes` (a broadcast may be lost for ever or succeed although its answer is
lost), `Crash` (at any await, leaving the lock behind), `PowerLoss` (every rename
since the last directory sync may be lost), `Reconcile` (an operator removes the
orphaned lock). `JournalFile!survivors` is the set of records a power loss may leave.

**`SolanaSetup`.** `journals[k]` is the file of operation `k` as in `JournalFile`, `tools[p]`
where a process stands, `handed[k]` what reached the network, `ledger[k]` the execution in
the current fork, which `Drop` takes back until `Finalize`. "Unknown", "expired" and
a failed precondition are one action, `ObserveUnresolved`: the code treats them alike.
`ReadPredecessor`/`ReconcilePredecessor` is the reconciliation of the journal before.

**`ForwardTransfer`.** `phase` is the durable phase of each of a pair's journals, `place`
the await, `executed` the blocks with what the allowance made of them. `Begin`,
`Approved` and `Prepared` are the decisions of the composition, `Sign` to `FindFinal`
the journal engine. Endpoints may be behind, but not behind finality. The nonces
of different pairs must not overlap (`PairsAssumption`): that choice is the operator's.

**`CustodyRun`.** `at` is the await; `current`, `intent`, `completed`, `failure` the run
record, `journal` the phase of the current operation's journal, `chain` the token and the two
vaults, `since`/`now` the range of instants a snapshot may show. `Stop` forgets
everything but the record. Operations take effect through `Execute`; `OutsideRelease`
is a beneficiary acting alone. The lock of `ports.exclusive` is taken as given.

**`EvmObserve`.** `views` is the history of the network's views; an answer is computed
from the current view or, `MaxStale` times, from an earlier one. Each of the seven
reads is an action; `Fault` is any RPC error.

**`ObservationLog`.** `placed`, `final`: where the transactions are; `true`: the observations
that have been true; `Deliver` appends any of those, at any time, any number of
times; `Replace` is the canonical replacement that `message.ts` 84-88 demands of adapters
after a reorganization.

**`TransferStatus`.** `eth`, `sol`: histories of finalized blocks, each with its ledger; a
read is answered from any prefix. `InspectBefore`, `ReadEthereum`, `ReadSolana`,
`RepeatSolana`, `InspectAfter`, `Finish` are the report's phases.

**`RunLease`.** `path[d]` is the name of directory `d` (a record of what the code
encodes in names: kind, run, claimant, inode), `lease[d]` its lease file, `at[p]` the
await of runner `p`, `supervisor[p]`, `anvil[p]` its children. `Reclaim` is the scan
(`List`, `Inspect`, `ReadLease`, `AuthenticateRunner`, `ClaimDirectory`, `Confirm`, `DeleteClaim`,
`Erase`, `Remove`), `Run` the run's own life, `Supervise` the supervisor's, `Kill` the
death of either. Operations name *paths*: the directory behind one may have changed
since it was looked at, which is the point of the model.

**`SolanaFixture`.** `place[q]`, `lease[q]`, `marker[q]`, `pending[q]` are run `q`'s directory, lease,
record and guard; `at[p]` the await of runner `p`, `registration[p]` how far its rewriting of the
lease is (a promise of its own), `starting[p]` and `stopping[p]` the two promises of its
supervisor. `Reclaim` is the scan and, from `claim` on, also the removal of one's own run;
`Operate` the run's own life; `Supervise` the supervisor's; `Kill` the death of either, to
which an error that ends a process early is equal. `Old` is a dead run of a version
without startup custody, the only kind whose validator the scan terminates.

**`PortLeases`.** `path[l]` is the name of the directory made by a process for a block, and
`marker[l]` what its marker says; `Moves` is `rename`, which replaces an empty directory.
One action per await of `allocate`, `release` and the reclamation they share; `purpose[p]`
is what that is part of, and says where it returns or throws to. A process ends (`over`) or
dies (`dead`); either makes its leases stale. `Init` leaves any of a dead process's behind, or none.

**`OwnedOutput`.** `dirs[d]` is where the directory made by planner `d` is, what is in it,
and what of both a power loss may leave (`places`, `kept`, `markers`). One action per
await of `claim`, `publish`, `finalizeReady` and `close`, each of which may throw. The others
occupy, archive and litter the target. `answer[p]` is what the caller is told.

**`DeliveryStore`.** `store` is the directory: what each file holds (`files`), what a power
loss may leave of it (`may`), the lock, and the staging directories of releases. `pub[p]`
is the await publisher `p` stands at with its arguments, `reader` the consumer's.
Creating a file, its sync and its directory's sync are three actions, each of which may
fail; `Throw` is the way to the `finally` clause, `End` the way past it. In the repository only
tests pass `resume`; the operator compositions the package is exported to may.

**`ToolchainPublication`.** `installed[x]` is the version at the path of part `x`,
`backups[n]` the backup of attempt `n` with its snapshot and handle. One action per rename
or deletion, in the code's order, with success, failure before and failure after
the effect; `Kill` at any step; the next attempt begins from what it finds.

**`ProcessCustody`.** `tree` holds the observer, the target and one child with their
parents, groups and process numbers, which are reused. `Reap`, `WaitEnds`, `Look*`,
`ReadPipe`, `Settle` are the helper's loop, `ObserverRuns` to `ObserverEnds` the
observer, `Judge` and `RemoveInvocation` the invoker. Signals of the observer and of
the invoker need no state, since any process may end at any time anyhow.

**`RollbackProof`.** `at[x]` and `slot[x]` are the objects at path `x` and in its quarantine
slot; `changed` and `drift` what others changed since the plan and since the snapshot. `Works` is a
peer, who reaches the paths and not the quarantine; `WorksOnMoved` a process that
survived a command and holds descriptors.

## 3. What the runs check

| Run | Question | Bounds |
| --- | --- | --- |
| `libraries` | Do the contracts' algorithms compute what their reference definitions say? | amounts to 25, six instants, allocations 0, 1, 7, 25; checkpoint arrays to six over eight instants; days of two seconds, fourteen years around every irregularity; lists to three over a two-bit amount |
| `reserves` | Do gross limits hold under refunds; is the founder always payable; does no window see more than the cap leave, whatever the token does; does a grant vault keep its promise under a hostile one? | window 3, cap 4, three vaults, grants of 2 and 3; purpose reserve: window 2, cap 3 of 4 tokens, five instants, fee and gift 1, two nested calls; grant vault: allocation 3 of 4 tokens, accrual over five instants, the same fee, gift and nesting |
| `journal` | At most one send, never forgotten, only finality reported, in order of dependence? | two processes, two intents, two signings, two crashes or power losses; set-up: three operations, two signings each, one crash or power loss |
| `journal_live` | Is what is finalized eventually reported? | two processes, one intent, one signing, one fault |
| `chains` | Nothing repeated, funded before vesting, complete means done; does every forward send find its allowance and its nonce; is what is reported of a chain true of it? | both kinds of grant, eight instants, one release by a beneficiary; two pairs, an account at either of two nonces; three blocks, two names, six views, one stale answer; three deliveries, one reorganization; a transfer each way, five blocks, one outside movement |
| `custody_preflight` | Does the preflight run before the initial signing only? (violated) | as `chains` |
| `lease` | Is an Anvil always accounted for, and a live run never disturbed? | three local EVM runs, one kill |
| `fixture` | Is no directory removed while its validator runs? | two Solana runs beside an old one, two starts, one kill, one failure |
| `lease_wedged` | Can every dead run be reclaimed? (violated) | two runs, one kill |
| `ports_shared` | Is a block held by one process at a time? (violated) | three processes, one block |
| `orphan` | Is an orphaned validator terminated by a later run? (violated) | two runs, two kills |
| `tooling` | Is what the tooling says of its files and processes true, and what is in use kept? | two planners with bundles of two leaves, three events; two publishers and a consumer of deliveries of one leaf, inventory and READY, one kill, power loss or stranger; three installations of payload and wrapper; one command with a child, deadline 1, drain 2, one failed clock reading; a plan of two files and their directory, two commands; three processes that want one port block, which a dead one may have left leased |

Between them the passing runs fire every action. Why the bounds are enough:

- *Contracts.* The operators are uniform in amounts and times; what differs is
  order and divisibility: before/at/after each date, allocations that do and do not
  divide the accrual, a cap that is and is not reached, a checkpoint exactly as old
  as the window. All of these occur. `MaxAmount` is at least the largest product
  formed (`WidthAssumption`), and it is itself among the allocations.
  `MaxTime + 1` in `GrantVault` is an instant that no longer fits a `uint64`.
  Two nested calls are enough for every operation to be re-entered from
  every other, which the reentrancy flag has to refuse.
- *Journal.* The second signing is the one that must not be sent; the second
  process the one the lock keeps out; one fault interrupts a run and the other
  the recovery from it. Of the set-up's operations the third reconciles its
  predecessor and the second does not; a first has none.
- *Forward transfer.* A second pair can use up or leave behind the allowance of the
  first; the account stands at the first pair's nonce or past its approval.
- *Observation.* `observe` repeats its reads to notice one stale answer, and one is
  what it tolerates: with `MaxStale = 2`, `AnswerIsTrue` fails (both absent reads
  may be answered by the node that lags). The model keeps the limit, as a bound on
  the endpoint and not as a claim about it.
- *Transfer status.* One transfer each way is the smallest inventory in which an error of
  one hides an error of the other. `NotReported` (a constraint) stops a behaviour
  when its report is given. Both age limits are zero: a tick is already too late.
- *Local runs.* Two EVM runs suffice for the found defect; three allow a claim taken over
  from a killed claimant while a third scans. The second Solana run reclaims what the
  first leaves; that both a runner and its supervisor may be killed, and any number of others, is
  what the theorems of `LocalRunsProofs` add. Runs, the chain's blocks in `chains` and the processes
  and intents of `journal` are symmetric and TLC reduces by it; only safety is
  checked in those runs.
- *Tooling.* Two planners race for one name while a third directory is a stranger's;
  a third installation meets two preserved backups. One child suffices to
  outlive the target, to move to another group and to take over a process number. Of
  the two publishers the second resumes, contends or overwrites; failures of awaits are
  not counted in their one mishap. With two mishaps (`MaxMishaps = 2`) `DeliveryStore` was checked
  alone with two leaves, 2.3 million states, and passes. The third process that wants a
  port block is the one that takes it while a reclamation has moved the second's lease
  away; a second block multiplies the states by more than twenty and adds no
  interaction, blocks being independent names.

`CHECK_DEADLOCK FALSE` where the modelled system may stop: time is bounded, a
report is done, all runs and tools are over. The journal runs check deadlock.

### The properties

*Libraries.* `ClaimNeverUnderflows`: no order of calls and times lets a later claim
underflow. `AllocationSplit`, `EntitlementOnlyFreezes`. `FindsBoundary`
and `Terminates` (the search returns the boundary and ends; weak fairness of the loop).
`SchedulesAreCalendarDates`: the found year, the anniversaries and `validate` agree with
a calendar of months and days. `GenesisIsDeclared`.

*Vault.* `EveryClaimIsPayable` (the vault holds what it owes, and a release that is due
succeeds), `AccountingIsPayment` (what the ledger says is what was paid,
between transactions), and **`ImplementsPromise`**: the vault refines
`VestingPromise`, with the tokens that really changed hands as the refinement mapping.
Steps inside a transaction stutter, because `Committed` is what the outermost frame
remembers.

*Reserves.* `EveryWindowWithinCap` and `EveryOutflowWithinCap` are stated over recorded
movements (as running totals by block time) and *every* window, not over a contract's
own total. `AccountIsTrue`: the
purpose reserve's checkpoints are what left it, and what it offers it accepts.
`Conservation`, `FounderIsPaid`.

*Journals.* `AtMostOneSend`; `SentIsJournaled` (in every version a power loss could
leave); `ReportsAreFinal`; `PhaseOnlyAdvances`; `FinalizedIsReported` (liveness);
`SetupSendsOnce` (all of that for every operation, and none before what it builds on).

*Custody and transfers (run `chains`).* `FundedBeforeVesting`, `CompleteMeansDone`,
`EverySendIsAccountedFor` (every send is the current operation's, a completed one, or
a recorded failure, and no operation's twice); `EverySendIsCovered`, `NoNonceGap`.

*Observations.* `AnswerIsTrue` ("final" is in the finalized chain, "not-found" was unknown),
`ReorgSticks`, `StatusIsTrue` (neither order nor repetition of deliveries matters, and a message is
reported settled only by one settlement that arrived), `ReportIsTrue` (the reported backing is the true one, and fresh when reported).

*Local runs.* `AliveIsInCustody`; `OneOwner` (a live run keeps its directory, and none is
deleted by two at a time); `RemovedIsStopped`.

*Tooling.* `CustodyIsTrue`, `SignalledOnce`, `OnlyCapturedIsRemoved`, `ReadyIsTrue` (of a
bundle), `DeliveryIsTrue` and `InstallationIsKept`, as section 1 says what is correct of
each; `SerializedWhileNoneDies` (as long as no process dies, no two are given a block and each
lease stays in its place; with a death that is false, see `ports_shared`).
One limit was found: a resumed delivery does not sync the leaves it takes over, so what
it reports survives a power loss only if the earlier attempt synced them;
consumers compare digests and would refuse it. `DeliveryIsTrue` says so.

### Fairness

Only `CheckpointSearch` (a loop runs on) and `EvmJournal!FairSpec` state any. A step
of a journal run ends because every RPC call has a timeout (`evm-rpc.ts` 96) and the
rest is local: weak fairness of `Step(p)`. `FinalizedIsReported` further assumes an
operator who removes orphaned locks (`WF(Reconcile)`) and keeps running the tool (`SF` of
`Begin` in execute mode), and a disk and an endpoint that do not fail every single time
(`SF` of `ReadExisting`, `WriteRenames`, `WriteSyncs`, `ObserveFinal`). None of these is
in the code, which only leaves the transaction unresolved and waits for the next
run. No fairness is assumed of the network or of mining. Of the supervised command
no liveness is stated: the helper's drain (five seconds after a deadline of
`timeoutMs` and one) outlasts the invoker's watchdog (`timeoutMs` and 3.25 seconds),
which bounds it from outside by a kill; the model's helper may be killed at any time.

## 4. What the four violation runs show

**`custody_preflight`** (code and comment disagree). `custody-run.ts` 23 says that
`preflight` "Runs before initial signing only". Line 103 calls it whenever the mode is
`next` and the journal is absent *or* `signed`: a run that stops after signing and
before submitting runs it again when it resumes. Checking again before the first
send is harmless, arguably better; the comment is what is wrong.

**`lease_wedged`** (a defect). `claimDirectory` (`run-lease.ts` 345) renames whatever its
path names and compares inodes only afterwards; `publishInitializedRun`
(`run-initialization.ts` 41) replaces the inode behind that path. A scan that reads
the reservation, is overtaken by the promotion and the death of its runner, and then
claims, renames the promoted directory under the reservation's inode. The
comparison then throws and leaves it there, and `reclaimStaleRuns` (133) throws at that
name in every later run. `runner.integration.test.ts` 115 promises that "a later run
reclaims a registered run after runner SIGKILL".

A scan that throws at a dead run whose lease is still null is *not* reported: it is
deliberate (`lease-deletion.test.ts` 13, 26), and `DeadRunsAreReclaimable` excludes it.

**`ports_shared`** (a defect of the same kind). `quarantineAndDelete` (`ports.ts` 149-171)
validates a stale lease, renames whatever the block's path names by then, and compares
inodes afterwards. Another process has meanwhile deleted the stale lease and taken
the block: its live lease is renamed away, the path is free, a third process takes
the block, and the rename back (161) fails and is ignored. Two processes were then
given the same ports; "Cross-process lease directories serialize every fixture-owned
port block" (25). The second to bind its ports finds them taken. Deletion too goes by
path, so the displaced lease is not safe either: with seven processes or more, two stale leases of one
block renamed, mistaken and renamed back put it where a process that compared inodes
earlier deletes it. All of this takes a stale lease to reclaim: `SerializedWhileNoneDies`
is the sentence with that hypothesis, and a theorem.

**`orphan`** (code and documentation disagree). `reclaimStale` (`filesystem.ts` 60) skips
every run whose startup custody is not settled, and only the supervisor that acquired
it settles it, after its child has stopped. A validator whose runner and supervisor were both
killed is therefore never terminated by a later run, although its identity is in the
lease; `README.md` 22 of the fixture says that it is. The test of that sentence
(`filesystem.test.ts` 419) starts its validator without reserving startup custody.
Retaining the run is what the comments of `startup-custody.ts` intend.

## 5. What is proved

Each theorem holds for all values of the constants that satisfy the named
assumptions, which TLC evaluates in the runs. Every component runs alone in its composition,
so a theorem about the composition is one about the component.

**`CurveProofs`** (from `WidthAssumption`: the square of the latest time fits an amount,
as that of a `uint64` fits a `uint256`). `CurveNeverOverflows`: the curve in quotient and
remainder form stays within the width for every allocation and interval. `AccruedIsFloor`: it
is the floor it claims to be. `CurveMonotone`: the entitlement never falls as time passes. All
reduce to lemmas on `\div` and `%`. Further lemmas say what `initialize`, `release` and
`cancel` keep of a sound grant; the vault, the founder's reserve and the custody run rest on them.

The prover cannot instantiate an induction theorem, so what a fold of the community modules computes is
proved here by the least counterexample (`LeastNumber`, `SmallestSet`): a fold takes out a chosen
element each time (`SumsByChoiceExists`), its value is the same whichever is taken out
(`SumsByChoiceSums`), so a sum is that of its parts (`SumsAgree`, `PartOfSum`, `SumWithout`).

**`ContractLibrariesProofs`** (`WidthAssumption`, `ProposalsAssumption`, `HistoriesAssumption`,
`LibrariesAssumption`: a day has a length, starts are times, the genesis lists are lists of allocations).
`LedgerInvariant` proves `LedgerInv` inductive: the grant is typed; its terms were validated; what
was released is at most the entitlement *at the last recorded transition*; and a cancelled
grant's refund is the rest of its allocation. The third part is the strengthening: "released is at
most the entitlement now" alone is not preserved, because the wrapper chooses the time;
monotonicity of the curve and the library's refusal of earlier times carry it forward.
`LedgerClaimSafe`, `LedgerSplitsAllocation` and the action property `LedgerFreezes` follow.
`SearchInvariant` proves that the binary search stays inside the array and that `Bracket` holds:
everything below `low` has expired and nothing from `high` on has. `SearchFindsBoundary`
follows because an ordered array has only one boundary.
`TokenIsAsDeclared` rests on `GenesisInv`: up to the allocation at hand ids are strictly sorted and recipients
differ, the sum is the true one (a sum that wrapped is less than the one before, which is refused),
and in the second pass each recipient holds the share of the allocations passed. `SchedulesAreDates` rests on `YearInv`,
by which the day sought stays between the first days of the two years of the search, and on lemmas about the calendar
itself: which years are leap years under the convention the library counts in, that the months of a year
begin where a calendar of months and days says (`MonthsBegin`, `MonthOfDay`), that moving a date to
another year moves its day by the offset the library computes (`MovingKeepsTheDate`), and that a schedule's two
anniversaries name one date under either convention for 29 February (`ConventionsAgree`).

**`GrantVaultProofs`** (also `BindingAssumption`: the vault's parties, and the grant it is
deployed with). `VaultInvariant` proves `VaultInv` inductive for any depth of nested calls under
a hostile token. Between transactions the state is settled; within one, every frame of the stack
is one token call away from a settled state, which its saved storage and history determine,
and a callback's frames lie on top of the frame that made the call. Then
`ClaimsArePayable`, `PaymentIsAccounted`, and the refinement `VaultImplementsPromise`, step by step:
the outermost frame's commit is one of `VestingPromise`'s actions, everything else a stutter.

**`GrantReservesProofs`** (also `PolicyAssumption`, `ReservesAssumption`). The rolling limits. The cap
by itself is not inductive; what is: checkpoints are ordered and not of the future, and
every cutoff has a boundary between expired and live ones up to which they sum to what really moved
(`ControllerInvariant`, `VaultInvariant`, the latter with the frame of a token call). Whatever
window is asked about, its start is such a cutoff: `CommitmentsAreCapped`, `OutflowsAreCapped`,
`VaultAccountIsTrue`. `FounderInvariant` ties the founder's balance to what the grant has not
released: `FoundersArePaid`. `TokensAreConserved` rests on `TokensInv`: each vault holds exactly what its
grant still owes, so a release or a cancellation moves what it takes out of a vault, and the sum over the vaults
changes by that. The vault's theorems are carried over by instantiation.

**`TransactionJournalsProofs`** (from `JournalAssumption`, `NoRecordAssumption` and `JournalsAssumption`).
`JournalInvariant` proves `IInv` inductive for any number of processes, intents,
signings and faults. Its parts: `OwnerRuns` (only the lock's owner is at an
await), `OneTransaction` (every record a power loss could leave
has the intent and the signed transaction of the file), `InStep(p)` (what the running process
holds in memory matches the file and the await it stands at), `NothingSent` or
`SentIsJournaled` (a send presupposes a durable record past signed), and `ChainAgrees`
(terminal records say what the chain says). The invariants of the run are not
inductive by themselves: that a process about to broadcast is the only one, and that
its record is durable, is what `InStep` and `OneTransaction` add.
`JournalTyped`, `JournalSendsOnce`, `JournalKnowsWhatWasSent`, `JournalReportsFinal` and
`JournalPhasesAdvance` (an action property) follow.
`SetupInvariant` is the same argument for each operation of the Solana set-up (`ToolInStep`,
`OperationSound`), with two additions: tools that run are at operations of their own (`Locked`), so
a step disturbs one operation only; and what is final stays as it is (`FinalStays`), so a record
signed on top of it stays true, whatever forks are dropped. `OperationsAreSentOnce` follows.

**`ChainToolsProofs`** (from `RunAssumption`: the grants of a run are distinct and their terms
valid, and `ToolsAssumption`). `RecordInvariant` is about the run record and the journals alone:
an operation whose journal is unsubmitted was never sent, whatever a stop forgets
(`SendsAreAccountedFor`). `ChainInvariant` adds what the record says has happened on the
chain (`VestingIsFunded`, `CompleteIsDone`, for any sequence of grants and any number of claims made
outside). That a send of the forward transfer is covered when it executes is decided when it is signed, so
`ForwardInvariant` (under `PairsAssumption`: the nonces of pairs do not overlap) carries what the process knew
then through its awaits, stops, journals and reorganizations: a pair that signed an approval signs
its send only after that is final; a pair that did not can send only at the account's first
nonce, and then nothing has touched the allowance it found (`SendsAreCovered`, `NoncesHaveNoGap`).
`AnswersAreTrue` is about `observe()`: for chains of any height and any
number of changes, if at most one answer comes from a node that is behind (`MaxStale <= 1`, a
hypothesis because the property is false without it). Its invariant `ObserveInv` says of each read
what must be so unless an earlier answer was stale: finalized prefixes only grow, so what two reads
agree on beyond the one stale answer is so now.
`StatusesAreTrue` and `ReorganizationsStick` are about `projectMessage()` and logs of any length. That
neither order nor repetition matters is a lemma about the function itself (`ProjectionIsOfTheSet`): what the loop of
`collectEvents` has collected after each turn is what the *set* of the observations so far makes, those of the
highest finality of each event and an error when two differ. That a settled message has arrived is `LogInv`: an
observation is of another message or names what the chains had, and one of finality is of what is final
still, or a reorganization has been observable since.
`ReportsAreTrue` is about the supply report, for any number of transfers, blocks and movements besides.
`StatusInv` keeps the books: at every height a ledger holds, apart from what moved otherwise, `Amount` times
the transfers that had brought it there less those that had taken it (`Balanced`); drawing up the
inventory leaves the books as they are, since it leaves nothing out that is on a chain
(`LedgerOfInventory`). An inspection says settled only of both final events at their heights (`InspectionShows`,
by the lemmas on `projectMessage`); when the second pass finds what the first found and all
those heights are past in the snapshot, both ledgers have had every transfer, and the difference is what moved
otherwise (`BooksAgree`). The ages are those of the last step.

**`ToolingProofs`** (from `ToolingAssumption`: the plan is a sequence of paths, an installation
has a payload and perhaps a wrapper, planners, publishers and deliveries have names of their own,
a process that died before is none of those that run, and the helper sends KILL before it gives
up, as it requires of its arguments).
`RemovalIsCaptured`: nobody puts a captured object back, so what
was moved out of a path was not what was captured there, or is reported and the path holds none of it;
and the workspace is deleted only after all commands were quiescent. `InstallationKeepsTheGood`: an attempt is underway, with
each part either untouched, in the backup, or replaced, as the await it stands at says, or committed;
`Traceable` says which backup holds each part of the version in use, for any number of attempts killed
anywhere. The two publications carry, beside what the directory holds, *what a power loss may leave of it*:
`ReadyMeansPublished` by `OutputSound` (how far a planner's await says its leaves, name and READY are
filled, named and signed, durably), `DeliveriesAreWhole` by `DeliverySound` (the lock's owner alone is
between its awaits, or a stranger's is in the lock's place; each publisher has written its delivery up
to the file it is at, and one that does not resume has synced it; files only appear, so what a consumer
has read stays). `CommandsAreInCustody` and `SignalsAreSentOnce` rest on `CommandSound`: a process that is
left is the helper's child or has a living parent that is left, so when the helper has no child none is
left and none can begin (`TreeSound`); what the observer recorded is how the target ended
(`RecordSound`); and what was sent is what the helper remembers to have sent (`SignalsSound`).
`PortBlocksAreSerialized` rests on `PortsInv`: of any number of processes and blocks, a lease is where its
process's await says (`LeaseSound`), a name has one directory behind it (`OneBehindName`), and who
reclaims has in hand a lease whose owner is over, of which nothing is left when its name is looked
at again (`OwnerSound`): so while none has died only a process's own directory is renamed.

**`LocalRunsProofs`** (from `LeaseAssumption` and `RunsAssumption`; any number of runs and kills). What a run may do to a
directory hangs on what it read at earlier awaits, of a name that others may have changed since, so neither
promise is inductive. `LeaseInvariant` proves `LeaseInv`: what the names on disk tell of their runs
(`NamesSound`), what a run has made by where it stands (`RunSound`), and what a run knows of the entry
under hand (`EntrySound`), which is only what no step takes back: a run that is over stays over, one
whose Anvil is settled starts no other, and a name that carries a claim is changed by its claimant alone
while that lives. `AnvilsStayInCustody` and `DirectoriesHaveOneOwner` follow.
Of the Solana fixture, where a directory is says nothing of its validator; what ties them is the guard
beside the startup record. `FixtureInvariant` proves `FixtureInv`: without the guard no validator runs and
none is started (`Guarded`); the guard is there while the supervisor may be, a directory that was taken
has none, and its runner is over or removes it itself (`RunGuarded`); and what a run has read of the
directory under hand stays so, because only its own runner sets the guard and nobody makes a directory again
(`Knows`). Then `RemovedMeansStopped`.

Only model-checked:

- liveness (`Terminates`, `FinalizedIsReported`) is beyond the prover.

## 6. What is not modelled

Left out because it is third-party, pure or I/O: the vendored OpenZeppelin
contracts; the encoding and decoding adapters of both chains (the models take their
verdicts as answers); command-line compositions; development previews; the
admission of the test SDK; canonical forms of intents and fixtures; genesis
manifests and their artifact store; the deployment plan's builder; Slither's parsing,
container and evidence; the Solana fixture's client, verifier and tool snapshots; download, extraction and staging of tools;
the transformation of shared files by a rollback manifest; single-pass evidence and
doctor scripts.

Simplified in what is modelled:

- authorization of callers is left out where every action has one authorized caller;
- file publication in `RunLease` is atomic (`safe-fs.ts`), the deployment a local run
  performs between start and stop is one step, and process numbers are authenticated
  by their start times there, so a reused number is no owner;
- of the Solana fixture, the transactions between start and stop are one step, the stages
  noted in the startup record are left out, a write of the record is one step, and
  what is left of a failed deletion is the directory with or without each file;
- in `PortLeases` making a directory and reading its inode, and reading a marker with
  the inodes it must match, are one step each; a process allocates once; that a process
  whose marker cannot be created tries to remove its empty directory (`rollbackEmptyDirectory`,
  `ports.ts` 114) is left out, and can happen only after a death;
- in `DeliveryStore` a lock that survives a power loss is from then on a staging directory that
  was left over: it belongs to nobody alive either way;
- the transfer report does not check replacement fixtures, and the forward transfer
  is the one with a fixture (the path without has no binding and no shortcut);
- an account of the Solana set-up is reduced to whether its operation took effect;
- a bundle's content is a number of leaves, a tool's validation a verdict;
- in `RollbackProof` a file that is edited between the last check and the rename is
  quarantined as captured, as in the code, which compares the object and not its bytes
  after the rename; no peer finds the quarantine by its name;
- publishers of one delivery agree on the file names, and `Clear` comes when no
  publisher is alive;
- a command has one target and one child.

## 7. Plan

Order: most consequential first, each module with its theorems in mind (constants
with assumptions, one action per operation, no recursive operators).

Done: sections 2 to 5 above.

Left of the system: replacement fixtures in
`TransferStatus`; the Slither container's lifecycle.

Next proofs: every safety property that the passing runs check has one; those of what is
modelled next.
