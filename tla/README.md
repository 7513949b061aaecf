# HUNDUN-FLOW: a TLA+ verification project

HUNDUN-FLOW is an MPI program that advances a reacting, compressible flow in
time. This directory models the protocols that hold its ranks, threads and
files together. One is the decision *whether a time step happened*: every rank
computes an attempt, all ranks agree whether the attempt is accepted, retried or
given up, and each rank then moves its fields, its clock and its side state to
the new step - or leaves all of them where they were. Below it are the exchange
of ghost layers between neighbours, the collective schedules of the linear
solvers, and the threads of a rank; beside it is the publication of a checkpoint.
The floating-point numerics are not modelled; the control around them is. Source
paths below are relative to `src/versions/v0.4/`.

## 1. The system

| Component | State it keeps | Operations | What makes it correct |
|---|---|---|---|
| Attempt transaction (`src/core_transaction.cpp`) | active attempt, its latched failure, attempt and mutation revision, dependency catalog, revised fields, pending and active caches, the claimed face-flux writer | `begin`, `revise_trial`, `bind_dependency`, `publish_pending_cache`, `claim/detach/invalidate_final_face_flux_writer`, `collective_prepare`, `commit_accept`, `commit_reject` | only complete attempts are accepted; a certificate never survives a change of the attempt; a committed cache belongs to the committed fields |
| State layers (`src/core_arena.cpp`) | three replicas of each field, their roles, their revisions | `issue_revision`, `rotate_commit`, views | committed levels change only at acceptance and shift by one |
| Final face-flux writer (`src/solver_face_flux.cpp`) | lease on a storage replica, published or not | `begin_pending`, `publish_pending`, `abandon_pending_view`, detach from storage or transaction, destructor | a step without its final flux is not accepted, whoever destroys what |
| Time controller (`src/bc_time.cpp`) | time, last step size, step and generation counters, retry count, origin, the active proposal | `start`, `restart`, `restart_exact`, `propose`, `prepare_finish`, `commit_accept/retry/fatal` | all ranks take the same steps; stale certificates do nothing; order 2 only with history |
| Product driver (`src/core_product_freeze.cpp`) | the two above, coupling sweep, pending side state (ghosts, pressure reference, spray, ESF, force cache), warm-start flag | `advance`, `execute_attempt`, commit/discard of side state | layers, clock and side state move together; `advance` returns; a failed step leaves a usable driver |
| Application loop (`src/app_driver.cpp`) | report, output cadence | calls `advance` on every rank until done or failed | keeps all ranks in the same collective |
| CPU thread team (`src/parallel_cpu.cpp`) | worker threads, generation, completion count, stop flag, three condition variables | `create`, `run`, `release` | every run executes once on every worker, then returns; shutdown joins everyone |
| Restart writer and reader (`src/io_restart.cpp`) | generation directories, manifest, `current` file | `write`, publication, pruning, `load` | `current` always names a complete generation, whatever crashed |
| Halo engine (`src/parallel_halo.cpp`) | active exchange, persistent requests, buffers, prepared epoch, ghost certificate, poisoned flag | `begin`, `finish`, `enter_prepared_epoch`, `begin_prepared`, `finish_prepared`, `close_prepared_epoch`, `reserve` | certified ghosts hold what the neighbours sent in this exchange; all ranks leave an exchange with one outcome; nothing of a failed exchange is met by the next |
| Reductions (`src/solver_reduction.cpp`) | - | `consensus`, `consensus_contract`, `checked_sum`, `checked_max` | every rank gets the first failure in the order of ranks, or the same values |
| Linear solvers (`src/solver_krylov.cpp`, `solver_linear_state.cpp`, `solver_mg.cpp`, `solver_pressure*.cpp`, `solver_piso.cpp`) | the iteration, pending local status, the failing rank, sessions, prepared epochs | PCG, BiCGSTAB and FGMRES with their operators, preconditioners, audits and sessions | ranks make the same collective calls whichever of them fails, and end with one result |
| Execution graph, registry, resource contract (`src/core_*.cpp`) | a frozen static graph | compile-time checks | sequential, input-driven |
| Spray and ESF side state (`src/models_spray*.cpp`, `src/models_esf.cpp`) | accepted and pending parcels and fields | `commit`, `discard`, migration | pending values become visible with the step |
| Solvers, physics, mesh, boundary conditions, case input, evidence | floating-point data, parsed input, files | - | numerical accuracy; outside these models |

Interaction: the application calls `ProductDriver::advance` on every rank.
`advance` calls `TimeControllerState::propose` (collective), then
`execute_attempt`, which begins an attempt transaction, revises and computes
the trial fields through calls of the transaction and of the face-flux writer,
and ends in `collective_prepare` (collective). `advance` feeds the agreed
status to `prepare_finish` (collective) and then performs local commits of the
transaction, the clock, the force cache and the side state. Ranks share
nothing but the collectives. After an accepted step the application may call
`RestartWriter::write` (collective, one call at a time); a later run starts from
what `RestartReader::load` finds. Inside a rank, kernels hand loops to the CPU
thread team and return when it has finished. Inside an attempt the ranks
exchange ghosts through halo engines and solve linear systems; a solver calls
back an operator that exchanges ghosts itself.

The behaviours that are hard: certificates that are separated from their
commit by other calls; objects destroyed while another one refers to them; MPI
errors seen by one rank only; ranks at different points between two
collectives; retries with shrinking steps combined with coupling sweeps;
counters at their limit. `PROJECT.json` lists each hazard with its line and the
properties that are about it.

## 2. Modules

| Module | Models | Extends / instantiates |
|---|---|---|
| `TimeLevels` | abstract: two committed time levels per rank | - |
| `AttemptTransaction` | attempt transaction, state layers, face-flux writer, `collective_prepare` | `TimeLevels` as refinement target |
| `AttemptTransaction_proofs` | theorems about it | `AttemptTransaction`, `TLAPS` |
| `TimeController` | time controller on all ranks | - |
| `ProductDriver` | `advance` on all ranks | extends `TimeController` |
| `ProductDriver_proofs`, `TimeController_proofs` | theorems about them | the module of that name, `TLAPS` |
| `FanOut` | abstract: one job at a time, done once by each worker | - |
| `CpuThreadTeam` | the worker threads of a rank, their owner and their callers | `FanOut` as refinement target |
| `CpuThreadTeam_proofs` | theorems about it | `CpuThreadTeam`, `TLAPS` |
| `CheckpointStore` | abstract: the checkpoint `load` returns, now and after a crash | - |
| `RestartPublication` | `RestartWriter::write` on one directory, with I/O errors, kills and power losses | `CheckpointStore` as refinement target |
| `RestartPublication_proofs` | theorems about it | `RestartPublication`, `FiniteSetTheorems`, `TLAPS` |
| `BulkExchange` | abstract: bulk-synchronous rounds with one outcome for all | - |
| `HaloEngine` | the halo engines of all ranks, their requests and messages | `BulkExchange` as refinement target |
| `HaloEngine_proofs` | theorems about what its ranks decide, and the refinement | `HaloEngine`, `SequenceTheorems`, `TLAPS` |
| `HaloMessages_proofs` | theorems about its messages and the data they carry | `HaloEngine_proofs` |
| `ReductionPackets` | the packet of a reduction and its combination | - |
| `CollectiveProgram` | ranks that run one program of collective calls, given as a control-flow graph | extends `ReductionPackets` |
| `LoneRank` | one rank of such a program, alone, and the condition under which other ranks do not matter | extends `CollectiveProgram` |
| `CollectiveProgram_proofs` | theorems about the three | `LoneRank`, `WellFoundedInduction`, `TLAPS` |
| `KrylovPrograms` | the three Krylov solvers as such programs | extends `CollectiveProgram` |
| `SolveProtocols` | the operators, preconditioners, audits and protocols the product gives to them | extends `KrylovPrograms` |
| `MultigridPrograms` | building and renewing a multigrid plan | extends `SolveProtocols` |
| `ProjectionPrograms` | the projection of a fresh start: prepare, solve, audit, commit | extends `MultigridPrograms` |
| `StartPrograms` | fresh start and restart of the driver, boundary values, rebuilt fields | extends `ProjectionPrograms` |
| `AcceptPrograms` | the acceptance of an attempt: terminal energy and audit, scalar remap, final rates, publication, balances | extends `StartPrograms` |
| `CandidatePrograms` | the search for a pressure-energy step: evaluations, baseline, extrapolation, ladder, commit | extends `AcceptPrograms` |
| `PredictorPrograms` | the first half of an attempt: prediction of energy, composition and density, then of velocity | extends `CandidatePrograms` |
| `CorrectorPrograms` | the two corrections of an attempt outside candidate scope: refresh of the coupler, system, solve, exact correction | extends `PredictorPrograms` |
| `MC...` | the instances TLC checks | the module of the same name |

Definitions called "Mutant of ..." in a comment are deliberately wrong variants
of the definition that follows them. No specification uses them; each is a
plausible bug that the property it is paired with in `PROJECT.json` detects.

### AttemptTransaction

Every variable is a function of the rank. `handle`, `rev`, `nextRev` are
`role_handles_`, `revisions_`, `next_revision_` of `StateLayers`. `active`,
`status`, `attempt`, `mutation`, `catalog`, `revised`, `pending`, `cache` are
the members of `AttemptTransaction` with the same names (`finish` folds
`finished_` and `committed_`). `writer` and `lease` are the face-flux writer:
whether it is claimed or was destroyed, and what it holds. `cert` is the
caller's `PreparedAttemptFinish`.

Data are abstracted to revisions: a cache *is* the function from sources to
revisions it was computed from. Two caches with the same dependencies are not
told apart, and the properties do not need it.

One action stands for one call: `Begin`, `BeginActive` (begin on an active
attempt), `ReviseTrial`, `BindDependency`, `PublishPendingCache`,
`ClaimWriter`, `BeginPendingFlux`, `PublishFlux`, `AbandonView`,
`DetachStorage`, `DestroyWriter`, `CommitAccept`, `CommitReject`,
`DropCertificate`. Failure paths that latch a failure are disjuncts of the same
action. The callers are unconstrained: any call may come at any time, which is
more than the driver does.

`collective_prepare` is split where other ranks can interleave: `EnterPrepare`
computes the local vote and enters the reduction (the last rank to enter
determines the result), `LeavePrepare` returns with a certificate,
`FailPrepare` returns with an MPI error of this rank only. An MPI error before
the reduction is not a separate case: it leaves the other ranks waiting.

`StatusCode` is reduced to ok / retry / fatal, since the finish distinguishes
nothing else.

### TimeController

`ctl[r]` is the `TimeControllerState` of a rank, `held[r]` the `StepTime` its
caller has, `cert[r]` the `PreparedTimeFinish` values its caller holds. `propose`
is `EnterPropose` / `ProposeDone` / `LeavePropose` (or `LeaveFailed`);
`prepare_finish` is `EnterFinish` / `FinishDone` / `LeaveFinish` (or
`LeaveFailed`). The collectives are synchronising: `...Done` is enabled when all
ranks are inside. The commits are local.

Times and step sizes are integer ticks: the code compares states bit by bit, so
record equality is its identity check. Growth and retry factors are an integer
multiplier and divisor. `MaxTime` stands for the largest time at which adding a
step still yields a larger double; `MaxStep` and `MaxGeneration` for
`UINT64_MAX`. The scheme is `variable_bdf2`; the other schemes only make every
step first order. A restart begins anywhere `restart` or `restart_exact` would.

An MPI error in an intermediate call of a collective is not separate: the other
ranks wait in the next one and no rank has changed anything. An error in the
last call is: the rank returns a failure while the others get their result.

### ProductDriver

Adds `pc` (where a rank is in `advance`), `sweep`, the status voted and agreed
(`vote`, `verdict`), `txn` (what `advance` uses of the attempt transaction:
active, prepared decision, number of commits) and `side` (pending side state,
number of commits, `pressure_correction_warm_start_valid`, and whether the
pressure-correction workspace still holds the accepted correction).

`ExecuteAttempt` is all of `execute_attempt` up to its `collective_prepare`: any
status, with or without pending side state when it fails. `AttemptDone` is the
collective. `Recouple`, `FinishTime`, `FinishFailed`, `DecideAccept`,
`DecideRetry`, `DecideFatal` are the branches of the loop in `advance`, each with
all the calls of the branch. The four commits of a branch are one step: they are
local, cannot fail and no other rank can observe them in between.

The model of the transaction here is the reduced one; that the real one accepts
only on a unanimous vote and rejects or commits as `advance` assumes is what
`AttemptTransaction` shows. `cold` says whether the scheme of the case is
`cn_be`: there a rank whose `collective_prepare` left no certificate calls it
again (`PrepareAgain`), without an attempt and with a fatal status, while its
peers may be past it. In both schemes it may leave `advance` instead
(`AttemptLost`). `reliable` is chosen once: in a reliable execution no call of MPI
fails, and it is these that return from `advance` and retire their proposals.

### CpuThreadTeam

`generation`, `completed`, `started` (`startup_count`), `bound`
(`startup_status` is ok) and `stopping` are members of `CpuThreadTeam::Impl`;
`observed[w]` is the local `observed_generation` of a worker. `owner`, `worker`
and `caller` say where each thread is. All members are accessed under
`Impl::mutex`, so one critical section is one step; where the code releases the
mutex - around the task, in a wait, between `++startup_count` and its
notification, between `stopping = true` and `notify_all` - other threads
interleave.

A wait with a predicate is two places: `asleep`, where only a notification or a
spurious wakeup moves the thread, and the place where it tests its predicate.
A notification that nobody waits for is lost, as in the code. `TestWork` is the
part of the wait that `worker_loop` executes without having released the mutex,
after startup as well as after a task. `Launch` may throw and `Bind` may fail for
any worker; both lead to `stop_and_join` with whatever threads exist.

Callers share `dispatch_mutex`: the one that is not idle holds it. A team is not
destroyed while a caller is inside `run`, which is the C++ lifetime rule and
makes the test of `stopping` in `run` unreachable. Inline mode has no threads and
is not modelled.

`FanOut` is what the users of the team rely on: the task's context is an object
on the caller's stack, so each worker must touch it exactly once between the
start of `run` and its return, and at no other time. The refinement reads off
the caller that sleeps in `run` as the job, and compares `observed[w]` with
`generation` to tell whether a worker still has to do it.

### HaloEngine

The state of a rank is `impl` (the members of `HaloImplData` that control the
protocol), its requests by peer, its send and receive storage, and its caller's
ticket and field. Messages are in `network`, in order between two ranks; a field
is the number of its last revision, so that old data are told from new.
`MPI_Startall` starts the requests, a message is received by `Match`, a send may
complete earlier (`Buffer`), and `MPI_Waitall` needs all of them. The faults are
those the code has a path for: views that are rejected in `begin` or in
`finish`, a failing `MPI_Startall` (which has started any subset), a failing
`MPI_Waitall`, requests that cannot be rebuilt, a stage of `reserve`, and the same
inside a prepared epoch.

`begin` is `Begin` / `BeginRefused` / `Start` / `StartFailed` / `StartReported` /
`Opened`, cut at its consensus points; `finish` is `Finish`, `Wait`, and the four
ways it ends. A prepared epoch has no consensus inside: its steps follow one
another while neighbours are up to one exchange ahead. `Plan` is the sequence of
rounds the callers run: an exchange, an exchange whose `begin` is called a second
time while it is open (`reenter`), an epoch, a reservation.

An engine whose requests could not be rebuilt is poisoned, and all should then be.
They are not at once: a rank is poisoned inside the recovery, before its peers are,
and the next `begin` of a poisoned engine builds its requests anew, on the ranks
where that succeeds. `PoisonedTogether` says when it matters: no rank is within an
exchange while another's engine is poisoned, and after a recovery all or none are.

`cancel_and_drain` withdraws a message only if the peer has not received it, so
that after a failure a rank may have got what the other believes to be cancelled;
that is why recovery rebuilds the requests on all ranks or poisons all engines.

### CollectiveProgram and the programs

Between two collective calls a rank of a linear solve is deterministic, up to
its own failures. So a solver is a *program*: a function from labels to
instructions, and a rank is a program counter with a call stack, a pending
status and the few fields the result is made of (`frame`). `Work` is any stretch
of rank-local computation that may fail; its status stays pending until a
collective carries it. `Branch` is a decision on a global value, which all ranks
take alike; `Test` is a decision on the rank's own status, and the question is
whether the code has one in a place where it makes ranks part. One record of
instructions stands for one C++ function and is mapped to it; `entry` picks the
functions that are the solver, operator, preconditioner and audit of a run.

A collective is a pool of packets. A packet enters with the rank's count and
code, two packets combine in any order (`CombinePackets`, the user-defined MPI
operation), and the call ends when one packet stands for all ranks.
`ReductionPackets` keeps the exact rule by which the failure of a packet is
selected, including the mismatch of counts. A ghost exchange is a call on
another channel, with the consensus of `HaloEngine` as its verdict; an exchange in
a prepared epoch has none.

Some places of the code break the rule. A check fails on one rank, that rank
leaves the function, and its peers enter a collective call that it skips. Such a
place is a `LoneCheck`: work of the rank alone and a test of its status, in the
program of the function where the code has it. An option names the place, and a
program has the check only if it takes the option, so that the rest of the program
can be judged without it. `linear_solve` takes none of these options (assumption
`NoLoneFailure`); `lone_returns` takes one in each of its programs.

`LoneRank` models no more of the code: it runs one rank with the same `Settle`,
`Worked` and `Receive`, fed with every result a call may have, and says when a
program cannot make ranks part (section 4).

The modules form one chain because programs call each other: `KrylovPrograms` has
the solvers, `SolveProtocols` the operators and preconditioners they call back,
`MultigridPrograms` what those need built, `ProjectionPrograms` a whole solve with
its audit, `StartPrograms` a driver that starts with such a projection,
`AcceptPrograms`, `CandidatePrograms` and `PredictorPrograms` three phases of
`execute_attempt`, from its end to its beginning, and `CorrectorPrograms` what lies
between its prediction and its acceptance where no candidate is searched for (a
closed domain that is not periodic). The last five are the collective skeleton of the driver: the long stretches of local
computation between two collectives are one `Work` each, the guards that let a
rank past a collective are `Test`s, and the guards that follow from the case or
from agreed values are `Branch`es on an option of the run or on a free outcome.

What these programs publish is the state that must appear on all ranks or on
none. A rank opens an *epoch* when it starts to produce something and closes it
when it makes the result valid. `PublishedTogether` says that no rank has published
an epoch in which another has failed, and that no epoch is open when a rank has
ended. The epochs are the levels of a renewed multigrid
("hierarchy"), the fields of a start ("fresh", "start"), the attempt that
`collective_prepare` accepted ("attempt"), the trial fields of an evaluation
("sample"), those of the step the search commits ("committed") and the predicted
state that the coupled solve starts from ("predicted"), and the state and fluxes
that a correction copies ("corrected", which the comment at
`src/solver_piso.cpp:8167` claims for its commit). A prediction that has failed
goes on to the end of its half of the attempt, past the calls that its status
guards, and may enter none that another rank skips. In the
acceptance a failed rank goes to the next agreement with its status, and the
terminal audit defers what the rank brings. In the candidate search several
helpers return in candidate scope without an agreement of their own; that their
status is agreed anyway is `SolveAgrees`. A failure that the search tolerates
(option "rejected") ends a sample and not the program. `NewSolve` clears the
history when a program goes on after a projection.

`engine` and `scope` are the failing rank the `ReductionEngine` and the operator's
`FailureProvenance` last saw; `lowest` is `result.lowest_failing_rank`. `named` and
`spoiled` are history: the rank the first failed call of the solve named, and
the epochs in which the rank failed.

### RestartPublication

The writer keeps nothing between calls; its state is the disk and how far the
current call has come (`stage`). A generation is a directory: `place` says
whether it is visible as `generation-...-pending`, under its final name or not
at all, `files` what is in it, `current` what the file of that name holds,
`pointers` which `current-...-pending` files lie around. For each of them there
is a second variable that says what a power loss may leave: `places` and
`currents` are sets of candidates, `sure` the files that certainly survive,
`root` whether the restart directory itself does.

The disk behaves as POSIX promises and no better. A change of a directory entry
may or may not survive until the directory is synced, independently of other
changes; a rename is atomic; a file that was synced has its data, but its entry
is only certain after a sync of its directory. A call and the sync that follows
it are one action with three outcomes (nothing happened; done; done and synced):
a kill or power loss between the two leaves the state of the second outcome, so
splitting it would add no disk. What a power loss leaves is chosen when it
happens. Files of a pending directory that is not being written are not told
apart, because nothing ever renames it.

| Action | Code |
|---|---|
| `Sweep` | `create_directories`, `remove_stale_pending` and its sync |
| `CreatePending` | the pending directory and the sync of the restart directory |
| `WriteRankFile`, `RankFilesDone` | `write_file_sync` and readback on each rank, and the collective after it |
| `WriteManifest` | `manifest.bin` by rank 0, sync of the pending directory |
| `PublishGeneration`, `SwitchCurrent` | the two halves of `publish_generation` |
| `PruneOne`, `PruneDone` | `prune_generations`: one removal, file by file, and the final sync |
| `Kill`, `PowerLoss` | the end of the process; the end of the machine |

Each stage of `write` ends in a collective (`restart_local_stage`), so between
stages all ranks agree; an MPI call that fails on one rank ends the run and is a
`Kill`. A failed write returns and leaves the disk as it is; the next write, of
this or of a restarted run, starts with `Sweep`. Generation names carry the
accepted step and a clock tick. The step is any of `Steps`, in any order, since a
run may be restarted from an older checkpoint; the tick makes names unique, but
comes from `steady_clock`, which a reboot resets, so generations of equal step
are pruned in any order.

`CheckpointStore` is what a restarted run relies on: `held` is what `load`
returns, `fallback` what it may return after a crash. `Publish` replaces `held`
by a newer checkpoint and may leave older ones as fallback, `Harden` shrinks the
fallback, `Crash` picks from it. In the refinement `held` is `Loaded` - the
generation in `current` if its directory has every file, otherwise `Corrupt`,
which is in no behaviour of the store.

## 3. What is checked

All bounds are constants of the configurations; every unbounded counter has a
named bound that appears in guards only.

| Run | Instance | Shows |
|---|---|---|
| `transaction_local` | 1 rank, 1 field, 1 external source competing with a second for the last free catalog entry, flux slot and derived slot, 2 attempts, 6 mutations each | `AcceptCertificateComplete`, `CommittedCachesCurrent`, `CatalogWithinCapacity`, `NoCommitAfterWriterLost`, and `ImplementsTimeLevels` (refinement of `TimeLevels`). Two attempts are needed for a certificate or a lease to survive into the next one; six mutations cover begin, revision, re-revision, two publications and one call that spoils the attempt. Revisions can run out at `MaxRevision`. |
| `transaction_collective` | 2 ranks, 1 field, 1 attempt each | `IndInv` (the invariant of the proofs), `FatalFailureWins`, with an MPI error on one rank |
| `time_controller` | 2 ranks, 1 retry, three generations, steps up to the counter limit; one rank may hold two certificates | `TypeOK` at the counters' limit, `AcceptedHistoriesAgree`, `ProposalCurrent`, `SecondOrderNeedsHistory`, `GenerationsRetired` with free callers, MPI errors on one rank and dropped certificates |
| `driver_faults` | 2 ranks, both methods, all statuses, 2 sweeps; executions with MPI errors on single ranks and executions without | `CommittedTogether`, `WarmStartSound`, and what `advance` takes for granted: `AttemptStartsClean`, `DecisionsConsistent` (and the types, `DriverTypeOK`, which bound the sweeps); of the executions without MPI errors also `RetiredIfReliable` and `AdvanceReturns` |
| `driver_mpi_outcome` | the same, the outcome may be `mpi_failure` | **violation** of `ProposalRetired`, see below |
| `thread_team` | 3 workers, 2 callers, generation modulo 2 | `ImplementsFanOut` (refinement of `FanOut` with its liveness), `LiveComplete`, `OwnerReturns` |
| `halo_rounds` | 2 ranks that are neighbours across two faces and of themselves, a re-entered exchange, an exchange, an epoch of two exchanges, a reservation of two stages, an exchange; 3 faults of any kind | `FreshGhosts`, `AgreedOutcomes`, `QuietBetweenRounds`, `PoisonedTogether`, `RoundsReturn`, `ImplementsRounds` (refinement of `BulkExchange`) |
| `halo_early_return` | the same engines, one fault: `MPI_Startall` in an epoch | **violation** of `EveryRoundReturns`, see below |
| `linear_solve` | 3 ranks, 2 iterations, 2 failing ranks, twenty-three programs without a `LoneCheck` | `PacketsExact`, `OneSchedule`, `SolveAgrees`, `FailureNamesRank`, `PublishedTogether`, `SolveReturns`, and `Lockstep`, the condition of the theorems about these |
| `lone_returns` | the same ranks, twenty-seven programs, each with the `LoneCheck` of one place | **violation** of `LoneReturnAgreed`, see below |
| `restart_crash` | 2 ranks, 3 writes, steps {1, 2}, `keep_last` 1 as the application passes it, the directory exists | `IndInv` (the invariant of the proofs), `ImplementsCheckpointStore`, `DurableKept`, `Retention` |
| `restart_fresh` | the same, `write` creates the directory | **violation** of `DurableKept`, see below |

Three writes let one fail after its rename and before `current` is switched, the
next publish with a lower step, and the third prune both; two ranks let one file
be there and the other fail.

Three workers are enough for one to run, one to sleep and one to be still
unstarted or announcing at the same time; two callers for one to publish while
the previous job's workers test their predicate; modulus 2 is the harshest wrap
at which consecutive generations still differ.

Two ranks are enough for the agreement properties of the transaction, the clock
and the driver because every collective either treats the ranks symmetrically or
distinguishes rank 0 from the others; the selection of the lowest gravest rank is
proved for every number of ranks. `maximum_coupling_sweeps` is 16 in the code and
2 in the models: the bound only has to be reached after a sweep below it. A
restarted driver starts at the earliest accepted state or one step before the last
that can be counted (`TwoRestarts`); `time_controller` has all of them.

In `halo_rounds` three faults are enough for a failure, a second one in its
recovery, and one in the next round; the properties but `AgreedOutcomes` and
`ImplementsRounds` exempt what the engine does not recover from (`Unrecovered`).
Two exchanges per epoch let one rank be in the second while its neighbour waits in
the first.

In `linear_solve` three ranks are the fewest at which packets meet in different
orders; with two failing ranks the lowest one need not be the first to fail; two
iterations pass every test of an iteration limit once below and once at it.
`MaxCode` is 1 since failure codes are compared only after the rank. The programs
are PCG twice in a row and before a sum of unequal counts, BiCGSTAB with a
multigrid or a diagonal preconditioner, with and without audit and
`bounded_recurrence`, FGMRES with a projection and an audit, FGMRES with capture,
and the coupled solve of pressure and energy with its prepared Schur operator and
guarded FGMRES; further a compiled and then refined multigrid plan (several
matrices), three fresh starts, an exact restart, two acceptances, and two candidate
searches, one open with an immersed body and a balanced outlet, one closed with
extrapolation, tolerated failures and a commit by refinement; and three predictions
of an attempt: one of a closed domain with an immersed body, remapped passive
scalars and species of the target time, one by the cold method with a reaction, and
one of second order, which is repeated with first order if the state without
sources is not admissible; and two pairs of corrections of a closed domain, one with
an immersed body that compiles its multigrid, one by SIMPLE, which predicts the
velocity again in between, and one with an outlet, which all ranks refuse. A ladder makes two
halvings, the same bound as the iterations. `solved` is a solver that has solved,
for the corrections and for two predictions, which are not about the solver; the first prediction has FGMRES in the
implicit endpoint of the enthalpy and in the three components of the velocity. The instance omits the options that exclude one another. `Fuel`
bounds the instructions between two places; a program that needed more would
never reach a place, and `SolveReturns` would fail.

Deadlock is checked where the system must not stop (`linear_solve`) and in
`restart_crash`, where a power loss is always possible. A released thread
team stops, and nobody must call it. An unrecovered fault of a halo engine leaves
a neighbour waiting; that every other round ends is `RoundsReturn`. In the other
runs callers are free to stop calling or to enter different collectives, and in
`driver_faults` a rank whose partner lost an MPI call waits for ever, as MPI does;
in its reliable executions no rank may stop inside `advance`, which is
`AdvanceReturns`.

Fairness (`FairDriverSpec`): some step of the driver happens as long as one can. Each
rank is a sequential process that keeps running, MPI completes a collective once
all ranks have entered, and the application loop calls `advance` again on every
rank after each accepted step; no more is needed, since the counters bound every
behaviour. `FairSpec` of the thread team: the owner
inside `create` and `release`, every worker and every caller inside `run` keep
running, and tasks return. There is no fairness of `Release`, of the entry to
`run` or of spurious wakeups: whatever must happen is owed to a notification.
`FairSpec` of the halo engine: every rank goes on if it can, MPI completes a
consensus all ranks have entered and delivers a message to a receive that waits
for it; not fair are `Buffer` and the faults. `FairSpec` of a collective program:
some step happens as long as one can, which is enough since every behaviour is
finite.

### The findings

A comment in `advance` (`src/core_product_freeze.cpp:22649-22652`) says a failed
proposal is retired "so a later advance starts a fresh BE recovery proposal
instead of remaining permanently active". If the status all ranks agreed on for
the attempt is `mpi_failure`, `prepare_finish` (`src/bc_time.cpp:685`) returns it
as if its own reduction had failed, without a certificate. `advance` rolls the
attempt back and returns (`:22598`), but `commit_fatal` is not reached, and each
later `advance` returns `invalid_plan` (`:22402`). Every other fatal outcome
retires the proposal. The fields are unharmed (`CommittedTogether` holds in
`driver_faults`, which includes these outcomes).

The other one is about the first write into a new directory. `write` creates the
restart directory and syncs the directory itself (`src/io_restart.cpp:1764-1771`),
but not the parent that holds its entry, and reports `durable` after the switch
of `current` (`:1620`; a comment at `:1900` says "current is durable"). The
repository's own method note
(`docs/research/2026-08-20-v04-open-source-method-comparison.md:252`, at the root
of the repository) says that syncing a file does not make the directory entry
durable and that the directory must be synced as well; the same holds for a
directory in its parent. In `restart_fresh` a power loss then removes everything.
In the application the append to `evidence.jsonl` later in the same step syncs
the run directory, which is the parent (`src/io_evidence.cpp:1359`), so only the
rest of that step is exposed. The importer (`src/app_import.cpp:801`) never syncs
it. With an existing directory `DurableKept` holds, and is proved.

The third is about a prepared epoch. The header
(`include/hundun/v04_parallel.hpp:177-181`) says that rank-local failures are
"retained in deferred while every rank completes the same persistent-request
sequence". A failing `MPI_Startall` (`src/parallel_halo.cpp:1448-1456`) or
`MPI_Waitall` (`:1504-1515`) is not retained: the rank cancels its messages,
poisons its engine and returns at once, and in `halo_early_return` its neighbour
stays in `MPI_Waitall` for ever.

The fourth is about ranks that return alone. `docs/architecture/runtime.md:7` asks
that a local stage which may fail becomes a status on which all ranks decide, and
forbids an early return of one rank in place of a collective handling of the
failure; the design notes and several comments say the same of single places
(`PROJECT.json` quotes one with each). In these places a rank that fails on its own
skips a collective call that its peers enter, so that they wait for it or pair the
call with a later one of its own:

| Place (in `src/`) | Option | What the rank skips |
|---|---|---|
| `PressureLinearOperator::apply`, `solver_pressure.cpp:973` | "pressure views" | the agreement of the exchange at `:977` |
| `ExactOperator::apply`, `solver_initialization_projection.cpp:1662` | "exact views" | the exchange at `:1670` |
| operators of the enthalpy endpoint and the momentum, `solver_enthalpy.cpp:554`, `solver_momentum.cpp:621` | "transport views" | the exchange that follows |
| `audit_pressure_convergence`, `solver_piso.cpp:9489-9520` | "audit plan" | the sums of the audit |
| `solve_prepared`, `solver_piso.cpp:10269`, `:10342-10374` | "piso binding" | the agreement before the solve |
| the same, `:10411-10431` | "recycled span" | the solve |
| `limit_momentum_predictor_correction`, `solver_momentum.cpp:1843`, `:1960` | "ratio ghosts" | the next exchange or agreement |
| `predict`, `solver_thermophysical_predictor.cpp:2297` | "donor halo" | the exchange at `:2307` |
| `execute_attempt`, `core_product_freeze.cpp:9122-9222`, `:9340-9386` | "trial revision" | the exchange at `:9387` |
| `refresh_impl`, `solver_piso.cpp:3121`, `:3143`, `:3395` | "coupler closure" | the agreement at `:3401`, or the next |
| the same, `:3405-3409` | "coupler constraint" | the next agreement of the corrector |
| `compile_native_pressure_mg`, `solver_piso.cpp:7031-7059`, and `make_native_pressure_mg_spec` | "multigrid spec" | the compilation |
| the workspaces of the second system, `core_product_freeze.cpp:21203` | "energy workspaces" | the residual |
| `assemble_pressure_system`, `solver_piso.cpp:3921-3975`, and the workspaces at `core_product_freeze.cpp:21209` | "pressure system" | the next agreement |
| `mask_solid_rhs`, `core_product_freeze.cpp:21001`, `:21224` | "solid mask" | `form_pressure_energy_blocks` |
| `revise_exact_thermodynamic_workspaces`, `core_product_freeze.cpp:21030` | "exact workspaces" | the preflight |
| the flux workspace and the trial views, `core_product_freeze.cpp:21056`, `:21484` | "exact state" | the exact correction |
| `revise_coupled_trial_views`, `core_product_freeze.cpp:21021` | "trial views" | the candidate search |
| the flux workspaces of an evaluation, `core_product_freeze.cpp:18611`, `:18719` | "flux view", "final flux view" | the stage flux, the finalization |
| the flux workspace of a commit, `core_product_freeze.cpp:21056` | "committed view" | the commit of the candidate |
| the passive scalars after the remap, `core_product_freeze.cpp:21772-21781` | "passive revision" | the exchange at `:21796` |
| `runtime_write_view`, `core_product_freeze.cpp:22210-22215` | "balance views" | the sums of `collect_boundary_balance` |
| an open fresh start, `core_product_freeze.cpp:7735-7749`, `:7872-7887` | "open start" | `close_fresh_physical_flux` |
| parcels of a restart, `core_product_freeze.cpp:8258-8269` | "parcels" | the agreement at `:8264` |

Two more places skip no call but lose a failure. The commits at the end of
`initialize` and `initialize_restart` (`core_product_freeze.cpp:7949`, `:8912`) fail on
one rank only ("layer publication"), and the caller
(`src/app_driver.cpp:635-637`) does not agree on the status. The loops of
`initialize_restart` that restore layers overwrite the status of a failed view
(`core_product_freeze.cpp:8613`, `:8627`, `:8648`; "layer views"), so that the
agreement at `:8702` does not see it and the start is published with that layer.

`lone_returns` has one program for each of the twenty-seven options, and
`LoneReturnAgreed`, that one of them at least is in step, is violated: none is.
Each is in step without its option. Whether a check can fail on one rank only is a
question of the data: most of them repeat on views and revisions what the callers
have made sure of, but the open start and the parcels depend on the values of the
rank's own cells. What `linear_solve` shows and the theorems conclude is under the
assumption that none of them does.

Further divergences were met that no run shows.

- `finish_projection` ends a recycle projection with a consensus on a status that
  all ranks already share (`src/solver_krylov.cpp:1778`). After a value that is
  not finite on all ranks it names rank 0 as the failing one, where comments of
  the callers (`src/solver_piso.cpp:10262-10265`,
  `src/core_product_freeze.cpp:17357-17360`) want none. `FailureNamesRank` exempts
  solves with a projection.
- A prepared multigrid returns at once if `revise_level` fails
  (`src/solver_mg.cpp:4937-4951`), against the comment above it; `prepare_batch` has
  certified the call, so it cannot fail there.

## 4. What is proved

`AttemptTransaction_proofs` proves, for every number of ranks, fields, sources,
slots and every bound (assumption `ConstantsAssumption`: at least one rank and
field, fields fit the catalog, the revision counter does not overflow at
allocation):

| Theorem | Property |
|---|---|
| `Invariance` | `Spec => []IndInv` |
| `TypeCorrect` | `[]TypeOK` |
| `CertificatesSafe` | `[]AcceptCertificateComplete` |
| `CachesSafe` | `[]CommittedCachesCurrent` |
| `LostWriterFailsClosed` | `NoCommitAfterWriterLost` |
| `LayersRefineTimeLevels` | `ImplementsTimeLevels` |
| `FatalFailureReported` | `[]FatalFailureWins` |
| `CatalogFits` | `[]CatalogWithinCapacity` |

None of the safety properties is inductive. The argument of `IndInv`:

- `CertificatesPast`: a certificate carries an attempt and mutation number not
  beyond the transaction's. Every call that changes an attempt increases the
  mutation number (or the attempt number), so a certificate that still matches
  was issued after the last change.
- `BlockedComplete`: a rank that voted ok is complete when it votes, and stays
  so, because a rank inside MPI executes nothing. With the collective's
  unanimity, an accept certificate is issued to complete ranks only.
- Together these give `AcceptCertificateComplete`.
- `TrialTracked` and `RevisionsIssued`: while an attempt is unfailed the catalog
  quotes the trial layer, and fresh revisions were never used. A complete
  attempt's caches are fresh with respect to the catalog, so when the trial
  becomes the accepted layer they quote it: `CommittedCachesCurrent`. Later
  attempts write the trial replica only (`RolesDistinct`).
- `LostWriterClosed`: after the writer is lost no unfailed attempt has a
  published flux, but the required slot stays required, so no later attempt is
  complete.

The refinement proof maps `Init` to `TimeLevels!Init`, `CommitAccept` to
`Accept` and every other action to a stutter. `FatalFailureWins` needs the
existence of a minimal selection key (`SelectedRank`), which comes from the
well-foundedness of `<` on the naturals. `CatalogWithinCapacity` rests on
`TrialTracked` again: an attempt that has not failed has all fields bound, so
every further entry is that of an external source.

`TimeController_proofs` proves, for any number of ranks and any parameters of the
controller that `PlanAssumption` admits:

| Theorem | Property |
|---|---|
| `TypeCorrect` | `[]TypeOK` |
| `HistoriesAgree` | `[]AcceptedHistoriesAgree` |
| `ProposalIsCurrent` | `[]ProposalCurrent` |
| `SecondOrderHasHistory` | `[]SecondOrderNeedsHistory` |
| `GenerationsAreRetired` | `GenerationsRetired` |

Its invariant is `TypeOK`, the soundness of each controller, of the collective's
result and of each certificate, and `AcceptedHistoriesAgree` itself. The last is
not inductive: callers are free, so an accept certificate may be used long after
it was issued, when other ranks are ahead. What makes it safe is what the
certificate knows of the other ranks. `Shared`: every rank still has the
controller that the certificate was issued for, or has retired its generation.
`Ahead`: a rank that has already accepted from it has exactly the certificate's
time and step size. `OneController` then says that two certificates that both
match were issued for one controller.

`ProductDriver_proofs` proves, for any number of ranks and sweeps, any statuses,
with and without MPI errors:

| Theorem | Property |
|---|---|
| `DriverRefinesController` | `DriverSpec => Spec` of the time controller |
| `DriverTypeCorrect` | `[]DriverTypeOK` |
| `AttemptsStartClean` | `[]AttemptStartsClean` |
| `DecisionsAreConsistent` | `[]DecisionsConsistent` |
| `StepsCommitTogether` | `[]CommittedTogether` |
| `WarmStartIsSound` | `[]WarmStartSound` |
| `ProposalsAreRetired` | `[]RetiredIfReliable` |

The first theorem is the composition: every step of the driver is one of the
controller or leaves it alone, so the controller's invariant holds of the driver
and need not be proved again. The driver's own invariant is a local part per rank
(what the place in `advance` says of the transaction, the side state and the
certificate it holds, and that the three levels agree) and one global part. Ranks
are at different points between the end of one collective and the next, so no
relation of their controllers as they are is inductive. `Told`, `After` and
`Target` say where a rank is heading: the controller it will have once it has
acted on what it was told. `Together` says that inactive controllers and inactive
targets are all equal; `CommittedTogether` is the part of it about ranks that
have arrived. In a reliable execution all targets are equal (`Reliable`), and `ProposalRetired`
follows.

`CpuThreadTeam_proofs` proves, for any number of workers and callers and any
modulus of at least two (`TeamAssumption`):

| Theorem | Property |
|---|---|
| `Invariance` | `Spec => []IndInv` |
| `TypeCorrect` | `[]TypeOK` |
| `LiveTeamComplete` | `[]LiveComplete` |
| `TeamImplementsFanOut` | `Spec => FO!Spec`, the safety part of `ImplementsFanOut` |

Its invariant has four parts. `PlacesOK` types the variables without bounding the
counts. `OwnerInv`: `started` is the number of workers past binding, the team is
live only when all are bound, workers end only after `stopping`. `CallerInv`: at
most one caller is in `run`, and only of a live team. `JobInv` is what excludes a
lost or repeated task: while a caller waits, `completed` is the number of workers
that have observed the generation and are not in the task, and while none waits
every worker has observed it - so the next increment makes it new to all of them,
which needs no more than a modulus of two. The refinement then maps `Dispatch` to
`Start`, a successful test of `generation` to `Begin`, `FinishTask` to `End`, and
the caller's test that sees the full count to `Finish`.

`RestartPublication_proofs` proves, for any number of ranks and writes, any steps
and any `keep_last` of at least one (`RestartAssumption`):

| Theorem | Property |
|---|---|
| `Invariance` | `Spec => []IndInv` |
| `DurableSafe` | `[]DurableKept`, if the directory is not fresh |
| `RetentionHolds` | `[]Retention` |
| `RestartImplementsStore` | `ImplementsCheckpointStore` |

The heart of `IndInv` is `CurrentsComplete`: every generation that `current` may
name after a power loss has its final name and all its files for certain, not
only the one it names now. It is kept because `GenerationSecured` says what each
stage has secured - at `publish` all files of the new generation, at `switch` its
name as well, and from `prune` on that `current` can name nothing else, which is
what allows the others to be removed. `PendingOwned` makes the name of a new
pending directory free and gives `Retention`. With `CurrentsComplete`, `Loaded`
is `current` and the fallback is `currents` (lemma `Loads`), and each action is
seen to be one of the store's.

`HaloEngine_proofs` and `HaloMessages_proofs` prove, for any number of ranks, any
peers, any plan of rounds, any number of faults, exchanges of an epoch and stages of
a reservation (`HaloAssumption`: peers are mutual, and an epoch and a reservation
have at least one exchange and stage; the first is how `HaloImplData` builds its
peers, and the callers open an epoch only to exchange in it):

| Theorem | Property |
|---|---|
| `Inductive` | `Spec => []IndInv` |
| `TypeCorrect` | `[]TypeOK` |
| `OutcomesAgree` | `[]AgreedOutcomes` |
| `EnginesImplementRounds` | `ImplementsRounds` |
| `PoisonTogether` | `[]PoisonedTogether` |
| `LinksCounted` | `Spec => []Linked` |
| `Quiet` | `[]QuietBetweenRounds` |
| `MessagesDated` | `Spec => []Dated` |
| `GhostsFresh` | `[]FreshGhosts` |

Ranks leave a consensus one after the other and may be several steps apart, so no
relation of the places they are at is inductive. `Destination` says where a rank is
going, as a function of its own state: the outcomes that are settled for it, the
collective it is in or comes to next (`Target`), the failure it keeps for a later
report and the stage of a reservation. No step of one rank or of a message changes
it, and a consensus sets it for all ranks alike; `Synced` says that it is the same on
all. `Local` is what the place of a rank says of its engine, ticket and flags.
`AgreedOutcomes` is the part of `Synced` about ranks between two rounds. The
refinement reads `BulkExchange` off it: entering a round is `Enter`, the last step
of a round is `Leave` with the outcome of the destination, all others stutter.
`PoisonedTogether` needs one fact more (`Mended`): after a recovery that all ranks have heard of,
their engines are poisoned or sound alike.

The messages of a link are described by `Target` as well (`Link` in `Linked`): before
a start none are there; after it as many as the sends that may be withdrawn; after
the preflight those that the receiver waits for; in an epoch those that the sender
has started and the receiver not yet taken, which may be more than one. Each step has
then to do with one of these descriptions only, and an idle rank with the last, no message.
`Dated` adds the data: the messages on a link are the last revisions of the sender's
field, in order, and `Revised`, the revision a rank has when it arrives, is the same on all
ranks. What a rank publishes is then of its own last revision and of its peers',
which is `FreshGhosts`. `QuietBetweenRounds`, `FreshGhosts` and `PoisonedTogether` except, as
their definitions do, behaviours in which a rank has left a prepared epoch early or a failed
`MPI_Waitall` could not be recovered (`faults.broken`); `AgreedOutcomes` and the refinement hold in
those too.

`CollectiveProgram_proofs` proves, for any number of ranks and codes, any program
and any entries:

| Theorem | Property |
|---|---|
| `CombinationExact` | two exact packets of disjoint sets of ranks combine into an exact packet |
| `PacketUnique` | there is one exact packet of a set of ranks |
| `PacketsAlwaysExact` | `Spec => []PacketsExact` |
| `AlwaysOneSchedule` | `AllInStep => (Spec => []OneSchedule)` |
| `AlwaysSolveAgrees` | `AllInStep => (Spec => []SolveAgrees)` |
| `AlwaysFailureNamesRank` | `AllInStep => (Spec => []FailureNamesRank)` |
| `AlwaysPublishedTogether` | `AllInStep => (Spec => []PublishedTogether)` |

An exact packet has the count of its lowest rank and names the first of the
failures of its ranks, a rank whose count differs having failed too; `CombinationExact` is the associativity and
commutativity that MPI is told the operation has, and with `PacketUnique` it makes
the verdict independent of the order in which packets meet. The invariant of
`PacketsAlwaysExact` is that the packets of a channel stand for disjoint sets of
ranks that wait in that channel, each with the contribution it entered with.

The other four depend on the code of each function, and hold of a program only if
it satisfies a condition. `AllInStep` says that every program of `Entries` does:
`InStep` (module `LoneRank`) is about one rank alone, which fails as it likes and is
told anything its calls may return. The states it can be in between two calls, under
one history of results, form a *phase*: they differ by what has failed on this rank.
A program is in step if all states of a phase end it with the same call, on as many
scalars, or all end the program with the same outcome; if what one of them publishes
none of them has spoiled; if no epoch is open at the end; if a solve reports the rank
that the first failed call named; and if a rank that brings a failure, before any
call has named one, has failed by itself. These are finitely many states,
and TLC finds them for each of the twenty-three programs of `linear_solve`
(`Lockstep`). They are in step as far as no `LoneCheck` fails; the twenty-seven
programs of `lone_returns` are not, and nothing is proved of them.

The theorems say that nothing more is needed, for any number of ranks, any bound on
their failures and any order of their steps and packets. The invariant (`Joint`) is
that all ranks are in states of one phase. It is inductive with the soundness of the
packets: a rank that computes stays in its phase, whatever fails; and a call ends
with all ranks in it, told the result of a packet that names one of them only if one
has brought a failure, so that all go on to one next phase (`CoversNext`). A lone
rank knows two names of ranks and the real ones know all; `Similar` renames ranks,
`SettleKept` shows by induction on the steps of a rank that its path between two
calls is the same under every renaming, and the invariant is about all renamings
into two names (`Namings`), so what it says of a name follows by telling that name
from the rest (`Apart`). `NamesFaulty` adds that a rank which a call has named has
failed.

So the theorems leave open what `Lockstep` has TLC evaluate. `InStep` mentions the ranks only in
`Even`, whether a call has as many scalars on all of them; every program has, except
`uneven`, which is made to differ. It is therefore the same for any number of ranks
above one, which is seen by reading and not proved. It does depend on
`MaxIterations`, two in the run, as the programs do.

Only model-checked: `Lockstep` itself, which is a computation and not an invariant
to be proved; and all liveness (`AdvanceReturns`, `OwnerReturns`, `RoundsReturn`,
`SolveReturns`, the liveness half of `ImplementsFanOut`), which is beyond the proof
system. `TypeOK` of `CpuThreadTeam`, which says no more than the types, is proved and
in no run.

## 5. What is not modelled

Numerics, physics, mesh, boundary conditions, input, evidence output: they
compute floating-point data or text, and reach these models only as the status
an attempt ends with, or as the outcome of a test in a solver. `PROJECT.json`
lists every part with the reason. Left out of what is modelled:

- the saturation of the mutation revision and of `zero_rhs` counters at 2^64 - 1;
- the restart files' encoding, the reader's memory budgets and its redistribution
  over another number of ranks, and two jobs that write into one directory;
- MPI failures of a consensus on some ranks only, in the halo engine and in the
  linear solves: no protocol of the code survives them, since the status that
  would report one travels over the same call. The transaction, the clock and the
  driver do model them;
- moving or destroying a halo engine, and chunking, which is one message here;
- in the linear solves: the Hypre backend, the interior of
  a multigrid cycle (one smoothing and one residual stand for all levels), the
  best-iterate bookkeeping of BiCGSTAB, and the exact path of the coupled solve (`rho_active`);
- the status with which FGMRES forms its solution: the code drops it, and the true
  residual measures the result;
- two operators whose ordinary applications return before the exchange if views
  are invalid on one rank only (`PressureEnergySchurOperator` without a compiled
  enthalpy operator, `PressureEnergyCoupledSchur`): the product uses them prepared;
- of the body of `execute_attempt` (`src/core_product_freeze.cpp:8940-22262`)
  `ProductDriver` knows one step with any outcome. Of its some two hundred collective
  calls the prediction, the two corrections with the coupled solve, the candidate
  search and the acceptance are programs; the refinement of the second correction
  and `solve_epoch.observe` are not. The programs are four: that one starts in the state another has left is not checked;
- of the prediction: parcels and stochastic fields (their consensus calls between
  `src/core_product_freeze.cpp:9646` and `:10560`, the mass source of `predict` at
  `src/solver_thermophysical_predictor.cpp:1237`), and the early returns of
  `normalize_closed_gauge` on one rank, which would be one more `LoneCheck` and
  repeat what the thermodynamic state has made sure of. A failure at the exchange of the velocity is taken as numerical
  and as recorded by the rank that failed, so that `publish_numerical_failure_context`
  always runs to its end;
- the compilation of the projection and its first `prepare_linear_lifecycle`;
- of the candidate search: `stationary_only`, the alpha-zero oracle of the tests,
  and `evaluate` outside the candidate scope;
- the remote donor exchange of the immersed boundary
  (`src/parallel_ibm_donor.cpp`), a second exchange engine, which appears only as
  the one call it is to its users;
- `finish_spray_attempt`: only tests call it. The product commits parcels in
  `commit_pending_attempt_side_state`, which `CommittedTogether` covers.

## 6. Plan

1. `AttemptTransaction` with `TimeLevels`, `TimeController`, `ProductDriver`,
   `CpuThreadTeam` with `FanOut`, `RestartPublication` with `CheckpointStore`:
   modelled, checked and proved.
2. `HaloEngine` with `BulkExchange`: modelled, checked and proved, but for the return of
   every round, which is liveness.
3. `CollectiveProgram` with the Krylov solvers, the starts of the driver, and of an
   attempt the prediction, the corrections, the candidate search and the acceptance:
   modelled and checked; proved for any number of ranks from a condition on each
   program. Next: the refinement of the second correction, and the phases of an
   attempt as one program.
4. `FaceFluxReplicas`: replica choice, committed and previous views, restore.
5. The restart reader on another partition, with its budgets.
