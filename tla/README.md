# A verification project for eggbench

Eggbench runs a benchmark experiment from a versioned plan: it starts the
services of the plan, runs warmups and measured trials against them, closes
everything down again and publishes an immutable `.eggb` evidence bundle, which
is compared with other bundles offline. This directory holds TLA+ models of the
parts of it that are hard to test, the TLC configurations that check them and
the TLAPS proofs about them. Paths below are relative to the repository.

## The system and its components

| Component | State it keeps | Operations | What makes it correct |
|---|---|---|---|
| **Run orchestration** `eggbench-runner/src/orchestration.rs` | `RunState` (status, primary failure, staging error, cleanup failures, trials, records, timeline), `TelemetryPlan`, the cancellation token | `execute_run_with_diagnostics`: admission, telemetry probes, startup, diagnostics, correctness checks, warmups, trials, reset, cooldown, drain, teardown, evidence staging, publication | one primary cause, closed timeline, services that came up are down on return, no trial without telemetry, a cancelled run is never "completed", nothing published without evidence |
| **Session** `session.rs`, `platform.rs`, `probe.rs`, `service.rs`, `spec.rs` | running services in start order, bindings, lifecycle events, retained logs | `prepare`, `startup`, `apply_readiness`, `shutdown`, `teardown_running`, `stop_process` | dependencies before dependents, reverse teardown, all or nothing startup, no process left behind, bounded logs |
| **Evidence bundle** `eggbench-core/src/evidence.rs`, `eggbench-runner/src/prepare.rs` | staging directory, registered artifacts, byte and count budgets, the final path, a lock file (not on Linux) | `prepare_bundle`, `BundleWriter::create`, `add_artifact`, `finalize`, `publish_staging`, `BundleReader::open`, `verify` | publication is atomic and exclusive, a crash never leaves a readable partial bundle, what is published verifies |
| **Telemetry, diagnostic, correctness seams** `telemetry.rs`, `diagnostics.rs`, `correctness.rs` | registries, index contracts | traits with `preflight/start/stop/drain` and `execute` | windows pair up, an index describes what ran |
| **Collectors** `eggbench-drivers/src/gregg`, `prometheus_http.rs` | endpoint, polling task, window of samples | `preflight`, `start_trial`, `stop_trial`, `drain` | no polling task outlives its window, a required field comes from a whole window, what is lost is recorded |
| **External drivers and oracles** `external/*.rs` | child process and group, bounded output, drains | `run_command`, `execute`, `drain` | child is reaped on timeout and cancellation, an outcome is whole, a call ends |
| **In-process drivers** `eggstack/*.rs`, `eggstack/path/*.rs` | connections, claims, path diagnostics | `execute`, `run_evidence`, `drain`, `dial` | counts add up per invocation, evidence passes its readers, no task outlives the drain |
| **Plan, resolution** `plan.rs`, `resolved.rs`, `types.rs` | none (pure) | parse, validate, resolve | a valid topology has a launch order, what is accepted can be lowered |
| **Comparison** `comparison.rs` | none (pure) | load inputs, compare, aggregate | a completed run loads, nothing passes unobserved, verdict precedence, pairs are neighbours |
| **Metrics, qualification** `metrics.rs`, `qualification.rs`, `security.rs` | none (pure) | normalize, gate | no fabricated zeroes |
| **CLI** `eggbench-cli` | none | `run`, `doctor`, `inspect`, `compare`, `validate` | exit codes tell the outcome |
| Environment, subject, secrets, catalog | none | capture, redact, list | I/O, formatting and tables: not modelled |

| Component | Modules | Proofs |
|---|---|---|
| Run orchestration, the seams | `Orchestration`, `RunContract` | `OrchestrationProofs` |
| Plan, session | `PlanValidation`, `Preparation`, `Session`, `SessionContract`, `LogSpool` | `PreparationProofs`, `SessionProofs` |
| Evidence bundle | `EvidenceBundle`, `BundleSlot` | `EvidenceBundleProofs` |
| Collectors, their registry, the windows of the coordinator | `Scrape`, `Telemetry` | `TelemetryProofs` |
| In-process drivers, the paths of plans | `PathEvidence`, `Fetch` | `FetchProofs` |
| External drivers and oracles | `ExternalCommand` | `ExternalCommandProofs` |
| Index staging, comparison, `eggbench compare` | `ComparisonInput`, `Comparison` | `ComparisonProofs` |

How they interact: the CLI resolves the plan, creates a `BundleWriter`, prepares
a `LocalSession` and calls the coordinator, with a task that cancels a token
when a signal arrives. The coordinator awaits the session, the collectors, the
executors and the reset hook one at a time; each await is raced against a
timeout or the token (an adapter's start against the token only). Executors receive child tokens. The coordinator stages
artifacts into the writer and finally lets it publish. Nothing else is shared.

The hard behaviours are therefore: a cancellation between any two steps; a
component that fails, hangs or answers late, on every one of the many exits of
the coordinator; failures during cleanup; several failures in one run; processes
that ignore their termination; a crash of the runner while it writes a bundle.

## Module `Orchestration`

One module for `execute_run_with_diagnostics`
(`crates/eggbench-runner/src/orchestration.rs:804`). The coordinator is one
sequential task, so its place in the code is one variable, `pc`, whose values
are the sections of the function; `at` is the index of the loop it is in. The
other variables are the fields of `RunState` and `TelemetryPlan`, under the
source's names where TLA+ allows, and the token (`cancelledAt`, which remembers
*where* the run was cancelled, so that a property can speak of it).

| Section of the code | Actions |
|---|---|
| `preflight`, phase bound, evidence capacity | `Refuse`, `Admit` |
| `preflight_telemetry`, before startup and after readiness | `ProbeSkip`, `ProbeSucceeds`, `OptionalProbeFails`, `RequiredExternalFails`, `RequiredManagedFails`, `ProbeEnds` |
| startup | `StartupBegin`, `StartupSucceeds`, `StartupFails`, `StartupBlames` |
| `run_diagnostic_phase` | `DiagnosticSkip`, `-Cancelled`, `-Begin`, `-Unstaged`, `-Done`, `DiagnosticsEnd` |
| `run_correctness_phase` | `CheckBegin`, `CheckCancelled`, `CheckUnstaged`, `CheckErrs`, `CheckObserved`, `CorpusObserved`, `CorpusInvalid`, `ChecksEnd` |
| warmups | `WarmupBegin`, `-Done`, `-Unstaged`, `-Fails`, `WarmupsEnd` |
| trials, `start_trial_telemetry`, `execute_invocation`, `stop_trial_telemetry` | `TrialBegin`, `TrialCancelled`, `WindowOpens`, `WindowFails`, `MeasureBegin`, `MeasureEnd`, `TrialSucceeds`, `TrialUnstaged`, `TrialUnobserved`, `TrialFails` |
| reset, cooldown | `ResetBegin/Done/Fails`, `CooldownBegin/Done/Cancelled`, `TrialsEnd` |
| drains, teardown | `DrainBegin/End`, `TelemetryDrainBegin/Succeeds/Fails`, `TeardownBegin/End`, `NothingToTearDown` |
| evidence, finalization, publication | `StageEvidence`, `Finalize`, `Publish`, `PublishFails` |
| the signal forwarder of the CLI | `Cancel` |

Each await is two actions, so `Cancel` can fall between them. What an awaited
component answers is any value of its result type. The one place where the code
reads the token several times in a row and the reads can differ (a failed
startup, lines 930-951) is two actions as well.

`StartupFails` has two ends. Most failures have torn down what was started; a
refused binding has not (`session.rs:584`, `607`), and `services` is then
"abandoned": up, and not known to the coordinator, which shuts down only what an
`Ok` of startup gave it.

Abstracted: time (a timeout is an answer), artifact contents (staging an
artifact succeeds or fails), seeds and paired arms, warnings. Registration of
executors is assumed where the preflights have established it.

`RunContract` is the abstract specification: a stage, the state of the managed
services and a verdict. It says that only an unstarted run is refused, that work
is done only by a healthy run with its services up, that the verdict leaves
"Completed" once, that services which came up are down before the run is sealed,
that a run whose services were abandoned by their startup works nothing, and
that only intact evidence is published. A run that works or cleans up ends; one
that prepares may wait for its services. `Orchestration!Contract` maps the sections to
stages and a staging error to the verdict "unreported".

### Runs

All runs use `MCOrchestration`, which defines the collectors and diagnostics of
the plans. Deadlock checking is off because a run stops when it returns.

| Run | Plan | What it shows |
|---|---|---|
| `orchestration_trials` | 1 warmup, 2 trials, reset, cooldown, a required managed, a required and an optional external collector (and one unregistered), 2 corpus checks, managed services | the timeline and its budget, the evidence of the trials, cancellation, termination, the contract |
| `orchestration_diagnostics` | required pre, optional both, required post diagnostic, 2 security checks | the verdict, its first cause and the services around the observation sections |

The configurations `StagingCause`, `MaskedPrimary`, `OptionalDiagnostic` and
`AbandonedServices` are the smallest plans on which the code does not do what a document says of it (see
Disagreements).

Two trials are the least with something between them, two collectors the least
for a window that fails after another opened, two checks the least for a partial
series, and three diagnostics cover both slots and both requirements. Everything
in the coordinator that depends on an earlier iteration depends on the last one
only, so longer loops repeat the same states. `MaxPhaseEvents` is 100 in place
of the code's 10 000, far above what these plans need; the refusal of larger
plans is part of `Refuse`.

### Properties

`TimelineClosed`, `PhaseBudget`, `EvidenceTruthful` (every staged trial descriptor
tells what became of its trial, and a completed run has all of them),
`CancellationHonoured`, `VerdictExplained`, `PrimaryPreserved` and
`ServicesOutliveWork` are each explained where they are defined.
`MeasuredUnderTelemetry` and the types are proved and have no run of their own.
`CancellationHonoured` names the sections in which a cancellation
comes too late: after teardown, and with no managed service already after the
last drain, the token is not looked at again. `ServicesOutliveWork` says that
what works finds its services up, that services which came up are down when the
run returns, and that a run whose startup abandoned them has no trial and is not
reported completed; that the abandoned ones are down too is false
(`AbandonedServices.cfg`).

`Termination` assumes `WF_vars(pc # "starting" /\ Run)`: behind startup every
await of the coordinator is inside a `timeout`, a `select!` with the token or a
deadline, or is bounded in the session; the shutdown of an adapter by what
`ServiceHandle::shutdown` asks of it ("within the given allowance",
`service.rs:167`). Startup is different: it waits for the `start` of an adapter
without a deadline (`session.rs:649`), and all that ends this wait for certain is
the token. So its fairness is `WF_vars(StartupHears /\ Startup)`, with
`StartupHears` the cancellation, and `Termination` exempts a run that waits in
startup for ever and is never cancelled. Its mutant is a startup that is not
given the token.
`PrimaryPreserved` is checked on plans with at most one kind of correctness
check; with both it fails (`MaskedPrimary.cfg`).

### Proofs

`OrchestrationProofs` proves, for every plan that satisfies `PlanAssumption`, all
the safety properties of the module: `TypeCorrect`, `TimelineIsClosed`,
`VerdictIsExplained`, `ServicesOutlive`, `MeasuredWithTelemetry`,
`CancellationIsHonoured`, `BudgetIsKept`, `EvidenceIsTruthful`, and, with at most
one kind of correctness check, `PrimaryIsPreserved` and `KeepsContract` (initial
states and steps of the coordinator are those of `RunContract`).

None of the invariants is inductive alone. `ControlInv` is:

- `FieldsTyped`, the types with the timeline known to be a sequence of events;
- `TimelineInv`: the last event is open exactly in an open stage, because
  `Finish` rewrites the last one and has to find it open;
- `ServicesInv`: which stages the services are up in. `drain` and the stages
  behind it can be reached both before and after startup, so what is invariant
  is the pair of stage and `services`;
- `VerdictInv`: in the experimental stages the run is healthy, and a primary
  failure stands exactly when the run is not completed or its evidence is lost;
- `TelemetryInv`: which sources are active at which point of the two probes, and
  that after a discarded probe the token is cancelled, so that no trial begins.

`AccountInv` adds to it what counts and remembers:

- `CancelInv`: a run that would still be reported completed was cancelled at one
  of the stages listed for its section, or not at all. The list grows from the
  last drain to the publication, and its length depends on whether there are
  collectors to drain and services to tear down, as that of `TooLate` does;
- `BudgetInv`: at most how many events the timeline has, for each section and loop
  index. The bound of admission is one number; what is inductive is the sum of
  what the sections before this one can have added, with the diagnostics counted
  as far as their loop has come (`Upto`), and `SlotsAddUp` relates those counts to
  the number admission takes;
- `ProgressInv` and `LoopInv`: how many warmups, measured trials, resets and
  cooldowns the timeline holds (`Tally`) at each loop index, and that a run which
  is still "Completed" behind its loops has all of them;
- `EvidenceInv`: the descriptors and the measured events name the same trials with
  the same outcomes (`Sound`) until evidence is lost, while a trial is open the event
  is one ahead, and a "Completed" run has a `CleanTimeline`. `LastEvent` says which
  kind the open event is: closing it rewrites the last one.

The counts are cardinalities of the set of positions of a kind of event
(`EventsOf`): an append adds one position or none, and rewriting the last event
adds none, which is all that the proofs use. Each part has one lemma per group of
actions. `PrimaryIsPreserved` follows from the gates (`GotoIfHealthy`) and the
`status = "Completed"` guards, which `VerdictInv` turns into `primary = None`.

The runs have managed services; plans without (`Managed = FALSE`) are covered by
the proofs only.

Only model-checked: `Termination` and the fairness part of `ImplementsContract`
(liveness).

## Modules `PlanValidation`, `Preparation`, `Session`, `LogSpool`

### `PlanValidation` and `Preparation`

What happens to a plan before anything is started. Three pieces of code check it
in turn, and each relies on the ones before:

| Code | Module, actions |
|---|---|
| `ExperimentPlan::validate` (`eggbench-core/src/plan.rs:843`), called by `resolve_plan` | `PlanValidation`: one action per section, in the order of the code: `ValidateFeatures` (schema versions and incompatible parts), `-Path`, `-Services`, `-References`, then `ensure_acyclic` as `VisitRoot`, `VisitDependency`, `LeaveService`, `Acyclic`, then `ValidateWorkload`, `-Paired`, `-Diagnostics`, `-SecurityChecks`, `-CorpusChecks`, `-Trials`, `-Metrics` |
| `prepare` with `topological_order` (`eggbench-runner/src/spec.rs:195`) | `Preparation`: `EnsurePlatform` (with `normalize_workspace_root`), `PrepareSubject`, `CountDependencies` (one service of the first loop), `FillQueue`, `PopReady` (one turn of the queue), `CheckCycle`, `PrepareService` (one turn of the loop over the order), `Prepared` |
| `preflight`, `preflight_http_corpus_inputs`, `preflight_diagnostics`, `preflight_correctness` (`orchestration.rs`) | `Preflight`, `PreflightExecutors` (skipped by a cancelled run) |

The functions are pure; their local variables are the state, so that the
invariants of the two searches can be stated: `temporary`, `permanent`, `indegree`,
`dependents`, `ready`, `ordered` keep their names, `stack` is the recursion of
`visit`, `counted` and `walked` are the positions of the loops of `prepare`,
`launch` is `launch_order`; `section`, `stage`, `rejected` and `error` say where
the plan is and how it was refused. A section refuses with the category of its
first check that fails (`First` of a list of `When`s). The limits of a single field (a URL, a
digest, a path, a count) are abstracted to the `defect` of a service, the `flaw`
of a request or load, and the parts a plan has in `excess`; what makes a program,
directory, argv or secret unusable to the first check a service fails.
`validated = FALSE` stands for a resolved plan built by hand, which the public
`prepare` and `execute_run` accept too.

The run `preparation` takes a set of families of plans: every graph on three
services with up to two dependencies each (repetitions, self loops, cycles and
unknown names included; declared out of name order), validated or not; on a chain
of three, every combination of owner, kind, failed check, subject, platform and
workspace; and for each section of validation the plans that differ in what it
looks at, with one thing wrong or nothing: bindings and their sources, the
optional parts in every schema version, requests under equal names and at missing
targets, arms and trials and resets, loads, metrics. Three services are the least
with a cycle behind a dependency and with a managed service that depends on
another through an external one.

`RefusesExactlyInvalid` says that both searches find a cycle exactly when there is
one and that no later check refuses what an earlier one has promised.
`PreparedIsPreflighted` says what the launch order owes the plan, and that every
name an admitted plan contains leads somewhere (`NothingDangles`). Both are
proved as well.

### `Session`

`LocalSession` (`session.rs`). `stage` is where its task is, `next` the entry of
the launch order being started, `stopping` the service popped by the teardown;
`running`, `bindings`, `consumed` (`binding_consumptions`), `events`, `retained`
are its fields, `failures` the local list of the teardown and `reported` what the
caller gets. `proc` is what is behind each entry: absent, alive, exited (a
zombie), reaped. The plan does not bound the length of an `http_url`, so a
declared one is any of `Declared`: "Valid" (up to 2048 bytes), "TooLong" (up to
4096: the bindings take it and a command that consumes it refuses it) or
"Refused" by the bindings. What an adapter publishes and the external binding
may be too long as well. `cause` tells the two returns of a refused binding,
"BindingRefused", from the other `InvalidPlan`s.

| Code | Actions |
|---|---|
| `check_probes_registered`, loop of `startup` | `Startup`, `BeginEntry` |
| argument and environment bindings, the token, `spawn_one` | `Resolve`, `SpawnCancelled`, `SpawnFails`, `Spawn` |
| `apply_readiness`, `wait_for_exit_cancel`, `check_alive` | `ReadinessCancelled`, `DelayExited`, `DelayElapsed`, `ProbeAttempt`, `ProbeAgain`, `ProbeTimeout`, `ProcessExitedEarly` |
| `publish_spec_bindings` | `ProcessReady`, `ProcessBindingRefused` |
| `start_adapter` | `AdapterStartCancelled`, `AdapterStartFails`, `AdapterDropped`, `AdapterConflicts`, `AdapterConflictStopped`, `AdapterStarts` |
| `apply_adapter_readiness`, `merge_checked` | `AdapterReadinessFails`, `AdapterReady`, `AdapterBindingsClash` |
| `shutdown`, `teardown_running`, `cancel_after_start`, `attach_cleanup` | `Shutdown`, `StopNext`, `AdapterStopped`, `Stopped`, `TeardownDone` |
| `stop_process`, `wait_for_child_exit` | `ChildReaped`, `GraceElapsed`, `KillGroup`, `KillFails`, `KillWaitElapsed` |
| the environment | `Cancel`, `ProcessExits` |

`SessionContract` is the abstract specification: services are acquired one by
one and released one by one, a session is up only when it owns all of them, and
a session that failed or stopped owns none, except by the way out it calls
"Abandoned", which is that of the refused binding. Under the mapping `Phase` and `Owned`, every step of `Session` is a
step of it or none, and a teardown that began is carried through.

| Run | Launch order | What it shows |
|---|---|---|
| `session` | a service ready at once, a process with a declared endpoint behind a delay, an adapter behind a delay, a probed process that consumes what both publish and an external binding, an adapter with declarations of its own; every value of every binding | order of startup and teardown, what a failed startup leaves, cancellation, the contract |
| `cleanup_lost` | a process with a declared endpoint and its consumer | a failed startup that does not report what its teardown could not stop (violation) |

`LeftRunning.cfg` takes the plan of `cleanup_lost` with declared values that may
be refused: see Disagreements. `FailedStartupLeavesNothing` exempts the two
returns it is about, and nothing else.

Each kind of readiness, of service, of binding source and of dependency occurs;
the loop treats every entry alike and teardown pops one service at a time.

Fairness: the session's own steps are taken, which includes that each bounded
wait ends (`WF` of start and teardown steps), and the deadline of a probe passes
(`WF` of `ProbeTimeout`, because attempts and backoffs alternate for ever
otherwise). A process need never exit, an adapter need never answer `start`;
that it answers `shutdown` is what `ServiceHandle::shutdown` asks of it
(`service.rs`). Nobody has to cancel or to shut down.

Not modelled: the branch of `stop_process` for an unsupported platform (`prepare`
refuses it), a spawned child without pid or pipes, errors of `try_wait`, reuse of
process ids, descendants of a process.

### `LogSpool`

One output stream: writers, pipe, drain task, `SpoolState` and the join of the
teardown. Bytes are counted. `Push` is `SpoolState::push`; `ReadChunk`, `ReadEof`
and `ReadFails` are the branches of the drain loop; `JoinBegin` and `JoinEnd` are
`join_drains`, which may come at any time because a descendant can hold the pipe
open after the process was reaped. The run `log_spool` writes seven bytes through a pipe of
three, read in chunks of at most two into a spool of three: chunks end below, on
and above the cap. Fairness: a writer that can write does, the drain task is
scheduled, the join is bounded; nothing says that writers exit or reads fail.

### Proofs: `PreparationProofs`

The theorems hold for every set of plans that satisfies `PlanAssumption`: any
number of services, dependencies with any repetition, self reference or unknown
name, any requests. It asks that the fields of a plan have the types of the code
and that a plan built by hand names each service once (`topological_order` would
refuse another: it finds fewer names than services); of a plan that is validated
nothing is assumed that `validate` checks. The inductive invariant `Sane` has three
parts:

- `Validated`: after each section the plan has what that section looks for
  (`Promised`, one conjunct per section, with lemma `...Checked` for the list of its
  checks), and a rejection as circular has a circle.
- `Searching`: the depth first search. Its calls are a path through the
  dependencies without repetition (`IsPath`), each dependency of a service being
  visited is done, next or still to visit (`AllSeen`), and what is done is closed
  under dependencies and meets no circle (`IsDone`). A service met again while it
  is being visited closes the path (`PathCloses`); a service left has only
  dependencies that are done (`Popped`). At the end every name is done, so there is
  no circle.
- `Preparing`: the queue. While it counts, indegrees and dependents are those of the
  services counted (`Counting`). While it drains, an indegree is the number of
  dependencies that are not settled, and the queue holds exactly the services that
  wait for none but settled ones (`Queueing`): each service is released once, by the
  last of its dependencies, and repetitions do not matter because dependencies are
  counted as a set. An empty queue with services left over has those for a circle;
  otherwise the order is total and sorted (`InOrder`). `Walked` relates the launch
  order to the part of it that `prepare` has passed; `Blames` says what a refusal may
  say of the plan.

`RefusalsAreExact` and `PreparedPlansAreSafe` read the two properties off `Sane`,
and `PreparationTypeCorrect` the types.

### Proofs: `SessionProofs`

`SessionProofs` holds for every launch order that satisfies `LaunchAssumption`,
any number of services of either kind, any readiness and any dependencies that
point backwards (which `PreparedPlansAreSafe` says of the order `prepare` computes).

- `Safe` is the control invariant: the types, `KindInv` (which stages a process
  and which an adapter can be in), and `PlaceInv`. Its core is that `running` is
  always the prefix `1 .. m` of the launch order, with `m` fixed by the stage:
  `next - 1` before a spawn, `next` while waiting for readiness, `N` once up, and
  the popped service is `m + 1`. Startup appends at the end and teardown pops
  from the end, and only because both do is `running` a prefix.
- `HistoryInv` relates the recorded events to that prefix: what was spawned is
  running, is being stopped or was stopped (`SpawnInv`); before the teardown
  nothing was stopped and everything before `next` was ready (`EarlyInv`);
  "CancelledBeforeSpawn" belongs to a startup that failed at once (`CauseInv`).
  Lemma `History` says what one more event changes of "occurred" and "before".

From these follow `StartupRespectsDependencies`, `TeardownRespectsDependencies`,
`NoStopIsLost`, `CancellationErrors` and `LogsKept`. `FailureLeavesNothing` adds
`EmptyInv`, that a failed startup runs nothing unless a binding was refused; with
`HistoryInv` every service it spawned was stopped or its stop is recorded as
failed. It assumes nothing of the bindings, and the adapters are part of it.
That every recorded failure reaches the caller is not proved: it is false, which
is the run `cleanup_lost`. `KeepsTheContract` is the safety part of
`ImplementsContract`, step by step under `Phase` and `Owned`.

The last part proves `SpoolTypeCorrect`, `CountersAgree` and `NothingIsLost` for
every pipe, chunk and spool size. The strengthening says that an ended drain
task has seen the write end closed and the pipe empty.

Only model-checked: `CancellationEndsStartup` and the fairness part of
`ImplementsContract` and `NeverBlocked` (liveness).

## Modules `EvidenceBundle`, `BundleSlot`

Several runs that aim at one destination: `prepare_bundle` and `BundleWriter` of
each, `publish_staging` in both its variants (`protocol`), the reader, and the
directory they share (`published`, `lock`). Each writer has its own staging tree
(`files`, `disk` for `manifest.json`); a run goes through the program points
`step`.

| Code | Actions |
|---|---|
| `BundleWriter::create` | `Create` |
| `add_artifact`, called by `prepare_bundle` and later by the coordinator | `AddBegin`, `CopyDone`, `CopyFails`, `AddRefused` |
| the coordinator returns an evidence error | `Drop` |
| `finalize`: manifest, tree check | `Finalize`, `ManifestBegun`, `ManifestWritten` |
| `publish_staging` on Linux | `RenameNoReplace` |
| `publish_staging` elsewhere | `TakeLock`, `CheckDestination`, `RenameLocked`, `Unlock` |
| `finalize` after publication | `SyncParent`, `Reopen` |
| the environment | `Crash`, and the failing branch of every file operation |

`ReaderAccepts` is what `BundleReader::open` and `verify` would say of a tree at
the final path at this instant. `BundleSlot` is the abstract specification: a
slot that is filled once. It is implemented under the mapping `Bundle`, the
whole content of the destination, so the refinement also says that nothing is
changed after publication.

| Run | Bounds | What it shows |
|---|---|---|
| `evidence_bundle` | two runs, three required artifacts, a trial result and a log of which one does not fit any more, three lists of trials of which one may name what was never staged, a budget of count, size and total that is reached, both protocols | what a run is charged for is what it staged, what is published verifies, the slot is filled once, `finalize` returns |

`PublishedAnyway.cfg` has the same bounds: see Disagreements.

Two runs are enough for the publication protocol: it speaks of one destination,
and what a run sees of all others is whether the destination and the lock are
there. Every bound of the budget is met exactly and exceeded. Fairness: the steps
of `finalize` are taken (it is synchronous); nothing says that a run stages
anything, finishes, or does not crash.

Not modelled: legacy manifests, comparisons, the paired record, symbolic links
and path syntax, `trial_metrics`, other programs in the directory, loss of power.

### Proofs: `EvidenceBundleProofs`

For any number of runs, artifacts, trials and any budget, and both publication
protocols: `PublishedAlwaysVerifies`, `ResultsAreTruthful`, `FillsTheSlotOnce`
(the whole refinement of `BundleSlot`) and `TypeCorrect`. The inductive
`BundleInv` adds to the two properties:

- `Shapes`: the types of what publication looks at;
- `TreeInv`: the tree of a run past the manifest passes the reader's checks and
  its manifest is on disk before the rename, and the run that published is past
  every step that could change its tree;
- `ResultInv`: a run has a result exactly when it is done, it syncs and reopens
  only what it published itself, and lock steps occur with the lock protocol.

Mutual exclusion by the lock is not among them, and not needed: a rename onto a
bundle that is already there fails, because a directory that is not empty is
never replaced.

`StagingInv` adds, for `TypeCorrect`, which artifacts preparation has staged.

`ChargesExactly` proves the accounting of the budget, and needs no induction over
the records of a run: the bytes of a set of records are a set of pairs
(`BytesOf`), the sum of their sizes is its cardinality, and one more record adds
as many pairs as it has bytes (lemma `SizeSumAdds`). `ChargeInv` says of each run
that it has charged the sum of its records, within its limits, that the tree has
just one file at a recorded path, of the recorded size, and that a copy in
progress writes to a path no record names; `ChargeKept` goes through the steps of one run, and
the others keep theirs (`ChargeStays`). The budget of a copy that failed midway
is given back although its partial file may stay.

Only model-checked: `FinalizeReturns` (liveness).

## Modules `Scrape`, `Telemetry`

The collectors under the coordinator. `Scrape` is the pure half: which requests
the registry of the command line builds a collector for, what makes an answer of
an endpoint unusable, what a window keeps of its samples and what it gives its
trial. `Telemetry` is the protocol: the two probe points, the windows of the
trials, the polling tasks and the final drain.

| Code | Definitions |
|---|---|
| `workload_registry.rs`, `endpoint.rs`, `load_prometheus_mapping` | `Refused`, `Registry`, `Builds`, `MappingLoads`, `LoopbackOnly`, `PrivateOnly` |
| `parse_exposition`, `fetch_sample`, `preflight_inner` | `PageRejected`, `ParsedPage`, `SnapshotRejected`, `Probed` |
| `push_sample`, `push_snapshot`, `aggregate_metrics`, `counter_delta` | `GreggPush`, `PrometheusPush`, `HostOutput`, `CounterReset`, `RequiredGap`, `ScrapeOutput` |
| `preflight_telemetry` | `PassOver`, `ProbeSucceeds`, `ProbeFails`, `ProbeDiscarded`, `PointEnds` |
| `start_trial_telemetry`, `start_inner` | `BeginTrial`, `OpenWindow`, `OpenFails`, `Measure` |
| `stop_trial_telemetry`, `stop_inner` | `WorkEnds`, `TakeWindow`, `Joined`, `StopExpires`, `FinalSample`, `NoFinalSample`, `Closed` |
| `drain` | `Drain`, `Drained` |
| `poll_loop` of both collectors | `Poll`, `PollAnswers`, `PollFails`, `Obey` |

The two tasks differ in one place that matters: the Prometheus task races its
request against its token, the Gregg task looks at the token only between
requests, so only the first can `Obey` in the middle of one. `seen` and `lost` of
a window are history variables.

The run `telemetry` keeps two samples a window (`Retained`; 256 and 512 in the code, and a bound in bytes),
polls twice and has two trials: with the start and the final sample a window
holds up to four, so that the bound is met, exceeded by one and by two, and a
task that outlives its trial meets the next one. `warned` holds the sources whose
window ended without its final sample, for which the trial carries a warning. The request lists hold both
collectors, required and optional, together and alone, each with one flaw at a
time; every reason to reject a snapshot or a page occurs in one answer.

Fairness: `WF` of the coordinator (each of its awaits has a timeout, so something
happens), of the end of a task's request (the request has a timeout) and of a
task that is told to end. That an interval ends, and that a cancellation comes,
is never assumed.

`WindowsPaired` is about the early exits: a window whose sibling fails to open, a
failed stop, a probe point that is discarded. `RequiredIsWhole` and
`NothingLostSilently` compare what the trial is given with the history of the
window: a value that reaches a comparison was computed from all the samples, or
says how many are missing. A final scrape that fails or is skipped does not fail
the trial, so a required counter is its gain up to the last snapshot there is;
`RequiredIsWhole` says that this is the final one or that the trial is told
otherwise, and `FinalScrapeLost.cfg` shows what the documentation says instead. `PollingEnds` is the weakest claim that holds: the
stronger one of the documentation, that no task outlives its *trial*, does not.

### Proofs: `TelemetryProofs`

`WindowsArePaired`, for any plan, endpoints, answers and number of trials.
`WindowsPaired` is not inductive; `TelemetryInv` adds

- `ProbeInv`: how far the two probe points have dealt with the requests. An early
  request is served by a source that was probed, or is optional and disabled, at
  every index below `at`, unless a cancellation discarded what was found, in
  which case no trial begins;
- `WindowInv`: the open windows are those of the prefix `opened` of `active`,
  without repetition, while opening, and of its rest behind `at` while stopping;
- `TaskInv`: whose polling task may live, by step: an open window's, the one being
  stopped, one whose stop failed.

`NothingIsLostSilently` and `RequiredFieldsAreWhole` rest on `OutputsInv`, which
adds to it

- `SourcesInv`: what is probed, active or opened was built, from a request for
  that source that can be built (`BuiltBuilds`);
- `DataInv`: a window's samples are answers of its endpoint, kept and dropped ones
  add up to those taken, and without drops they are the same list. Its lemmas are
  about one window (`FreshIsWhole`, `PushIsWhole`, `FailureIsWhole`) and about who
  may change it (`DataTurn`);
- `OutInv`: until the next trial begins, the outputs are what the windows hold
  *now*. That needs the order of the stop: the task is gone before the final
  sample is taken, so nothing that was counted changes afterwards;
- `LostInv`: a snapshot is lost either to a poll that failed, which the window
  counts (`Even`), or it is the last one, and then the trial is warned. A required
  field fails on any counted failure, so what is left is the warning.

The aggregate of a metric is the same operator on both sides, so its fold is never
opened. That every sample carries a required field makes the selection of
samples the identity (`AllCarry`); that a counter which never falls from one sample
to the next never falls at all is `NeverFalls`, by a minimal counterexample. The
assumption `PagesAssumption`, that a page's values are integers, stands for the
finite numbers the parser lets through.

Only model-checked: `PollingEnds` (liveness).

## Modules `PathEvidence`, `Fetch`

The native HTTP workload (`eggstack/fetch.rs`) with the network path it dials
through (`eggstack/path`). `PathEvidence` holds what a path may be, the counters
of `SharedPathDiagnostics` as functions on records, `network-path.json` and both
its readers. `Fetch` is the concurrent half: the invocations of the coordinator
and the workers that share one claim counter and one set of counters.

| Code | Definitions |
|---|---|
| `validate` of plans, `resolve`, `lower_dialer` | `Accepted`, `Resolves`, `Lowers` |
| `execute_inner`, `run_plan`, `run_closed_loop`, `run_http_corpus_schedule` | `Begin`, `Finish`, `Budget`, `Crew`, `Expire` |
| `worker` | `Check`, `Claim` |
| `issue_one`, `issue_timed`, `issue_http_corpus_case` | `NotIssued`, `Issue`, `Reuse`, `Answered`, `RequestFails`, `Interrupted` |
| `EggstackPathDialer::dial` | `Dial`, `DialFails`, `DialSucceeds`, `Wrapped`, `WrapFails` |
| `execute_invocation` of the coordinator | `GiveUp`, `Dropped`, `Cancel` |
| `run_evidence` | `End` |

Each atomic access is a step of its own, so that two workers pass the head of the
loop together. Eggfetch, Eggress and Eggchaos are libraries: a request reuses a
connection or dials, and may fail at each await. The one state in which the
evidence does not balance, a dropped task between a dial and the count of its
wrapper, is kept (`inPoll`), and `EvidenceAccepted` says that it is the only one.

The run `fetch` has two workers, count, corpus and deadline schedules of two or three
requests over one or two invocations, direct and two-hop paths with faults on
both directions or none, and one path for each reason to refuse. One bucket for
failure labels and two labels make the overflow of the buckets happen. Two
workers are enough for the counter and the peak of concurrency, because a worker
interferes with another only through the counters, one atomic access at a time.
Fairness: workers are polled, a request ends within its timeout, the coordinator
begins and ends invocations; neither its own timeout nor a cancellation has to
happen.

### Proofs: `FetchProofs`

`SchedulesAreExact` proves `ScheduleIsExact` for any finite set of workers, any
workload and any number of invocations. The property itself says nothing of a
schedule that still runs, so the proof carries `CountInv`: every claim is an
outcome, in the hands of one worker, or still in the counter (`attempted` + the
workers that hold a claim + `claims` = `Budget`; a corpus counts up and past its
budget, so there the sum is the lesser of `claims` and `Budget`); `busy` is the
number of workers that send; and a worker ends an unstopped schedule only when
the claims are used up. When all are joined no worker holds a claim, so what was
attempted is the budget. `WorkerSteps` reduces the actions of a worker to eight
effects on these counters and `Moves` says what one worker's step does to the
size of a set of workers. Assumed: worker ids are naturals with 0 among them,
totals and concurrencies are naturals.

`EvidenceIsAccepted` proves `EvidenceAccepted` for any number of dials and any
set of failure labels. The laws both readers check are about sums of counters
that several dials move at different moments, so `PathInv` counts the dials under
way as well: the ordinals handed out are the attempts; of these some succeeded,
failed, or fell out of the buckets, and one per worker is open (`Dialing`), which
a timeout may take away, so the sum is a bound; and of the successful ones a
faulty path has wrapped, failed to wrap, or has one per worker in between
(`Wrapping`). When no worker is between the two, the law of the wrappers holds.
That a path which is accepted is lowered needs the types of the plan
(`Typable`): a slice's variation is unsigned, so an average above it is positive.
A sum of counts is defined as the number of the units counted (`Units`, `Total`),
which says the same as adding them up and can be reasoned about without
induction: one more count is one more unit (`OneMoreUnit`).

`DeltasAreTheInvocations` proves `DeltaIsTheInvocations`. `Since` relates the
counters to the snapshot of the invocation while it runs, and `Numbers` says that
there is a set of ordinals, as many as dials succeeded since, which lies between
the least and the greatest ordinal noted, contains both, and none of an open
dial: dials that end out of order cannot make the range too short. The step that
starts it is `Begin`: nobody works between invocations (`Quiet`), so no dial of
an earlier one is counted later.

`WorkersEnd` is only model-checked: it is liveness.

## Module `ExternalCommand`

One call of an external tool: the commands a driver runs one after the other
(`Probe`, `Validate`, `Load`, ...), each a `run_command`
(`external/command.rs`) with a child process, a descendant in its group, two
drain tasks and a deadline, under a coordinator that races the call against the
token and its own timeout and drops it.

| Code | Actions |
|---|---|
| `run_command`: spawn, `select!` of exit, token and deadline | `Spawn`, `Exited`, `Interrupted` |
| `terminate_child` | `Term`, `Kill`, `Discard` |
| the join of the drains, `drain_stream` | `Join`, `JoinExpires`, `Drain`, `DrainEnds`, `DrainFails` |
| what the drivers do with an outcome | `Use` (`Diagnosed`, `Understood`) |
| `execute_invocation`, `run_diagnostic_phase`, `run_correctness_phase` | `Drop`, `Due` |
| the tool | `Emit`, `Fork`, `Quit`, `HeirQuits` |

A driver is data: its commands, whether the coordinator races it, whether it
reads the marks of an outcome. Every driver has its value; `Iperf3` is that of
`Oha`. The run `external_command` takes the seven drivers whose commands contain
those of the others, with a report one block longer than what is retained (the
tool may quit after any block, so shorter ones occur) and pipes of one block, so
that a tool waits for its drains. A read of a drain may fail at any time
(`DrainFails`): the drain then ends, its stream is in `broken`, and the tool can
write no more to it. Blocks stand for the limits of the code, which differ from driver
to driver but are only compared with.

Fairness: the steps of `run_command`, the drains and the timers happen, and the
coordinator polls its own branch. The tool may run for ever, ignore TERM, write
for ever or leave a descendant that holds its pipes open: `CallEnds` is about
those.

### Proofs: `ExternalCommandProofs`

`OutcomesAreWhole` and `GroupIsCleaned`, for every driver, report and bound. The
inductive `CommandInv` says which process is left in which phase (`ProcessInv`),
that a drain that ended saw the end of its stream, with nobody left to write
more, or a failed read (`DrainedInv`), that nothing is read that was not sent
(`Counted`) and that an accepted report is within the limit (`WholeInv`). So an
accepted report of a driver that refuses truncated ones is all that the tool has
written, unless a read of it failed; nothing in the outcome tells that case, which
`ReadErrors.cfg` shows. `CallEnds` is model-checked only.

## Modules `ComparisonInput`, `Comparison`

From a run to the exit code of `eggbench compare`. `ComparisonInput` has two
halves that are written in different crates and have to agree: the slots of the
coordinator that stage diagnostic and correctness evidence, and
`load_comparison_input`, which recomputes what the plan declares and checks the
evidence against it. `Comparison` continues with the loaded candidate and any
baseline.

| Code | Definitions |
|---|---|
| `run_diagnostic_phase`, `record_skipped_diagnostic` | `RunDiagnostic`, `InterruptDiagnostic`, `SkipDiagnostic`, `SlotEnds` |
| `run_correctness_phase` | `RunCheck`, `RunCorpusCheck`, `ChecksEnd` |
| `stage_diagnostics_index`, `stage_security_index`, `validate_contract` | `StageIndexes`, `IndexVersion`, `Provenance` |
| `load_comparison_input` with its loaders | `LoadNetworkPath`, `LoadReplay`, `LoadDiagnostics`, `LoadSecurity`, `CheckRecord`, `CorpusRecord`, `ExecutionsMatch` |
| `compare`, `compare_paired`, `evaluate_comparability` | `Start`, `LoadBaseline`, `CriticalMismatch`, `DescriptiveOnly` |
| `select_trials`, `check_metric_semantics`, `select_pairs`, `paired_assignment` | `Exclusion`, `Counted`, `Selected`, `Semantics`, `CompletePairs`, `PairedAssignment` |
| `evaluate_absolute`, `evaluate_relative`, `evaluate_paired_metric` | `Absolute`, `Relative`, `StatisticalRelative`, `PairUp` |
| `aggregate`, `combine_verdicts`, `present_receipt` | `Performance`, `Combined`, `Aggregate`, `Present` |

A positive value is a power of two, given by its exponent, so that a geometric
mean is a sum; a bootstrap interval is any interval between the least and the
greatest effect, which is what resampling can give.

The run `comparison` takes every plan with up to two diagnostics of all phases,
plans with up to two checks on one host or two and up to two corpus checks, and
the path, replay and paired plans; two metrics out of seven requests (each gate
and each direction); eleven lists of unpaired and nineteen of paired trials, with
every reason to exclude a trial, zeroes and the ends of the exponents; and seven
kinds of difference of a baseline. Two diagnostics are the least whose execution
order and plan order differ, two checks the least with a second host, and two
metrics the least for the precedence of dispositions. `MinObservations` is 2 and
`Recommended` 3, in place of 5 and 7, so that lists fall below, between and
above both. No fairness: the properties are safety.

`LoaderIsExact` exempts plans whose executions are not in the order of their
slots; that exemption is the finding of the run `probes_in_order`, which takes
two diagnostics with phase `Both`. `RecordsAreObserved` exempts a check on
another host than the first one (see Disagreements).

### Proofs: `ComparisonProofs`

`VerdictIsEarned` holds for any plans, requests, trials, baselines and bounds.
`ReceiptInv` says of the records made so far that a gate belongs to a primary
metric and has a disposition, and of the verdict that it is the combination of
what `Performance` and correctness say; lemma `Precedence` is the case analysis of
the combination. `PairsAreOfNeighbours` adds `PairsInv`: the pairs of each record
are the neighbours among what it measured. It rests on `ArmsOfPair` (arithmetic of
`div_ceil` and parity), for any number of trials and any pattern of exclusions.

`JudgedByWhatWasMeasured` is about the two gates over unpaired trials.
`MeasuredInv` says that there are no records before the metrics are evaluated, so
that neither the mode, nor the candidate, nor the baseline changes under a record,
and of each record that its disposition agrees with what it was made from. For an
interval that is the definition of `Oriented` at its two ends (`StatisticalJudged`).
For geometric means it is arithmetic on sums of any length, which a recursive sum
would put out of reach of the provers. `Exponents` is therefore counted: the sum
of the exponents is the number of steps up from the least exponent to each of
them (`Climbed`), less what each has below zero. A larger summand contains the
steps of a smaller one (`SumMonotone`), d more for each summand is a bijection
with d more steps for each (`SumShift`), and both sides become sums over all pairs
of trials (`SumOfFirst`, `SumOfSecond`); so the means lie apart, or within the
limit, as all of their values do (`MeansWithin`, `MeansApart`, `RelativeJudged`).

`ChecksAreObserved` and `LoaderTakesWhatWasDeclared` follow the evidence from the
step that makes it to the step that reads it. `RecordsInv` says that every result
is that of the request at its place, with the disposition its counts call for
(`HonestResults`), that a run whose status is still `Completed` has every result of
the phases behind it (`ChecksComplete`), and what of them is in the bundle.
`ExecutionsInv` says the same of the diagnostics: the executions of a good run are
those it has dealt with, each at its place in the order of the run
(`ExecutionsInOrder`). The loader compares them with the expected ones by place,
request by request. `Place` counts the expected executions up to one, `RunPlace`
counts them slot by slot; `PlacesAgree` says that the two orders are one where
`InRunOrder` holds, and `ExpectedAt` that a place has one execution, so that
equal places make equal lists. `DealtNext` is the step: the next request of a slot
is the only one more that has been dealt with, and all before it in the order of
the run have been. Both invariants hold on the instance of the run `comparison`.


## Disagreements

Statements of the documentation or of comments that the code does not keep. The
models behave as the code does. The first two are runs of the project; the
following are shown by a configuration, `tlc -config <name>.cfg <module>`.

| Configuration, module | What the code does | What is said of it |
|---|---|---|
| `ProbesInOrder`, `MCComparison` (run `probes_in_order`) | a completed run with two diagnostics of both slots cannot be loaded for comparison: executions are staged slot by slot (`orchestration.rs:2145`) and matched request by request (`comparison.rs:1321`) | `diagnostics.rs`: "One record per diagnostic execution, in plan order (pre before post)" |
| `CleanupLost`, `MCSession` (run `cleanup_lost`) | an `http_url` of 2049 to 4096 bytes is accepted by the plan (`plan.rs:1574`) and by the bindings (`service.rs:62`) and refused for the command that consumes it (`session.rs:505`, `530`); the teardown that follows may fail, and `attach_cleanup` drops what it collected, because it does not list the variant `InvalidPlan` (`session.rs:1158`) | `docs/local-runner-lifecycle.md:18`: "The initiating failure is preserved; teardown problems are reported alongside it" |
| `ArmsMixed`, `MCComparison` | an unpaired candidate is judged against both arms of a paired baseline; only the candidate is asked for its design (`comparison.rs:2395`) | `comparison.rs:2390`: "Unpaired inference over paired evidence would silently mix arms or invent pairing, so every metric fails closed"; `docs/comparison.md:61` |
| `GreggTaskSurvives`, `MCTelemetry` | when the stop budget expires the polling task of Gregg is detached, not aborted (`gregg/collect.rs:332`) | the comment there: "abort on expiry so no polling task leaks past the trial"; `docs/gregg-telemetry.md:77` |
| `UnobservedZero`, `MCTelemetry` | an optional counter of which a window holds one sample, or none, is reported as 0 | `docs/metrics.md:111`: "omits optional missing samples rather than inserting zero" |
| `FinalScrapeLost`, `MCTelemetry` | when the final scrape fails or is skipped, a required counter with no poll in between is reported as a gain of 0; there is only a warning | `prometheus_http.rs:384`: "required mapped field was absent or a scrape snapshot was lost"; `docs/security-qualification.md:56`: "Required mapped fields missing at preflight or during a trial, and counter resets, fail closed" |
| `ReadErrors`, `MCExternalCommand` | a drain whose read fails ends like one at the end of its stream, and the bytes read so far are handed on as the output (`external/command.rs:421`) | `external/command.rs:340`: "A drain that does not complete is a failure, never empty output" |
| `Orphans`, `MCExternalCommand` | a call the coordinator drops does not reach the second signal, or any: only the child is killed (`orchestration.rs:1867`, `external/command.rs:490`) | `docs/external-drivers.md:69`: "Cancellation token plus explicit driver timeout are always observed. Unix uses a dedicated process group (TERM then KILL, ...)" |
| `StagingCause`, `MCOrchestration` | a later staging error replaces the first (`orchestration.rs:2216`) | `docs/trial-orchestration.md:90`: "The primary cause is the source bundle error" |
| `MaskedPrimary`, `MCOrchestration` | the corpus loop runs after a failed security loop and overwrites the primary failure (`orchestration.rs:2467`) | `architecture/runner-orchestration.md:411`: "a deliberate 'do not mask an earlier cause' rule" |
| `OptionalDiagnostic`, `MCOrchestration` | an optional diagnostic that errs costs the run its bundle (`orchestration.rs:2275`) | `architecture/runner-orchestration.md:352`: "An optional diagnostic negative or operational failure records evidence and warning and lets the run continue" |
| `LeftRunning`, `MCSession` | a declared binding that is refused leaves startup without a teardown (`session.rs:584`, `607`) | `docs/local-runner-lifecycle.md:17`: "Every failure or cancellation after the first successful spawn tears down already-started processes." |
| `AbandonedServices`, `MCOrchestration` | the run that met that startup returns with the services up: `services_started` (`orchestration.rs:914`) is set only on `Ok`, and the arm of the error (`923`-`954`) never calls `shutdown` | the same sentence |
| `PublishedAnyway`, `MCEvidenceBundle` | finalize fails after its rename, with the bundle in place (`evidence.rs:1160`) | `orchestration.rs:654`: "Evidence could not be truthfully finalized; ... the final bundle path was not published" |

Others were seen while modelling and have no configuration:

- a relative gate whose degradation is not finite panics on the data of a bundle
  (`comparison.rs:3691`; `DataNeverPanics` states the promise of line 2340:
  "never input data");
- the index of the security checks carries the scope of the first check, and the
  loader holds the others to it: a check at another host is invalid evidence
  (`orchestration.rs:2757`, `comparison.rs:1701`);
- the reset of an optional Prometheus counter is not seen when the samples around
  it were evicted (`docs/security-qualification.md:56`);
- a plan may name one telemetry source twice (`plan.rs:1236`); the registry then
  refuses the run, an optional request included;
- a corpus check with invalid but no failed cases has the disposition Pass
  (`http_corpus.rs:190`); the coordinator looks at the invalid ones itself;
- the marks of a timed out or cancelled outcome, which `command.rs:178` records
  "instead of a clean success", are read by one driver only; a truncated report
  of h2load is not refused; the scope file of a dropped WAF check stays; a
  cancelled preflight of the load driver is a workload failure;
- a schedule cut by its own deadline within a millisecond of the coordinator's
  may be reported completed though it is short (`fetch.rs:164`; the model has one
  deadline and `ScheduleIsExact` exempts it);
- a failure of `drain` on a path that ends in an evidence error is missing from
  the error (`orchestration.rs:1481`, `docs/trial-orchestration.md:90`);
- phases of warmups, reset and cooldown are begun after a cancellation
  (`orchestration.rs:1025`, `docs/trial-orchestration.md:114`);
- a partial series of security checks has no valid index, and the run loses its
  bundle (`orchestration.rs:2711`);
- a cancellation between two of the three reads of the token gives a failed
  startup the status failed and the cause cancelled (`orchestration.rs:930`);
- a process that was not reaped gets a `Stopped` event (`session.rs:747`);
- descendants of a leader that obeys its signal are not killed
  (`session.rs:1230`, `docs/local-runner-lifecycle.md:25`);
- `run` gives the coordinator an empty registry of reset hooks, so a plan with a
  reset passes `validate` and is refused by every run (`run.rs:445`,
  `orchestration.rs:1959`);
- an adapter's `start` has no deadline (`session.rs:649`,
  `architecture/runner-process-lifecycle.md:382`): `Termination` exempts a run
  that waits for one and that nobody cancels;
- a bundle whose name contains `.staging-` is created and published, and refused
  by the reader.

## Not modelled

- Environment and subject capture, secrets, the driver catalog: I/O, formatting
  and tables, without state another component depends on.
- `metrics.rs`, `qualification.rs` and the security corpora: pure, and mostly
  bounds and text. What of them a comparison depends on (which observations
  count, the recomputed disposition of a check) is in `Comparison` and
  `ComparisonInput`.
- Syntax: JSON, addresses, label sets, command lines, argv, HTTP transfer. A
  model enumerates the cases the code tells apart.
- The bootstrap itself: an interval is any answer resampling can give.
- `doctor`, `inspect`, `validate` and the exit codes of `run`.
- In `Session`: descendants of a process, reuse of process ids. In `Fetch`: the
  origin service, the executor of the corpus checks, latencies.

## Plan

1. `Orchestration`, its contract and the proofs about it. *Done.*
2. `PlanValidation`, `Preparation`, `Session` with its contract, `LogSpool`. *Done,
   with proofs about each.*
3. `EvidenceBundle` with `BundleSlot` and the proofs about it. *Done.*
4. `Telemetry`, `Fetch`, `ExternalCommand`. *Done, with proofs about each.*
5. `Comparison` with its input and the proofs about it. *Done.*
6. Metric aggregation, the qualification gate and the exit codes of `run` as
   operators checked against reference definitions over bounded inputs.
7. Composition: the startup and shutdown of `Orchestration` are one step each
   and stand for a `Session`, its windows for those of `Telemetry`; the contracts
   are to be joined in one module.
