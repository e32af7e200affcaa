--------------------------- MODULE Orchestration ---------------------------
(***************************************************************************)
(* The phase coordinator of a local run: execute_run_with_diagnostics of   *)
(* crates/eggbench-runner/src/orchestration.rs, from admission of the plan *)
(* to publication of the evidence bundle.                                  *)
(*                                                                         *)
(* The coordinator is one sequential task; what runs beside it is the      *)
(* cancellation token (another thread may cancel it at any instant) and    *)
(* the components it awaits: the session, the telemetry collectors, the    *)
(* workload, diagnostic and correctness executors and the reset hook.      *)
(* Every await is a pair of actions, so that a cancellation can fall       *)
(* between the start of a phase and its end; the answer of an awaited      *)
(* component is any answer its signature allows.                           *)
(*                                                                         *)
(* Abstracted: clocks (a timeout is one of the answers), artifact contents *)
(* (staging succeeds or fails), the plan's registries (every executor the  *)
(* plan names is registered, which preflight_diagnostics and               *)
(* preflight_correctness establish before anything starts), and the        *)
(* warnings that record a disabled optional collector.                     *)
(***************************************************************************)
EXTENDS Integers, Sequences, FiniteSets

CONSTANTS
  Warmups,         \* resolved.trials.warmup
  Trials,          \* resolved.trials.measured
  HasReset,        \* a reset hook is bound
  HasCooldown,     \* resolved.trials.cooldown_ms is set
  Managed,         \* the session's launch order is not empty
  Sources,         \* telemetry requests: [required, registered, managed]
  Diagnostics,     \* diagnostic requests: [slot, required]
  SecurityChecks,  \* number of Eggsec checks
  CorpusChecks,    \* number of HTTP corpus checks
  MaxPhaseEvents   \* MAX_PHASE_EVENTS

Source == [required : BOOLEAN, registered : BOOLEAN, managed : BOOLEAN]
Diagnostic == [slot : {"Pre", "Post", "Both"}, required : BOOLEAN]

ASSUME PlanAssumption ==
  /\ Warmups \in Nat
  /\ Trials \in Nat \ {0}
  /\ SecurityChecks \in Nat
  /\ CorpusChecks \in Nat
  /\ MaxPhaseEvents \in Nat
  /\ HasReset \in BOOLEAN
  /\ HasCooldown \in BOOLEAN
  /\ Managed \in BOOLEAN
  /\ Sources \in Seq(Source)
  /\ Diagnostics \in Seq(Diagnostic)

None == "None"

Statuses == {"Completed", "Failed", "Invalid", "Cancelled"}

FailureCategories ==
  {"StartupFailed", "WorkloadFailed", "TimedOut", "Cancelled", "ResetFailed",
   "DrainFailed", "TeardownFailed", "TelemetryFailed", "DiagnosticFailed",
   "CorrectnessFailed"}

PhaseKinds ==
  {"StartupReadiness", "Warmup", "MeasuredTrial", "Reset", "Cooldown",
   "DiagnosticsPre", "DiagnosticsPost", "CorrectnessChecks", "Drain",
   "Teardown", "Finalization"}

PhaseOutcomes == {"Open", "Completed", "Failed", "TimedOut", "Cancelled"}

PhaseEvent ==
  [kind : PhaseKinds, ordinal : Nat, outcome : PhaseOutcomes,
   failure : FailureCategories \cup {None}]

(***************************************************************************)
(* Where the coordinator is.  A stage named by a verb is one where it      *)
(* awaits a component with the phase event of that stage open.             *)
(***************************************************************************)
IdleStages ==
  {"admission", "probeExternal", "startup", "probeManaged", "diagnosePre",
   "check", "corpus", "warmup", "trial", "between", "stabilize", "drain",
   "telemetryDrain", "diagnosePost", "teardown", "staging", "finalization",
   "publish", "done"}

OpenStages ==
  {"starting", "blaming", "diagnosingPre", "checking", "corpusRunning",
   "warming", "opening", "measuring", "closing", "resetting", "cooling",
   "draining", "telemetryDraining", "diagnosingPost", "tearing"}

Stages == IdleStages \cup OpenStages

EvidenceFaults ==
  {"warmup", "trial", "preDiagnostic", "postDiagnostic", "check", "corpus",
   "lifecycle", "topology", "diagnosticIndex", "securityIndex", "runEvidence",
   "phases"}

TrialStatuses == {"Completed", "TimedOut", "Cancelled", "Failed"}
TrialRecord == [id : Nat, terminal : TrialStatuses]

VARIABLES
  pc,            \* stage of the coordinator
  at,            \* index of the loop it is in: source, request, warmup or trial
  cancelledAt,   \* stage at which the token was cancelled, or None
  phases,        \* state.phases
  status,        \* state.status
  primary,       \* state.primary_failure
  stagingError,  \* state.staging_error, as the step that set it
  cleanup,       \* state.cleanup_failures, as the steps that added one
  trials,        \* state.trials: staged trial results
  diagRecords,   \* kinds of record in state.diagnostics
  checked,       \* state.correctness.len()
  active,        \* telemetry_plan.active, as indices of Sources
  windows,       \* collectors whose trial window is open
  invocation,    \* answer of the measured invocation: "ok" or a category
  drainFailed,   \* the workload drain was answered by an error or a timeout
  services,      \* managed services: "idle", "running", "stopped", or
                 \* "abandoned": left by their startup, beyond the run's reach
  outcome        \* what the caller gets

verdict == <<status, primary>>
ledger == <<trials, diagRecords, checked>>
telemetry == <<active, windows>>
vars == <<pc, at, cancelledAt, phases, status, primary, stagingError, cleanup,
          trials, diagRecords, checked, active, windows, invocation,
          drainFailed, services, outcome>>

Cancelled == cancelledAt # None

(***************************************************************************)
(* Phase bookkeeping: begin_phase and finish_phase.  An event is opened at *)
(* the end of the timeline and it is always the last one that is finished. *)
(***************************************************************************)
Event(kind, ordinal, result, failure) ==
  [kind |-> kind, ordinal |-> ordinal, outcome |-> result, failure |-> failure]

Begin(kind, ordinal) ==
  phases' = Append(phases, Event(kind, ordinal, "Open", None))

Finish(result, failure) ==
  phases' = [phases EXCEPT ![Len(phases)] = Event(@.kind, @.ordinal, result, failure)]

(* Mutant of StatusFor: the category is taken for the status. *)
StatusForVerbatim(category) == category

StatusFor(category) ==
  IF category = "Cancelled" THEN "Cancelled" ELSE "Failed"

OutcomeFor(category) ==
  IF category \in {"Cancelled", "TimedOut"} THEN category ELSE "Failed"

(* Answers of an executor: cancelled, timed out, or its own failure. *)
Errors(own) == {"Cancelled", "TimedOut", own}

(* Mutant of Fail: the status is set without its cause. *)
FailSilently(newStatus, category) ==
  /\ status' = newStatus
  /\ UNCHANGED primary

Fail(newStatus, category) ==
  /\ status' = newStatus
  /\ primary' = category

(* Mutant of Settle: the token is not looked at again. *)
SettleBlindly(newStatus, category) == Fail(newStatus, category)

(* The re-check that follows an await: a cancelled run that would otherwise *)
(* be reported Completed is reported Cancelled.                             *)
Settle(newStatus, category) ==
  IF newStatus = "Completed" /\ Cancelled
  THEN Fail("Cancelled", "Cancelled")
  ELSE Fail(newStatus, category)

(* The gate in front of every experimental section. *)
Healthy == status = "Completed" /\ stagingError = None

Goto(stage, index) ==
  /\ pc' = stage
  /\ at' = index

(* Mutant of GotoIfHealthy: the section is entered whatever happened before. *)
GotoAnyway(stage) == Goto(stage, 1)

GotoIfHealthy(stage) ==
  IF Healthy THEN Goto(stage, 1) ELSE Goto("drain", 1)

CountSlots(slots) == Cardinality({i \in DOMAIN Diagnostics : Diagnostics[i].slot \in slots})

(* Mutant of PhaseBound: one fixed event less. *)
PhaseBoundTight ==
  Warmups + 3 * Trials + 2 + Len(Diagnostics) + CountSlots({"Both"})
    + SecurityChecks + CorpusChecks

(* FIXED_PHASE_EVENTS = 3, and a "Both" diagnostic executes twice. *)
PhaseBound ==
  Warmups + 3 * Trials + 3 + Len(Diagnostics) + CountSlots({"Both"})
    + SecurityChecks + CorpusChecks

-----------------------------------------------------------------------------
Init ==
  /\ pc = "admission"
  /\ at = 1
  /\ cancelledAt = None
  /\ phases = <<>>
  /\ status = "Completed"
  /\ primary = None
  /\ stagingError = None
  /\ cleanup = {}
  /\ trials = <<>>
  /\ diagRecords = {}
  /\ checked = 0
  /\ active = {}
  /\ windows = {}
  /\ invocation = "ok"
  /\ drainFailed = FALSE
  /\ services = "idle"
  /\ outcome = None

(* The signal forwarder cancels the token, once, at any instant of the run. *)
Cancel ==
  /\ pc # "done"
  /\ ~ Cancelled
  /\ cancelledAt' = pc
  /\ UNCHANGED <<pc, at, phases, verdict, stagingError, cleanup, ledger,
                 telemetry, invocation, drainFailed, services, outcome>>

(* preflight, the corpus inputs, the phase bound and the evidence capacity: *)
(* the configuration is refused, or the run goes on.                        *)
Refuse ==
  /\ pc = "admission"
  /\ pc' = "done"
  /\ outcome' = "refused"
  /\ UNCHANGED <<at, cancelledAt, phases, verdict, stagingError, cleanup,
                 ledger, telemetry, invocation, drainFailed, services>>

Admit ==
  /\ pc = "admission"
  /\ PhaseBound <= MaxPhaseEvents
  /\ Goto("probeExternal", 1)
  /\ UNCHANGED <<cancelledAt, phases, verdict, stagingError, cleanup, ledger,
                 telemetry, invocation, drainFailed, services, outcome>>

-----------------------------------------------------------------------------
(***************************************************************************)
(* preflight_telemetry, at its two probe points: collectors with an        *)
(* external endpoint before startup, collectors of a managed service after *)
(* readiness.  Cancellation, and the failure of a required source, discard *)
(* what this probe point had found.                                        *)
(***************************************************************************)
AtProbe(stage, managed) == pc = stage /\ (stage = "probeManaged" <=> managed)

Due(i, managed) == Sources[i].registered /\ Sources[i].managed = managed

Probed(managed) == {i \in active : Sources[i].managed = managed}

(* A missing collector is reported at the first probe point only. *)
ProbeSkip(stage, managed) ==
  /\ AtProbe(stage, managed)
  /\ at \in DOMAIN Sources
  /\ ~ Due(at, managed)
  /\ managed \/ Sources[at].registered \/ ~ Sources[at].required
  /\ Goto(stage, at + 1)
  /\ UNCHANGED <<cancelledAt, phases, verdict, stagingError, cleanup, ledger,
                 telemetry, invocation, drainFailed, services, outcome>>

ProbeSucceeds(stage, managed) ==
  /\ AtProbe(stage, managed)
  /\ at \in DOMAIN Sources
  /\ Due(at, managed)
  /\ active' = active \cup {at}
  /\ Goto(stage, at + 1)
  /\ UNCHANGED <<cancelledAt, phases, verdict, stagingError, cleanup, ledger,
                 windows, invocation, drainFailed, services, outcome>>

(* Mutant of OptionalProbeFails: a required collector is disabled as well. *)
AnyProbeFails(stage, managed) ==
  /\ AtProbe(stage, managed)
  /\ at \in DOMAIN Sources
  /\ Due(at, managed)
  /\ Goto(stage, at + 1)
  /\ UNCHANGED <<cancelledAt, phases, verdict, stagingError, cleanup, ledger,
                 telemetry, invocation, drainFailed, services, outcome>>

(* An optional collector that fails its probe is disabled for the run. *)
OptionalProbeFails(stage, managed) ==
  /\ AtProbe(stage, managed)
  /\ at \in DOMAIN Sources
  /\ Due(at, managed)
  /\ ~ Sources[at].required
  /\ Goto(stage, at + 1)
  /\ UNCHANGED <<cancelledAt, phases, verdict, stagingError, cleanup, ledger,
                 telemetry, invocation, drainFailed, services, outcome>>

(* Before startup a required failure returns an error to the caller. *)
RequiredExternalFails ==
  /\ pc = "probeExternal"
  /\ at \in DOMAIN Sources
  /\ Sources[at].required
  /\ Due(at, FALSE) \/ ~ Sources[at].registered
  /\ pc' = "done"
  /\ outcome' = "refused"
  /\ active' = active \ Probed(FALSE)
  /\ UNCHANGED <<at, cancelledAt, phases, verdict, stagingError, cleanup,
                 ledger, windows, invocation, drainFailed, services>>

(* After readiness it fails the run, through the common cleanup tail. *)
RequiredManagedFails ==
  /\ pc = "probeManaged"
  /\ at \in DOMAIN Sources
  /\ Due(at, TRUE)
  /\ Sources[at].required
  /\ active' = active \ Probed(TRUE)
  /\ Fail("Failed", "TelemetryFailed")
  /\ Goto("drain", 1)
  /\ UNCHANGED <<cancelledAt, phases, stagingError, cleanup, ledger, windows,
                 invocation, drainFailed, services, outcome>>

ProbeEnds(stage, managed) ==
  /\ AtProbe(stage, managed)
  /\ \/ at \notin DOMAIN Sources /\ UNCHANGED active
     \/ /\ at \in DOMAIN Sources
        /\ Cancelled
        /\ at = 1 \/ Due(at, managed)
        /\ active' = active \ Probed(managed)
  /\ Goto(IF managed THEN "diagnosePre" ELSE "startup", 1)
  /\ UNCHANGED <<cancelledAt, phases, verdict, stagingError, cleanup, ledger,
                 windows, invocation, drainFailed, services, outcome>>

Probe ==
  \/ \E stage \in {"probeExternal", "probeManaged"}, managed \in BOOLEAN :
        \/ ProbeSkip(stage, managed)
        \/ ProbeSucceeds(stage, managed)
        \/ OptionalProbeFails(stage, managed)
        \/ ProbeEnds(stage, managed)
  \/ RequiredExternalFails
  \/ RequiredManagedFails

-----------------------------------------------------------------------------
(***************************************************************************)
(* Startup.  LocalSession::startup leaves every managed service running,   *)
(* or tears down what it had started, or, when the bindings of a service   *)
(* are refused, returns with services up; module Session models it.        *)
(***************************************************************************)
StartupBegin ==
  /\ pc = "startup"
  /\ IF Cancelled
     THEN /\ phases' = Append(phases, Event("StartupReadiness", 0, "Cancelled", "Cancelled"))
          /\ Fail("Cancelled", "Cancelled")
          /\ Goto("drain", 1)
     ELSE /\ Begin("StartupReadiness", 0)
          /\ Goto("starting", 1)
          /\ UNCHANGED verdict
  /\ UNCHANGED <<cancelledAt, stagingError, cleanup, ledger, telemetry,
                 invocation, drainFailed, services, outcome>>

StartupSucceeds ==
  /\ pc = "starting"
  /\ Finish("Completed", None)
  /\ services' = IF Managed THEN "running" ELSE "idle"
  /\ Goto("probeManaged", 1)
  /\ UNCHANGED <<cancelledAt, verdict, stagingError, cleanup, ledger,
                 telemetry, invocation, drainFailed, outcome>>

(* services_started stays false after an error, so the run shuts down      *)
(* nothing of what a refused binding left up.                              *)
(* The token is read once for the status ...                               *)
StartupFails ==
  /\ pc = "starting"
  /\ status' = IF Cancelled THEN "Cancelled" ELSE "Failed"
  /\ \/ /\ cleanup' \in {cleanup, cleanup \cup {"startup"}}
        /\ UNCHANGED services
     \/ /\ Managed /\ services' = "abandoned"
        /\ UNCHANGED cleanup
  /\ Goto("blaming", 1)
  /\ UNCHANGED <<cancelledAt, phases, primary, stagingError, ledger,
                 telemetry, invocation, drainFailed, outcome>>

(* ... and again for the primary failure and the outcome of the phase. *)
StartupBlames ==
  /\ pc = "blaming"
  /\ LET category == IF Cancelled THEN "Cancelled" ELSE "StartupFailed"
     IN /\ primary' = category
        /\ Finish(OutcomeFor(category), category)
  /\ Goto("drain", 1)
  /\ UNCHANGED <<cancelledAt, status, stagingError, cleanup, ledger,
                 telemetry, invocation, drainFailed, services, outcome>>

Startup == StartupBegin \/ StartupSucceeds \/ StartupFails \/ StartupBlames

(* Mutant of StartupHears: startup is handed a token of its own. *)
StartupHearsNobody == FALSE

(* What startup waits for has no deadline when it is the start of an        *)
(* adapter: the run's token, which startup is handed, ends that wait.       *)
StartupHears == Cancelled

-----------------------------------------------------------------------------
(***************************************************************************)
(* run_diagnostic_phase, for its two slots.                                *)
(***************************************************************************)
IdleStage(slot) == IF slot = "Pre" THEN "diagnosePre" ELSE "diagnosePost"
BusyStage(slot) == IF slot = "Pre" THEN "diagnosingPre" ELSE "diagnosingPost"
Applies(i, slot) == Diagnostics[i].slot \in {slot, "Both"}

(* Mutant of DiagnosticsOver: whether services are still up is not asked. *)
DiagnosticsOverAtEnd(slot) == at \notin DOMAIN Diagnostics

(* Post diagnostics run only while services are still up. *)
DiagnosticsOver(slot) ==
  \/ at \notin DOMAIN Diagnostics
  \/ slot = "Post" /\ services # "running"

DiagnosticsEnd(slot) ==
  /\ pc = IdleStage(slot)
  /\ DiagnosticsOver(slot)
  /\ IF slot = "Pre" THEN GotoIfHealthy("check") ELSE Goto("teardown", 1)
  /\ UNCHANGED <<cancelledAt, phases, verdict, stagingError, cleanup, ledger,
                 telemetry, invocation, drainFailed, services, outcome>>

DiagnosticSkip(slot) ==
  /\ pc = IdleStage(slot)
  /\ ~ DiagnosticsOver(slot)
  /\ ~ Applies(at, slot)
  /\ Goto(pc, at + 1)
  /\ UNCHANGED <<cancelledAt, phases, verdict, stagingError, cleanup, ledger,
                 telemetry, invocation, drainFailed, services, outcome>>

(* Under cancellation the request is recorded as skipped; before the *)
(* workload this also ends the run.                                  *)
DiagnosticCancelled(slot) ==
  /\ pc = IdleStage(slot)
  /\ ~ DiagnosticsOver(slot)
  /\ Applies(at, slot)
  /\ Cancelled
  /\ diagRecords' = diagRecords \cup {"skipped"}
  /\ IF slot = "Pre"
     THEN Fail("Cancelled", "Cancelled") /\ Goto("drain", 1)
     ELSE UNCHANGED verdict /\ Goto(pc, at + 1)
  /\ UNCHANGED <<cancelledAt, phases, stagingError, cleanup, trials, checked,
                 telemetry, invocation, drainFailed, services, outcome>>

DiagnosticBegin(slot) ==
  /\ pc = IdleStage(slot)
  /\ ~ DiagnosticsOver(slot)
  /\ Applies(at, slot)
  /\ ~ Cancelled
  /\ Begin(IF slot = "Pre" THEN "DiagnosticsPre" ELSE "DiagnosticsPost", 0)
  /\ Goto(BusyStage(slot), at)
  /\ UNCHANGED <<cancelledAt, verdict, stagingError, cleanup, ledger,
                 telemetry, invocation, drainFailed, services, outcome>>

(* The record could not be staged: the slot ends. *)
DiagnosticUnstaged(slot) ==
  /\ pc = BusyStage(slot)
  /\ stagingError' = IF slot = "Pre" THEN "preDiagnostic" ELSE "postDiagnostic"
  /\ status' = "Failed"
  /\ Finish("Failed", None)
  /\ Goto(IF slot = "Pre" THEN "drain" ELSE "teardown", 1)
  /\ UNCHANGED <<cancelledAt, primary, cleanup, ledger, telemetry, invocation,
                 drainFailed, services, outcome>>

(* The executor reports, or it errs and a record without provenance is made  *)
(* for it.  Only a required adverse answer decides the status, and after the *)
(* workload only when nothing else has.                                      *)
DiagnosticDone(slot, answer) ==
  LET erred    == answer \in Errors("DiagnosticFailed")
      category == IF erred THEN answer ELSE "DiagnosticFailed"
      adverse  == Diagnostics[at].required /\ (erred \/ answer \in {"negative", "failed"})
      decides  == adverse /\ status = "Completed"
  IN
  /\ pc = BusyStage(slot)
  /\ diagRecords' = diagRecords \cup {IF erred THEN "bare" ELSE "attributed"}
  /\ IF decides
     THEN Fail(IF category = "Cancelled" THEN "Cancelled" ELSE "Invalid", category)
     ELSE Settle(status, primary)
  /\ IF adverse
     THEN Finish(OutcomeFor(category), category)
     ELSE Finish(IF answer = "failed" THEN "Failed" ELSE "Completed", None)
  /\ IF slot = "Pre" /\ adverse
     THEN Goto("drain", 1)
     ELSE Goto(IdleStage(slot), at + 1)
  /\ UNCHANGED <<cancelledAt, stagingError, cleanup, trials, checked,
                 telemetry, invocation, drainFailed, services, outcome>>

DiagnosticAnswers == {"positive", "negative", "failed"} \cup Errors("DiagnosticFailed")

Diagnose ==
  \E slot \in {"Pre", "Post"} :
    \/ DiagnosticsEnd(slot)
    \/ DiagnosticSkip(slot)
    \/ DiagnosticCancelled(slot)
    \/ DiagnosticBegin(slot)
    \/ DiagnosticUnstaged(slot)
    \/ \E answer \in DiagnosticAnswers : DiagnosticDone(slot, answer)

-----------------------------------------------------------------------------
(***************************************************************************)
(* run_correctness_phase: the Eggsec checks, then the HTTP corpus checks.  *)
(* Leaving the first loop early does not leave the second one out.         *)
(***************************************************************************)
CheckLoops ==
  [check  |-> [count |-> SecurityChecks, busy |-> "checking"],
   corpus |-> [count |-> CorpusChecks, busy |-> "corpusRunning"]]

(* break: the index runs past the loop, and the loop ends. *)
LeaveChecks(loop) == Goto(loop, CheckLoops[loop].count + 1)

ChecksEnd(loop) ==
  /\ pc = loop
  /\ at > CheckLoops[loop].count
  /\ IF loop = "check" THEN Goto("corpus", 1) ELSE GotoIfHealthy("warmup")
  /\ UNCHANGED <<cancelledAt, phases, verdict, stagingError, cleanup, ledger,
                 telemetry, invocation, drainFailed, services, outcome>>

CheckCancelled(loop) ==
  /\ pc = loop
  /\ at <= CheckLoops[loop].count
  /\ Cancelled
  /\ Fail("Cancelled", "Cancelled")
  /\ LeaveChecks(loop)
  /\ UNCHANGED <<cancelledAt, phases, stagingError, cleanup, ledger, telemetry,
                 invocation, drainFailed, services, outcome>>

CheckBegin(loop) ==
  /\ pc = loop
  /\ at <= CheckLoops[loop].count
  /\ ~ Cancelled
  /\ Begin("CorrectnessChecks", 0)
  /\ Goto(CheckLoops[loop].busy, at)
  /\ UNCHANGED <<cancelledAt, verdict, stagingError, cleanup, ledger,
                 telemetry, invocation, drainFailed, services, outcome>>

CheckUnstaged(loop) ==
  /\ pc = CheckLoops[loop].busy
  /\ stagingError' = loop
  /\ status' = "Failed"
  /\ Finish("Failed", None)
  /\ LeaveChecks(loop)
  /\ UNCHANGED <<cancelledAt, primary, cleanup, ledger, telemetry, invocation,
                 drainFailed, services, outcome>>

(* A passing and a failing check are both observations: the run goes on. *)
CheckObserved ==
  /\ pc = "checking"
  /\ checked' = checked + 1
  /\ Finish("Completed", None)
  /\ Settle(status, primary)
  /\ Goto("check", at + 1)
  /\ UNCHANGED <<cancelledAt, stagingError, cleanup, trials, diagRecords,
                 telemetry, invocation, drainFailed, services, outcome>>

(* A corpus record is not added to state.correctness, and there is no *)
(* re-check of the token behind it.                                   *)
CorpusObserved ==
  /\ pc = "corpusRunning"
  /\ Finish("Completed", None)
  /\ Goto("corpus", at + 1)
  /\ UNCHANGED <<cancelledAt, verdict, stagingError, cleanup, ledger,
                 telemetry, invocation, drainFailed, services, outcome>>

CorpusInvalid ==
  /\ pc = "corpusRunning"
  /\ Finish("Completed", None)
  /\ Fail("Invalid", "CorrectnessFailed")
  /\ LeaveChecks("corpus")
  /\ UNCHANGED <<cancelledAt, stagingError, cleanup, ledger, telemetry,
                 invocation, drainFailed, services, outcome>>

CheckErrs(loop) ==
  /\ pc = CheckLoops[loop].busy
  /\ \E category \in Errors("CorrectnessFailed") :
       /\ Fail(IF category = "Cancelled" THEN "Cancelled" ELSE "Invalid", category)
       /\ Finish(OutcomeFor(category), category)
  /\ LeaveChecks(loop)
  /\ UNCHANGED <<cancelledAt, stagingError, cleanup, ledger, telemetry,
                 invocation, drainFailed, services, outcome>>

Check ==
  \/ \E loop \in DOMAIN CheckLoops :
        \/ ChecksEnd(loop)
        \/ CheckCancelled(loop)
        \/ CheckBegin(loop)
        \/ CheckUnstaged(loop)
        \/ CheckErrs(loop)
  \/ CheckObserved
  \/ CorpusObserved
  \/ CorpusInvalid

-----------------------------------------------------------------------------
(***************************************************************************)
(* Warmups.  The loop does not read the token: a warmup that begins after  *)
(* a cancellation is cancelled by execute_invocation.                      *)
(***************************************************************************)
WarmupsEnd ==
  /\ pc = "warmup"
  /\ at > Warmups
  /\ GotoIfHealthy("trial")
  /\ UNCHANGED <<cancelledAt, phases, verdict, stagingError, cleanup, ledger,
                 telemetry, invocation, drainFailed, services, outcome>>

WarmupBegin ==
  /\ pc = "warmup"
  /\ at <= Warmups
  /\ Begin("Warmup", at)
  /\ Goto("warming", at)
  /\ UNCHANGED <<cancelledAt, verdict, stagingError, cleanup, ledger,
                 telemetry, invocation, drainFailed, services, outcome>>

WarmupDone ==
  /\ pc = "warming"
  /\ Finish("Completed", None)
  /\ Goto("warmup", at + 1)
  /\ UNCHANGED <<cancelledAt, verdict, stagingError, cleanup, ledger,
                 telemetry, invocation, drainFailed, services, outcome>>

(* Mutant of WarmupUnstaged: the phase is left without finish_phase. *)
WarmupUnstagedUnfinished ==
  /\ pc = "warming"
  /\ stagingError' = "warmup"
  /\ status' = "Failed"
  /\ Goto("drain", 1)
  /\ UNCHANGED <<cancelledAt, phases, primary, cleanup, ledger, telemetry,
                 invocation, drainFailed, services, outcome>>

WarmupUnstaged ==
  /\ pc = "warming"
  /\ stagingError' = "warmup"
  /\ status' = "Failed"
  /\ Finish("Failed", None)
  /\ Goto("drain", 1)
  /\ UNCHANGED <<cancelledAt, primary, cleanup, ledger, telemetry, invocation,
                 drainFailed, services, outcome>>

WarmupFails ==
  /\ pc = "warming"
  /\ \E category \in Errors("WorkloadFailed") :
       /\ Fail(StatusFor(category), category)
       /\ Finish(OutcomeFor(category), category)
  /\ stagingError' \in {stagingError, "warmup"}
  /\ Goto("drain", 1)
  /\ UNCHANGED <<cancelledAt, cleanup, ledger, telemetry, invocation,
                 drainFailed, services, outcome>>

Warmup == WarmupsEnd \/ WarmupBegin \/ WarmupDone \/ WarmupUnstaged \/ WarmupFails

-----------------------------------------------------------------------------
(***************************************************************************)
(* Measured trials: the telemetry windows open before the workload timer   *)
(* starts and close after its elapsed time is captured.                    *)
(***************************************************************************)
TrialCancelled ==
  /\ pc = "trial"
  /\ Cancelled
  /\ Fail("Cancelled", "Cancelled")
  /\ Goto("drain", 1)
  /\ UNCHANGED <<cancelledAt, phases, stagingError, cleanup, ledger,
                 telemetry, invocation, drainFailed, services, outcome>>

TrialBegin ==
  /\ pc = "trial"
  /\ ~ Cancelled
  /\ Begin("MeasuredTrial", at)
  /\ Goto("opening", at)
  /\ UNCHANGED <<cancelledAt, verdict, stagingError, cleanup, ledger,
                 telemetry, invocation, drainFailed, services, outcome>>

(* telemetry_plan.active lists the external sources, then the managed ones. *)
OpensBefore(i, j) ==
  IF Sources[i].managed = Sources[j].managed THEN i < j ELSE Sources[j].managed

(* start_trial_telemetry: the next window opens ... *)
WindowOpens ==
  /\ pc = "opening"
  /\ \E i \in active \ windows :
       /\ \A j \in (active \ windows) \ {i} : OpensBefore(i, j)
       /\ windows' = windows \cup {i}
  /\ UNCHANGED <<pc, at, cancelledAt, phases, verdict, stagingError, cleanup,
                 ledger, active, invocation, drainFailed, services, outcome>>

(* Mutant of StageTrial: a staging error is dropped. *)
StageTrialQuietly(terminal) ==
  /\ trials' \in {trials, Append(trials, [id |-> at, terminal |-> terminal])}
  /\ UNCHANGED stagingError

(* The result of the trial is staged, or the staging error is kept. *)
StageTrial(terminal) ==
  \/ /\ trials' = Append(trials, [id |-> at, terminal |-> terminal])
     /\ UNCHANGED stagingError
  \/ /\ stagingError' = "trial"
     /\ UNCHANGED trials

(* ... or it does not, in error, late or cancelled: the windows already open *)
(* are stopped and the trial fails without a measurement.                    *)
WindowFails ==
  /\ pc = "opening"
  /\ active # windows
  /\ windows' = {}
  /\ Fail("Failed", "TelemetryFailed")
  /\ Finish("Failed", "TelemetryFailed")
  /\ StageTrial("Failed")
  /\ Goto("drain", 1)
  /\ UNCHANGED <<cancelledAt, cleanup, diagRecords, checked, active,
                 invocation, drainFailed, services, outcome>>

MeasureBegin ==
  /\ pc = "opening"
  /\ active = windows
  /\ Goto("measuring", at)
  /\ UNCHANGED <<cancelledAt, phases, verdict, stagingError, cleanup, ledger,
                 telemetry, invocation, drainFailed, services, outcome>>

(* execute_invocation *)
MeasureEnd ==
  /\ pc = "measuring"
  /\ invocation' \in {"ok"} \cup Errors("WorkloadFailed")
  /\ Goto("closing", at)
  /\ UNCHANGED <<cancelledAt, phases, verdict, stagingError, cleanup, ledger,
                 telemetry, drainFailed, services, outcome>>

(* stop_trial_telemetry: every window is closed, and the ones that could not *)
(* be stopped in order are cleanup failures.                                 *)
StopWindows(failures) ==
  /\ windows' = {}
  /\ cleanup' = IF failures = {} THEN cleanup ELSE cleanup \cup {"telemetryStop"}

TrialSucceeds ==
  /\ pc = "closing"
  /\ invocation = "ok"
  /\ StopWindows({})
  /\ Finish("Completed", None)
  /\ trials' = Append(trials, [id |-> at, terminal |-> "Completed"])
  /\ Goto("between", at)
  /\ UNCHANGED <<cancelledAt, verdict, stagingError, diagRecords, checked,
                 active, invocation, drainFailed, services, outcome>>

TrialUnstaged ==
  /\ pc = "closing"
  /\ invocation = "ok"
  /\ StopWindows({})
  /\ stagingError' = "trial"
  /\ status' = "Failed"
  /\ Finish("Failed", None)
  /\ Goto("drain", 1)
  /\ UNCHANGED <<cancelledAt, primary, ledger, active, invocation,
                 drainFailed, services, outcome>>

TrialUnobserved ==
  /\ pc = "closing"
  /\ invocation = "ok"
  /\ \E failures \in SUBSET windows \ {{}} : StopWindows(failures)
  /\ Fail("Failed", "TelemetryFailed")
  /\ Finish("Failed", "TelemetryFailed")
  /\ StageTrial("Failed")
  /\ Goto("drain", 1)
  /\ UNCHANGED <<cancelledAt, diagRecords, checked, active, invocation,
                 drainFailed, services, outcome>>

TrialFails ==
  /\ pc = "closing"
  /\ invocation # "ok"
  /\ \E failures \in SUBSET windows : StopWindows(failures)
  /\ Fail(StatusFor(invocation), invocation)
  /\ Finish(OutcomeFor(invocation), invocation)
  /\ StageTrial(OutcomeFor(invocation))
  /\ Goto("drain", 1)
  /\ UNCHANGED <<cancelledAt, diagRecords, checked, active, invocation,
                 drainFailed, services, outcome>>

Trial ==
  \/ TrialCancelled
  \/ TrialBegin
  \/ WindowOpens
  \/ WindowFails
  \/ MeasureBegin
  \/ MeasureEnd
  \/ TrialSucceeds
  \/ TrialUnstaged
  \/ TrialUnobserved
  \/ TrialFails

-----------------------------------------------------------------------------
(***************************************************************************)
(* Between two trials: the reset hook, then the cooldown.                  *)
(***************************************************************************)
TrialsEnd ==
  /\ pc = "between"
  /\ at = Trials
  /\ Goto("drain", 1)
  /\ UNCHANGED <<cancelledAt, phases, verdict, stagingError, cleanup, ledger,
                 telemetry, invocation, drainFailed, services, outcome>>

ResetBegin ==
  /\ pc = "between"
  /\ at < Trials
  /\ IF HasReset
     THEN Begin("Reset", at) /\ Goto("resetting", at)
     ELSE Goto("stabilize", at) /\ UNCHANGED phases
  /\ UNCHANGED <<cancelledAt, verdict, stagingError, cleanup, ledger,
                 telemetry, invocation, drainFailed, services, outcome>>

ResetDone ==
  /\ pc = "resetting"
  /\ Finish("Completed", None)
  /\ Goto("stabilize", at)
  /\ UNCHANGED <<cancelledAt, verdict, stagingError, cleanup, ledger,
                 telemetry, invocation, drainFailed, services, outcome>>

(* Mutant of ResetFails: the loop is left and the run still counts as completed. *)
ResetFailsQuietly ==
  /\ pc = "resetting"
  /\ \E category \in Errors("ResetFailed") : Finish(OutcomeFor(category), category)
  /\ Goto("drain", 1)
  /\ UNCHANGED <<cancelledAt, verdict, stagingError, cleanup, ledger, telemetry,
                 invocation, drainFailed, services, outcome>>

ResetFails ==
  /\ pc = "resetting"
  /\ \E category \in Errors("ResetFailed") :
       /\ Fail(StatusFor(category), category)
       /\ Finish(OutcomeFor(category), category)
  /\ Goto("drain", 1)
  /\ UNCHANGED <<cancelledAt, stagingError, cleanup, ledger, telemetry,
                 invocation, drainFailed, services, outcome>>

CooldownBegin ==
  /\ pc = "stabilize"
  /\ IF HasCooldown
     THEN Begin("Cooldown", at) /\ Goto("cooling", at)
     ELSE Goto("trial", at + 1) /\ UNCHANGED phases
  /\ UNCHANGED <<cancelledAt, verdict, stagingError, cleanup, ledger,
                 telemetry, invocation, drainFailed, services, outcome>>

CooldownDone ==
  /\ pc = "cooling"
  /\ Finish("Completed", None)
  /\ Goto("trial", at + 1)
  /\ UNCHANGED <<cancelledAt, verdict, stagingError, cleanup, ledger,
                 telemetry, invocation, drainFailed, services, outcome>>

CooldownCancelled ==
  /\ pc = "cooling"
  /\ Cancelled
  /\ Fail("Cancelled", "Cancelled")
  /\ Finish("Cancelled", "Cancelled")
  /\ Goto("drain", 1)
  /\ UNCHANGED <<cancelledAt, stagingError, cleanup, ledger, telemetry,
                 invocation, drainFailed, services, outcome>>

Between ==
  \/ TrialsEnd
  \/ ResetBegin
  \/ ResetDone
  \/ ResetFails
  \/ CooldownBegin
  \/ CooldownDone
  \/ CooldownCancelled

-----------------------------------------------------------------------------
(***************************************************************************)
(* The mandatory cleanup tail.  Each of its sections may become the        *)
(* primary failure only of a run that was about to complete.               *)
(***************************************************************************)
DrainBegin ==
  /\ pc = "drain"
  /\ Begin("Drain", 0)
  /\ Goto("draining", 1)
  /\ UNCHANGED <<cancelledAt, verdict, stagingError, cleanup, ledger,
                 telemetry, invocation, drainFailed, services, outcome>>

(* The drain hook succeeds, errs (as cancelled or otherwise) or is late. *)
DrainAnswers ==
  [ok        |-> Event("Drain", 0, "Completed", None),
   cancelled |-> Event("Drain", 0, "Failed", "Cancelled"),
   failed    |-> Event("Drain", 0, "Failed", "DrainFailed"),
   late      |-> Event("Drain", 0, "TimedOut", "TimedOut")]

DrainEnd ==
  /\ pc = "draining"
  /\ \E answer \in DOMAIN DrainAnswers :
       /\ Finish(DrainAnswers[answer].outcome, DrainAnswers[answer].failure)
       /\ drainFailed' = (answer # "ok")
       /\ IF answer = "ok" \/ status # "Completed"
          THEN Settle(status, primary)
          ELSE IF answer = "cancelled"
               THEN Fail("Cancelled", "Cancelled")
               ELSE Fail("Failed", "DrainFailed")
  /\ Goto("telemetryDrain", 1)
  /\ UNCHANGED <<cancelledAt, stagingError, cleanup, ledger, telemetry,
                 invocation, services, outcome>>

TelemetryDrainBegin ==
  /\ pc = "telemetryDrain"
  /\ IF active = {}
     THEN Goto("diagnosePost", 1) /\ UNCHANGED phases
     ELSE Begin("Drain", 0) /\ Goto("telemetryDraining", 1)
  /\ UNCHANGED <<cancelledAt, verdict, stagingError, cleanup, ledger,
                 telemetry, invocation, drainFailed, services, outcome>>

TelemetryDrainSucceeds ==
  /\ pc = "telemetryDraining"
  /\ Finish("Completed", None)
  /\ Settle(status, primary)
  /\ Goto("diagnosePost", 1)
  /\ UNCHANGED <<cancelledAt, stagingError, cleanup, ledger, telemetry,
                 invocation, drainFailed, services, outcome>>

TelemetryDrainFails ==
  /\ pc = "telemetryDraining"
  /\ cleanup' = cleanup \cup {"telemetryDrain"}
  /\ Finish("Failed", "TelemetryFailed")
  /\ IF status = "Completed" THEN Fail("Failed", "TelemetryFailed") ELSE UNCHANGED verdict
  /\ Goto("diagnosePost", 1)
  /\ UNCHANGED <<cancelledAt, stagingError, ledger, telemetry, invocation,
                 drainFailed, services, outcome>>

TeardownBegin ==
  /\ pc = "teardown"
  /\ Begin("Teardown", 0)
  /\ Goto("tearing", 1)
  /\ UNCHANGED <<cancelledAt, verdict, stagingError, cleanup, ledger,
                 telemetry, invocation, drainFailed, services, outcome>>

NothingToTearDown ==
  /\ pc = "tearing"
  /\ services # "running"
  /\ Finish("Completed", None)
  /\ Goto("staging", 1)
  /\ UNCHANGED <<cancelledAt, verdict, stagingError, cleanup, ledger,
                 telemetry, invocation, drainFailed, services, outcome>>

(* Mutant of TeardownEnd: a failed shutdown leaves the services up. *)
TeardownGivesUp ==
  /\ pc = "tearing"
  /\ services = "running"
  /\ \E failures \in {{}, {"teardown"}} :
       /\ cleanup' = cleanup \cup failures
       /\ services' = IF failures = {} THEN "stopped" ELSE "running"
       /\ IF cleanup \cup failures = {}
          THEN Finish("Completed", None) /\ Settle(status, primary)
          ELSE Finish("Failed", "TeardownFailed") /\ Settle("Failed", "TeardownFailed")
  /\ Goto("staging", 1)
  /\ UNCHANGED <<cancelledAt, stagingError, ledger, telemetry, invocation,
                 drainFailed, outcome>>

(* LocalSession::shutdown stops every service it can; the outcome of the *)
(* phase counts the cleanup failures of the whole run.                   *)
TeardownEnd ==
  /\ pc = "tearing"
  /\ services = "running"
  /\ services' = "stopped"
  /\ \E failures \in {{}, {"teardown"}} :
       /\ cleanup' = cleanup \cup failures
       /\ IF cleanup \cup failures = {}
          THEN Finish("Completed", None) /\ Settle(status, primary)
          ELSE /\ Finish("Failed", "TeardownFailed")
               /\ IF status = "Completed" /\ ~ Cancelled
                  THEN Fail("Failed", "TeardownFailed")
                  ELSE Settle(status, primary)
  /\ Goto("staging", 1)
  /\ UNCHANGED <<cancelledAt, stagingError, ledger, telemetry, invocation,
                 drainFailed, outcome>>

CleanUp ==
  \/ DrainBegin
  \/ DrainEnd
  \/ TelemetryDrainBegin
  \/ TelemetryDrainSucceeds
  \/ TelemetryDrainFails
  \/ TeardownBegin
  \/ NothingToTearDown
  \/ TeardownEnd

-----------------------------------------------------------------------------
(***************************************************************************)
(* Evidence: the run-level artifacts, the finalization event, the bundle.  *)
(***************************************************************************)

(* Logs and lifecycle metadata, topology, the two indexes, run evidence. *)
EvidenceSteps == <<"lifecycle", "topology", "diagnosticIndex", "securityIndex", "runEvidence">>

(* The evidence contracts of eggbench-core: a diagnostic index names the    *)
(* provenance of one report unless every request was skipped; a security    *)
(* index covers every check, and there is none when no check was recorded.  *)
DiagnosticIndexSound == diagRecords \subseteq {"skipped"} \/ "attributed" \in diagRecords
SecurityIndexSound == checked \in {0, SecurityChecks}

Breached ==
  (IF DiagnosticIndexSound THEN {} ELSE {3}) \cup (IF SecurityIndexSound THEN {} ELSE {4})

(* Each artifact is staged only while no staging error stands; the first *)
(* failure is kept.                                                      *)
StageEvidence ==
  /\ pc = "staging"
  /\ \/ stagingError # None /\ UNCHANGED stagingError
     \/ stagingError = None /\ Breached = {} /\ UNCHANGED stagingError
     \/ /\ stagingError = None
        /\ \E i \in DOMAIN EvidenceSteps :
             /\ \A j \in Breached : i <= j
             /\ stagingError' = EvidenceSteps[i]
  /\ Goto("finalization", 1)
  /\ UNCHANGED <<cancelledAt, phases, verdict, cleanup, ledger, telemetry,
                 invocation, drainFailed, services, outcome>>

(* The finalization event is opened and finished at once, then staged. *)
Finalize ==
  /\ pc = "finalization"
  /\ phases' = Append(phases, Event("Finalization", 0, "Completed", None))
  /\ IF stagingError # None
     THEN UNCHANGED stagingError
     ELSE stagingError' \in {None, "phases"}
  /\ Goto("publish", 1)
  /\ UNCHANGED <<cancelledAt, verdict, cleanup, ledger, telemetry, invocation,
                 drainFailed, services, outcome>>

(* BundleWriter::finalize publishes the bundle unless evidence is missing. *)
Publish ==
  /\ pc = "publish"
  /\ stagingError = None
  /\ outcome' = "published"
  /\ Goto("done", 1)
  /\ UNCHANGED <<cancelledAt, phases, verdict, stagingError, cleanup, ledger,
                 telemetry, invocation, drainFailed, services>>

PublishFails ==
  /\ pc = "publish"
  /\ outcome' = "evidenceError"
  /\ Goto("done", 1)
  /\ UNCHANGED <<cancelledAt, phases, verdict, stagingError, cleanup, ledger,
                 telemetry, invocation, drainFailed, services>>

Seal == StageEvidence \/ Finalize \/ Publish \/ PublishFails

-----------------------------------------------------------------------------
Run ==
  \/ Refuse
  \/ Admit
  \/ Probe
  \/ Startup
  \/ Diagnose
  \/ Check
  \/ Warmup
  \/ Trial
  \/ Between
  \/ CleanUp
  \/ Seal

Next == Cancel \/ Run

(* Every await of the coordinator but one is raced against a timeout, or is  *)
(* the shutdown of services, which is bounded by the grace it is given.  The *)
(* exception is startup: no adapter has to answer it before a cancellation.  *)
Spec ==
  Init /\ [][Next]_vars
       /\ WF_vars(pc # "starting" /\ Run)
       /\ WF_vars(StartupHears /\ Startup)
-----------------------------------------------------------------------------
(***************************************************************************)
(* Properties that hold.                                                   *)
(***************************************************************************)

(* Every variable keeps its shape: the types RunState and its lists declare. *)
TypeOK ==
  /\ pc \in Stages
  /\ at \in Nat \ {0}
  /\ cancelledAt \in Stages \cup {None}
  /\ phases \in Seq(PhaseEvent)
  /\ status \in Statuses
  /\ primary \in FailureCategories \cup {None}
  /\ stagingError \in EvidenceFaults \cup {None}
  /\ cleanup \subseteq {"startup", "telemetryStop", "telemetryDrain", "teardown"}
  /\ trials \in Seq(TrialRecord)
  /\ diagRecords \subseteq {"skipped", "attributed", "bare"}
  /\ checked \in Nat
  /\ active \subseteq DOMAIN Sources
  /\ windows \subseteq DOMAIN Sources
  /\ invocation \in {"ok"} \cup FailureCategories
  /\ drainFailed \in BOOLEAN
  /\ services \in {"idle", "running", "stopped", "abandoned"}
  /\ outcome \in {None, "refused", "evidenceError", "published"}

Published == outcome = "published"

EventsOf(kind) == {k \in DOMAIN phases : phases[k].kind = kind}

Count(kind) == Cardinality(EventsOf(kind))

(* The timeline of runner-phases.json: whichever way a section is left, its  *)
(* event has been finished, so an event is open exactly while its section    *)
(* runs and it is the last one.                                              *)
TimelineClosed ==
  /\ \A k \in DOMAIN phases : phases[k].outcome = "Open" => k = Len(phases)
  /\ pc \in OpenStages <=> phases # <<>> /\ phases[Len(phases)].outcome = "Open"

(* The bound the run was admitted under (and its evidence capacity was       *)
(* computed from) is never exceeded: three fixed events are enough, although *)
(* startup, two drains, teardown and finalization are five, because the last *)
(* trial has neither reset nor cooldown.                                     *)
PhaseBudget == Len(phases) <= PhaseBound

(* No run is reported as failed without a cause, or as completed with one,   *)
(* except while its evidence is already lost.                                *)
VerdictExplained ==
  stagingError = None /\ pc # "blaming" => (status = "Completed" <=> primary = None)

(* The first failure of a run stays its primary failure: no later section    *)
(* and none of the cleanup replaces it.                                      *)
PrimaryPreserved == [][primary # None => UNCHANGED primary]_vars

(* A published "Completed" leaves nothing out: every warmup and trial ran to *)
(* completion, a reset and a cooldown between any two, the drain answered    *)
(* in order, and no cleanup failed.                                          *)
CompletedMeansComplete ==
  Published /\ status = "Completed" =>
    /\ Count("Warmup") = Warmups
    /\ Count("MeasuredTrial") = Trials
    /\ Count("Reset") = IF HasReset THEN Trials - 1 ELSE 0
    /\ Count("Cooldown") = IF HasCooldown THEN Trials - 1 ELSE 0
    /\ Len(trials) = Trials
    /\ cleanup = {} /\ ~ drainFailed
    /\ \A k \in DOMAIN phases :
         phases[k].kind \in {"DiagnosticsPre", "DiagnosticsPost"} \/ phases[k].outcome = "Completed"

(* A published manifest lists exactly the measured trials of the timeline,   *)
(* in their order and with their outcome; only the last may be adverse.      *)
TrialEvidence ==
  Published =>
    /\ Len(trials) = Count("MeasuredTrial")
    /\ \A n \in DOMAIN trials :
         trials[n].id = n /\ (n < Len(trials) => trials[n].terminal = "Completed")
    /\ \A k \in EventsOf("MeasuredTrial") :
         LET n == phases[k].ordinal IN
         /\ n \in DOMAIN trials /\ trials[n].terminal = phases[k].outcome
         /\ \A j \in EventsOf("MeasuredTrial") : j < k => phases[j].ordinal < n

(* What is published tells the run: no trial more or less than were measured *)
(* and no completion that left something out.                                *)
EvidenceTruthful == TrialEvidence /\ CompletedMeansComplete

(* A cancelled run is not reported as completed, unless the token was        *)
(* cancelled after the last section that looks at it.                        *)
TooLate ==
  {"staging", "finalization", "publish"}
  \cup (IF services = "idle" THEN {"diagnosePost", "teardown", "tearing"} ELSE {})
  \cup (IF services = "idle" /\ active = {} THEN {"telemetryDrain"} ELSE {})

CancellationHonoured ==
  Published /\ status = "Completed" => cancelledAt \in {None} \cup TooLate

(* The workload is measured only by a healthy run, with its services up and  *)
(* with the window of every active collector open, the required collectors   *)
(* among them, even when a cancellation interrupted a probe; and a window    *)
(* never outlives the trial it was opened for.                               *)
MeasuredUnderTelemetry ==
  /\ pc = "measuring" =>
       /\ Healthy
       /\ windows = active
       /\ Managed => services = "running"
       /\ \A i \in DOMAIN Sources : Sources[i].required => i \in windows
  /\ windows # {} => pc \in {"opening", "measuring", "closing"}

(* Managed services are up whenever something may use them, and a run that   *)
(* has brought them up does not return before it has shut them down.  When   *)
(* their startup gave some of them up instead (a refused binding), the run   *)
(* works nothing and says that it failed; those services stay, see           *)
(* ServicesDownAtEnd.                                                        *)
ServicesOutliveWork ==
  /\ Managed /\ pc \in {"diagnosingPre", "checking", "corpusRunning", "warming",
                        "measuring", "resetting"} => services = "running"
  /\ pc = "diagnosingPost" => services = "running"
  /\ pc = "done" => services # "running"
  /\ services = "abandoned" => status # "Completed" /\ trials = <<>>

(* Every run returns to its caller, whatever fails and whenever it is        *)
(* cancelled, but one that waits for the start of an adapter that never      *)
(* answers and that nobody cancels.                                          *)
Termination == <>(pc = "done") \/ <>[](pc = "starting" /\ ~ Cancelled)

(* The coordinator keeps the contract of a run (module RunContract).         *)
WorkingStages ==
  {"warmup", "warming", "trial", "opening", "measuring", "closing", "between",
   "resetting", "stabilize", "cooling"}

CleaningStages ==
  {"drain", "draining", "telemetryDrain", "telemetryDraining", "diagnosePost",
   "diagnosingPost", "teardown", "tearing"}

SealingStages == {"staging", "finalization", "publish"}

ContractStage(stage, result) ==
  CASE stage \in WorkingStages  -> "working"
    [] stage \in CleaningStages -> "cleaning"
    [] stage \in SealingStages  -> "sealing"
    [] stage = "done" -> IF result = "evidenceError" THEN "failed" ELSE result
    [] OTHER -> "preparing"

ContractVerdict == IF stagingError = None THEN status ELSE "unreported"

Contract ==
  INSTANCE RunContract WITH
    stage   <- ContractStage(pc, outcome),
    verdict <- ContractVerdict

ImplementsContract == Contract!Spec

-----------------------------------------------------------------------------
(***************************************************************************)
(* What the documentation says and the code does not do.                   *)
(***************************************************************************)

(* docs/local-runner-lifecycle.md, "Every failure or cancellation after the  *)
(* first successful spawn tears down already-started processes": a run that  *)
(* has returned leaves no managed service up.                                *)
ServicesDownAtEnd == pc = "done" => services \in {"idle", "stopped"}

(* docs/trial-orchestration.md, "the primary cause is the source bundle      *)
(* error": the first staging error stays the cause that is returned.         *)
StagingCausePreserved == [][stagingError # None => UNCHANGED stagingError]_vars

(* architecture/runner-orchestration.md, "an optional diagnostic negative or *)
(* operational failure records evidence and warning and lets the run         *)
(* continue": optional diagnostics alone never cost the run its evidence.    *)
OptionalDiagnosticsHarmless ==
  (\A i \in DOMAIN Diagnostics : ~ Diagnostics[i].required) =>
    (pc = "staging" /\ stagingError = None => DiagnosticIndexSound)
=============================================================================
