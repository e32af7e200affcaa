------------------------ MODULE OrchestrationProofs ------------------------
(***************************************************************************)
(* Proofs about the coordinator, for every plan.                           *)
(***************************************************************************)
EXTENDS Orchestration, SequenceTheorems, FiniteSetTheorems, TLAPS

(***************************************************************************)
(* The timeline.  AllClosed and LastOpen are its two shapes: no event is   *)
(* open, or exactly the last one is.                                       *)
(***************************************************************************)
AllClosed == \A k \in 1 .. Len(phases) : phases[k].outcome # "Open"

LastOpen ==
  /\ Len(phases) > 0
  /\ \A k \in 1 .. Len(phases) : phases[k].outcome = "Open" <=> k = Len(phases)

TimelineTyped == phases \in Seq(PhaseEvent)

(* begin_phase appends an event that is open. *)
LEMMA BeginPhase ==
  ASSUME TimelineTyped, NEW kind \in PhaseKinds, NEW ordinal \in Nat,
         Begin(kind, ordinal)
  PROVE  TimelineTyped' /\ (AllClosed => LastOpen')
<1> DEFINE event == Event(kind, ordinal, "Open", None)
<1>1. event \in PhaseEvent
  BY DEF Event, PhaseEvent, PhaseOutcomes
<1>2. phases' = Append(phases, event)
  BY DEF Begin
<1>3. TimelineTyped'
  BY <1>1, <1>2, AppendProperties DEF TimelineTyped
<1>4. ASSUME AllClosed PROVE LastOpen'
  <2>1. /\ Len(phases') = Len(phases) + 1
        /\ phases'[Len(phases) + 1] = event
        /\ \A k \in 1 .. Len(phases) : phases'[k] = phases[k]
    BY <1>1, <1>2, AppendProperties DEF TimelineTyped
  <2>2. event.outcome = "Open"
    BY DEF Event
  <2>3. Len(phases) \in Nat
    BY LenProperties DEF TimelineTyped
  <2> QED
    BY <1>4, <2>1, <2>2, <2>3 DEF AllClosed, LastOpen
<1> QED
  BY <1>3, <1>4

(* An event that is begun and finished in one step leaves none open. *)
LEMMA ClosedPhase ==
  ASSUME TimelineTyped, NEW kind \in PhaseKinds, NEW ordinal \in Nat,
         NEW result \in PhaseOutcomes \ {"Open"},
         NEW failure \in FailureCategories \cup {None},
         phases' = Append(phases, Event(kind, ordinal, result, failure))
  PROVE  TimelineTyped' /\ (AllClosed => AllClosed')
<1> DEFINE event == Event(kind, ordinal, result, failure)
<1>1. event \in PhaseEvent /\ event.outcome # "Open"
  BY DEF Event, PhaseEvent
<1>2. /\ phases' \in Seq(PhaseEvent)
      /\ Len(phases') = Len(phases) + 1
      /\ phases'[Len(phases) + 1] = event
      /\ \A k \in 1 .. Len(phases) : phases'[k] = phases[k]
  BY <1>1, AppendProperties DEF TimelineTyped
<1>3. Len(phases) \in Nat
  BY LenProperties DEF TimelineTyped
<1> QED
  BY <1>1, <1>2, <1>3 DEF AllClosed, TimelineTyped

(* finish_phase closes the last event and touches no other. *)
LEMMA FinishPhase ==
  ASSUME TimelineTyped, LastOpen,
         NEW result \in PhaseOutcomes \ {"Open"},
         NEW failure \in FailureCategories \cup {None},
         Finish(result, failure)
  PROVE  TimelineTyped' /\ AllClosed'
<1> DEFINE last == Len(phases)
           event == Event(phases[last].kind, phases[last].ordinal, result, failure)
<1>1. last \in 1 .. Len(phases)
  BY LenProperties DEF TimelineTyped, LastOpen
<1>2. phases[last] \in PhaseEvent
  BY <1>1, ElementOfSeq DEF TimelineTyped
<1>3. event \in PhaseEvent /\ event.outcome = result
  BY <1>2 DEF PhaseEvent, Event
<1>4. phases' = [phases EXCEPT ![last] = event]
  BY DEF Finish
<1>5. /\ phases' \in Seq(PhaseEvent)
      /\ Len(phases') = Len(phases)
      /\ \A k \in 1 .. Len(phases) : phases'[k] = IF k = last THEN event ELSE phases[k]
  <2> HIDE DEF event, last
  <2> QED
    BY <1>1, <1>3, <1>4, ExceptSeq DEF TimelineTyped
<1> QED
  BY <1>1, <1>3, <1>5 DEF AllClosed, LastOpen, TimelineTyped

-----------------------------------------------------------------------------
(***************************************************************************)
(* Typing.                                                                 *)
(***************************************************************************)
FieldsTyped ==
  /\ pc \in Stages
  /\ at \in Nat \ {0}
  /\ cancelledAt \in Stages \cup {None}
  /\ status \in Statuses
  /\ primary \in FailureCategories \cup {None}
  /\ stagingError \in EvidenceFaults \cup {None}
  /\ cleanup \subseteq {"startup", "telemetryStop", "telemetryDrain", "teardown"}
  /\ trials \in Seq(TrialRecord)
  /\ diagRecords \subseteq {"skipped", "attributed", "bare"}
  /\ checked \in Nat
  /\ active \subseteq DOMAIN Sources
  /\ windows \subseteq DOMAIN Sources
  /\ invocation \in {"ok"} \cup FailureCategories
  /\ drainFailed \in BOOLEAN
  /\ services \in {"idle", "running", "stopped", "abandoned"}
  /\ outcome \in {None, "refused", "evidenceError", "published"}

LEMMA TypeOKParts == TypeOK <=> FieldsTyped /\ TimelineTyped
  BY DEF TypeOK, FieldsTyped, TimelineTyped

(* stage_trial adds a typed record, or leaves a staging error. *)
LEMMA StageTrialTyped ==
  ASSUME FieldsTyped, NEW terminal \in TrialStatuses, StageTrial(terminal)
  PROVE  trials' \in Seq(TrialRecord) /\ stagingError' \in EvidenceFaults \cup {None}
<1>1. [id |-> at, terminal |-> terminal] \in TrialRecord
  BY DEF FieldsTyped, TrialRecord
<1>2. "trial" \in EvidenceFaults
  BY DEF EvidenceFaults
<1> QED
  BY <1>1, <1>2, AppendProperties DEF FieldsTyped, StageTrial

LEMMA AdmissionTyped ==
  ASSUME FieldsTyped, Refuse \/ Admit \/ Cancel
  PROVE  FieldsTyped'
<1> USE PlanAssumption DEF FieldsTyped, Stages, IdleStages, OpenStages, verdict,
                           ledger, telemetry, Goto
<1>1. CASE Refuse
  BY <1>1 DEF Refuse
<1>2. CASE Admit
  BY <1>2 DEF Admit
<1>3. CASE Cancel
  BY <1>3 DEF Cancel
<1> QED
  BY <1>1, <1>2, <1>3

LEMMA ProbeTyped ==
  ASSUME FieldsTyped, Probe
  PROVE  FieldsTyped'
<1> USE PlanAssumption DEF FieldsTyped, Stages, IdleStages, OpenStages, verdict,
                           ledger, telemetry, Goto
<1>1. ASSUME NEW stage \in {"probeExternal", "probeManaged"}, NEW managed \in BOOLEAN,
             ProbeSkip(stage, managed)
      PROVE  FieldsTyped'
  BY <1>1 DEF ProbeSkip, AtProbe
<1>2. ASSUME NEW stage \in {"probeExternal", "probeManaged"}, NEW managed \in BOOLEAN,
             ProbeSucceeds(stage, managed)
      PROVE  FieldsTyped'
  BY <1>2 DEF ProbeSucceeds, AtProbe
<1>3. ASSUME NEW stage \in {"probeExternal", "probeManaged"}, NEW managed \in BOOLEAN,
             OptionalProbeFails(stage, managed)
      PROVE  FieldsTyped'
  BY <1>3 DEF OptionalProbeFails, AtProbe
<1>4. ASSUME NEW stage \in {"probeExternal", "probeManaged"}, NEW managed \in BOOLEAN,
             ProbeEnds(stage, managed)
      PROVE  FieldsTyped'
  BY <1>4 DEF ProbeEnds, AtProbe
<1>5. CASE RequiredExternalFails
  BY <1>5 DEF RequiredExternalFails
<1>6. CASE RequiredManagedFails
  <2>1. active' \subseteq DOMAIN Sources
    BY <1>6 DEF RequiredManagedFails
  <2>2. status' \in Statuses /\ primary' \in FailureCategories
    BY <1>6 DEF RequiredManagedFails, Fail, Statuses, FailureCategories
  <2>3. /\ pc' = "drain" /\ at' = 1
        /\ UNCHANGED <<cancelledAt, stagingError, cleanup, ledger, windows,
                       invocation, drainFailed, services, outcome>>
    BY <1>6 DEF RequiredManagedFails
  <2> QED
    BY <2>1, <2>2, <2>3
<1> QED
  BY <1>1, <1>2, <1>3, <1>4, <1>5, <1>6 DEF Probe

LEMMA StartupTyped ==
  ASSUME FieldsTyped, Startup
  PROVE  FieldsTyped'
<1> USE PlanAssumption DEF FieldsTyped, Stages, IdleStages, OpenStages, verdict,
                           ledger, telemetry, Goto
<1>1. CASE StartupBegin
  BY <1>1 DEF StartupBegin, Fail, Statuses, FailureCategories
<1>2. CASE StartupSucceeds
  BY <1>2 DEF StartupSucceeds
<1>3. CASE StartupFails
  <2>1. cleanup' \subseteq {"startup", "telemetryStop", "telemetryDrain", "teardown"}
    BY <1>3 DEF StartupFails
  <2>2. services' \in {"idle", "running", "stopped", "abandoned"}
    BY <1>3 DEF StartupFails
  <2>3. status' \in Statuses
    BY <1>3 DEF StartupFails, Statuses
  <2>4. /\ pc' = "blaming" /\ at' = 1
        /\ UNCHANGED <<cancelledAt, primary, stagingError, ledger, telemetry,
                       invocation, drainFailed, outcome>>
    BY <1>3 DEF StartupFails
  <2> QED
    BY <2>1, <2>2, <2>3, <2>4
<1>4. CASE StartupBlames
  BY <1>4 DEF StartupBlames, FailureCategories
<1> QED
  BY <1>1, <1>2, <1>3, <1>4 DEF Startup

LEMMA DiagnoseTyped ==
  ASSUME FieldsTyped, Diagnose
  PROVE  FieldsTyped'
<1> USE PlanAssumption DEF FieldsTyped, Stages, IdleStages, OpenStages, verdict,
                           ledger, telemetry, Goto
<1>1. ASSUME NEW slot \in {"Pre", "Post"},
             DiagnosticsEnd(slot)
      PROVE  FieldsTyped'
  BY <1>1 DEF DiagnosticsEnd, GotoIfHealthy
<1>2. ASSUME NEW slot \in {"Pre", "Post"},
             DiagnosticSkip(slot)
      PROVE  FieldsTyped'
  BY <1>2 DEF DiagnosticSkip
<1>3. ASSUME NEW slot \in {"Pre", "Post"},
             DiagnosticCancelled(slot)
      PROVE  FieldsTyped'
  BY <1>3 DEF DiagnosticCancelled, Fail, Statuses, FailureCategories
<1>4. ASSUME NEW slot \in {"Pre", "Post"},
             DiagnosticBegin(slot)
      PROVE  FieldsTyped'
  BY <1>4 DEF DiagnosticBegin, BusyStage
<1>5. ASSUME NEW slot \in {"Pre", "Post"},
             DiagnosticUnstaged(slot)
      PROVE  FieldsTyped'
  BY <1>5 DEF DiagnosticUnstaged, Statuses, EvidenceFaults
<1>6. ASSUME NEW slot \in {"Pre", "Post"}, NEW answer \in DiagnosticAnswers,
             DiagnosticDone(slot, answer)
      PROVE  FieldsTyped'
  BY <1>6 DEF DiagnosticDone, DiagnosticAnswers, Errors, Fail, Settle, Statuses,
              FailureCategories, IdleStage, BusyStage
<1> QED
  BY <1>1, <1>2, <1>3, <1>4, <1>5, <1>6 DEF Diagnose

LEMMA CheckTyped ==
  ASSUME FieldsTyped, Check
  PROVE  FieldsTyped'
<1> USE PlanAssumption DEF FieldsTyped, Stages, IdleStages, OpenStages, verdict,
                           ledger, telemetry, Goto
<1>1. ASSUME NEW loop \in {"check", "corpus"},
             ChecksEnd(loop)
      PROVE  FieldsTyped'
  BY <1>1 DEF ChecksEnd, GotoIfHealthy
<1>2. ASSUME NEW loop \in {"check", "corpus"},
             CheckCancelled(loop)
      PROVE  FieldsTyped'
  BY <1>2 DEF CheckCancelled, Fail, LeaveChecks, CheckLoops, Statuses,
              FailureCategories
<1>3. ASSUME NEW loop \in {"check", "corpus"},
             CheckBegin(loop)
      PROVE  FieldsTyped'
  BY <1>3 DEF CheckBegin, CheckLoops
<1>4. ASSUME NEW loop \in {"check", "corpus"},
             CheckUnstaged(loop)
      PROVE  FieldsTyped'
  BY <1>4 DEF CheckUnstaged, LeaveChecks, CheckLoops, Statuses, EvidenceFaults
<1>5. ASSUME NEW loop \in {"check", "corpus"},
             CheckErrs(loop)
      PROVE  FieldsTyped'
  BY <1>5 DEF CheckErrs, Fail, Errors, LeaveChecks, CheckLoops, Statuses,
              FailureCategories
<1>6. CASE CheckObserved
  BY <1>6 DEF CheckObserved, Fail, Settle, Statuses, FailureCategories
<1>7. CASE CorpusObserved
  BY <1>7 DEF CorpusObserved
<1>8. CASE CorpusInvalid
  BY <1>8 DEF CorpusInvalid, Fail, LeaveChecks, CheckLoops, Statuses,
              FailureCategories
<1>9. DOMAIN CheckLoops = {"check", "corpus"}
  BY DEF CheckLoops
<1> QED
  BY <1>1, <1>2, <1>3, <1>4, <1>5, <1>6, <1>7, <1>8, <1>9 DEF Check

LEMMA WarmupTyped ==
  ASSUME FieldsTyped, Warmup
  PROVE  FieldsTyped'
<1> USE PlanAssumption DEF FieldsTyped, Stages, IdleStages, OpenStages, verdict,
                           ledger, telemetry, Goto
<1>1. CASE WarmupsEnd
  BY <1>1 DEF WarmupsEnd, GotoIfHealthy
<1>2. CASE WarmupBegin
  BY <1>2 DEF WarmupBegin
<1>3. CASE WarmupDone
  BY <1>3 DEF WarmupDone
<1>4. CASE WarmupUnstaged
  BY <1>4 DEF WarmupUnstaged, Statuses, EvidenceFaults
<1>5. CASE WarmupFails
  BY <1>5 DEF WarmupFails, Fail, Errors, StatusFor, Statuses, FailureCategories,
              EvidenceFaults
<1> QED
  BY <1>1, <1>2, <1>3, <1>4, <1>5 DEF Warmup

LEMMA TrialTyped ==
  ASSUME FieldsTyped, Trial
  PROVE  FieldsTyped'
<1> USE PlanAssumption DEF FieldsTyped, Stages, IdleStages, OpenStages, verdict,
                           ledger, telemetry, Goto
<1>1. CASE TrialCancelled
  BY <1>1 DEF TrialCancelled, Fail, Statuses, FailureCategories
<1>2. CASE TrialBegin
  BY <1>2 DEF TrialBegin
<1>3. CASE WindowOpens
  BY <1>3 DEF WindowOpens
<1>4. CASE WindowFails
  <2>1. trials' \in Seq(TrialRecord) /\ stagingError' \in EvidenceFaults \cup {None}
    BY <1>4, StageTrialTyped DEF WindowFails, TrialStatuses
  <2>2. status' \in Statuses /\ primary' \in FailureCategories
    BY <1>4 DEF WindowFails, Fail, Statuses, FailureCategories
  <2> QED
    BY <1>4, <2>1, <2>2 DEF WindowFails
<1>5. CASE MeasureBegin
  BY <1>5 DEF MeasureBegin
<1>6. CASE MeasureEnd
  BY <1>6 DEF MeasureEnd, Errors, FailureCategories
<1>7. CASE TrialSucceeds
  BY <1>7 DEF TrialSucceeds, StopWindows, TrialRecord, TrialStatuses
<1>8. CASE TrialUnstaged
  BY <1>8 DEF TrialUnstaged, StopWindows, Statuses, EvidenceFaults
<1>9. CASE TrialUnobserved
  <2>1. trials' \in Seq(TrialRecord) /\ stagingError' \in EvidenceFaults \cup {None}
    BY <1>9, StageTrialTyped DEF TrialUnobserved, TrialStatuses
  <2>2. status' \in Statuses /\ primary' \in FailureCategories
    BY <1>9 DEF TrialUnobserved, Fail, Statuses, FailureCategories
  <2> QED
    BY <1>9, <2>1, <2>2 DEF TrialUnobserved, StopWindows
<1>10. CASE TrialFails
  <2>1. OutcomeFor(invocation) \in TrialStatuses
    BY DEF OutcomeFor, TrialStatuses
  <2>2. trials' \in Seq(TrialRecord) /\ stagingError' \in EvidenceFaults \cup {None}
    BY <1>10, <2>1, StageTrialTyped DEF TrialFails
  <2>3. status' \in Statuses /\ primary' \in FailureCategories
    BY <1>10 DEF TrialFails, Fail, StatusFor, Statuses
  <2> QED
    BY <1>10, <2>2, <2>3 DEF TrialFails, StopWindows
<1> QED
  BY <1>1, <1>2, <1>3, <1>4, <1>5, <1>6, <1>7, <1>8, <1>9, <1>10 DEF Trial

LEMMA BetweenTyped ==
  ASSUME FieldsTyped, Between
  PROVE  FieldsTyped'
<1> USE PlanAssumption DEF FieldsTyped, Stages, IdleStages, OpenStages, verdict,
                           ledger, telemetry, Goto
<1>1. CASE TrialsEnd
  BY <1>1 DEF TrialsEnd
<1>2. CASE ResetBegin
  BY <1>2 DEF ResetBegin
<1>3. CASE ResetDone
  BY <1>3 DEF ResetDone
<1>4. CASE ResetFails
  BY <1>4 DEF ResetFails, Fail, Errors, StatusFor, Statuses, FailureCategories
<1>5. CASE CooldownBegin
  BY <1>5 DEF CooldownBegin
<1>6. CASE CooldownDone
  BY <1>6 DEF CooldownDone
<1>7. CASE CooldownCancelled
  BY <1>7 DEF CooldownCancelled, Fail, Statuses, FailureCategories
<1> QED
  BY <1>1, <1>2, <1>3, <1>4, <1>5, <1>6, <1>7 DEF Between

LEMMA CleanUpTyped ==
  ASSUME FieldsTyped, CleanUp
  PROVE  FieldsTyped'
<1> USE PlanAssumption DEF FieldsTyped, Stages, IdleStages, OpenStages, verdict,
                           ledger, telemetry, Goto
<1>1. CASE DrainBegin
  BY <1>1 DEF DrainBegin
<1>2. CASE DrainEnd
  BY <1>2 DEF DrainEnd, Fail, Settle, Statuses, FailureCategories
<1>3. CASE TelemetryDrainBegin
  BY <1>3 DEF TelemetryDrainBegin
<1>4. CASE TelemetryDrainSucceeds
  BY <1>4 DEF TelemetryDrainSucceeds, Fail, Settle, Statuses, FailureCategories
<1>5. CASE TelemetryDrainFails
  BY <1>5 DEF TelemetryDrainFails, Fail, Statuses, FailureCategories
<1>6. CASE TeardownBegin
  BY <1>6 DEF TeardownBegin
<1>7. CASE NothingToTearDown
  BY <1>7 DEF NothingToTearDown
<1>8. CASE TeardownEnd
  <2>1. cleanup' \subseteq {"startup", "telemetryStop", "telemetryDrain", "teardown"}
    BY <1>8 DEF TeardownEnd
  <2>2. status' \in Statuses /\ primary' \in FailureCategories \cup {None}
    BY <1>8 DEF TeardownEnd, Fail, Settle, Statuses, FailureCategories
  <2> QED
    BY <1>8, <2>1, <2>2 DEF TeardownEnd
<1> QED
  BY <1>1, <1>2, <1>3, <1>4, <1>5, <1>6, <1>7, <1>8 DEF CleanUp

LEMMA SealTyped ==
  ASSUME FieldsTyped, Seal
  PROVE  FieldsTyped'
<1> USE PlanAssumption DEF FieldsTyped, Stages, IdleStages, OpenStages, verdict,
                           ledger, telemetry, Goto
<1>1. CASE StageEvidence
  BY <1>1 DEF StageEvidence, EvidenceSteps, EvidenceFaults
<1>2. CASE Finalize
  BY <1>2 DEF Finalize, EvidenceFaults
<1>3. CASE Publish
  BY <1>3 DEF Publish
<1>4. CASE PublishFails
  BY <1>4 DEF PublishFails
<1> QED
  BY <1>1, <1>2, <1>3, <1>4 DEF Seal

-----------------------------------------------------------------------------
(***************************************************************************)
(* Control and timeline.  The inductive form of TimelineClosed speaks of   *)
(* the stage in both directions, and needs the two lemmas above because a  *)
(* finished event must have been the open one.                             *)
(***************************************************************************)
TimelineInv ==
  /\ TimelineTyped
  /\ pc \in OpenStages => LastOpen
  /\ pc \in IdleStages => AllClosed

LEMMA StagesDisjoint ==
  ASSUME NEW stage
  PROVE  ~ (stage \in IdleStages /\ stage \in OpenStages)
  BY DEF IdleStages, OpenStages

LEMMA QuietIdleStep ==
  ASSUME TimelineInv, phases' = phases, pc \in IdleStages, pc' \in IdleStages
  PROVE  TimelineInv'
  BY StagesDisjoint DEF TimelineInv, TimelineTyped, AllClosed

LEMMA QuietOpenStep ==
  ASSUME TimelineInv, phases' = phases, pc \in OpenStages, pc' \in OpenStages
  PROVE  TimelineInv'
  BY StagesDisjoint DEF TimelineInv, TimelineTyped, LastOpen

LEMMA BeginStep ==
  ASSUME TimelineInv, pc \in IdleStages, pc' \in OpenStages,
         NEW kind \in PhaseKinds, NEW ordinal \in Nat, Begin(kind, ordinal)
  PROVE  TimelineInv'
  BY BeginPhase, StagesDisjoint DEF TimelineInv

LEMMA FinishStep ==
  ASSUME TimelineInv, pc \in OpenStages, pc' \in IdleStages,
         NEW result \in PhaseOutcomes \ {"Open"},
         NEW failure \in FailureCategories \cup {None},
         Finish(result, failure)
  PROVE  TimelineInv'
  BY FinishPhase, StagesDisjoint DEF TimelineInv

LEMMA ClosedStep ==
  ASSUME TimelineInv, pc \in IdleStages, pc' \in IdleStages,
         NEW kind \in PhaseKinds, NEW ordinal \in Nat,
         NEW result \in PhaseOutcomes \ {"Open"},
         NEW failure \in FailureCategories \cup {None},
         phases' = Append(phases, Event(kind, ordinal, result, failure))
  PROVE  TimelineInv'
  BY ClosedPhase, StagesDisjoint DEF TimelineInv

LEMMA AdmissionTimeline ==
  ASSUME FieldsTyped, TimelineInv, Refuse \/ Admit \/ Cancel
  PROVE  TimelineInv'
<1> USE DEF Goto, IdleStages, OpenStages
<1>1. CASE Refuse
  BY <1>1, QuietIdleStep DEF Refuse
<1>2. CASE Admit
  BY <1>2, QuietIdleStep DEF Admit
<1>3. CASE Cancel
  BY <1>3, QuietIdleStep, QuietOpenStep DEF Cancel, FieldsTyped, Stages
<1> QED
  BY <1>1, <1>2, <1>3

LEMMA ProbeTimeline ==
  ASSUME FieldsTyped, TimelineInv, Probe
  PROVE  TimelineInv'
<1> USE DEF Goto, IdleStages, OpenStages
<1>1. ASSUME NEW stage \in {"probeExternal", "probeManaged"}, NEW managed \in BOOLEAN,
             ProbeSkip(stage, managed)
      PROVE  TimelineInv'
  BY <1>1, QuietIdleStep DEF ProbeSkip, AtProbe
<1>2. ASSUME NEW stage \in {"probeExternal", "probeManaged"}, NEW managed \in BOOLEAN,
             ProbeSucceeds(stage, managed)
      PROVE  TimelineInv'
  BY <1>2, QuietIdleStep DEF ProbeSucceeds, AtProbe
<1>3. ASSUME NEW stage \in {"probeExternal", "probeManaged"}, NEW managed \in BOOLEAN,
             OptionalProbeFails(stage, managed)
      PROVE  TimelineInv'
  BY <1>3, QuietIdleStep DEF OptionalProbeFails, AtProbe
<1>4. ASSUME NEW stage \in {"probeExternal", "probeManaged"}, NEW managed \in BOOLEAN,
             ProbeEnds(stage, managed)
      PROVE  TimelineInv'
  BY <1>4, QuietIdleStep DEF ProbeEnds, AtProbe
<1>5. CASE RequiredExternalFails
  BY <1>5, QuietIdleStep DEF RequiredExternalFails
<1>6. CASE RequiredManagedFails
  BY <1>6, QuietIdleStep DEF RequiredManagedFails
<1> QED
  BY <1>1, <1>2, <1>3, <1>4, <1>5, <1>6 DEF Probe

LEMMA StartupTimeline ==
  ASSUME FieldsTyped, TimelineInv, Startup
  PROVE  TimelineInv'
<1> USE DEF Goto, IdleStages, OpenStages
<1>1. CASE StartupBegin
  BY <1>1, BeginStep, ClosedStep DEF StartupBegin, FieldsTyped, PhaseKinds,
           PhaseOutcomes, FailureCategories
<1>2. CASE StartupSucceeds
  BY <1>2, FinishStep DEF StartupSucceeds, PhaseOutcomes, FailureCategories
<1>3. CASE StartupFails
  BY <1>3, QuietOpenStep DEF StartupFails
<1>4. CASE StartupBlames
  BY <1>4, FinishStep DEF StartupBlames, OutcomeFor, PhaseOutcomes,
           FailureCategories
<1> QED
  BY <1>1, <1>2, <1>3, <1>4 DEF Startup

LEMMA DiagnoseTimeline ==
  ASSUME FieldsTyped, TimelineInv, Diagnose
  PROVE  TimelineInv'
<1> USE DEF Goto, IdleStages, OpenStages
<1>1. ASSUME NEW slot \in {"Pre", "Post"},
             DiagnosticsEnd(slot)
      PROVE  TimelineInv'
  BY <1>1, QuietIdleStep DEF DiagnosticsEnd, GotoIfHealthy, IdleStage
<1>2. ASSUME NEW slot \in {"Pre", "Post"},
             DiagnosticSkip(slot)
      PROVE  TimelineInv'
  BY <1>2, QuietIdleStep DEF DiagnosticSkip, IdleStage
<1>3. ASSUME NEW slot \in {"Pre", "Post"},
             DiagnosticCancelled(slot)
      PROVE  TimelineInv'
  BY <1>3, QuietIdleStep DEF DiagnosticCancelled, IdleStage
<1>4. ASSUME NEW slot \in {"Pre", "Post"},
             DiagnosticBegin(slot)
      PROVE  TimelineInv'
  BY <1>4, BeginStep DEF DiagnosticBegin, IdleStage, BusyStage, FieldsTyped,
           PhaseKinds
<1>5. ASSUME NEW slot \in {"Pre", "Post"},
             DiagnosticUnstaged(slot)
      PROVE  TimelineInv'
  BY <1>5, FinishStep DEF DiagnosticUnstaged, BusyStage, PhaseOutcomes,
           FailureCategories
<1>6. ASSUME NEW slot \in {"Pre", "Post"}, NEW answer \in DiagnosticAnswers,
             DiagnosticDone(slot, answer)
      PROVE  TimelineInv'
  BY <1>6, FinishStep DEF DiagnosticDone, DiagnosticAnswers, Errors, OutcomeFor,
           IdleStage, BusyStage, PhaseOutcomes, FailureCategories
<1> QED
  BY <1>1, <1>2, <1>3, <1>4, <1>5, <1>6 DEF Diagnose

LEMMA CheckTimeline ==
  ASSUME FieldsTyped, TimelineInv, Check
  PROVE  TimelineInv'
<1> USE DEF Goto, IdleStages, OpenStages
<1>1. ASSUME NEW loop \in {"check", "corpus"},
             ChecksEnd(loop)
      PROVE  TimelineInv'
  BY <1>1, QuietIdleStep DEF ChecksEnd, GotoIfHealthy
<1>2. ASSUME NEW loop \in {"check", "corpus"},
             CheckCancelled(loop)
      PROVE  TimelineInv'
  BY <1>2, QuietIdleStep DEF CheckCancelled, LeaveChecks
<1>3. ASSUME NEW loop \in {"check", "corpus"},
             CheckBegin(loop)
      PROVE  TimelineInv'
  BY <1>3, BeginStep DEF CheckBegin, CheckLoops, FieldsTyped, PhaseKinds
<1>4. ASSUME NEW loop \in {"check", "corpus"},
             CheckUnstaged(loop)
      PROVE  TimelineInv'
  BY <1>4, FinishStep DEF CheckUnstaged, LeaveChecks, CheckLoops, PhaseOutcomes,
           FailureCategories
<1>5. ASSUME NEW loop \in {"check", "corpus"},
             CheckErrs(loop)
      PROVE  TimelineInv'
  BY <1>5, FinishStep DEF CheckErrs, Errors, OutcomeFor, LeaveChecks, CheckLoops,
           PhaseOutcomes, FailureCategories
<1>6. CASE CheckObserved
  BY <1>6, FinishStep DEF CheckObserved, PhaseOutcomes, FailureCategories
<1>7. CASE CorpusObserved
  BY <1>7, FinishStep DEF CorpusObserved, PhaseOutcomes, FailureCategories
<1>8. CASE CorpusInvalid
  BY <1>8, FinishStep DEF CorpusInvalid, LeaveChecks, PhaseOutcomes,
           FailureCategories
<1>9. DOMAIN CheckLoops = {"check", "corpus"}
  BY DEF CheckLoops
<1> QED
  BY <1>1, <1>2, <1>3, <1>4, <1>5, <1>6, <1>7, <1>8, <1>9 DEF Check

LEMMA WarmupTimeline ==
  ASSUME FieldsTyped, TimelineInv, Warmup
  PROVE  TimelineInv'
<1> USE DEF Goto, IdleStages, OpenStages
<1>1. CASE WarmupsEnd
  BY <1>1, QuietIdleStep DEF WarmupsEnd, GotoIfHealthy
<1>2. CASE WarmupBegin
  BY <1>2, BeginStep DEF WarmupBegin, FieldsTyped, PhaseKinds
<1>3. CASE WarmupDone
  BY <1>3, FinishStep DEF WarmupDone, PhaseOutcomes, FailureCategories
<1>4. CASE WarmupUnstaged
  BY <1>4, FinishStep DEF WarmupUnstaged, PhaseOutcomes, FailureCategories
<1>5. CASE WarmupFails
  BY <1>5, FinishStep DEF WarmupFails, Errors, OutcomeFor, PhaseOutcomes,
           FailureCategories
<1> QED
  BY <1>1, <1>2, <1>3, <1>4, <1>5 DEF Warmup

LEMMA TrialTimeline ==
  ASSUME FieldsTyped, TimelineInv, Trial
  PROVE  TimelineInv'
<1> USE DEF Goto, IdleStages, OpenStages
<1>1. CASE TrialCancelled
  BY <1>1, QuietIdleStep DEF TrialCancelled
<1>2. CASE TrialBegin
  BY <1>2, BeginStep DEF TrialBegin, FieldsTyped, PhaseKinds
<1>3. CASE WindowOpens
  BY <1>3, QuietOpenStep DEF WindowOpens
<1>4. CASE WindowFails
  BY <1>4, FinishStep DEF WindowFails, PhaseOutcomes, FailureCategories
<1>5. CASE MeasureBegin
  BY <1>5, QuietOpenStep DEF MeasureBegin
<1>6. CASE MeasureEnd
  BY <1>6, QuietOpenStep DEF MeasureEnd
<1>7. CASE TrialSucceeds
  BY <1>7, FinishStep DEF TrialSucceeds, PhaseOutcomes, FailureCategories
<1>8. CASE TrialUnstaged
  BY <1>8, FinishStep DEF TrialUnstaged, PhaseOutcomes, FailureCategories
<1>9. CASE TrialUnobserved
  BY <1>9, FinishStep DEF TrialUnobserved, PhaseOutcomes, FailureCategories
<1>10. CASE TrialFails
  BY <1>10, FinishStep DEF TrialFails, OutcomeFor, FieldsTyped, PhaseOutcomes,
            FailureCategories
<1> QED
  BY <1>1, <1>2, <1>3, <1>4, <1>5, <1>6, <1>7, <1>8, <1>9, <1>10 DEF Trial

LEMMA BetweenTimeline ==
  ASSUME FieldsTyped, TimelineInv, Between
  PROVE  TimelineInv'
<1> USE DEF Goto, IdleStages, OpenStages
<1>1. CASE TrialsEnd
  BY <1>1, QuietIdleStep DEF TrialsEnd
<1>2. CASE ResetBegin
  BY <1>2, BeginStep, QuietIdleStep DEF ResetBegin, FieldsTyped, PhaseKinds
<1>3. CASE ResetDone
  BY <1>3, FinishStep DEF ResetDone, PhaseOutcomes, FailureCategories
<1>4. CASE ResetFails
  BY <1>4, FinishStep DEF ResetFails, Errors, OutcomeFor, PhaseOutcomes,
           FailureCategories
<1>5. CASE CooldownBegin
  BY <1>5, BeginStep, QuietIdleStep DEF CooldownBegin, FieldsTyped, PhaseKinds
<1>6. CASE CooldownDone
  BY <1>6, FinishStep DEF CooldownDone, PhaseOutcomes, FailureCategories
<1>7. CASE CooldownCancelled
  BY <1>7, FinishStep DEF CooldownCancelled, PhaseOutcomes, FailureCategories
<1> QED
  BY <1>1, <1>2, <1>3, <1>4, <1>5, <1>6, <1>7 DEF Between

LEMMA CleanUpTimeline ==
  ASSUME FieldsTyped, TimelineInv, CleanUp
  PROVE  TimelineInv'
<1> USE DEF Goto, IdleStages, OpenStages
<1>1. CASE DrainBegin
  BY <1>1, BeginStep DEF DrainBegin, FieldsTyped, PhaseKinds
<1>2. CASE DrainEnd
  <2>1. PICK answer \in DOMAIN DrainAnswers :
             Finish(DrainAnswers[answer].outcome, DrainAnswers[answer].failure)
    BY <1>2 DEF DrainEnd
  <2>2. /\ DrainAnswers[answer].outcome \in PhaseOutcomes \ {"Open"}
        /\ DrainAnswers[answer].failure \in FailureCategories \cup {None}
    BY <2>1 DEF DrainAnswers, Event, PhaseOutcomes, FailureCategories
  <2>3. pc = "draining" /\ pc' = "telemetryDrain"
    BY <1>2 DEF DrainEnd
  <2> QED
    BY <2>1, <2>2, <2>3, FinishStep
<1>3. CASE TelemetryDrainBegin
  BY <1>3, BeginStep, QuietIdleStep DEF TelemetryDrainBegin, FieldsTyped,
           PhaseKinds
<1>4. CASE TelemetryDrainSucceeds
  BY <1>4, FinishStep DEF TelemetryDrainSucceeds, PhaseOutcomes, FailureCategories
<1>5. CASE TelemetryDrainFails
  BY <1>5, FinishStep DEF TelemetryDrainFails, PhaseOutcomes, FailureCategories
<1>6. CASE TeardownBegin
  BY <1>6, BeginStep DEF TeardownBegin, FieldsTyped, PhaseKinds
<1>7. CASE NothingToTearDown
  BY <1>7, FinishStep DEF NothingToTearDown, PhaseOutcomes, FailureCategories
<1>8. CASE TeardownEnd
  BY <1>8, FinishStep DEF TeardownEnd, PhaseOutcomes, FailureCategories
<1> QED
  BY <1>1, <1>2, <1>3, <1>4, <1>5, <1>6, <1>7, <1>8 DEF CleanUp

LEMMA SealTimeline ==
  ASSUME FieldsTyped, TimelineInv, Seal
  PROVE  TimelineInv'
<1> USE DEF Goto, IdleStages, OpenStages
<1>1. CASE StageEvidence
  BY <1>1, QuietIdleStep DEF StageEvidence
<1>2. CASE Finalize
  BY <1>2, ClosedStep DEF Finalize, PhaseKinds, PhaseOutcomes, FailureCategories
<1>3. CASE Publish
  BY <1>3, QuietIdleStep DEF Publish
<1>4. CASE PublishFails
  BY <1>4, QuietIdleStep DEF PublishFails
<1> QED
  BY <1>1, <1>2, <1>3, <1>4 DEF Seal

-----------------------------------------------------------------------------
(***************************************************************************)
(* Typing and timeline together are inductive.                             *)
(***************************************************************************)
IInv == FieldsTyped /\ TimelineInv

LEMMA InitIInv == Init => IInv
<1> SUFFICES ASSUME Init PROVE IInv
  OBVIOUS
<1>1. FieldsTyped
  <2>1. trials \in Seq(TrialRecord)
    BY DEF Init
  <2>2. /\ pc \in Stages /\ status \in Statuses
        /\ cleanup = {} /\ diagRecords = {} /\ active = {} /\ windows = {}
    BY DEF Init, Stages, IdleStages, Statuses
  <2>3. /\ at \in Nat \ {0} /\ checked \in Nat
        /\ cancelledAt = None /\ primary = None /\ stagingError = None
        /\ outcome = None /\ invocation = "ok" /\ services = "idle"
    BY DEF Init
  <2>4. drainFailed \in BOOLEAN
    BY DEF Init
  <2> QED
    BY <2>1, <2>2, <2>3, <2>4 DEF FieldsTyped
<1>2. phases \in Seq(PhaseEvent) /\ Len(phases) = 0
  BY DEF Init
<1>3. TimelineInv
  BY <1>2 DEF Init, TimelineInv, TimelineTyped, AllClosed, OpenStages
<1> QED
  BY <1>1, <1>3 DEF IInv

LEMMA NextIInv == IInv /\ [Next]_vars => IInv'
<1> SUFFICES ASSUME IInv, [Next]_vars PROVE IInv'
  OBVIOUS
<1> USE DEF IInv
<1>1. CASE Refuse \/ Admit \/ Cancel
  BY <1>1, AdmissionTyped, AdmissionTimeline
<1>2. CASE Probe
  BY <1>2, ProbeTyped, ProbeTimeline
<1>3. CASE Startup
  BY <1>3, StartupTyped, StartupTimeline
<1>4. CASE Diagnose
  BY <1>4, DiagnoseTyped, DiagnoseTimeline
<1>5. CASE Check
  BY <1>5, CheckTyped, CheckTimeline
<1>6. CASE Warmup
  BY <1>6, WarmupTyped, WarmupTimeline
<1>7. CASE Trial
  BY <1>7, TrialTyped, TrialTimeline
<1>8. CASE Between
  BY <1>8, BetweenTyped, BetweenTimeline
<1>9. CASE CleanUp
  BY <1>9, CleanUpTyped, CleanUpTimeline
<1>10. CASE Seal
  BY <1>10, SealTyped, SealTimeline
<1>11. CASE UNCHANGED vars
  BY <1>11 DEF vars, verdict, ledger, telemetry, FieldsTyped, TimelineInv,
           TimelineTyped, AllClosed, LastOpen
<1> QED
  BY <1>1, <1>2, <1>3, <1>4, <1>5, <1>6, <1>7, <1>8, <1>9, <1>10, <1>11 DEF Next, Run

LEMMA SpecIInv == Spec => []IInv
  BY InitIInv, NextIInv, PTL DEF Spec

(* The variables keep the types the code declares for them, for every plan. *)
THEOREM TypeCorrect == Spec => []TypeOK
<1>1. IInv => TypeOK
  BY TypeOKParts DEF IInv, TimelineInv
<1> QED
  BY <1>1, SpecIInv, PTL

(* Whatever a section ends with, its phase event is finished: for every     *)
(* plan, an event is open exactly while its section runs, and it is the     *)
(* last of the timeline.                                                    *)
THEOREM TimelineIsClosed == Spec => []TimelineClosed
<1>1. IInv => TimelineClosed
  <2> SUFFICES ASSUME IInv PROVE TimelineClosed
    OBVIOUS
  <2>1. Len(phases) \in Nat /\ DOMAIN phases = 1 .. Len(phases)
    BY LenProperties DEF IInv, TimelineInv, TimelineTyped
  <2>2. phases # <<>> <=> Len(phases) > 0
    BY EmptySeq, <2>1 DEF IInv, TimelineInv, TimelineTyped
  <2>3. pc \in OpenStages \/ pc \in IdleStages
    BY DEF IInv, FieldsTyped, Stages
  <2>4. CASE pc \in OpenStages
    <3> USE DEF IInv, TimelineInv
    <3>1. LastOpen
      BY <2>4
    <3>2. Len(phases) > 0
      BY <3>1 DEF LastOpen
    <3>3. Len(phases) \in 1 .. Len(phases)
      BY <2>1, <3>2
    <3>4. phases[Len(phases)].outcome = "Open" /\ phases # <<>>
      BY <2>2, <3>1, <3>2, <3>3 DEF LastOpen
    <3>5. \A k \in 1 .. Len(phases) : phases[k].outcome = "Open" => k = Len(phases)
      BY <3>1 DEF LastOpen
    <3>6. \A k \in DOMAIN phases : phases[k].outcome = "Open" => k = Len(phases)
      BY <2>1, <3>5
    <3> QED
      BY <2>4, <3>4, <3>6 DEF TimelineClosed
  <2>5. CASE pc \in IdleStages
    BY <2>1, <2>2, <2>5, StagesDisjoint DEF IInv, TimelineInv, AllClosed, TimelineClosed
  <2> QED
    BY <2>3, <2>4, <2>5
<1> QED
  BY <1>1, SpecIInv, PTL

-----------------------------------------------------------------------------
(***************************************************************************)
(* Services and verdict, by stage.                                         *)
(***************************************************************************)
BeforeReadiness == {"admission", "probeExternal", "startup", "starting"}

Experiment ==
  {"probeManaged", "diagnosePre", "diagnosingPre", "check", "checking",
   "corpus", "corpusRunning", "warmup", "warming", "trial", "opening",
   "measuring", "closing", "between", "resetting", "stabilize", "cooling"}

(* Services start with the end of readiness and stop with the teardown; or *)
(* their startup gives them up, and nothing is measured any more.          *)
ServicesInv ==
  /\ pc \in BeforeReadiness => services = "idle" /\ trials = <<>>
  /\ services = "abandoned" => status # "Completed" /\ trials = <<>>
  /\ pc = "blaming" => services \in {"idle", "abandoned"}
  /\ pc \in Experiment => services = IF Managed THEN "running" ELSE "idle"
  /\ pc = "diagnosingPost" => services = "running"
  /\ pc \in {"staging", "finalization", "publish", "done"} => services # "running"

Clean == status = "Completed" /\ primary = None /\ stagingError = None

CleanOrCancelled ==
  \/ Clean
  \/ stagingError = None /\ Cancelled /\ status = "Cancelled" /\ primary = "Cancelled"

(* Stages that are entered only by a run nothing has gone wrong for. *)
CleanStages ==
  {"admission", "probeExternal", "startup", "starting", "probeManaged",
   "diagnosingPre", "checking", "warmup", "warming", "trial", "opening",
   "measuring", "closing", "between", "resetting", "stabilize", "cooling"}

(* The verdict and its cause move together; the corpus loop is clean only *)
(* when no check ran before it.                                           *)
VerdictInv ==
  /\ status = "Completed" => primary = None
  /\ status # "Completed" /\ stagingError = None /\ pc # "blaming" => primary # None
  /\ pc = "blaming" => primary = None /\ status # "Completed"
  /\ pc \in CleanStages => Clean
  /\ pc = "diagnosePre" => CleanOrCancelled
  /\ pc = "check" /\ at <= SecurityChecks => CleanOrCancelled
  /\ pc = "check" /\ SecurityChecks = 0 => Clean
  /\ pc = "corpus" /\ at <= CorpusChecks /\ SecurityChecks = 0 => Clean
  /\ pc = "checking" => at <= SecurityChecks
  /\ pc = "corpusRunning" => at <= CorpusChecks /\ (SecurityChecks = 0 => Clean)

OneKindOfChecks == SecurityChecks = 0 \/ CorpusChecks = 0

PrimaryKept == primary # None => UNCHANGED primary

(* What an action does to the verdict of the contract. *)
Judges ==
  \/ ContractVerdict' = ContractVerdict
  \/ ContractVerdict = "Completed"
  \/ ContractVerdict' = "unreported"

LEMMA AdmissionServices ==
  ASSUME FieldsTyped, ServicesInv, Refuse \/ Admit \/ Cancel
  PROVE  ServicesInv'
<1> USE PlanAssumption DEF Goto, FieldsTyped, ServicesInv, BeforeReadiness, Experiment,
                           verdict, ledger, Fail, Settle
<1>1. CASE Refuse
  BY <1>1 DEF Refuse
<1>2. CASE Admit
  BY <1>2 DEF Admit
<1>3. CASE Cancel
  BY <1>3 DEF Cancel
<1> QED
  BY <1>1, <1>2, <1>3

LEMMA ProbeServices ==
  ASSUME FieldsTyped, ServicesInv, Probe
  PROVE  ServicesInv'
<1> USE PlanAssumption DEF Goto, FieldsTyped, ServicesInv, BeforeReadiness, Experiment,
                           verdict, ledger, Fail, Settle
<1>1. ASSUME NEW stage \in {"probeExternal", "probeManaged"}, NEW managed \in BOOLEAN,
             ProbeSkip(stage, managed)
      PROVE  ServicesInv'
  BY <1>1 DEF ProbeSkip, AtProbe
<1>2. ASSUME NEW stage \in {"probeExternal", "probeManaged"}, NEW managed \in BOOLEAN,
             ProbeSucceeds(stage, managed)
      PROVE  ServicesInv'
  BY <1>2 DEF ProbeSucceeds, AtProbe
<1>3. ASSUME NEW stage \in {"probeExternal", "probeManaged"}, NEW managed \in BOOLEAN,
             OptionalProbeFails(stage, managed)
      PROVE  ServicesInv'
  BY <1>3 DEF OptionalProbeFails, AtProbe
<1>4. ASSUME NEW stage \in {"probeExternal", "probeManaged"}, NEW managed \in BOOLEAN,
             ProbeEnds(stage, managed)
      PROVE  ServicesInv'
  BY <1>4 DEF ProbeEnds, AtProbe
<1>5. CASE RequiredExternalFails
  BY <1>5 DEF RequiredExternalFails
<1>6. CASE RequiredManagedFails
  BY <1>6 DEF RequiredManagedFails
<1> QED
  BY <1>1, <1>2, <1>3, <1>4, <1>5, <1>6 DEF Probe

LEMMA StartupServices ==
  ASSUME FieldsTyped, ServicesInv, Startup
  PROVE  ServicesInv'
<1> USE PlanAssumption DEF Goto, FieldsTyped, ServicesInv, BeforeReadiness, Experiment,
                           verdict, ledger, Fail, Settle
<1>1. CASE StartupBegin
  BY <1>1 DEF StartupBegin
<1>2. CASE StartupSucceeds
  BY <1>2 DEF StartupSucceeds
<1>3. CASE StartupFails
  BY <1>3 DEF StartupFails
<1>4. CASE StartupBlames
  BY <1>4 DEF StartupBlames
<1> QED
  BY <1>1, <1>2, <1>3, <1>4 DEF Startup

LEMMA DiagnoseServices ==
  ASSUME FieldsTyped, ServicesInv, Diagnose
  PROVE  ServicesInv'
<1> USE PlanAssumption DEF Goto, FieldsTyped, ServicesInv, BeforeReadiness, Experiment,
                           verdict, ledger, Fail, Settle
<1>1. ASSUME NEW slot \in {"Pre", "Post"},
             DiagnosticsEnd(slot)
      PROVE  ServicesInv'
  BY <1>1 DEF DiagnosticsEnd, DiagnosticsOver, GotoIfHealthy, IdleStage
<1>2. ASSUME NEW slot \in {"Pre", "Post"},
             DiagnosticSkip(slot)
      PROVE  ServicesInv'
  BY <1>2 DEF DiagnosticSkip, DiagnosticsOver, IdleStage
<1>3. ASSUME NEW slot \in {"Pre", "Post"},
             DiagnosticCancelled(slot)
      PROVE  ServicesInv'
  BY <1>3 DEF DiagnosticCancelled, DiagnosticsOver, IdleStage
<1>4. ASSUME NEW slot \in {"Pre", "Post"},
             DiagnosticBegin(slot)
      PROVE  ServicesInv'
  BY <1>4 DEF DiagnosticBegin, DiagnosticsOver, IdleStage, BusyStage
<1>5. ASSUME NEW slot \in {"Pre", "Post"},
             DiagnosticUnstaged(slot)
      PROVE  ServicesInv'
  BY <1>5 DEF DiagnosticUnstaged, BusyStage
<1>6. ASSUME NEW slot \in {"Pre", "Post"}, NEW answer \in DiagnosticAnswers,
             DiagnosticDone(slot, answer)
      PROVE  ServicesInv'
  BY <1>6 DEF DiagnosticDone, IdleStage, BusyStage
<1> QED
  BY <1>1, <1>2, <1>3, <1>4, <1>5, <1>6 DEF Diagnose

LEMMA CheckServices ==
  ASSUME FieldsTyped, ServicesInv, Check
  PROVE  ServicesInv'
<1> USE PlanAssumption DEF Goto, FieldsTyped, ServicesInv, BeforeReadiness, Experiment,
                           verdict, ledger, Fail, Settle
<1>1. ASSUME NEW loop \in {"check", "corpus"},
             ChecksEnd(loop)
      PROVE  ServicesInv'
  BY <1>1 DEF ChecksEnd, GotoIfHealthy
<1>2. ASSUME NEW loop \in {"check", "corpus"},
             CheckCancelled(loop)
      PROVE  ServicesInv'
  BY <1>2 DEF CheckCancelled, LeaveChecks
<1>3. ASSUME NEW loop \in {"check", "corpus"},
             CheckBegin(loop)
      PROVE  ServicesInv'
  BY <1>3 DEF CheckBegin, CheckLoops
<1>4. ASSUME NEW loop \in {"check", "corpus"},
             CheckUnstaged(loop)
      PROVE  ServicesInv'
  BY <1>4 DEF CheckUnstaged, LeaveChecks, CheckLoops
<1>5. ASSUME NEW loop \in {"check", "corpus"},
             CheckErrs(loop)
      PROVE  ServicesInv'
  BY <1>5 DEF CheckErrs, LeaveChecks, CheckLoops
<1>6. CASE CheckObserved
  BY <1>6 DEF CheckObserved
<1>7. CASE CorpusObserved
  BY <1>7 DEF CorpusObserved
<1>8. CASE CorpusInvalid
  BY <1>8 DEF CorpusInvalid, LeaveChecks, CheckLoops
<1>9. DOMAIN CheckLoops = {"check", "corpus"}
  BY DEF CheckLoops
<1> QED
  BY <1>1, <1>2, <1>3, <1>4, <1>5, <1>6, <1>7, <1>8, <1>9 DEF Check

LEMMA WarmupServices ==
  ASSUME FieldsTyped, ServicesInv, Warmup
  PROVE  ServicesInv'
<1> USE PlanAssumption DEF Goto, FieldsTyped, ServicesInv, BeforeReadiness, Experiment,
                           verdict, ledger, Fail, Settle
<1>1. CASE WarmupsEnd
  BY <1>1 DEF WarmupsEnd, GotoIfHealthy
<1>2. CASE WarmupBegin
  BY <1>2 DEF WarmupBegin
<1>3. CASE WarmupDone
  BY <1>3 DEF WarmupDone
<1>4. CASE WarmupUnstaged
  BY <1>4 DEF WarmupUnstaged
<1>5. CASE WarmupFails
  BY <1>5 DEF WarmupFails
<1> QED
  BY <1>1, <1>2, <1>3, <1>4, <1>5 DEF Warmup

LEMMA TrialServices ==
  ASSUME FieldsTyped, ServicesInv, Trial
  PROVE  ServicesInv'
<1> USE PlanAssumption DEF Goto, FieldsTyped, ServicesInv, BeforeReadiness, Experiment,
                           verdict, ledger, Fail, Settle
<1>1. CASE TrialCancelled
  BY <1>1 DEF TrialCancelled
<1>2. CASE TrialBegin
  BY <1>2 DEF TrialBegin
<1>3. CASE WindowOpens
  BY <1>3 DEF WindowOpens
<1>4. CASE WindowFails
  BY <1>4 DEF WindowFails
<1>5. CASE MeasureBegin
  BY <1>5 DEF MeasureBegin
<1>6. CASE MeasureEnd
  BY <1>6 DEF MeasureEnd
<1>7. CASE TrialSucceeds
  BY <1>7 DEF TrialSucceeds
<1>8. CASE TrialUnstaged
  BY <1>8 DEF TrialUnstaged
<1>9. CASE TrialUnobserved
  BY <1>9 DEF TrialUnobserved
<1>10. CASE TrialFails
  BY <1>10 DEF TrialFails
<1> QED
  BY <1>1, <1>2, <1>3, <1>4, <1>5, <1>6, <1>7, <1>8, <1>9, <1>10 DEF Trial

LEMMA BetweenServices ==
  ASSUME FieldsTyped, ServicesInv, Between
  PROVE  ServicesInv'
<1> USE PlanAssumption DEF Goto, FieldsTyped, ServicesInv, BeforeReadiness, Experiment,
                           verdict, ledger, Fail, Settle
<1>1. CASE TrialsEnd
  BY <1>1 DEF TrialsEnd
<1>2. CASE ResetBegin
  BY <1>2 DEF ResetBegin
<1>3. CASE ResetDone
  BY <1>3 DEF ResetDone
<1>4. CASE ResetFails
  BY <1>4 DEF ResetFails
<1>5. CASE CooldownBegin
  BY <1>5 DEF CooldownBegin
<1>6. CASE CooldownDone
  BY <1>6 DEF CooldownDone
<1>7. CASE CooldownCancelled
  BY <1>7 DEF CooldownCancelled
<1> QED
  BY <1>1, <1>2, <1>3, <1>4, <1>5, <1>6, <1>7 DEF Between

LEMMA CleanUpServices ==
  ASSUME FieldsTyped, ServicesInv, CleanUp
  PROVE  ServicesInv'
<1> USE PlanAssumption DEF Goto, FieldsTyped, ServicesInv, BeforeReadiness, Experiment,
                           verdict, ledger, Fail, Settle
<1>1. CASE DrainBegin
  BY <1>1 DEF DrainBegin
<1>2. CASE DrainEnd
  BY <1>2 DEF DrainEnd
<1>3. CASE TelemetryDrainBegin
  BY <1>3 DEF TelemetryDrainBegin
<1>4. CASE TelemetryDrainSucceeds
  BY <1>4 DEF TelemetryDrainSucceeds
<1>5. CASE TelemetryDrainFails
  BY <1>5 DEF TelemetryDrainFails
<1>6. CASE TeardownBegin
  BY <1>6 DEF TeardownBegin
<1>7. CASE NothingToTearDown
  BY <1>7 DEF NothingToTearDown
<1>8. CASE TeardownEnd
  BY <1>8 DEF TeardownEnd
<1> QED
  BY <1>1, <1>2, <1>3, <1>4, <1>5, <1>6, <1>7, <1>8 DEF CleanUp

LEMMA SealServices ==
  ASSUME FieldsTyped, ServicesInv, Seal
  PROVE  ServicesInv'
<1> USE PlanAssumption DEF Goto, FieldsTyped, ServicesInv, BeforeReadiness, Experiment,
                           verdict, ledger, Fail, Settle
<1>1. CASE StageEvidence
  BY <1>1 DEF StageEvidence
<1>2. CASE Finalize
  BY <1>2 DEF Finalize
<1>3. CASE Publish
  BY <1>3 DEF Publish
<1>4. CASE PublishFails
  BY <1>4 DEF PublishFails
<1> QED
  BY <1>1, <1>2, <1>3, <1>4 DEF Seal

LEMMA AdmissionVerdict ==
  ASSUME FieldsTyped, VerdictInv, Refuse \/ Admit \/ Cancel
  PROVE  VerdictInv' /\ (OneKindOfChecks => PrimaryKept /\ Judges)
<1> USE PlanAssumption DEF Goto, verdict, FieldsTyped, VerdictInv, Clean, CleanOrCancelled, CleanStages,
             OneKindOfChecks, PrimaryKept, Judges, ContractVerdict, FailureCategories,
             None, Cancelled, EvidenceFaults, Statuses
<1>1. CASE Refuse
  BY <1>1 DEF Refuse
<1>2. CASE Admit
  BY <1>2 DEF Admit
<1>3. CASE Cancel
  BY <1>3 DEF Cancel
<1> QED
  BY <1>1, <1>2, <1>3

LEMMA ProbeVerdict ==
  ASSUME FieldsTyped, VerdictInv, Probe
  PROVE  VerdictInv' /\ (OneKindOfChecks => PrimaryKept /\ Judges)
<1> USE PlanAssumption DEF Goto, verdict, FieldsTyped, VerdictInv, Clean, CleanOrCancelled, CleanStages,
             OneKindOfChecks, PrimaryKept, Judges, ContractVerdict, FailureCategories,
             None, Cancelled, EvidenceFaults, Statuses
<1>1. ASSUME NEW stage \in {"probeExternal", "probeManaged"}, NEW managed \in BOOLEAN,
             ProbeSkip(stage, managed)
      PROVE  VerdictInv' /\ (OneKindOfChecks => PrimaryKept /\ Judges)
  BY <1>1 DEF ProbeSkip, AtProbe
<1>2. ASSUME NEW stage \in {"probeExternal", "probeManaged"}, NEW managed \in BOOLEAN,
             ProbeSucceeds(stage, managed)
      PROVE  VerdictInv' /\ (OneKindOfChecks => PrimaryKept /\ Judges)
  BY <1>2 DEF ProbeSucceeds, AtProbe
<1>3. ASSUME NEW stage \in {"probeExternal", "probeManaged"}, NEW managed \in BOOLEAN,
             OptionalProbeFails(stage, managed)
      PROVE  VerdictInv' /\ (OneKindOfChecks => PrimaryKept /\ Judges)
  BY <1>3 DEF OptionalProbeFails, AtProbe
<1>4. ASSUME NEW stage \in {"probeExternal", "probeManaged"}, NEW managed \in BOOLEAN,
             ProbeEnds(stage, managed)
      PROVE  VerdictInv' /\ (OneKindOfChecks => PrimaryKept /\ Judges)
  BY <1>4 DEF ProbeEnds, AtProbe
<1>5. CASE RequiredExternalFails
  BY <1>5 DEF RequiredExternalFails
<1>6. CASE RequiredManagedFails
  BY <1>6 DEF RequiredManagedFails, Fail
<1> QED
  BY <1>1, <1>2, <1>3, <1>4, <1>5, <1>6 DEF Probe

LEMMA StartupVerdict ==
  ASSUME FieldsTyped, VerdictInv, Startup
  PROVE  VerdictInv' /\ (OneKindOfChecks => PrimaryKept /\ Judges)
<1> USE PlanAssumption DEF Goto, verdict, FieldsTyped, VerdictInv, Clean, CleanOrCancelled, CleanStages,
             OneKindOfChecks, PrimaryKept, Judges, ContractVerdict, FailureCategories,
             None, Cancelled, EvidenceFaults, Statuses
<1>1. CASE StartupBegin
  BY <1>1 DEF StartupBegin, Fail
<1>2. CASE StartupSucceeds
  BY <1>2 DEF StartupSucceeds
<1>3. CASE StartupFails
  BY <1>3 DEF StartupFails
<1>4. CASE StartupBlames
  BY <1>4 DEF StartupBlames
<1> QED
  BY <1>1, <1>2, <1>3, <1>4 DEF Startup

LEMMA DiagnoseVerdict ==
  ASSUME FieldsTyped, VerdictInv, Diagnose
  PROVE  VerdictInv' /\ (OneKindOfChecks => PrimaryKept /\ Judges)
<1> USE PlanAssumption DEF Goto, verdict, FieldsTyped, VerdictInv, Clean, CleanOrCancelled, CleanStages,
             OneKindOfChecks, PrimaryKept, Judges, ContractVerdict, FailureCategories,
             None, Cancelled, EvidenceFaults, Statuses
<1>1. ASSUME NEW slot \in {"Pre", "Post"},
             DiagnosticsEnd(slot)
      PROVE  VerdictInv' /\ (OneKindOfChecks => PrimaryKept /\ Judges)
  BY <1>1 DEF DiagnosticsEnd, DiagnosticsOver, GotoIfHealthy, IdleStage, Healthy
<1>2. ASSUME NEW slot \in {"Pre", "Post"},
             DiagnosticSkip(slot)
      PROVE  VerdictInv' /\ (OneKindOfChecks => PrimaryKept /\ Judges)
  BY <1>2 DEF DiagnosticSkip, DiagnosticsOver, IdleStage
<1>3. ASSUME NEW slot \in {"Pre", "Post"},
             DiagnosticCancelled(slot)
      PROVE  VerdictInv' /\ (OneKindOfChecks => PrimaryKept /\ Judges)
  BY <1>3 DEF DiagnosticCancelled, DiagnosticsOver, IdleStage, Fail
<1>4. ASSUME NEW slot \in {"Pre", "Post"},
             DiagnosticBegin(slot)
      PROVE  VerdictInv' /\ (OneKindOfChecks => PrimaryKept /\ Judges)
  BY <1>4 DEF DiagnosticBegin, DiagnosticsOver, IdleStage, BusyStage
<1>5. ASSUME NEW slot \in {"Pre", "Post"},
             DiagnosticUnstaged(slot)
      PROVE  VerdictInv' /\ (OneKindOfChecks => PrimaryKept /\ Judges)
  BY <1>5 DEF DiagnosticUnstaged, BusyStage
<1>6. ASSUME NEW slot \in {"Pre", "Post"}, NEW answer \in DiagnosticAnswers,
             DiagnosticDone(slot, answer)
      PROVE  VerdictInv' /\ (OneKindOfChecks => PrimaryKept /\ Judges)
  BY <1>6 DEF DiagnosticDone, IdleStage, BusyStage, DiagnosticAnswers, Errors,
              Fail, Settle
<1> QED
  BY <1>1, <1>2, <1>3, <1>4, <1>5, <1>6 DEF Diagnose

LEMMA CheckVerdict ==
  ASSUME FieldsTyped, VerdictInv, Check
  PROVE  VerdictInv' /\ (OneKindOfChecks => PrimaryKept /\ Judges)
<1> USE PlanAssumption DEF Goto, verdict, FieldsTyped, VerdictInv, Clean, CleanOrCancelled, CleanStages,
             OneKindOfChecks, PrimaryKept, Judges, ContractVerdict, FailureCategories,
             None, Cancelled, EvidenceFaults, Statuses
<1>1. ASSUME NEW loop \in {"check", "corpus"},
             ChecksEnd(loop)
      PROVE  VerdictInv' /\ (OneKindOfChecks => PrimaryKept /\ Judges)
  BY <1>1 DEF ChecksEnd, GotoIfHealthy, CheckLoops, Healthy
<1>2. ASSUME NEW loop \in {"check", "corpus"},
             CheckCancelled(loop)
      PROVE  VerdictInv' /\ (OneKindOfChecks => PrimaryKept /\ Judges)
  BY <1>2 DEF CheckCancelled, LeaveChecks, Fail, CheckLoops
<1>3. ASSUME NEW loop \in {"check", "corpus"},
             CheckBegin(loop)
      PROVE  VerdictInv' /\ (OneKindOfChecks => PrimaryKept /\ Judges)
  BY <1>3 DEF CheckBegin, CheckLoops
<1>4. ASSUME NEW loop \in {"check", "corpus"},
             CheckUnstaged(loop)
      PROVE  VerdictInv' /\ (OneKindOfChecks => PrimaryKept /\ Judges)
  BY <1>4 DEF CheckUnstaged, LeaveChecks, CheckLoops
<1>5. ASSUME NEW loop \in {"check", "corpus"},
             CheckErrs(loop)
      PROVE  VerdictInv' /\ (OneKindOfChecks => PrimaryKept /\ Judges)
  BY <1>5 DEF CheckErrs, LeaveChecks, CheckLoops, Errors, Fail
<1>6. CASE CheckObserved
  BY <1>6 DEF CheckObserved, Settle, Fail
<1>7. CASE CorpusObserved
  BY <1>7 DEF CorpusObserved
<1>8. CASE CorpusInvalid
  BY <1>8 DEF CorpusInvalid, LeaveChecks, CheckLoops, Fail
<1>9. DOMAIN CheckLoops = {"check", "corpus"}
  BY DEF CheckLoops
<1> QED
  BY <1>1, <1>2, <1>3, <1>4, <1>5, <1>6, <1>7, <1>8, <1>9 DEF Check

LEMMA WarmupVerdict ==
  ASSUME FieldsTyped, VerdictInv, Warmup
  PROVE  VerdictInv' /\ (OneKindOfChecks => PrimaryKept /\ Judges)
<1> USE PlanAssumption DEF Goto, verdict, FieldsTyped, VerdictInv, Clean, CleanOrCancelled, CleanStages,
             OneKindOfChecks, PrimaryKept, Judges, ContractVerdict, FailureCategories,
             None, Cancelled, EvidenceFaults, Statuses
<1>1. CASE WarmupsEnd
  BY <1>1 DEF WarmupsEnd, GotoIfHealthy, Healthy
<1>2. CASE WarmupBegin
  BY <1>2 DEF WarmupBegin
<1>3. CASE WarmupDone
  BY <1>3 DEF WarmupDone
<1>4. CASE WarmupUnstaged
  BY <1>4 DEF WarmupUnstaged
<1>5. CASE WarmupFails
  BY <1>5 DEF WarmupFails, Errors, Fail, StatusFor
<1> QED
  BY <1>1, <1>2, <1>3, <1>4, <1>5 DEF Warmup

LEMMA TrialVerdict ==
  ASSUME FieldsTyped, VerdictInv, Trial
  PROVE  VerdictInv' /\ (OneKindOfChecks => PrimaryKept /\ Judges)
<1> USE PlanAssumption DEF Goto, verdict, FieldsTyped, VerdictInv, Clean, CleanOrCancelled, CleanStages,
             OneKindOfChecks, PrimaryKept, Judges, ContractVerdict, FailureCategories,
             None, Cancelled, EvidenceFaults, Statuses
<1>1. CASE TrialCancelled
  BY <1>1 DEF TrialCancelled, Fail
<1>2. CASE TrialBegin
  BY <1>2 DEF TrialBegin
<1>3. CASE WindowOpens
  BY <1>3 DEF WindowOpens
<1>4. CASE WindowFails
  BY <1>4 DEF WindowFails, Fail
<1>5. CASE MeasureBegin
  BY <1>5 DEF MeasureBegin
<1>6. CASE MeasureEnd
  BY <1>6 DEF MeasureEnd
<1>7. CASE TrialSucceeds
  BY <1>7 DEF TrialSucceeds
<1>8. CASE TrialUnstaged
  BY <1>8 DEF TrialUnstaged
<1>9. CASE TrialUnobserved
  BY <1>9 DEF TrialUnobserved, Fail
<1>10. CASE TrialFails
  BY <1>10 DEF TrialFails, Fail, StatusFor
<1> QED
  BY <1>1, <1>2, <1>3, <1>4, <1>5, <1>6, <1>7, <1>8, <1>9, <1>10 DEF Trial

LEMMA BetweenVerdict ==
  ASSUME FieldsTyped, VerdictInv, Between
  PROVE  VerdictInv' /\ (OneKindOfChecks => PrimaryKept /\ Judges)
<1> USE PlanAssumption DEF Goto, verdict, FieldsTyped, VerdictInv, Clean, CleanOrCancelled, CleanStages,
             OneKindOfChecks, PrimaryKept, Judges, ContractVerdict, FailureCategories,
             None, Cancelled, EvidenceFaults, Statuses
<1>1. CASE TrialsEnd
  BY <1>1 DEF TrialsEnd
<1>2. CASE ResetBegin
  BY <1>2 DEF ResetBegin
<1>3. CASE ResetDone
  BY <1>3 DEF ResetDone
<1>4. CASE ResetFails
  BY <1>4 DEF ResetFails, Errors, Fail, StatusFor
<1>5. CASE CooldownBegin
  BY <1>5 DEF CooldownBegin
<1>6. CASE CooldownDone
  BY <1>6 DEF CooldownDone
<1>7. CASE CooldownCancelled
  BY <1>7 DEF CooldownCancelled, Fail
<1> QED
  BY <1>1, <1>2, <1>3, <1>4, <1>5, <1>6, <1>7 DEF Between

LEMMA CleanUpVerdict ==
  ASSUME FieldsTyped, VerdictInv, CleanUp
  PROVE  VerdictInv' /\ (OneKindOfChecks => PrimaryKept /\ Judges)
<1> USE PlanAssumption DEF Goto, verdict, FieldsTyped, VerdictInv, Clean, CleanOrCancelled, CleanStages,
             OneKindOfChecks, PrimaryKept, Judges, ContractVerdict, FailureCategories,
             None, Cancelled, EvidenceFaults, Statuses
<1>1. CASE DrainBegin
  BY <1>1 DEF DrainBegin
<1>2. CASE DrainEnd
  BY <1>2 DEF DrainEnd, Fail, Settle
<1>3. CASE TelemetryDrainBegin
  BY <1>3 DEF TelemetryDrainBegin
<1>4. CASE TelemetryDrainSucceeds
  BY <1>4 DEF TelemetryDrainSucceeds, Fail, Settle
<1>5. CASE TelemetryDrainFails
  BY <1>5 DEF TelemetryDrainFails, Fail
<1>6. CASE TeardownBegin
  BY <1>6 DEF TeardownBegin
<1>7. CASE NothingToTearDown
  BY <1>7 DEF NothingToTearDown
<1>8. CASE TeardownEnd
  BY <1>8 DEF TeardownEnd, Fail, Settle
<1> QED
  BY <1>1, <1>2, <1>3, <1>4, <1>5, <1>6, <1>7, <1>8 DEF CleanUp

LEMMA SealVerdict ==
  ASSUME FieldsTyped, VerdictInv, Seal
  PROVE  VerdictInv' /\ (OneKindOfChecks => PrimaryKept /\ Judges)
<1> USE PlanAssumption DEF Goto, verdict, FieldsTyped, VerdictInv, Clean, CleanOrCancelled, CleanStages,
             OneKindOfChecks, PrimaryKept, Judges, ContractVerdict, FailureCategories,
             None, Cancelled, EvidenceFaults, Statuses
<1>1. CASE StageEvidence
  BY <1>1 DEF StageEvidence, EvidenceSteps
<1>2. CASE Finalize
  BY <1>2 DEF Finalize
<1>3. CASE Publish
  BY <1>3 DEF Publish
<1>4. CASE PublishFails
  BY <1>4 DEF PublishFails
<1> QED
  BY <1>1, <1>2, <1>3, <1>4 DEF Seal

-----------------------------------------------------------------------------
(***************************************************************************)
(* Telemetry, by stage.  A probe interrupted by a cancellation forgets the *)
(* collectors it had found, so that required collectors are known to be    *)
(* active only while the token is not cancelled; what carries this over to *)
(* a trial is that the trial loop reads the token before it begins one.    *)
(***************************************************************************)
RequiredUpTo(n) ==
  \A i \in DOMAIN Sources :
    Sources[i].required /\ (~ Sources[i].managed \/ i < n) => i \in active

RequiredReady == \A i \in DOMAIN Sources : Sources[i].required => i \in active

RequiredRegistered(n) ==
  \A i \in DOMAIN Sources :
    Sources[i].required /\ i < n =>
      Sources[i].registered /\ (Sources[i].managed \/ i \in active)

ExternalReady ==
  \A i \in DOMAIN Sources :
    Sources[i].required => Sources[i].registered /\ (Sources[i].managed \/ i \in active)

Trialling == {"opening", "measuring", "closing"}

AfterProbes == Experiment \ {"probeManaged"}

LEMMA SourceTyped ==
  ASSUME NEW i \in DOMAIN Sources
  PROVE  /\ i \in Nat
         /\ Sources[i].required \in BOOLEAN
         /\ Sources[i].registered \in BOOLEAN
         /\ Sources[i].managed \in BOOLEAN
<1>1. Sources \in Seq(Source)
  BY PlanAssumption
<1>2. i \in 1 .. Len(Sources)
  BY <1>1, LenProperties
<1>3. Sources[i] \in Source
  BY <1>1, <1>2, ElementOfSeq
<1> QED
  BY <1>2, <1>3 DEF Source

TelemetryInv ==
  /\ windows # {} => pc \in Trialling
  /\ windows \subseteq active
  /\ pc = "measuring" => windows = active
  /\ pc = "admission" => at = 1
  /\ pc = "probeExternal" => RequiredRegistered(at)
  /\ pc \in {"startup", "starting"} /\ ~ Cancelled => ExternalReady
  /\ pc = "probeManaged" /\ ~ Cancelled => ExternalReady /\ RequiredUpTo(at)
  /\ pc \in AfterProbes /\ ~ Cancelled => RequiredReady
  /\ pc \in Trialling => RequiredReady

LEMMA AdmissionTelemetry ==
  ASSUME FieldsTyped, TelemetryInv, Refuse \/ Admit \/ Cancel
  PROVE  TelemetryInv'
<1> USE PlanAssumption DEF Goto, telemetry, FieldsTyped, TelemetryInv, Trialling, AfterProbes,
             Experiment, Cancelled, RequiredReady
<1>1. CASE Refuse
  BY <1>1 DEF Refuse
<1>2. CASE Admit
  BY <1>2 DEF Admit, RequiredRegistered
<1>3. CASE Cancel
  BY <1>3 DEF Cancel, RequiredUpTo, RequiredRegistered, ExternalReady, Stages,
              IdleStages, OpenStages, None
<1> QED
  BY <1>1, <1>2, <1>3

LEMMA ProbeTelemetry ==
  ASSUME FieldsTyped, TelemetryInv, Probe
  PROVE  TelemetryInv'
<1> USE PlanAssumption DEF Goto, telemetry, FieldsTyped, TelemetryInv, Trialling, AfterProbes,
             Experiment, Cancelled, RequiredReady
<1>1. ASSUME NEW stage \in {"probeExternal", "probeManaged"}, NEW managed \in BOOLEAN,
             ProbeSkip(stage, managed)
      PROVE  TelemetryInv'
  <2>1. /\ pc' = pc /\ at' = at + 1 /\ at \in DOMAIN Sources /\ at \in Nat
        /\ pc = stage /\ (stage = "probeManaged" <=> managed)
        /\ ~ Due(at, managed)
        /\ managed \/ Sources[at].registered \/ ~ Sources[at].required
        /\ UNCHANGED <<active, windows, cancelledAt>>
    BY <1>1 DEF ProbeSkip, AtProbe
  <2>2. CASE stage = "probeExternal"
    <3>1. managed = FALSE
      BY <2>1, <2>2
    <3>2. ASSUME NEW i \in DOMAIN Sources, Sources[i].required, i < at + 1
          PROVE  Sources[i].registered /\ (Sources[i].managed \/ i \in active)
      <4>1. CASE i < at
        BY <2>1, <2>2, <3>2, <4>1 DEF RequiredRegistered
      <4>2. CASE i = at
        BY <2>1, <3>1, <3>2, <4>2, SourceTyped DEF Due
      <4> QED
        BY <2>1, <3>2, <4>1, <4>2, SourceTyped
    <3> QED
      BY <2>1, <2>2, <3>2 DEF RequiredRegistered
  <2>3. CASE stage = "probeManaged"
    <3>1. managed = TRUE
      BY <2>1, <2>3
    <3>2. ASSUME ~ Cancelled,
                 NEW i \in DOMAIN Sources, Sources[i].required,
                 ~ Sources[i].managed \/ i < at + 1
          PROVE  i \in active
      <4>1. CASE ~ Sources[i].managed \/ i < at
        BY <2>1, <2>3, <3>2, <4>1 DEF RequiredUpTo
      <4>2. CASE Sources[i].managed /\ i = at
        BY <2>1, <2>3, <3>1, <3>2, <4>2, SourceTyped DEF Due, ExternalReady
      <4> QED
        BY <2>1, <3>2, <4>1, <4>2, SourceTyped
    <3> QED
      BY <2>1, <2>3, <3>2 DEF RequiredUpTo, ExternalReady
  <2> QED
    BY <2>1, <2>2, <2>3
<1>2. ASSUME NEW stage \in {"probeExternal", "probeManaged"}, NEW managed \in BOOLEAN,
             ProbeSucceeds(stage, managed)
      PROVE  TelemetryInv'
  BY <1>2 DEF ProbeSucceeds, AtProbe, RequiredUpTo, RequiredRegistered,
              ExternalReady, Due, Probed
<1>3. ASSUME NEW stage \in {"probeExternal", "probeManaged"}, NEW managed \in BOOLEAN,
             OptionalProbeFails(stage, managed)
      PROVE  TelemetryInv'
  BY <1>3 DEF OptionalProbeFails, AtProbe, RequiredUpTo, RequiredRegistered,
              ExternalReady, Due, Probed
<1>4. ASSUME NEW stage \in {"probeExternal", "probeManaged"}, NEW managed \in BOOLEAN,
             ProbeEnds(stage, managed)
      PROVE  TelemetryInv'
  BY <1>4 DEF ProbeEnds, AtProbe, RequiredUpTo, RequiredRegistered,
              ExternalReady, Due, Probed
<1>5. CASE RequiredExternalFails
  BY <1>5 DEF RequiredExternalFails
<1>6. CASE RequiredManagedFails
  BY <1>6 DEF RequiredManagedFails
<1> QED
  BY <1>1, <1>2, <1>3, <1>4, <1>5, <1>6 DEF Probe

LEMMA StartupTelemetry ==
  ASSUME FieldsTyped, TelemetryInv, Startup
  PROVE  TelemetryInv'
<1> USE PlanAssumption DEF Goto, telemetry, FieldsTyped, TelemetryInv, Trialling, AfterProbes,
             Experiment, Cancelled, RequiredReady
<1>1. CASE StartupBegin
  BY <1>1 DEF StartupBegin, ExternalReady
<1>2. CASE StartupSucceeds
  BY <1>2 DEF StartupSucceeds, ExternalReady, RequiredUpTo
<1>3. CASE StartupFails
  BY <1>3 DEF StartupFails
<1>4. CASE StartupBlames
  BY <1>4 DEF StartupBlames
<1> QED
  BY <1>1, <1>2, <1>3, <1>4 DEF Startup

LEMMA DiagnoseTelemetry ==
  ASSUME FieldsTyped, TelemetryInv, Diagnose
  PROVE  TelemetryInv'
<1> USE PlanAssumption DEF Goto, telemetry, FieldsTyped, TelemetryInv, Trialling, AfterProbes,
             Experiment, Cancelled, RequiredReady
<1>1. ASSUME NEW slot \in {"Pre", "Post"},
             DiagnosticsEnd(slot)
      PROVE  TelemetryInv'
  BY <1>1 DEF DiagnosticsEnd, DiagnosticsOver, GotoIfHealthy, IdleStage
<1>2. ASSUME NEW slot \in {"Pre", "Post"},
             DiagnosticSkip(slot)
      PROVE  TelemetryInv'
  BY <1>2 DEF DiagnosticSkip, DiagnosticsOver, IdleStage
<1>3. ASSUME NEW slot \in {"Pre", "Post"},
             DiagnosticCancelled(slot)
      PROVE  TelemetryInv'
  BY <1>3 DEF DiagnosticCancelled, DiagnosticsOver, IdleStage
<1>4. ASSUME NEW slot \in {"Pre", "Post"},
             DiagnosticBegin(slot)
      PROVE  TelemetryInv'
  BY <1>4 DEF DiagnosticBegin, DiagnosticsOver, IdleStage, BusyStage
<1>5. ASSUME NEW slot \in {"Pre", "Post"},
             DiagnosticUnstaged(slot)
      PROVE  TelemetryInv'
  BY <1>5 DEF DiagnosticUnstaged, BusyStage
<1>6. ASSUME NEW slot \in {"Pre", "Post"}, NEW answer \in DiagnosticAnswers,
             DiagnosticDone(slot, answer)
      PROVE  TelemetryInv'
  BY <1>6 DEF DiagnosticDone, IdleStage, BusyStage
<1> QED
  BY <1>1, <1>2, <1>3, <1>4, <1>5, <1>6 DEF Diagnose

LEMMA CheckTelemetry ==
  ASSUME FieldsTyped, TelemetryInv, Check
  PROVE  TelemetryInv'
<1> USE PlanAssumption DEF Goto, telemetry, FieldsTyped, TelemetryInv, Trialling, AfterProbes,
             Experiment, Cancelled, RequiredReady
<1>1. ASSUME NEW loop \in {"check", "corpus"},
             ChecksEnd(loop)
      PROVE  TelemetryInv'
  BY <1>1 DEF ChecksEnd, GotoIfHealthy
<1>2. ASSUME NEW loop \in {"check", "corpus"},
             CheckCancelled(loop)
      PROVE  TelemetryInv'
  BY <1>2 DEF CheckCancelled, LeaveChecks
<1>3. ASSUME NEW loop \in {"check", "corpus"},
             CheckBegin(loop)
      PROVE  TelemetryInv'
  BY <1>3 DEF CheckBegin, CheckLoops
<1>4. ASSUME NEW loop \in {"check", "corpus"},
             CheckUnstaged(loop)
      PROVE  TelemetryInv'
  BY <1>4 DEF CheckUnstaged, LeaveChecks, CheckLoops
<1>5. ASSUME NEW loop \in {"check", "corpus"},
             CheckErrs(loop)
      PROVE  TelemetryInv'
  BY <1>5 DEF CheckErrs, LeaveChecks, CheckLoops
<1>6. CASE CheckObserved
  BY <1>6 DEF CheckObserved
<1>7. CASE CorpusObserved
  BY <1>7 DEF CorpusObserved
<1>8. CASE CorpusInvalid
  BY <1>8 DEF CorpusInvalid, LeaveChecks, CheckLoops
<1>9. DOMAIN CheckLoops = {"check", "corpus"}
  BY DEF CheckLoops
<1> QED
  BY <1>1, <1>2, <1>3, <1>4, <1>5, <1>6, <1>7, <1>8, <1>9 DEF Check

LEMMA WarmupTelemetry ==
  ASSUME FieldsTyped, TelemetryInv, Warmup
  PROVE  TelemetryInv'
<1> USE PlanAssumption DEF Goto, telemetry, FieldsTyped, TelemetryInv, Trialling, AfterProbes,
             Experiment, Cancelled, RequiredReady
<1>1. CASE WarmupsEnd
  BY <1>1 DEF WarmupsEnd, GotoIfHealthy
<1>2. CASE WarmupBegin
  BY <1>2 DEF WarmupBegin
<1>3. CASE WarmupDone
  BY <1>3 DEF WarmupDone
<1>4. CASE WarmupUnstaged
  BY <1>4 DEF WarmupUnstaged
<1>5. CASE WarmupFails
  BY <1>5 DEF WarmupFails
<1> QED
  BY <1>1, <1>2, <1>3, <1>4, <1>5 DEF Warmup

LEMMA TrialTelemetry ==
  ASSUME FieldsTyped, TelemetryInv, Trial
  PROVE  TelemetryInv'
<1> USE PlanAssumption DEF Goto, telemetry, FieldsTyped, TelemetryInv, Trialling, AfterProbes,
             Experiment, Cancelled, RequiredReady
<1>1. CASE TrialCancelled
  BY <1>1 DEF TrialCancelled
<1>2. CASE TrialBegin
  BY <1>2 DEF TrialBegin
<1>3. CASE WindowOpens
  BY <1>3 DEF WindowOpens
<1>4. CASE WindowFails
  BY <1>4 DEF WindowFails
<1>5. CASE MeasureBegin
  BY <1>5 DEF MeasureBegin
<1>6. CASE MeasureEnd
  BY <1>6 DEF MeasureEnd
<1>7. CASE TrialSucceeds
  BY <1>7 DEF TrialSucceeds, StopWindows
<1>8. CASE TrialUnstaged
  BY <1>8 DEF TrialUnstaged, StopWindows
<1>9. CASE TrialUnobserved
  BY <1>9 DEF TrialUnobserved, StopWindows
<1>10. CASE TrialFails
  BY <1>10 DEF TrialFails, StopWindows
<1> QED
  BY <1>1, <1>2, <1>3, <1>4, <1>5, <1>6, <1>7, <1>8, <1>9, <1>10 DEF Trial

LEMMA BetweenTelemetry ==
  ASSUME FieldsTyped, TelemetryInv, Between
  PROVE  TelemetryInv'
<1> USE PlanAssumption DEF Goto, telemetry, FieldsTyped, TelemetryInv, Trialling, AfterProbes,
             Experiment, Cancelled, RequiredReady
<1>1. CASE TrialsEnd
  BY <1>1 DEF TrialsEnd
<1>2. CASE ResetBegin
  BY <1>2 DEF ResetBegin
<1>3. CASE ResetDone
  BY <1>3 DEF ResetDone
<1>4. CASE ResetFails
  BY <1>4 DEF ResetFails
<1>5. CASE CooldownBegin
  BY <1>5 DEF CooldownBegin
<1>6. CASE CooldownDone
  BY <1>6 DEF CooldownDone
<1>7. CASE CooldownCancelled
  BY <1>7 DEF CooldownCancelled
<1> QED
  BY <1>1, <1>2, <1>3, <1>4, <1>5, <1>6, <1>7 DEF Between

LEMMA CleanUpTelemetry ==
  ASSUME FieldsTyped, TelemetryInv, CleanUp
  PROVE  TelemetryInv'
<1> USE PlanAssumption DEF Goto, telemetry, FieldsTyped, TelemetryInv, Trialling, AfterProbes,
             Experiment, Cancelled, RequiredReady
<1>1. CASE DrainBegin
  BY <1>1 DEF DrainBegin
<1>2. CASE DrainEnd
  BY <1>2 DEF DrainEnd
<1>3. CASE TelemetryDrainBegin
  BY <1>3 DEF TelemetryDrainBegin
<1>4. CASE TelemetryDrainSucceeds
  BY <1>4 DEF TelemetryDrainSucceeds
<1>5. CASE TelemetryDrainFails
  BY <1>5 DEF TelemetryDrainFails
<1>6. CASE TeardownBegin
  BY <1>6 DEF TeardownBegin
<1>7. CASE NothingToTearDown
  BY <1>7 DEF NothingToTearDown
<1>8. CASE TeardownEnd
  BY <1>8 DEF TeardownEnd
<1> QED
  BY <1>1, <1>2, <1>3, <1>4, <1>5, <1>6, <1>7, <1>8 DEF CleanUp

LEMMA SealTelemetry ==
  ASSUME FieldsTyped, TelemetryInv, Seal
  PROVE  TelemetryInv'
<1> USE PlanAssumption DEF Goto, telemetry, FieldsTyped, TelemetryInv, Trialling, AfterProbes,
             Experiment, Cancelled, RequiredReady
<1>1. CASE StageEvidence
  BY <1>1 DEF StageEvidence
<1>2. CASE Finalize
  BY <1>2 DEF Finalize
<1>3. CASE Publish
  BY <1>3 DEF Publish
<1>4. CASE PublishFails
  BY <1>4 DEF PublishFails
<1> QED
  BY <1>1, <1>2, <1>3, <1>4 DEF Seal

-----------------------------------------------------------------------------
(***************************************************************************)
(* The whole inductive invariant, and what follows from it.                *)
(***************************************************************************)
ControlInv == IInv /\ ServicesInv /\ VerdictInv /\ TelemetryInv

LEMMA InitControl == Init => ControlInv
<1> SUFFICES ASSUME Init PROVE ControlInv
  OBVIOUS
<1>1. ServicesInv
  BY DEF Init, ServicesInv, BeforeReadiness, Experiment
<1>2. VerdictInv
  BY DEF Init, VerdictInv, Clean, CleanStages
<1>3. TelemetryInv
  BY DEF Init, TelemetryInv, Trialling, AfterProbes, Experiment
<1> QED
  BY <1>1, <1>2, <1>3, InitIInv DEF ControlInv

LEMMA NextControl ==
  ControlInv /\ [Next]_vars => ControlInv' /\ (OneKindOfChecks => PrimaryKept /\ Judges)
<1> SUFFICES ASSUME ControlInv, [Next]_vars
             PROVE  ControlInv' /\ (OneKindOfChecks => PrimaryKept /\ Judges)
  OBVIOUS
<1>1. IInv'
  BY NextIInv DEF ControlInv
<1> USE DEF ControlInv, IInv
<1>2. CASE Refuse \/ Admit \/ Cancel
  BY <1>1, <1>2, AdmissionServices, AdmissionVerdict, AdmissionTelemetry
<1>3. CASE Probe
  BY <1>1, <1>3, ProbeServices, ProbeVerdict, ProbeTelemetry
<1>4. CASE Startup
  BY <1>1, <1>4, StartupServices, StartupVerdict, StartupTelemetry
<1>5. CASE Diagnose
  BY <1>1, <1>5, DiagnoseServices, DiagnoseVerdict, DiagnoseTelemetry
<1>6. CASE Check
  BY <1>1, <1>6, CheckServices, CheckVerdict, CheckTelemetry
<1>7. CASE Warmup
  BY <1>1, <1>7, WarmupServices, WarmupVerdict, WarmupTelemetry
<1>8. CASE Trial
  BY <1>1, <1>8, TrialServices, TrialVerdict, TrialTelemetry
<1>9. CASE Between
  BY <1>1, <1>9, BetweenServices, BetweenVerdict, BetweenTelemetry
<1>10. CASE CleanUp
  BY <1>1, <1>10, CleanUpServices, CleanUpVerdict, CleanUpTelemetry
<1>11. CASE Seal
  BY <1>1, <1>11, SealServices, SealVerdict, SealTelemetry
<1>12. CASE UNCHANGED vars
  <2> USE <1>12 DEF vars, verdict, ledger, telemetry
  <2>1. ServicesInv'
    BY DEF ServicesInv
  <2>2. VerdictInv' /\ PrimaryKept /\ Judges
    BY DEF VerdictInv, Clean, CleanOrCancelled, Cancelled, PrimaryKept, Judges,
           ContractVerdict
  <2>3. TelemetryInv'
    BY DEF TelemetryInv, Cancelled, ExternalReady, RequiredReady, RequiredUpTo,
           RequiredRegistered
  <2> QED
    BY <1>1, <2>1, <2>2, <2>3
<1> QED
  BY <1>2, <1>3, <1>4, <1>5, <1>6, <1>7, <1>8, <1>9, <1>10, <1>11, <1>12 DEF Next, Run

LEMMA SpecControl == Spec => []ControlInv
<1>1. ControlInv /\ [Next]_vars => ControlInv'
  BY NextControl
<1> QED
  BY <1>1, InitControl, PTL DEF Spec

(* For every plan, a run whose evidence stands has a primary failure exactly *)
(* when its status is not "Completed".                                       *)
THEOREM VerdictIsExplained == Spec => []VerdictExplained
<1>1. ControlInv => VerdictExplained
  BY DEF ControlInv, VerdictInv, VerdictExplained
<1> QED
  BY <1>1, SpecControl, PTL

(* For every plan that asks for one kind of correctness checks at most, the  *)
(* first failure stays the primary failure of the run.                       *)
THEOREM PrimaryIsPreserved ==
  ASSUME SecurityChecks = 0 \/ CorpusChecks = 0
  PROVE  Spec => PrimaryPreserved
<1>1. ControlInv /\ [Next]_vars => [primary # None => UNCHANGED primary]_vars
  BY NextControl DEF PrimaryKept, OneKindOfChecks
<1> QED
  BY <1>1, SpecControl, PTL DEF Spec, PrimaryPreserved

(* For every plan, managed services are up while anything may use them; a    *)
(* run that has brought them up returns only when it has shut them down, and *)
(* one whose startup gave them up measures nothing and is not completed.     *)
THEOREM ServicesOutlive == Spec => []ServicesOutliveWork
<1>1. ControlInv => ServicesOutliveWork
  BY DEF ControlInv, ServicesInv, Experiment, ServicesOutliveWork
<1> QED
  BY <1>1, SpecControl, PTL

(* For every plan, and wherever a cancellation falls, the workload is        *)
(* measured only by a healthy run with its services up and with a window     *)
(* open on every active collector, all required ones included.               *)
THEOREM MeasuredWithTelemetry == Spec => []MeasuredUnderTelemetry
<1>1. ControlInv => MeasuredUnderTelemetry
  <2> SUFFICES ASSUME ControlInv PROVE MeasuredUnderTelemetry
    OBVIOUS
  <2>1. ASSUME pc = "measuring"
        PROVE  /\ Healthy
               /\ windows = active
               /\ Managed => services = "running"
    BY <2>1 DEF ControlInv, VerdictInv, Clean, CleanStages, Healthy, TelemetryInv,
                ServicesInv, Experiment
  <2>2. ASSUME pc = "measuring", NEW i \in DOMAIN Sources, Sources[i].required
        PROVE  i \in windows
    BY <2>1, <2>2 DEF ControlInv, TelemetryInv, Trialling, RequiredReady
  <2>3. windows # {} => pc \in {"opening", "measuring", "closing"}
    BY DEF ControlInv, TelemetryInv, Trialling
  <2> QED
    BY <2>1, <2>2, <2>3 DEF MeasuredUnderTelemetry
<1> QED
  BY <1>1, SpecControl, PTL

-----------------------------------------------------------------------------
(***************************************************************************)
(* Refinement.  Every step of the coordinator is a step of RunContract or  *)
(* leaves its variables alone, one lemma per kind of abstract step.        *)
(***************************************************************************)
PreparingStages ==
  {"admission", "probeExternal", "startup", "starting", "blaming", "probeManaged",
   "diagnosePre", "diagnosingPre", "check", "checking", "corpus", "corpusRunning"}

AbstractStep == [Contract!Next]_(Contract!vars)

LEMMA StageMapped ==
  ASSUME NEW stage, NEW result
  PROVE  /\ stage \in PreparingStages => ContractStage(stage, result) = "preparing"
         /\ stage \in WorkingStages => ContractStage(stage, result) = "working"
         /\ stage \in CleaningStages => ContractStage(stage, result) = "cleaning"
         /\ stage \in SealingStages => ContractStage(stage, result) = "sealing"
  BY DEF ContractStage, PreparingStages, WorkingStages, CleaningStages, SealingStages

LEMMA JudgeStep ==
  ASSUME FieldsTyped', Judges
  PROVE  Contract!Judge
<1>1. ContractVerdict' \in Contract!Verdicts
  BY DEF FieldsTyped, Statuses, ContractVerdict, Contract!Verdicts
<1> QED
  BY <1>1 DEF Judges, Contract!Judge

(* Within one abstract stage only the verdict may change. *)
LEMMA StayStep ==
  ASSUME FieldsTyped', Judges, services' = services,
         NEW class \in {PreparingStages, WorkingStages, CleaningStages, SealingStages},
         pc \in class, pc' \in class
  PROVE  AbstractStep
<1>1. /\ ContractStage(pc, outcome)' = ContractStage(pc, outcome)
      /\ ContractStage(pc, outcome) \in {"preparing", "working", "cleaning", "sealing"}
  BY StageMapped
<1>2. Contract!Judge
  BY JudgeStep
<1> QED
  BY <1>1, <1>2 DEF AbstractStep, Contract!Next, Contract!JudgeOnly, Contract!Ended

LEMMA RefuseStep ==
  ASSUME pc \in PreparingStages, pc' = "done", outcome' = "refused",
         services = "idle", services' = services, ContractVerdict' = ContractVerdict
  PROVE  AbstractStep
<1>1. /\ ContractStage(pc, outcome) = "preparing"
      /\ ContractStage(pc, outcome)' = "refused"
  BY StageMapped DEF ContractStage, WorkingStages, CleaningStages, SealingStages
<1> QED
  BY <1>1 DEF AbstractStep, Contract!Next, Contract!Prepare, Contract!Refuse, Contract!Move

LEMMA StartStep ==
  ASSUME pc \in PreparingStages, pc' \in PreparingStages, Managed,
         services = "idle", services' = "running", ContractVerdict' = ContractVerdict
  PROVE  AbstractStep
<1>1. /\ ContractStage(pc, outcome) = "preparing"
      /\ ContractStage(pc, outcome)' = "preparing"
  BY StageMapped
<1> QED
  BY <1>1 DEF AbstractStep, Contract!Next, Contract!Prepare, Contract!Start

LEMMA AbandonStep ==
  ASSUME FieldsTyped', Judges, pc \in PreparingStages, pc' \in PreparingStages, Managed,
         services = "idle", services' = "abandoned", ContractVerdict' # "Completed"
  PROVE  AbstractStep
<1>1. /\ ContractStage(pc, outcome) = "preparing"
      /\ ContractStage(pc, outcome)' = "preparing"
  BY StageMapped
<1>2. Contract!Judge
  BY JudgeStep
<1> QED
  BY <1>1, <1>2 DEF AbstractStep, Contract!Next, Contract!Prepare, Contract!Abandon

LEMMA WorkStep ==
  ASSUME pc \in PreparingStages, pc' \in WorkingStages,
         Managed => services = "running", services' = services,
         ContractVerdict = "Completed", ContractVerdict' = ContractVerdict
  PROVE  AbstractStep
<1>1. /\ ContractStage(pc, outcome) = "preparing"
      /\ ContractStage(pc, outcome)' = "working"
  BY StageMapped
<1> QED
  BY <1>1 DEF AbstractStep, Contract!Next, Contract!Prepare, Contract!Work, Contract!Move

LEMMA GiveUpStep ==
  ASSUME FieldsTyped', Judges, services' = services,
         pc \in PreparingStages, pc' \in CleaningStages, ContractVerdict' # "Completed"
  PROVE  AbstractStep
<1>1. /\ ContractStage(pc, outcome) = "preparing"
      /\ ContractStage(pc, outcome)' = "cleaning"
  BY StageMapped
<1>2. Contract!Judge
  BY JudgeStep
<1> QED
  BY <1>1, <1>2 DEF AbstractStep, Contract!Next, Contract!Prepare, Contract!GiveUp, Contract!Move

LEMMA StopWorkingStep ==
  ASSUME FieldsTyped', Judges, services' = services,
         pc \in WorkingStages, pc' \in CleaningStages
  PROVE  AbstractStep
<1>1. /\ ContractStage(pc, outcome) = "working"
      /\ ContractStage(pc, outcome)' = "cleaning"
  BY StageMapped
<1>2. Contract!Judge
  BY JudgeStep
<1> QED
  BY <1>1, <1>2 DEF AbstractStep, Contract!Next, Contract!Advance, Contract!StopWorking,
                    Contract!Move

LEMMA CleanUpStep ==
  ASSUME FieldsTyped', Judges, pc \in CleaningStages, pc' \in SealingStages,
         services' = IF services = "running" THEN "stopped" ELSE services
  PROVE  AbstractStep
<1>1. /\ ContractStage(pc, outcome) = "cleaning"
      /\ ContractStage(pc, outcome)' = "sealing"
  BY StageMapped
<1>2. Contract!Judge
  BY JudgeStep
<1> QED
  BY <1>1, <1>2 DEF AbstractStep, Contract!Next, Contract!Advance, Contract!CleanUp,
                    Contract!Move

LEMMA EndStep ==
  ASSUME pc \in SealingStages, pc' = "done", services' = services,
         ContractVerdict' = ContractVerdict,
         \/ outcome' = "evidenceError"
         \/ outcome' = "published" /\ ContractVerdict # "unreported"
  PROVE  AbstractStep
<1>1. /\ ContractStage(pc, outcome) = "sealing"
      /\ ContractStage(pc, outcome)' = IF outcome' = "evidenceError" THEN "failed" ELSE outcome'
  BY StageMapped DEF ContractStage, WorkingStages, CleaningStages, SealingStages
<1> QED
  BY <1>1 DEF AbstractStep, Contract!Next, Contract!Advance, Contract!Publish,
              Contract!FailToPublish, Contract!Move

LEMMA AdmissionContract ==
  ASSUME FieldsTyped, FieldsTyped', ServicesInv, VerdictInv, Judges, Refuse \/ Admit \/ Cancel
  PROVE  AbstractStep
<1> USE DEF Goto, verdict, ContractVerdict, PreparingStages, WorkingStages, CleaningStages,
             SealingStages
<1>1. CASE Refuse
  BY <1>1, RefuseStep DEF Refuse, ServicesInv, BeforeReadiness
<1>2. CASE Admit
  BY <1>2, StayStep DEF Admit
<1>3. CASE Cancel
  <2>1. /\ pc' = pc /\ services' = services /\ outcome' = outcome
        /\ ContractVerdict' = ContractVerdict
    BY <1>3 DEF Cancel, ContractVerdict
  <2> QED
    BY <2>1 DEF AbstractStep, Contract!vars, ContractStage
<1> QED
  BY <1>1, <1>2, <1>3

LEMMA ProbeContract ==
  ASSUME FieldsTyped, FieldsTyped', ServicesInv, VerdictInv, Judges, Probe
  PROVE  AbstractStep
<1> USE DEF Goto, verdict, ContractVerdict, PreparingStages, WorkingStages, CleaningStages,
             SealingStages
<1>1. ASSUME NEW stage \in {"probeExternal", "probeManaged"}, NEW managed \in BOOLEAN,
             ProbeSkip(stage, managed)
      PROVE  AbstractStep
  BY <1>1, StayStep DEF ProbeSkip, AtProbe
<1>2. ASSUME NEW stage \in {"probeExternal", "probeManaged"}, NEW managed \in BOOLEAN,
             ProbeSucceeds(stage, managed)
      PROVE  AbstractStep
  BY <1>2, StayStep DEF ProbeSucceeds, AtProbe
<1>3. ASSUME NEW stage \in {"probeExternal", "probeManaged"}, NEW managed \in BOOLEAN,
             OptionalProbeFails(stage, managed)
      PROVE  AbstractStep
  BY <1>3, StayStep DEF OptionalProbeFails, AtProbe
<1>4. ASSUME NEW stage \in {"probeExternal", "probeManaged"}, NEW managed \in BOOLEAN,
             ProbeEnds(stage, managed)
      PROVE  AbstractStep
  BY <1>4, StayStep DEF ProbeEnds, AtProbe
<1>5. CASE RequiredExternalFails
  BY <1>5, RefuseStep DEF RequiredExternalFails, ServicesInv, BeforeReadiness
<1>6. CASE RequiredManagedFails
  BY <1>6, GiveUpStep DEF RequiredManagedFails, Fail
<1> QED
  BY <1>1, <1>2, <1>3, <1>4, <1>5, <1>6 DEF Probe

LEMMA StartupContract ==
  ASSUME FieldsTyped, FieldsTyped', ServicesInv, VerdictInv, Judges, Startup
  PROVE  AbstractStep
<1> USE DEF Goto, verdict, ContractVerdict, PreparingStages, WorkingStages, CleaningStages,
             SealingStages
<1>1. CASE StartupBegin
  BY <1>1, StayStep, GiveUpStep DEF StartupBegin, Fail
<1>2. CASE StartupSucceeds
  BY <1>2, StayStep, StartStep DEF StartupSucceeds, ServicesInv, BeforeReadiness
<1>3. CASE StartupFails
  <2>1. ContractVerdict' # "Completed"
    BY <1>3 DEF StartupFails
  <2>2. CASE services' = services
    BY <1>3, <2>2, StayStep DEF StartupFails
  <2>3. CASE Managed /\ services' = "abandoned"
    BY <1>3, <2>1, <2>3, AbandonStep DEF StartupFails, ServicesInv, BeforeReadiness
  <2> QED
    BY <1>3, <2>2, <2>3 DEF StartupFails
<1>4. CASE StartupBlames
  BY <1>4, GiveUpStep DEF StartupBlames, VerdictInv
<1> QED
  BY <1>1, <1>2, <1>3, <1>4 DEF Startup

LEMMA DiagnoseContract ==
  ASSUME FieldsTyped, FieldsTyped', ServicesInv, VerdictInv, Judges, Diagnose
  PROVE  AbstractStep
<1> USE DEF Goto, verdict, ContractVerdict, PreparingStages, WorkingStages, CleaningStages,
             SealingStages
<1>1. ASSUME NEW slot \in {"Pre", "Post"},
             DiagnosticsEnd(slot)
      PROVE  AbstractStep
  BY <1>1, StayStep, GiveUpStep DEF DiagnosticsEnd, DiagnosticsOver,
           GotoIfHealthy, IdleStage, Healthy
<1>2. ASSUME NEW slot \in {"Pre", "Post"},
             DiagnosticSkip(slot)
      PROVE  AbstractStep
  BY <1>2, StayStep DEF DiagnosticSkip, DiagnosticsOver, IdleStage
<1>3. ASSUME NEW slot \in {"Pre", "Post"},
             DiagnosticCancelled(slot)
      PROVE  AbstractStep
  BY <1>3, StayStep, GiveUpStep DEF DiagnosticCancelled, DiagnosticsOver,
           IdleStage, Fail
<1>4. ASSUME NEW slot \in {"Pre", "Post"},
             DiagnosticBegin(slot)
      PROVE  AbstractStep
  BY <1>4, StayStep DEF DiagnosticBegin, DiagnosticsOver, IdleStage, BusyStage
<1>5. ASSUME NEW slot \in {"Pre", "Post"},
             DiagnosticUnstaged(slot)
      PROVE  AbstractStep
  BY <1>5, StayStep, GiveUpStep DEF DiagnosticUnstaged, BusyStage
<1>6. ASSUME NEW slot \in {"Pre", "Post"}, NEW answer \in DiagnosticAnswers,
             DiagnosticDone(slot, answer)
      PROVE  AbstractStep
  BY <1>6, StayStep, GiveUpStep DEF DiagnosticDone, IdleStage, BusyStage,
           DiagnosticAnswers, Errors, Fail, Settle
<1> QED
  BY <1>1, <1>2, <1>3, <1>4, <1>5, <1>6 DEF Diagnose

LEMMA CheckContract ==
  ASSUME FieldsTyped, FieldsTyped', ServicesInv, VerdictInv, Judges, Check
  PROVE  AbstractStep
<1> USE DEF Goto, verdict, ContractVerdict, PreparingStages, WorkingStages, CleaningStages,
             SealingStages
<1>1. ASSUME NEW loop \in {"check", "corpus"},
             ChecksEnd(loop)
      PROVE  AbstractStep
  BY <1>1, StayStep, WorkStep, GiveUpStep DEF ChecksEnd, GotoIfHealthy, Healthy,
           CheckLoops, ServicesInv, Experiment
<1>2. ASSUME NEW loop \in {"check", "corpus"},
             CheckCancelled(loop)
      PROVE  AbstractStep
  BY <1>2, StayStep DEF CheckCancelled, LeaveChecks
<1>3. ASSUME NEW loop \in {"check", "corpus"},
             CheckBegin(loop)
      PROVE  AbstractStep
  BY <1>3, StayStep DEF CheckBegin, CheckLoops
<1>4. ASSUME NEW loop \in {"check", "corpus"},
             CheckUnstaged(loop)
      PROVE  AbstractStep
  BY <1>4, StayStep DEF CheckUnstaged, LeaveChecks, CheckLoops
<1>5. ASSUME NEW loop \in {"check", "corpus"},
             CheckErrs(loop)
      PROVE  AbstractStep
  BY <1>5, StayStep DEF CheckErrs, LeaveChecks, CheckLoops
<1>6. CASE CheckObserved
  BY <1>6, StayStep DEF CheckObserved
<1>7. CASE CorpusObserved
  BY <1>7, StayStep DEF CorpusObserved
<1>8. CASE CorpusInvalid
  BY <1>8, StayStep DEF CorpusInvalid, LeaveChecks, CheckLoops
<1>9. DOMAIN CheckLoops = {"check", "corpus"}
  BY DEF CheckLoops
<1> QED
  BY <1>1, <1>2, <1>3, <1>4, <1>5, <1>6, <1>7, <1>8, <1>9 DEF Check

LEMMA WarmupContract ==
  ASSUME FieldsTyped, FieldsTyped', ServicesInv, VerdictInv, Judges, Warmup
  PROVE  AbstractStep
<1> USE DEF Goto, verdict, ContractVerdict, PreparingStages, WorkingStages, CleaningStages,
             SealingStages
<1>1. CASE WarmupsEnd
  BY <1>1, StayStep, StopWorkingStep DEF WarmupsEnd, GotoIfHealthy
<1>2. CASE WarmupBegin
  BY <1>2, StayStep DEF WarmupBegin
<1>3. CASE WarmupDone
  BY <1>3, StayStep DEF WarmupDone
<1>4. CASE WarmupUnstaged
  BY <1>4, StopWorkingStep DEF WarmupUnstaged
<1>5. CASE WarmupFails
  BY <1>5, StopWorkingStep DEF WarmupFails
<1> QED
  BY <1>1, <1>2, <1>3, <1>4, <1>5 DEF Warmup

LEMMA TrialContract ==
  ASSUME FieldsTyped, FieldsTyped', ServicesInv, VerdictInv, Judges, Trial
  PROVE  AbstractStep
<1> USE DEF Goto, verdict, ContractVerdict, PreparingStages, WorkingStages, CleaningStages,
             SealingStages
<1>1. CASE TrialCancelled
  BY <1>1, StopWorkingStep DEF TrialCancelled
<1>2. CASE TrialBegin
  BY <1>2, StayStep DEF TrialBegin
<1>3. CASE WindowOpens
  BY <1>3, StayStep DEF WindowOpens
<1>4. CASE WindowFails
  BY <1>4, StopWorkingStep DEF WindowFails
<1>5. CASE MeasureBegin
  BY <1>5, StayStep DEF MeasureBegin
<1>6. CASE MeasureEnd
  BY <1>6, StayStep DEF MeasureEnd
<1>7. CASE TrialSucceeds
  BY <1>7, StayStep DEF TrialSucceeds
<1>8. CASE TrialUnstaged
  BY <1>8, StopWorkingStep DEF TrialUnstaged
<1>9. CASE TrialUnobserved
  BY <1>9, StopWorkingStep DEF TrialUnobserved
<1>10. CASE TrialFails
  BY <1>10, StopWorkingStep DEF TrialFails
<1> QED
  BY <1>1, <1>2, <1>3, <1>4, <1>5, <1>6, <1>7, <1>8, <1>9, <1>10 DEF Trial

LEMMA BetweenContract ==
  ASSUME FieldsTyped, FieldsTyped', ServicesInv, VerdictInv, Judges, Between
  PROVE  AbstractStep
<1> USE DEF Goto, verdict, ContractVerdict, PreparingStages, WorkingStages, CleaningStages,
             SealingStages
<1>1. CASE TrialsEnd
  BY <1>1, StopWorkingStep DEF TrialsEnd
<1>2. CASE ResetBegin
  BY <1>2, StayStep DEF ResetBegin
<1>3. CASE ResetDone
  BY <1>3, StayStep DEF ResetDone
<1>4. CASE ResetFails
  BY <1>4, StopWorkingStep DEF ResetFails
<1>5. CASE CooldownBegin
  BY <1>5, StayStep DEF CooldownBegin
<1>6. CASE CooldownDone
  BY <1>6, StayStep DEF CooldownDone
<1>7. CASE CooldownCancelled
  BY <1>7, StopWorkingStep DEF CooldownCancelled
<1> QED
  BY <1>1, <1>2, <1>3, <1>4, <1>5, <1>6, <1>7 DEF Between

LEMMA CleanUpContract ==
  ASSUME FieldsTyped, FieldsTyped', ServicesInv, VerdictInv, Judges, CleanUp
  PROVE  AbstractStep
<1> USE DEF Goto, verdict, ContractVerdict, PreparingStages, WorkingStages, CleaningStages,
             SealingStages
<1>1. CASE DrainBegin
  BY <1>1, StayStep DEF DrainBegin
<1>2. CASE DrainEnd
  BY <1>2, StayStep DEF DrainEnd
<1>3. CASE TelemetryDrainBegin
  BY <1>3, StayStep DEF TelemetryDrainBegin
<1>4. CASE TelemetryDrainSucceeds
  BY <1>4, StayStep DEF TelemetryDrainSucceeds
<1>5. CASE TelemetryDrainFails
  BY <1>5, StayStep DEF TelemetryDrainFails
<1>6. CASE TeardownBegin
  BY <1>6, StayStep DEF TeardownBegin
<1>7. CASE NothingToTearDown
  BY <1>7, CleanUpStep DEF NothingToTearDown
<1>8. CASE TeardownEnd
  BY <1>8, CleanUpStep DEF TeardownEnd
<1> QED
  BY <1>1, <1>2, <1>3, <1>4, <1>5, <1>6, <1>7, <1>8 DEF CleanUp

LEMMA SealContract ==
  ASSUME FieldsTyped, FieldsTyped', ServicesInv, VerdictInv, Judges, Seal
  PROVE  AbstractStep
<1> USE DEF Goto, verdict, ContractVerdict, PreparingStages, WorkingStages, CleaningStages,
             SealingStages
<1>1. CASE StageEvidence
  BY <1>1, StayStep DEF StageEvidence
<1>2. CASE Finalize
  BY <1>2, StayStep DEF Finalize
<1>3. CASE Publish
  BY <1>3, EndStep DEF Publish, FieldsTyped, Statuses
<1>4. CASE PublishFails
  BY <1>4, EndStep DEF PublishFails
<1> QED
  BY <1>1, <1>2, <1>3, <1>4 DEF Seal

(* For every plan that asks for one kind of correctness checks at most, the  *)
(* coordinator keeps the contract of a run: safety part of                   *)
(* ImplementsContract.                                                       *)
THEOREM KeepsContract ==
  ASSUME SecurityChecks = 0 \/ CorpusChecks = 0
  PROVE  Spec => Contract!Init /\ [][Contract!Next]_(Contract!vars)
<1>1. Init => Contract!Init
  BY StageMapped DEF Init, Contract!Init, ContractVerdict, PreparingStages
<1>2. ControlInv /\ [Next]_vars => AbstractStep
  <2> SUFFICES ASSUME ControlInv, [Next]_vars PROVE AbstractStep
    OBVIOUS
  <2>1. ControlInv' /\ Judges
    BY NextControl DEF OneKindOfChecks
  <2> USE DEF ControlInv, IInv
  <2>2. CASE Refuse \/ Admit \/ Cancel
    BY <2>1, <2>2, AdmissionContract
  <2>3. CASE Probe
    BY <2>1, <2>3, ProbeContract
  <2>4. CASE Startup
    BY <2>1, <2>4, StartupContract
  <2>5. CASE Diagnose
    BY <2>1, <2>5, DiagnoseContract
  <2>6. CASE Check
    BY <2>1, <2>6, CheckContract
  <2>7. CASE Warmup
    BY <2>1, <2>7, WarmupContract
  <2>8. CASE Trial
    BY <2>1, <2>8, TrialContract
  <2>9. CASE Between
    BY <2>1, <2>9, BetweenContract
  <2>10. CASE CleanUp
    BY <2>1, <2>10, CleanUpContract
  <2>11. CASE Seal
    BY <2>1, <2>11, SealContract
  <2>12. CASE UNCHANGED vars
    BY <2>12 DEF vars, verdict, AbstractStep, Contract!vars, ContractStage, ContractVerdict
  <2> QED
    BY <2>2, <2>3, <2>4, <2>5, <2>6, <2>7, <2>8, <2>9, <2>10, <2>11, <2>12 DEF Next, Run
<1> QED
  BY <1>1, <1>2, SpecControl, PTL DEF Spec, AbstractStep

-----------------------------------------------------------------------------
(***************************************************************************)
(* The token.  A run that would still be reported as completed was not     *)
(* cancelled before the last section that looks at the token.              *)
(***************************************************************************)
CleanedUp == {"diagnosePost", "diagnosingPost", "teardown", "tearing"}

(* A run that would still be reported as completed was cancelled at one of  *)
(* these stages or not at all.                                              *)
CancelledWithin(stages) == status = "Completed" => cancelledAt \in {None} \cup stages

DrainedQuietly == IF active = {} THEN {"telemetryDrain"} ELSE {}

CancelInv ==
  /\ services = "stopped" => pc \in SealingStages \cup {"done"}
  /\ services = "idle" => cancelledAt # "diagnosingPost"
  /\ pc = "telemetryDrain" => CancelledWithin({"telemetryDrain"})
  /\ pc = "telemetryDraining" =>
       active # {} /\ CancelledWithin({"telemetryDrain", "telemetryDraining"})
  /\ pc \in CleanedUp => CancelledWithin(CleanedUp \cup DrainedQuietly)
  /\ pc \in SealingStages => CancelledWithin(TooLate)
  /\ pc = "done" /\ outcome # "refused" => CancelledWithin(TooLate)

LEMMA AdmissionCancellation ==
  ASSUME FieldsTyped, ServicesInv, CancelInv, Refuse \/ Admit \/ Cancel
  PROVE  CancelInv'
<1> USE PlanAssumption DEF Goto, telemetry, verdict, FieldsTyped, CancelInv, CancelledWithin,
             CleanedUp, DrainedQuietly, SealingStages, TooLate, Cancelled
<1>1. CASE Refuse
  BY <1>1 DEF Refuse
<1>2. CASE Admit
  BY <1>2 DEF Admit
<1>3. CASE Cancel
  BY <1>3 DEF Cancel, ServicesInv, Stages, IdleStages, OpenStages, None
<1> QED
  BY <1>1, <1>2, <1>3

LEMMA ProbeCancellation ==
  ASSUME FieldsTyped, ServicesInv, CancelInv, Probe
  PROVE  CancelInv'
<1> USE PlanAssumption DEF Goto, telemetry, verdict, FieldsTyped, CancelInv, CancelledWithin,
             CleanedUp, DrainedQuietly, SealingStages, TooLate, Cancelled
<1>1. ASSUME NEW stage \in {"probeExternal", "probeManaged"}, NEW managed \in BOOLEAN,
             ProbeSkip(stage, managed)
      PROVE  CancelInv'
  BY <1>1 DEF ProbeSkip, AtProbe
<1>2. ASSUME NEW stage \in {"probeExternal", "probeManaged"}, NEW managed \in BOOLEAN,
             ProbeSucceeds(stage, managed)
      PROVE  CancelInv'
  BY <1>2 DEF ProbeSucceeds, AtProbe
<1>3. ASSUME NEW stage \in {"probeExternal", "probeManaged"}, NEW managed \in BOOLEAN,
             OptionalProbeFails(stage, managed)
      PROVE  CancelInv'
  BY <1>3 DEF OptionalProbeFails, AtProbe
<1>4. ASSUME NEW stage \in {"probeExternal", "probeManaged"}, NEW managed \in BOOLEAN,
             ProbeEnds(stage, managed)
      PROVE  CancelInv'
  BY <1>4 DEF ProbeEnds, AtProbe
<1>5. CASE RequiredExternalFails
  BY <1>5 DEF RequiredExternalFails
<1>6. CASE RequiredManagedFails
  BY <1>6 DEF RequiredManagedFails, Fail
<1> QED
  BY <1>1, <1>2, <1>3, <1>4, <1>5, <1>6 DEF Probe

LEMMA StartupCancellation ==
  ASSUME FieldsTyped, ServicesInv, CancelInv, Startup
  PROVE  CancelInv'
<1> USE PlanAssumption DEF Goto, telemetry, verdict, FieldsTyped, CancelInv, CancelledWithin,
             CleanedUp, DrainedQuietly, SealingStages, TooLate, Cancelled
<1>1. CASE StartupBegin
  <2>1. pc = "startup" /\ pc' \in {"drain", "starting"}
        /\ UNCHANGED <<services, cancelledAt>>
    BY <1>1 DEF StartupBegin
  <2> QED
    BY <2>1
<1>2. CASE StartupSucceeds
  BY <1>2 DEF StartupSucceeds, ServicesInv, BeforeReadiness
<1>3. CASE StartupFails
  BY <1>3 DEF StartupFails
<1>4. CASE StartupBlames
  BY <1>4 DEF StartupBlames
<1> QED
  BY <1>1, <1>2, <1>3, <1>4 DEF Startup

LEMMA DiagnoseCancellation ==
  ASSUME FieldsTyped, ServicesInv, CancelInv, Diagnose
  PROVE  CancelInv'
<1> USE PlanAssumption DEF Goto, telemetry, verdict, FieldsTyped, CancelInv, CancelledWithin,
             CleanedUp, DrainedQuietly, SealingStages, TooLate, Cancelled
<1>1. ASSUME NEW slot \in {"Pre", "Post"},
             DiagnosticsEnd(slot)
      PROVE  CancelInv'
  BY <1>1 DEF DiagnosticsEnd, IdleStage, DiagnosticsOver, GotoIfHealthy,
              Healthy
<1>2. ASSUME NEW slot \in {"Pre", "Post"},
             DiagnosticSkip(slot)
      PROVE  CancelInv'
  BY <1>2 DEF DiagnosticSkip, IdleStage, DiagnosticsOver
<1>3. ASSUME NEW slot \in {"Pre", "Post"},
             DiagnosticCancelled(slot)
      PROVE  CancelInv'
  BY <1>3 DEF DiagnosticCancelled, IdleStage, DiagnosticsOver, Fail,
              ServicesInv
<1>4. ASSUME NEW slot \in {"Pre", "Post"},
             DiagnosticBegin(slot)
      PROVE  CancelInv'
  BY <1>4 DEF DiagnosticBegin, IdleStage, BusyStage, DiagnosticsOver,
              ServicesInv
<1>5. ASSUME NEW slot \in {"Pre", "Post"},
             DiagnosticUnstaged(slot)
      PROVE  CancelInv'
  BY <1>5 DEF DiagnosticUnstaged, BusyStage
<1>6. ASSUME NEW slot \in {"Pre", "Post"}, NEW answer \in DiagnosticAnswers,
             DiagnosticDone(slot, answer)
      PROVE  CancelInv'
  BY <1>6 DEF DiagnosticDone, IdleStage, BusyStage, Fail, Settle
<1> QED
  BY <1>1, <1>2, <1>3, <1>4, <1>5, <1>6 DEF Diagnose

LEMMA CheckCancellation ==
  ASSUME FieldsTyped, ServicesInv, CancelInv, Check
  PROVE  CancelInv'
<1> USE PlanAssumption DEF Goto, telemetry, verdict, FieldsTyped, CancelInv, CancelledWithin,
             CleanedUp, DrainedQuietly, SealingStages, TooLate, Cancelled
<1>1. ASSUME NEW loop \in {"check", "corpus"},
             ChecksEnd(loop)
      PROVE  CancelInv'
  BY <1>1 DEF ChecksEnd, CheckLoops, GotoIfHealthy, Healthy
<1>2. ASSUME NEW loop \in {"check", "corpus"},
             CheckCancelled(loop)
      PROVE  CancelInv'
  BY <1>2 DEF CheckCancelled, CheckLoops, LeaveChecks, Fail
<1>3. ASSUME NEW loop \in {"check", "corpus"},
             CheckBegin(loop)
      PROVE  CancelInv'
  BY <1>3 DEF CheckBegin, CheckLoops
<1>4. ASSUME NEW loop \in {"check", "corpus"},
             CheckUnstaged(loop)
      PROVE  CancelInv'
  BY <1>4 DEF CheckUnstaged, CheckLoops, LeaveChecks
<1>5. ASSUME NEW loop \in {"check", "corpus"},
             CheckErrs(loop)
      PROVE  CancelInv'
  BY <1>5 DEF CheckErrs, CheckLoops, LeaveChecks
<1>6. CASE CheckObserved
  BY <1>6 DEF CheckObserved, Fail, Settle
<1>7. CASE CorpusObserved
  BY <1>7 DEF CorpusObserved
<1>8. CASE CorpusInvalid
  BY <1>8 DEF CorpusInvalid, CheckLoops, LeaveChecks, Fail
<1>9. DOMAIN CheckLoops = {"check", "corpus"}
  BY DEF CheckLoops
<1> QED
  BY <1>1, <1>2, <1>3, <1>4, <1>5, <1>6, <1>7, <1>8, <1>9 DEF Check

LEMMA WarmupCancellation ==
  ASSUME FieldsTyped, ServicesInv, CancelInv, Warmup
  PROVE  CancelInv'
<1> USE PlanAssumption DEF Goto, telemetry, verdict, FieldsTyped, CancelInv, CancelledWithin,
             CleanedUp, DrainedQuietly, SealingStages, TooLate, Cancelled
<1>1. CASE WarmupsEnd
  BY <1>1 DEF WarmupsEnd, GotoIfHealthy, Healthy
<1>2. CASE WarmupBegin
  BY <1>2 DEF WarmupBegin
<1>3. CASE WarmupDone
  BY <1>3 DEF WarmupDone
<1>4. CASE WarmupUnstaged
  BY <1>4 DEF WarmupUnstaged
<1>5. CASE WarmupFails
  BY <1>5 DEF WarmupFails
<1> QED
  BY <1>1, <1>2, <1>3, <1>4, <1>5 DEF Warmup

LEMMA TrialCancellation ==
  ASSUME FieldsTyped, ServicesInv, CancelInv, Trial
  PROVE  CancelInv'
<1> USE PlanAssumption DEF Goto, telemetry, verdict, FieldsTyped, CancelInv, CancelledWithin,
             CleanedUp, DrainedQuietly, SealingStages, TooLate, Cancelled
<1>1. CASE TrialCancelled
  BY <1>1 DEF TrialCancelled, Fail
<1>2. CASE TrialBegin
  BY <1>2 DEF TrialBegin
<1>3. CASE WindowOpens
  BY <1>3 DEF WindowOpens
<1>4. CASE WindowFails
  BY <1>4 DEF WindowFails
<1>5. CASE MeasureBegin
  BY <1>5 DEF MeasureBegin
<1>6. CASE MeasureEnd
  BY <1>6 DEF MeasureEnd
<1>7. CASE TrialSucceeds
  BY <1>7 DEF TrialSucceeds
<1>8. CASE TrialUnstaged
  BY <1>8 DEF TrialUnstaged
<1>9. CASE TrialUnobserved
  BY <1>9 DEF TrialUnobserved
<1>10. CASE TrialFails
  BY <1>10 DEF TrialFails
<1> QED
  BY <1>1, <1>2, <1>3, <1>4, <1>5, <1>6, <1>7, <1>8, <1>9, <1>10 DEF Trial

LEMMA BetweenCancellation ==
  ASSUME FieldsTyped, ServicesInv, CancelInv, Between
  PROVE  CancelInv'
<1> USE PlanAssumption DEF Goto, telemetry, verdict, FieldsTyped, CancelInv, CancelledWithin,
             CleanedUp, DrainedQuietly, SealingStages, TooLate, Cancelled
<1>1. CASE TrialsEnd
  BY <1>1 DEF TrialsEnd
<1>2. CASE ResetBegin
  BY <1>2 DEF ResetBegin
<1>3. CASE ResetDone
  BY <1>3 DEF ResetDone
<1>4. CASE ResetFails
  BY <1>4 DEF ResetFails
<1>5. CASE CooldownBegin
  BY <1>5 DEF CooldownBegin
<1>6. CASE CooldownDone
  BY <1>6 DEF CooldownDone
<1>7. CASE CooldownCancelled
  BY <1>7 DEF CooldownCancelled
<1> QED
  BY <1>1, <1>2, <1>3, <1>4, <1>5, <1>6, <1>7 DEF Between

LEMMA CleanUpCancellation ==
  ASSUME FieldsTyped, ServicesInv, CancelInv, CleanUp
  PROVE  CancelInv'
<1> USE PlanAssumption DEF Goto, telemetry, verdict, FieldsTyped, CancelInv, CancelledWithin,
             CleanedUp, DrainedQuietly, SealingStages, TooLate, Cancelled
<1>1. CASE DrainBegin
  BY <1>1 DEF DrainBegin
<1>2. CASE DrainEnd
  BY <1>2 DEF DrainEnd, Fail, Settle
<1>3. CASE TelemetryDrainBegin
  BY <1>3 DEF TelemetryDrainBegin
<1>4. CASE TelemetryDrainSucceeds
  BY <1>4 DEF TelemetryDrainSucceeds, Fail, Settle
<1>5. CASE TelemetryDrainFails
  BY <1>5 DEF TelemetryDrainFails, Fail
<1>6. CASE TeardownBegin
  BY <1>6 DEF TeardownBegin
<1>7. CASE NothingToTearDown
  <2>1. status = "Completed" => services \in {"idle", "stopped"}
    BY <1>7 DEF NothingToTearDown, ServicesInv
  <2> QED
    BY <1>7, <2>1 DEF NothingToTearDown
<1>8. CASE TeardownEnd
  BY <1>8 DEF TeardownEnd, Fail, Settle
<1> QED
  BY <1>1, <1>2, <1>3, <1>4, <1>5, <1>6, <1>7, <1>8 DEF CleanUp

LEMMA SealCancellation ==
  ASSUME FieldsTyped, ServicesInv, CancelInv, Seal
  PROVE  CancelInv'
<1> USE PlanAssumption DEF Goto, telemetry, verdict, FieldsTyped, CancelInv, CancelledWithin,
             CleanedUp, DrainedQuietly, SealingStages, TooLate, Cancelled
<1>1. CASE StageEvidence
  BY <1>1 DEF StageEvidence
<1>2. CASE Finalize
  BY <1>2 DEF Finalize
<1>3. CASE Publish
  BY <1>3 DEF Publish
<1>4. CASE PublishFails
  BY <1>4 DEF PublishFails
<1> QED
  BY <1>1, <1>2, <1>3, <1>4 DEF Seal

-----------------------------------------------------------------------------
(***************************************************************************)
(* The timeline's budget.  Each stage has a bound of its own, made of what *)
(* the sections before it can have added; the last one is the bound the    *)
(* run was admitted under.                                                 *)
(***************************************************************************)
(* Diagnostics among the first n that run in a slot. *)
Upto(slot, n) == Cardinality({i \in DOMAIN Diagnostics : i <= n /\ Applies(i, slot)})

All(slot) == Upto(slot, Len(Diagnostics))

(* What the timeline may hold when a part of the run is over. *)
AfterPre == 1 + All("Pre")
AfterChecks == AfterPre + SecurityChecks + CorpusChecks
AfterWarmups == AfterChecks + Warmups
AfterTrials == AfterWarmups + 3 * Trials - 2

LEMMA UptoBounds ==
  ASSUME NEW slot, NEW n \in Nat
  PROVE  /\ Upto(slot, n) \in Nat /\ Upto(slot, 0) = 0
         /\ Upto(slot, n) <= Upto(slot, n + 1)
         /\ Upto(slot, n) <= All(slot)
<1> DEFINE Of(m) == {i \in DOMAIN Diagnostics : i <= m /\ Applies(i, slot)}
<1>1. DOMAIN Diagnostics = 1 .. Len(Diagnostics) /\ Len(Diagnostics) \in Nat
  BY PlanAssumption, LenProperties
<1>2. \A m \in Nat : IsFiniteSet(Of(m)) /\ Cardinality(Of(m)) \in Nat
  <2> SUFFICES ASSUME NEW m \in Nat PROVE IsFiniteSet(Of(m)) /\ Cardinality(Of(m)) \in Nat
    OBVIOUS
  <2>1. IsFiniteSet(DOMAIN Diagnostics)
    BY <1>1, FS_Interval
  <2>2. IsFiniteSet(Of(m))
    BY <2>1, FS_Subset
  <2> QED
    BY <2>2, FS_CardinalityType
<1>3. Of(0) = {}
  BY <1>1
<1>4. Of(n) \subseteq Of(n + 1)
  BY <1>1
<1>5. Of(n) \subseteq Of(Len(Diagnostics))
  BY <1>1
<1>6. Cardinality(Of(n)) <= Cardinality(Of(n + 1))
  BY <1>2, <1>4, FS_Subset
<1>7. Cardinality(Of(n)) <= Cardinality(Of(Len(Diagnostics)))
  BY <1>1, <1>2, <1>5, FS_Subset
<1> QED
  BY <1>2, <1>3, <1>6, <1>7, FS_EmptySet DEF Upto, All

(* The slot of a diagnostic takes one more event. *)
LEMMA UptoNext ==
  ASSUME NEW slot, NEW n \in DOMAIN Diagnostics, Applies(n, slot)
  PROVE  Upto(slot, n) = Upto(slot, n - 1) + 1
<1> DEFINE Of(m) == {i \in DOMAIN Diagnostics : i <= m /\ Applies(i, slot)}
<1>1. DOMAIN Diagnostics = 1 .. Len(Diagnostics) /\ Len(Diagnostics) \in Nat
  BY PlanAssumption, LenProperties
<1>2. Of(n) = Of(n - 1) \cup {n} /\ n \notin Of(n - 1)
  BY <1>1
<1>3. IsFiniteSet(Of(n - 1))
  <2>1. IsFiniteSet(DOMAIN Diagnostics)
    BY <1>1, FS_Interval
  <2> QED
    BY <2>1, FS_Subset
<1>4. Cardinality(Of(n)) = Cardinality(Of(n - 1)) + 1
  BY <1>2, <1>3, FS_AddElement
<1> QED
  BY <1>4 DEF Upto

(* A "Both" diagnostic runs in two slots, every other one in one. *)
LEMMA SlotsAddUp ==
  All("Pre") + All("Post") = Len(Diagnostics) + CountSlots({"Both"})
<1> DEFINE Of(slot) == {i \in DOMAIN Diagnostics : Applies(i, slot)}
<1>1. DOMAIN Diagnostics = 1 .. Len(Diagnostics) /\ Len(Diagnostics) \in Nat
  BY PlanAssumption, LenProperties
<1>2. \A i \in DOMAIN Diagnostics : Diagnostics[i].slot \in {"Pre", "Post", "Both"}
  <2> SUFFICES ASSUME NEW i \in DOMAIN Diagnostics
               PROVE  Diagnostics[i].slot \in {"Pre", "Post", "Both"}
    OBVIOUS
  <2>1. Diagnostics[i] \in Diagnostic
    BY <1>1, PlanAssumption, ElementOfSeq
  <2> QED
    BY <2>1 DEF Diagnostic
<1>3. /\ Of("Pre") \cup Of("Post") = DOMAIN Diagnostics
      /\ Of("Pre") \cap Of("Post") = {i \in DOMAIN Diagnostics : Diagnostics[i].slot \in {"Both"}}
  BY <1>2 DEF Applies
<1>4. IsFiniteSet(DOMAIN Diagnostics) /\ Cardinality(DOMAIN Diagnostics) = Len(Diagnostics)
  <2>1. \A n \in Nat : IsFiniteSet(1 .. n) /\ Cardinality(1 .. n) = n
    BY FS_Interval
  <2> QED
    BY <1>1, <2>1
<1>5. IsFiniteSet(Of("Pre")) /\ IsFiniteSet(Of("Post"))
  BY <1>4, FS_Subset
<1>6. /\ Cardinality(Of("Pre")) \in Nat /\ Cardinality(Of("Post")) \in Nat
      /\ IsFiniteSet(Of("Pre") \cap Of("Post")) /\ Cardinality(Of("Pre") \cap Of("Post")) \in Nat
  BY <1>5, FS_CardinalityType, FS_Subset
<1>7. Len(Diagnostics) =
        Cardinality(Of("Pre")) + Cardinality(Of("Post")) - Cardinality(Of("Pre") \cap Of("Post"))
  BY <1>3, <1>4, <1>5, FS_Union
<1>8. All("Pre") = Cardinality(Of("Pre")) /\ All("Post") = Cardinality(Of("Post"))
  <2>1. \A slot : {i \in DOMAIN Diagnostics : i <= Len(Diagnostics) /\ Applies(i, slot)} = Of(slot)
    BY <1>1
  <2> QED
    BY <2>1 DEF All, Upto
<1>9. CountSlots({"Both"}) = Cardinality(Of("Pre") \cap Of("Post"))
  BY <1>3 DEF CountSlots
<1> QED
  BY <1>1, <1>6, <1>7, <1>8, <1>9

LEMMA BothNat == Len(Diagnostics) \in Nat /\ CountSlots({"Both"}) \in Nat
<1>1. DOMAIN Diagnostics = 1 .. Len(Diagnostics) /\ Len(Diagnostics) \in Nat
  BY PlanAssumption, LenProperties
<1>2. IsFiniteSet(DOMAIN Diagnostics)
  BY <1>1, FS_Interval
<1>3. IsFiniteSet({i \in DOMAIN Diagnostics : Diagnostics[i].slot \in {"Both"}})
  BY <1>2, FS_Subset
<1> QED
  BY <1>1, <1>3, FS_CardinalityType DEF CountSlots

LEMMA BaseNat == All("Pre") \in Nat /\ All("Post") \in Nat
  BY PlanAssumption, LenProperties, UptoBounds DEF All

(* The same of the request at hand, with linear arithmetic only. *)
LEMMA UptoAt ==
  ASSUME NEW n \in Nat, n > 0, NEW slot
  PROVE  /\ Upto(slot, n) \in Nat /\ Upto(slot, n - 1) \in Nat
         /\ Upto(slot, n - 1) <= Upto(slot, n)
         /\ Upto(slot, n - 1) <= All(slot) /\ Upto(slot, n) <= All(slot)
<1>1. n - 1 \in Nat /\ (n - 1) + 1 = n
  OBVIOUS
<1> QED
  BY <1>1, UptoBounds

LEMMA Numbers ==
  /\ Warmups \in Nat /\ Trials \in Nat /\ Trials >= 1
  /\ SecurityChecks \in Nat /\ CorpusChecks \in Nat
  /\ All("Pre") \in Nat /\ All("Post") \in Nat
  /\ AfterPre \in Nat /\ AfterPre = 1 + All("Pre")
  /\ AfterChecks \in Nat /\ AfterChecks = AfterPre + SecurityChecks + CorpusChecks
  /\ AfterWarmups \in Nat /\ AfterWarmups = AfterChecks + Warmups
  /\ AfterTrials \in Nat /\ AfterTrials = AfterWarmups + 3 * Trials - 2
  /\ AfterTrials >= AfterWarmups /\ AfterTrials >= 1 /\ AfterTrials >= AfterPre /\ AfterTrials >= AfterChecks
<1>1. /\ Warmups \in Nat /\ Trials \in Nat /\ Trials >= 1
      /\ SecurityChecks \in Nat /\ CorpusChecks \in Nat
  BY PlanAssumption
<1> QED
  BY <1>1, BaseNat DEF AfterPre, AfterChecks, AfterWarmups, AfterTrials

Length == Len(phases)

LEMMA LenSame ==
  ASSUME UNCHANGED phases
  PROVE  Length' = Length
  BY DEF Length

LEMMA LenAppended ==
  ASSUME TimelineTyped, NEW event, phases' = Append(phases, event)
  PROVE  Length' = Length + 1
  BY DEF TimelineTyped, Length

LEMMA LenOpened ==
  ASSUME TimelineTyped, NEW kind, NEW ordinal, Begin(kind, ordinal)
  PROVE  Length' = Length + 1
  BY DEF TimelineTyped, Length, Begin

LEMMA LenKept ==
  ASSUME TimelineTyped, NEW result, NEW failure, Finish(result, failure)
  PROVE  Length' = Length
<1> DEFINE last == Len(phases)
           event == Event(phases[last].kind, phases[last].ordinal, result, failure)
<1>1. phases' = [phases EXCEPT ![last] = event]
  BY DEF Finish
<1>2. DOMAIN phases' = DOMAIN phases /\ Len(phases) \in Nat /\ DOMAIN phases = 1 .. Len(phases)
  BY <1>1, LenProperties DEF TimelineTyped
<1> HIDE DEF event, last
<1>3. phases' \in [1 .. Len(phases) -> Range(phases) \cup {event}]
  BY <1>1, <1>2 DEF Range
<1> QED
  BY <1>2, <1>3, LenProperties, SeqDef DEF Length

HasAtMost(n) == Length <= n

BudgetInv ==
  /\ pc \in {"admission", "probeExternal", "startup"} => HasAtMost(0)
  /\ pc \in {"starting", "blaming", "probeManaged"} => HasAtMost(1)
  /\ pc = "diagnosePre" => HasAtMost(1 + Upto("Pre", at - 1))
  /\ pc = "diagnosingPre" => HasAtMost(1 + Upto("Pre", at))
  /\ pc = "check" => at <= SecurityChecks + 1 /\ HasAtMost(AfterPre + at - 1)
  /\ pc = "checking" => at <= SecurityChecks /\ HasAtMost(AfterPre + at)
  /\ pc = "corpus" => at <= CorpusChecks + 1 /\ HasAtMost(AfterPre + SecurityChecks + at - 1)
  /\ pc = "corpusRunning" => at <= CorpusChecks /\ HasAtMost(AfterPre + SecurityChecks + at)
  /\ pc = "warmup" => at <= Warmups + 1 /\ HasAtMost(AfterChecks + at - 1)
  /\ pc = "warming" => at <= Warmups /\ HasAtMost(AfterChecks + at)
  /\ pc = "trial" => at <= Trials /\ HasAtMost(AfterWarmups + 3 * at - 3)
  /\ pc \in Trialling \cup {"between"} => at <= Trials /\ HasAtMost(AfterWarmups + 3 * at - 2)
  /\ pc \in {"resetting", "stabilize"} => at < Trials /\ HasAtMost(AfterWarmups + 3 * at - 1)
  /\ pc = "cooling" => at < Trials /\ HasAtMost(AfterWarmups + 3 * at)
  /\ pc = "drain" => HasAtMost(AfterTrials)
  /\ pc \in {"draining", "telemetryDrain"} => HasAtMost(AfterTrials + 1)
  /\ pc = "telemetryDraining" => HasAtMost(AfterTrials + 2)
  /\ pc = "diagnosePost" => HasAtMost(AfterTrials + 2 + Upto("Post", at - 1))
  /\ pc = "diagnosingPost" => HasAtMost(AfterTrials + 2 + Upto("Post", at))
  /\ pc = "teardown" => HasAtMost(AfterTrials + 2 + All("Post"))
  /\ pc \in {"tearing", "staging", "finalization"} => HasAtMost(AfterTrials + 3 + All("Post"))
  /\ pc \in {"publish", "done"} => HasAtMost(AfterTrials + 4 + All("Post"))

LEMMA AdmissionBudget ==
  ASSUME FieldsTyped, TimelineTyped, BudgetInv, Refuse \/ Admit \/ Cancel
  PROVE  BudgetInv'
<1> USE Numbers DEF Goto, Trialling, BudgetInv, HasAtMost
<1> at \in Nat /\ at > 0 /\ Length \in Nat
  BY LenProperties DEF FieldsTyped, TimelineTyped, Length
<1>1. CASE Refuse
  BY <1>1, LenSame DEF Refuse
<1>2. CASE Admit
  BY <1>2, LenSame DEF Admit
<1>3. CASE Cancel
  BY <1>3, LenSame DEF Cancel
<1> QED
  BY <1>1, <1>2, <1>3

LEMMA ProbeBudget ==
  ASSUME FieldsTyped, TimelineTyped, BudgetInv, Probe
  PROVE  BudgetInv'
<1> USE Numbers DEF Goto, Trialling, BudgetInv, HasAtMost
<1> at \in Nat /\ at > 0 /\ Length \in Nat
  BY LenProperties DEF FieldsTyped, TimelineTyped, Length
<1>1. ASSUME NEW stage \in {"probeExternal", "probeManaged"}, NEW managed \in BOOLEAN,
             ProbeSkip(stage, managed)
      PROVE  BudgetInv'
  BY <1>1, LenSame DEF ProbeSkip, AtProbe
<1>2. ASSUME NEW stage \in {"probeExternal", "probeManaged"}, NEW managed \in BOOLEAN,
             ProbeSucceeds(stage, managed)
      PROVE  BudgetInv'
  BY <1>2, LenSame DEF ProbeSucceeds, AtProbe
<1>3. ASSUME NEW stage \in {"probeExternal", "probeManaged"}, NEW managed \in BOOLEAN,
             OptionalProbeFails(stage, managed)
      PROVE  BudgetInv'
  BY <1>3, LenSame DEF OptionalProbeFails, AtProbe
<1>4. ASSUME NEW stage \in {"probeExternal", "probeManaged"}, NEW managed \in BOOLEAN,
             ProbeEnds(stage, managed)
      PROVE  BudgetInv'
  BY <1>4, UptoAt, LenSame DEF ProbeEnds, AtProbe
<1>5. CASE RequiredExternalFails
  BY <1>5, LenSame DEF RequiredExternalFails
<1>6. CASE RequiredManagedFails
  BY <1>6, LenSame DEF RequiredManagedFails
<1> QED
  BY <1>1, <1>2, <1>3, <1>4, <1>5, <1>6 DEF Probe

LEMMA StartupBudget ==
  ASSUME FieldsTyped, TimelineTyped, BudgetInv, Startup
  PROVE  BudgetInv'
<1> USE Numbers DEF Goto, Trialling, BudgetInv, HasAtMost
<1> at \in Nat /\ at > 0 /\ Length \in Nat
  BY LenProperties DEF FieldsTyped, TimelineTyped, Length
<1>1. CASE StartupBegin
  <2>1. pc = "startup" /\ Length' = Length + 1 /\ pc' \in {"drain", "starting"}
    BY <1>1, LenOpened, LenAppended DEF StartupBegin
  <2> QED
    BY <2>1
<1>2. CASE StartupSucceeds
  BY <1>2, LenKept DEF StartupSucceeds
<1>3. CASE StartupFails
  BY <1>3, LenSame DEF StartupFails
<1>4. CASE StartupBlames
  BY <1>4, LenKept DEF StartupBlames
<1> QED
  BY <1>1, <1>2, <1>3, <1>4 DEF Startup

LEMMA DiagnoseBudget ==
  ASSUME FieldsTyped, TimelineTyped, BudgetInv, Diagnose
  PROVE  BudgetInv'
<1> USE Numbers DEF Goto, Trialling, BudgetInv, HasAtMost
<1> at \in Nat /\ at > 0 /\ Length \in Nat
  BY LenProperties DEF FieldsTyped, TimelineTyped, Length
<1>1. ASSUME NEW slot \in {"Pre", "Post"},
             DiagnosticsEnd(slot)
      PROVE  BudgetInv'
  BY <1>1, UptoAt, LenSame DEF DiagnosticsEnd, IdleStage, DiagnosticsOver,
              GotoIfHealthy, Healthy
<1>2. ASSUME NEW slot \in {"Pre", "Post"},
             DiagnosticSkip(slot)
      PROVE  BudgetInv'
  BY <1>2, UptoAt, LenSame DEF DiagnosticSkip, IdleStage, DiagnosticsOver
<1>3. ASSUME NEW slot \in {"Pre", "Post"},
             DiagnosticCancelled(slot)
      PROVE  BudgetInv'
  BY <1>3, UptoAt, LenSame DEF DiagnosticCancelled, IdleStage, DiagnosticsOver
<1>4. ASSUME NEW slot \in {"Pre", "Post"},
             DiagnosticBegin(slot)
      PROVE  BudgetInv'
  BY <1>4, LenOpened, UptoAt, UptoNext DEF DiagnosticBegin, IdleStage,
              BusyStage, DiagnosticsOver
<1>5. ASSUME NEW slot \in {"Pre", "Post"},
             DiagnosticUnstaged(slot)
      PROVE  BudgetInv'
  BY <1>5, LenKept, UptoAt DEF DiagnosticUnstaged, BusyStage
<1>6. ASSUME NEW slot \in {"Pre", "Post"}, NEW answer \in DiagnosticAnswers,
             DiagnosticDone(slot, answer)
      PROVE  BudgetInv'
  BY <1>6, LenKept, UptoAt DEF DiagnosticDone, IdleStage, BusyStage
<1> QED
  BY <1>1, <1>2, <1>3, <1>4, <1>5, <1>6 DEF Diagnose

LEMMA CheckBudget ==
  ASSUME FieldsTyped, TimelineTyped, BudgetInv, Check
  PROVE  BudgetInv'
<1> USE Numbers DEF Goto, Trialling, BudgetInv, HasAtMost
<1> at \in Nat /\ at > 0 /\ Length \in Nat
  BY LenProperties DEF FieldsTyped, TimelineTyped, Length
<1>1. ASSUME NEW loop \in {"check", "corpus"},
             ChecksEnd(loop)
      PROVE  BudgetInv'
  BY <1>1, LenSame DEF ChecksEnd, CheckLoops, GotoIfHealthy, Healthy
<1>2. ASSUME NEW loop \in {"check", "corpus"},
             CheckCancelled(loop)
      PROVE  BudgetInv'
  BY <1>2, LenSame DEF CheckCancelled, CheckLoops, LeaveChecks
<1>3. ASSUME NEW loop \in {"check", "corpus"},
             CheckBegin(loop)
      PROVE  BudgetInv'
  BY <1>3, LenOpened DEF CheckBegin, CheckLoops
<1>4. ASSUME NEW loop \in {"check", "corpus"},
             CheckUnstaged(loop)
      PROVE  BudgetInv'
  BY <1>4, LenKept DEF CheckUnstaged, CheckLoops, LeaveChecks
<1>5. ASSUME NEW loop \in {"check", "corpus"},
             CheckErrs(loop)
      PROVE  BudgetInv'
  BY <1>5, LenKept DEF CheckErrs, CheckLoops, LeaveChecks
<1>6. CASE CheckObserved
  BY <1>6, LenKept DEF CheckObserved
<1>7. CASE CorpusObserved
  BY <1>7, LenKept DEF CorpusObserved
<1>8. CASE CorpusInvalid
  BY <1>8, LenKept DEF CorpusInvalid, CheckLoops, LeaveChecks
<1>9. DOMAIN CheckLoops = {"check", "corpus"}
  BY DEF CheckLoops
<1> QED
  BY <1>1, <1>2, <1>3, <1>4, <1>5, <1>6, <1>7, <1>8, <1>9 DEF Check

LEMMA WarmupBudget ==
  ASSUME FieldsTyped, TimelineTyped, BudgetInv, Warmup
  PROVE  BudgetInv'
<1> USE Numbers DEF Goto, Trialling, BudgetInv, HasAtMost
<1> at \in Nat /\ at > 0 /\ Length \in Nat
  BY LenProperties DEF FieldsTyped, TimelineTyped, Length
<1>1. CASE WarmupsEnd
  BY <1>1, LenSame DEF WarmupsEnd, GotoIfHealthy, Healthy
<1>2. CASE WarmupBegin
  BY <1>2, LenOpened DEF WarmupBegin
<1>3. CASE WarmupDone
  BY <1>3, LenKept DEF WarmupDone
<1>4. CASE WarmupUnstaged
  BY <1>4, LenKept DEF WarmupUnstaged
<1>5. CASE WarmupFails
  BY <1>5, LenKept DEF WarmupFails
<1> QED
  BY <1>1, <1>2, <1>3, <1>4, <1>5 DEF Warmup

LEMMA TrialBudget ==
  ASSUME FieldsTyped, TimelineTyped, BudgetInv, Trial
  PROVE  BudgetInv'
<1> USE Numbers DEF Goto, Trialling, BudgetInv, HasAtMost
<1> at \in Nat /\ at > 0 /\ Length \in Nat
  BY LenProperties DEF FieldsTyped, TimelineTyped, Length
<1>1. CASE TrialCancelled
  BY <1>1, LenSame DEF TrialCancelled
<1>2. CASE TrialBegin
  BY <1>2, LenOpened DEF TrialBegin
<1>3. CASE WindowOpens
  BY <1>3, LenSame DEF WindowOpens
<1>4. CASE WindowFails
  BY <1>4, LenKept DEF WindowFails
<1>5. CASE MeasureBegin
  BY <1>5, LenSame DEF MeasureBegin
<1>6. CASE MeasureEnd
  BY <1>6, LenSame DEF MeasureEnd
<1>7. CASE TrialSucceeds
  BY <1>7, LenKept DEF TrialSucceeds
<1>8. CASE TrialUnstaged
  BY <1>8, LenKept DEF TrialUnstaged
<1>9. CASE TrialUnobserved
  BY <1>9, LenKept DEF TrialUnobserved
<1>10. CASE TrialFails
  BY <1>10, LenKept DEF TrialFails
<1> QED
  BY <1>1, <1>2, <1>3, <1>4, <1>5, <1>6, <1>7, <1>8, <1>9, <1>10 DEF Trial

LEMMA BetweenBudget ==
  ASSUME FieldsTyped, TimelineTyped, BudgetInv, Between
  PROVE  BudgetInv'
<1> USE Numbers DEF Goto, Trialling, BudgetInv, HasAtMost
<1> at \in Nat /\ at > 0 /\ Length \in Nat
  BY LenProperties DEF FieldsTyped, TimelineTyped, Length
<1>1. CASE TrialsEnd
  BY <1>1, LenSame DEF TrialsEnd
<1>2. CASE ResetBegin
  BY <1>2, LenOpened, LenSame DEF ResetBegin
<1>3. CASE ResetDone
  BY <1>3, LenKept DEF ResetDone
<1>4. CASE ResetFails
  BY <1>4, LenKept DEF ResetFails
<1>5. CASE CooldownBegin
  BY <1>5, LenOpened, LenSame DEF CooldownBegin
<1>6. CASE CooldownDone
  BY <1>6, LenKept DEF CooldownDone
<1>7. CASE CooldownCancelled
  BY <1>7, LenKept DEF CooldownCancelled
<1> QED
  BY <1>1, <1>2, <1>3, <1>4, <1>5, <1>6, <1>7 DEF Between

LEMMA CleanUpBudget ==
  ASSUME FieldsTyped, TimelineTyped, BudgetInv, CleanUp
  PROVE  BudgetInv'
<1> USE Numbers DEF Goto, Trialling, BudgetInv, HasAtMost
<1> at \in Nat /\ at > 0 /\ Length \in Nat
  BY LenProperties DEF FieldsTyped, TimelineTyped, Length
<1>1. CASE DrainBegin
  BY <1>1, LenOpened DEF DrainBegin
<1>2. CASE DrainEnd
  BY <1>2, LenKept DEF DrainEnd
<1>3. CASE TelemetryDrainBegin
  <2>1. /\ pc = "telemetryDrain"
        /\ \/ pc' = "diagnosePost" /\ at' = 1 /\ Length' = Length
           \/ pc' = "telemetryDraining" /\ Length' = Length + 1
    BY <1>3, LenOpened, LenSame DEF TelemetryDrainBegin
  <2> QED
    BY <2>1, UptoBounds
<1>4. CASE TelemetryDrainSucceeds
  <2>1. pc = "telemetryDraining" /\ pc' = "diagnosePost" /\ at' = 1 /\ Length' = Length
    BY <1>4, LenKept DEF TelemetryDrainSucceeds
  <2> QED
    BY <2>1, UptoBounds
<1>5. CASE TelemetryDrainFails
  <2>1. pc = "telemetryDraining" /\ pc' = "diagnosePost" /\ at' = 1 /\ Length' = Length
    BY <1>5, LenKept DEF TelemetryDrainFails
  <2> QED
    BY <2>1, UptoBounds
<1>6. CASE TeardownBegin
  BY <1>6, LenOpened DEF TeardownBegin
<1>7. CASE NothingToTearDown
  BY <1>7, LenKept DEF NothingToTearDown
<1>8. CASE TeardownEnd
  BY <1>8, LenKept DEF TeardownEnd
<1> QED
  BY <1>1, <1>2, <1>3, <1>4, <1>5, <1>6, <1>7, <1>8 DEF CleanUp

LEMMA SealBudget ==
  ASSUME FieldsTyped, TimelineTyped, BudgetInv, Seal
  PROVE  BudgetInv'
<1> USE Numbers DEF Goto, Trialling, BudgetInv, HasAtMost
<1> at \in Nat /\ at > 0 /\ Length \in Nat
  BY LenProperties DEF FieldsTyped, TimelineTyped, Length
<1>1. CASE StageEvidence
  BY <1>1, LenSame DEF StageEvidence
<1>2. CASE Finalize
  <2>1. pc = "finalization" /\ pc' = "publish" /\ Length' = Length + 1
    BY <1>2, LenAppended DEF Finalize
  <2> QED
    BY <2>1
<1>3. CASE Publish
  BY <1>3, LenSame DEF Publish
<1>4. CASE PublishFails
  BY <1>4, LenSame DEF PublishFails
<1> QED
  BY <1>1, <1>2, <1>3, <1>4 DEF Seal

-----------------------------------------------------------------------------
(***************************************************************************)
(* Counting the events of a kind.                                          *)
(***************************************************************************)
LEMMA AppendedEvent ==
  ASSUME TimelineTyped, NEW event \in PhaseEvent, phases' = Append(phases, event)
  PROVE  /\ Len(phases) \in Nat /\ Len(phases') = Len(phases) + 1
         /\ DOMAIN phases = 1 .. Len(phases)
         /\ DOMAIN phases' = 1 .. (Len(phases) + 1)
         /\ phases'[Len(phases) + 1] = event
         /\ \A k \in DOMAIN phases : phases'[k] = phases[k]
<1>1. /\ phases' \in Seq(PhaseEvent)
      /\ Len(phases') = Len(phases) + 1
      /\ phases'[Len(phases) + 1] = event
      /\ \A k \in 1 .. Len(phases) : phases'[k] = phases[k]
  BY AppendProperties DEF TimelineTyped
<1> QED
  BY <1>1, LenProperties DEF TimelineTyped

LEMMA FinishedEvent ==
  ASSUME TimelineTyped, NEW result, NEW failure, Finish(result, failure)
  PROVE  /\ Len(phases) \in Nat
         /\ DOMAIN phases' = DOMAIN phases /\ DOMAIN phases = 1 .. Len(phases)
         /\ \A k \in DOMAIN phases : k # Len(phases) => phases'[k] = phases[k]
         /\ \A k \in DOMAIN phases : k = Len(phases) =>
              phases'[k] = Event(phases[k].kind, phases[k].ordinal, result, failure)
  BY LenProperties DEF TimelineTyped, Finish, Event

LEMMA CountAppended ==
  ASSUME TimelineTyped, NEW event \in PhaseEvent, phases' = Append(phases, event)
  PROVE  /\ Count(event.kind)' = Count(event.kind) + 1
         /\ \A kind : kind # event.kind => Count(kind)' = Count(kind)
<1> DEFINE new == Len(phases) + 1
<1>1. new \notin DOMAIN phases /\ DOMAIN phases' = DOMAIN phases \cup {new}
  BY AppendedEvent
<1>2. phases'[new] = event /\ \A k \in DOMAIN phases : phases'[k] = phases[k]
  BY AppendedEvent
<1>3. IsFiniteSet(EventsOf(event.kind))
  BY AppendedEvent, FS_Interval, FS_Subset DEF EventsOf
<1> HIDE DEF new
<1>4. EventsOf(event.kind)' = EventsOf(event.kind) \cup {new} /\ new \notin EventsOf(event.kind)
  BY <1>1, <1>2 DEF EventsOf
<1>5. Count(event.kind)' = Count(event.kind) + 1
  BY <1>3, <1>4, FS_AddElement DEF Count
<1>6. ASSUME NEW kind, kind # event.kind PROVE Count(kind)' = Count(kind)
  <2>1. EventsOf(kind)' = EventsOf(kind)
    BY <1>1, <1>2, <1>6 DEF EventsOf
  <2> QED
    BY <2>1 DEF Count
<1> QED
  BY <1>5, <1>6

LEMMA CountFinished ==
  ASSUME TimelineTyped, NEW result, NEW failure, Finish(result, failure)
  PROVE  \A kind : Count(kind)' = Count(kind)
<1> TAKE kind
<1>1. ASSUME NEW k \in DOMAIN phases PROVE phases'[k].kind = phases[k].kind
  <2>1. CASE k = Len(phases)
    <3>1. phases'[k] = Event(phases[k].kind, phases[k].ordinal, result, failure)
      BY <2>1, FinishedEvent
    <3> QED
      BY <3>1 DEF Event
  <2>2. CASE k # Len(phases)
    BY <2>2, FinishedEvent
  <2> QED
    BY <2>1, <2>2
<1>2. EventsOf(kind)' = EventsOf(kind)
  BY <1>1, FinishedEvent DEF EventsOf
<1> QED
  BY <1>2 DEF Count

(***************************************************************************)
(* How far the run has come, by the events its timeline holds.             *)
(***************************************************************************)
Tally(warmed, measured, resets, cooldowns) ==
  /\ Count("Warmup") = warmed
  /\ Count("MeasuredTrial") = measured
  /\ Count("Reset") = resets
  /\ Count("Cooldown") = cooldowns

SameTally == \A kind : Count(kind)' = Count(kind)

OneMore(event) ==
  Count(event)' = Count(event) + 1 /\ \A kind : kind # event => Count(kind)' = Count(kind)

LEMMA TallyKept ==
  ASSUME UNCHANGED phases
  PROVE  SameTally
  BY DEF SameTally, Count, EventsOf

LEMMA TallyFinished ==
  ASSUME TimelineTyped, NEW result, NEW failure, Finish(result, failure)
  PROVE  SameTally
  BY CountFinished DEF SameTally

LEMMA TallyBegun ==
  ASSUME TimelineTyped, NEW kind \in PhaseKinds, NEW ordinal \in Nat, Begin(kind, ordinal)
  PROVE  OneMore(kind)
<1> DEFINE event == Event(kind, ordinal, "Open", None)
<1>1. event \in PhaseEvent /\ event.kind = kind /\ phases' = Append(phases, event)
  BY DEF Event, PhaseEvent, PhaseOutcomes, Begin
<1> HIDE DEF event
<1> QED
  BY <1>1, CountAppended DEF OneMore

LEMMA TallyClosed ==
  ASSUME TimelineTyped, NEW kind \in PhaseKinds, NEW result \in PhaseOutcomes,
         NEW failure \in FailureCategories \cup {None},
         phases' = Append(phases, Event(kind, 0, result, failure))
  PROVE  OneMore(kind)
<1> DEFINE event == Event(kind, 0, result, failure)
<1>1. event \in PhaseEvent /\ event.kind = kind /\ phases' = Append(phases, event)
  BY DEF Event, PhaseEvent
<1> HIDE DEF event
<1> QED
  BY <1>1, CountAppended DEF OneMore

ResetsAfter(n) == IF HasReset THEN n ELSE 0
CooldownsAfter(n) == IF HasCooldown THEN n ELSE 0

(* The stages before the warmups, and those after the trials. *)
Preparation ==
  BeforeReadiness \cup {"probeManaged", "diagnosePre", "diagnosingPre", "check",
                        "checking", "corpus", "corpusRunning"}

Ending == CleaningStages \cup SealingStages

Over == pc \in Ending \/ (pc = "done" /\ outcome # "refused")

ProgressInv ==
  /\ outcome # None => pc = "done"
  /\ outcome = "published" => stagingError = None
  /\ pc \notin SealingStages \cup {"done"} /\ stagingError # None => status # "Completed"
  /\ pc \in Preparation => Tally(0, 0, 0, 0)
  /\ pc = "warmup" => Tally(at - 1, 0, 0, 0)
  /\ pc = "warming" => Tally(at, 0, 0, 0)
  /\ pc = "trial" => Tally(Warmups, at - 1, ResetsAfter(at - 1), CooldownsAfter(at - 1))
  /\ pc \in Trialling \cup {"between"} =>
       Tally(Warmups, at, ResetsAfter(at - 1), CooldownsAfter(at - 1))
  /\ pc = "resetting" => HasReset /\ Tally(Warmups, at, at, CooldownsAfter(at - 1))
  /\ pc = "stabilize" => Tally(Warmups, at, ResetsAfter(at), CooldownsAfter(at - 1))
  /\ pc = "cooling" => HasCooldown /\ Tally(Warmups, at, ResetsAfter(at), at)
  /\ Over /\ status = "Completed" =>
       Tally(Warmups, Trials, ResetsAfter(Trials - 1), CooldownsAfter(Trials - 1))

(* The indices of the loops stay in their loops. *)
LoopInv ==
  /\ pc = "warmup" => at <= Warmups + 1
  /\ pc = "trial" => at <= Trials
  /\ pc \in Trialling \cup {"between"} => at <= Trials

LEMMA AdmissionProgress ==
  ASSUME FieldsTyped, TimelineTyped, VerdictInv, LoopInv, ProgressInv, Refuse \/ Admit \/ Cancel
  PROVE  ProgressInv'
<1> USE DEF Goto, Trialling, ProgressInv, LoopInv, Tally, Over, Ending, CleaningStages,
            SealingStages, Preparation, BeforeReadiness, telemetry, verdict, SameTally,
            OneMore, None
<1> at \in Nat /\ at > 0
  BY DEF FieldsTyped
<1>1. CASE Refuse
  BY <1>1, TallyKept DEF Refuse
<1>2. CASE Admit
  BY <1>2, TallyKept DEF Admit
<1>3. CASE Cancel
  BY <1>3, TallyKept DEF Cancel
<1> QED
  BY <1>1, <1>2, <1>3

LEMMA ProbeProgress ==
  ASSUME FieldsTyped, TimelineTyped, VerdictInv, LoopInv, ProgressInv, Probe
  PROVE  ProgressInv'
<1> USE DEF Goto, Trialling, ProgressInv, LoopInv, Tally, Over, Ending, CleaningStages,
            SealingStages, Preparation, BeforeReadiness, telemetry, verdict, SameTally,
            OneMore, None
<1> at \in Nat /\ at > 0
  BY DEF FieldsTyped
<1>1. ASSUME NEW stage \in {"probeExternal", "probeManaged"}, NEW managed \in BOOLEAN,
             ProbeSkip(stage, managed)
      PROVE  ProgressInv'
  BY <1>1, TallyKept DEF ProbeSkip, AtProbe
<1>2. ASSUME NEW stage \in {"probeExternal", "probeManaged"}, NEW managed \in BOOLEAN,
             ProbeSucceeds(stage, managed)
      PROVE  ProgressInv'
  BY <1>2, TallyKept DEF ProbeSucceeds, AtProbe
<1>3. ASSUME NEW stage \in {"probeExternal", "probeManaged"}, NEW managed \in BOOLEAN,
             OptionalProbeFails(stage, managed)
      PROVE  ProgressInv'
  BY <1>3, TallyKept DEF OptionalProbeFails, AtProbe
<1>4. ASSUME NEW stage \in {"probeExternal", "probeManaged"}, NEW managed \in BOOLEAN,
             ProbeEnds(stage, managed)
      PROVE  ProgressInv'
  BY <1>4, TallyKept DEF ProbeEnds, AtProbe
<1>5. CASE RequiredExternalFails
  BY <1>5, TallyKept DEF RequiredExternalFails
<1>6. CASE RequiredManagedFails
  BY <1>6, TallyKept DEF RequiredManagedFails, Fail
<1> QED
  BY <1>1, <1>2, <1>3, <1>4, <1>5, <1>6 DEF Probe

LEMMA StartupProgress ==
  ASSUME FieldsTyped, TimelineTyped, VerdictInv, LoopInv, ProgressInv, Startup
  PROVE  ProgressInv'
<1> USE DEF Goto, Trialling, ProgressInv, LoopInv, Tally, Over, Ending, CleaningStages,
            SealingStages, Preparation, BeforeReadiness, telemetry, verdict, SameTally,
            OneMore, None
<1> at \in Nat /\ at > 0
  BY DEF FieldsTyped
<1>1. CASE StartupBegin
  BY <1>1, TallyBegun, TallyClosed DEF StartupBegin, PhaseKinds,
              PhaseOutcomes, FailureCategories, Fail
<1>2. CASE StartupSucceeds
  BY <1>2, TallyFinished DEF StartupSucceeds
<1>3. CASE StartupFails
  BY <1>3, TallyKept DEF StartupFails
<1>4. CASE StartupBlames
  BY <1>4, TallyFinished DEF StartupBlames, VerdictInv, CleanStages, Clean
<1> QED
  BY <1>1, <1>2, <1>3, <1>4 DEF Startup

LEMMA DiagnoseProgress ==
  ASSUME FieldsTyped, TimelineTyped, VerdictInv, LoopInv, ProgressInv, Diagnose
  PROVE  ProgressInv'
<1> USE DEF Goto, Trialling, ProgressInv, LoopInv, Tally, Over, Ending, CleaningStages,
            SealingStages, Preparation, BeforeReadiness, telemetry, verdict, SameTally,
            OneMore, None
<1> at \in Nat /\ at > 0
  BY DEF FieldsTyped
<1>1. ASSUME NEW slot \in {"Pre", "Post"},
             DiagnosticsEnd(slot)
      PROVE  ProgressInv'
  BY <1>1, TallyKept DEF DiagnosticsEnd, IdleStage, DiagnosticsOver,
              GotoIfHealthy, Healthy
<1>2. ASSUME NEW slot \in {"Pre", "Post"},
             DiagnosticSkip(slot)
      PROVE  ProgressInv'
  BY <1>2, TallyKept DEF DiagnosticSkip, IdleStage, DiagnosticsOver
<1>3. ASSUME NEW slot \in {"Pre", "Post"},
             DiagnosticCancelled(slot)
      PROVE  ProgressInv'
  BY <1>3, TallyKept DEF DiagnosticCancelled, IdleStage, DiagnosticsOver, Fail
<1>4. ASSUME NEW slot \in {"Pre", "Post"},
             DiagnosticBegin(slot)
      PROVE  ProgressInv'
  BY <1>4, TallyBegun DEF DiagnosticBegin, IdleStage, BusyStage,
              DiagnosticsOver, PhaseKinds
<1>5. ASSUME NEW slot \in {"Pre", "Post"},
             DiagnosticUnstaged(slot)
      PROVE  ProgressInv'
  BY <1>5, TallyFinished DEF DiagnosticUnstaged, BusyStage
<1>6. ASSUME NEW slot \in {"Pre", "Post"}, NEW answer \in DiagnosticAnswers,
             DiagnosticDone(slot, answer)
      PROVE  ProgressInv'
  BY <1>6, TallyFinished DEF DiagnosticDone, IdleStage, BusyStage, Fail,
              Settle
<1> QED
  BY <1>1, <1>2, <1>3, <1>4, <1>5, <1>6 DEF Diagnose

LEMMA CheckProgress ==
  ASSUME FieldsTyped, TimelineTyped, VerdictInv, LoopInv, ProgressInv, Check
  PROVE  ProgressInv'
<1> USE DEF Goto, Trialling, ProgressInv, LoopInv, Tally, Over, Ending, CleaningStages,
            SealingStages, Preparation, BeforeReadiness, telemetry, verdict, SameTally,
            OneMore, None
<1> at \in Nat /\ at > 0
  BY DEF FieldsTyped
<1>1. ASSUME NEW loop \in {"check", "corpus"},
             ChecksEnd(loop)
      PROVE  ProgressInv'
  BY <1>1, TallyKept DEF ChecksEnd, CheckLoops, GotoIfHealthy, Healthy
<1>2. ASSUME NEW loop \in {"check", "corpus"},
             CheckCancelled(loop)
      PROVE  ProgressInv'
  BY <1>2, TallyKept DEF CheckCancelled, CheckLoops, LeaveChecks, Fail
<1>3. ASSUME NEW loop \in {"check", "corpus"},
             CheckBegin(loop)
      PROVE  ProgressInv'
  BY <1>3, TallyBegun DEF CheckBegin, CheckLoops, PhaseKinds
<1>4. ASSUME NEW loop \in {"check", "corpus"},
             CheckUnstaged(loop)
      PROVE  ProgressInv'
  BY <1>4, TallyFinished DEF CheckUnstaged, CheckLoops, LeaveChecks
<1>5. ASSUME NEW loop \in {"check", "corpus"},
             CheckErrs(loop)
      PROVE  ProgressInv'
  BY <1>5, TallyFinished DEF CheckErrs, CheckLoops, LeaveChecks, Fail
<1>6. CASE CheckObserved
  BY <1>6, TallyFinished DEF CheckObserved, Fail, Settle
<1>7. CASE CorpusObserved
  BY <1>7, TallyFinished DEF CorpusObserved
<1>8. CASE CorpusInvalid
  BY <1>8, TallyFinished DEF CorpusInvalid, CheckLoops, LeaveChecks, Fail
<1>9. DOMAIN CheckLoops = {"check", "corpus"}
  BY DEF CheckLoops
<1> QED
  BY <1>1, <1>2, <1>3, <1>4, <1>5, <1>6, <1>7, <1>8, <1>9 DEF Check

LEMMA WarmupProgress ==
  ASSUME FieldsTyped, TimelineTyped, VerdictInv, LoopInv, ProgressInv, Warmup
  PROVE  ProgressInv'
<1> USE DEF Goto, Trialling, ProgressInv, LoopInv, Tally, Over, Ending, CleaningStages,
            SealingStages, Preparation, BeforeReadiness, telemetry, verdict, SameTally,
            OneMore, None
<1> at \in Nat /\ at > 0
  BY DEF FieldsTyped
<1>1. CASE WarmupsEnd
  <2>1. pc = "warmup" /\ at = Warmups + 1 /\ UNCHANGED <<phases, outcome, status, stagingError>>
    BY <1>1, PlanAssumption DEF WarmupsEnd
  <2>2. pc' = "trial" /\ at' = 1
    BY <1>1 DEF WarmupsEnd, GotoIfHealthy, Healthy, VerdictInv, CleanStages, Clean
  <2>3. Tally(Warmups, 0, 0, 0)
    BY <2>1, PlanAssumption
  <2>4. Tally(Warmups, 0, 0, 0)'
    BY <2>1, <2>3, TallyKept
  <2> QED
    BY <2>1, <2>2, <2>4 DEF ResetsAfter, CooldownsAfter
<1>2. CASE WarmupBegin
  BY <1>2, TallyBegun DEF WarmupBegin, PhaseKinds
<1>3. CASE WarmupDone
  BY <1>3, TallyFinished DEF WarmupDone
<1>4. CASE WarmupUnstaged
  BY <1>4, TallyFinished DEF WarmupUnstaged
<1>5. CASE WarmupFails
  BY <1>5, TallyFinished DEF WarmupFails, Fail, StatusFor
<1> QED
  BY <1>1, <1>2, <1>3, <1>4, <1>5 DEF Warmup

LEMMA TrialProgress ==
  ASSUME FieldsTyped, TimelineTyped, VerdictInv, LoopInv, ProgressInv, Trial
  PROVE  ProgressInv'
<1> USE DEF Goto, Trialling, ProgressInv, LoopInv, Tally, Over, Ending, CleaningStages,
            SealingStages, Preparation, BeforeReadiness, telemetry, verdict, SameTally,
            OneMore, None
<1> at \in Nat /\ at > 0
  BY DEF FieldsTyped
<1>1. CASE TrialCancelled
  BY <1>1, TallyKept DEF TrialCancelled, Fail
<1>2. CASE TrialBegin
  BY <1>2, TallyBegun DEF TrialBegin, PhaseKinds
<1>3. CASE WindowOpens
  BY <1>3, TallyKept DEF WindowOpens
<1>4. CASE WindowFails
  BY <1>4, TallyFinished DEF WindowFails, Fail
<1>5. CASE MeasureBegin
  BY <1>5, TallyKept DEF MeasureBegin
<1>6. CASE MeasureEnd
  BY <1>6, TallyKept DEF MeasureEnd
<1>7. CASE TrialSucceeds
  BY <1>7, TallyFinished DEF TrialSucceeds
<1>8. CASE TrialUnstaged
  BY <1>8, TallyFinished DEF TrialUnstaged
<1>9. CASE TrialUnobserved
  BY <1>9, TallyFinished DEF TrialUnobserved, Fail
<1>10. CASE TrialFails
  BY <1>10, TallyFinished DEF TrialFails, Fail, StatusFor
<1> QED
  BY <1>1, <1>2, <1>3, <1>4, <1>5, <1>6, <1>7, <1>8, <1>9, <1>10 DEF Trial

LEMMA BetweenProgress ==
  ASSUME FieldsTyped, TimelineTyped, VerdictInv, LoopInv, ProgressInv, Between
  PROVE  ProgressInv'
<1> USE DEF Goto, Trialling, ProgressInv, LoopInv, Tally, Over, Ending, CleaningStages,
            SealingStages, Preparation, BeforeReadiness, telemetry, verdict, SameTally,
            OneMore, None
<1> at \in Nat /\ at > 0
  BY DEF FieldsTyped
<1>1. CASE TrialsEnd
  BY <1>1, TallyKept DEF TrialsEnd
<1>2. CASE ResetBegin
  <2>1. pc = "between" /\ UNCHANGED <<at, outcome, status, stagingError>>
    BY <1>2 DEF ResetBegin
  <2>2. CASE HasReset
    <3>1. pc' = "resetting" /\ Begin("Reset", at)
      BY <1>2, <2>2 DEF ResetBegin
    <3>2. OneMore("Reset")
      BY <3>1, TallyBegun DEF PhaseKinds
    <3> QED
      BY <2>1, <2>2, <3>1, <3>2 DEF ResetsAfter
  <2>3. CASE ~ HasReset
    <3>1. pc' = "stabilize" /\ UNCHANGED phases
      BY <1>2, <2>3 DEF ResetBegin
    <3> QED
      BY <2>1, <2>3, <3>1, TallyKept DEF ResetsAfter
  <2> QED
    BY <2>2, <2>3
<1>3. CASE ResetDone
  <2>1. /\ pc = "resetting" /\ pc' = "stabilize" /\ SameTally
        /\ UNCHANGED <<at, outcome, status, stagingError>>
    BY <1>3, TallyFinished DEF ResetDone
  <2> QED
    BY <2>1 DEF ResetsAfter
<1>4. CASE ResetFails
  BY <1>4, TallyFinished DEF ResetFails, Fail, StatusFor
<1>5. CASE CooldownBegin
  <2>1. pc = "stabilize" /\ UNCHANGED <<outcome, status, stagingError>>
    BY <1>5 DEF CooldownBegin
  <2>2. CASE HasCooldown
    <3>1. pc' = "cooling" /\ at' = at /\ Begin("Cooldown", at)
      BY <1>5, <2>2 DEF CooldownBegin
    <3>2. OneMore("Cooldown")
      BY <3>1, TallyBegun DEF PhaseKinds
    <3> QED
      BY <2>1, <2>2, <3>1, <3>2 DEF CooldownsAfter
  <2>3. CASE ~ HasCooldown
    <3>1. pc' = "trial" /\ at' = at + 1 /\ SameTally
      BY <1>5, <2>3, TallyKept DEF CooldownBegin
    <3>2. at' - 1 = at
      BY <3>1
    <3> QED
      BY <2>1, <2>3, <3>1, <3>2 DEF CooldownsAfter
  <2> QED
    BY <2>2, <2>3
<1>6. CASE CooldownDone
  <2>1. /\ pc = "cooling" /\ pc' = "trial" /\ at' = at + 1 /\ SameTally
        /\ UNCHANGED <<outcome, status, stagingError>>
    BY <1>6, TallyFinished DEF CooldownDone
  <2>2. at' - 1 = at
    BY <2>1
  <2> QED
    BY <2>1, <2>2 DEF CooldownsAfter
<1>7. CASE CooldownCancelled
  BY <1>7, TallyFinished DEF CooldownCancelled, Fail
<1> QED
  BY <1>1, <1>2, <1>3, <1>4, <1>5, <1>6, <1>7 DEF Between

LEMMA CleanUpProgress ==
  ASSUME FieldsTyped, TimelineTyped, VerdictInv, LoopInv, ProgressInv, CleanUp
  PROVE  ProgressInv'
<1> USE DEF Goto, Trialling, ProgressInv, LoopInv, Tally, Over, Ending, CleaningStages,
            SealingStages, Preparation, BeforeReadiness, telemetry, verdict, SameTally,
            OneMore, None
<1> at \in Nat /\ at > 0
  BY DEF FieldsTyped
<1>1. CASE DrainBegin
  BY <1>1, TallyBegun DEF DrainBegin, PhaseKinds
<1>2. CASE DrainEnd
  BY <1>2, TallyFinished DEF DrainEnd, Fail, Settle
<1>3. CASE TelemetryDrainBegin
  BY <1>3, TallyBegun, TallyKept DEF TelemetryDrainBegin, PhaseKinds
<1>4. CASE TelemetryDrainSucceeds
  BY <1>4, TallyFinished DEF TelemetryDrainSucceeds, Fail, Settle
<1>5. CASE TelemetryDrainFails
  BY <1>5, TallyFinished DEF TelemetryDrainFails, Fail
<1>6. CASE TeardownBegin
  BY <1>6, TallyBegun DEF TeardownBegin, PhaseKinds
<1>7. CASE NothingToTearDown
  BY <1>7, TallyFinished DEF NothingToTearDown
<1>8. CASE TeardownEnd
  BY <1>8, TallyFinished DEF TeardownEnd, Fail, Settle
<1> QED
  BY <1>1, <1>2, <1>3, <1>4, <1>5, <1>6, <1>7, <1>8 DEF CleanUp

LEMMA SealProgress ==
  ASSUME FieldsTyped, TimelineTyped, VerdictInv, LoopInv, ProgressInv, Seal
  PROVE  ProgressInv'
<1> USE DEF Goto, Trialling, ProgressInv, LoopInv, Tally, Over, Ending, CleaningStages,
            SealingStages, Preparation, BeforeReadiness, telemetry, verdict, SameTally,
            OneMore, None
<1> at \in Nat /\ at > 0
  BY DEF FieldsTyped
<1>1. CASE StageEvidence
  BY <1>1, TallyKept DEF StageEvidence
<1>2. CASE Finalize
  BY <1>2, TallyClosed DEF Finalize, PhaseKinds, PhaseOutcomes,
              FailureCategories
<1>3. CASE Publish
  <2>1. pc = "publish" /\ pc' = "done" /\ stagingError = None
        /\ UNCHANGED <<phases, status, stagingError>>
    BY <1>3 DEF Publish
  <2> QED
    BY <2>1, TallyKept
<1>4. CASE PublishFails
  <2>1. pc = "publish" /\ pc' = "done" /\ outcome' = "evidenceError"
        /\ UNCHANGED <<phases, status, stagingError>>
    BY <1>4 DEF PublishFails
  <2> QED
    BY <2>1, TallyKept
<1> QED
  BY <1>1, <1>2, <1>3, <1>4 DEF Seal

-----------------------------------------------------------------------------
(***************************************************************************)
(* What the evidence of the trials owes the timeline.                      *)
(***************************************************************************)
DiagnosticKinds == {"DiagnosticsPre", "DiagnosticsPost"}

LastEvent == phases[Len(phases)]

CleanTimeline ==
  \A k \in DOMAIN phases :
    phases[k].kind \in DiagnosticKinds \/ phases[k].outcome \in {"Completed", "Open"}

AllCompleted == \A n \in DOMAIN trials : trials[n].terminal = "Completed"

(* Every finished trial has its record, and the open one will have the next. *)
Sound ==
  /\ \A n \in DOMAIN trials :
       trials[n].id = n /\ (n < Len(trials) => trials[n].terminal = "Completed")
  /\ \A k \in EventsOf("MeasuredTrial") :
       /\ phases[k].outcome = "Open" => phases[k].ordinal = Len(trials) + 1
       /\ phases[k].outcome # "Open" =>
            /\ phases[k].ordinal \in DOMAIN trials
            /\ trials[phases[k].ordinal].terminal = phases[k].outcome
       /\ \A j \in EventsOf("MeasuredTrial") : j < k => phases[j].ordinal < phases[k].ordinal

(* A step that touches the timeline but not its trials. *)
LEMMA EvidenceKept ==
  ASSUME UNCHANGED phases
  PROVE  /\ LastEvent' = LastEvent
         /\ CleanTimeline => CleanTimeline'
         /\ UNCHANGED trials /\ Sound => Sound'
  BY DEF LastEvent, CleanTimeline, Sound, EventsOf

LEMMA EvidenceAppended ==
  ASSUME TimelineTyped, NEW event \in PhaseEvent, phases' = Append(phases, event)
  PROVE  /\ LastEvent' = event
         /\ event.outcome \in {"Completed", "Open"} => (CleanTimeline => CleanTimeline')
         /\ event.kind # "MeasuredTrial" /\ UNCHANGED trials /\ Sound => Sound'
<1> DEFINE new == Len(phases) + 1
<1>1. /\ new \notin DOMAIN phases /\ DOMAIN phases' = DOMAIN phases \cup {new}
      /\ phases'[new] = event /\ Len(phases') = new
      /\ \A k \in DOMAIN phases : phases'[k] = phases[k]
  BY AppendedEvent
<1> HIDE DEF new
<1>2. LastEvent' = event
  BY <1>1 DEF LastEvent
<1>3. ASSUME event.outcome \in {"Completed", "Open"}, CleanTimeline PROVE CleanTimeline'
  BY <1>1, <1>3 DEF CleanTimeline
<1>4. ASSUME event.kind # "MeasuredTrial", UNCHANGED trials, Sound PROVE Sound'
  <2>1. EventsOf("MeasuredTrial")' = EventsOf("MeasuredTrial")
    BY <1>1, <1>4 DEF EventsOf
  <2>2. \A k \in EventsOf("MeasuredTrial") : phases'[k] = phases[k]
    BY <1>1 DEF EventsOf
  <2> QED
    BY <1>4, <2>1, <2>2 DEF Sound
<1> QED
  BY <1>2, <1>3, <1>4

LEMMA EvidenceBegun ==
  ASSUME TimelineTyped, NEW kind \in PhaseKinds, NEW ordinal \in Nat, Begin(kind, ordinal)
  PROVE  /\ LastEvent'.kind = kind /\ LastEvent'.ordinal = ordinal
         /\ CleanTimeline => CleanTimeline'
         /\ kind # "MeasuredTrial" /\ UNCHANGED trials /\ Sound => Sound'
<1> DEFINE event == Event(kind, ordinal, "Open", None)
<1>1. /\ event \in PhaseEvent /\ phases' = Append(phases, event)
      /\ event.kind = kind /\ event.ordinal = ordinal /\ event.outcome = "Open"
  BY DEF Event, PhaseEvent, PhaseOutcomes, Begin
<1> HIDE DEF event
<1> QED
  BY <1>1, EvidenceAppended

LEMMA EvidenceFinished ==
  ASSUME TimelineTyped, LastOpen, NEW result, NEW failure, Finish(result, failure)
  PROVE  /\ result = "Completed" \/ LastEvent.kind \in DiagnosticKinds =>
              (CleanTimeline => CleanTimeline')
         /\ LastEvent.kind # "MeasuredTrial" /\ UNCHANGED trials /\ Sound => Sound'
<1> DEFINE last == Len(phases)
<1>1. /\ last \in DOMAIN phases /\ DOMAIN phases' = DOMAIN phases
      /\ phases'[last] = Event(phases[last].kind, phases[last].ordinal, result, failure)
      /\ \A k \in DOMAIN phases : k # last => phases'[k] = phases[k]
  BY FinishedEvent DEF LastOpen
<1> HIDE DEF last
<1>2. phases'[last].kind = phases[last].kind /\ phases'[last].outcome = result
  BY <1>1 DEF Event
<1>3. LastEvent = phases[last]
  BY DEF last, LastEvent
<1>4. ASSUME result = "Completed" \/ LastEvent.kind \in DiagnosticKinds, CleanTimeline
      PROVE  CleanTimeline'
  BY <1>1, <1>2, <1>3, <1>4 DEF CleanTimeline
<1>5. ASSUME LastEvent.kind # "MeasuredTrial", UNCHANGED trials, Sound
      PROVE  Sound'
  <2>1. EventsOf("MeasuredTrial")' = EventsOf("MeasuredTrial")
    BY <1>1, <1>2, <1>3, <1>5 DEF EventsOf
  <2>2. \A k \in EventsOf("MeasuredTrial") : phases'[k] = phases[k]
    BY <1>1, <1>3, <1>5 DEF EventsOf
  <2> QED
    BY <1>5, <2>1, <2>2 DEF Sound
<1> QED
  BY <1>4, <1>5

(* A trial begins: its event is the one the next record is for. *)
LEMMA TrialBegun ==
  ASSUME TimelineTyped, AllClosed, trials \in Seq(TrialRecord), UNCHANGED trials, Sound,
         Begin("MeasuredTrial", Len(trials) + 1)
  PROVE  Sound'
<1> DEFINE new == Len(phases) + 1
           event == Event("MeasuredTrial", Len(trials) + 1, "Open", None)
<1>1. Len(trials) \in Nat /\ DOMAIN trials = 1 .. Len(trials)
  BY LenProperties
<1>2. /\ event \in PhaseEvent /\ phases' = Append(phases, event)
      /\ event.kind = "MeasuredTrial" /\ event.ordinal = Len(trials) + 1 /\ event.outcome = "Open"
  BY <1>1 DEF Event, PhaseEvent, PhaseKinds, PhaseOutcomes, Begin
<1> HIDE DEF event
<1>3. /\ new \notin DOMAIN phases /\ DOMAIN phases' = DOMAIN phases \cup {new}
      /\ phases'[new] = event
      /\ \A k \in DOMAIN phases : phases'[k] = phases[k] /\ k < new
      /\ \A k \in DOMAIN phases : phases[k].outcome # "Open"
  BY <1>2, AppendedEvent DEF AllClosed
<1> HIDE DEF new
<1>4. EventsOf("MeasuredTrial")' = EventsOf("MeasuredTrial") \cup {new}
  BY <1>2, <1>3 DEF EventsOf
<1>5. \A k \in EventsOf("MeasuredTrial") :
        /\ k \in DOMAIN phases /\ phases'[k] = phases[k] /\ k < new /\ ~ (new < k)
        /\ phases[k].ordinal \in DOMAIN trials /\ phases[k].outcome # "Open"
        /\ trials[phases[k].ordinal].terminal = phases[k].outcome
  <2>1. \A k \in EventsOf("MeasuredTrial") : k \in DOMAIN phases
    BY DEF EventsOf
  <2>2. \A k \in DOMAIN phases : ~ (new < k)
    BY AppendedEvent, <1>2 DEF new
  <2> QED
    BY <1>3, <2>1, <2>2 DEF Sound
<1>6. \A k \in EventsOf("MeasuredTrial") : phases[k].ordinal < Len(trials) + 1
  BY <1>1, <1>5
<1>7. ~ (new < new)
  BY LenProperties DEF new, TimelineTyped
<1>8. \A n \in DOMAIN trials :
        trials[n].id = n /\ (n < Len(trials) => trials[n].terminal = "Completed")
  BY DEF Sound
<1>9. ASSUME NEW k \in EventsOf("MeasuredTrial")'
      PROVE  /\ phases'[k].outcome = "Open" => phases'[k].ordinal = Len(trials) + 1
             /\ phases'[k].outcome # "Open" =>
                  /\ phases'[k].ordinal \in DOMAIN trials
                  /\ trials[phases'[k].ordinal].terminal = phases'[k].outcome
  BY <1>2, <1>3, <1>4, <1>5, <1>9
<1>10. ASSUME NEW j \in EventsOf("MeasuredTrial")', NEW k \in EventsOf("MeasuredTrial")', j < k
       PROVE  phases'[j].ordinal < phases'[k].ordinal
  <2>1. CASE k = new
    <3>1. j \in EventsOf("MeasuredTrial")
      BY <1>4, <1>7, <1>10, <2>1
    <3> QED
      BY <1>2, <1>3, <1>5, <1>6, <2>1, <3>1
  <2>2. CASE k # new
    <3>1. j \in EventsOf("MeasuredTrial") /\ k \in EventsOf("MeasuredTrial")
      BY <1>4, <1>5, <1>10, <2>2
    <3> QED
      BY <1>5, <1>10, <3>1 DEF Sound
  <2> QED
    BY <2>1, <2>2
<1> QED
  BY <1>8, <1>9, <1>10 DEF Sound

(* A trial ends: its record is added with the outcome of its event. *)
LEMMA TrialStaged ==
  ASSUME TimelineTyped, LastOpen, trials \in Seq(TrialRecord), Sound, AllCompleted,
         LastEvent.kind = "MeasuredTrial",
         NEW result \in TrialStatuses, NEW failure, Finish(result, failure),
         trials' = Append(trials, [id |-> Len(trials) + 1, terminal |-> result])
  PROVE  Sound' /\ Len(trials') = Len(trials) + 1 /\ (result = "Completed" => AllCompleted')
<1> DEFINE last == Len(phases)
           record == [id |-> Len(trials) + 1, terminal |-> result]
<1>1. Len(trials) \in Nat /\ DOMAIN trials = 1 .. Len(trials)
  BY LenProperties
<1>2. record \in TrialRecord /\ record.id = Len(trials) + 1 /\ record.terminal = result
  BY <1>1 DEF TrialRecord
<1> HIDE DEF record
<1>3. /\ trials' \in Seq(TrialRecord) /\ Len(trials') = Len(trials) + 1
      /\ trials'[Len(trials) + 1] = record
      /\ \A n \in DOMAIN trials : trials'[n] = trials[n]
      /\ DOMAIN trials' = 1 .. (Len(trials) + 1)
  <2>1. trials' = Append(trials, record)
    BY DEF record
  <2>2. trials' \in Seq(TrialRecord) /\ Len(trials') = Len(trials) + 1
        /\ trials'[Len(trials) + 1] = record
        /\ \A n \in 1 .. Len(trials) : trials'[n] = trials[n]
    BY <1>2, <2>1, AppendProperties
  <2> QED
    BY <1>1, <2>2, LenProperties
<1>4. /\ last \in DOMAIN phases /\ DOMAIN phases' = DOMAIN phases
      /\ phases'[last] = Event(phases[last].kind, phases[last].ordinal, result, failure)
      /\ \A k \in DOMAIN phases : k # last => phases'[k] = phases[k]
      /\ \A k \in DOMAIN phases : phases[k].outcome = "Open" <=> k = last
  BY FinishedEvent DEF LastOpen
<1>5. LastEvent = phases[last]
  BY DEF LastEvent
<1> HIDE DEF last
<1>6. /\ phases'[last].kind = phases[last].kind /\ phases'[last].outcome = result
      /\ phases'[last].ordinal = phases[last].ordinal
  BY <1>4 DEF Event
<1>7. result # "Open"
  BY DEF TrialStatuses
<1>8. EventsOf("MeasuredTrial")' = EventsOf("MeasuredTrial") /\ last \in EventsOf("MeasuredTrial")
  BY <1>4, <1>5, <1>6 DEF EventsOf
<1>9. \A k \in EventsOf("MeasuredTrial") : phases'[k].ordinal = phases[k].ordinal
  BY <1>4, <1>6 DEF EventsOf
<1>10. phases[last].ordinal = Len(trials) + 1
  BY <1>4, <1>8 DEF Sound
<1>11. ASSUME NEW n \in DOMAIN trials'
       PROVE  /\ trials'[n].id = n
              /\ n < Len(trials') => trials'[n].terminal = "Completed"
              /\ result = "Completed" => trials'[n].terminal = "Completed"
  <2>1. CASE n = Len(trials) + 1
    BY <1>1, <1>2, <1>3, <2>1
  <2>2. CASE n # Len(trials) + 1
    <3>1. n \in DOMAIN trials
      BY <1>1, <1>3, <2>2
    <3> QED
      BY <1>3, <3>1 DEF Sound, AllCompleted
  <2> QED
    BY <2>1, <2>2
<1>12. ASSUME NEW k \in EventsOf("MeasuredTrial")
       PROVE  /\ phases'[k].outcome # "Open"
              /\ phases'[k].ordinal \in DOMAIN trials'
              /\ trials'[phases'[k].ordinal].terminal = phases'[k].outcome
  <2>1. CASE k = last
    <3>1. phases'[k].ordinal = Len(trials) + 1 /\ phases'[k].outcome = result
      BY <1>6, <1>10, <2>1
    <3> QED
      BY <1>1, <1>2, <1>3, <1>7, <3>1
  <2>2. CASE k # last
    <3>1. k \in DOMAIN phases /\ phases'[k] = phases[k] /\ phases[k].outcome # "Open"
      BY <1>4, <2>2 DEF EventsOf
    <3>2. phases[k].ordinal \in DOMAIN trials /\ trials[phases[k].ordinal].terminal = phases[k].outcome
      BY <3>1 DEF Sound
    <3> QED
      BY <1>1, <1>3, <3>1, <3>2
  <2> QED
    BY <2>1, <2>2
<1>13. Sound'
  <2>1. \A j, k \in EventsOf("MeasuredTrial") : j < k => phases'[j].ordinal < phases'[k].ordinal
    BY <1>9 DEF Sound
  <2> QED
    BY <1>8, <1>11, <1>12, <2>1 DEF Sound
<1> QED
  BY <1>3, <1>11, <1>13 DEF AllCompleted

Results == Len(trials)

DiagnosticStages == {"diagnosingPre", "diagnosingPost"}

OtherStages == OpenStages \ Trialling

(* The timeline and the records agree on the trials, and a run that would    *)
(* be reported as completed has nothing else in its timeline.                *)
EvidenceInv ==
  /\ pc \in Trialling => LastEvent.kind = "MeasuredTrial"
  /\ pc \in DiagnosticStages => LastEvent.kind \in DiagnosticKinds
  /\ pc \in OtherStages => LastEvent.kind # "MeasuredTrial"
  /\ status = "Completed" => cleanup = {} /\ ~ drainFailed /\ CleanTimeline
  /\ stagingError = None =>
       /\ Sound
       /\ pc \notin Trialling => Results = Count("MeasuredTrial")
       /\ pc \in Trialling => Results + 1 = Count("MeasuredTrial")
       /\ pc \notin Ending \cup {"done"} => AllCompleted

(* What the sections before and after the trials do to the evidence. *)
LEMMA Kept ==
  ASSUME UNCHANGED phases
  PROVE  SameTally /\ LastEvent' = LastEvent /\ (CleanTimeline => CleanTimeline')
         /\ (UNCHANGED trials => Results' = Results /\ (Sound => Sound') /\ (AllCompleted => AllCompleted'))
  BY TallyKept, EvidenceKept DEF Results, AllCompleted

LEMMA Begun ==
  ASSUME TimelineInv, NEW kind \in PhaseKinds, NEW ordinal \in Nat, Begin(kind, ordinal),
         UNCHANGED trials
  PROVE  /\ OneMore(kind) /\ LastEvent'.kind = kind
         /\ CleanTimeline => CleanTimeline'
         /\ Results' = Results /\ (AllCompleted => AllCompleted')
         /\ kind # "MeasuredTrial" /\ Sound => Sound'
  BY TallyBegun, EvidenceBegun DEF Results, AllCompleted, TimelineInv

LEMMA Closed ==
  ASSUME TimelineInv, NEW kind \in PhaseKinds, kind # "MeasuredTrial",
         NEW failure \in FailureCategories \cup {None}, NEW result \in PhaseOutcomes,
         phases' = Append(phases, Event(kind, 0, result, failure)), UNCHANGED trials
  PROVE  /\ OneMore(kind)
         /\ result = "Completed" /\ CleanTimeline => CleanTimeline'
         /\ Results' = Results /\ (AllCompleted => AllCompleted')
         /\ Sound => Sound'
<1> DEFINE event == Event(kind, 0, result, failure)
<1>1. event \in PhaseEvent /\ event.kind = kind /\ event.outcome = result
      /\ phases' = Append(phases, event)
  BY DEF Event, PhaseEvent
<1> HIDE DEF event
<1> USE DEF TimelineInv
<1>2. result = "Completed" /\ CleanTimeline => CleanTimeline'
  BY <1>1, EvidenceAppended
<1>3. Sound => Sound'
  BY <1>1, EvidenceAppended
<1> QED
  BY <1>2, <1>3, TallyClosed DEF Results, AllCompleted

LEMMA Finished ==
  ASSUME TimelineInv, pc \in OpenStages, NEW result, NEW failure, Finish(result, failure),
         UNCHANGED trials
  PROVE  /\ SameTally
         /\ result = "Completed" \/ LastEvent.kind \in DiagnosticKinds =>
              (CleanTimeline => CleanTimeline')
         /\ Results' = Results /\ (AllCompleted => AllCompleted')
         /\ LastEvent.kind # "MeasuredTrial" /\ Sound => Sound'
  BY TallyFinished, EvidenceFinished DEF Results, AllCompleted, TimelineInv

(* Inside a trial the next record is the one of this trial. *)
LEMMA TrialNumber ==
  ASSUME FieldsTyped, VerdictInv, ProgressInv, EvidenceInv, pc \in Trialling
  PROVE  stagingError = None /\ Sound /\ AllCompleted /\ at = Len(trials) + 1
<1>1. stagingError = None
  BY DEF VerdictInv, CleanStages, Clean, Trialling
<1>2. Len(trials) \in Nat /\ at \in Nat
  BY LenProperties DEF FieldsTyped
<1>3. Len(trials) + 1 = Count("MeasuredTrial") /\ Sound /\ AllCompleted
  BY <1>1 DEF EvidenceInv, Results, Trialling, Ending, CleaningStages, SealingStages
<1>4. Count("MeasuredTrial") = at
  BY DEF ProgressInv, Tally
<1> QED
  BY <1>1, <1>2, <1>3, <1>4

LEMMA TrialEnded ==
  ASSUME FieldsTyped, TimelineInv, VerdictInv, ProgressInv, EvidenceInv, pc \in Trialling,
         NEW result \in TrialStatuses, NEW failure, Finish(result, failure),
         trials' = Append(trials, [id |-> at, terminal |-> result])
  PROVE  /\ Sound' /\ Results' = Count("MeasuredTrial")'
         /\ result = "Completed" => AllCompleted' /\ (CleanTimeline => CleanTimeline')
<1>1. Sound /\ AllCompleted /\ at = Len(trials) + 1
  BY TrialNumber
<1>2. TimelineTyped /\ LastOpen /\ LastEvent.kind = "MeasuredTrial"
  BY DEF TimelineInv, OpenStages, Trialling, EvidenceInv
<1>3. Sound' /\ Len(trials') = Len(trials) + 1 /\ (result = "Completed" => AllCompleted')
  BY <1>1, <1>2, TrialStaged DEF FieldsTyped
<1>4. Count("MeasuredTrial")' = Count("MeasuredTrial") /\ Count("MeasuredTrial") = at
  BY <1>2, CountFinished DEF ProgressInv, Tally
<1>5. result = "Completed" => (CleanTimeline => CleanTimeline')
  BY <1>2, EvidenceFinished
<1> QED
  BY <1>1, <1>3, <1>4, <1>5 DEF Results

(* A trial that ends in failure leaves its record or a staging error. *)
LEMMA TrialFailed ==
  ASSUME FieldsTyped, TimelineInv, VerdictInv, ProgressInv, EvidenceInv, pc \in Trialling,
         NEW result \in TrialStatuses, NEW failure, Finish(result, failure),
         StageTrial(result), status' # "Completed", pc' = "drain"
  PROVE  EvidenceInv'
<1>1. stagingError' = None => Sound' /\ Results' = Count("MeasuredTrial")'
  BY TrialEnded DEF StageTrial, None
<1> QED
  BY <1>1 DEF EvidenceInv, Trialling, DiagnosticStages, OtherStages, OpenStages, Ending,
              CleaningStages

LEMMA AdmissionLedger ==
  ASSUME FieldsTyped, TimelineInv, VerdictInv, ProgressInv, EvidenceInv, Refuse \/ Admit \/ Cancel
  PROVE  EvidenceInv'
<1> USE DEF Goto, Trialling, EvidenceInv, OtherStages, OpenStages, DiagnosticStages, DiagnosticKinds,
            Ending, CleaningStages, SealingStages, telemetry, verdict, ledger, SameTally, OneMore
<1>1. CASE Refuse
  BY <1>1, Kept DEF Refuse
<1>2. CASE Admit
  BY <1>2, Kept DEF Admit
<1>3. CASE Cancel
  BY <1>3, Kept DEF Cancel
<1> QED
  BY <1>1, <1>2, <1>3

LEMMA ProbeLedger ==
  ASSUME FieldsTyped, TimelineInv, VerdictInv, ProgressInv, EvidenceInv, Probe
  PROVE  EvidenceInv'
<1> USE DEF Goto, Trialling, EvidenceInv, OtherStages, OpenStages, DiagnosticStages, DiagnosticKinds,
            Ending, CleaningStages, SealingStages, telemetry, verdict, ledger, SameTally, OneMore
<1>1. ASSUME NEW stage \in {"probeExternal", "probeManaged"}, NEW managed \in BOOLEAN,
             ProbeSkip(stage, managed)
      PROVE  EvidenceInv'
  BY <1>1, Kept DEF ProbeSkip, AtProbe
<1>2. ASSUME NEW stage \in {"probeExternal", "probeManaged"}, NEW managed \in BOOLEAN,
             ProbeSucceeds(stage, managed)
      PROVE  EvidenceInv'
  BY <1>2, Kept DEF ProbeSucceeds, AtProbe
<1>3. ASSUME NEW stage \in {"probeExternal", "probeManaged"}, NEW managed \in BOOLEAN,
             OptionalProbeFails(stage, managed)
      PROVE  EvidenceInv'
  BY <1>3, Kept DEF OptionalProbeFails, AtProbe
<1>4. ASSUME NEW stage \in {"probeExternal", "probeManaged"}, NEW managed \in BOOLEAN,
             ProbeEnds(stage, managed)
      PROVE  EvidenceInv'
  BY <1>4, Kept DEF ProbeEnds, AtProbe
<1>5. CASE RequiredExternalFails
  BY <1>5, Kept DEF RequiredExternalFails
<1>6. CASE RequiredManagedFails
  BY <1>6, Kept DEF RequiredManagedFails, Fail
<1> QED
  BY <1>1, <1>2, <1>3, <1>4, <1>5, <1>6 DEF Probe

LEMMA StartupLedger ==
  ASSUME FieldsTyped, TimelineInv, VerdictInv, ProgressInv, EvidenceInv, Startup
  PROVE  EvidenceInv'
<1> USE DEF Goto, Trialling, EvidenceInv, OtherStages, OpenStages, DiagnosticStages, DiagnosticKinds,
            Ending, CleaningStages, SealingStages, telemetry, verdict, ledger, SameTally, OneMore
<1>1. CASE StartupBegin
  BY <1>1, Begun, Closed DEF StartupBegin, PhaseKinds, PhaseOutcomes,
              FailureCategories, Fail
<1>2. CASE StartupSucceeds
  BY <1>2, Finished DEF StartupSucceeds
<1>3. CASE StartupFails
  BY <1>3, Kept DEF StartupFails
<1>4. CASE StartupBlames
  BY <1>4, Finished DEF StartupBlames, VerdictInv, CleanStages, Clean
<1> QED
  BY <1>1, <1>2, <1>3, <1>4 DEF Startup

LEMMA DiagnoseLedger ==
  ASSUME FieldsTyped, TimelineInv, VerdictInv, ProgressInv, EvidenceInv, Diagnose
  PROVE  EvidenceInv'
<1> USE DEF Goto, Trialling, EvidenceInv, OtherStages, OpenStages, DiagnosticStages, DiagnosticKinds,
            Ending, CleaningStages, SealingStages, telemetry, verdict, ledger, SameTally, OneMore
<1>1. ASSUME NEW slot \in {"Pre", "Post"},
             DiagnosticsEnd(slot)
      PROVE  EvidenceInv'
  BY <1>1, Kept DEF DiagnosticsEnd, IdleStage, DiagnosticsOver, GotoIfHealthy,
              Healthy
<1>2. ASSUME NEW slot \in {"Pre", "Post"},
             DiagnosticSkip(slot)
      PROVE  EvidenceInv'
  BY <1>2, Kept DEF DiagnosticSkip, IdleStage, DiagnosticsOver
<1>3. ASSUME NEW slot \in {"Pre", "Post"},
             DiagnosticCancelled(slot)
      PROVE  EvidenceInv'
  BY <1>3, Kept DEF DiagnosticCancelled, IdleStage, DiagnosticsOver, Fail
<1>4. ASSUME NEW slot \in {"Pre", "Post"},
             DiagnosticBegin(slot)
      PROVE  EvidenceInv'
  BY <1>4, Begun DEF DiagnosticBegin, IdleStage, BusyStage, DiagnosticsOver,
              PhaseKinds
<1>5. ASSUME NEW slot \in {"Pre", "Post"},
             DiagnosticUnstaged(slot)
      PROVE  EvidenceInv'
  BY <1>5, Finished DEF DiagnosticUnstaged, BusyStage, None
<1>6. ASSUME NEW slot \in {"Pre", "Post"}, NEW answer \in DiagnosticAnswers,
             DiagnosticDone(slot, answer)
      PROVE  EvidenceInv'
  BY <1>6, Finished DEF DiagnosticDone, IdleStage, BusyStage, Fail, Settle
<1> QED
  BY <1>1, <1>2, <1>3, <1>4, <1>5, <1>6 DEF Diagnose

LEMMA CheckLedger ==
  ASSUME FieldsTyped, TimelineInv, VerdictInv, ProgressInv, EvidenceInv, Check
  PROVE  EvidenceInv'
<1> USE DEF Goto, Trialling, EvidenceInv, OtherStages, OpenStages, DiagnosticStages, DiagnosticKinds,
            Ending, CleaningStages, SealingStages, telemetry, verdict, ledger, SameTally, OneMore
<1>1. ASSUME NEW loop \in {"check", "corpus"},
             ChecksEnd(loop)
      PROVE  EvidenceInv'
  BY <1>1, Kept DEF ChecksEnd, CheckLoops, GotoIfHealthy, Healthy
<1>2. ASSUME NEW loop \in {"check", "corpus"},
             CheckCancelled(loop)
      PROVE  EvidenceInv'
  BY <1>2, Kept DEF CheckCancelled, CheckLoops, LeaveChecks, Fail
<1>3. ASSUME NEW loop \in {"check", "corpus"},
             CheckBegin(loop)
      PROVE  EvidenceInv'
  BY <1>3, Begun DEF CheckBegin, CheckLoops, PhaseKinds
<1>4. ASSUME NEW loop \in {"check", "corpus"},
             CheckUnstaged(loop)
      PROVE  EvidenceInv'
  BY <1>4, Finished DEF CheckUnstaged, CheckLoops, LeaveChecks, None
<1>5. ASSUME NEW loop \in {"check", "corpus"},
             CheckErrs(loop)
      PROVE  EvidenceInv'
  BY <1>5, Finished DEF CheckErrs, CheckLoops, LeaveChecks, Fail
<1>6. CASE CheckObserved
  BY <1>6, Finished DEF CheckObserved, Fail, Settle
<1>7. CASE CorpusObserved
  BY <1>7, Finished DEF CorpusObserved
<1>8. CASE CorpusInvalid
  BY <1>8, Finished DEF CorpusInvalid, CheckLoops, LeaveChecks, Fail
<1>9. DOMAIN CheckLoops = {"check", "corpus"}
  BY DEF CheckLoops
<1> QED
  BY <1>1, <1>2, <1>3, <1>4, <1>5, <1>6, <1>7, <1>8, <1>9 DEF Check

LEMMA WarmupLedger ==
  ASSUME FieldsTyped, TimelineInv, VerdictInv, ProgressInv, EvidenceInv, Warmup
  PROVE  EvidenceInv'
<1> USE DEF Goto, Trialling, EvidenceInv, OtherStages, OpenStages, DiagnosticStages, DiagnosticKinds,
            Ending, CleaningStages, SealingStages, telemetry, verdict, ledger, SameTally, OneMore
<1>1. CASE WarmupsEnd
  BY <1>1, Kept DEF WarmupsEnd, GotoIfHealthy, Healthy, VerdictInv,
              CleanStages, Clean
<1>2. CASE WarmupBegin
  BY <1>2, Begun DEF WarmupBegin, PhaseKinds, FieldsTyped
<1>3. CASE WarmupDone
  BY <1>3, Finished DEF WarmupDone
<1>4. CASE WarmupUnstaged
  BY <1>4, Finished DEF WarmupUnstaged, None
<1>5. CASE WarmupFails
  BY <1>5, Finished DEF WarmupFails, Fail, StatusFor, None
<1> QED
  BY <1>1, <1>2, <1>3, <1>4, <1>5 DEF Warmup

LEMMA TrialLedger ==
  ASSUME FieldsTyped, TimelineInv, VerdictInv, ProgressInv, EvidenceInv, Trial
  PROVE  EvidenceInv'
<1> USE DEF Goto, Trialling, EvidenceInv, OtherStages, OpenStages, DiagnosticStages, DiagnosticKinds,
            Ending, CleaningStages, SealingStages, telemetry, verdict, ledger, SameTally, OneMore
<1>1. CASE TrialCancelled
  BY <1>1, Kept DEF TrialCancelled, Fail
<1>2. CASE TrialBegin
  <2>1. pc = "trial" /\ Begin("MeasuredTrial", at) /\ UNCHANGED <<trials, stagingError, status, cleanup, drainFailed>>
        /\ pc' = "opening"
    BY <1>2 DEF TrialBegin
  <2>2. stagingError = None
    BY <2>1 DEF VerdictInv, CleanStages, Clean
  <2>3. Len(trials) \in Nat /\ at \in Nat \ {0} /\ trials \in Seq(TrialRecord)
    BY LenProperties DEF FieldsTyped
  <2>4. at = Len(trials) + 1
    <3>1. Len(trials) = Count("MeasuredTrial")
      BY <2>1, <2>2 DEF Results
    <3>2. Count("MeasuredTrial") = at - 1
      BY <2>1 DEF ProgressInv, Tally
    <3> QED
      BY <2>3, <3>1, <3>2
  <2>5. Sound'
    BY <2>1, <2>2, <2>3, <2>4, TrialBegun DEF TimelineInv, IdleStages
  <2>6. /\ OneMore("MeasuredTrial") /\ LastEvent'.kind = "MeasuredTrial"
        /\ CleanTimeline => CleanTimeline'
        /\ Results' = Results /\ (AllCompleted => AllCompleted')
    BY <2>1, <2>3, Begun DEF PhaseKinds
  <2> QED
    BY <2>1, <2>2, <2>5, <2>6
<1>3. CASE WindowOpens
  BY <1>3, Kept DEF WindowOpens
<1>4. CASE WindowFails
  BY <1>4, TrialFailed DEF WindowFails, Fail, TrialStatuses
<1>5. CASE MeasureBegin
  BY <1>5, Kept DEF MeasureBegin
<1>6. CASE MeasureEnd
  BY <1>6, Kept DEF MeasureEnd
<1>7. CASE TrialSucceeds
  <2>1. /\ pc = "closing" /\ pc' = "between" /\ cleanup' = cleanup
        /\ UNCHANGED <<status, stagingError, drainFailed>>
    BY <1>7 DEF TrialSucceeds, StopWindows
  <2>2. /\ Sound' /\ Results' = Count("MeasuredTrial")' /\ AllCompleted'
        /\ CleanTimeline => CleanTimeline'
    BY <1>7, TrialEnded DEF TrialSucceeds, TrialStatuses
  <2> QED
    BY <2>1, <2>2
<1>8. CASE TrialUnstaged
  BY <1>8, Finished DEF TrialUnstaged, None
<1>9. CASE TrialUnobserved
  BY <1>9, TrialFailed DEF TrialUnobserved, Fail, TrialStatuses
<1>10. CASE TrialFails
  BY <1>10, TrialFailed DEF TrialFails, Fail, StatusFor, OutcomeFor, TrialStatuses
<1> QED
  BY <1>1, <1>2, <1>3, <1>4, <1>5, <1>6, <1>7, <1>8, <1>9, <1>10 DEF Trial

LEMMA BetweenLedger ==
  ASSUME FieldsTyped, TimelineInv, VerdictInv, ProgressInv, EvidenceInv, Between
  PROVE  EvidenceInv'
<1> USE DEF Goto, Trialling, EvidenceInv, OtherStages, OpenStages, DiagnosticStages, DiagnosticKinds,
            Ending, CleaningStages, SealingStages, telemetry, verdict, ledger, SameTally, OneMore
<1>1. CASE TrialsEnd
  BY <1>1, Kept DEF TrialsEnd
<1>2. CASE ResetBegin
  BY <1>2, Begun, Kept DEF ResetBegin, PhaseKinds, FieldsTyped
<1>3. CASE ResetDone
  BY <1>3, Finished DEF ResetDone
<1>4. CASE ResetFails
  BY <1>4, Finished DEF ResetFails, Fail, StatusFor
<1>5. CASE CooldownBegin
  BY <1>5, Begun, Kept DEF CooldownBegin, PhaseKinds, FieldsTyped
<1>6. CASE CooldownDone
  BY <1>6, Finished DEF CooldownDone
<1>7. CASE CooldownCancelled
  BY <1>7, Finished DEF CooldownCancelled, Fail
<1> QED
  BY <1>1, <1>2, <1>3, <1>4, <1>5, <1>6, <1>7 DEF Between

LEMMA CleanUpLedger ==
  ASSUME FieldsTyped, TimelineInv, VerdictInv, ProgressInv, EvidenceInv, CleanUp
  PROVE  EvidenceInv'
<1> USE DEF Goto, Trialling, EvidenceInv, OtherStages, OpenStages, DiagnosticStages, DiagnosticKinds,
            Ending, CleaningStages, SealingStages, telemetry, verdict, ledger, SameTally, OneMore
<1>1. CASE DrainBegin
  BY <1>1, Begun DEF DrainBegin, PhaseKinds
<1>2. CASE DrainEnd
  <2>1. PICK answer \in DOMAIN DrainAnswers :
          /\ Finish(DrainAnswers[answer].outcome, DrainAnswers[answer].failure)
          /\ drainFailed' = (answer # "ok")
          /\ answer = "ok" => status' = status \/ status' = "Cancelled"
          /\ answer # "ok" => status' # "Completed"
    BY <1>2 DEF DrainEnd, Fail, Settle
  <2>2. answer = "ok" => DrainAnswers[answer].outcome = "Completed"
    BY DEF DrainAnswers, Event
  <2>3. /\ pc = "draining" /\ pc' = "telemetryDrain"
        /\ UNCHANGED <<trials, stagingError, cleanup>>
    BY <1>2 DEF DrainEnd
  <2>4. /\ SameTally /\ Results' = Results
        /\ Sound => Sound'
        /\ answer = "ok" => (CleanTimeline => CleanTimeline')
    BY <2>1, <2>2, <2>3, Finished
  <2> QED
    BY <2>1, <2>3, <2>4
<1>3. CASE TelemetryDrainBegin
  BY <1>3, Begun, Kept DEF TelemetryDrainBegin, PhaseKinds
<1>4. CASE TelemetryDrainSucceeds
  BY <1>4, Finished DEF TelemetryDrainSucceeds, Fail, Settle
<1>5. CASE TelemetryDrainFails
  BY <1>5, Finished DEF TelemetryDrainFails, Fail
<1>6. CASE TeardownBegin
  BY <1>6, Begun DEF TeardownBegin, PhaseKinds
<1>7. CASE NothingToTearDown
  BY <1>7, Finished DEF NothingToTearDown
<1>8. CASE TeardownEnd
  BY <1>8, Finished DEF TeardownEnd, Fail, Settle
<1> QED
  BY <1>1, <1>2, <1>3, <1>4, <1>5, <1>6, <1>7, <1>8 DEF CleanUp

LEMMA SealLedger ==
  ASSUME FieldsTyped, TimelineInv, VerdictInv, ProgressInv, EvidenceInv, Seal
  PROVE  EvidenceInv'
<1> USE DEF Goto, Trialling, EvidenceInv, OtherStages, OpenStages, DiagnosticStages, DiagnosticKinds,
            Ending, CleaningStages, SealingStages, telemetry, verdict, ledger, SameTally, OneMore
<1>1. CASE StageEvidence
  BY <1>1, Kept DEF StageEvidence
<1>2. CASE Finalize
  BY <1>2, Closed DEF Finalize, PhaseKinds, PhaseOutcomes, FailureCategories
<1>3. CASE Publish
  BY <1>3, Kept DEF Publish
<1>4. CASE PublishFails
  BY <1>4, Kept DEF PublishFails
<1> QED
  BY <1>1, <1>2, <1>3, <1>4 DEF Seal

-----------------------------------------------------------------------------
(***************************************************************************)
(* All of it together is inductive.                                        *)
(***************************************************************************)
AccountInv == ControlInv /\ CancelInv /\ BudgetInv /\ ProgressInv /\ EvidenceInv

LEMMA InitAccount == Init => AccountInv
<1> SUFFICES ASSUME Init PROVE AccountInv
  OBVIOUS
<1>1. pc = "admission" /\ phases = <<>> /\ trials = <<>> /\ services = "idle" /\ cancelledAt = None
  BY DEF Init
<1>2. CancelInv
  BY <1>1 DEF CancelInv, SealingStages, CleanedUp, None
<1>3. BudgetInv
  BY <1>1 DEF BudgetInv, HasAtMost, Length, Trialling
<1>4. \A kind : EventsOf(kind) = {}
  BY <1>1 DEF EventsOf
<1>5. Tally(0, 0, 0, 0)
  BY <1>4, FS_EmptySet DEF Tally, Count
<1>6. ProgressInv
  BY <1>1, <1>5 DEF Init, ProgressInv, Trialling, Over, Ending, CleaningStages, SealingStages, None
<1>7. Sound /\ AllCompleted /\ CleanTimeline /\ Results = 0
  BY <1>1, <1>4 DEF Sound, AllCompleted, CleanTimeline, Results
<1>8. EvidenceInv
  BY <1>1, <1>5, <1>7 DEF Init, EvidenceInv, Tally, Trialling, OtherStages, OpenStages, DiagnosticStages
<1> QED
  BY <1>2, <1>3, <1>6, <1>8, InitControl DEF AccountInv

LEMMA NextAccount == AccountInv /\ [Next]_vars => AccountInv'
<1> SUFFICES ASSUME AccountInv, [Next]_vars PROVE AccountInv'
  OBVIOUS
<1>1. ControlInv'
  BY NextControl DEF AccountInv
<1>2. LoopInv
  BY DEF AccountInv, BudgetInv, LoopInv
<1> USE <1>1, <1>2 DEF AccountInv, ControlInv, IInv, TimelineInv
<1>3. CASE Refuse \/ Admit \/ Cancel
  BY <1>3, AdmissionCancellation, AdmissionBudget, AdmissionProgress, AdmissionLedger
<1>4. CASE Probe
  BY <1>4, ProbeCancellation, ProbeBudget, ProbeProgress, ProbeLedger
<1>5. CASE Startup
  BY <1>5, StartupCancellation, StartupBudget, StartupProgress, StartupLedger
<1>6. CASE Diagnose
  BY <1>6, DiagnoseCancellation, DiagnoseBudget, DiagnoseProgress, DiagnoseLedger
<1>7. CASE Check
  BY <1>7, CheckCancellation, CheckBudget, CheckProgress, CheckLedger
<1>8. CASE Warmup
  BY <1>8, WarmupCancellation, WarmupBudget, WarmupProgress, WarmupLedger
<1>9. CASE Trial
  BY <1>9, TrialCancellation, TrialBudget, TrialProgress, TrialLedger
<1>10. CASE Between
  BY <1>10, BetweenCancellation, BetweenBudget, BetweenProgress, BetweenLedger
<1>11. CASE CleanUp
  BY <1>11, CleanUpCancellation, CleanUpBudget, CleanUpProgress, CleanUpLedger
<1>12. CASE Seal
  BY <1>12, SealCancellation, SealBudget, SealProgress, SealLedger
<1>13. CASE UNCHANGED vars
  <2> USE <1>13 DEF vars, verdict, ledger, telemetry
  <2>1. CancelInv'
    BY DEF CancelInv, CancelledWithin, DrainedQuietly, TooLate
  <2>2. BudgetInv'
    BY LenSame DEF BudgetInv, HasAtMost
  <2>3. ProgressInv'
    BY TallyKept DEF ProgressInv, Tally, SameTally, Over
  <2>4. EvidenceInv'
    BY Kept DEF EvidenceInv, SameTally
  <2> QED
    BY <2>1, <2>2, <2>3, <2>4
<1> QED
  BY <1>3, <1>4, <1>5, <1>6, <1>7, <1>8, <1>9, <1>10, <1>11, <1>12, <1>13 DEF Next, Run

LEMMA SpecAccount == Spec => []AccountInv
  BY InitAccount, NextAccount, PTL DEF Spec

(* For every plan, a run that is published as completed was cancelled after *)
(* the last section that looks at the token, or not at all.                 *)
THEOREM CancellationIsHonoured == Spec => []CancellationHonoured
<1>1. AccountInv => CancellationHonoured
  BY DEF AccountInv, ProgressInv, CancelInv, CancelledWithin, CancellationHonoured, Published, None
<1> QED
  BY <1>1, SpecAccount, PTL

(* For every plan, the timeline keeps the bound the run was admitted under. *)
THEOREM BudgetIsKept == Spec => []PhaseBudget
<1>1. AccountInv => PhaseBudget
  <2> SUFFICES ASSUME AccountInv PROVE PhaseBudget
    OBVIOUS
  <2>1. pc \in Stages /\ at \in Nat \ {0} /\ Length \in Nat
    BY LenProperties DEF AccountInv, ControlInv, IInv, FieldsTyped, TimelineInv, TimelineTyped, Length
  <2>2. Length <= AfterTrials + 4 + All("Post")
    <3>1. /\ Upto("Pre", at - 1) <= All("Pre") /\ Upto("Pre", at) <= All("Pre")
          /\ Upto("Post", at - 1) <= All("Post") /\ Upto("Post", at) <= All("Post")
          /\ Upto("Pre", at - 1) \in Nat /\ Upto("Pre", at) \in Nat
          /\ Upto("Post", at - 1) \in Nat /\ Upto("Post", at) \in Nat
      BY <2>1, UptoAt
    <3> QED
      BY <2>1, <3>1, Numbers DEF AccountInv, BudgetInv, HasAtMost, Stages, IdleStages, OpenStages, Trialling
  <2>3. AfterTrials + 4 + All("Post") = PhaseBound
    <3> DEFINE pre == All("Pre") post == All("Post") all == Len(Diagnostics)
               both == CountSlots({"Both"})
    <3>1. /\ pre \in Nat /\ post \in Nat /\ all \in Nat /\ both \in Nat
          /\ SecurityChecks \in Nat /\ CorpusChecks \in Nat /\ Warmups \in Nat /\ Trials \in Nat
      BY BothNat, BaseNat, PlanAssumption
    <3>2. AfterTrials = 1 + pre + SecurityChecks + CorpusChecks + Warmups + 3 * Trials - 2
      BY DEF AfterTrials, AfterWarmups, AfterChecks, AfterPre
    <3>3. PhaseBound = Warmups + 3 * Trials + 3 + all + both + SecurityChecks + CorpusChecks
      BY DEF PhaseBound
    <3>4. pre + post = all + both
      BY SlotsAddUp
    <3> HIDE DEF pre, post, all, both
    <3>5. AfterTrials + 4 + post = PhaseBound
      BY <3>1, <3>2, <3>3, <3>4
    <3> QED
      BY <3>5 DEF post
  <2> QED
    BY <2>2, <2>3 DEF Length, PhaseBudget
<1> QED
  BY <1>1, SpecAccount, PTL

(* For every plan, what is published tells the run: the manifest lists the  *)
(* measured trials with their outcomes, and a completion leaves nothing out. *)
THEOREM EvidenceIsTruthful == Spec => []EvidenceTruthful
<1>1. AccountInv => EvidenceTruthful
  <2> SUFFICES ASSUME AccountInv, Published PROVE EvidenceTruthful
    BY DEF EvidenceTruthful, TrialEvidence, CompletedMeansComplete
  <2>1. pc = "done" /\ stagingError = None /\ outcome # "refused"
    BY DEF AccountInv, ProgressInv, Published, None
  <2>2. Sound /\ Len(trials) = Count("MeasuredTrial")
    BY <2>1 DEF AccountInv, EvidenceInv, Trialling, Results
  <2>3. \A k \in DOMAIN phases : phases[k].outcome # "Open"
    BY <2>1, LenProperties DEF AccountInv, ControlInv, IInv, TimelineInv, TimelineTyped, IdleStages, AllClosed
  <2>4. TrialEvidence
    BY <2>2, <2>3 DEF TrialEvidence, Sound, EventsOf
  <2>5. CompletedMeansComplete
    <3> SUFFICES ASSUME status = "Completed" PROVE CompletedMeansComplete
      BY DEF CompletedMeansComplete
    <3>1. Tally(Warmups, Trials, ResetsAfter(Trials - 1), CooldownsAfter(Trials - 1))
      BY <2>1 DEF AccountInv, ProgressInv, Over
    <3>2. cleanup = {} /\ ~ drainFailed /\ CleanTimeline
      BY DEF AccountInv, EvidenceInv
    <3> QED
      BY <2>2, <2>3, <3>1, <3>2 DEF CompletedMeansComplete, Tally, ResetsAfter, CooldownsAfter,
                                    CleanTimeline, DiagnosticKinds
  <2> QED
    BY <2>4, <2>5 DEF EvidenceTruthful
<1> QED
  BY <1>1, SpecAccount, PTL

=============================================================================
