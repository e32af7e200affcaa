----------------------------- MODULE Comparison -----------------------------
(***************************************************************************)
(* `eggbench compare`: from loaded inputs to a verdict and an exit code    *)
(* (crates/eggbench-core/src/comparison.rs and                             *)
(* crates/eggbench-cli/src/commands/compare.rs).  The candidate is what    *)
(* ComparisonInput.tla loads; a baseline is any other bundle that loads.   *)
(*                                                                         *)
(* A positive value is the power of two it has as its exponent, so that    *)
(* geometric means and degradations are sums and differences of exponents; *)
(* a bootstrap interval lies anywhere between the least and the greatest   *)
(* effect its resamples can have.  Abstracted: the wording of the receipt, *)
(* its identities and seeds, and estimates nothing is decided by.          *)
(***************************************************************************)
EXTENDS ComparisonInput

CONSTANTS
  Requests,         \* metric requests of a plan
  Unpaired,         \* measured trials of an unpaired run
  Paired,           \* those of a paired run, in trial order
  Differences,      \* what a baseline differs from the candidate in
  MaxMetrics,       \* metrics of a plan, at most
  MaxExponent,      \* of a finite value; its negation is the least one
  MinObservations,  \* MIN_OBSERVATIONS_PER_SIDE
  Recommended       \* RECOMMENDED_OBSERVATIONS_PER_SIDE

Request ==
  [intent : {"Primary", "Diagnostic"}, gate : {None, "Absolute", "Relative", "Statistical"},
   direction : {"Lower", "Higher", "TargetRange"}, limit : Nat, minTrials : Nat]

(* One trial's observation of the metric at hand: positive with an         *)
(* exponent, or zero, or one of two kinds of none.                         *)
Zero == -MaxExponent - 1
Missing == -MaxExponent - 2
Absent == -MaxExponent - 3
Observation ==
  [metrics : BOOLEAN, completed : BOOLEAN, unit : BOOLEAN, aggregation : {1, 2},
   value : Absent .. MaxExponent]

(* validate_metrics of crates/eggbench-core/src/plan.rs: only a primary    *)
(* metric has a gate.                                                      *)
ASSUME RequestsAssumption ==
  Requests \subseteq {r \in Request : r.gate # None => r.intent = "Primary"}
ASSUME TrialsAssumption == Unpaired \cup Paired \subseteq Seq(Observation)
ASSUME BoundsAssumption == MaxMetrics \in Nat /\ MaxExponent \in Nat
ASSUME MinimumAssumption == 0 < MinObservations /\ MinObservations < Recommended

NoInput == [paired |-> FALSE]

VARIABLES
  mode,         \* the mode of the command: None until it starts
  candidate,    \* [paired, policy, correctness] of the candidate input
  baseline,     \* [paired, differs] of the baseline input
  metrics,      \* the records so far, with what they were made from
  warnings,
  verdict,      \* aggregate_verdict
  receipt,      \* the receipt file is written
  exit          \* the exit code

compareVars == <<mode, candidate, baseline, metrics, warnings, verdict, receipt, exit>>
vars == <<inputVars, compareVars>>

Init ==
  /\ InputInit
  /\ mode = None /\ candidate = NoInput /\ baseline = NoInput
  /\ metrics = <<>> /\ warnings = {}
  /\ verdict = None /\ receipt = FALSE /\ exit = None

(* What two inputs are compared in, and what they may differ in besides.   *)
Workload == {"workload", "replay"}
Context == {"diagnostics", "security"}
Driver == {"driver", "path"}
Topology == {"topology", "subject"}
Advisory == {"WarningOnly", "Informational", "revision", "results"}
ASSUME DifferencesAssumption ==
  Differences \subseteq
    SUBSET (Workload \cup Context \cup Driver \cup Topology \cup {"ComparisonCritical"} \cup Advisory)

(* The command line: which flags go together.                              *)
Mode(flags) ==
  CASE flags = {"paired"} -> "paired"
    [] flags = {"absolute"} -> "unpaired"
    [] flags = {"baseline"} -> "baseline"
    [] flags = {"alias"} -> "alias"
    [] OTHER -> None

Exit(code) == stage' = "done" /\ exit' = code

(* The process that compares has nothing of the run but the input.         *)
Forget ==
  /\ plan' = NoPlan /\ status' = None /\ cancelled' = FALSE /\ at' = 0
  /\ executions' = <<>> /\ results' = <<>> /\ corpus' = <<>> /\ replayed' = FALSE
  /\ evidence' = {} /\ index' = [version |-> None, scope |-> None]
  /\ records' = <<>> /\ error' = None

Start ==
  /\ stage \in {"loaded", "refused"} /\ mode = None
  /\ \E flags \in SUBSET {"paired", "absolute", "baseline", "alias"} :
     \E policy \in {"strict", "warn", "cross"} :
       /\ mode' = Mode(flags)
       /\ IF mode' = None THEN Exit("Internal") /\ UNCHANGED candidate
          ELSE IF stage = "refused" THEN Exit("EvidenceIo") /\ UNCHANGED candidate
          ELSE /\ candidate' = [paired |-> plan.paired, policy |-> policy, correctness |-> Correctness]
               /\ stage' = IF mode' \in {"baseline", "alias"} THEN "baseline" ELSE "metrics"
               /\ UNCHANGED exit
  /\ Forget
  /\ UNCHANGED <<baseline, metrics, warnings, verdict, receipt>>

(* load_baseline_bundle and load_baseline_alias, which pins a digest.      *)
LoadBaseline ==
  /\ stage = "baseline"
  /\ \/ Exit("EvidenceIo") /\ UNCHANGED baseline
     \/ mode = "alias" /\ Exit("ParseValidation") /\ UNCHANGED baseline
     \/ \E paired \in BOOLEAN, differs \in Differences :
          /\ baseline' = [paired |-> paired, differs |-> differs]
          /\ stage' = "metrics" /\ UNCHANGED exit
  /\ mode' = "unpaired"
  /\ UNCHANGED <<plan, at, run, bundle, records, error, candidate, metrics, warnings,
                 verdict, receipt>>

(* compare_workload, compare_driver with its parts, compare_topology: what *)
(* both sides declare and what their evidence shows of it.                 *)
Same(fields) == baseline.differs \cap fields = {}
WorkloadMatch == Same(Workload)
ContextMatch == Same(Context)
DriverMatch == Same(Driver) /\ ContextMatch
TopologyMatch == Same(Topology)

(* evaluate_comparability.  A paired comparison has one bundle on both     *)
(* sides.                                                                  *)
CriticalMismatch ==
  baseline # NoInput /\ ~(WorkloadMatch /\ DriverMatch /\ TopologyMatch /\ Same({"ComparisonCritical"}))
DescriptiveOnly == candidate.policy = "cross" \/ CriticalMismatch

Amount(v) == IF v = Zero THEN 0 ELSE 2 ^ (v + MaxExponent)
Total(f) == FoldFunction(+, 0, f)

(* Why a trial's observation does not count, in the order it is asked.     *)
Exclusion(o) ==
  CASE ~o.metrics -> "no_normalized_metrics"
    [] o.metrics /\ o.value = Absent -> "metric_not_requested"
    [] o.metrics /\ o.value # Absent /\ ~o.completed -> "trial_not_completed"
    [] o.metrics /\ o.completed /\ o.value = Missing -> "missing"
    [] OTHER -> None

(* select_trials: the values of the trials that count, by trial.           *)
Counted(trials) == {n \in DOMAIN trials : Exclusion(trials[n]) = None}
Selected(trials) == [n \in Counted(trials) |-> trials[n].value]

Observations(values) == Cardinality(DOMAIN values)
Positive(values) == DOMAIN values # {} /\ \A n \in DOMAIN values : values[n] # Zero

(* check_metric_semantics: the baseline's trials describe the requested    *)
(* metric, all alike.                                                      *)
Carriers(trials) == {k \in DOMAIN trials : trials[k].metrics /\ trials[k].value # Absent}
Semantics(trials) ==
  LET c == Carriers(trials) IN
  CASE \E k \in c : ~trials[k].unit -> "metric_semantics_mismatch"
    [] \E j, k \in c : trials[j].aggregation # trials[k].aggregation ->
         "baseline_metric_semantics_divergent"
    [] c = {} -> "baseline_metric_absent"
    [] OTHER -> None

(* Mutant of Oriented: higher is never better.                             *)
OrientedLower(direction, c, b) == c - b

(* The degradation of c against b, as a difference of exponents.           *)
Oriented(direction, c, b) == IF direction = "Lower" THEN c - b ELSE b - c

Record(disposition, reason) == [disposition |-> disposition, reason |-> reason]
Invalid(reason) == Record("Invalid", reason)

(* evaluate_absolute: the arithmetic mean against the limit.               *)
Absolute(request, values) ==
  LET n == Observations(values)
      sum == Total([k \in DOMAIN values |-> Amount(values[k])])
      limit == 2 ^ (request.limit + MaxExponent) * n
  IN
  CASE n = 0 \/ sum >= 2 ^ (2 * MaxExponent + 1) -> Invalid("no_valid_candidate_observations")
    [] n > 0 /\ request.direction = "TargetRange" -> Invalid("target_range_absolute_unsupported")
    [] OTHER -> Record(IF \/ request.direction = "Lower" /\ sum <= limit
                          \/ request.direction = "Higher" /\ sum >= limit
                       THEN "Pass" ELSE "Fail", None)

(* Twice the bounds of a 95% interval over resampled effects.              *)
Intervals(effects) == {i \in effects \X effects : i[1] <= i[2]}
ByInterval(interval, limit) ==
  IF interval[1] > limit THEN "Fail" ELSE IF interval[2] <= limit THEN "Pass" ELSE "Inconclusive"

(* The sum of exponents: the pairs of a trial and a step up from the least *)
(* exponent to its own, counted, less what each trial has below zero.      *)
Climbed(values) == UNION {{n} \X (1 .. values[n] + MaxExponent) : n \in DOMAIN values}
Exponents(values) == Cardinality(Climbed(values)) - MaxExponent * Observations(values)

(* The gate on the geometric means: nc * nb times their degradation        *)
(* against the limit.                                                      *)
RelativeRegression(request, c, b) ==
  LET n == Observations(c) * Observations(b)
      degradation ==
        Oriented(request.direction, Exponents(c) * Observations(b), Exponents(b) * Observations(c))
  IN  IF degradation > MaxExponent * n THEN Record("panic", None)
      ELSE Record(IF degradation <= request.limit * n THEN "Pass" ELSE "Fail", None)

(* The gate on an interval of resampled effects. *)
Required(request) == IF request.minTrials > MinObservations THEN request.minTrials ELSE MinObservations
Advice(n) == IF n < Recommended THEN "below_recommended" ELSE None

StatisticalRelative(request, c, b) ==
  LET least == IF Observations(c) < Observations(b) THEN Observations(c) ELSE Observations(b)
      effects == {Oriented(request.direction, c[p[1]], b[p[2]]) : p \in (DOMAIN c) \X (DOMAIN b)}
  IN  IF least < Required(request) THEN {Invalid("insufficient_trials")}
      ELSE {Record(ByInterval(i, request.limit), Advice(least)) : i \in Intervals(effects)}

(* evaluate_relative, for baseline trials the input has.                   *)
Relative(request, left, right) ==
  LET c == Selected(left)
      b == Selected(right)
      semantics == Semantics(right)
  IN
  IF baseline = NoInput THEN {Invalid("baseline_required")}
  ELSE IF semantics # None THEN {Invalid(semantics)}
  ELSE IF ~Positive(c) \/ ~Positive(b) THEN {Invalid("nonpositive_relative_value")}
  ELSE IF request.direction = "TargetRange" THEN {Invalid("unsupported_direction_for_relative_gate")}
  ELSE IF DescriptiveOnly
       THEN {IF candidate.policy = "strict" THEN Invalid("comparability_mismatch")
             ELSE Record("Descriptive", None)}
  ELSE IF request.gate = "Relative" THEN {RelativeRegression(request, c, b)}
  ELSE StatisticalRelative(request, c, b)

(* evaluate_metric; paired_rejection_record for a paired candidate.        *)
Unpair(request, left, right) ==
  IF candidate.paired THEN {Invalid("paired_evidence_requires_paired_comparison")}
  ELSE CASE request.gate = None -> {Record(None, None)}
         [] request.gate = "Absolute" -> {Absolute(request, Selected(left))}
         [] OTHER -> Relative(request, left, right)

(* Mutant of PairedAssignment: rounds down.                                *)
PairedAssignmentDown(n) ==
  [arm |-> IF n % 2 = 0 THEN "Candidate" ELSE "Baseline", pair |-> n \div 2]

(* paired_assignment of crates/eggbench-runner/src/orchestration.rs.       *)
PairedAssignment(n) ==
  [arm |-> IF n % 2 = 0 THEN "Candidate" ELSE "Baseline", pair |-> (n + 1) \div 2]

(* select_pairs: the trials of an arm that count, and the pairs both of    *)
(* whose trials do, as trial numbers.                                      *)
Arm(trials, arm) ==
  {n \in DOMAIN trials : PairedAssignment(n).arm = arm /\ Exclusion(trials[n]) = None}
CompletePairs(trials) ==
  {p \in Arm(trials, "Candidate") \X Arm(trials, "Baseline") :
     PairedAssignment(p[1]).pair = PairedAssignment(p[2]).pair}

(* evaluate_paired_metric, and invalid_paired_record without a design.     *)
PairUp(request, trials) ==
  LET pairs == CompletePairs(trials)
      n == Cardinality(pairs)
      effect == [p \in pairs |-> Oriented(request.direction, trials[p[1]].value, trials[p[2]].value)]
      semantics == Semantics(trials)
  IN
  IF ~candidate.paired THEN {Invalid("paired_design_absent")}
  ELSE IF request.gate = None THEN {Record(None, None)}
  ELSE IF request.gate = "Absolute" THEN {Invalid("absolute_gate_unsupported_for_paired_evidence")}
  ELSE IF semantics # None THEN {Invalid(semantics)}
  ELSE IF request.direction = "TargetRange" THEN {Invalid("unsupported_direction_for_relative_gate")}
  ELSE IF pairs = {} \/ \E p \in pairs : trials[p[1]].value = Zero \/ trials[p[2]].value = Zero
       THEN {Invalid("nonpositive_relative_value")}
  ELSE IF request.gate = "Relative"
       THEN {IF Total(effect) > MaxExponent * n THEN Invalid("nonfinite_paired_effect")
             ELSE Record(IF Total(effect) <= request.limit * n THEN "Pass" ELSE "Fail", None)}
  ELSE IF n < Required(request) THEN {Invalid("insufficient_pairs")}
  ELSE {IF i[2] > MaxExponent THEN Invalid("nonfinite_paired_effect")
        ELSE Record(ByInterval(i, request.limit), Advice(n)) :
          i \in Intervals(Range(effect))}

(* The trials a request is judged by, where they are looked at.            *)
TrialsOf(paired) == IF paired THEN Paired ELSE Unpaired
Left(request) ==
  IF request.gate = None \/ candidate.paired # (mode = "paired") THEN {<<>>} ELSE TrialsOf(candidate.paired)
Right(request) ==
  IF baseline = NoInput \/ request.gate \notin {"Relative", "Statistical"} \/ candidate.paired
  THEN {<<>>} ELSE TrialsOf(baseline.paired)

(* Whether c is worse than b by no more than the limit of a request.       *)
Within(request, c, b) ==
  IF request.direction = "Higher" THEN b <= c + request.limit ELSE c <= b + request.limit

Outcomes(request, left, right) ==
  IF mode = "paired" THEN PairUp(request, left) ELSE Unpair(request, left, right)

(* A record, kept with what its gate had to go by: whether the values of   *)
(* the two sides are within its limit, and for two arms which trials were  *)
(* measured and which of them were paired.                                 *)
Evaluated(request, left, right, r) ==
  [intent |-> request.intent, gate |-> request.gate, disposition |-> r.disposition,
   within |-> {Within(request, c, b) : c \in Range(Selected(left)), b \in Range(Selected(right))},
   measured |-> IF candidate.paired THEN Counted(left) ELSE {},
   pairs |-> IF candidate.paired THEN CompletePairs(left) ELSE {}]

(* One metric of the plan. *)
EvaluateMetric ==
  /\ stage = "metrics" /\ Len(metrics) < MaxMetrics
  /\ \E request \in Requests : \E left \in Left(request), right \in Right(request) :
     \E r \in Outcomes(request, left, right) :
       /\ metrics' = Append(metrics, Evaluated(request, left, right, r))
       /\ IF r.disposition = "panic" THEN Exit("panic") ELSE UNCHANGED <<stage, exit>>
       /\ warnings' = IF r.reason = "below_recommended" THEN warnings \cup {r.reason} ELSE warnings
  /\ UNCHANGED <<plan, at, run, bundle, records, error, mode, candidate, baseline, verdict, receipt>>

Dispositions == {metrics[k].disposition : k \in {k \in DOMAIN metrics : metrics[k].intent = "Primary"}}

(* aggregate: over gated primary metrics; descriptive ones do not count.   *)
Performance ==
  CASE "Invalid" \in Dispositions -> "Invalid"
    [] "Fail" \in Dispositions /\ "Invalid" \notin Dispositions -> "Fail"
    [] Dispositions \cap {"Invalid", "Fail"} = {} /\ "Inconclusive" \in Dispositions -> "Inconclusive"
    [] Dispositions \cap {"Invalid", "Fail", "Inconclusive"} = {} /\ "Pass" \in Dispositions -> "Pass"
    [] OTHER -> None

(* Mutant of Combined: correctness speaks where performance does not.      *)
CombinedPerformanceFirst(performance, correctness) ==
  IF performance # None THEN performance ELSE correctness

(* combine_verdicts: the stronger of the two.                              *)
Combined(performance, correctness) ==
  LET v == {performance, correctness}
  IN  IF "Invalid" \in v THEN "Invalid" ELSE IF "Fail" \in v THEN "Fail"
      ELSE IF "Inconclusive" \in v THEN "Inconclusive" ELSE IF "Pass" \in v THEN "Pass" ELSE None

Aggregate ==
  /\ stage = "metrics" /\ metrics # <<>>
  /\ verdict' = Combined(Performance, candidate.correctness)
  /\ stage' = "write"
  /\ warnings' = warnings
       \cup (IF CriticalMismatch THEN {"environment_critical_mismatch"} ELSE {})
       \cup (IF baseline # NoInput /\ "WarningOnly" \in baseline.differs
             THEN {"environment_warning_mismatch"} ELSE {})
       \cup (IF mode = "paired" /\ ~candidate.paired THEN {"paired_design_absent"} ELSE {})
       \cup (IF mode # "paired" /\ candidate.paired
             THEN {"paired_bundle_requires_paired_comparison"} ELSE {})
  /\ UNCHANGED <<plan, at, run, bundle, records, error, mode, candidate, baseline, metrics,
                 receipt, exit>>

(* present_receipt: --output is written first; no verdict is a success.    *)
Present ==
  /\ stage = "write"
  /\ \/ Exit("EvidenceIo") /\ UNCHANGED receipt
     \/ /\ receipt' \in BOOLEAN
        /\ Exit(CASE verdict \in {None, "Pass"} -> "Success"
                  [] verdict = "Fail" -> "ComparisonFail"
                  [] verdict = "Inconclusive" -> "ComparisonInconclusive"
                  [] OTHER -> "ComparisonInvalid")
  /\ UNCHANGED <<plan, at, run, bundle, records, error, mode, candidate, baseline, metrics, warnings,
                 verdict>>

Next ==
  \/ InputNext /\ UNCHANGED compareVars
  \/ Start \/ LoadBaseline \/ EvaluateMetric \/ Aggregate \/ Present

Spec == Init /\ [][Next]_vars
----------------------------------------------------------------------------
Judged == {"Pass", "Fail", "Inconclusive"}

(* A success is earned: with a verdict, every gate of a primary metric     *)
(* held or was only described, correctness did not fail, and something did *)
(* hold; without one, nothing was judged at all.                           *)
VerdictEarned ==
  exit = "Success" =>
    /\ \A k \in DOMAIN metrics :
         metrics[k].gate # None => metrics[k].disposition \in {"Pass", "Descriptive"}
    /\ candidate.correctness \in {None, "Pass"}
    /\ (verdict = "Pass") = ("Pass" \in Dispositions \/ candidate.correctness = "Pass")

(* A relative gate is judged by what was measured: between comparable      *)
(* inputs, and never against all of it.  Where every value of the          *)
(* candidate is within the limit of every value of the baseline the gate   *)
(* passes, whatever the resampling draws; where none is, it fails.         *)
JudgedByMeasurement ==
  \A k \in DOMAIN metrics :
    LET m == metrics[k] IN
    mode # "paired" /\ m.gate \in {"Relative", "Statistical"} /\ m.disposition \in Judged =>
      /\ ~CriticalMismatch /\ candidate.policy # "cross" /\ m.within # {}
      /\ m.within = {TRUE} => m.disposition = "Pass"
      /\ m.within = {FALSE} => m.disposition = "Fail"

(* A paired gate is judged by neighbours: the trial of the candidate arm   *)
(* and the one run just before it, both measured; and two neighbours that  *)
(* were measured are never lost.                                           *)
PairsAreNeighbours ==
  mode = "paired" =>
    \A k \in DOMAIN metrics :
      metrics[k].pairs = {<<n, n - 1>> : n \in {m \in metrics[k].measured :
                                                 m % 2 = 0 /\ m - 1 \in metrics[k].measured}}

(* Unpaired inference never judges a metric by trials of two arms.         *)
ArmsNeverMixed ==
  \A k \in DOMAIN metrics :
    mode # "paired" /\ metrics[k].gate \in {"Relative", "Statistical"}
    /\ metrics[k].disposition \in Judged => ~candidate.paired /\ ~baseline.paired

(* What a bundle holds never makes the comparison panic.                   *)
DataNeverPanics == exit # "panic"
=============================================================================
