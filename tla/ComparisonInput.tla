-------------------------- MODULE ComparisonInput --------------------------
(***************************************************************************)
(* The evidence one run leaves for a comparison and the loader that reads  *)
(* it back: the diagnostic and correctness slots and the staging of their  *)
(* indexes (crates/eggbench-runner/src/orchestration.rs), then             *)
(* load_comparison_input (crates/eggbench-core/src/comparison.rs).         *)
(*                                                                         *)
(* A digest is the value it digests.  Abstracted: JSON, lengths of fields, *)
(* names (a request or a check is its position in the plan), the probes    *)
(* and timeouts of a diagnostic, what the trials measure, and everything   *)
(* of a run that leaves no evidence of these kinds (Orchestration.tla).    *)
(***************************************************************************)
EXTENDS Integers, Sequences, FiniteSets, SequencesExt

CONSTANTS
  Plans,       \* the plans that are run
  MaxCases     \* cases a correctness check evaluates, at most

None == "None"

(* What the loader reads of a resolved plan.  A diagnostic has a phase and *)
(* may be required; a WAF check has the host its target is bound to and    *)
(* the bypasses it allows; corpus checks are counted.                      *)
Plan ==
  [diagnostics : Seq([phase : {"Pre", "Post", "Both"}, required : BOOLEAN]),
   checks : Seq([host : STRING, allowed : Nat]),
   corpus : Nat, path : BOOLEAN, replay : BOOLEAN, paired : BOOLEAN]

NoPlan == [diagnostics |-> <<>>, checks |-> <<>>, corpus |-> 0,
           path |-> FALSE, replay |-> FALSE, paired |-> FALSE]

(* validate_schema_features: what a plan of this schema may combine.       *)
Composable(plan) ==
  /\ plan.path => plan.diagnostics = <<>> /\ plan.checks = <<>> /\ plan.corpus = 0
                  /\ ~plan.paired /\ ~plan.replay
  /\ plan.paired => plan.checks = <<>> /\ plan.corpus = 0

ASSUME PlansAssumption == \A p \in Plans : p \in Plan /\ Composable(p)
ASSUME CasesAssumption == MaxCases \in Nat \ {0}

VARIABLES
  plan,
  status,      \* state.status
  cancelled,   \* the cancellation token
  stage,       \* the step of the run, or of the load
  at,          \* requests that step has dealt with
  executions,  \* state.diagnostics: [id, slot, disposition, version]
  results,     \* state.correctness: [id, host, bypasses, cases, disposition]
  corpus,      \* staged corpus results: [failed, invalid] per check
  replayed,    \* the replay driver has a validated fixture
  evidence,    \* names of the run-level artifacts in the bundle
  index,       \* diagnostics.json and security-checks.json
  records,     \* CorrectnessCheckRecord, by check
  error        \* of staging, or of the load

inputVars == <<plan, status, cancelled, stage, at, executions, results, corpus,
          replayed, evidence, index, records, error>>

run == <<status, cancelled, executions, results, corpus, replayed>>
bundle == <<evidence, index>>

InputInit ==
  /\ plan \in Plans
  /\ status = "Completed" /\ cancelled = FALSE
  /\ stage = "Pre" /\ at = 0
  /\ executions = <<>> /\ results = <<>> /\ corpus = <<>> /\ replayed = FALSE
  /\ evidence = {} /\ index = [version |-> None, scope |-> None]
  /\ records = <<>> /\ error = None

(* Whether a request runs in a slot. *)
Applies(slot, phase) == phase \in {slot, "Both"}

(* The next request that applies, or one past the last.                    *)
NextRequest(slot) ==
  LET left == {k \in at + 1 .. Len(plan.diagnostics) :
                 Applies(slot, plan.diagnostics[k].phase)}
  IN  IF left = {} THEN Len(plan.diagnostics) + 1
      ELSE CHOOSE k \in left : \A m \in left : k <= m

Cancel ==
  /\ ~cancelled /\ stage \in {"Pre", "Checks", "Corpus", "Trials", "Post", "Index"}
  /\ cancelled' = TRUE
  /\ UNCHANGED <<plan, status, stage, at, executions, results, corpus, replayed,
                 bundle, records, error>>

(* The loop of a slot ends, by itself or by a break. *)
Leave(there) == stage' = there /\ at' = 0
AfterSlot(slot) ==
  IF slot = "Post" THEN "Index" ELSE IF status' = "Completed" THEN "Checks" ELSE "Post"

(* A cancellation that nothing else has noticed: asked after a slot, and   *)
(* once more when the services are stopped.                                *)
FinalStatus == IF cancelled /\ status = "Completed" THEN "Cancelled" ELSE status

SlotEnds(slot) ==
  /\ stage = slot /\ NextRequest(slot) > Len(plan.diagnostics)
  /\ status' = FinalStatus /\ Leave(AfterSlot(slot))
  /\ UNCHANGED <<plan, cancelled, executions, results, corpus, replayed, bundle, records, error>>

Recorded(slot, k, disposition, version) ==
  Append(executions, [id |-> k, slot |-> slot, disposition |-> disposition, version |-> version])

(* record_skipped_diagnostic: the run is cancelled before this request.    *)
SkipDiagnostic(slot) ==
  LET k == NextRequest(slot) IN
  /\ stage = slot /\ cancelled /\ k <= Len(plan.diagnostics)
  /\ executions' = Recorded(slot, k, "skipped", "")
  /\ IF slot = "Pre"
     THEN status' = "Cancelled" /\ Leave("Post")
     ELSE UNCHANGED <<status, stage>> /\ at' = k
  /\ UNCHANGED <<plan, cancelled, results, corpus, replayed, bundle, records, error>>

(* Mutant of RunDiagnostic: an optional one that fails leaves no record.   *)
RunDiagnosticUnrecorded(slot) ==
  LET k == NextRequest(slot)
      required == plan.diagnostics[k].required
  IN
  /\ stage = slot /\ ~cancelled /\ k <= Len(plan.diagnostics)
  /\ \E outcome \in {"positive", "negative", "failed", "error"} :
       LET bad == required /\ outcome # "positive" IN
       /\ executions' = IF outcome = "error" THEN executions
                        ELSE Recorded(slot, k, outcome, "tool")
       /\ status' = IF bad /\ status = "Completed" THEN "Invalid" ELSE status
       /\ IF bad /\ slot = "Pre"
          THEN Leave("Post")
          ELSE UNCHANGED stage /\ at' = k
  /\ UNCHANGED <<plan, cancelled, results, corpus, replayed, bundle, records, error>>

(* One diagnostic runs.  The executor answers with a report, of which it   *)
(* knows the tool that made it, or fails without one.                      *)
RunDiagnostic(slot) ==
  LET k == NextRequest(slot)
      required == plan.diagnostics[k].required
  IN
  /\ stage = slot /\ ~cancelled /\ k <= Len(plan.diagnostics)
  /\ \E outcome \in {"positive", "negative", "failed", "error"} :
       LET bad == required /\ outcome # "positive" IN
       /\ executions' = IF outcome = "error"
                        THEN Recorded(slot, k, "failed", "")
                        ELSE Recorded(slot, k, outcome, "tool")
       /\ status' = IF bad /\ status = "Completed" THEN "Invalid" ELSE status
       /\ IF bad /\ slot = "Pre"
          THEN Leave("Post")
          ELSE UNCHANGED stage /\ at' = k
  /\ UNCHANGED <<plan, cancelled, results, corpus, replayed, bundle, records, error>>

(* The cancellation comes while a diagnostic runs. *)
InterruptDiagnostic(slot) ==
  LET k == NextRequest(slot) IN
  /\ stage = slot /\ cancelled /\ k <= Len(plan.diagnostics)
  /\ executions' = Recorded(slot, k, "failed", "")
  /\ status' = IF status = "Completed" THEN "Cancelled" ELSE status
  /\ IF slot = "Pre" /\ plan.diagnostics[k].required
     THEN Leave("Post")
     ELSE UNCHANGED stage /\ at' = k
  /\ UNCHANGED <<plan, cancelled, results, corpus, replayed, bundle, records, error>>

(* recomputed_disposition of crates/eggbench-core/src/security.rs          *)
Recomputed(cases, bypasses, allowed) ==
  IF cases = 0 \/ bypasses > cases THEN "Invalid"
  ELSE IF bypasses <= allowed THEN "Pass" ELSE "Fail"

(* The executor reports what it counted, for the host it was confined to;  *)
(* stage_correctness_record keeps what agrees with the request.            *)
RunCheck ==
  LET k == at + 1 IN
  /\ stage = "Checks" /\ ~cancelled /\ k <= Len(plan.checks)
  /\ \/ \E cases \in 1 .. MaxCases : \E bypasses \in 0 .. cases :
          results' = Append(results,
            [id |-> k, host |-> plan.checks[k].host, cases |-> cases, bypasses |-> bypasses,
             disposition |-> Recomputed(cases, bypasses, plan.checks[k].allowed)])
        /\ at' = k /\ UNCHANGED <<status, stage>>
     \/ status' = "Invalid" /\ Leave("Corpus") /\ UNCHANGED results
  /\ UNCHANGED <<plan, cancelled, executions, corpus, replayed, bundle, records, error>>

(* Corpus checks follow, whatever became of the WAF checks: a case may be  *)
(* matched, be unmatched, or not be observed.                              *)
RunCorpusCheck ==
  /\ stage = "Corpus" /\ ~cancelled /\ Len(corpus) < plan.corpus
  /\ \/ \E f \in 0 .. 1, i \in 0 .. 1 :
          /\ corpus' = Append(corpus, [failed |-> f, invalid |-> i])
          /\ status' = IF i > 0 THEN "Invalid" ELSE status
          /\ IF i > 0 THEN Leave("Post") ELSE UNCHANGED <<stage, at>>
     \/ status' = "Invalid" /\ Leave("Post") /\ UNCHANGED corpus
  /\ UNCHANGED <<plan, cancelled, executions, results, replayed, bundle, records, error>>

(* Either loop meets the cancellation or its end.                          *)
ChecksEnd ==
  /\ \/ stage = "Checks" /\ (cancelled \/ at = Len(plan.checks))
     \/ stage = "Corpus" /\ (cancelled \/ Len(corpus) = plan.corpus)
  /\ status' = IF \/ stage = "Checks" /\ at < Len(plan.checks)
                  \/ stage = "Corpus" /\ Len(corpus) < plan.corpus
               THEN "Cancelled" ELSE status
  /\ Leave(IF stage = "Checks" THEN "Corpus"
           ELSE IF status' = "Completed" THEN "Trials" ELSE "Post")
  /\ UNCHANGED <<plan, cancelled, executions, results, corpus, replayed, bundle, records, error>>

(* The trials.  A completed one has had its fixture validated; one that    *)
(* fails may have stopped short of it.                                     *)
RunTrials ==
  /\ stage = "Trials"
  /\ \E outcome \in IF cancelled THEN {"Cancelled"} ELSE {"Completed", "Failed"} :
       /\ status' = outcome
       /\ \E validated \in IF outcome = "Completed" THEN {TRUE} ELSE BOOLEAN :
            replayed' = (plan.replay /\ validated)
  /\ Leave("Post")
  /\ UNCHANGED <<plan, cancelled, executions, results, corpus, bundle, records, error>>

(* The version an index claims is the first one any execution knows.       *)
IndexVersion ==
  LET known == {k \in DOMAIN executions : executions[k].version # ""}
  IN  IF known = {} THEN "" ELSE executions[CHOOSE k \in known : \A m \in known : k <= m].version

(* DiagnosticsIndex::validate_contract and its reader's                    *)
(* validate_diagnostics_index_provenance ask for the same provenance.      *)
Provenance(version, list) ==
  \/ list # <<>> /\ \A k \in DOMAIN list : list[k].disposition = "skipped"
  \/ version # ""

(* stage_diagnostics_index, stage_security_index, run_evidence: all of it, *)
(* or a run that publishes nothing.                                        *)
StageIndexes ==
  LET unprovenanced == executions # <<>> /\ ~Provenance(IndexVersion, executions)
      partial == plan.checks # <<>> /\ results # <<>> /\ Len(results) # Len(plan.checks)
      staged == {a \in {"diagnostics", "security", "path", "replay"} :
                   \/ a = "diagnostics" /\ executions # <<>>
                   \/ a = "security" /\ results # <<>>
                   \/ a = "path" /\ plan.path
                   \/ a = "replay" /\ replayed}
  IN
  /\ stage = "Index" /\ status' = FinalStatus
  /\ IF unprovenanced \/ partial
     THEN /\ Leave("unpublished") /\ error' = "InvalidManifest"
          /\ UNCHANGED bundle
     ELSE /\ Leave("network_path") /\ UNCHANGED error
          /\ evidence' = staged
          /\ index' = [version |-> IF executions = <<>> THEN None ELSE IndexVersion,
                       scope |-> IF results = <<>> THEN None ELSE results[1].host]
  /\ UNCHANGED <<plan, cancelled, executions, results, corpus, replayed, records>>

Refuse(reason) == stage' = "refused" /\ error' = reason
Continue(there) == stage' = there /\ UNCHANGED error

(* load_network_path_evidence_identity and its semantic-replay twin: the   *)
(* artifact is there exactly when the plan asks for the kind of run.       *)
LoadNetworkPath ==
  /\ stage = "network_path"
  /\ IF plan.path = ("path" \in evidence) THEN Continue("replay") ELSE Refuse("network-path")
  /\ UNCHANGED <<plan, at, run, bundle, records>>

LoadReplay ==
  /\ stage = "replay"
  /\ IF plan.replay = ("replay" \in evidence) THEN Continue("diagnostics") ELSE Refuse("semantic-replay")
  /\ UNCHANGED <<plan, at, run, bundle, records>>

(* expected_diagnostic_executions: request by request, a Both one twice.   *)
Declared ==
  {e \in (DOMAIN plan.diagnostics) \X {"Pre", "Post"} : Applies(e[2], plan.diagnostics[e[1]].phase)}
Precedes(d, e) == d[1] < e[1] \/ (d[1] = e[1] /\ d[2] = "Pre" /\ e[2] = "Post")
Place(e) == Cardinality({d \in Declared : d = e \/ Precedes(d, e)})
Expected == [n \in 1 .. Cardinality(Declared) |-> CHOOSE e \in Declared : Place(e) = n]

(* Mutant of ExecutionsMatch: only the executions there are are compared.  *)
ExecutionsMatchSoFar ==
  \A k \in DOMAIN executions : <<executions[k].id, executions[k].slot>> = Expected[k]

(* diagnostics_executions_match_resolved: one by one, in that order.       *)
ExecutionsMatch ==
  /\ Len(executions) = Len(Expected)
  /\ \A k \in DOMAIN executions : <<executions[k].id, executions[k].slot>> = Expected[k]

LoadDiagnostics ==
  /\ stage = "diagnostics"
  /\ IF "diagnostics" \in evidence
     THEN IF plan.diagnostics # <<>> /\ Provenance(index.version, executions) /\ ExecutionsMatch
          THEN Continue("security") ELSE Refuse("diagnostics")
     ELSE IF plan.diagnostics = <<>> THEN Continue("security") ELSE Refuse("diagnostics")
  /\ UNCHANGED <<plan, at, run, bundle, records>>

(* Mutant of CheckRecord: every result is held to the first request.       *)
CheckRecordFirstRequest(k) ==
  LET r == results[k]
      own == Recomputed(r.cases, r.bypasses, plan.checks[1].allowed)
  IN  IF own # r.disposition THEN [disposition |-> "Invalid", reason |-> "disposition_mismatch"]
      ELSE IF r.host # index.scope THEN [disposition |-> "Invalid", reason |-> "scope_mismatch"]
      ELSE [disposition |-> r.disposition, reason |-> None]

(* load_correctness_record: the stored result against the request, the     *)
(* index and its own threshold.                                            *)
CheckRecord(k) ==
  LET r == results[k]
      own == Recomputed(r.cases, r.bypasses, plan.checks[k].allowed)
  IN  IF own # r.disposition THEN [disposition |-> "Invalid", reason |-> "disposition_mismatch"]
      ELSE IF r.host # index.scope THEN [disposition |-> "Invalid", reason |-> "scope_mismatch"]
      ELSE [disposition |-> r.disposition, reason |-> None]

(* Mutant of CorpusRecord: a check that left nothing found nothing.        *)
CorpusRecordLenient(k) ==
  CASE k > Len(corpus) -> [disposition |-> "Pass", reason |-> None]
    [] corpus[k].invalid > 0 -> [disposition |-> "Invalid", reason |-> "invalid_case_observation"]
    [] corpus[k].failed > 0 -> [disposition |-> "Fail", reason |-> None]
    [] OTHER -> [disposition |-> "Pass", reason |-> None]

(* load_http_corpus_records, for a check that may have left no artifact.   *)
CorpusRecord(k) ==
  CASE plan.paired \/ plan.path -> [disposition |-> "Invalid", reason |-> "unsupported_composition"]
    [] k > Len(corpus) -> [disposition |-> "Invalid", reason |-> "missing_artifact"]
    [] corpus[k].invalid > 0 -> [disposition |-> "Invalid", reason |-> "invalid_case_observation"]
    [] corpus[k].failed > 0 -> [disposition |-> "Fail", reason |-> None]
    [] OTHER -> [disposition |-> "Pass", reason |-> None]

(* load_security_evidence_identity, load_correctness_records, and the      *)
(* corpus records behind them.                                             *)
LoadSecurity ==
  /\ stage = "security"
  /\ IF (plan.checks # <<>>) = ("security" \in evidence)
     THEN /\ Continue("loaded")
          /\ records' = [k \in DOMAIN results |-> CheckRecord(k)]
                        \o [k \in 1 .. plan.corpus |-> CorpusRecord(k)]
     ELSE Refuse("security") /\ UNCHANGED records
  /\ UNCHANGED <<plan, at, run, bundle>>

(* aggregate_correctness; no section without records.                      *)
Correctness ==
  LET some(d) == \E k \in DOMAIN records : records[k].disposition = d
  IN  IF records = <<>> THEN None
      ELSE IF some("Invalid") THEN "Invalid" ELSE IF some("Fail") THEN "Fail" ELSE "Pass"

InputNext ==
  \/ Cancel
  \/ \E slot \in {"Pre", "Post"} : SlotEnds(slot) \/ SkipDiagnostic(slot) \/ RunDiagnostic(slot) \/ InterruptDiagnostic(slot)
  \/ RunCheck \/ RunCorpusCheck \/ ChecksEnd \/ RunTrials
  \/ StageIndexes
  \/ LoadNetworkPath \/ LoadReplay \/ LoadDiagnostics \/ LoadSecurity

InputSpec == InputInit /\ [][InputNext]_inputVars
----------------------------------------------------------------------------
(* The slots of the executions expected, in the order the run has them.    *)
InRunOrder ==
  \A d, e \in Declared : Precedes(d, e) /\ d[2] = "Post" => e[2] = "Post"

(* A completed run is one that can be compared: the loader refuses none of *)
(* the evidence its staging accepted.                                      *)
CompletedRunsLoad == stage = "refused" => status # "Completed"

(* The same, but for plans whose diagnostics do not run in the order the   *)
(* loader expects them in.                                                 *)
CompletedRunsInOrderLoad == stage = "refused" /\ InRunOrder => status # "Completed"

(* A loaded input has the evidence its plan declares and no other, so that *)
(* two inputs never agree by both lacking it; and two completed runs of a  *)
(* plan claim the same tool, however their probes went.                    *)
LoadedIsDeclared ==
  stage = "loaded" =>
    /\ {<<executions[k].id, executions[k].slot>> : k \in DOMAIN executions} = Range(Expected)
    /\ ("diagnostics" \in evidence) = (plan.diagnostics # <<>>)
    /\ ("security" \in evidence) = (plan.checks # <<>>)
    /\ ("path" \in evidence) = plan.path
    /\ ("replay" \in evidence) = plan.replay
    /\ Len(records) = Len(plan.checks) + plan.corpus
    /\ status = "Completed" /\ plan.diagnostics # <<>> => index.version = "tool"

(* The loader takes what was declared and observed, and refuses no run     *)
(* that completed.                                                         *)
LoaderIsExact == CompletedRunsInOrderLoad /\ LoadedIsDeclared

(* Correctness passes only if every check of the plan ran, each was        *)
(* observed, and each kept what it was allowed.                            *)
PassIsObserved ==
  stage = "loaded" /\ Correctness = "Pass" =>
    /\ Len(results) = Len(plan.checks) /\ Len(corpus) = plan.corpus
    /\ \A k \in DOMAIN results : results[k].bypasses <= plan.checks[k].allowed
    /\ \A k \in DOMAIN corpus : corpus[k] = [failed |-> 0, invalid |-> 0]

(* A check of a completed run is invalid evidence only where its target is *)
(* at another host than the first one's, whose scope the index carries.    *)
InvalidIsScoped ==
  stage = "loaded" /\ status = "Completed" =>
    \A k \in DOMAIN records :
      records[k].disposition = "Invalid" =>
        /\ k <= Len(plan.checks) /\ records[k].reason = "scope_mismatch"
        /\ plan.checks[k].host # plan.checks[1].host

(* What is loaded of the checks is what was observed of them: nothing      *)
(* passes unobserved, and what an honest run observed is not held invalid. *)
RecordsAreObserved == PassIsObserved /\ InvalidIsScoped
=============================================================================
