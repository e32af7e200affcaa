--------------------------- MODULE PlanValidation ---------------------------
(***************************************************************************)
(* ExperimentPlan::validate of crates/eggbench-core/src/plan.rs: the       *)
(* checks of a plan in the order of the code, section by section, each     *)
(* refusing with the category of its first check that fails, and           *)
(* ensure_acyclic, a depth first search over the dependencies.             *)
(*                                                                         *)
(* A service is a positive number; numbers compare as the names do in a    *)
(* BTreeMap.  Abstracted: syntax and bounds of one field.  A service, a    *)
(* request or a workload carries the one it breaks (defect, flaw), the     *)
(* plan what it has too many of (excess).                                  *)
(***************************************************************************)
EXTENDS Integers, Sequences, FiniteSets

CONSTANT Plans    \* families of plans to validate and prepare

None == "None"
Subject == 0

Faults == {"EmptyArgv", "InvalidWorkingDirectory", "InvalidExecutablePath"}
Defects == {"static_bindings", "conflict", "http_url", "log_limit", "destination", "source_key",
            "shutdown"}
Optional == {"security_checks", "http_corpus_checks", "diagnostics", "network_path", "paired"}

(* A diagnostic or a check: who it is aimed at, the category of the bound  *)
(* it breaks, and whether its timeout is too long.                         *)
Request == [id : Nat, target : Nat, flaw : {None, "invalid_bound", "unsupported_option"}, slow : BOOLEAN]

(* What a replay or corpus load may be refused for by itself. *)
LoadFlaws == {"invalid_fixture", "invalid_digest", "invalid_bound", "invalid_reference"}

(* What the contract of a network path may be refused for. *)
PathFlaws ==
  {"invalid_route", "unsupported_route", "invalid_fault_plan", "route_credentials_not_supported"}

Workload ==
  [kind : {"ClosedLoop", "OpenLoop", "FiniteCount", "TimeBounded", "SemanticReplay", "HttpCorpus"},
   target : Nat, mode : {"ClosedLoop", "OpenLoop"},
   given : SUBSET {"requests", "duration", "concurrency", "rate"},
   flaw : LoadFlaws \cup {None}]

ResetPolicy == [kind : {None, "Service", "Reference"}, target : Nat]

(* Names carry their unit. *)
Metric ==
  [name : STRING,
   direction : {"LowerIsBetter", "HigherIsBetter", "TargetRange", "Informational"},
   intent : {"Primary", "Diagnostic"}, range : BOOLEAN,
   gate : {None, "Zero", "Absolute", "NotFinite", "Relative"}]

Elements(list) == {list[k] : k \in 1 .. Len(list)}

(* A plan: its services in declaration order, what each depends on (in the *)
(* order and with the repetitions it was written with) and takes bindings  *)
(* from; the optional parts it has, which may be empty; what the process   *)
(* that runs it offers.  Only a plan built by hand is not validated; it    *)
(* names each service once.                                                *)
IsPlan(p) ==
  /\ p.validated \in BOOLEAN /\ p.version \in Nat
  /\ p.services \in Seq(Nat \ {Subject})
  /\ \A s \in Elements(p.services) :
       /\ s \in DOMAIN p.dependsOn /\ p.dependsOn[s] \in Seq(Nat \ {Subject})
       /\ s \in DOMAIN p.sources /\ p.sources[s] \in Seq(Nat \ {Subject})
       /\ s \in DOMAIN p.declares /\ p.declares[s] \subseteq {"static_bindings", "http_url"}
       /\ s \in DOMAIN p.defect /\ p.defect[s] \in Defects \cup {None}
       /\ s \in DOMAIN p.fault /\ p.fault[s] \in Faults \cup {None}
  /\ ~p.validated =>
       \A i, j \in 1 .. Len(p.services) : p.services[i] = p.services[j] => i = j
  /\ p.managed \subseteq Nat /\ p.adapters \subseteq Nat /\ p.registered \subseteq Nat
  /\ p.subject \in {"Label", "External", "Managed"} /\ p.external \in Nat
  /\ p.subjectFault \in {None, "EmptyArgv", "InvalidExecutablePath", "MissingSecret"}
  /\ p.has \subseteq Optional
  /\ p.diagnostics \in Seq(Request) /\ p.security \in Seq(Request) /\ p.corpus \in Seq(Request)
  /\ p.workload \in Workload /\ p.seed \in BOOLEAN /\ p.faulty \in BOOLEAN
  /\ p.pathFlaw \in PathFlaws \cup {None}
  /\ p.paired \in [baseline : Nat, candidate : Nat, managed : SUBSET {"baseline", "candidate"}]
  /\ p.measured \in Nat /\ p.reset \in ResetPolicy
  /\ p.metrics \in Seq(Metric) /\ p.excess \subseteq STRING
  /\ p.timeouts \subseteq STRING /\ p.hooks \subseteq Nat /\ p.executors \subseteq STRING
  /\ p.corpora \in BOOLEAN /\ p.platform \in {"Supported", "Unqualified", "Unsupported"}
  /\ p.workspace \in BOOLEAN      \* the workspace root is a directory

ASSUME PlanAssumption == \A family \in Plans : \A p \in family : IsPlan(p)

(* Numbers in increasing order, as names are in a BTreeMap. *)
Ascending(S) ==
  LET rank(s) == Cardinality({t \in S : t <= s})
  IN  [k \in 1 .. Cardinality(S) |-> CHOOSE s \in S : rank(s) = k]

VARIABLES
  plan,
  section,     \* of validate, "accepted" or "rejected"
  rejected,    \* category of the PlanError
  roots,       \* names ensure_acyclic has begun with
  stack,       \* its calls: a service and the dependencies left to visit
  temporary, permanent

search == <<roots, stack, temporary, permanent>>
validation == <<section, rejected, search>>

Names == Elements(plan.services)

InitValidation ==
  /\ \E family \in Plans : plan \in family
  /\ section = IF plan.validated THEN "features" ELSE "accepted"
  /\ rejected = None
  /\ roots = 0 /\ stack = <<>> /\ temporary = {} /\ permanent = {}

Reject(category) == section' = "rejected" /\ rejected' = category

(* A check that may refuse, and the first refusal of a list of checks. *)
When(fails, category) == IF fails THEN category ELSE None

First(refusals) ==
  LET some == {k \in 1 .. Len(refusals) : refusals[k] # None}
  IN  IF some = {} THEN None ELSE refusals[CHOOSE k \in some : \A j \in some : k <= j]

Section(here, refusal, there) ==
  /\ section = here
  /\ IF refusal = None THEN section' = there /\ UNCHANGED rejected ELSE Reject(refusal)
  /\ UNCHANGED <<plan, search>>

(* The schema versions an optional part may be used with. *)
Versions ==
  [security_checks |-> {6, 8, 9, 10}, http_corpus_checks |-> {8, 9, 10},
   diagnostics |-> {5, 6, 8, 9, 10}, SemanticReplay |-> {4, 5, 6, 8, 9, 10}, HttpCorpus |-> {10},
   network_path |-> {3}, bindings |-> {9}, static_bindings |-> {9}, http_url |-> {7, 8, 9, 10}]

Unversioned(feature) == plan.version \notin Versions[feature]

Path == "network_path" \in plan.has
Paired == "paired" \in plan.has

(* Parts the version does not have, also when they are empty, and parts    *)
(* that bypass the network path.                                           *)
FeatureChecks ==
  <<When(plan.version \notin 1 .. 10, "unsupported_version"),
    When("security_checks" \in plan.has /\ Unversioned("security_checks"), "unsupported_option"),
    When("http_corpus_checks" \in plan.has /\ Unversioned("http_corpus_checks"), "unsupported_option"),
    When("diagnostics" \in plan.has /\ Unversioned("diagnostics"), "unsupported_option"),
    When(plan.workload.kind = "SemanticReplay" /\ Unversioned("SemanticReplay"), "unsupported_option"),
    When(plan.workload.kind = "HttpCorpus" /\ Unversioned("HttpCorpus"), "unsupported_option"),
    When(plan.workload.kind = "HttpCorpus" /\ ~plan.seed, "missing_fault_seed"),
    When(plan.workload.kind = "SemanticReplay" /\ Path, "workload_path_incompatible"),
    When(Path /\ plan.diagnostics # <<>>, "diagnostic_path_incompatible"),
    When(Path /\ plan.security # <<>>, "security_path_incompatible"),
    When(Path /\ Unversioned("network_path"), "unsupported_option")>>

FeatureRefusal == First(FeatureChecks)

ValidateFeatures == Section("features", FeatureRefusal, "path")

(* The contract of the path, then the managed subject's argv. *)
PathRefusal ==
  First(<<When(Path, plan.pathFlaw),
          When(Path /\ plan.subject = "External", "workload_path_incompatible"),
          When(Path /\ plan.faulty /\ ~plan.seed, "missing_fault_seed"),
          When(plan.subject = "Managed" /\ plan.subjectFault = "EmptyArgv", "invalid_bound")>>)

ValidatePath == Section("path", PathRefusal, "services")

(* Bindings a command takes from other services: only from dependencies. *)
BindingRefusal(s) ==
  IF plan.sources[s] = <<>> THEN None
  ELSE First(<<When(s \in plan.adapters, "contradictory_configuration"),
               When(plan.defect[s] = "destination", "invalid_bound"),
               When(~(Elements(plan.sources[s]) \subseteq Elements(plan.dependsOn[s])), "missing_reference"),
               When(plan.defect[s] = "source_key", "invalid_bound")>>)

ServiceChecks(k) ==
  LET s == plan.services[k]
      declares(what) == what \in plan.declares[s]
      breaks(what) == plan.defect[s] = what
      command == s \notin plan.adapters
  IN  <<When(plan.sources[s] # <<>> /\ Unversioned("bindings"), "unsupported_option"),
        When(declares("static_bindings") /\ Unversioned("static_bindings"), "unsupported_option"),
        When(declares("static_bindings") /\ breaks("static_bindings"), "invalid_bound"),
        When(declares("static_bindings") /\ declares("http_url") /\ breaks("conflict"),
             "contradictory_configuration"),
        When(declares("http_url") /\ Unversioned("http_url"), "unsupported_option"),
        When(declares("http_url") /\ breaks("http_url"), "invalid_binding"),
        When(\E j \in 1 .. k - 1 : plan.services[j] = s, "duplicate_identity"),
        When(breaks("log_limit"), "invalid_bound"),
        When(command /\ s \in plan.managed /\ plan.fault[s] = "EmptyArgv", "contradictory_configuration"),
        BindingRefusal(s),
        When(command /\ s \notin plan.managed /\ breaks("shutdown"), "contradictory_configuration")>>

ServiceRefusal(k) == First(ServiceChecks(k))

ServicesRefusal ==
  IF "services" \in plan.excess THEN "invalid_bound"
  ELSE First([k \in 1 .. Len(plan.services) |-> ServiceRefusal(k)])

ValidateServices == Section("services", ServicesRefusal, "references")

(* A declared service, or the target of an external subject. *)
Reachable(target) == target \in Names \/ (plan.subject = "External" /\ target = plan.external)

DependencyRefusal(k) ==
  LET s == plan.services[k]
      refusal(j) == First(<<When(plan.dependsOn[s][j] = s, "contradictory_configuration"),
                            When(plan.dependsOn[s][j] \notin Names, "missing_reference")>>)
  IN  First([j \in 1 .. Len(plan.dependsOn[s]) |-> refusal(j)])

ReferenceRefusal ==
  IF ~Reachable(plan.workload.target) THEN "missing_reference"
  ELSE First([k \in 1 .. Len(plan.services) |-> DependencyRefusal(k)])

ValidateReferences == Section("references", ReferenceRefusal, "cycles")

(* Mutant of Visit: a service that is being visited counts as done. *)
VisitOnce(name, calls) ==
  IF name \in permanent \cup temporary
  THEN stack' = calls /\ UNCHANGED <<section, rejected, temporary>>
  ELSE /\ temporary' = temporary \cup {name}
       /\ stack' = Append(calls, [name |-> name, left |-> plan.dependsOn[name]])
       /\ UNCHANGED <<section, rejected>>

(* visit: done before, on the way here, or new. *)
Visit(name, calls) ==
  \/ /\ name \in permanent
     /\ stack' = calls
     /\ UNCHANGED <<section, rejected, temporary>>
  \/ /\ name \in temporary \ permanent
     /\ Reject("cycle")
     /\ stack' = calls /\ UNCHANGED temporary
  \/ /\ name \notin temporary \cup permanent
     /\ temporary' = temporary \cup {name}
     /\ stack' = Append(calls, [name |-> name, left |-> plan.dependsOn[name]])
     /\ UNCHANGED <<section, rejected>>

VisitRoot ==
  /\ section = "cycles" /\ stack = <<>> /\ roots < Cardinality(Names)
  /\ roots' = roots + 1
  /\ Visit(Ascending(Names)[roots + 1], <<>>)
  /\ UNCHANGED <<plan, permanent>>

Top == stack[Len(stack)]

VisitDependency ==
  /\ section = "cycles" /\ stack # <<>> /\ Top.left # <<>>
  /\ Visit(Head(Top.left), [stack EXCEPT ![Len(stack)].left = Tail(@)])
  /\ UNCHANGED <<plan, roots, permanent>>

LeaveService ==
  /\ section = "cycles" /\ stack # <<>> /\ Top.left = <<>>
  /\ temporary' = temporary \ {Top.name}
  /\ permanent' = permanent \cup {Top.name}
  /\ stack' = SubSeq(stack, 1, Len(stack) - 1)
  /\ UNCHANGED <<plan, roots, section, rejected>>

Acyclic ==
  /\ section = "cycles" /\ stack = <<>> /\ roots = Cardinality(Names)
  /\ section' = "workload"
  /\ UNCHANGED <<plan, rejected, search>>

(* Exactly one limit of a loop; the load of the mode; a confined fixture; a *)
(* bounded corpus schedule.                                                *)
WorkloadRefusal ==
  LET load == plan.workload
  IN  First(<<When(load.kind \in {"ClosedLoop", "OpenLoop"}
                /\ Cardinality(load.given \cap {"requests", "duration"}) # 1,
                "contradictory_configuration"),
              When(load.kind = "TimeBounded"
                /\ load.given \cap {"concurrency", "rate"}
                     # {IF load.mode = "ClosedLoop" THEN "concurrency" ELSE "rate"},
                "contradictory_configuration"),
              When(load.kind \in {"SemanticReplay", "HttpCorpus"}, load.flaw)>>)

ValidateWorkload == Section("workload", WorkloadRefusal, "paired")

PairedChecks ==
  LET baseline == plan.paired.baseline
      candidate == plan.paired.candidate
  IN  <<When(plan.version = 1, "unsupported_version"),
        When(Path, "paired_network_path_not_supported"),
        When(plan.subject # "Label", "contradictory_configuration"),
        When(plan.measured < 2 \/ plan.measured % 2 # 0, "invalid_bound"),
        When(baseline \notin Names, "missing_reference"),
        When("baseline" \in plan.paired.managed, "unsupported_option"),
        When(candidate \notin Names, "missing_reference"),
        When("candidate" \in plan.paired.managed, "unsupported_option"),
        When(baseline = candidate, "contradictory_configuration"),
        When(plan.workload.target # baseline, "contradictory_configuration")>>

PairedRefusal == IF Paired THEN First(PairedChecks) ELSE None

ValidatePaired == Section("paired", PairedRefusal, "diagnostics")

Repeated(list, k) == \E j \in 1 .. k - 1 : list[j].id = list[k].id

RequestChecks(list, k) ==
  <<When(Repeated(list, k), "duplicate_identity"),
    list[k].flaw,
    When(list[k].slow, "invalid_bound"),
    When(~Reachable(list[k].target), "missing_reference")>>

DiagnosticRefusal(k) == First(RequestChecks(plan.diagnostics, k))

ValidateDiagnostics ==
  Section("diagnostics",
          IF "diagnostics" \in plan.excess THEN "invalid_bound"
          ELSE First([k \in 1 .. Len(plan.diagnostics) |-> DiagnosticRefusal(k)]),
          "security")

SecurityRefusal(k) == First(RequestChecks(plan.security, k))

ValidateSecurityChecks ==
  Section("security",
          IF Paired /\ plan.security # <<>> THEN "paired_security_not_supported"
          ELSE IF "security_checks" \in plan.excess THEN "invalid_bound"
          ELSE First([k \in 1 .. Len(plan.security) |-> SecurityRefusal(k)]),
          "corpus")

(* Corpus checks share the name space of the security checks. *)
CorpusChecks(k) ==
  LET request == plan.corpus[k]
      taken == {plan.security[j].id : j \in 1 .. Len(plan.security)}
  IN  <<When(Repeated(plan.corpus, k) \/ request.id \in taken, "duplicate_identity"),
        request.flaw,
        When(~Reachable(request.target), "missing_reference"),
        When(request.slow, "invalid_bound")>>

CorpusRefusal(k) == First(CorpusChecks(k))

ValidateCorpusChecks ==
  Section("corpus",
          IF "http_corpus_checks" \in plan.excess THEN "invalid_bound"
          ELSE IF plan.corpus # <<>> /\ Paired THEN "paired_security_not_supported"
          ELSE IF plan.corpus # <<>> /\ Path THEN "security_path_incompatible"
          ELSE First([k \in 1 .. Len(plan.corpus) |-> CorpusRefusal(k)]),
          "trials")

TrialRefusal ==
  First(<<When("warmup" \in plan.excess, "invalid_bound"),
          When(plan.reset.kind = "Service" /\ plan.reset.target \notin Names, "missing_reference"),
          When("metrics" \in plan.excess, "invalid_bound")>>)

ValidateTrials == Section("trials", TrialRefusal, "metrics")

(* A gate needs a direction to be judged in and a number. *)
MetricRefusal(k) ==
  LET metric == plan.metrics[k]
      gated == metric.gate # None
  IN  First(<<When(\E j \in 1 .. k - 1 : plan.metrics[j].name = metric.name, "duplicate_identity"),
              When(metric.direction = "TargetRange" /\ ~metric.range, "invalid_bound"),
              When(gated /\ metric.intent = "Diagnostic", "contradictory_configuration"),
              When(metric.gate = "NotFinite", "invalid_bound"),
              When(gated /\ metric.direction = "Informational", "contradictory_configuration"),
              When(metric.name = "semantic_findings" /\ plan.workload.kind = "SemanticReplay"
                /\ metric.gate = "Relative", "unsupported_gate")>>)

GatesMismatches ==
  \E metric \in Elements(plan.metrics) :
    /\ metric.name = "expected_outcome_mismatch_rate" /\ metric.gate = "Zero"
    /\ metric.intent = "Primary" /\ metric.direction = "LowerIsBetter"

MetricsRefusal ==
  First(<<First([k \in 1 .. Len(plan.metrics) |-> MetricRefusal(k)]),
          When(plan.workload.kind = "HttpCorpus" /\ ~GatesMismatches, "missing_required_metric"),
          When("bounds" \in plan.excess, "invalid_bound")>>)

ValidateMetrics == Section("metrics", MetricsRefusal, "accepted")

Validate ==
  \/ ValidateFeatures \/ ValidatePath \/ ValidateServices \/ ValidateReferences
  \/ VisitRoot \/ VisitDependency \/ LeaveService \/ Acyclic
  \/ ValidateWorkload \/ ValidatePaired \/ ValidateDiagnostics
  \/ ValidateSecurityChecks \/ ValidateCorpusChecks \/ ValidateTrials \/ ValidateMetrics
=============================================================================
