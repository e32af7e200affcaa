--------------------------- MODULE MCPreparation ---------------------------
(***************************************************************************)
(* Plans preparation is checked with.                                      *)
(***************************************************************************)
EXTENDS Preparation

Lists(S, most) == UNION {[1 .. n -> S] : n \in 0 .. most}

(* Two services, the second after the first, and nothing wrong. *)
Everywhere(value) == [s \in 1 .. 3 |-> value]

Outside == 9

Load ==
  [kind |-> "FiniteCount", target |-> 1, mode |-> "ClosedLoop", given |-> {}, flaw |-> None]

Sound ==
  [validated |-> TRUE, version |-> 9, services |-> <<2, 1>>, dependsOn |-> <<<<>>, <<1>>, <<>>>>,
   sources |-> Everywhere(<<>>), declares |-> Everywhere({}), defect |-> Everywhere(None),
   fault |-> Everywhere(None), managed |-> {1, 2}, adapters |-> {}, registered |-> {1, 2},
   subject |-> "Label", external |-> Outside, subjectFault |-> None,
   has |-> {}, diagnostics |-> <<>>, security |-> <<>>, corpus |-> <<>>, workload |-> Load,
   seed |-> TRUE, faulty |-> FALSE, pathFlaw |-> None,
   paired |-> [baseline |-> 1, candidate |-> 2, managed |-> {}],
   measured |-> 2, reset |-> [kind |-> None, target |-> 1], metrics |-> <<>>, excess |-> {},
   timeouts |-> {"measurement", "drain", "reset"}, hooks |-> {1},
   executors |-> {"diagnostics", "security", "corpus"}, corpora |-> TRUE,
   platform |-> "Supported", workspace |-> TRUE]

(* Three services declared out of alphabetical order, every way of naming  *)
(* up to two dependencies, themselves, repetitions and an unknown service  *)
(* included; through validate or not.                                      *)
AllGraphs ==
  {[Sound EXCEPT !.services = <<2, 3, 1>>, !.dependsOn = d, !.managed = {1, 3}, !.validated = v] :
     d \in [1 .. 3 -> Lists(1 .. 4, 2)], v \in BOOLEAN}

(* A chain of three services in every combination of owner, kind, check    *)
(* failed, subject and platform.                                           *)
AllServices ==
  {[Sound EXCEPT !.services = <<3, 1, 2>>, !.dependsOn = <<<<3>>, <<1>>, <<>>>>,
                 !.managed = m, !.adapters = a, !.fault = f,
                 !.subject = who, !.subjectFault = sf, !.platform = p,
                 !.workspace = w] :
     m \in SUBSET (1 .. 3), a \in SUBSET (1 .. 3),
     f \in {[s \in 1 .. 3 |-> IF s = bad THEN why ELSE None] : bad \in 1 .. 3, why \in Faults \cup {None}},
     w \in BOOLEAN, who \in {"External", "Managed"}, sf \in {None, "MissingSecret"},
     p \in {"Supported", "Unqualified"}}

(* What a service declares and takes, and what is wrong with it. *)
AllBindings ==
  {[Sound EXCEPT !.services = names, !.version = v, !.sources[2] = taken, !.declares[1] = d,
                 !.defect = [s \in 1 .. 3 |-> IF s = bad THEN what ELSE None],
                 !.managed = m, !.adapters = a, !.excess = many] :
     names \in {<<2, 1>>, <<1, 2, 1>>}, v \in {6, 7, 9}, taken \in {<<>>, <<1>>, <<1, 3>>},
     d \in SUBSET {"static_bindings", "http_url"}, bad \in 1 .. 2, what \in Defects \cup {None},
     m \in {{1, 2}, {2}}, a \in {{}, {2}}, many \in {{}, {"services"}}}

Probe(name, at, bad) == [id |-> name, target |-> at, flaw |-> bad, slow |-> FALSE]

MismatchGate ==
  [name |-> "expected_outcome_mismatch_rate", direction |-> "LowerIsBetter", intent |-> "Primary",
   range |-> TRUE, gate |-> "Zero"]

SomeMetrics ==
  [name : {"semantic_findings", "latency"},
   direction : {"LowerIsBetter", "TargetRange", "Informational"}, intent : {"Primary", "Diagnostic"},
   range : BOOLEAN, gate : {None, "Absolute", "NotFinite", "Relative"}]

(* Every optional part, present or not, empty or not, in every version. *)
AllFeatures ==
  {[Sound EXCEPT !.version = v, !.has = has, !.workload.kind = kind, !.seed = seeded,
                 !.faulty = faulty, !.subject = who,
                 !.diagnostics = IF full /\ "diagnostics" \in has THEN <<Probe(1, 1, None)>> ELSE <<>>,
                 !.security = IF full /\ "security_checks" \in has THEN <<Probe(1, 1, None)>> ELSE <<>>,
                 !.corpus = IF full /\ "http_corpus_checks" \in has THEN <<Probe(2, 1, None)>> ELSE <<>>,
                 !.metrics = IF kind = "HttpCorpus" THEN <<MismatchGate>> ELSE <<>>] :
     v \in 1 .. 11, has \in SUBSET Optional, kind \in {"FiniteCount", "SemanticReplay", "HttpCorpus"},
     seeded \in BOOLEAN, faulty \in BOOLEAN, who \in {"Label", "External"}, full \in BOOLEAN}

(* Diagnostics and checks under one or two names, aimed at a service, the  *)
(* external subject or nothing.                                            *)
AllRequests ==
  LET some == {<<>>} \cup {<<[id |-> i, target |-> t, flaw |-> None, slow |-> FALSE]>> : i \in 1 .. 2, t \in {1, 3, Outside}}
  IN  {[Sound EXCEPT !.has = Optional \ {"network_path", "paired"}, !.subject = who,
                     !.diagnostics = d, !.security = s, !.corpus = c, !.executors = e, !.corpora = readable,
                     !.workload.target = aim] :
         d \in some \cup {<<Probe(1, 1, None), Probe(1, 1, None)>>}, s \in some,
         c \in some, who \in {"Label", "External"}, e \in SUBSET {"diagnostics", "security", "corpus"},
         readable \in BOOLEAN, aim \in {1, Outside}}

(* One thing wrong with one of them. *)
AllFlaws ==
  LET odd(part) ==
        {[Sound EXCEPT !.has = Optional \ {"network_path", "paired"}, ![part] = <<r>>] :
           r \in [id : {1}, target : {1, 3}, flaw : {None, "invalid_bound", "unsupported_option"}, slow : BOOLEAN]}
  IN  odd("diagnostics") \cup odd("security") \cup odd("corpus")
      \cup {[Sound EXCEPT !.excess = {many}] :
              many \in {"diagnostics", "security_checks", "http_corpus_checks", "warmup", "metrics", "bounds"}}
      \cup {[Sound EXCEPT !.version = 3, !.has = {"network_path"}, !.pathFlaw = "unsupported_route"],
            [Sound EXCEPT !.subject = "Managed", !.subjectFault = "EmptyArgv"]}

(* Loads, arms, trials, timeouts and hooks, validated or not. *)
AllTrials ==
  {[Sound EXCEPT !.validated = v, !.has = has, !.measured = n, !.subject = who,
                 !.paired = [baseline |-> b, candidate |-> c, managed |-> m],
                 !.reset = [kind |-> k, target |-> t], !.timeouts = given] :
     v \in BOOLEAN, has \in {{}, {"paired"}}, n \in 1 .. 3, b \in {1, 2, 3}, c \in {1, 2, 3},
     who \in {"Label", "External"}, m \in SUBSET {"baseline", "candidate"},
     k \in {None, "Service", "Reference"}, t \in {1, 3},
     given \in {{"measurement", "drain"}, {"measurement", "drain", "reset"}, {"measurement"}, {"drain", "startup"}}}

AllLoads ==
  {[Sound EXCEPT !.version = v, !.workload = [kind |-> k, target |-> 1, mode |-> m, given |-> g, flaw |-> f],
                 !.metrics = metrics, !.corpora = readable] :
     v \in {9, 10}, k \in {"ClosedLoop", "OpenLoop", "FiniteCount", "TimeBounded", "SemanticReplay", "HttpCorpus"},
     m \in {"ClosedLoop", "OpenLoop"}, g \in SUBSET {"requests", "duration", "concurrency", "rate"},
     f \in {None, "invalid_fixture", "invalid_bound"}, metrics \in {<<>>, <<MismatchGate>>}, readable \in BOOLEAN}

AllMetrics ==
  {[Sound EXCEPT !.workload.kind = kind, !.metrics = metrics] :
     kind \in {"FiniteCount", "SemanticReplay"},
     metrics \in {<<m>> : m \in SomeMetrics} \cup {<<m, m>> : m \in SomeMetrics}}

AllPlans ==
  {AllGraphs, AllServices, AllBindings, AllFeatures, AllRequests, AllFlaws, AllTrials, AllLoads,
        AllMetrics}
=============================================================================
