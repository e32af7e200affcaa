------------------------------- MODULE Scrape -------------------------------
(***************************************************************************)
(* What one answer of a telemetry endpoint is taken for, and what a window *)
(* of answers is worth: the pure half of the two collectors               *)
(* (crates/eggbench-drivers/src/gregg and prometheus_http.rs) and of their *)
(* construction (crates/eggbench-cli/src/workload_registry.rs).            *)
(*                                                                         *)
(* Abstracted: text (an exposition is its type and sample lines, each with *)
(* what is wrong with it; a URL is its form and host), units, and floats:  *)
(* a mean is <<sum, count>>.                                               *)
(***************************************************************************)
EXTENDS Integers, Sequences, FiniteSets, SequencesExt

CONSTANT Retained    \* samples a window keeps: 256 of Gregg, 512 of Prometheus

ASSUME RetainedAssumption == Retained \in Nat \ {0}

Gregg == "gregg"
Prometheus == "prometheus-http"
None == "None"

(* The metrics of the Gregg daemon by how a trial aggregates them; only    *)
(* some are in every snapshot.                                             *)
HostMetrics == [host_cpu |-> "Mean", host_memory |-> "Max", host_disk |-> "Mean"]

(* check_loopback, and validate_private_endpoint for the other collector.  *)
LoopbackOnly(e) == e.host = "loopback" \/ (e.host = "localhost" /\ e.resolves = "loopback")

PrivateOnly(e) ==
  \/ e.host \in {"loopback", "private"}
  \/ e.host \in {"localhost", "sub.localhost"} /\ e.resolves = "loopback"

(* resolve: the one telemetry driver of a plan, and the fields it has.     *)
Selected(list) ==
  LET sources == {list[i].source : i \in DOMAIN list} IN
  IF sources = {Prometheus} THEN Prometheus ELSE Gregg

Capabilities(driver) == IF driver = Gregg THEN DOMAIN HostMetrics ELSE {}

Unsupported(list) ==
  \E i \in DOMAIN list :
    /\ list[i].required /\ list[i].source # Prometheus
    /\ ~(list[i].fields \subseteq Capabilities(Selected(list)))

GreggEndpoint(e) == e.form = "base" /\ LoopbackOnly(e)
PrometheusEndpoint(e) == e.form \in {"base", "path"} /\ PrivateOnly(e)

(* validate_mapping. *)
MappingValid(fields) ==
  /\ fields # <<>>
  /\ \A i \in DOMAIN fields : (fields[i].kind = "gauge") = (fields[i].aggregation # None)
  /\ \A i, j \in DOMAIN fields : fields[i].name = fields[j].name => i = j

MappedNames(fields) == {fields[i].name : i \in DOMAIN fields}

(* load_prometheus_mapping: the workspace file is the one that was pinned. *)
MappingLoads(r) == r.pinned /\ MappingValid(r.mapping)

GreggBuilds(r) == r.sources = 1 /\ r.configured /\ GreggEndpoint(r.endpoint)

PrometheusBuilds(r) ==
  /\ r.sources = 1 /\ r.configured
  /\ MappingLoads(r)
  /\ PrometheusEndpoint(r.endpoint)
  /\ r.fields # {} /\ r.fields \subseteq MappedNames(r.mapping)

Builds(r) ==
  \/ r.source = Gregg /\ GreggBuilds(r)
  \/ r.source = Prometheus /\ PrometheusBuilds(r)

(* The fields a Prometheus collector keeps of its mapping. *)
Kept(r) == {f \in ToSet(r.mapping) : f.name \in r.fields}

(* A sample line that carries a field. *)
Carries(line, f) == line.metric = f.metric /\ line.labels = f.labels

(* split_sample_line and parse_sample_name_labels can read a line. *)
Split(line) == line.form # "split"
Labelled(line) == line.form # "labels"

(* parse_exposition refuses the page as a whole. *)
PageRejected(page, fields) ==
  \/ \E i, j \in DOMAIN page.types : i # j /\ page.types[i].metric = page.types[j].metric
  \/ \E i \in DOMAIN page.lines : LET line == page.lines[i] IN
       ~Split(line) \/ ~line.finite \/ ~Labelled(line)
  \/ \E f \in fields :
       \/ \E i \in DOMAIN page.types :
            page.types[i].metric = f.metric /\ page.types[i].kind # f.kind
       \/ \E i \in DOMAIN page.lines : LET line == page.lines[i] IN
            \/ line.metric = f.metric /\ f.labels = None /\ line.labels # None
            \/ Carries(line, f) /\ f.kind = "counter" /\ line.value < 0
            \/ \E j \in DOMAIN page.lines : i # j /\ Carries(line, f) /\ Carries(page.lines[j], f)

ParsedPage(page, fields) ==
  LET line(f) == {i \in DOMAIN page.lines : Carries(page.lines[i], f)}
      field(n) == CHOOSE f \in fields : f.name = n
  IN  [n \in {f.name : f \in {g \in fields : line(g) # {}}} |->
         page.lines[CHOOSE i \in line(field(n)) : TRUE].value]

(* fetch_sample: a status snapshot that is not of this schema, or invalid. *)
SnapshotRejected(s) == s.schema # 2 \/ ~s.valid

Transferred(answer) == answer.status \in 200 .. 299 /\ answer.whole

Rejected(r, answer) ==
  \/ ~Transferred(answer)
  \/ r.source = Gregg /\ SnapshotRejected(answer)
  \/ r.source = Prometheus /\ PageRejected(answer, Kept(r))

Sample(r, answer) ==
  IF r.source = Gregg
  THEN [time |-> answer.time, values |-> answer.values]
  ELSE [time |-> 0, values |-> ParsedPage(answer, Kept(r))]

(* preflight: what a first sample must show.  The daemon answers for its   *)
(* health before.                                                          *)
Healthy(answer) == answer.health = "Ready"

Probed(r, answer) ==
  /\ ~Rejected(r, answer)
  /\ r.source = Gregg => Healthy(answer)
  /\ r.source = Prometheus =>
       \A f \in Kept(r) : f.required => f.name \in DOMAIN Sample(r, answer).values

(* The window a trial opens.  seen and lost are history: every sample the  *)
(* collector took in the window, and how many it could not take.           *)
Fresh(r, first) ==
  IF r.source = Gregg
  THEN [base |-> <<>>, samples |-> <<first>>, dropped |-> 0, errors |-> 0, seen |-> <<first>>, lost |-> 0]
  ELSE [base |-> first.values, samples |-> <<>>, dropped |-> 0, errors |-> 0, seen |-> <<>>, lost |-> 0]

(* push_sample refuses what is over the cap, push_snapshot forgets the     *)
(* oldest.                                                                 *)
GreggPush(w, s) ==
  IF Len(w.samples) >= Retained
  THEN [w EXCEPT !.dropped = @ + 1]
  ELSE [w EXCEPT !.samples = Append(@, s)]

(* Mutant of PrometheusPush: the eviction is not counted. *)
PrometheusPushUncounted(w, s) ==
  IF Len(w.samples) >= Retained
  THEN [w EXCEPT !.samples = Append(Tail(@), s)]
  ELSE [w EXCEPT !.samples = Append(@, s)]

PrometheusPush(w, s) ==
  IF Len(w.samples) >= Retained
  THEN [w EXCEPT !.samples = Append(Tail(@), s), !.dropped = @ + 1]
  ELSE [w EXCEPT !.samples = Append(@, s)]

Push(source, w, s) ==
  LET kept == IF source = Gregg THEN GreggPush(w, s) ELSE PrometheusPush(w, s)
  IN  [kept EXCEPT !.seen = Append(@, s)]

(* The elements of a list at some positions, in their order. *)
Nth(positions, k) == CHOOSE i \in positions : Cardinality({j \in positions : j <= i}) = k
Picked(list, positions) == [k \in 1 .. Cardinality(positions) |-> list[Nth(positions, k)]]

(* deduplicate: of the samples with one daemon timestamp, the first. *)
Deduplicated(samples) ==
  Picked(samples, {i \in DOMAIN samples : \A j \in 1 .. i - 1 : samples[j].time # samples[i].time})

ValuesOf(samples, name) ==
  LET carrying == Picked(samples, {i \in DOMAIN samples : name \in DOMAIN samples[i].values})
  IN  [i \in DOMAIN carrying |-> carrying[i].values[name]]

Aggregate(policy, values) ==
  CASE policy = "Mean" -> <<FoldLeft(LAMBDA a, b : a + b, 0, values), Len(values)>>
    [] policy = "Max" -> Max(ToSet(values))
    [] policy = "Min" -> Min(ToSet(values))

(* aggregate_metrics: absent optional fields stay missing.                 *)
HostOutput(r, w) ==
  LET unique == Deduplicated(w.samples)
      measured == {n \in r.fields \cap DOMAIN HostMetrics : ValuesOf(unique, n) # <<>>}
  IN  [n \in measured |-> Aggregate(HostMetrics[n], ValuesOf(unique, n))]

(* counter_delta: from the start snapshot to the last retained sample.     *)
CounterRun(f, w) == <<w.base[f.name]>> \o ValuesOf(w.samples, f.name)

(* Mutant of CounterReset: the start snapshot is not compared. *)
CounterResetInWindow(f, w) ==
  /\ f.name \in DOMAIN w.base
  /\ LET run == ValuesOf(w.samples, f.name) IN \E i \in 1 .. Len(run) - 1 : run[i + 1] < run[i]

CounterReset(f, w) ==
  /\ f.name \in DOMAIN w.base
  /\ LET run == CounterRun(f, w) IN \E i \in 1 .. Len(run) - 1 : run[i + 1] < run[i]
CounterDelta(f, w) == Last(CounterRun(f, w)) - w.base[f.name]

(* A required field must be in every retained sample of a whole window. *)
RequiredGap(f, w) ==
  /\ f.required
  /\ \/ w.errors > 0 \/ w.dropped > 0
     \/ \E i \in DOMAIN w.samples : f.name \notin DOMAIN w.samples[i].values

Measurable(f, w) ==
  IF f.kind = "gauge" THEN ValuesOf(w.samples, f.name) # <<>>
  ELSE f.name \in DOMAIN w.base /\ ~CounterReset(f, w)

Reported(f, w) == ~RequiredGap(f, w) /\ Measurable(f, w)

(* stop_inner ends in required_metric_invalid. *)
RequiredInvalid(r, w) ==
  /\ r.source = Prometheus
  /\ \E f \in Kept(r) : f.required /\ ~Reported(f, w)

FieldValue(f, w) ==
  IF f.kind = "gauge" THEN Aggregate(f.aggregation, ValuesOf(w.samples, f.name)) ELSE CounterDelta(f, w)

ScrapeOutput(r, w) ==
  LET fields == Kept(r)
      named(n) == CHOOSE f \in fields : f.name = n
  IN  [n \in {f.name : f \in {g \in fields : Reported(g, w)}} |-> FieldValue(named(n), w)]

(* The metrics a stopped window gives its trial. *)
Output(r, w) == IF r.source = Gregg THEN HostOutput(r, w) ELSE ScrapeOutput(r, w)
=============================================================================
