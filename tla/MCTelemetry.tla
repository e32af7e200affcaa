---------------------------- MODULE MCTelemetry -----------------------------
(***************************************************************************)
(* Plans, snapshots and pages the telemetry of a run is checked with.      *)
(***************************************************************************)
EXTENDS Telemetry

At(form, host) == [form |-> form, host |-> host, resolves |-> "loopback"]

Field(name, kind, aggregation, required) ==
  [name |-> name, metric |-> name, kind |-> kind, aggregation |-> aggregation,
   labels |-> None, required |-> required]

Requests(required) == Field("requests", "counter", None, required)
Depth(policy, required) == Field("depth", "gauge", policy, required)

GreggRequest(required) ==
  [source |-> Gregg, required |-> required, sources |-> 1, configured |-> TRUE,
   endpoint |-> At("base", "loopback"), pinned |-> TRUE, mapping |-> <<>>,
   fields |-> {"host_cpu", "host_memory", "host_disk"}]

ScrapeRequest(required, mapping) ==
  [source |-> Prometheus, required |-> required, sources |-> 1, configured |-> TRUE,
   endpoint |-> At("path", "private"), pinned |-> TRUE, mapping |-> mapping,
   fields |-> MappedNames(mapping)]

Strict == ScrapeRequest(TRUE, <<Requests(TRUE), Depth("Mean", FALSE)>>)
Loose == ScrapeRequest(FALSE, <<Requests(FALSE), Depth("Max", TRUE)>>)
Other == [GreggRequest(FALSE) EXCEPT !.source = "other"]

(* One thing wrong with a request each. *)
Flawed(r) ==
  {[r EXCEPT !.sources = 0], [r EXCEPT !.sources = 2], [r EXCEPT !.configured = FALSE],
   [r EXCEPT !.endpoint = At("malformed", "loopback")], [r EXCEPT !.endpoint = At("base", "public")],
   [r EXCEPT !.endpoint = [At("base", "localhost") EXCEPT !.resolves = "elsewhere"]]}

FlawedScrape(r) ==
  Flawed(r) \cup
  {[r EXCEPT !.pinned = FALSE], [r EXCEPT !.fields = {}], [r EXCEPT !.fields = {"requests", "unmapped"}],
   [r EXCEPT !.mapping = <<Depth(None, TRUE)>>],
   [r EXCEPT !.mapping = <<Requests(TRUE), Depth("Min", TRUE), Requests(FALSE)>>]}

SomeRequests ==
  {<<Other, GreggRequest(TRUE)>>, <<[GreggRequest(FALSE) EXCEPT !.fields = {"host_cpu", "host_disk", "host_gpu"}], Strict>>, <<Loose>>, <<Strict, Strict>>, <<[GreggRequest(TRUE) EXCEPT !.fields = {"host_cpu", "host_gpu"}]>>,
   <<Strict, [Loose EXCEPT !.fields = {}]>>}
  \cup {<<r>> : r \in UNION {Flawed(GreggRequest(b)) \cup FlawedScrape([Strict EXCEPT !.required = b]) : b \in BOOLEAN}}

OneGregg == {<<GreggRequest(TRUE)>>}

Snapshot(time, values) == [status |-> 200, whole |-> TRUE, health |-> "Ready", schema |-> 2, valid |-> TRUE, time |-> time, values |-> values]
Basic == [host_cpu |-> 1, host_memory |-> 3]
Busy == [host_cpu |-> 4, host_memory |-> 2, host_disk |-> 5]

SomeSnapshots ==
  {Snapshot(1, Basic), Snapshot(2, Busy), [Snapshot(1, Basic) EXCEPT !.schema = 3],
   [Snapshot(1, Basic) EXCEPT !.valid = FALSE], [Snapshot(1, Basic) EXCEPT !.status = 503],
   [Snapshot(2, Busy) EXCEPT !.health = "Starting"]}

Line(metric, value) == [metric |-> metric, labels |-> None, value |-> value, form |-> "sample", finite |-> TRUE]
Page(lines) == [status |-> 200, whole |-> TRUE, types |-> <<[metric |-> "requests", kind |-> "counter"]>>, lines |-> lines]

SomePages ==
  {Page(<<Line("requests", 1), Line("depth", 2)>>), Page(<<Line("requests", 2)>>),
   Page(<<Line("depth", 0), Line("requests", 0)>>),
   Page(<<[Line("depth", 0) EXCEPT !.finite = FALSE]>>), Page(<<Line("requests", -1)>>),
   Page(<<Line("depth", 1), Line("depth", 1)>>),
   Page(<<[Line("depth", 1) EXCEPT !.labels = "worker"]>>),
   [Page(<<>>) EXCEPT !.types = <<[metric |-> "requests", kind |-> "gauge"]>>],
   [Page(<<>>) EXCEPT !.status = 404],
   [Page(<<Line("depth", 1)>>) EXCEPT !.whole = FALSE],
   Page(<<[Line("depth", 1) EXCEPT !.form = "split"]>>), Page(<<[Line("depth", 1) EXCEPT !.form = "labels"]>>)}
=============================================================================
