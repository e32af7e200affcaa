---------------------------- MODULE PathEvidence ----------------------------
(***************************************************************************)
(* The network path of a run as values: what the plan may ask              *)
(* (crates/eggbench-core/src/plan.rs, resolved.rs), its lowering to a      *)
(* dialer, the counters each dial records, and the evidence with its two   *)
(* readers (crates/eggbench-drivers/src/eggstack/path,                     *)
(* crates/eggbench-core/src/comparison.rs).                                *)
(*                                                                         *)
(* A path is [mode, chain, faults, configs, drivers]: the hops of a proxy  *)
(* chain, the stream faults by direction, the configuration keys of the    *)
(* services and the categories whose selected driver is the pinned one.    *)
(* Texts are the cases the code tells apart.  The Eggress and Eggchaos     *)
(* libraries are external: they parse what they canonicalise.              *)
(***************************************************************************)
EXTENDS Integers, Sequences, FiniteSets, FiniteSetsExt

CONSTANTS
  Labels,       \* kind, stage, hop and protocol of a route failure
  MaxBuckets,   \* MAX_ROUTE_FAILURE_KIND_BUCKETS
  MaxHops       \* hops of a chain, at most

ASSUME BucketsAssumption == MaxBuckets \in Nat \ {0} /\ MaxHops \in Nat

NoFaults == [planned |-> FALSE, up |-> <<>>, down |-> <<>>]
NoOrdinal == -1
NoSeed == -1

(* What a request is typed as: the chain of the mode, faults of unsigned   *)
(* parameters.                                                             *)
Typable(path) ==
  /\ path.mode \in {"none", "direct", "chain"} /\ Len(path.chain) \in 0..MaxHops
  /\ \A list \in {path.faults.up, path.faults.down} : \A i \in DOMAIN list :
       list[i].average \in Nat /\ list[i].variation \in Nat

-----------------------------------------------------------------------------
(* The contract of the plan. *)

EndpointOk(hop) == hop.endpoint \notin {"portless", "port zero", "bad host"}

HopOk(hop) ==
  /\ hop.scheme \in {"http", "socks4", "socks4a", "socks5"}
  /\ EndpointOk(hop)

FaultsOk(list) ==
  /\ Cardinality({list[i].id : i \in DOMAIN list}) = Len(list)
  /\ \A i \in DOMAIN list : list[i].kind = "slice" => list[i].variation < list[i].average

Contract(path) ==
  /\ path.mode = "chain" =>
       /\ path.chain # <<>>
       /\ \A i \in DOMAIN path.chain : path.chain[i].endpoint # "credentials"
       /\ \A i \in DOMAIN path.chain : HopOk(path.chain[i])
  /\ FaultsOk(path.faults.up) /\ FaultsOk(path.faults.down)

ConfigsOk(path) == path.configs \subseteq {"path", "body_bytes", "status"}

HasFaults(path) == path.faults.up # <<>> \/ path.faults.down # <<>>

Accepted(path, seeded) ==
  Contract(path) /\ ConfigsOk(path) /\ (HasFaults(path) => seeded)

(* The pinned drivers, for resolution and again for the lowering. *)
Pinned(path) == "route" \in path.drivers /\ (path.faults.planned => "fault" \in path.drivers)
Resolves(path) == "workload" \in path.drivers /\ Pinned(path)

-----------------------------------------------------------------------------
(* The lowering to a dialer. *)

(* The text Eggress gives a chain, and the one the comparison expects. *)
Canonical(chain) ==
  [i \in DOMAIN chain |->
     [chain[i] EXCEPT !.scheme = IF @ = "socks4a" THEN "socks4" ELSE @]]

RouteParses(chain) ==
  chain # <<>> /\ \A i \in DOMAIN chain : chain[i].scheme \in {"http", "socks4", "socks4a", "socks5"}

LowersKind(fault) == fault.kind = "slice" => fault.average > 0

LowersFaults(list) ==
  /\ \A i \in DOMAIN list : LowersKind(list[i])
  /\ Cardinality({list[i].id : i \in DOMAIN list}) = Len(list)

(* lower_dialer builds a dialer, or the run is refused before it starts. *)
Lowers(path, seeded) ==
  /\ Pinned(path) /\ Contract(path)
  /\ HasFaults(path) => seeded
  /\ path.mode = "chain" => RouteParses(path.chain)
  /\ LowersFaults(path.faults.up) /\ LowersFaults(path.faults.down)

Hops(path) == IF path.mode = "direct" THEN 0 ELSE Len(path.chain)

-----------------------------------------------------------------------------
(* SharedPathDiagnostics.  A bucket that was never counted is at zero. *)

NoDials ==
  [attempts |-> 0, ok |-> 0, wrapped |-> 0, unwrapped |-> 0, dropped |-> 0,
   failures |-> [l \in Labels |-> 0], hops |-> [h \in 0..MaxHops |-> 0], maxHops |-> 0,
   min |-> 0, max |-> 0, start |-> NoOrdinal, first |-> NoOrdinal, last |-> NoOrdinal]

Lesser(a, b) == IF a < b THEN a ELSE b
Greater(a, b) == IF a < b THEN b ELSE a

RecordAttempt(d) == [d EXCEPT !.attempts = @ + 1]

RecordDial(d, hops, ordinal) ==
  LET mine == d.start # NoOrdinal /\ ordinal >= d.start
  IN  [d EXCEPT
         !.ok = @ + 1,
         !.min = IF d.ok = 0 THEN ordinal ELSE Lesser(@, ordinal),
         !.max = Greater(@, ordinal),
         !.first = IF ~mine THEN @ ELSE IF @ = NoOrdinal THEN ordinal ELSE Lesser(@, ordinal),
         !.last = IF ~mine THEN @ ELSE IF @ = NoOrdinal THEN ordinal ELSE Greater(@, ordinal),
         !.maxHops = Greater(@, hops),
         !.hops[hops] = @ + 1]

Buckets(failures) == {l \in Labels : failures[l] > 0}

RecordFailure(d, label) ==
  IF Cardinality(Buckets(d.failures)) < MaxBuckets \/ d.failures[label] > 0
  THEN [d EXCEPT !.failures[label] = @ + 1]
  ELSE [d EXCEPT !.dropped = @ + 1]

RecordWrapped(d) == [d EXCEPT !.wrapped = @ + 1]
RecordUnwrapped(d) == [d EXCEPT !.unwrapped = @ + 1]

Snapshot(d) ==
  [attempts |-> d.attempts, ok |-> d.ok, wrapped |-> d.wrapped, unwrapped |-> d.unwrapped,
   dropped |-> d.dropped, failures |-> d.failures, hops |-> d.hops, maxHops |-> d.maxHops,
   min |-> IF d.ok = 0 THEN 0 ELSE d.min, max |-> IF d.ok = 0 THEN 0 ELSE d.max, count |-> d.ok]

(* Mutant of BeginInvocation: the range of ordinals is not reset. *)
BeginInvocationKeepsRange(d, next) == [d EXCEPT !.start = next]

BeginInvocation(d, next) == [d EXCEPT !.start = next, !.first = NoOrdinal, !.last = NoOrdinal]

Highest(hops) == Max({0} \cup {h \in DOMAIN hops : hops[h] > 0})
Known(ordinal) == IF ordinal = NoOrdinal THEN 0 ELSE ordinal

(* The sum of counts, as the number of the units counted.                  *)
Units(counts) == UNION {{x} \X (1..counts[x]) : x \in DOMAIN counts}
Total(counts) == Cardinality(Units(counts))

Difference(after, before) == [x \in DOMAIN after |-> Greater(after[x] - before[x], 0)]

(* invocation_delta: the counters since a snapshot, and the ordinals of    *)
(* this invocation.                                                        *)
Delta(d, before) ==
  LET now == Snapshot(d)
      ok == now.ok - before.ok
      hops == Difference(now.hops, before.hops)
  IN  [attempts |-> now.attempts - before.attempts, ok |-> ok,
       wrapped |-> now.wrapped - before.wrapped, unwrapped |-> now.unwrapped - before.unwrapped,
       dropped |-> now.dropped - before.dropped,
       failures |-> Difference(now.failures, before.failures), hops |-> hops,
       maxHops |-> Highest(hops),
       min |-> IF ok = 0 THEN 0 ELSE Known(d.first), max |-> IF ok = 0 THEN 0 ELSE Known(d.last),
       count |-> ok]

-----------------------------------------------------------------------------
(* network-path.json and its readers. *)

Evidence(path, seed, diagnostics) ==
  [mode |-> path.mode, route |-> path.chain,
   canonical |-> IF path.mode = "direct" THEN <<>> ELSE Canonical(path.chain),
   hops |-> Hops(path), faults |-> path.faults, driver |-> path.faults.planned,
   seed |-> IF HasFaults(path) THEN seed ELSE NoSeed,
   diagnostics |-> diagnostics]

CanonicalMatches(e) ==
  /\ e.canonical = IF e.mode = "direct" THEN <<>> ELSE Canonical(e.route)
  /\ e.hops = IF e.mode = "direct" THEN 0 ELSE Len(e.route)

Active(e) == e.faults.up # <<>> \/ e.faults.down # <<>>

(* The counting laws both readers check. *)
DiagnosticsMatch(e) ==
  LET d == e.diagnostics IN
  /\ d.dropped <= d.attempts
  /\ Cardinality(Buckets(d.failures)) <= MaxBuckets
  /\ \A h \in DOMAIN d.hops : d.hops[h] > 0 => h <= e.hops
  /\ Total(d.hops) = d.ok
  /\ d.maxHops = Highest(d.hops)
  /\ d.ok <= d.attempts
  /\ d.wrapped + d.unwrapped = IF Active(e) THEN d.ok ELSE 0
  /\ d.count = d.ok
  /\ d.ok = 0 => d.min = 0 /\ d.max = 0
  /\ d.min <= d.max

(* NetworkPathEvidence::validate, when the evidence is made and inspected. *)
Valid(e) ==
  /\ CanonicalMatches(e)
  /\ e.driver = e.faults.planned
  /\ Active(e) => e.seed # NoSeed
  /\ DiagnosticsMatch(e)

(* The reader of the comparison knows the resolved plan too. *)
Stored(e, path, seed) ==
  /\ e.mode = path.mode /\ e.route = path.chain
  /\ CanonicalMatches(e)
  /\ e.driver = path.faults.planned /\ e.faults = path.faults
  /\ e.seed = IF Active(e) THEN seed ELSE NoSeed
  /\ DiagnosticsMatch(e)
=============================================================================
