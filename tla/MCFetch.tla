------------------------------ MODULE MCFetch -------------------------------
(***************************************************************************)
(* Workloads and network paths the native workload is checked with.        *)
(***************************************************************************)
EXTENDS Fetch

TwoWorkers == 0..1

Hop(scheme, endpoint) == [scheme |-> scheme, endpoint |-> endpoint]
Plain == [id |-> "delay", kind |-> "latency", average |-> 1, variation |-> 0]
Slice(id, variation) == [id |-> id, kind |-> "slice", average |-> 2, variation |-> variation]

All == {"workload", "route", "fault"}
Direct(faults) == [mode |-> "direct", chain |-> <<>>, faults |-> faults, configs |-> {"path"}, drivers |-> All]
Chain(hops, faults) == [Direct(faults) EXCEPT !.mode = "chain", !.chain = hops]

Faults == [planned |-> TRUE, up |-> <<Plain, Slice("cut", 1)>>, down |-> <<Plain>>]

Accepting == {Direct([NoFaults EXCEPT !.planned = TRUE]), Chain(<<Hop("socks4a", "good"), Hop("http", "good")>>, Faults)}

Refusing ==
  {Chain(<<>>, NoFaults), Chain(<<Hop("https", "good")>>, NoFaults), Chain(<<Hop("http", "portless")>>, NoFaults),
   Chain(<<Hop("http", "credentials")>>, NoFaults), Direct([Faults EXCEPT !.up = <<Plain, Plain>>]),
   Direct([Faults EXCEPT !.down = <<Slice("cut", 2)>>]),
   [Direct(Faults) EXCEPT !.configs = {"api_key"}], [Direct(Faults) EXCEPT !.drivers = {"workload", "route"}]}

Work(mode, total, concurrency, invocations) ==
  [mode |-> mode, total |-> total, concurrency |-> concurrency, invocations |-> invocations]

SomeAsked ==
  {<<Work("count", 2, 2, 1), Direct(Faults)>>, <<Work("count", 2, 2, 2), Direct(NoFaults)>>,
   <<Work("corpus", 3, 2, 2), NoPath>>, <<Work("deadline", 0, 2, 2), NoPath>>}
  \cup {<<Work("count", 2, 1, 2), p>> : p \in Accepting \cup Refusing}
=============================================================================
