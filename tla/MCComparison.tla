---------------------------- MODULE MCComparison ----------------------------
(***************************************************************************)
(* Plans, requests and measured trials comparisons are checked with.       *)
(***************************************************************************)
EXTENDS Comparison

Bare == NoPlan

Diagnostic == [phase : {"Pre", "Post", "Both"}, required : BOOLEAN]
Check == [host : {"127.0.0.1", "localhost"}, allowed : {0, 1}]

SmallPlans ==
  {[Bare EXCEPT !.diagnostics = d] : d \in UNION {[1 .. n -> Diagnostic] : n \in 1 .. 2}}
  \cup {[Bare EXCEPT !.checks = c, !.corpus = n] :
          c \in UNION {[1 .. n -> Check] : n \in 0 .. 2}, n \in 0 .. 1}
  \cup {[Bare EXCEPT !.path = TRUE], [Bare EXCEPT !.replay = TRUE], [Bare EXCEPT !.paired = TRUE],
        [Bare EXCEPT !.corpus = 2],
        [Bare EXCEPT !.replay = TRUE, !.corpus = 1, !.diagnostics = <<[phase |-> "Both", required |-> FALSE]>>]}

TwoProbes ==
  {[Bare EXCEPT !.diagnostics = <<[phase |-> "Both", required |-> TRUE],
                                  [phase |-> "Both", required |-> TRUE]>>]}

Gate(kind, direction, limit) ==
  [intent |-> "Primary", gate |-> kind, direction |-> direction, limit |-> limit, minTrials |-> 2]

SomeRequests ==
  {Gate("Relative", "Lower", 1), Gate("Relative", "Higher", 0), Gate("Relative", "TargetRange", 0),
   Gate("Statistical", "Higher", 1), Gate("Absolute", "Lower", 0), Gate("Absolute", "TargetRange", 0),
   [Gate(None, "Lower", 0) EXCEPT !.intent = "Diagnostic"]}

At(v) == [metrics |-> TRUE, completed |-> TRUE, unit |-> TRUE, aggregation |-> 1, value |-> v]
Unmeasured == [At(Absent) EXCEPT !.metrics = FALSE]
Failed(v) == [At(v) EXCEPT !.completed = FALSE]
OtherUnit(v) == [At(v) EXCEPT !.unit = FALSE]
OtherAggregation(v) == [At(v) EXCEPT !.aggregation = 2]

SomeTrials ==
  {<<At(0), At(0)>>, <<At(2), At(0)>>, <<At(2), At(2), At(3)>>, <<At(Zero), At(0)>>,
   <<At(Missing), At(1)>>, <<Failed(3), At(0), At(0)>>, <<Unmeasured>>, <<At(Absent), At(-4)>>,
   <<At(4)>>, <<OtherUnit(0), At(0)>>, <<OtherAggregation(0), At(0)>>}

PairedTrials == {<<a, b, c, d>> : a, b \in {At(0), At(2)}, c, d \in {At(0), Failed(0)}}
                \cup {<<At(Zero), At(4)>>, <<At(-4), At(4)>>, <<Unmeasured, At(Missing)>>}

SomeDifferences == {{}, {"path"}, {"security"}, {"subject"}, {"ComparisonCritical"}, {"WarningOnly"}, {"results"}}
=============================================================================
