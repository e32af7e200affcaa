-------------------------- MODULE ComparisonProofs --------------------------
(***************************************************************************)
(* Proofs about the verdict of a comparison, for every plan, every list of *)
(* requests and every measured trial.                                      *)
(***************************************************************************)
EXTENDS Comparison, SequenceTheorems, FiniteSetTheorems, WellFoundedInduction, TLAPS

Dispositioned == {"Pass", "Fail", "Inconclusive", "Invalid", "Descriptive", "panic"}

(* A gate is judged, and only a primary metric has one. *)
JudgedInv ==
  /\ \E S : metrics \in Seq(S)
  /\ \A k \in DOMAIN metrics :
       /\ metrics[k].disposition \in Dispositioned \cup {None}
       /\ metrics[k].gate # None => metrics[k].intent = "Primary" /\ metrics[k].disposition # None
  /\ (\E k \in DOMAIN metrics : metrics[k].disposition = "panic") => exit = "panic"

(* The exit code comes last, and a success from the verdict. *)
ExitInv ==
  /\ exit # None => stage = "done"
  /\ stage \in {"baseline", "metrics", "write"} => candidate.correctness \in {None, "Pass", "Fail", "Invalid"}
  /\ stage = "write" => verdict = Combined(Performance, candidate.correctness)
  /\ exit = "Success" =>
       /\ verdict \in {None, "Pass"}
       /\ verdict = Combined(Performance, candidate.correctness)
       /\ candidate.correctness \in {None, "Pass", "Fail", "Invalid"}

ReceiptInv == JudgedInv /\ ExitInv

LEMMA InitReceipt == Init => ReceiptInv
<1>1. <<>> \in Seq({}) /\ DOMAIN <<>> = {}
  BY EmptySeq
<1> QED
  BY <1>1 DEF Init, InputInit, ReceiptInv, JudgedInv, ExitInv, None

(* The run and the load touch nothing of the comparison and do not end in  *)
(* one of its stages.                                                      *)
InputStages ==
  {"Pre", "Checks", "Corpus", "Trials", "Post", "Index", "unpublished", "network_path", "replay",
   "diagnostics", "security", "loaded", "refused"}

LEMMA InputSteps == InputNext => stage \in InputStages /\ stage' \in InputStages
<1> SUFFICES ASSUME InputNext PROVE stage \in InputStages /\ stage' \in InputStages
  OBVIOUS
<1>1. CASE Cancel
  BY <1>1 DEF Cancel, InputStages
<1>2. CASE \E slot \in {"Pre", "Post"} : SlotEnds(slot)
  BY <1>2 DEF SlotEnds, Leave, AfterSlot, InputStages
<1>3. CASE \E slot \in {"Pre", "Post"} : SkipDiagnostic(slot) \/ InterruptDiagnostic(slot)
  BY <1>3 DEF SkipDiagnostic, InterruptDiagnostic, Leave, InputStages
<1>4. CASE \E slot \in {"Pre", "Post"} : RunDiagnostic(slot)
  BY <1>4 DEF RunDiagnostic, Leave, InputStages
<1>5. CASE RunCheck \/ RunCorpusCheck
  BY <1>5 DEF RunCheck, RunCorpusCheck, Leave, InputStages
<1>6. CASE ChecksEnd \/ RunTrials
  BY <1>6 DEF ChecksEnd, RunTrials, Leave, InputStages
<1>7. CASE StageIndexes
  BY <1>7 DEF StageIndexes, Leave, InputStages
<1>8. CASE LoadNetworkPath \/ LoadReplay \/ LoadDiagnostics \/ LoadSecurity
  BY <1>8 DEF LoadNetworkPath, LoadReplay, LoadDiagnostics, LoadSecurity, Continue, Refuse, InputStages
<1> QED
  BY <1>1, <1>2, <1>3, <1>4, <1>5, <1>6, <1>7, <1>8 DEF InputNext

(* Every evaluation ends in a disposition, but for a metric without gate.  *)
Judges(request, r) ==
  r.disposition \in Dispositioned \cup {None} /\ (request.gate # None => r.disposition # None)

LEMMA UnpairJudges ==
  ASSUME NEW request, NEW left, NEW right, NEW r \in Unpair(request, left, right)
  PROVE  Judges(request, r)
<1>1. \A i, l : ByInterval(i, l) \in Dispositioned /\ ByInterval(i, l) # None
  BY DEF ByInterval, Dispositioned, None
<1>2. ASSUME NEW a, NEW v, a = Absolute(request, v) PROVE a.disposition \in Dispositioned /\ a.disposition # None
  BY <1>2 DEF Absolute, Record, Invalid, Dispositioned, None
<1>3. \A c, b : /\ RelativeRegression(request, c, b).disposition \in Dispositioned
               /\ RelativeRegression(request, c, b).disposition # None
  <2>1. \A c, b : RelativeRegression(request, c, b)
                  \in {Record("panic", None), Record("Pass", None), Record("Fail", None)}
    BY Zenon DEF RelativeRegression
  <2> QED
    BY <2>1 DEF Record, Dispositioned, None
<1>4. ASSUME NEW c, NEW b, NEW a \in StatisticalRelative(request, c, b)
      PROVE  a.disposition \in Dispositioned /\ a.disposition # None
  <2>1. \/ \E reason : a = Invalid(reason)
        \/ \E i, l, reason : a = Record(ByInterval(i, l), reason)
    BY <1>4, Zenon DEF StatisticalRelative
  <2> QED
    BY <1>1, <2>1 DEF Record, Invalid, Dispositioned, None
<1>5. ASSUME NEW a \in Relative(request, left, right) PROVE a.disposition \in Dispositioned /\ a.disposition # None
  BY <1>3, <1>4, <1>5 DEF Relative, Record, Invalid, Dispositioned, None
<1> QED
  BY <1>2, <1>5 DEF Unpair, Judges, Record, Invalid, Dispositioned, None

LEMMA PairUpJudges ==
  ASSUME NEW request, NEW trials, NEW r \in PairUp(request, trials)
  PROVE  Judges(request, r)
<1>1. \A i, l : ByInterval(i, l) \in Dispositioned /\ ByInterval(i, l) # None
  BY DEF ByInterval, Dispositioned, None
<1> QED
  BY <1>1 DEF PairUp, Judges, Record, Invalid, Dispositioned, None

(* The record of one metric is appended to the others.                     *)
LEMMA Appended ==
  ASSUME NEW list, \E S : list \in Seq(S), NEW e
  PROVE  /\ \E S : Append(list, e) \in Seq(S)
         /\ \A k \in DOMAIN Append(list, e) :
              (k \in DOMAIN list /\ Append(list, e)[k] = list[k]) \/ Append(list, e)[k] = e
<1>1. PICK S : list \in Seq(S)
  OBVIOUS
<1>2. list \in Seq(S \cup {e})
  BY <1>1
<1>3. /\ Append(list, e) \in Seq(S \cup {e})
      /\ Len(list) \in Nat /\ Len(Append(list, e)) = Len(list) + 1
      /\ Append(list, e)[Len(list) + 1] = e
      /\ \A k \in 1 .. Len(list) : Append(list, e)[k] = list[k]
  BY <1>2, AppendProperties, LenProperties
<1>4. DOMAIN list = 1 .. Len(list) /\ DOMAIN Append(list, e) = 1 .. Len(list) + 1
  BY <1>2, <1>3, LenProperties
<1> QED
  BY <1>3, <1>4

LEMMA JudgedKept == ReceiptInv /\ [Next]_vars => JudgedInv'
<1> SUFFICES ASSUME ReceiptInv, [Next]_vars PROVE JudgedInv'
  OBVIOUS
<1>1. JudgedInv /\ ExitInv
  BY DEF ReceiptInv
<1>2. ASSUME metrics' = metrics, exit' = exit \/ exit = None PROVE JudgedInv'
  BY <1>1, <1>2 DEF JudgedInv, None
<1>3. CASE InputNext /\ UNCHANGED compareVars
  BY <1>2, <1>3 DEF compareVars
<1>4. CASE Start \/ LoadBaseline \/ Aggregate \/ Present
  BY <1>1, <1>2, <1>4 DEF Start, LoadBaseline, Aggregate, Present, ExitInv
<1>5. CASE EvaluateMetric
  <2>1. exit = None
    BY <1>1, <1>5 DEF EvaluateMetric, ExitInv
  <2>2. PICK request, e, r :
          /\ request \in Requests /\ Judges(request, r)
          /\ metrics' = Append(metrics, e)
          /\ e.intent = request.intent /\ e.gate = request.gate /\ e.disposition = r.disposition
          /\ r.disposition = "panic" => exit' = "panic"
    <3>1. PICK request, left, right, r :
            /\ request \in Requests /\ r \in Outcomes(request, left, right)
            /\ metrics' = Append(metrics, Evaluated(request, left, right, r))
            /\ IF r.disposition = "panic" THEN Exit("panic") ELSE UNCHANGED <<stage, exit>>
      BY <1>5, Zenon DEF EvaluateMetric
    <3>2. Judges(request, r)
      BY <3>1, PairUpJudges, UnpairJudges, Zenon DEF Outcomes
    <3> DEFINE e == Evaluated(request, left, right, r)
    <3>3. e.intent = request.intent /\ e.gate = request.gate /\ e.disposition = r.disposition
      BY DEF Evaluated
    <3>4. r.disposition = "panic" => exit' = "panic"
      BY <3>1, Zenon DEF Exit
    <3> QED
      BY <3>1, <3>2, <3>3, <3>4, Zenon
  <2>3. request.gate # None => request.intent = "Primary"
    BY <2>2, RequestsAssumption
  <2>4. /\ \E S : metrics' \in Seq(S)
        /\ \A k \in DOMAIN metrics' : (k \in DOMAIN metrics /\ metrics'[k] = metrics[k]) \/ metrics'[k] = e
    BY <1>1, <2>2, Appended DEF JudgedInv
  <2>5. \A k \in DOMAIN metrics : metrics[k].disposition # "panic"
    BY <1>1, <2>1 DEF JudgedInv, None
  <2> QED
    BY <1>1, <2>2, <2>3, <2>4, <2>5 DEF JudgedInv, Judges
<1>6. CASE vars' = vars
  BY <1>2, <1>6 DEF vars, compareVars
<1> QED
  BY <1>3, <1>4, <1>5, <1>6 DEF Next

LEMMA ExitKept == ReceiptInv /\ [Next]_vars => ExitInv'
<1> SUFFICES ASSUME ReceiptInv, [Next]_vars PROVE ExitInv'
  OBVIOUS
<1>1. ExitInv
  BY DEF ReceiptInv
<1>2. ASSUME UNCHANGED <<metrics, candidate>>
      PROVE  Combined(Performance, candidate.correctness)' = Combined(Performance, candidate.correctness)
  <2>1. Dispositions' = Dispositions
    BY <1>2 DEF Dispositions
  <2>2. Performance' = Performance
    BY <2>1 DEF Performance
  <2> QED
    BY <1>2, <2>2 DEF Combined
<1>3. CASE InputNext /\ UNCHANGED compareVars
  <2>1. stage \notin {"done", "baseline", "metrics", "write"} /\ stage' \notin {"done", "baseline", "metrics", "write"}
    BY <1>3, InputSteps DEF InputStages
  <2> QED
    BY <1>1, <1>3, <2>1 DEF ExitInv, compareVars, None
<1>4. CASE Start
  <2>1. Correctness \in {None, "Pass", "Fail", "Invalid"}
    BY DEF Correctness
  <2>2. exit = None
    BY <1>1, <1>4 DEF Start, ExitInv
  <2> QED
    BY <1>4, <2>1, <2>2 DEF Start, Exit, ExitInv, None
<1>5. CASE LoadBaseline
  BY <1>1, <1>5 DEF LoadBaseline, Exit, ExitInv, None
<1>6. CASE EvaluateMetric
  <2>1. stage = "metrics" /\ UNCHANGED <<candidate, verdict>>
    BY <1>6, Zenon DEF EvaluateMetric
  <2>2. (stage' = "done" /\ exit' = "panic") \/ UNCHANGED <<stage, exit>>
    BY <1>6, Zenon DEF EvaluateMetric, Exit
  <2> QED
    BY <1>1, <2>1, <2>2 DEF ExitInv, None
<1>7. CASE Aggregate
  <2>1. stage = "metrics" /\ stage' = "write" /\ UNCHANGED <<metrics, candidate, exit>>
        /\ verdict' = Combined(Performance, candidate.correctness)
    BY <1>7 DEF Aggregate
  <2> QED
    BY <1>1, <1>2, <2>1 DEF ExitInv, None
<1>8. CASE Present
  <2>1. /\ stage = "write" /\ stage' = "done" /\ UNCHANGED <<metrics, candidate, verdict>>
        /\ exit' = "Success" => verdict \in {None, "Pass"}
    BY <1>8 DEF Present, Exit
  <2> QED
    BY <1>1, <1>2, <2>1 DEF ExitInv
<1>9. CASE vars' = vars
  <2>1. UNCHANGED <<stage, exit, metrics, candidate, verdict>>
    BY <1>9 DEF vars, inputVars, compareVars
  <2> QED
    BY <1>1, <1>2, <2>1 DEF ExitInv
<1> QED
  BY <1>3, <1>4, <1>5, <1>6, <1>7, <1>8, <1>9 DEF Next

(* The precedence of the verdicts. *)
LEMMA Precedence ==
  ASSUME candidate.correctness \in {None, "Pass", "Fail", "Invalid"},
         Combined(Performance, candidate.correctness) \in {None, "Pass"}
  PROVE  /\ Dispositions \cap {"Invalid", "Fail", "Inconclusive"} = {}
         /\ candidate.correctness \in {None, "Pass"}
         /\ (Combined(Performance, candidate.correctness) = "Pass")
              = ("Pass" \in Dispositions \/ candidate.correctness = "Pass")
<1>1. /\ Performance \notin {"Invalid", "Fail", "Inconclusive"}
      /\ candidate.correctness \notin {"Invalid", "Fail", "Inconclusive"}
  BY DEF Combined, None
<1>2. Dispositions \cap {"Invalid", "Fail", "Inconclusive"} = {}
  BY <1>1 DEF Performance
<1>3. Performance = IF "Pass" \in Dispositions THEN "Pass" ELSE None
  BY <1>2 DEF Performance
<1> QED
  BY <1>1, <1>2, <1>3 DEF Combined, None

(* The exit code 0 of a comparison is earned: every gate held or was only  *)
(* described, correctness did not fail, and a passing verdict has          *)
(* something that passed (aggregate, combine_verdicts, present_receipt).   *)
THEOREM VerdictIsEarned == Spec => []VerdictEarned
<1>1. ReceiptInv => VerdictEarned
  <2> SUFFICES ASSUME ReceiptInv, exit = "Success"
               PROVE  /\ \A k \in DOMAIN metrics :
                           metrics[k].gate # None => metrics[k].disposition \in {"Pass", "Descriptive"}
                      /\ candidate.correctness \in {None, "Pass"}
                      /\ (verdict = "Pass") = ("Pass" \in Dispositions \/ candidate.correctness = "Pass")
    BY DEF VerdictEarned
  <2>1. /\ Dispositions \cap {"Invalid", "Fail", "Inconclusive"} = {}
        /\ candidate.correctness \in {None, "Pass"}
        /\ (verdict = "Pass") = ("Pass" \in Dispositions \/ candidate.correctness = "Pass")
    BY Precedence DEF ReceiptInv, ExitInv
  <2>2. ASSUME NEW k \in DOMAIN metrics, metrics[k].gate # None
        PROVE  metrics[k].disposition \in {"Pass", "Descriptive"}
    <3>1. /\ metrics[k].disposition \in Dispositioned
          /\ metrics[k].disposition \in Dispositions
          /\ metrics[k].disposition # "panic"
      BY <2>2 DEF ReceiptInv, JudgedInv, Dispositions
    <3> QED
      BY <2>1, <3>1 DEF Dispositioned
  <2> QED
    BY <2>1, <2>2
<1>2. ReceiptInv /\ [Next]_vars => ReceiptInv'
  BY JudgedKept, ExitKept DEF ReceiptInv
<1> QED
  BY <1>1, <1>2, InitReceipt, PTL DEF Spec

(***************************************************************************)
(* The pairs of a paired run.                                              *)
(***************************************************************************)
Neighbours(set) == {<<n, n - 1>> : n \in {m \in set : m % 2 = 0 /\ m - 1 \in set}}

(* Two trials have one pair id and different arms just when the candidate  *)
(* is the even one and the baseline the one before.                        *)
LEMMA ArmsOfPair ==
  ASSUME NEW c \in Nat, NEW b \in Nat
  PROVE  /\ PairedAssignment(c).arm = "Candidate" <=> c % 2 = 0
         /\ PairedAssignment(b).arm = "Baseline" <=> b % 2 # 0
         /\ c % 2 = 0 /\ b % 2 # 0 => (PairedAssignment(c).pair = PairedAssignment(b).pair <=> b = c - 1)
<1>1. PairedAssignment(c).arm = "Candidate" <=> c % 2 = 0
  BY DEF PairedAssignment
<1>2. PairedAssignment(b).arm = "Baseline" <=> b % 2 # 0
  BY DEF PairedAssignment
<1>3. PairedAssignment(c).pair = (c + 1) \div 2 /\ PairedAssignment(b).pair = (b + 1) \div 2
  BY DEF PairedAssignment
<1>4. c % 2 = 0 /\ b % 2 # 0 => ((c + 1) \div 2 = (b + 1) \div 2 <=> b = c - 1)
  OBVIOUS
<1> QED
  BY <1>1, <1>2, <1>3, <1>4

LEMMA PairsOfTrials ==
  ASSUME NEW trials, DOMAIN trials \subseteq Nat
  PROVE  CompletePairs(trials) = Neighbours(Counted(trials))
<1>1. /\ Arm(trials, "Candidate") = {n \in Counted(trials) : n % 2 = 0}
      /\ Arm(trials, "Baseline") = {n \in Counted(trials) : n % 2 # 0}
  BY ArmsOfPair DEF Arm, Counted
<1>2. ASSUME NEW p \in CompletePairs(trials) PROVE p \in Neighbours(Counted(trials))
  <2>1. PICK c \in Arm(trials, "Candidate"), b \in Arm(trials, "Baseline") :
          p = <<c, b>> /\ PairedAssignment(c).pair = PairedAssignment(b).pair
    BY <1>2 DEF CompletePairs
  <2>2. b = c - 1
    BY <1>1, <2>1, ArmsOfPair DEF Counted
  <2> QED
    BY <1>1, <2>1, <2>2 DEF Neighbours
<1>3. ASSUME NEW p \in Neighbours(Counted(trials)) PROVE p \in CompletePairs(trials)
  <2>1. PICK c \in Counted(trials) : p = <<c, c - 1>> /\ c % 2 = 0 /\ c - 1 \in Counted(trials)
    BY <1>3 DEF Neighbours
  <2>2. c \in Nat /\ c - 1 \in Nat /\ (c - 1) % 2 # 0
    BY <2>1 DEF Counted
  <2>3. PairedAssignment(c).pair = PairedAssignment(c - 1).pair
    BY <2>1, <2>2, ArmsOfPair
  <2>4. c \in Arm(trials, "Candidate") /\ c - 1 \in Arm(trials, "Baseline")
    BY <1>1, <2>1, <2>2
  <2>5. /\ <<c, c - 1>> \in Arm(trials, "Candidate") \X Arm(trials, "Baseline")
        /\ <<c, c - 1>>[1] = c /\ <<c, c - 1>>[2] = c - 1
    BY <2>4
  <2> QED
    BY <2>1, <2>3, <2>5 DEF CompletePairs
<1> QED
  BY <1>2, <1>3

PairsInv == \A k \in DOMAIN metrics : metrics[k].pairs = Neighbours(metrics[k].measured)

LEMMA PairsKept == ReceiptInv /\ PairsInv /\ [Next]_vars => PairsInv'
<1> SUFFICES ASSUME ReceiptInv, PairsInv, [Next]_vars PROVE PairsInv'
  OBVIOUS
<1>1. ASSUME metrics' = metrics PROVE PairsInv'
  BY <1>1 DEF PairsInv
<1>2. CASE EvaluateMetric
  <2>1. PICK request, left, right, r :
          /\ request \in Requests /\ left \in Left(request)
          /\ metrics' = Append(metrics, Evaluated(request, left, right, r))
    BY <1>2, Zenon DEF EvaluateMetric
  <2> DEFINE e == Evaluated(request, left, right, r)
  <2>2. DOMAIN left \subseteq Nat
    <3>1. left = <<>> \/ left \in Seq(Observation)
      BY <2>1, TrialsAssumption DEF Left, TrialsOf
    <3> QED
      BY <3>1, LenProperties
  <2>3. /\ e.measured = IF candidate.paired THEN Counted(left) ELSE {}
        /\ e.pairs = IF candidate.paired THEN CompletePairs(left) ELSE {}
    BY DEF Evaluated
  <2>4. e.pairs = Neighbours(e.measured)
    BY <2>2, <2>3, PairsOfTrials DEF Neighbours
  <2>5. \A k \in DOMAIN metrics' : (k \in DOMAIN metrics /\ metrics'[k] = metrics[k]) \/ metrics'[k] = e
    BY <2>1, Appended DEF ReceiptInv, JudgedInv
  <2> QED
    BY <2>4, <2>5 DEF PairsInv
<1>3. CASE (InputNext /\ UNCHANGED compareVars) \/ vars' = vars
  BY <1>1, <1>3 DEF compareVars, vars
<1>4. CASE Start \/ LoadBaseline \/ Aggregate \/ Present
  BY <1>1, <1>4 DEF Start, LoadBaseline, Aggregate, Present
<1> QED
  BY <1>2, <1>3, <1>4 DEF Next

(* A paired comparison pairs each trial of the candidate arm with the one  *)
(* run just before it, and every two neighbours that were measured         *)
(* (paired_assignment of the coordinator, select_pairs).                   *)
THEOREM PairsAreOfNeighbours == Spec => []PairsAreNeighbours
<1>1. Init => PairsInv
  BY DEF Init, PairsInv
<1>2. PairsInv => PairsAreNeighbours
  BY DEF PairsInv, PairsAreNeighbours, Neighbours
<1>3. ReceiptInv /\ [Next]_vars => ReceiptInv'
  BY JudgedKept, ExitKept DEF ReceiptInv
<1> QED
  BY <1>1, <1>2, <1>3, InitReceipt, PairsKept, PTL DEF Spec


(***************************************************************************)
(* Sums, counted as sets of steps.                                         *)
(***************************************************************************)
Steps(h) == UNION {{n} \X (1 .. h[n]) : n \in DOMAIN h}

LEMMA StepsOf ==
  ASSUME NEW h
  PROVE  /\ \A n \in DOMAIN h : \A u \in 1 .. h[n] : <<n, u>> \in Steps(h)
         /\ \A p \in Steps(h) : \E n \in DOMAIN h : \E u \in 1 .. h[n] : p = <<n, u>>
         /\ \A n, u : <<n, u>> \in Steps(h) => n \in DOMAIN h /\ u \in 1 .. h[n]
BY DEF Steps

LEMMA StepsFinite ==
  ASSUME NEW h, IsFiniteSet(DOMAIN h), NEW top \in Nat, \A n \in DOMAIN h : h[n] \in 0 .. top
  PROVE  IsFiniteSet(Steps(h)) /\ Cardinality(Steps(h)) \in Nat
<1>1. IsFiniteSet(1 .. top)
  BY FS_Interval
<1>2. IsFiniteSet((DOMAIN h) \X (1 .. top))
  BY <1>1, FS_Product
<1>3. \A n \in DOMAIN h : \A u \in 1 .. h[n] : u \in 1 .. top
  OBVIOUS
<1>4. Steps(h) \subseteq (DOMAIN h) \X (1 .. top)
  BY <1>3 DEF Steps
<1> QED
  BY <1>2, <1>4, FS_Subset, FS_CardinalityType

(* A larger summand makes a larger sum.                                    *)
LEMMA SumMonotone ==
  ASSUME NEW h, NEW g, DOMAIN h = DOMAIN g, IsFiniteSet(DOMAIN g), NEW top \in Nat,
         \A n \in DOMAIN g : h[n] \in Nat /\ g[n] \in 0 .. top /\ h[n] <= g[n]
  PROVE  Cardinality(Steps(h)) <= Cardinality(Steps(g))
<1>1. IsFiniteSet(Steps(g))
  BY StepsFinite
<1>2. \A n \in DOMAIN h : \A u \in 1 .. h[n] : u \in 1 .. g[n]
  OBVIOUS
<1>3. Steps(h) \subseteq Steps(g)
  BY <1>2 DEF Steps
<1> QED
  BY <1>1, <1>3, FS_Subset

(* As many more steps for every summand.                                   *)
LEMMA SumShift ==
  ASSUME NEW h, IsFiniteSet(DOMAIN h), NEW top \in Nat, \A n \in DOMAIN h : h[n] \in 0 .. top,
         NEW d \in Nat
  PROVE  Cardinality(Steps([n \in DOMAIN h |-> h[n] + d])) = Cardinality(Steps(h)) + Cardinality(DOMAIN h) * d
<1> DEFINE D == DOMAIN h
           more == [n \in D |-> h[n] + d]
           Upper == Steps(more) \ Steps(h)
           up == [p \in D \X (1 .. d) |-> <<p[1], h[p[1]] + p[2]>>]
<1>1. IsFiniteSet(Steps(h)) /\ Cardinality(Steps(h)) \in Nat
  BY StepsFinite
<1>2. top + d \in Nat /\ \A n \in D : h[n] + d \in 0 .. top + d /\ h[n] \in Nat
  OBVIOUS
<1>3. IsFiniteSet(Steps(more)) /\ Cardinality(Steps(more)) \in Nat
  BY <1>2, StepsFinite
<1>4. Steps(h) \subseteq Steps(more)
  <2>1. \A n \in D : \A u \in 1 .. h[n] : u \in 1 .. more[n]
    BY <1>2
  <2> QED
    BY <2>1 DEF Steps
<1>5. IsFiniteSet(D \X (1 .. d)) /\ Cardinality(D \X (1 .. d)) = Cardinality(D) * d
  <2>1. IsFiniteSet(1 .. d) /\ Cardinality(1 .. d) = d
    BY FS_Interval
  <2> QED
    BY <2>1, FS_Product
<1>6. ASSUME NEW n \in D, NEW v \in 1 .. d
      PROVE  h[n] + v \in 1 .. more[n] /\ h[n] + v \notin 1 .. h[n]
  BY <1>2
<1>7. \A p \in D \X (1 .. d) : up[p] \in Upper
  <2> SUFFICES ASSUME NEW n \in D, NEW v \in 1 .. d PROVE <<n, h[n] + v>> \in Upper
    OBVIOUS
  <2> QED
    BY <1>6, StepsOf
<1>8. IsInjective(up)
  <2> SUFFICES ASSUME NEW n \in D, NEW v \in 1 .. d, NEW m \in D, NEW w \in 1 .. d,
                      up[<<n, v>>] = up[<<m, w>>]
               PROVE  <<n, v>> = <<m, w>>
    BY DEF IsInjective
  <2>1. n = m /\ h[n] + v = h[m] + w
    OBVIOUS
  <2>2. v = w
    BY <1>2, <2>1
  <2> QED
    BY <2>1, <2>2
<1>9. \A q \in Upper : \E p \in D \X (1 .. d) : up[p] = q
  <2> SUFFICES ASSUME NEW q \in Upper PROVE \E p \in D \X (1 .. d) : up[p] = q
    OBVIOUS
  <2>1. PICK n \in D : \E u \in 1 .. more[n] : q = <<n, u>>
    BY StepsOf
  <2>2. PICK u \in 1 .. more[n] : q = <<n, u>>
    BY <2>1
  <2>3. u \notin 1 .. h[n]
    BY <2>2, StepsOf
  <2>4. u - h[n] \in 1 .. d /\ h[n] + (u - h[n]) = u
    BY <1>2, <2>3
  <2>5. <<n, u - h[n]>> \in D \X (1 .. d) /\ up[<<n, u - h[n]>>] = q
    BY <2>2, <2>4
  <2> QED
    BY <2>5
<1>10. up \in Bijection(D \X (1 .. d), Upper)
  BY <1>7, <1>8, <1>9 DEF Bijection, Injection, Surjection
<1>11. Cardinality(Upper) = Cardinality(D) * d /\ IsFiniteSet(Upper)
  BY <1>5, <1>10, FS_Bijection DEF ExistsBijection
<1>12. Cardinality(Upper) = Cardinality(Steps(more)) - Cardinality(Steps(h))
  <2>1. Steps(more) \cap Steps(h) = Steps(h)
    BY <1>4
  <2> QED
    BY <1>3, <2>1, FS_Difference
<1>13. Cardinality(Steps(more)) = Cardinality(Steps(h)) + Cardinality(Upper)
  BY <1>1, <1>3, <1>12
<1> QED
  BY <1>11, <1>13

(* A sum over pairs whose summand is that of one side.                     *)
LEMMA SumOfFirst ==
  ASSUME NEW h, IsFiniteSet(DOMAIN h), NEW top \in Nat, \A n \in DOMAIN h : h[n] \in 0 .. top,
         NEW E, IsFiniteSet(E)
  PROVE  Cardinality(Steps([p \in (DOMAIN h) \X E |-> h[p[1]]])) = Cardinality(Steps(h)) * Cardinality(E)
<1> DEFINE D == DOMAIN h
           wide == [p \in D \X E |-> h[p[1]]]
           to == [q \in Steps(h) \X E |-> <<<<q[1][1], q[2]>>, q[1][2]>>]
<1>1. IsFiniteSet(Steps(h))
  BY StepsFinite
<1>2. IsFiniteSet(Steps(h) \X E) /\ Cardinality(Steps(h) \X E) = Cardinality(Steps(h)) * Cardinality(E)
  BY <1>1, FS_Product
<1>3. ASSUME NEW q \in Steps(h) \X E
      PROVE  \E n \in D : \E u \in 1 .. h[n] : \E e \in E :
               q = <<<<n, u>>, e>> /\ to[q] = <<<<n, e>>, u>>
  <2>1. PICK n \in D : \E u \in 1 .. h[n] : q[1] = <<n, u>>
    BY <1>3, StepsOf
  <2>2. PICK u \in 1 .. h[n] : q[1] = <<n, u>>
    BY <2>1
  <2>3. q = <<<<n, u>>, q[2]>> /\ q[2] \in E /\ to[q] = <<<<n, q[2]>>, u>>
    BY <1>3, <2>2
  <2> QED
    BY <2>3
<1>4. ASSUME NEW n \in D, NEW u \in 1 .. h[n], NEW e \in E
      PROVE  /\ <<<<n, e>>, u>> \in Steps(wide)
             /\ <<<<n, u>>, e>> \in Steps(h) \X E /\ to[<<<<n, u>>, e>>] = <<<<n, e>>, u>>
  <2>1. <<n, e>> \in DOMAIN wide /\ wide[<<n, e>>] = h[n]
    OBVIOUS
  <2>2. <<<<n, e>>, u>> \in Steps(wide)
    BY <2>1, StepsOf
  <2>3. <<n, u>> \in Steps(h)
    BY StepsOf
  <2> QED
    BY <2>2, <2>3
<1>5. ASSUME NEW s \in Steps(wide)
      PROVE  \E n \in D : \E u \in 1 .. h[n] : \E e \in E : s = <<<<n, e>>, u>>
  <2>1. PICK p \in DOMAIN wide : \E u \in 1 .. wide[p] : s = <<p, u>>
    BY <1>5, StepsOf
  <2>2. PICK n \in D, e \in E : p = <<n, e>>
    OBVIOUS
  <2>3. wide[p] = h[n]
    BY <2>2
  <2> QED
    BY <2>1, <2>2, <2>3
<1>6. to \in [Steps(h) \X E -> Steps(wide)]
  <2>1. ASSUME NEW q \in Steps(h) \X E PROVE to[q] \in Steps(wide)
    <3>1. PICK n \in D : \E u \in 1 .. h[n] : \E e \in E : q = <<<<n, u>>, e>> /\ to[q] = <<<<n, e>>, u>>
      BY <1>3
    <3> HIDE DEF to, wide
    <3> QED
      BY <1>4, <3>1
  <2>2. DOMAIN to = Steps(h) \X E /\ to = [q \in Steps(h) \X E |-> to[q]]
    OBVIOUS
  <2> HIDE DEF to, wide
  <2> QED
    BY <2>1, <2>2
<1> HIDE DEF to, wide
<1>7. \A q, r \in Steps(h) \X E : to[q] = to[r] => q = r
  <2> SUFFICES ASSUME NEW q \in Steps(h) \X E, NEW r \in Steps(h) \X E, to[q] = to[r] PROVE q = r
    OBVIOUS
  <2>1. PICK n, u, e : q = <<<<n, u>>, e>> /\ to[q] = <<<<n, e>>, u>>
    BY <1>3
  <2>2. PICK m, v, f : r = <<<<m, v>>, f>> /\ to[r] = <<<<m, f>>, v>>
    BY <1>3
  <2>3. <<n, e>> = <<m, f>> /\ u = v
    BY <2>1, <2>2
  <2> QED
    BY <2>1, <2>2, <2>3
<1>8. \A s \in Steps(wide) : \E q \in Steps(h) \X E : to[q] = s
  <2> SUFFICES ASSUME NEW s \in Steps(wide) PROVE \E q \in Steps(h) \X E : to[q] = s
    OBVIOUS
  <2>1. PICK n \in D : \E u \in 1 .. h[n] : \E e \in E : s = <<<<n, e>>, u>>
    BY <1>5
  <2>2. PICK u \in 1 .. h[n], e \in E : s = <<<<n, e>>, u>>
    BY <2>1
  <2>3. <<<<n, u>>, e>> \in Steps(h) \X E /\ to[<<<<n, u>>, e>>] = s
    BY <1>4, <2>2
  <2> QED
    BY <2>3
<1>9. DOMAIN to = Steps(h) \X E
  BY DEF to
<1>10. to \in Bijection(Steps(h) \X E, Steps(wide))
  BY <1>6, <1>7, <1>8, <1>9 DEF Bijection, Injection, Surjection, IsInjective
<1>11. Cardinality(Steps(wide)) = Cardinality(Steps(h)) * Cardinality(E)
  BY <1>2, <1>10, FS_Bijection DEF ExistsBijection
<1> QED
  BY <1>11 DEF wide

LEMMA SumOfSecond ==
  ASSUME NEW h, IsFiniteSet(DOMAIN h), NEW top \in Nat, \A n \in DOMAIN h : h[n] \in 0 .. top,
         NEW E, IsFiniteSet(E)
  PROVE  Cardinality(Steps([p \in E \X (DOMAIN h) |-> h[p[2]]])) = Cardinality(Steps(h)) * Cardinality(E)
<1> DEFINE D == DOMAIN h
           wide == [p \in E \X D |-> h[p[2]]]
           to == [q \in Steps(h) \X E |-> <<<<q[2], q[1][1]>>, q[1][2]>>]
<1>1. IsFiniteSet(Steps(h))
  BY StepsFinite
<1>2. IsFiniteSet(Steps(h) \X E) /\ Cardinality(Steps(h) \X E) = Cardinality(Steps(h)) * Cardinality(E)
  BY <1>1, FS_Product
<1>3. ASSUME NEW q \in Steps(h) \X E
      PROVE  \E n \in D : \E u \in 1 .. h[n] : \E e \in E :
               q = <<<<n, u>>, e>> /\ to[q] = <<<<e, n>>, u>>
  <2>1. PICK n \in D : \E u \in 1 .. h[n] : q[1] = <<n, u>>
    BY <1>3, StepsOf
  <2>2. PICK u \in 1 .. h[n] : q[1] = <<n, u>>
    BY <2>1
  <2>3. q = <<<<n, u>>, q[2]>> /\ q[2] \in E /\ to[q] = <<<<q[2], n>>, u>>
    BY <1>3, <2>2
  <2> QED
    BY <2>3
<1>4. ASSUME NEW n \in D, NEW u \in 1 .. h[n], NEW e \in E
      PROVE  /\ <<<<e, n>>, u>> \in Steps(wide)
             /\ <<<<n, u>>, e>> \in Steps(h) \X E /\ to[<<<<n, u>>, e>>] = <<<<e, n>>, u>>
  <2>1. <<e, n>> \in DOMAIN wide /\ wide[<<e, n>>] = h[n]
    OBVIOUS
  <2>2. <<<<e, n>>, u>> \in Steps(wide)
    BY <2>1, StepsOf
  <2>3. <<n, u>> \in Steps(h)
    BY StepsOf
  <2> QED
    BY <2>2, <2>3
<1>5. ASSUME NEW s \in Steps(wide)
      PROVE  \E n \in D : \E u \in 1 .. h[n] : \E e \in E : s = <<<<e, n>>, u>>
  <2>1. PICK p \in DOMAIN wide : \E u \in 1 .. wide[p] : s = <<p, u>>
    BY <1>5, StepsOf
  <2>2. PICK e \in E, n \in D : p = <<e, n>>
    OBVIOUS
  <2>3. wide[p] = h[n]
    BY <2>2
  <2> QED
    BY <2>1, <2>2, <2>3
<1>6. to \in [Steps(h) \X E -> Steps(wide)]
  <2>1. ASSUME NEW q \in Steps(h) \X E PROVE to[q] \in Steps(wide)
    <3>1. PICK n \in D : \E u \in 1 .. h[n] : \E e \in E : q = <<<<n, u>>, e>> /\ to[q] = <<<<e, n>>, u>>
      BY <1>3
    <3> HIDE DEF to, wide
    <3> QED
      BY <1>4, <3>1
  <2>2. DOMAIN to = Steps(h) \X E /\ to = [q \in Steps(h) \X E |-> to[q]]
    OBVIOUS
  <2> HIDE DEF to, wide
  <2> QED
    BY <2>1, <2>2
<1> HIDE DEF to, wide
<1>7. \A q, r \in Steps(h) \X E : to[q] = to[r] => q = r
  <2> SUFFICES ASSUME NEW q \in Steps(h) \X E, NEW r \in Steps(h) \X E, to[q] = to[r] PROVE q = r
    OBVIOUS
  <2>1. PICK n, u, e : q = <<<<n, u>>, e>> /\ to[q] = <<<<e, n>>, u>>
    BY <1>3
  <2>2. PICK m, v, f : r = <<<<m, v>>, f>> /\ to[r] = <<<<f, m>>, v>>
    BY <1>3
  <2>3. <<e, n>> = <<f, m>> /\ u = v
    BY <2>1, <2>2
  <2> QED
    BY <2>1, <2>2, <2>3
<1>8. \A s \in Steps(wide) : \E q \in Steps(h) \X E : to[q] = s
  <2> SUFFICES ASSUME NEW s \in Steps(wide) PROVE \E q \in Steps(h) \X E : to[q] = s
    OBVIOUS
  <2>1. PICK n \in D : \E u \in 1 .. h[n] : \E e \in E : s = <<<<e, n>>, u>>
    BY <1>5
  <2>2. PICK u \in 1 .. h[n], e \in E : s = <<<<e, n>>, u>>
    BY <2>1
  <2>3. <<<<n, u>>, e>> \in Steps(h) \X E /\ to[<<<<n, u>>, e>>] = s
    BY <1>4, <2>2
  <2> QED
    BY <2>3
<1>9. DOMAIN to = Steps(h) \X E
  BY DEF to
<1>10. to \in Bijection(Steps(h) \X E, Steps(wide))
  BY <1>6, <1>7, <1>8, <1>9 DEF Bijection, Injection, Surjection, IsInjective
<1>11. Cardinality(Steps(wide)) = Cardinality(Steps(h)) * Cardinality(E)
  BY <1>2, <1>10, FS_Bijection DEF ExistsBijection
<1> QED
  BY <1>11 DEF wide

(***************************************************************************)
(* The exponents of measured values, summed.                               *)
(***************************************************************************)
Lifted(values) == [n \in DOMAIN values |-> values[n] + MaxExponent]

(* The values of one side: finitely many exponents.                        *)
Measurements(f) ==
  IsFiniteSet(DOMAIN f) /\ \A n \in DOMAIN f : f[n] \in -MaxExponent .. MaxExponent

LEMMA LiftedSums ==
  ASSUME NEW f, Measurements(f)
  PROVE  /\ Observations(f) \in Nat
         /\ Cardinality(Steps(Lifted(f))) \in Nat
         /\ Exponents(f) = Cardinality(Steps(Lifted(f))) - MaxExponent * Observations(f)
         /\ DOMAIN Lifted(f) = DOMAIN f
         /\ \A n \in DOMAIN f : Lifted(f)[n] \in 0 .. 2 * MaxExponent /\ Lifted(f)[n] = f[n] + MaxExponent
<1>1. MaxExponent \in Nat /\ 2 * MaxExponent \in Nat
  BY BoundsAssumption
<1>2. /\ DOMAIN Lifted(f) = DOMAIN f
      /\ \A n \in DOMAIN f : Lifted(f)[n] \in 0 .. 2 * MaxExponent /\ Lifted(f)[n] = f[n] + MaxExponent
  BY <1>1 DEF Lifted, Measurements
<1>3. Climbed(f) = Steps(Lifted(f))
  BY DEF Climbed, Steps, Lifted
<1>4. Cardinality(Steps(Lifted(f))) \in Nat
  BY <1>1, <1>2, StepsFinite DEF Measurements
<1>5. Observations(f) \in Nat
  BY FS_CardinalityType DEF Observations, Measurements
<1> QED
  BY <1>2, <1>3, <1>4, <1>5 DEF Exponents

(* Both sums over all pairs, in steps, and with d more for every pair.     *)
Raised(h, d) == [p \in DOMAIN h |-> h[p] + d]
Extra(f, g, d) == Observations(f) * Observations(g) * d

LEMMA PairedSums ==
  ASSUME NEW f, Measurements(f), NEW g, Measurements(g), NEW d \in Nat
  PROVE  /\ Cardinality(Steps([p \in (DOMAIN f) \X (DOMAIN g) |-> Lifted(f)[p[1]]]))
            = Cardinality(Steps(Lifted(f))) * Observations(g)
         /\ Cardinality(Steps([p \in (DOMAIN f) \X (DOMAIN g) |-> Lifted(g)[p[2]]]))
            = Cardinality(Steps(Lifted(g))) * Observations(f)
         /\ Cardinality(Steps(Raised([p \in (DOMAIN f) \X (DOMAIN g) |-> Lifted(f)[p[1]]], d)))
            = Cardinality(Steps(Lifted(f))) * Observations(g) + Extra(f, g, d)
         /\ Cardinality(Steps(Raised([p \in (DOMAIN f) \X (DOMAIN g) |-> Lifted(g)[p[2]]], d)))
            = Cardinality(Steps(Lifted(g))) * Observations(f) + Extra(f, g, d)
<1> DEFINE pairs == (DOMAIN f) \X (DOMAIN g)
           first == [p \in pairs |-> Lifted(f)[p[1]]]
           second == [p \in pairs |-> Lifted(g)[p[2]]]
           F == Cardinality(Steps(Lifted(f))) * Observations(g)
           G == Cardinality(Steps(Lifted(g))) * Observations(f)
           more == Extra(f, g, d)
           top == 2 * MaxExponent
<1>1. top \in Nat /\ IsFiniteSet(DOMAIN f) /\ IsFiniteSet(DOMAIN g)
  BY BoundsAssumption DEF Measurements
<1>2. DOMAIN Lifted(f) = DOMAIN f /\ DOMAIN Lifted(g) = DOMAIN g
  BY LiftedSums
<1>3. /\ \A n \in DOMAIN f : Lifted(f)[n] \in 0 .. top
      /\ \A n \in DOMAIN g : Lifted(g)[n] \in 0 .. top
  BY LiftedSums
<1>4. Cardinality(Steps(first)) = F
  <2>1. Cardinality(Steps([p \in (DOMAIN Lifted(f)) \X (DOMAIN g) |-> Lifted(f)[p[1]]]))
        = Cardinality(Steps(Lifted(f))) * Cardinality(DOMAIN g)
    <3> HIDE DEF top
    <3> QED
      BY <1>1, <1>2, <1>3, SumOfFirst
  <2> QED
    BY <2>1, <1>2 DEF Observations
<1>5. Cardinality(Steps(second)) = G
  <2>1. Cardinality(Steps([p \in (DOMAIN f) \X (DOMAIN Lifted(g)) |-> Lifted(g)[p[2]]]))
        = Cardinality(Steps(Lifted(g))) * Cardinality(DOMAIN f)
    <3> HIDE DEF top
    <3> QED
      BY <1>1, <1>2, <1>3, SumOfSecond
  <2> QED
    BY <2>1, <1>2 DEF Observations
<1>6. IsFiniteSet(pairs) /\ Cardinality(pairs) * d = more
  BY <1>1, FS_Product DEF Observations, Extra
<1>7. /\ DOMAIN first = pairs /\ \A p \in pairs : first[p] \in 0 .. top
  BY <1>3
<1>8. /\ DOMAIN second = pairs /\ \A p \in pairs : second[p] \in 0 .. top
  BY <1>3
<1> HIDE DEF first, second, top, pairs, F, G, more
<1>9. Cardinality(Steps(Raised(first, d))) = F + more
  <2>1. Cardinality(Steps(Raised(first, d)))
        = Cardinality(Steps(first)) + Cardinality(DOMAIN first) * d
    BY <1>1, <1>6, <1>7, SumShift DEF Raised
  <2> QED
    BY <2>1, <1>4, <1>6, <1>7
<1>10. Cardinality(Steps(Raised(second, d))) = G + more
  <2>1. Cardinality(Steps(Raised(second, d)))
        = Cardinality(Steps(second)) + Cardinality(DOMAIN second) * d
    BY <1>1, <1>6, <1>8, SumShift DEF Raised
  <2> QED
    BY <2>1, <1>5, <1>6, <1>8
<1> QED
  BY <1>4, <1>5, <1>9, <1>10 DEF first, second, pairs, F, G, more


(* Where every value of one side is at most d over every value of the      *)
(* other, so is the mean.                                                  *)
LEMMA MeansWithin ==
  ASSUME NEW f, Measurements(f), NEW g, Measurements(g), NEW d \in Nat,
         \A i \in DOMAIN f, j \in DOMAIN g : f[i] <= g[j] + d
  PROVE  Exponents(f) * Observations(g)
         <= Exponents(g) * Observations(f) + d * (Observations(f) * Observations(g))
<1> DEFINE pairs == (DOMAIN f) \X (DOMAIN g)
           low == [p \in pairs |-> Lifted(f)[p[1]]]
           high == Raised([p \in pairs |-> Lifted(g)[p[2]]], d)
           top == 2 * MaxExponent + d
<1>1. top \in Nat /\ MaxExponent \in Nat /\ IsFiniteSet(pairs)
  BY BoundsAssumption, FS_Product DEF Measurements
<1>2. ASSUME NEW i \in DOMAIN f, NEW j \in DOMAIN g
      PROVE  /\ Lifted(f)[i] \in Nat /\ Lifted(g)[j] + d \in 0 .. top
             /\ Lifted(f)[i] <= Lifted(g)[j] + d
  <2>1. Lifted(f)[i] \in 0 .. 2 * MaxExponent /\ Lifted(f)[i] = f[i] + MaxExponent
    BY LiftedSums
  <2>2. Lifted(g)[j] \in 0 .. 2 * MaxExponent /\ Lifted(g)[j] = g[j] + MaxExponent
    BY LiftedSums
  <2>3. f[i] \in Int /\ g[j] \in Int /\ f[i] <= g[j] + d
    BY <1>1 DEF Measurements
  <2> QED
    BY <1>1, <2>1, <2>2, <2>3
<1>3. \A p \in pairs : low[p] \in Nat /\ high[p] \in 0 .. top /\ low[p] <= high[p]
  <2> HIDE DEF top
  <2> QED
    BY <1>2 DEF Raised
<1>4. Cardinality(Steps(low)) <= Cardinality(Steps(high))
  <2>1. DOMAIN low = pairs /\ DOMAIN high = pairs
    BY DEF Raised
  <2> HIDE DEF low, high, pairs, top
  <2> QED
    BY <1>1, <1>3, <2>1, SumMonotone
<1> DEFINE H == Cardinality(Steps(Lifted(f)))
           G == Cardinality(Steps(Lifted(g)))
           m == Observations(f)
           n == Observations(g)
<1>5. Cardinality(Steps(low)) = H * n /\ Cardinality(Steps(high)) = G * m + m * n * d
  <2>1. Cardinality(Steps(low)) = H * n
    BY PairedSums
  <2>2. Cardinality(Steps(high)) = G * m + Extra(f, g, d)
    BY PairedSums
  <2> QED
    BY <2>1, <2>2 DEF Extra
<1>6. /\ H \in Nat /\ G \in Nat /\ m \in Nat /\ n \in Nat
      /\ Exponents(f) = H - MaxExponent * m /\ Exponents(g) = G - MaxExponent * n
  BY LiftedSums
<1> HIDE DEF H, G, m, n
<1>7. H * n <= G * m + m * n * d
  BY <1>4, <1>5
<1>8. Exponents(f) * n = H * n - MaxExponent * (m * n)
  BY <1>1, <1>6
<1>9. Exponents(g) * m = G * m - MaxExponent * (m * n)
  BY <1>1, <1>6
<1>10. m * n * d = d * (m * n) /\ m * n \in Nat /\ H * n \in Nat /\ G * m \in Nat /\ d * (m * n) \in Nat
       /\ MaxExponent * (m * n) \in Nat
  BY <1>1, <1>6
<1>11. Exponents(f) * n <= Exponents(g) * m + d * (m * n)
  BY <1>7, <1>8, <1>9, <1>10
<1> QED
  BY <1>11 DEF m, n

(* Where every value of one side is at least d under every value of the    *)
(* other, so is the mean.                                                  *)
LEMMA MeansApart ==
  ASSUME NEW f, Measurements(f), NEW g, Measurements(g), NEW d \in Nat,
         \A i \in DOMAIN f, j \in DOMAIN g : f[i] + d <= g[j]
  PROVE  Exponents(f) * Observations(g) + d * (Observations(f) * Observations(g))
         <= Exponents(g) * Observations(f)
<1> DEFINE pairs == (DOMAIN f) \X (DOMAIN g)
           low == Raised([p \in pairs |-> Lifted(f)[p[1]]], d)
           high == [p \in pairs |-> Lifted(g)[p[2]]]
           top == 2 * MaxExponent
<1>1. top \in Nat /\ MaxExponent \in Nat /\ IsFiniteSet(pairs)
  BY BoundsAssumption, FS_Product DEF Measurements
<1>2. ASSUME NEW i \in DOMAIN f, NEW j \in DOMAIN g
      PROVE  /\ Lifted(f)[i] + d \in Nat /\ Lifted(g)[j] \in 0 .. top
             /\ Lifted(f)[i] + d <= Lifted(g)[j]
  <2>1. Lifted(f)[i] \in 0 .. 2 * MaxExponent /\ Lifted(f)[i] = f[i] + MaxExponent
    BY LiftedSums
  <2>2. Lifted(g)[j] \in 0 .. 2 * MaxExponent /\ Lifted(g)[j] = g[j] + MaxExponent
    BY LiftedSums
  <2>3. f[i] \in Int /\ g[j] \in Int /\ f[i] + d <= g[j]
    BY <1>1 DEF Measurements
  <2> QED
    BY <1>1, <2>1, <2>2, <2>3
<1>3. \A p \in pairs : low[p] \in Nat /\ high[p] \in 0 .. top /\ low[p] <= high[p]
  <2> HIDE DEF top
  <2> QED
    BY <1>2 DEF Raised
<1>4. Cardinality(Steps(low)) <= Cardinality(Steps(high))
  <2>1. DOMAIN low = pairs /\ DOMAIN high = pairs
    BY DEF Raised
  <2> HIDE DEF low, high, pairs, top
  <2> QED
    BY <1>1, <1>3, <2>1, SumMonotone
<1> DEFINE H == Cardinality(Steps(Lifted(f)))
           G == Cardinality(Steps(Lifted(g)))
           m == Observations(f)
           n == Observations(g)
<1>5. Cardinality(Steps(low)) = H * n + m * n * d /\ Cardinality(Steps(high)) = G * m
  <2>1. Cardinality(Steps(low)) = H * n + Extra(f, g, d)
    BY PairedSums
  <2>2. Cardinality(Steps(high)) = G * m
    BY PairedSums
  <2> QED
    BY <2>1, <2>2 DEF Extra
<1>6. /\ H \in Nat /\ G \in Nat /\ m \in Nat /\ n \in Nat
      /\ Exponents(f) = H - MaxExponent * m /\ Exponents(g) = G - MaxExponent * n
  BY LiftedSums
<1> HIDE DEF H, G, m, n
<1>7. H * n + m * n * d <= G * m
  BY <1>4, <1>5
<1>8. Exponents(f) * n = H * n - MaxExponent * (m * n)
  BY <1>1, <1>6
<1>9. Exponents(g) * m = G * m - MaxExponent * (m * n)
  BY <1>1, <1>6
<1>10. m * n * d = d * (m * n) /\ m * n \in Nat /\ H * n \in Nat /\ G * m \in Nat /\ d * (m * n) \in Nat
       /\ MaxExponent * (m * n) \in Nat
  BY <1>1, <1>6
<1>11. Exponents(f) * n + d * (m * n) <= Exponents(g) * m
  BY <1>7, <1>8, <1>9, <1>10
<1> QED
  BY <1>11 DEF m, n


(* The values that count on one side, where a relative gate gets to them.  *)
LEMMA CountedMeasure ==
  ASSUME NEW trials \in Seq(Observation), Positive(Selected(trials))
  PROVE  Measurements(Selected(trials)) /\ DOMAIN Selected(trials) # {}
<1>1. IsFiniteSet(DOMAIN trials)
  <2>1. Len(trials) \in Nat /\ DOMAIN trials = 1 .. Len(trials)
    BY LenProperties
  <2> QED
    BY <2>1, FS_Interval
<1>2. DOMAIN Selected(trials) = Counted(trials) /\ Counted(trials) \subseteq DOMAIN trials
  BY DEF Selected, Counted
<1>3. ASSUME NEW n \in Counted(trials)
      PROVE  Selected(trials)[n] \in -MaxExponent .. MaxExponent
  <2> DEFINE o == trials[n]
  <2>1. n \in DOMAIN trials /\ Exclusion(o) = None /\ Selected(trials)[n] = o.value
    BY DEF Counted, Selected
  <2>2. o \in Observation
    BY <2>1, ElementOfSeq, LenProperties
  <2>3. o.value # Absent /\ o.value # Missing
    <3>1. o.metrics
      BY <2>1 DEF Exclusion, None
    <3>2. o.value # Absent
      BY <2>1, <3>1 DEF Exclusion, None
    <3>3. o.completed
      BY <2>1, <3>1, <3>2 DEF Exclusion, None
    <3> QED
      BY <2>1, <3>1, <3>2, <3>3 DEF Exclusion, None
  <2>4. o.value # Zero
    BY <1>2, <2>1 DEF Positive
  <2>5. o.value \in Absent .. MaxExponent
    BY <2>2 DEF Observation
  <2> HIDE DEF o
  <2> QED
    BY <2>1, <2>3, <2>4, <2>5, BoundsAssumption DEF Absent, Missing, Zero
<1>4. DOMAIN Selected(trials) # {}
  BY DEF Positive
<1> QED
  BY <1>1, <1>2, <1>3, <1>4, FS_Subset DEF Measurements

(* Whether the values of two sides are within a limit, pair by pair.       *)
Withins(request, c, b) == {Within(request, x, y) : x \in Range(c), y \in Range(b)}

LEMMA WithinPairs ==
  ASSUME NEW request, NEW c, NEW b
  PROVE  /\ \A i \in DOMAIN c, j \in DOMAIN b : Within(request, c[i], b[j]) \in Withins(request, c, b)
         /\ DOMAIN c # {} /\ DOMAIN b # {} => Withins(request, c, b) # {}
<1>1. /\ \A i \in DOMAIN c : c[i] \in Range(c)
      /\ \A j \in DOMAIN b : b[j] \in Range(b)
  BY DEF Range
<1> QED
  BY <1>1 DEF Withins

(* A gate that can be judged, as far as the bounds of it go.               *)
Judgeable(request) ==
  request.direction \in {"Lower", "Higher"} /\ request.limit \in Nat

(* The geometric means are within the limit where all of their values are, *)
(* and beyond it where none is.                                            *)
LEMMA RelativeJudged ==
  ASSUME NEW request, Judgeable(request), NEW c, NEW b, Measurements(c), Measurements(b),
         DOMAIN c # {}, DOMAIN b # {},
         RelativeRegression(request, c, b).disposition # "panic"
  PROVE  /\ Withins(request, c, b) = {TRUE} => RelativeRegression(request, c, b).disposition = "Pass"
         /\ Withins(request, c, b) = {FALSE} => RelativeRegression(request, c, b).disposition = "Fail"
<1> DEFINE m == Observations(c)
           n == Observations(b)
           X == Exponents(c) * n
           Y == Exponents(b) * m
           degradation == Oriented(request.direction, X, Y)
<1>1. /\ m \in Nat /\ n \in Nat /\ m # 0 /\ n # 0
      /\ Exponents(c) \in Int /\ Exponents(b) \in Int
  <2>1. m \in Nat /\ n \in Nat /\ Exponents(c) \in Int /\ Exponents(b) \in Int
    BY LiftedSums, BoundsAssumption
  <2>2. m # 0 /\ n # 0
    BY FS_EmptySet DEF Measurements, Observations
  <2> QED
    BY <2>1, <2>2
<1>2. X \in Int /\ Y \in Int /\ m * n \in Nat /\ m * n > 0 /\ n * m = m * n /\ request.limit * (m * n) \in Nat
  BY <1>1 DEF Judgeable
<1>3. RelativeRegression(request, c, b).disposition
      = IF degradation <= request.limit * (m * n) THEN "Pass" ELSE "Fail"
  BY DEF RelativeRegression, Record
<1>4. \A i \in DOMAIN c, j \in DOMAIN b : c[i] \in Int /\ b[j] \in Int
  BY BoundsAssumption DEF Measurements
<1>5. ASSUME Withins(request, c, b) = {TRUE} PROVE degradation <= request.limit * (m * n)
  <2>1. \A i \in DOMAIN c, j \in DOMAIN b : Within(request, c[i], b[j])
    BY <1>5, WithinPairs
  <2>2. CASE request.direction = "Lower"
    <3>1. \A i \in DOMAIN c, j \in DOMAIN b : c[i] <= b[j] + request.limit
      BY <2>1, <2>2 DEF Within
    <3>2. X <= Y + request.limit * (m * n)
      BY <3>1, MeansWithin DEF Judgeable
    <3> HIDE DEF X, Y, m, n
    <3> QED
      BY <1>2, <2>2, <3>2 DEF Oriented
  <2>3. CASE request.direction = "Higher"
    <3>1. \A j \in DOMAIN b, i \in DOMAIN c : b[j] <= c[i] + request.limit
      BY <2>1, <2>3 DEF Within
    <3>2. Y <= X + request.limit * (n * m)
      BY <3>1, MeansWithin DEF Judgeable
    <3> HIDE DEF X, Y, m, n
    <3> QED
      BY <1>2, <2>3, <3>2 DEF Oriented
  <2> QED
    BY <2>2, <2>3 DEF Judgeable
<1>6. ASSUME Withins(request, c, b) = {FALSE} PROVE ~(degradation <= request.limit * (m * n))
  <2>1. \A i \in DOMAIN c, j \in DOMAIN b : ~Within(request, c[i], b[j])
    BY <1>6, WithinPairs
  <2>2. request.limit + 1 \in Nat /\ request.limit \in Nat
    BY DEF Judgeable
  <2>3. (request.limit + 1) * (m * n) = request.limit * (m * n) + m * n
    BY <1>2, <2>2
  <2>4. CASE request.direction = "Lower"
    <3>1. \A j \in DOMAIN b, i \in DOMAIN c : b[j] + (request.limit + 1) <= c[i]
      BY <1>4, <2>1, <2>2, <2>4 DEF Within
    <3>2. Y + (request.limit + 1) * (n * m) <= X
      BY <2>2, <3>1, MeansApart
    <3> HIDE DEF X, Y, m, n
    <3> QED
      BY <1>2, <2>3, <2>4, <3>2 DEF Oriented
  <2>5. CASE request.direction = "Higher"
    <3>1. \A i \in DOMAIN c, j \in DOMAIN b : c[i] + (request.limit + 1) <= b[j]
      BY <1>4, <2>1, <2>2, <2>5 DEF Within
    <3>2. X + (request.limit + 1) * (m * n) <= Y
      BY <2>2, <3>1, MeansApart
    <3> HIDE DEF X, Y, m, n
    <3> QED
      BY <1>2, <2>3, <2>5, <3>2 DEF Oriented
  <2> QED
    BY <2>4, <2>5 DEF Judgeable
<1> QED
  BY <1>3, <1>5, <1>6, Zenon

(* And so is every interval between two resampled effects.                 *)
LEMMA StatisticalJudged ==
  ASSUME NEW request, Judgeable(request), NEW c, NEW b, Measurements(c), Measurements(b),
         NEW r \in StatisticalRelative(request, c, b), r.disposition \in Judged
  PROVE  /\ Withins(request, c, b) = {TRUE} => r.disposition = "Pass"
         /\ Withins(request, c, b) = {FALSE} => r.disposition = "Fail"
<1> DEFINE effects == {Oriented(request.direction, c[p[1]], b[p[2]]) : p \in (DOMAIN c) \X (DOMAIN b)}
<1>1. PICK i \in Intervals(effects) : r.disposition = ByInterval(i, request.limit)
  BY DEF StatisticalRelative, Invalid, Record, Judged
<1>2. PICK low \in effects, high \in effects : i = <<low, high>>
  BY DEF Intervals
<1>3. ASSUME NEW e \in effects
      PROVE  \E k \in DOMAIN c, j \in DOMAIN b : e = Oriented(request.direction, c[k], b[j])
  BY <1>3
<1>4. ASSUME NEW k \in DOMAIN c, NEW j \in DOMAIN b
      PROVE  /\ Oriented(request.direction, c[k], b[j]) \in Int
             /\ Within(request, c[k], b[j])
                <=> Oriented(request.direction, c[k], b[j]) <= request.limit
  <2>1. c[k] \in Int /\ b[j] \in Int
    BY BoundsAssumption DEF Measurements
  <2> QED
    BY <2>1 DEF Within, Oriented, Judgeable
<1> HIDE DEF effects
<1>5. ASSUME NEW v \in BOOLEAN, Withins(request, c, b) = {v}, NEW e \in effects
      PROVE  e \in Int /\ (v <=> e <= request.limit)
  <2>1. PICK k \in DOMAIN c, j \in DOMAIN b : e = Oriented(request.direction, c[k], b[j])
    BY <1>3
  <2>2. Within(request, c[k], b[j]) = v
    BY <1>5, WithinPairs
  <2> QED
    BY <1>4, <2>1, <2>2
<1>6. request.limit \in Int
  BY DEF Judgeable
<1>7. ASSUME Withins(request, c, b) = {TRUE} PROVE r.disposition = "Pass"
  <2>1. low \in Int /\ high \in Int /\ low <= request.limit /\ high <= request.limit
    BY <1>5, <1>7
  <2>2. ~(low > request.limit)
    BY <1>6, <2>1
  <2> QED
    BY <1>1, <1>2, <2>1, <2>2 DEF ByInterval
<1>8. ASSUME Withins(request, c, b) = {FALSE} PROVE r.disposition = "Fail"
  <2>1. low \in Int /\ ~(low <= request.limit)
    BY <1>5, <1>8
  <2>2. low > request.limit
    BY <1>6, <2>1
  <2> QED
    BY <1>1, <1>2, <2>2 DEF ByInterval
<1> QED
  BY <1>7, <1>8


(* One relative gate, judged by what its record was made from.             *)
MeasuredBy(m) ==
  mode # "paired" /\ m.gate \in {"Relative", "Statistical"} /\ m.disposition \in Judged =>
    /\ ~CriticalMismatch /\ candidate.policy # "cross" /\ m.within # {}
    /\ m.within = {TRUE} => m.disposition = "Pass"
    /\ m.within = {FALSE} => m.disposition = "Fail"

LEMMA GateMeasured ==
  ASSUME NEW request \in Requests, request.gate \in {"Relative", "Statistical"},
         NEW left \in Seq(Observation), NEW right \in Seq(Observation),
         NEW r \in Relative(request, left, right), r.disposition \in Judged
  PROVE  /\ ~DescriptiveOnly
         /\ Withins(request, Selected(left), Selected(right)) # {}
         /\ Withins(request, Selected(left), Selected(right)) = {TRUE} => r.disposition = "Pass"
         /\ Withins(request, Selected(left), Selected(right)) = {FALSE} => r.disposition = "Fail"
<1> DEFINE c == Selected(left)
           b == Selected(right)
<1>1. /\ Positive(c) /\ Positive(b) /\ request.direction # "TargetRange" /\ ~DescriptiveOnly
      /\ IF request.gate = "Relative" THEN r = RelativeRegression(request, c, b)
         ELSE r \in StatisticalRelative(request, c, b)
  BY DEF Relative, Invalid, Record, Judged
<1>2. Measurements(c) /\ Measurements(b) /\ DOMAIN c # {} /\ DOMAIN b # {}
  BY <1>1, CountedMeasure
<1>3. Judgeable(request)
  BY <1>1, RequestsAssumption DEF Request, Judgeable
<1>4. r.disposition # "panic"
  BY DEF Judged
<1> HIDE DEF c, b
<1>5. Withins(request, c, b) # {}
  BY <1>2, WithinPairs
<1>6. /\ Withins(request, c, b) = {TRUE} => r.disposition = "Pass"
      /\ Withins(request, c, b) = {FALSE} => r.disposition = "Fail"
  <2>1. CASE request.gate = "Relative"
    <3>1. r = RelativeRegression(request, c, b)
      BY <1>1, <2>1
    <3> QED
      BY <1>2, <1>3, <1>4, <3>1, RelativeJudged
  <2>2. CASE request.gate # "Relative"
    <3>1. r \in StatisticalRelative(request, c, b)
      BY <1>1, <2>2
    <3> QED
      BY <1>2, <1>3, <3>1, StatisticalJudged
  <2> QED
    BY <2>1, <2>2
<1> QED
  BY <1>1, <1>5, <1>6 DEF c, b

(* There are no records before the metrics are evaluated.                  *)
MeasuredInv ==
  /\ stage \notin {"metrics", "write", "done"} => metrics = <<>>
  /\ \A k \in DOMAIN metrics : MeasuredBy(metrics[k])

LEMMA MeasuredKept == ReceiptInv /\ MeasuredInv /\ [Next]_vars => MeasuredInv'
<1> SUFFICES ASSUME ReceiptInv, MeasuredInv, [Next]_vars PROVE MeasuredInv'
  OBVIOUS
<1>1. ASSUME metrics = <<>>, metrics' = metrics PROVE MeasuredInv'
  BY <1>1 DEF MeasuredInv
<1>2. ASSUME metrics' = metrics, mode' = mode, candidate' = candidate, baseline' = baseline,
             stage \in {"metrics", "write", "done"} \/ stage' = stage \/ metrics = <<>>,
             stage \in {"metrics", "write", "done"} => stage' \in {"metrics", "write", "done"}
      PROVE  MeasuredInv'
  BY <1>2 DEF MeasuredInv, MeasuredBy, CriticalMismatch, WorkloadMatch, DriverMatch, ContextMatch,
              TopologyMatch, Same
<1>3. CASE InputNext /\ UNCHANGED compareVars
  <2>1. metrics = <<>>
    BY <1>3, InputSteps DEF InputStages, MeasuredInv
  <2> QED
    BY <1>1, <1>3, <2>1 DEF compareVars
<1>4. CASE Start \/ LoadBaseline
  <2>1. metrics = <<>> /\ metrics' = metrics
    BY <1>4 DEF Start, LoadBaseline, MeasuredInv
  <2> QED
    BY <1>1, <2>1
<1>5. CASE EvaluateMetric
  <2>1. PICK request, left, right, r :
          /\ request \in Requests /\ left \in Left(request) /\ right \in Right(request)
          /\ r \in Outcomes(request, left, right)
          /\ metrics' = Append(metrics, Evaluated(request, left, right, r))
    BY <1>5, Zenon DEF EvaluateMetric
  <2> DEFINE e == Evaluated(request, left, right, r)
  <2>2. stage = "metrics" /\ stage' \in {"metrics", "done"}
        /\ mode' = mode /\ candidate' = candidate /\ baseline' = baseline
    BY <1>5 DEF EvaluateMetric, Exit
  <2>3. left \in Seq(Observation) /\ right \in Seq(Observation)
    <3>1. /\ left = <<>> \/ left \in Unpaired \cup Paired
          /\ right = <<>> \/ right \in Unpaired \cup Paired
      BY <2>1 DEF Left, Right, TrialsOf
    <3> QED
      BY <3>1, TrialsAssumption, EmptySeq
  <2>4. /\ e.gate = request.gate /\ e.disposition = r.disposition
        /\ e.within = Withins(request, Selected(left), Selected(right))
    BY DEF Evaluated, Withins
  <2> HIDE DEF e
  <2>5. ASSUME mode # "paired", e.gate \in {"Relative", "Statistical"}, e.disposition \in Judged
        PROVE  /\ ~DescriptiveOnly /\ e.within # {}
               /\ e.within = {TRUE} => e.disposition = "Pass"
               /\ e.within = {FALSE} => e.disposition = "Fail"
    <3>1. r \in Relative(request, left, right)
      BY <2>1, <2>4, <2>5 DEF Outcomes, Unpair, Invalid, Record, Judged, None
    <3> QED
      BY <2>1, <2>3, <2>4, <2>5, <3>1, GateMeasured
  <2>6. MeasuredBy(e)
    BY <2>5 DEF MeasuredBy, DescriptiveOnly
  <2>7. \A k \in DOMAIN metrics' : (k \in DOMAIN metrics /\ metrics'[k] = metrics[k]) \/ metrics'[k] = e
    BY <2>1, Appended DEF ReceiptInv, JudgedInv, e
  <2>8. \A k \in DOMAIN metrics' : MeasuredBy(metrics'[k])
    BY <2>6, <2>7 DEF MeasuredInv
  <2> QED
    BY <2>2, <2>8 DEF MeasuredInv, MeasuredBy, CriticalMismatch, WorkloadMatch, DriverMatch,
                      ContextMatch, TopologyMatch, Same
<1>6. CASE Aggregate \/ Present
  BY <1>2, <1>6 DEF Aggregate, Present, Exit
<1>7. CASE vars' = vars
  BY <1>2, <1>7 DEF vars, inputVars, compareVars, MeasuredInv
<1> QED
  BY <1>3, <1>4, <1>5, <1>6, <1>7 DEF Next

(* A gate on geometric means or on a bootstrap interval is judged between  *)
(* comparable inputs only, by at least one measured value of each, and     *)
(* passes where all of the candidate is within the limit of all of the     *)
(* baseline and fails where none of it is (evaluate_relative).             *)
THEOREM JudgedByWhatWasMeasured == Spec => []JudgedByMeasurement
<1>1. Init => MeasuredInv
  <2>1. DOMAIN <<>> = {}
    BY EmptySeq
  <2> QED
    BY <2>1 DEF Init, MeasuredInv
<1>2. MeasuredInv => JudgedByMeasurement
  BY DEF MeasuredInv, MeasuredBy, JudgedByMeasurement
<1>3. ReceiptInv /\ [Next]_vars => ReceiptInv'
  BY JudgedKept, ExitKept DEF ReceiptInv
<1> QED
  BY <1>1, <1>2, <1>3, InitReceipt, MeasuredKept, PTL DEF Spec


(***************************************************************************)
(* What is loaded of the correctness checks.                               *)
(***************************************************************************)
Result == [id : Nat, host : STRING, cases : Int, bypasses : Int, disposition : {"Pass", "Fail"}]
CorpusResult == [failed : 0 .. 1, invalid : 0 .. 1]

(* Every result is that of the request at its place, as it was counted.    *)
HonestResults ==
  /\ results \in Seq(Result) /\ Len(results) <= Len(plan.checks)
  /\ stage = "Pre" => results = <<>>
  /\ stage = "Checks" => at = Len(results)
  /\ \A k \in DOMAIN results :
       /\ results[k].host = plan.checks[k].host
       /\ results[k].disposition = Recomputed(results[k].cases, results[k].bypasses, plan.checks[k].allowed)

HonestCorpus ==
  /\ corpus \in Seq(CorpusResult) /\ Len(corpus) <= plan.corpus

(* A run that is still good has completed the checks it has passed.        *)
ChecksComplete ==
  /\ stage \in {"Checks", "Trials"} => status = "Completed"
  /\ status = "Completed" /\ stage \notin {"Pre", "Checks"} => Len(results) = Len(plan.checks)
  /\ status = "Completed" /\ stage \notin {"Pre", "Checks", "Corpus"} => Len(corpus) = plan.corpus
  /\ status = "Completed" => \A k \in DOMAIN corpus : corpus[k].invalid = 0

(* What of the results is in the bundle.                                   *)
Loading == {"network_path", "replay", "diagnostics", "security", "loaded"}
StagedResults ==
  stage \in Loading =>
    /\ ("security" \in evidence) = (results # <<>>)
    /\ results # <<>> => Len(results) = Len(plan.checks) /\ index.scope = results[1].host

LoadedRecords ==
  stage = "loaded" =>
    /\ (plan.checks # <<>>) = ("security" \in evidence)
    /\ records = [k \in DOMAIN results |-> CheckRecord(k)] \o [k \in 1 .. plan.corpus |-> CorpusRecord(k)]

RecordsInv ==
  stage \in InputStages =>
    plan \in Plans /\ HonestResults /\ HonestCorpus /\ ChecksComplete /\ StagedResults /\ LoadedRecords

LEMMA InitRecords == Init => RecordsInv
<1> SUFFICES ASSUME Init PROVE RecordsInv
  OBVIOUS
<1>1. /\ plan \in Plans /\ stage = "Pre" /\ results = <<>> /\ corpus = <<>>
  BY DEF Init, InputInit
<1>2. Len(plan.checks) \in Nat /\ plan.corpus \in Nat
  BY <1>1, PlansAssumption, LenProperties DEF Plan
<1>3. results \in Seq(Result) /\ corpus \in Seq(CorpusResult) /\ Len(results) = 0 /\ Len(corpus) = 0
      /\ DOMAIN results = {} /\ DOMAIN corpus = {}
  BY <1>1, EmptySeq
<1> QED
  BY <1>1, <1>2, <1>3 DEF RecordsInv, HonestResults, HonestCorpus, ChecksComplete, StagedResults,
                         LoadedRecords, Loading

(* A count of cases and bypasses within its bounds is judged.              *)
LEMMA CountsAreJudged ==
  ASSUME NEW cases \in 1 .. MaxCases, NEW bypasses \in 0 .. cases, NEW allowed
  PROVE  Recomputed(cases, bypasses, allowed) \in {"Pass", "Fail"}
BY CasesAssumption DEF Recomputed

LEMMA AppendOne ==
  ASSUME NEW S, NEW list \in Seq(S), NEW e \in S
  PROVE  /\ Append(list, e) \in Seq(S) /\ Len(Append(list, e)) = Len(list) + 1
         /\ Len(list) \in Nat /\ DOMAIN list = 1 .. Len(list)
         /\ DOMAIN Append(list, e) = 1 .. Len(list) + 1
         /\ Append(list, e)[Len(list) + 1] = e
         /\ \A k \in DOMAIN list : Append(list, e)[k] = list[k]
BY AppendProperties, LenProperties

(* The checks of a plan.                                                   *)
LEMMA PlanTyped ==
  ASSUME NEW p \in Plans
  PROVE  /\ Len(p.checks) \in Nat /\ DOMAIN p.checks = 1 .. Len(p.checks) /\ p.corpus \in Nat
         /\ p.checks # <<>> <=> Len(p.checks) # 0
         /\ \A k \in 1 .. Len(p.checks) : p.checks[k].host \in STRING
         /\ p.paired \/ p.path => p.corpus = 0
<1>1. p \in Plan /\ Composable(p)
  BY PlansAssumption
<1>2. p.checks \in Seq([host : STRING, allowed : Nat]) /\ p.corpus \in Nat
  BY <1>1 DEF Plan
<1>3. /\ Len(p.checks) \in Nat /\ DOMAIN p.checks = 1 .. Len(p.checks)
      /\ p.checks # <<>> <=> Len(p.checks) # 0
  BY <1>2, LenProperties, EmptySeq
<1>4. \A k \in 1 .. Len(p.checks) : p.checks[k] \in [host : STRING, allowed : Nat]
  BY <1>2, ElementOfSeq
<1> QED
  BY <1>1, <1>2, <1>3, <1>4 DEF Composable

Honest == plan \in Plans /\ HonestResults /\ HonestCorpus /\ ChecksComplete /\ StagedResults /\ LoadedRecords

(* A step that neither checks nor loads anything.                          *)
LEMMA HonestUnchanged ==
  ASSUME Honest, UNCHANGED <<plan, results, corpus>>,
         stage' = stage \/ stage' \notin {"Pre", "Checks"} \cup Loading,
         stage' = "Checks" => at' = at,
         stage' \in {"Checks", "Trials"} => status' = "Completed",
         status' = "Completed" =>
           status = "Completed" /\ (stage' = stage \/ stage \notin {"Pre", "Checks", "Corpus"}),
         stage' \in Loading => UNCHANGED <<bundle, records>>
  PROVE  Honest'
<1>1. HonestResults' /\ HonestCorpus'
  BY DEF Honest, HonestResults, HonestCorpus
<1>2. ChecksComplete'
  BY DEF Honest, ChecksComplete
<1>3. StagedResults'
  BY DEF Honest, StagedResults, bundle
<1>4. LoadedRecords'
  <2> SUFFICES ASSUME stage' = "loaded" PROVE LoadedRecords'
    BY DEF LoadedRecords
  <2>1. stage = "loaded" /\ UNCHANGED <<evidence, index, records>>
    BY DEF Loading, bundle
  <2>2. \A k : CheckRecord(k)' = CheckRecord(k) /\ CorpusRecord(k)' = CorpusRecord(k)
    BY <2>1 DEF CheckRecord, CorpusRecord
  <2> QED
    BY <2>1, <2>2 DEF Honest, LoadedRecords
<1> QED
  BY <1>1, <1>2, <1>3, <1>4 DEF Honest

LEMMA RecordsKept == RecordsInv /\ [Next]_vars => RecordsInv'
<1> SUFFICES ASSUME RecordsInv, [Next]_vars, stage' \in InputStages PROVE Honest'
  BY DEF RecordsInv, Honest
<1>1. CASE vars' = vars
  <2>1. stage \in InputStages /\ UNCHANGED inputVars
    BY <1>1 DEF vars, inputVars
  <2> QED
    BY <2>1, HonestUnchanged DEF RecordsInv, Honest, inputVars, bundle, ChecksComplete
<1>2. CASE Start \/ LoadBaseline \/ EvaluateMetric \/ Aggregate \/ Present
  <2>1. stage' \notin InputStages
    BY <1>2, Zenon DEF Start, LoadBaseline, EvaluateMetric, Aggregate, Present, InputStages, Exit
  <2> QED
    BY <2>1
<1>3. CASE InputNext
  <2>1. stage \in InputStages
    BY <1>3, InputSteps
  <2>2. Honest
    BY <2>1 DEF RecordsInv, Honest
  <2>3. Len(plan.checks) \in Nat /\ plan.corpus \in Nat
    BY <2>2, PlanTyped DEF Honest
  <2>4. Len(<<>>) = 0 /\ DOMAIN <<>> = {}
    BY EmptySeq
  <2>5. ASSUME UNCHANGED <<plan, results, corpus>>,
               stage' = stage \/ stage' \notin {"Pre", "Checks"} \cup Loading,
               stage' = "Checks" => at' = at,
               stage' \in {"Checks", "Trials"} => status' = "Completed",
               status' = "Completed" => status = "Completed" /\ (stage' = stage \/ stage \notin {"Pre", "Checks", "Corpus"}),
               stage' \in Loading => UNCHANGED <<bundle, records>>
        PROVE  Honest'
    BY <2>2, <2>5, HonestUnchanged
  <2>6. CASE Cancel
    BY <2>2, <2>5, <2>6 DEF Cancel, Honest, ChecksComplete
  <2>7. CASE \E slot \in {"Pre", "Post"} : SlotEnds(slot)
    <3>1. PICK slot \in {"Pre", "Post"} : SlotEnds(slot)
      BY <2>7
    <3>2. CASE slot = "Pre" /\ status' = "Completed"
      <4>1. /\ stage = "Pre" /\ stage' = "Checks" /\ at' = 0 /\ status = "Completed"
            /\ UNCHANGED <<plan, results, corpus, bundle, records>>
        BY <3>1, <3>2, Zenon DEF SlotEnds, Leave, AfterSlot, FinalStatus
      <4> QED
        <5>1. HonestResults' /\ HonestCorpus'
          BY <2>2, <2>4, <4>1 DEF Honest, HonestResults, HonestCorpus
        <5>2. ChecksComplete' /\ StagedResults' /\ LoadedRecords'
          BY <2>2, <3>2, <4>1 DEF Honest, ChecksComplete, StagedResults, LoadedRecords, Loading
        <5> QED
          BY <2>2, <4>1, <5>1, <5>2 DEF Honest
    <3>3. CASE ~(slot = "Pre" /\ status' = "Completed")
      <4>1. /\ stage = slot /\ stage' \in {"Index", "Post"} /\ UNCHANGED <<plan, results, corpus>>
            /\ status' = "Completed" => status = "Completed" /\ stage = "Post"
        BY <3>1, <3>3 DEF SlotEnds, Leave, AfterSlot, FinalStatus
      <4> QED
        BY <2>2, <2>5, <4>1 DEF Loading
    <3> QED
      BY <3>2, <3>3
  <2>8. CASE \E slot \in {"Pre", "Post"} : SkipDiagnostic(slot) \/ InterruptDiagnostic(slot) \/ RunDiagnostic(slot)
    <3>1. PICK slot \in {"Pre", "Post"} : SkipDiagnostic(slot) \/ InterruptDiagnostic(slot) \/ RunDiagnostic(slot)
      BY <2>8
    <3>2. /\ stage = slot /\ stage' \in {slot, "Post"} /\ UNCHANGED <<plan, results, corpus>>
          /\ status' = "Completed" => status = "Completed" /\ stage' = stage
      <4>1. CASE SkipDiagnostic(slot)
        BY <4>1 DEF SkipDiagnostic, Leave
      <4>2. CASE InterruptDiagnostic(slot)
        BY <4>2 DEF InterruptDiagnostic, Leave
      <4>3. CASE RunDiagnostic(slot)
        BY <4>3 DEF RunDiagnostic, Leave
      <4> QED
        BY <3>1, <4>1, <4>2, <4>3
    <3> QED
      BY <2>2, <2>5, <3>2 DEF Loading
  <2>9. CASE RunCheck
    <3>1. /\ stage = "Checks" /\ at + 1 <= Len(plan.checks) /\ at = Len(results)
          /\ UNCHANGED <<plan, corpus>>
      BY <2>2, <2>9 DEF RunCheck, Honest, HonestResults
    <3>2. CASE status' = "Invalid" /\ Leave("Corpus") /\ UNCHANGED results
      BY <2>2, <2>5, <3>1, <3>2 DEF Leave, Loading
    <3>3. CASE \E cases \in 1 .. MaxCases : \E bypasses \in 0 .. cases :
                 /\ results' = Append(results,
                      [id |-> at + 1, host |-> plan.checks[at + 1].host, cases |-> cases, bypasses |-> bypasses,
                       disposition |-> Recomputed(cases, bypasses, plan.checks[at + 1].allowed)])
                 /\ at' = at + 1 /\ UNCHANGED <<status, stage>>
      <4>1. PICK cases \in 1 .. MaxCases : \E bypasses \in 0 .. cases :
              /\ results' = Append(results,
                   [id |-> at + 1, host |-> plan.checks[at + 1].host, cases |-> cases, bypasses |-> bypasses,
                    disposition |-> Recomputed(cases, bypasses, plan.checks[at + 1].allowed)])
              /\ at' = at + 1 /\ UNCHANGED <<status, stage>>
        BY <3>3
      <4>2. PICK bypasses \in 0 .. cases :
              /\ results' = Append(results,
                   [id |-> at + 1, host |-> plan.checks[at + 1].host, cases |-> cases, bypasses |-> bypasses,
                    disposition |-> Recomputed(cases, bypasses, plan.checks[at + 1].allowed)])
              /\ at' = at + 1 /\ UNCHANGED <<status, stage>>
        BY <4>1
      <4> DEFINE e == [id |-> at + 1, host |-> plan.checks[at + 1].host, cases |-> cases, bypasses |-> bypasses,
                       disposition |-> Recomputed(cases, bypasses, plan.checks[at + 1].allowed)]
      <4>3. results \in Seq(Result) /\ Len(results) \in Nat /\ at \in Nat
        BY <2>2, <3>1, LenProperties DEF Honest, HonestResults
      <4>4. e \in Result
        <5>1. plan.checks[at + 1].host \in STRING
          BY <2>2, <3>1, <4>3, PlanTyped DEF Honest
        <5>2. Recomputed(cases, bypasses, plan.checks[at + 1].allowed) \in {"Pass", "Fail"}
          BY CountsAreJudged
        <5>3. cases \in Int /\ bypasses \in Int /\ at + 1 \in Nat
          BY <4>3, CasesAssumption
        <5> QED
          BY <5>1, <5>2, <5>3 DEF Result
      <4>5. /\ e.host = plan.checks[at + 1].host
            /\ e.disposition = Recomputed(e.cases, e.bypasses, plan.checks[at + 1].allowed)
        OBVIOUS
      <4>6. results' = Append(results, e)
        BY <4>2
      <4> HIDE DEF e
      <4>7. /\ results' \in Seq(Result) /\ Len(results') = at + 1
            /\ DOMAIN results = 1 .. at /\ DOMAIN results' = 1 .. at + 1
            /\ results'[at + 1] = e /\ \A k \in DOMAIN results : results'[k] = results[k]
        BY <3>1, <4>3, <4>4, <4>6, AppendOne
      <4>8. ASSUME NEW k \in DOMAIN results'
            PROVE  /\ results'[k].host = plan.checks[k].host
                   /\ results'[k].disposition
                      = Recomputed(results'[k].cases, results'[k].bypasses, plan.checks[k].allowed)
        <5>1. k \in DOMAIN results \/ k = at + 1
          BY <4>3, <4>7
        <5> QED
          BY <2>2, <4>5, <4>7, <5>1 DEF Honest, HonestResults
      <4>9. HonestResults'
        BY <3>1, <4>2, <4>7, <4>8 DEF HonestResults
      <4> QED
        BY <2>2, <3>1, <4>2, <4>9 DEF Honest, HonestCorpus, ChecksComplete, StagedResults, LoadedRecords, Loading
    <3> QED
      BY <2>9, <3>2, <3>3, Zenon DEF RunCheck
  <2>10. CASE RunCorpusCheck
    <3>1. stage = "Corpus" /\ Len(corpus) < plan.corpus /\ UNCHANGED <<plan, results>>
      BY <2>10 DEF RunCorpusCheck
    <3>2. CASE status' = "Invalid" /\ Leave("Post") /\ UNCHANGED corpus
      BY <2>2, <2>5, <3>1, <3>2 DEF Leave, Loading
    <3>3. CASE \E f \in 0 .. 1, i \in 0 .. 1 :
                 /\ corpus' = Append(corpus, [failed |-> f, invalid |-> i])
                 /\ status' = IF i > 0 THEN "Invalid" ELSE status
                 /\ IF i > 0 THEN Leave("Post") ELSE UNCHANGED <<stage, at>>
      <4>1. PICK f \in 0 .. 1, i \in 0 .. 1 :
                 /\ corpus' = Append(corpus, [failed |-> f, invalid |-> i])
                 /\ status' = IF i > 0 THEN "Invalid" ELSE status
                 /\ IF i > 0 THEN Leave("Post") ELSE UNCHANGED <<stage, at>>
        BY <3>3
      <4> DEFINE e == [failed |-> f, invalid |-> i]
      <4>2. e \in CorpusResult /\ e.invalid = i
        BY DEF CorpusResult
      <4>3. /\ corpus' = Append(corpus, e) /\ stage' \in {"Corpus", "Post"}
            /\ status' = "Completed" => status = "Completed" /\ i = 0 /\ stage' = "Corpus"
        BY <3>1, <4>1 DEF Leave
      <4> HIDE DEF e
      <4>4. corpus \in Seq(CorpusResult)
        BY <2>2 DEF Honest, HonestCorpus
      <4>5. /\ corpus' \in Seq(CorpusResult) /\ Len(corpus') = Len(corpus) + 1 /\ Len(corpus) \in Nat
            /\ DOMAIN corpus = 1 .. Len(corpus) /\ DOMAIN corpus' = 1 .. Len(corpus) + 1
            /\ corpus'[Len(corpus) + 1] = e /\ \A k \in DOMAIN corpus : corpus'[k] = corpus[k]
        BY <4>2, <4>3, <4>4, AppendOne
      <4>6. HonestCorpus'
        BY <2>3, <3>1, <4>5 DEF HonestCorpus
      <4>7. HonestResults'
        BY <2>2, <3>1, <4>3 DEF Honest, HonestResults
      <4>8. ASSUME status' = "Completed", NEW k \in DOMAIN corpus' PROVE corpus'[k].invalid = 0
        <5>1. k \in DOMAIN corpus \/ k = Len(corpus) + 1
          BY <4>5
        <5> QED
          BY <2>2, <4>2, <4>3, <4>5, <4>8, <5>1 DEF Honest, ChecksComplete
      <4>9. ChecksComplete'
        BY <2>2, <3>1, <4>3, <4>8 DEF Honest, ChecksComplete
      <4> QED
        BY <2>2, <3>1, <4>3, <4>6, <4>7, <4>9 DEF Honest, StagedResults, LoadedRecords, Loading
    <3> QED
      BY <2>10, <3>2, <3>3, Zenon DEF RunCorpusCheck
  <2>11. CASE ChecksEnd
    <3>1. UNCHANGED <<plan, results, corpus>>
      BY <2>11 DEF ChecksEnd
    <3>2. CASE stage = "Checks"
      <4>1. /\ stage' = "Corpus" /\ at = Len(results)
            /\ at < Len(plan.checks) => status' = "Cancelled"
            /\ status' \in {status, "Cancelled"}
        BY <2>2, <2>11, <3>2 DEF ChecksEnd, Leave, Honest, HonestResults
      <4>2. Len(results) \in Nat /\ Len(results) <= Len(plan.checks)
        BY <2>2, LenProperties DEF Honest, HonestResults
      <4>3. status' = "Completed" => status = "Completed" /\ Len(results) = Len(plan.checks)
        BY <2>3, <4>1, <4>2
      <4>4. ChecksComplete'
        BY <2>2, <3>1, <4>1, <4>3 DEF Honest, ChecksComplete
      <4>5. HonestResults' /\ HonestCorpus'
        BY <2>2, <3>1, <4>1 DEF Honest, HonestResults, HonestCorpus
      <4> QED
        BY <2>2, <3>1, <4>1, <4>4, <4>5 DEF Honest, StagedResults, LoadedRecords, Loading
    <3>3. CASE stage = "Corpus"
      <4>1. /\ stage' = (IF status' = "Completed" THEN "Trials" ELSE "Post")
            /\ Len(corpus) < plan.corpus => status' = "Cancelled"
            /\ status' \in {status, "Cancelled"}
        BY <2>11, <3>3 DEF ChecksEnd, Leave
      <4>2. Len(corpus) \in Nat /\ Len(corpus) <= plan.corpus
        BY <2>2, LenProperties DEF Honest, HonestCorpus
      <4>3. status' = "Completed" => status = "Completed" /\ Len(corpus) = plan.corpus
        BY <2>3, <4>1, <4>2
      <4>4. ChecksComplete'
        BY <2>2, <3>1, <3>3, <4>1, <4>3 DEF Honest, ChecksComplete
      <4>5. HonestResults' /\ HonestCorpus'
        BY <2>2, <3>1, <4>1 DEF Honest, HonestResults, HonestCorpus
      <4> QED
        BY <2>2, <3>1, <4>1, <4>4, <4>5 DEF Honest, StagedResults, LoadedRecords, Loading
    <3> QED
      BY <2>11, <3>2, <3>3 DEF ChecksEnd
  <2>12. CASE RunTrials
    <3>1. /\ stage = "Trials" /\ stage' = "Post" /\ UNCHANGED <<plan, results, corpus>>
      BY <2>12 DEF RunTrials, Leave
    <3>2. status = "Completed"
      BY <2>2, <3>1 DEF Honest, ChecksComplete
    <3> QED
      BY <2>2, <2>5, <3>1, <3>2 DEF Loading
  <2>13. CASE StageIndexes
    <3>1. /\ stage = "Index" /\ UNCHANGED <<plan, results, corpus>> /\ stage' \in {"unpublished", "network_path"}
          /\ status' = "Completed" => status = "Completed"
      BY <2>13, Zenon DEF StageIndexes, Leave, FinalStatus
    <3>2. CASE stage' = "unpublished"
      BY <2>2, <2>5, <3>1, <3>2 DEF Loading
    <3>3. CASE stage' = "network_path"
      <4>1. /\ ("security" \in evidence') = (results # <<>>)
            /\ results # <<>> => index'.scope = results[1].host
            /\ plan.checks # <<>> /\ results # <<>> => Len(results) = Len(plan.checks)
        BY <2>13, <3>3 DEF StageIndexes, Leave
      <4>2. results # <<>> => plan.checks # <<>>
        <5>1. results \in Seq(Result) /\ Len(results) <= Len(plan.checks)
          BY <2>2 DEF Honest, HonestResults
        <5>2. Len(results) \in Nat /\ (results # <<>> => Len(results) # 0)
          BY <5>1, LenProperties, EmptySeq
        <5> QED
          BY <2>2, <2>3, <5>1, <5>2, PlanTyped DEF Honest
      <4>3. StagedResults'
        BY <3>1, <4>1, <4>2 DEF StagedResults
      <4>4. HonestResults' /\ HonestCorpus' /\ ChecksComplete'
        BY <2>2, <3>1, <3>3 DEF Honest, HonestResults, HonestCorpus, ChecksComplete
      <4> QED
        BY <2>2, <3>1, <3>3, <4>3, <4>4 DEF Honest, LoadedRecords
    <3> QED
      BY <3>1, <3>2, <3>3
  <2>14. CASE LoadNetworkPath \/ LoadReplay \/ LoadDiagnostics
    <3>1. /\ stage \in {"network_path", "replay", "diagnostics"}
          /\ stage' \in {"replay", "diagnostics", "security", "refused"}
          /\ UNCHANGED <<plan, results, corpus, status, bundle>>
      BY <2>14 DEF LoadNetworkPath, LoadReplay, LoadDiagnostics, Continue, Refuse, run
    <3>2. HonestResults' /\ HonestCorpus' /\ ChecksComplete'
      BY <2>2, <3>1 DEF Honest, HonestResults, HonestCorpus, ChecksComplete
    <3> QED
      BY <2>2, <3>1, <3>2 DEF Honest, StagedResults, LoadedRecords, Loading, bundle
  <2>15. CASE LoadSecurity
    <3>1. /\ stage = "security" /\ stage' \in {"loaded", "refused"}
          /\ UNCHANGED <<plan, results, corpus, status, evidence, index>>
          /\ stage' = "loaded" =>
               /\ (plan.checks # <<>>) = ("security" \in evidence)
               /\ records' = [k \in DOMAIN results |-> CheckRecord(k)] \o [k \in 1 .. plan.corpus |-> CorpusRecord(k)]
      BY <2>15, Zenon DEF LoadSecurity, Continue, Refuse, run, bundle
    <3>2. HonestResults' /\ HonestCorpus' /\ ChecksComplete' /\ StagedResults'
      BY <2>2, <3>1 DEF Honest, HonestResults, HonestCorpus, ChecksComplete, StagedResults, Loading
    <3>3. \A k : CheckRecord(k)' = CheckRecord(k) /\ CorpusRecord(k)' = CorpusRecord(k)
      BY <3>1 DEF CheckRecord, CorpusRecord
    <3>4. LoadedRecords'
      BY <3>1, <3>3 DEF LoadedRecords
    <3> QED
      BY <2>2, <3>1, <3>2, <3>4 DEF Honest
  <2> QED
    BY <1>3, <2>6, <2>7, <2>8, <2>9, <2>10, <2>11, <2>12, <2>13, <2>14, <2>15 DEF InputNext
<1> QED
  BY <1>1, <1>2, <1>3 DEF Next

LEMMA LoadedAreObserved == RecordsInv => RecordsAreObserved
<1> SUFFICES ASSUME RecordsInv, stage = "loaded"
             PROVE  /\ Correctness = "Pass" =>
                         /\ Len(results) = Len(plan.checks) /\ Len(corpus) = plan.corpus
                         /\ \A k \in DOMAIN results : results[k].bypasses <= plan.checks[k].allowed
                         /\ \A k \in DOMAIN corpus : corpus[k] = [failed |-> 0, invalid |-> 0]
                    /\ status = "Completed" =>
                         \A k \in DOMAIN records :
                           records[k].disposition = "Invalid" =>
                             /\ k <= Len(plan.checks) /\ records[k].reason = "scope_mismatch"
                             /\ plan.checks[k].host # plan.checks[1].host
  BY DEF RecordsAreObserved, PassIsObserved, InvalidIsScoped
<1>1. HonestResults /\ HonestCorpus /\ ChecksComplete /\ StagedResults /\ LoadedRecords /\ plan \in Plans
  BY DEF RecordsInv, InputStages
<1> DEFINE n == Len(results)
           m == plan.corpus
           own == [k \in DOMAIN results |-> CheckRecord(k)]
           cases == [k \in 1 .. plan.corpus |-> CorpusRecord(k)]
<1>2. /\ n \in Nat /\ m \in Nat /\ DOMAIN results = 1 .. n /\ Len(corpus) \in Nat /\ Len(corpus) <= m
      /\ DOMAIN corpus = 1 .. Len(corpus) /\ results # <<>> <=> n # 0
  BY <1>1, PlanTyped, LenProperties, EmptySeq DEF HonestResults, HonestCorpus
<1>3. n = Len(plan.checks)
  <2>1. Len(plan.checks) \in Nat /\ (plan.checks # <<>> <=> Len(plan.checks) # 0)
    BY <1>1, PlanTyped
  <2> QED
    BY <1>1, <1>2, <2>1 DEF StagedResults, LoadedRecords, Loading
<1>4. records = own \o cases
  BY <1>1 DEF LoadedRecords
<1>5. /\ DOMAIN records = 1 .. n + m
      /\ \A k \in 1 .. n : records[k] = CheckRecord(k)
      /\ \A k \in 1 .. m : records[n + k] = CorpusRecord(k)
      /\ \A k \in 1 .. n + m : k \in 1 .. n \/ (k - n \in 1 .. m /\ n + (k - n) = k)
  <2>1. DOMAIN own = 1 .. n /\ DOMAIN cases = 1 .. m
    BY <1>2
  <2>2. \A k \in 1 .. n : own[k] = CheckRecord(k)
    BY <1>2
  <2>3. \A k \in 1 .. m : cases[k] = CorpusRecord(k)
    OBVIOUS
  <2> HIDE DEF own, cases, n, m
  <2> QED
    <3>1. n \in Nat /\ m \in Nat
      BY <1>2
    <3>2. /\ DOMAIN (own \o cases) = 1 .. n + m
          /\ \A k \in 1 .. n : (own \o cases)[k] = own[k]
          /\ \A k \in 1 .. m : (own \o cases)[n + k] = cases[k]
          /\ \A k \in 1 .. n + m : k \in 1 .. n \/ (k - n \in 1 .. m /\ n + (k - n) = k)
      BY <3>1, <2>1
    <3> QED
      BY <1>4, <2>2, <2>3, <3>2
<1> HIDE DEF own, cases
<1>6. ASSUME NEW k \in 1 .. n
      PROVE  /\ results[k].disposition = Recomputed(results[k].cases, results[k].bypasses, plan.checks[k].allowed)
             /\ results[k].disposition \in {"Pass", "Fail"}
             /\ CheckRecord(k) = IF results[k].host # index.scope
                                 THEN [disposition |-> "Invalid", reason |-> "scope_mismatch"]
                                 ELSE [disposition |-> results[k].disposition, reason |-> None]
             /\ index.scope = plan.checks[1].host /\ results[k].host = plan.checks[k].host
  <2>1. k \in DOMAIN results /\ 1 \in DOMAIN results /\ results # <<>>
    BY <1>2
  <2>2. results[k] \in Result
    BY <1>1, <2>1, ElementOfSeq, <1>2 DEF HonestResults
  <2>3. results[k].disposition = Recomputed(results[k].cases, results[k].bypasses, plan.checks[k].allowed)
    BY <1>1, <2>1 DEF HonestResults
  <2>4. index.scope = plan.checks[1].host /\ results[k].host = plan.checks[k].host
    BY <1>1, <2>1 DEF HonestResults, StagedResults, Loading
  <2> QED
    BY <2>2, <2>3, <2>4 DEF CheckRecord, Result
<1>7. ASSUME NEW k \in DOMAIN corpus PROVE corpus[k] \in CorpusResult
  BY <1>1, <1>2, ElementOfSeq DEF HonestCorpus
<1>8. ASSUME Correctness = "Pass"
      PROVE  /\ n = Len(plan.checks) /\ Len(corpus) = plan.corpus
             /\ \A k \in DOMAIN results : results[k].bypasses <= plan.checks[k].allowed
             /\ \A k \in DOMAIN corpus : corpus[k] = [failed |-> 0, invalid |-> 0]
  <2>1. \A k \in 1 .. n + m : records[k].disposition \notin {"Invalid", "Fail"}
    BY <1>5, <1>8 DEF Correctness, None
  <2>2. ASSUME NEW k \in DOMAIN results PROVE results[k].bypasses <= plan.checks[k].allowed
    <3>1. k \in 1 .. n /\ k \in 1 .. n + m
      BY <1>2
    <3>2. CheckRecord(k).disposition \notin {"Invalid", "Fail"}
      BY <1>5, <2>1, <3>1
    <3>3. results[k].disposition = "Pass"
      BY <1>6, <3>1, <3>2
    <3> QED
      BY <1>6, <3>1, <3>3 DEF Recomputed
  <2>3. ASSUME NEW k \in 1 .. m PROVE CorpusRecord(k).disposition \notin {"Invalid", "Fail"}
    <3>1. n + k \in 1 .. n + m /\ records[n + k] = CorpusRecord(k)
      BY <1>2, <1>5
    <3> QED
      BY <2>1, <3>1
  <2>4. ASSUME NEW k \in 1 .. m
        PROVE  ~(k > Len(corpus)) /\ ~(corpus[k].invalid > 0) /\ ~(corpus[k].failed > 0)
    <3>1. ~(plan.paired \/ plan.path)
      BY <1>1, <1>2, PlanTyped
    <3>2. ~(k > Len(corpus))
      BY <2>3, <3>1 DEF CorpusRecord
    <3>3. ~(corpus[k].invalid > 0)
      BY <2>3, <3>1, <3>2 DEF CorpusRecord
    <3>4. ~(corpus[k].failed > 0)
      BY <2>3, <3>1, <3>2, <3>3 DEF CorpusRecord
    <3> QED
      BY <3>2, <3>3, <3>4
  <2>5. Len(corpus) = m
    <3>1. CASE m = 0
      BY <1>2, <3>1
    <3>2. CASE m # 0
      BY <1>2, <2>4, <3>2
    <3> QED
      BY <3>1, <3>2
  <2>6. ASSUME NEW k \in DOMAIN corpus PROVE corpus[k] = [failed |-> 0, invalid |-> 0]
    <3>1. k \in 1 .. m
      BY <1>2, <2>5
    <3> QED
      BY <1>7, <2>4, <3>1 DEF CorpusResult
  <2> QED
    BY <1>3, <2>2, <2>5, <2>6
<1>9. ASSUME status = "Completed", NEW k \in DOMAIN records, records[k].disposition = "Invalid"
      PROVE  /\ k <= Len(plan.checks) /\ records[k].reason = "scope_mismatch"
             /\ plan.checks[k].host # plan.checks[1].host
  <2>1. CASE k \in 1 .. n
    <3>1. CheckRecord(k).disposition = "Invalid" /\ records[k] = CheckRecord(k)
      BY <1>5, <1>9, <2>1
    <3>2. results[k].host # index.scope
      BY <1>6, <2>1, <3>1
    <3> QED
      BY <1>3, <1>6, <2>1, <3>1, <3>2
  <2>2. CASE k \notin 1 .. n
    <3>1. k - n \in 1 .. m /\ n + (k - n) = k
      BY <1>5, <2>2
    <3>2. CorpusRecord(k - n).disposition = "Invalid"
      BY <1>5, <1>9, <3>1
    <3>3. Len(corpus) = m /\ \A j \in DOMAIN corpus : corpus[j].invalid = 0
      BY <1>1, <1>9 DEF ChecksComplete
    <3>4. ~(plan.paired \/ plan.path) /\ ~(k - n > Len(corpus)) /\ corpus[k - n].invalid = 0
      BY <1>1, <1>2, <3>1, <3>3, PlanTyped
    <3> QED
      BY <3>2, <3>4 DEF CorpusRecord
  <2> QED
    BY <2>1, <2>2
<1> QED
  BY <1>8, <1>9

(* What is loaded of the correctness checks is what was observed of them:  *)
(* correctness passes only if every check of the plan ran, was observed    *)
(* and kept what it was allowed; and a check of a completed run is invalid *)
(* evidence only where its target is at another host than the first one's  *)
(* (load_correctness_records, load_http_corpus_records).                   *)
THEOREM ChecksAreObserved == Spec => []RecordsAreObserved
<1> QED
  BY InitRecords, RecordsKept, LoadedAreObserved, PTL DEF Spec


(***************************************************************************)
(* The executions of the diagnostics and the loader that matches them.     *)
(***************************************************************************)

(* The least number of a set.                                              *)
LEMMA LeastOf ==
  ASSUME NEW S \in SUBSET Nat, S # {}
  PROVE  \E k \in S : \A m \in S : k <= m
<1>1. PICK j \in S : \A k \in S : ~(<<k, j>> \in OpToRel(<, Nat))
  BY NatLessThanWellFounded, WFMin
<1>2. \A k \in S : ~(k < j)
  BY <1>1 DEF OpToRel
<1> QED
  BY <1>2

LEMMA DiagnosticsTyped ==
  ASSUME NEW p \in Plans
  PROVE  /\ Len(p.diagnostics) \in Nat /\ DOMAIN p.diagnostics = 1 .. Len(p.diagnostics)
         /\ p.diagnostics # <<>> <=> Len(p.diagnostics) # 0
         /\ \A k \in 1 .. Len(p.diagnostics) : p.diagnostics[k].phase \in {"Pre", "Post", "Both"}
<1>1. p.diagnostics \in Seq([phase : {"Pre", "Post", "Both"}, required : BOOLEAN])
  BY PlansAssumption DEF Plan
<1>2. /\ Len(p.diagnostics) \in Nat /\ DOMAIN p.diagnostics = 1 .. Len(p.diagnostics)
      /\ p.diagnostics # <<>> <=> Len(p.diagnostics) # 0
  BY <1>1, LenProperties, EmptySeq
<1>3. \A k \in 1 .. Len(p.diagnostics) :
        p.diagnostics[k] \in [phase : {"Pre", "Post", "Both"}, required : BOOLEAN]
  BY <1>1, ElementOfSeq
<1> QED
  BY <1>2, <1>3

(* The next request of a slot, and those it passes over.                   *)
LEMMA NextOf ==
  ASSUME plan \in Plans, NEW slot, at \in Nat
  PROVE  LET k == NextRequest(slot)
             n == Len(plan.diagnostics)
         IN  /\ k \in Nat /\ (at < k \/ k = n + 1)
             /\ \A j \in at + 1 .. n : j < k => ~Applies(slot, plan.diagnostics[j].phase)
             /\ k <= n => k \in at + 1 .. n /\ Applies(slot, plan.diagnostics[k].phase)
<1> DEFINE n == Len(plan.diagnostics)
           left == {k \in at + 1 .. n : Applies(slot, plan.diagnostics[k].phase)}
           k == NextRequest(slot)
<1>1. n \in Nat
  BY DiagnosticsTyped
<1>2. CASE left = {}
  BY <1>1, <1>2 DEF NextRequest
<1>3. CASE left # {}
  <2>1. left \in SUBSET Nat
    BY <1>1
  <2>2. \E m \in left : \A j \in left : m <= j
    <3> HIDE DEF left
    <3> QED
      BY <1>3, <2>1, LeastOf
  <2>3. k = CHOOSE m \in left : \A j \in left : m <= j
    BY <1>3 DEF NextRequest
  <2> HIDE DEF k
  <2>4. k \in left /\ \A j \in left : k <= j
    <3> HIDE DEF left
    <3> QED
      BY <2>2, <2>3
  <2>5. k \in at + 1 .. n /\ k \in Nat /\ at < k /\ Applies(slot, plan.diagnostics[k].phase)
    BY <1>1, <2>4
  <2>6. \A j \in at + 1 .. n : j < k => ~Applies(slot, plan.diagnostics[j].phase)
    BY <1>1, <2>4, <2>5
  <2> QED
    BY <2>5, <2>6 DEF k
<1> QED
  BY <1>2, <1>3

LEMMA DeclaredFinite ==
  ASSUME plan \in Plans
  PROVE  /\ IsFiniteSet(Declared) /\ Cardinality(Declared) \in Nat
         /\ \A S \in SUBSET Declared : IsFiniteSet(S) /\ Cardinality(S) \in Nat
         /\ \A e \in Declared :
              /\ e = <<e[1], e[2]>> /\ e[1] \in 1 .. Len(plan.diagnostics) /\ e[1] \in Nat
              /\ e[2] \in {"Pre", "Post"}
<1>1. Len(plan.diagnostics) \in Nat /\ DOMAIN plan.diagnostics = 1 .. Len(plan.diagnostics)
  BY DiagnosticsTyped
<1>2. IsFiniteSet(DOMAIN plan.diagnostics)
  BY <1>1, FS_Interval
<1>3. IsFiniteSet({"Pre", "Post"})
  <2>1. {"Pre", "Post"} = {"Pre"} \cup {"Post"}
    OBVIOUS
  <2>2. IsFiniteSet({"Pre"})
    BY FS_Singleton
  <2>3. IsFiniteSet({"Pre"} \cup {"Post"})
    BY <2>2, FS_AddElement
  <2> QED
    BY <2>1, <2>3
<1>4. IsFiniteSet((DOMAIN plan.diagnostics) \X {"Pre", "Post"})
  BY <1>2, <1>3, FS_Product
<1>5. Declared \subseteq (DOMAIN plan.diagnostics) \X {"Pre", "Post"}
  BY DEF Declared
<1>6. IsFiniteSet(Declared) /\ Cardinality(Declared) \in Nat
  BY <1>4, <1>5, FS_Subset, FS_CardinalityType
<1>7. \A S \in SUBSET Declared : IsFiniteSet(S) /\ Cardinality(S) \in Nat
  BY <1>6, FS_Subset, FS_CardinalityType
<1> QED
  BY <1>1, <1>5, <1>6, <1>7

(* An execution expected before another one has the earlier place.         *)
LEMMA PlacesFollow ==
  ASSUME plan \in Plans, NEW d \in Declared, NEW e \in Declared, Precedes(d, e)
  PROVE  Place(d) < Place(e)
<1> DEFINE D == {c \in Declared : c = d \/ Precedes(c, d)}
           E == {c \in Declared : c = e \/ Precedes(c, e)}
<1>1. /\ d = <<d[1], d[2]>> /\ d[1] \in Nat /\ d[2] \in {"Pre", "Post"}
      /\ e = <<e[1], e[2]>> /\ e[1] \in Nat /\ e[2] \in {"Pre", "Post"}
  BY DeclaredFinite
<1>2. D \subseteq E
  <2> SUFFICES ASSUME NEW c \in Declared, c = d \/ Precedes(c, d) PROVE Precedes(c, e)
    OBVIOUS
  <2>1. c[1] \in Nat
    BY DeclaredFinite
  <2> QED
    BY <1>1, <2>1 DEF Precedes
<1>3. e \in E /\ e \notin D
  BY <1>1 DEF Precedes
<1>4. IsFiniteSet(E) /\ IsFiniteSet(D) /\ Cardinality(E) \in Nat /\ Cardinality(D) \in Nat
  <2>1. D \in SUBSET Declared /\ E \in SUBSET Declared
    OBVIOUS
  <2> HIDE DEF D, E
  <2> QED
    BY <2>1, DeclaredFinite
<1> HIDE DEF D, E
<1>5. Cardinality(D) < Cardinality(E)
  <2>1. Cardinality(D) <= Cardinality(E) /\ (Cardinality(D) = Cardinality(E) => D = E)
    BY <1>2, <1>4, FS_Subset
  <2> QED
    BY <1>3, <1>4, <2>1
<1> QED
  BY <1>5 DEF D, E, Place

(* The execution at a place is the one expected there.                     *)
LEMMA ExpectedAt ==
  ASSUME plan \in Plans, NEW e \in Declared
  PROVE  Place(e) \in 1 .. Cardinality(Declared) => Expected[Place(e)] = e
<1>1. ASSUME NEW d \in Declared, Place(d) = Place(e) PROVE d = e
  <2>1. d = e \/ Precedes(d, e) \/ Precedes(e, d)
    <3>1. /\ d = <<d[1], d[2]>> /\ d[1] \in Nat /\ d[2] \in {"Pre", "Post"}
          /\ e = <<e[1], e[2]>> /\ e[1] \in Nat /\ e[2] \in {"Pre", "Post"}
      BY DeclaredFinite
    <3>2. d[1] < e[1] \/ e[1] < d[1] \/ d[1] = e[1]
      BY <3>1
    <3> QED
      BY <3>1, <3>2 DEF Precedes
  <2>2. Place(d) \in Nat /\ Place(e) \in Nat
    BY DeclaredFinite DEF Place
  <2> QED
    BY <1>1, <2>1, <2>2, PlacesFollow
<1> SUFFICES ASSUME Place(e) \in 1 .. Cardinality(Declared) PROVE Expected[Place(e)] = e
  OBVIOUS
<1>2. Expected[Place(e)] = CHOOSE d \in Declared : Place(d) = Place(e)
  BY DEF Expected
<1> QED
  BY <1>1, <1>2

(* The order the run has: slot by slot.                                    *)
RunBefore(d, e) == (d[2] = "Pre" /\ e[2] = "Post") \/ (d[2] = e[2] /\ d[1] < e[1])
RunPlace(e) == Cardinality({d \in Declared : d = e \/ RunBefore(d, e)})

LEMMA PlacesAgree ==
  ASSUME plan \in Plans, InRunOrder, NEW e \in Declared
  PROVE  Place(e) = RunPlace(e)
<1> SUFFICES ASSUME NEW d \in Declared, d # e PROVE Precedes(d, e) <=> RunBefore(d, e)
  BY DEF Place, RunPlace
<1>1. /\ d = <<d[1], d[2]>> /\ d[1] \in Nat /\ d[2] \in {"Pre", "Post"}
      /\ e = <<e[1], e[2]>> /\ e[1] \in Nat /\ e[2] \in {"Pre", "Post"}
  BY DeclaredFinite
<1>2. /\ Precedes(d, e) /\ d[2] = "Post" => e[2] = "Post"
      /\ Precedes(e, d) /\ e[2] = "Post" => d[2] = "Post"
  BY DEF InRunOrder
<1>3. d[1] < e[1] \/ e[1] < d[1] \/ (d[1] = e[1] /\ d[2] # e[2])
  BY <1>1
<1> QED
  BY <1>1, <1>2, <1>3 DEF Precedes, RunBefore

(* What of the expected executions the run has dealt with.                 *)
Dealt(e) ==
  IF e[2] = "Pre" THEN stage # "Pre" \/ e[1] <= at
  ELSE stage \notin {"Pre", "Checks", "Corpus", "Trials"} /\ (stage # "Post" \/ e[1] <= at)
DealtWith == {e \in Declared : Dealt(e)}

Versions == {"", "tool"}
Execution ==
  [id : Nat, slot : {"Pre", "Post"}, disposition : {"positive", "negative", "failed", "skipped"},
   version : Versions]
Pair(k) == <<executions[k].id, executions[k].slot>>

ExecutionsTyped ==
  /\ executions \in Seq(Execution)
  /\ \A k \in DOMAIN executions : executions[k].disposition = "skipped" => cancelled
  /\ at \in Nat

(* A run that is still good has recorded what it has dealt with, in order. *)
ExecutionsInOrder ==
  /\ Len(executions) = Cardinality(DealtWith)
  /\ \A k \in DOMAIN executions : Pair(k) \in Declared /\ RunPlace(Pair(k)) = k

(* The next one is the only one more that has been dealt with.             *)
LEMMA DealtNext ==
  ASSUME plan \in Plans, at \in Nat, NEW slot \in {"Pre", "Post"}, stage = slot,
         NEW k, k = NextRequest(slot), k <= Len(plan.diagnostics),
         plan' = plan, stage' = stage, at' = k
  PROVE  /\ <<k, slot>> \in Declared /\ <<k, slot>> \notin DealtWith
         /\ DealtWith' = DealtWith \cup {<<k, slot>>}
         /\ {d \in Declared : d = <<k, slot>> \/ RunBefore(d, <<k, slot>>)} = DealtWith'
<1> DEFINE n == Len(plan.diagnostics)
           e == <<k, slot>>
<1>1. n \in Nat /\ DOMAIN plan.diagnostics = 1 .. n
  BY DiagnosticsTyped
<1>2. /\ k \in at + 1 .. n /\ k \in Nat /\ Applies(slot, plan.diagnostics[k].phase)
      /\ \A j \in at + 1 .. n : j < k => ~Applies(slot, plan.diagnostics[j].phase)
  BY <1>1, NextOf
<1>3. e \in Declared
  BY <1>1, <1>2 DEF Declared
<1>4. Declared' = Declared
  BY DEF Declared
<1>5. ASSUME NEW d \in Declared
      PROVE  /\ d = <<d[1], d[2]>> /\ d[1] \in 1 .. n /\ d[2] \in {"Pre", "Post"}
             /\ d[2] = slot => Applies(slot, plan.diagnostics[d[1]].phase)
  BY <1>1, DeclaredFinite DEF Declared
<1>6. ASSUME NEW d \in Declared, d[2] = slot
      PROVE  /\ d[1] < k => d[1] <= at
             /\ d[1] <= at => d[1] < k
             /\ d[1] <= k <=> (d[1] <= at \/ d = e)
  BY <1>1, <1>2, <1>5, <1>6
<1>7. ASSUME NEW d \in Declared PROVE Dealt(d)' <=> (Dealt(d) \/ d = e)
  <2>1. CASE d[2] = slot
    BY <1>6, <2>1 DEF Dealt
  <2>2. CASE d[2] # slot
    BY <1>5, <2>2 DEF Dealt
  <2> QED
    BY <2>1, <2>2
<1>8. e \notin DealtWith
  BY <1>2 DEF DealtWith, Dealt
<1>9. DealtWith' = DealtWith \cup {e}
  BY <1>3, <1>4, <1>7 DEF DealtWith
<1>10. ASSUME NEW d \in Declared PROVE (d = e \/ RunBefore(d, e)) <=> (Dealt(d) \/ d = e)
  <2>1. CASE d[2] = slot
    BY <1>6, <2>1 DEF Dealt, RunBefore
  <2>2. CASE d[2] # slot
    BY <1>5, <2>2 DEF Dealt, RunBefore
  <2> QED
    BY <2>1, <2>2
<1>11. {d \in Declared : d = e \/ RunBefore(d, e)} = DealtWith'
  BY <1>9, <1>3, <1>10 DEF DealtWith
<1> QED
  BY <1>3, <1>8, <1>9, <1>11

(* At the end of a slot nothing is left of it.                             *)
LEMMA DealtEnd ==
  ASSUME plan \in Plans, at \in Nat, NEW slot \in {"Pre", "Post"}, stage = slot,
         NextRequest(slot) > Len(plan.diagnostics), plan' = plan,
         stage' = IF slot = "Pre" THEN "Checks" ELSE "Index"
  PROVE  DealtWith' = DealtWith
<1> DEFINE n == Len(plan.diagnostics)
<1>1. n \in Nat /\ DOMAIN plan.diagnostics = 1 .. n
  BY DiagnosticsTyped
<1>2. \A j \in at + 1 .. n : ~Applies(slot, plan.diagnostics[j].phase)
  <2>1. NextRequest(slot) \in Nat /\ \A j \in at + 1 .. n : j < NextRequest(slot) => ~Applies(slot, plan.diagnostics[j].phase)
    BY NextOf
  <2> QED
    BY <1>1, <2>1
<1>3. Declared' = Declared
  BY DEF Declared
<1>4. ASSUME NEW d \in Declared PROVE Dealt(d)' <=> Dealt(d)
  <2>1. /\ d = <<d[1], d[2]>> /\ d[1] \in 1 .. n /\ d[2] \in {"Pre", "Post"}
        /\ d[2] = slot => Applies(slot, plan.diagnostics[d[1]].phase)
    BY <1>1, DeclaredFinite DEF Declared
  <2>2. d[2] = slot => d[1] <= at
    BY <1>1, <1>2, <2>1
  <2> QED
    BY <2>1, <2>2 DEF Dealt
<1> QED
  BY <1>3, <1>4 DEF DealtWith

(* The record of the next one keeps them in order.                         *)
LEMMA RecordedInOrder ==
  ASSUME plan \in Plans, ExecutionsTyped, ExecutionsInOrder,
         NEW slot \in {"Pre", "Post"}, stage = slot,
         NextRequest(slot) <= Len(plan.diagnostics),
         NEW e \in Execution, e.id = NextRequest(slot), e.slot = slot, executions' = Append(executions, e),
         plan' = plan, stage' = stage, at' = NextRequest(slot)
  PROVE  ExecutionsInOrder'
<1> DEFINE p == <<NextRequest(slot), slot>>
<1>1. /\ p \in Declared /\ p \notin DealtWith
      /\ DealtWith' = DealtWith \cup {p}
      /\ {d \in Declared : d = p \/ RunBefore(d, p)} = DealtWith'
  BY DealtNext DEF ExecutionsTyped
<1>2. IsFiniteSet(DealtWith) /\ Cardinality(DealtWith) \in Nat
  <2>1. DealtWith \in SUBSET Declared
    BY DEF DealtWith
  <2> QED
    BY <2>1, DeclaredFinite
<1>3. Cardinality(DealtWith') = Cardinality(DealtWith) + 1
  BY <1>1, <1>2, FS_AddElement
<1>4. RunPlace(p) = Cardinality(DealtWith) + 1
  BY <1>1, <1>3 DEF RunPlace
<1>5. Declared' = Declared
  BY DEF Declared
<1>6. \A d : RunPlace(d)' = RunPlace(d)
  BY <1>5 DEF RunPlace
<1>7. /\ Len(executions) \in Nat /\ Len(executions') = Len(executions) + 1
      /\ DOMAIN executions = 1 .. Len(executions) /\ DOMAIN executions' = 1 .. Len(executions) + 1
      /\ executions'[Len(executions) + 1] = e
      /\ \A k \in DOMAIN executions : executions'[k] = executions[k]
  BY AppendOne DEF ExecutionsTyped
<1>8. Len(executions) = Cardinality(DealtWith)
  BY DEF ExecutionsInOrder
<1>9. ASSUME NEW k \in DOMAIN executions' PROVE Pair(k)' \in Declared /\ RunPlace(Pair(k)') = k
  <2>1. CASE k \in DOMAIN executions
    <3>1. Pair(k)' = Pair(k)
      BY <1>7, <2>1 DEF Pair
    <3> QED
      BY <2>1, <3>1 DEF ExecutionsInOrder
  <2>2. CASE k \notin DOMAIN executions
    <3>1. k = Len(executions) + 1
      BY <1>7, <2>2
    <3>2. Pair(k)' = p
      BY <1>7, <3>1 DEF Pair
    <3> QED
      BY <1>1, <1>4, <1>8, <3>1, <3>2
  <2> QED
    BY <2>1, <2>2
<1>10. Len(executions') = Cardinality(DealtWith')
  BY <1>3, <1>7, <1>8
<1>11. \A k \in DOMAIN executions' : Pair(k)' \in Declared' /\ RunPlace(Pair(k))' = k
  BY <1>5, <1>6, <1>9
<1> QED
  BY <1>10, <1>11 DEF ExecutionsInOrder

(* What the index claims of the executions, and the loader asks of it.     *)
StagedExecutions ==
  stage \in Loading \cup {"refused"} =>
    /\ status = "Completed" => ~cancelled
    /\ ("diagnostics" \in evidence) = (executions # <<>>)
    /\ ("path" \in evidence) = plan.path
    /\ ("replay" \in evidence) <=> replayed
    /\ index.version = IF executions = <<>> THEN None ELSE IndexVersion
    /\ executions # <<>> => Provenance(IndexVersion, executions)

LoadedExecutions ==
  /\ stage \in {"diagnostics", "security", "loaded"} => plan.replay = ("replay" \in evidence)
  /\ stage \in {"security", "loaded"} =>
       /\ ("diagnostics" \in evidence) = (plan.diagnostics # <<>>)
       /\ "diagnostics" \in evidence => ExecutionsMatch

(* A good run has the fixture of its replay, once its trials are over.     *)
GoodRun ==
  status = "Completed" =>
    /\ ExecutionsInOrder
    /\ stage \notin {"Pre", "Checks", "Corpus", "Trials"} => replayed = plan.replay

ExecutionsInv ==
  stage \in InputStages =>
    ExecutionsTyped /\ GoodRun /\ StagedExecutions /\ LoadedExecutions /\ CompletedRunsInOrderLoad

LEMMA InitExecutions == Init => ExecutionsInv
<1> SUFFICES ASSUME Init PROVE ExecutionsInv
  OBVIOUS
<1>1. /\ plan \in Plans /\ stage = "Pre" /\ executions = <<>> /\ at = 0
  BY DEF Init, InputInit
<1>2. executions \in Seq(Execution) /\ Len(executions) = 0 /\ DOMAIN executions = {}
  BY <1>1, EmptySeq
<1>3. DealtWith = {}
  <2>1. \A e \in Declared : e[1] \in 1 .. Len(plan.diagnostics) /\ Len(plan.diagnostics) \in Nat
    BY <1>1, DeclaredFinite, DiagnosticsTyped
  <2>2. \A e \in Declared : ~(e[1] <= at)
    BY <1>1, <2>1
  <2> QED
    BY <1>1, <2>2 DEF DealtWith, Dealt
<1>4. Cardinality({}) = 0
  BY FS_EmptySet
<1> QED
  BY <1>1, <1>2, <1>3, <1>4 DEF ExecutionsInv, ExecutionsTyped, GoodRun, ExecutionsInOrder,
     StagedExecutions, LoadedExecutions, CompletedRunsInOrderLoad, Loading

(* The executions of a good run whose order is the expected one match.     *)
LEMMA GoodRunMatches ==
  ASSUME plan \in Plans, ExecutionsTyped, ExecutionsInOrder, InRunOrder,
         stage \in Loading
  PROVE  /\ ExecutionsMatch
         /\ (executions # <<>>) = (plan.diagnostics # <<>>)
<1>1. DealtWith = Declared
  BY DEF DealtWith, Dealt, Loading
<1>2. Len(executions) \in Nat /\ DOMAIN executions = 1 .. Len(executions) /\ (executions # <<>> <=> Len(executions) # 0)
  BY LenProperties, EmptySeq DEF ExecutionsTyped
<1>3. Len(executions) = Cardinality(Declared)
  BY <1>1 DEF ExecutionsInOrder
<1>4. Len(Expected) = Cardinality(Declared)
  BY <1>2, <1>3 DEF Expected
<1>5. ASSUME NEW k \in DOMAIN executions PROVE Pair(k) = Expected[k]
  <2>1. Pair(k) \in Declared /\ RunPlace(Pair(k)) = k
    BY DEF ExecutionsInOrder
  <2>2. Place(Pair(k)) = k
    BY <2>1, PlacesAgree
  <2> QED
    BY <1>2, <1>3, <2>1, <2>2, ExpectedAt
<1>6. Declared = {} <=> plan.diagnostics = <<>>
  <2>1. /\ Len(plan.diagnostics) \in Nat /\ DOMAIN plan.diagnostics = 1 .. Len(plan.diagnostics)
        /\ plan.diagnostics # <<>> <=> Len(plan.diagnostics) # 0
        /\ \A k \in 1 .. Len(plan.diagnostics) : plan.diagnostics[k].phase \in {"Pre", "Post", "Both"}
    BY DiagnosticsTyped
  <2>2. CASE Len(plan.diagnostics) = 0
    BY <2>1, <2>2 DEF Declared
  <2>3. CASE Len(plan.diagnostics) # 0
    <3>1. 1 \in DOMAIN plan.diagnostics /\ plan.diagnostics[1].phase \in {"Pre", "Post", "Both"}
      BY <2>1, <2>3
    <3>2. <<1, "Pre">> \in Declared \/ <<1, "Post">> \in Declared
      BY <3>1 DEF Declared, Applies
    <3> QED
      BY <2>1, <2>3, <3>2
  <2> QED
    BY <2>2, <2>3
<1>7. Cardinality(Declared) = 0 <=> Declared = {}
  BY DeclaredFinite, FS_EmptySet
<1> QED
  BY <1>2, <1>3, <1>4, <1>5, <1>6, <1>7 DEF ExecutionsMatch, Pair




(* One record more, of the next request of a slot.                         *)
LEMMA ExecutionRecorded ==
  ASSUME plan \in Plans, ExecutionsTyped, GoodRun,
         NEW slot \in {"Pre", "Post"}, stage = slot, plan' = plan, cancelled' = cancelled,
         replayed' = replayed,
         NextRequest(slot) <= Len(plan.diagnostics),
         NEW disposition \in {"positive", "negative", "failed", "skipped"}, NEW version \in Versions,
         disposition = "skipped" => cancelled,
         executions' = Recorded(slot, NextRequest(slot), disposition, version),
         at' \in Nat,
         status' = "Completed" => status = "Completed" /\ stage' = stage /\ at' = NextRequest(slot)
  PROVE  ExecutionsTyped' /\ GoodRun'
<1> DEFINE e == [id |-> NextRequest(slot), slot |-> slot, disposition |-> disposition, version |-> version]
<1>1. e \in Execution
  <2>1. NextRequest(slot) \in Nat
    BY NextOf DEF ExecutionsTyped
  <2> QED
    BY <2>1 DEF Execution
<1>2. executions' = Append(executions, e)
  BY DEF Recorded
<1>3. e.id = NextRequest(slot) /\ e.slot = slot /\ e.disposition = disposition
  OBVIOUS
<1> HIDE DEF e
<1>4. executions \in Seq(Execution)
  BY DEF ExecutionsTyped
<1>5. /\ executions' \in Seq(Execution) /\ Len(executions) \in Nat
      /\ DOMAIN executions = 1 .. Len(executions) /\ DOMAIN executions' = 1 .. Len(executions) + 1
      /\ executions'[Len(executions) + 1] = e
      /\ \A k \in DOMAIN executions : executions'[k] = executions[k]
  <2>1. /\ Append(executions, e) \in Seq(Execution) /\ Len(executions) \in Nat
        /\ DOMAIN executions = 1 .. Len(executions) /\ DOMAIN Append(executions, e) = 1 .. Len(executions) + 1
        /\ Append(executions, e)[Len(executions) + 1] = e
        /\ \A k \in DOMAIN executions : Append(executions, e)[k] = executions[k]
    BY <1>1, <1>4, AppendOne
  <2> QED
    BY <1>2, <2>1
<1>6. ASSUME NEW k \in DOMAIN executions', executions'[k].disposition = "skipped" PROVE cancelled'
  <2>1. k \in DOMAIN executions \/ k = Len(executions) + 1
    BY <1>5
  <2> QED
    BY <1>3, <1>5, <1>6, <2>1 DEF ExecutionsTyped
<1>7. ExecutionsTyped'
  BY <1>5, <1>6 DEF ExecutionsTyped
<1>8. ASSUME status' = "Completed" PROVE ExecutionsInOrder'
  <2>1. ExecutionsInOrder /\ stage' = stage /\ at' = NextRequest(slot)
    BY <1>8 DEF GoodRun
  <2> QED
    BY <1>1, <1>2, <1>3, <2>1, RecordedInOrder
<1>9. GoodRun'
  BY <1>8 DEF GoodRun
<1> QED
  BY <1>7, <1>9

(* A step that records nothing and deals with nothing.                     *)
LEMMA ExecutionsUnchanged ==
  ASSUME ExecutionsTyped, GoodRun, UNCHANGED <<plan, executions>>, at' \in Nat, cancelled => cancelled',
         status' = "Completed" =>
           /\ status = "Completed" /\ DealtWith' = DealtWith
           /\ stage' \notin {"Pre", "Checks", "Corpus", "Trials"} => replayed' = plan.replay
  PROVE  ExecutionsTyped' /\ GoodRun'
<1>1. ExecutionsTyped'
  BY DEF ExecutionsTyped
<1>2. ASSUME status' = "Completed" PROVE ExecutionsInOrder'
  <2>1. Declared' = Declared
    BY DEF Declared
  <2>2. \A k : Pair(k)' = Pair(k) /\ RunPlace(Pair(k))' = RunPlace(Pair(k))
    BY <2>1 DEF Pair, RunPlace
  <2>3. ExecutionsInOrder
    BY <1>2 DEF GoodRun
  <2> QED
    BY <1>2, <2>1, <2>2, <2>3 DEF ExecutionsInOrder
<1>3. GoodRun'
  BY <1>2 DEF GoodRun
<1> QED
  BY <1>1, <1>3

LEMMA DealtSame ==
  ASSUME plan' = plan, at' = at \/ stage \notin {"Pre", "Post"},
         stage' = stage \/ (stage \in {"Checks", "Corpus"} /\ stage' \in {"Corpus", "Trials"})
                        \/ (stage \in {"Index"} \cup Loading /\ stage' \in {"refused"} \cup Loading)
  PROVE  DealtWith' = DealtWith
<1>1. Declared' = Declared
  BY DEF Declared
<1>2. \A d : Dealt(d)' <=> Dealt(d)
  BY DEF Dealt, Loading
<1> QED
  BY <1>1, <1>2 DEF DealtWith

LEMMA ExecutionsKept == RecordsInv /\ ExecutionsInv /\ [Next]_vars => ExecutionsInv'
<1> SUFFICES ASSUME RecordsInv, ExecutionsInv, [Next]_vars, stage' \in InputStages
             PROVE  /\ ExecutionsTyped' /\ GoodRun'
                    /\ StagedExecutions' /\ LoadedExecutions' /\ CompletedRunsInOrderLoad'
  BY DEF ExecutionsInv
<1>1. CASE Start \/ LoadBaseline \/ EvaluateMetric \/ Aggregate \/ Present
  <2>1. stage' \notin InputStages
    BY <1>1, Zenon DEF Start, LoadBaseline, EvaluateMetric, Aggregate, Present, InputStages, Exit
  <2> QED
    BY <2>1
<1>2. CASE vars' = vars
  <2>1. UNCHANGED inputVars /\ stage \in InputStages
    BY <1>2 DEF vars, inputVars
  <2>2. ExecutionsTyped /\ GoodRun /\ StagedExecutions /\ LoadedExecutions /\ CompletedRunsInOrderLoad
    BY <2>1 DEF ExecutionsInv
  <2>3. DealtWith' = DealtWith
    BY <2>1, DealtSame DEF inputVars
  <2>4. ExecutionsTyped' /\ GoodRun'
    BY <2>1, <2>2, <2>3, ExecutionsUnchanged DEF inputVars, GoodRun, ExecutionsTyped
  <2>5. Declared' = Declared
    BY <2>1 DEF Declared, inputVars
  <2>6. Expected' = Expected
    BY <2>5 DEF Expected, Place
  <2>7. StagedExecutions'
    BY <2>1, <2>2 DEF StagedExecutions, IndexVersion, Provenance, inputVars
  <2>8. LoadedExecutions' /\ CompletedRunsInOrderLoad'
    BY <2>1, <2>2, <2>5, <2>6
       DEF LoadedExecutions, CompletedRunsInOrderLoad, InRunOrder, ExecutionsMatch, inputVars
  <2> QED
    BY <2>4, <2>7, <2>8
<1>3. CASE InputNext
  <2>1. stage \in InputStages
    BY <1>3, InputSteps
  <2>2. ExecutionsTyped /\ GoodRun /\ StagedExecutions /\ LoadedExecutions /\ CompletedRunsInOrderLoad
    BY <2>1 DEF ExecutionsInv
  <2>3. plan \in Plans /\ ChecksComplete /\ StagedResults
    BY <2>1 DEF RecordsInv
  <2>4. at \in Nat
    BY <2>2 DEF ExecutionsTyped
  <2>5. ASSUME stage' \notin Loading \cup {"refused"}
        PROVE  StagedExecutions' /\ LoadedExecutions' /\ CompletedRunsInOrderLoad'
    BY <2>5 DEF StagedExecutions, LoadedExecutions, CompletedRunsInOrderLoad, Loading
  <2>6. CASE Cancel
    <3>1. /\ stage' = stage /\ stage \notin Loading \cup {"refused"} /\ cancelled' /\ at' = at
          /\ UNCHANGED <<plan, executions, status, replayed>>
      BY <2>6 DEF Cancel, run, Loading
    <3>2. DealtWith' = DealtWith
      BY <3>1, DealtSame
    <3>3. ExecutionsTyped' /\ GoodRun'
      BY <2>2, <2>4, <3>1, <3>2, ExecutionsUnchanged DEF GoodRun
    <3> QED
      BY <2>5, <3>1, <3>3
  <2>7. CASE \E slot \in {"Pre", "Post"} : SlotEnds(slot)
    <3>1. PICK slot \in {"Pre", "Post"} : SlotEnds(slot)
      BY <2>7
    <3>2. /\ stage = slot /\ NextRequest(slot) > Len(plan.diagnostics) /\ at' = 0
          /\ UNCHANGED <<plan, executions, cancelled, replayed>>
          /\ stage' = (IF slot = "Post" THEN "Index" ELSE IF status' = "Completed" THEN "Checks" ELSE "Post")
          /\ status' = "Completed" => status = "Completed"
      BY <3>1, Zenon DEF SlotEnds, Leave, AfterSlot, FinalStatus
    <3>3. ASSUME status' = "Completed" PROVE DealtWith' = DealtWith
      <4>1. stage' = IF slot = "Pre" THEN "Checks" ELSE "Index"
        BY <3>1, <3>2, <3>3
      <4> QED
        BY <2>3, <2>4, <3>2, <4>1, DealtEnd
    <3>4. ASSUME status' = "Completed"
          PROVE  stage' \notin {"Pre", "Checks", "Corpus", "Trials"} => replayed' = plan.replay
      BY <2>2, <3>1, <3>2, <3>4 DEF GoodRun
    <3>5. ExecutionsTyped' /\ GoodRun'
      BY <2>2, <3>2, <3>3, <3>4, ExecutionsUnchanged
    <3> QED
      BY <2>5, <3>1, <3>2, <3>5 DEF Loading
  <2>8. CASE \E slot \in {"Pre", "Post"} : SkipDiagnostic(slot) \/ InterruptDiagnostic(slot)
    <3>1. PICK slot \in {"Pre", "Post"} : SkipDiagnostic(slot) \/ InterruptDiagnostic(slot)
      BY <2>8
    <3>2. /\ stage = slot /\ stage' \in {slot, "Post"} /\ NextRequest(slot) <= Len(plan.diagnostics)
          /\ UNCHANGED <<plan, cancelled, replayed>> /\ cancelled
          /\ \E disposition \in {"failed", "skipped"}, version \in Versions :
               executions' = Recorded(slot, NextRequest(slot), disposition, version)
          /\ at' \in {0, NextRequest(slot)}
          /\ status' = "Completed" => status = "Completed" /\ stage' = stage /\ at' = NextRequest(slot)
      <4>1. CASE SkipDiagnostic(slot)
        BY <3>1, <4>1 DEF SkipDiagnostic, Leave, Versions
      <4>2. CASE InterruptDiagnostic(slot)
        BY <3>1, <4>2 DEF InterruptDiagnostic, Leave, Versions
      <4> QED
        BY <3>1, <4>1, <4>2
    <3>3. at' \in Nat
      <4>1. NextRequest(slot) \in Nat
        BY <2>3, <2>4, NextOf
      <4> QED
        BY <3>2, <4>1
    <3>4. ExecutionsTyped' /\ GoodRun'
      BY <2>2, <2>3, <3>2, <3>3, ExecutionRecorded
    <3> QED
      BY <2>5, <3>2, <3>4 DEF Loading
  <2>9. CASE \E slot \in {"Pre", "Post"} : RunDiagnostic(slot)
    <3>1. PICK slot \in {"Pre", "Post"} : RunDiagnostic(slot)
      BY <2>9
    <3>2. /\ stage = slot /\ stage' \in {slot, "Post"} /\ NextRequest(slot) <= Len(plan.diagnostics)
          /\ UNCHANGED <<plan, cancelled, replayed>>
          /\ \E disposition \in {"positive", "negative", "failed"}, version \in Versions :
               executions' = Recorded(slot, NextRequest(slot), disposition, version)
          /\ at' \in {0, NextRequest(slot)}
          /\ status' = "Completed" => status = "Completed" /\ stage' = stage /\ at' = NextRequest(slot)
      BY <3>1 DEF RunDiagnostic, Leave, Versions
    <3>3. at' \in Nat
      <4>1. NextRequest(slot) \in Nat
        BY <2>3, <2>4, NextOf
      <4> QED
        BY <3>2, <4>1
    <3>4. ExecutionsTyped' /\ GoodRun'
      BY <2>2, <2>3, <3>2, <3>3, ExecutionRecorded
    <3> QED
      BY <2>5, <3>2, <3>4 DEF Loading
  <2>10. CASE RunCheck \/ RunCorpusCheck \/ ChecksEnd
    <3>1. /\ stage \in {"Checks", "Corpus"} /\ stage' \in {"Checks", "Corpus", "Trials", "Post"}
          /\ UNCHANGED <<plan, executions, cancelled, replayed>>
          /\ at' \in {0, at, at + 1}
          /\ status' = "Completed" =>
               status = "Completed" /\ (stage' = stage \/ stage' \in {"Corpus", "Trials"})
      <4>1. CASE RunCheck
        BY <4>1 DEF RunCheck, Leave
      <4>2. CASE RunCorpusCheck
        BY <4>2 DEF RunCorpusCheck, Leave
      <4>3. CASE ChecksEnd
        BY <4>3 DEF ChecksEnd, Leave
      <4> QED
        BY <2>10, <4>1, <4>2, <4>3
    <3>2. status' = "Completed" => DealtWith' = DealtWith
      BY <3>1, DealtSame
    <3>3. at' \in Nat
      BY <2>4, <3>1
    <3>4. status' = "Completed" => stage' \in {"Checks", "Corpus", "Trials"}
      BY <3>1
    <3>5. ExecutionsTyped' /\ GoodRun'
      BY <2>2, <3>1, <3>2, <3>3, <3>4, ExecutionsUnchanged
    <3> QED
      BY <2>5, <3>1, <3>5 DEF Loading
  <2>11. CASE RunTrials
    <3>1. /\ stage = "Trials" /\ stage' = "Post" /\ at' = 0 /\ UNCHANGED <<plan, executions, cancelled>>
          /\ status' = "Completed" => replayed' = plan.replay
      <4>1. plan.replay \in BOOLEAN
        BY <2>3, PlansAssumption DEF Plan
      <4> QED
        BY <2>11, <4>1 DEF RunTrials, Leave
    <3>2. status = "Completed"
      BY <2>3, <3>1 DEF ChecksComplete
    <3>3. DealtWith' = DealtWith
      <4>1. Declared' = Declared
        BY <3>1 DEF Declared
      <4>2. \A d \in Declared : Dealt(d)' <=> Dealt(d)
        <5>1. \A d \in Declared : ~(d[1] <= 0)
          BY <2>3, DeclaredFinite, DiagnosticsTyped
        <5> QED
          BY <3>1, <5>1 DEF Dealt
      <4> QED
        BY <4>1, <4>2 DEF DealtWith
    <3>4. ExecutionsTyped' /\ GoodRun'
      BY <2>2, <3>1, <3>2, <3>3, ExecutionsUnchanged
    <3> QED
      BY <2>5, <3>1, <3>4 DEF Loading
  <2>12. CASE StageIndexes
    <3>1. /\ stage = "Index" /\ stage' \in {"unpublished", "network_path"} /\ at' = 0
          /\ UNCHANGED <<plan, executions, cancelled, replayed>>
          /\ status' = "Completed" => status = "Completed" /\ ~cancelled
      BY <2>12, Zenon DEF StageIndexes, Leave, FinalStatus
    <3>2. DealtWith' = DealtWith
      <4>1. Declared' = Declared
        BY <3>1 DEF Declared
      <4>2. \A d : Dealt(d)' <=> Dealt(d)
        BY <3>1 DEF Dealt
      <4> QED
        BY <4>1, <4>2 DEF DealtWith
    <3>3. ExecutionsTyped' /\ GoodRun'
      <4>1. status' = "Completed" => replayed' = plan.replay
        BY <2>2, <3>1 DEF GoodRun
      <4> QED
        BY <2>2, <3>1, <3>2, <4>1, ExecutionsUnchanged
    <3>4. CASE stage' = "unpublished"
      BY <2>5, <3>3, <3>4 DEF Loading
    <3>5. CASE stage' = "network_path"
      <4>1. /\ ("diagnostics" \in evidence') = (executions # <<>>)
            /\ ("path" \in evidence') = plan.path
            /\ ("replay" \in evidence') <=> replayed
            /\ index'.version = IF executions = <<>> THEN None ELSE IndexVersion
            /\ executions # <<>> => Provenance(IndexVersion, executions)
        <5>1. plan.path \in BOOLEAN
          BY <2>3, PlansAssumption DEF Plan
        <5> QED
          BY <2>12, <3>5, <5>1 DEF StageIndexes, Leave
      <4>2. IndexVersion' = IndexVersion
        BY <3>1 DEF IndexVersion
      <4>3. StagedExecutions'
        BY <3>1, <4>1, <4>2 DEF StagedExecutions, Provenance
      <4> QED
        BY <3>3, <3>5, <4>3 DEF LoadedExecutions, CompletedRunsInOrderLoad
    <3> QED
      BY <3>1, <3>4, <3>5
  <2>13. CASE LoadNetworkPath \/ LoadReplay \/ LoadDiagnostics \/ LoadSecurity
    <3>1. /\ stage \in Loading \ {"loaded"} /\ stage' \in Loading \cup {"refused"}
          /\ UNCHANGED <<plan, at, run, bundle>>
      BY <2>13 DEF LoadNetworkPath, LoadReplay, LoadDiagnostics, LoadSecurity, Continue, Refuse, Loading
    <3>2. DealtWith' = DealtWith
      BY <3>1, DealtSame DEF Loading
    <3>3. ExecutionsTyped' /\ GoodRun'
      <4>1. status' = "Completed" => replayed' = plan.replay
        BY <2>2, <3>1 DEF GoodRun, run, Loading
      <4> QED
        BY <2>2, <2>4, <3>1, <3>2, <4>1, ExecutionsUnchanged DEF run
    <3>4. StagedExecutions'
      BY <2>2, <3>1 DEF StagedExecutions, IndexVersion, Provenance, run, bundle
    <3>5. (InRunOrder' <=> InRunOrder) /\ (ExecutionsMatch' <=> ExecutionsMatch)
      <4>1. Declared' = Declared
        BY <3>1 DEF Declared
      <4>2. Expected' = Expected
        BY <4>1 DEF Expected, Place
      <4> QED
        BY <3>1, <4>1, <4>2 DEF InRunOrder, ExecutionsMatch, run
    <3>6. ASSUME status = "Completed", InRunOrder PROVE ExecutionsMatch /\ (executions # <<>>) = (plan.diagnostics # <<>>)
      BY <2>2, <2>3, <3>1, <3>6, GoodRunMatches DEF GoodRun
    <3>7. CASE LoadNetworkPath
      <4>1. stage' = "replay"
        BY <2>2, <3>7 DEF LoadNetworkPath, Continue, StagedExecutions, Loading
      <4> QED
        BY <3>3, <3>4, <4>1 DEF LoadedExecutions, CompletedRunsInOrderLoad
    <3>8. CASE LoadReplay
      <4>1. stage = "replay" /\ stage' = (IF plan.replay = ("replay" \in evidence) THEN "diagnostics" ELSE "refused")
        BY <3>8 DEF LoadReplay, Continue, Refuse
      <4>2. status = "Completed" => plan.replay = ("replay" \in evidence)
        <5>1. plan.replay \in BOOLEAN
          BY <2>3, PlansAssumption DEF Plan
        <5>2. status = "Completed" => replayed = plan.replay
          BY <2>2, <4>1 DEF GoodRun
        <5>3. ("replay" \in evidence) <=> replayed
          BY <2>2, <4>1 DEF StagedExecutions, Loading
        <5> QED
          BY <5>1, <5>2, <5>3
      <4> QED
        BY <3>1, <3>3, <3>4, <4>1, <4>2 DEF LoadedExecutions, CompletedRunsInOrderLoad, run, bundle
    <3>9. CASE LoadDiagnostics
      <4>1. /\ stage = "diagnostics" /\ stage' \in {"security", "refused"}
            /\ stage' = "security" <=>
                 IF "diagnostics" \in evidence
                 THEN plan.diagnostics # <<>> /\ Provenance(index.version, executions) /\ ExecutionsMatch
                 ELSE plan.diagnostics = <<>>
        BY <3>9, Zenon DEF LoadDiagnostics, Continue, Refuse
      <4>2. /\ ("diagnostics" \in evidence) = (executions # <<>>)
            /\ executions # <<>> => Provenance(index.version, executions)
        BY <2>2, <4>1 DEF StagedExecutions, Loading
      <4>3. status = "Completed" /\ InRunOrder => stage' = "security"
        BY <3>6, <4>1, <4>2
      <4>4. CompletedRunsInOrderLoad'
        BY <3>1, <3>5, <4>1, <4>3 DEF CompletedRunsInOrderLoad, run
      <4>5. LoadedExecutions'
        BY <2>2, <3>1, <3>5, <4>1 DEF LoadedExecutions, run, bundle
      <4> QED
        BY <3>3, <3>4, <4>4, <4>5
    <3>10. CASE LoadSecurity
      <4>1. /\ stage = "security"
            /\ stage' = IF (plan.checks # <<>>) = ("security" \in evidence) THEN "loaded" ELSE "refused"
        BY <3>10, Zenon DEF LoadSecurity, Continue, Refuse
      <4>2. status = "Completed" => stage' = "loaded"
        <5>1. ASSUME status = "Completed" PROVE (plan.checks # <<>>) = ("security" \in evidence)
          <6>1. Len(results) = Len(plan.checks) /\ ("security" \in evidence) = (results # <<>>)
            BY <2>3, <4>1, <5>1 DEF ChecksComplete, StagedResults, Loading
          <6>2. results \in Seq(Result)
            BY <2>1 DEF RecordsInv, HonestResults
          <6>3. results # <<>> <=> Len(results) # 0
            BY <6>2, LenProperties, EmptySeq
          <6>4. plan.checks # <<>> <=> Len(plan.checks) # 0
            BY <2>3, PlanTyped
          <6> QED
            BY <6>1, <6>3, <6>4
        <5> QED
          BY <4>1, <5>1
      <4>3. CompletedRunsInOrderLoad'
        BY <3>1, <4>1, <4>2 DEF CompletedRunsInOrderLoad, run
      <4>4. LoadedExecutions'
        BY <2>2, <3>1, <3>5, <4>1 DEF LoadedExecutions, run, bundle
      <4> QED
        BY <3>3, <3>4, <4>3, <4>4
    <3> QED
      BY <2>13, <3>7, <3>8, <3>9, <3>10
  <2> QED
    BY <1>3, <2>6, <2>7, <2>8, <2>9, <2>10, <2>11, <2>12, <2>13 DEF InputNext
<1> QED
  BY <1>1, <1>2, <1>3 DEF Next

(* The version an index claims is one of an execution's.                   *)
LEMMA ClaimedVersion ==
  ASSUME ExecutionsTyped, ~cancelled, executions # <<>>, Provenance(IndexVersion, executions)
  PROVE  IndexVersion = "tool"
<1> DEFINE known == {k \in DOMAIN executions : executions[k].version # ""}
<1>1. /\ Len(executions) \in Nat /\ DOMAIN executions = 1 .. Len(executions) /\ Len(executions) # 0
      /\ \A k \in DOMAIN executions : executions[k] \in Execution
  BY LenProperties, ElementOfSeq, EmptySeq DEF ExecutionsTyped
<1>2. \A k \in DOMAIN executions : executions[k].disposition # "skipped"
  BY DEF ExecutionsTyped
<1>3. 1 \in DOMAIN executions
  BY <1>1
<1>4. IndexVersion # ""
  BY <1>2, <1>3, Zenon DEF Provenance
<1>5. known # {}
  BY <1>4, Zenon DEF IndexVersion
<1>6. known \in SUBSET DOMAIN executions
  OBVIOUS
<1>7. \A k \in DOMAIN executions : executions[k].version \in Versions
  BY <1>1 DEF Execution
<1>8. \A k \in known : executions[k].version # "" /\ executions[k].version \in Versions
  BY <1>7, Zenon
<1>9. IndexVersion = executions[CHOOSE k \in known : \A m \in known : k <= m].version
  BY <1>5, Zenon DEF IndexVersion
<1> HIDE DEF known
<1>10. known \in SUBSET Nat
  BY <1>1, <1>6
<1>11. (CHOOSE k \in known : \A m \in known : k <= m) \in known
  BY <1>5, <1>10, LeastOf
<1>12. IndexVersion \in Versions
  BY <1>8, <1>9, <1>11
<1> QED
  BY <1>4, <1>12, Zenon DEF Versions

(* A record for every result and for every corpus check.                   *)
LEMMA RecordsCounted ==
  ASSUME RecordsInv, stage = "loaded"
  PROVE  Len(records) = Len(plan.checks) + plan.corpus
<1>1. HonestResults /\ StagedResults /\ LoadedRecords /\ plan \in Plans
  BY DEF RecordsInv, InputStages
<1> DEFINE own == [k \in DOMAIN results |-> CheckRecord(k)]
           cases == [k \in 1 .. plan.corpus |-> CorpusRecord(k)]
           n == Len(results)
           m == plan.corpus
<1>2. n \in Nat /\ m \in Nat /\ DOMAIN results = 1 .. n /\ (results # <<>> <=> n # 0)
  BY <1>1, PlanTyped, LenProperties, EmptySeq DEF HonestResults
<1>3. n = Len(plan.checks)
  <2>1. Len(plan.checks) \in Nat /\ (plan.checks # <<>> <=> Len(plan.checks) # 0)
    BY <1>1, PlanTyped
  <2> QED
    BY <1>1, <1>2, <2>1 DEF StagedResults, LoadedRecords, Loading
<1>4. records = own \o cases
  BY <1>1 DEF LoadedRecords
<1>5. DOMAIN own = 1 .. n /\ DOMAIN cases = 1 .. m
  BY <1>2
<1> HIDE DEF own, cases, n, m
<1>6. Len(own \o cases) = n + m
  BY <1>2, <1>5
<1> QED
  BY <1>3, <1>4, <1>6 DEF m

LEMMA LoadedAreDeclared == RecordsInv /\ ExecutionsInv => LoaderIsExact
<1> SUFFICES ASSUME RecordsInv, ExecutionsInv PROVE LoaderIsExact
  OBVIOUS
<1>1. CompletedRunsInOrderLoad
  BY DEF ExecutionsInv, CompletedRunsInOrderLoad, InputStages
<1>2. ASSUME stage = "loaded"
      PROVE  /\ {Pair(k) : k \in DOMAIN executions} = Range(Expected)
             /\ ("diagnostics" \in evidence) = (plan.diagnostics # <<>>)
             /\ ("security" \in evidence) = (plan.checks # <<>>)
             /\ ("path" \in evidence) = plan.path
             /\ ("replay" \in evidence) = plan.replay
             /\ Len(records) = Len(plan.checks) + plan.corpus
             /\ status = "Completed" /\ plan.diagnostics # <<>> => index.version = "tool"
  <2>1. ExecutionsTyped /\ GoodRun /\ StagedExecutions /\ LoadedExecutions
    BY <1>2 DEF ExecutionsInv, InputStages
  <2>2. plan \in Plans /\ LoadedRecords
    BY <1>2 DEF RecordsInv, InputStages
  <2>3. /\ ("diagnostics" \in evidence) = (executions # <<>>)
        /\ ("diagnostics" \in evidence) = (plan.diagnostics # <<>>)
        /\ "diagnostics" \in evidence => ExecutionsMatch
        /\ plan.replay = ("replay" \in evidence) /\ ("path" \in evidence) = plan.path
        /\ ("security" \in evidence) = (plan.checks # <<>>)
    BY <1>2, <2>1, <2>2 DEF StagedExecutions, LoadedExecutions, LoadedRecords, Loading
  <2>4. /\ Len(executions) \in Nat /\ DOMAIN executions = 1 .. Len(executions)
        /\ executions # <<>> <=> Len(executions) # 0
    BY <2>1, LenProperties, EmptySeq DEF ExecutionsTyped
  <2>5. DOMAIN Expected = 1 .. Cardinality(Declared) /\ Cardinality(Declared) \in Nat
        /\ Len(Expected) = Cardinality(Declared)
    BY <2>2, DeclaredFinite DEF Expected
  <2>6. {Pair(k) : k \in DOMAIN executions} = Range(Expected)
    <3>1. CASE executions # <<>>
      <4>1. Len(executions) = Len(Expected) /\ \A k \in DOMAIN executions : Pair(k) = Expected[k]
        BY <2>3, <3>1 DEF ExecutionsMatch, Pair
      <4>2. DOMAIN executions = DOMAIN Expected
        BY <2>4, <2>5, <4>1
      <4> QED
        BY <4>1, <4>2 DEF Range
    <3>2. CASE executions = <<>>
      <4>1. plan.diagnostics = <<>>
        BY <2>3, <3>2
      <4>2. Declared = {}
        BY <4>1, EmptySeq DEF Declared
      <4>3. Cardinality(Declared) = 0
        BY <4>2, FS_EmptySet
      <4>4. DOMAIN Expected = {} /\ DOMAIN executions = {}
        BY <2>4, <2>5, <3>2, <4>3
      <4> QED
        BY <4>4 DEF Range
    <3> QED
      BY <3>1, <3>2
  <2>7. ASSUME status = "Completed", plan.diagnostics # <<>> PROVE index.version = "tool"
    <3>1. /\ executions # <<>> /\ ~cancelled /\ index.version = IndexVersion
          /\ Provenance(IndexVersion, executions)
      BY <1>2, <2>1, <2>3, <2>7 DEF StagedExecutions, Loading
    <3> QED
      BY <2>1, <3>1, ClaimedVersion
  <2> QED
    BY <1>2, <2>3, <2>6, <2>7, RecordsCounted
<1> QED
  BY <1>1, <1>2 DEF LoaderIsExact, LoadedIsDeclared, Pair

(* The loader takes what was declared and observed, and refuses no run     *)
(* that completed, but for plans whose probes do not run in the order of   *)
(* the requests (load_comparison_input and what run_evidence staged).      *)
THEOREM LoaderTakesWhatWasDeclared == Spec => []LoaderIsExact
<1> QED
  BY InitRecords, InitExecutions, RecordsKept, ExecutionsKept,
     LoadedAreDeclared, PTL DEF Spec
=============================================================================
