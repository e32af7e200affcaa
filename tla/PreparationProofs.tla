------------------------- MODULE PreparationProofs --------------------------
(***************************************************************************)
(* Proofs about validation and preparation, for every plan: the search for *)
(* cycles, the launch order and what a prepared plan promises.             *)
(***************************************************************************)
EXTENDS Preparation, FiniteSetTheorems, SequenceTheorems, WellFoundedInduction, NaturalsInduction, TLAPS

----------------------------------------------------------------------------
(* Lists. *)

Distinct(list) == \A i, j \in 1 .. Len(list) : list[i] = list[j] => i = j

(* Every set of numbers that is not empty has a least element.             *)
LEMMA LeastOf ==
  ASSUME NEW S \in SUBSET Nat, S # {}
  PROVE  \E k \in S : \A j \in S : k <= j
<1>1. PICK j \in S : \A k \in S : ~(<<k, j>> \in OpToRel(<, Nat))
  BY NatLessThanWellFounded, WFMin
<1>2. \A k \in S : ~(k < j)
  BY <1>1 DEF OpToRel
<1> QED
  BY <1>2

(* Without a first refusal nothing is refused; a first refusal is one.     *)
LEMMA FirstNone ==
  ASSUME NEW list, First(list) = None, NEW k \in 1 .. Len(list)
  PROVE  list[k] = None
<1> DEFINE some == {j \in 1 .. Len(list) : list[j] # None}
<1> SUFFICES ASSUME k \in some PROVE FALSE
  OBVIOUS
<1>1. \E i \in some : \A j \in some : i <= j
  <2>1. some \in SUBSET Nat /\ some # {}
    OBVIOUS
  <2> HIDE DEF some
  <2> QED
    BY <2>1, LeastOf
<1>2. (CHOOSE i \in some : \A j \in some : i <= j) \in some
  BY <1>1
<1>3. First(list) = list[CHOOSE i \in some : \A j \in some : i <= j]
  BY DEF First
<1> QED
  BY <1>2, <1>3

LEMMA FirstFound ==
  ASSUME NEW list, First(list) # None
  PROVE  \E k \in 1 .. Len(list) : First(list) = list[k] /\ list[k] # None
<1> DEFINE some == {j \in 1 .. Len(list) : list[j] # None}
<1>1. some # {} /\ First(list) = list[CHOOSE i \in some : \A j \in some : i <= j]
  BY DEF First
<1>2. \E i \in some : \A j \in some : i <= j
  <2>1. some \in SUBSET Nat /\ some # {}
    BY <1>1
  <2> HIDE DEF some
  <2> QED
    BY <2>1, LeastOf
<1>3. (CHOOSE i \in some : \A j \in some : i <= j) \in some
  BY <1>2
<1> QED
  BY <1>1, <1>3

(* What a list holds after one more element, without its first one, and    *)
(* after another list.                                                     *)
LEMMA Appended ==
  ASSUME NEW S, NEW list \in Seq(S), NEW x \in S
  PROVE  /\ Append(list, x) \in Seq(S)
         /\ Elements(Append(list, x)) = Elements(list) \cup {x}
         /\ Distinct(list) /\ x \notin Elements(list) => Distinct(Append(list, x))
<1>1. /\ Append(list, x) \in Seq(S) /\ Len(Append(list, x)) = Len(list) + 1 /\ Len(list) \in Nat
      /\ \A k \in 1 .. Len(list) : Append(list, x)[k] = list[k]
      /\ Append(list, x)[Len(list) + 1] = x
  OBVIOUS
<1>2. Elements(Append(list, x)) = Elements(list) \cup {x}
  BY <1>1 DEF Elements
<1>3. ASSUME Distinct(list), x \notin Elements(list) PROVE Distinct(Append(list, x))
  BY <1>1, <1>3 DEF Distinct, Elements
<1> QED
  BY <1>1, <1>2, <1>3

LEMMA Beheaded ==
  ASSUME NEW S, NEW list \in Seq(S), list # <<>>
  PROVE  /\ Head(list) \in S /\ Tail(list) \in Seq(S)
         /\ Elements(list) = {Head(list)} \cup Elements(Tail(list))
         /\ Distinct(list) => Distinct(Tail(list)) /\ Head(list) \notin Elements(Tail(list))
<1>1. /\ Head(list) \in S /\ Tail(list) \in Seq(S) /\ Len(list) \in Nat /\ Len(list) > 0
      /\ Len(Tail(list)) = Len(list) - 1 /\ Head(list) = list[1]
      /\ \A k \in 1 .. Len(list) - 1 : Tail(list)[k] = list[k + 1]
  OBVIOUS
<1>2. Elements(list) = {Head(list)} \cup Elements(Tail(list))
  <2>1. ASSUME NEW k \in 1 .. Len(list) PROVE list[k] \in {Head(list)} \cup Elements(Tail(list))
    <3>1. CASE k = 1
      BY <1>1, <3>1
    <3>2. CASE k # 1
      <4>1. k - 1 \in 1 .. Len(Tail(list)) /\ Tail(list)[k - 1] = list[k]
        BY <1>1, <3>2
      <4> QED
        BY <4>1 DEF Elements
    <3> QED
      BY <3>1, <3>2
  <2>2. ASSUME NEW k \in 1 .. Len(Tail(list)) PROVE Tail(list)[k] \in Elements(list)
    <3>1. k + 1 \in 1 .. Len(list) /\ Tail(list)[k] = list[k + 1]
      BY <1>1
    <3> QED
      BY <3>1 DEF Elements
  <2>3. Head(list) \in Elements(list)
    BY <1>1 DEF Elements
  <2> QED
    BY <2>1, <2>2, <2>3 DEF Elements
<1>3. ASSUME Distinct(list) PROVE Distinct(Tail(list)) /\ Head(list) \notin Elements(Tail(list))
  <2>1. ASSUME NEW i \in 1 .. Len(Tail(list)), NEW j \in 1 .. Len(Tail(list)),
               Tail(list)[i] = Tail(list)[j]
        PROVE  i = j
    <3>1. i + 1 \in 1 .. Len(list) /\ j + 1 \in 1 .. Len(list) /\ list[i + 1] = list[j + 1]
      BY <1>1, <2>1
    <3>2. i + 1 = j + 1
      BY <1>3, <3>1 DEF Distinct
    <3> QED
      BY <1>1, <3>2
  <2>2. ASSUME NEW k \in 1 .. Len(Tail(list)), Tail(list)[k] = Head(list) PROVE FALSE
    <3>1. k + 1 \in 1 .. Len(list) /\ 1 \in 1 .. Len(list) /\ list[k + 1] = list[1] /\ k + 1 # 1
      BY <1>1, <2>2
    <3> QED
      BY <1>3, <3>1 DEF Distinct
  <2> QED
    BY <2>1, <2>2 DEF Distinct, Elements
<1> QED
  BY <1>1, <1>2, <1>3

LEMMA Joined ==
  ASSUME NEW S, NEW a \in Seq(S), NEW b \in Seq(S)
  PROVE  /\ a \o b \in Seq(S)
         /\ Elements(a \o b) = Elements(a) \cup Elements(b)
         /\ Distinct(a) /\ Distinct(b) /\ Elements(a) \cap Elements(b) = {} => Distinct(a \o b)
<1>1. /\ a \o b \in Seq(S) /\ Len(a \o b) = Len(a) + Len(b) /\ Len(a) \in Nat /\ Len(b) \in Nat
      /\ \A k \in 1 .. Len(a) + Len(b) : (a \o b)[k] = IF k <= Len(a) THEN a[k] ELSE b[k - Len(a)]
  OBVIOUS
<1>2. ASSUME NEW k \in 1 .. Len(b) PROVE k + Len(a) \in 1 .. Len(a) + Len(b) /\ (a \o b)[k + Len(a)] = b[k]
  BY <1>1
<1>3. ASSUME NEW k \in 1 .. Len(a) PROVE k \in 1 .. Len(a) + Len(b) /\ (a \o b)[k] = a[k]
  BY <1>1
<1>4. ASSUME NEW k \in 1 .. Len(a) + Len(b), k > Len(a)
      PROVE  k - Len(a) \in 1 .. Len(b) /\ (a \o b)[k] = b[k - Len(a)]
  BY <1>1, <1>4
<1>5. Elements(a \o b) \subseteq Elements(a) \cup Elements(b)
  <2> SUFFICES ASSUME NEW k \in 1 .. Len(a \o b) PROVE (a \o b)[k] \in Elements(a) \cup Elements(b)
    BY DEF Elements
  <2>1. CASE k <= Len(a)
    BY <1>1, <1>3, <2>1 DEF Elements
  <2>2. CASE k > Len(a)
    BY <1>1, <1>4, <2>2 DEF Elements
  <2> QED
    BY <1>1, <2>1, <2>2
<1>6. Elements(a) \cup Elements(b) \subseteq Elements(a \o b)
  <2>1. Len(a \o b) = Len(a) + Len(b)
    BY <1>1
  <2>2. ASSUME NEW k \in 1 .. Len(a) PROVE a[k] \in Elements(a \o b)
    BY <1>3, <2>1 DEF Elements
  <2>3. ASSUME NEW k \in 1 .. Len(b) PROVE b[k] \in Elements(a \o b)
    BY <1>2, <2>1 DEF Elements
  <2> QED
    BY <2>2, <2>3 DEF Elements
<1>7. ASSUME Distinct(a), Distinct(b), Elements(a) \cap Elements(b) = {} PROVE Distinct(a \o b)
  <2> SUFFICES ASSUME NEW i \in 1 .. Len(a) + Len(b), NEW j \in 1 .. Len(a) + Len(b),
                      (a \o b)[i] = (a \o b)[j]
               PROVE  i = j
    BY <1>1 DEF Distinct
  <2>1. CASE i <= Len(a) /\ j <= Len(a)
    BY <1>1, <1>7, <2>1 DEF Distinct
  <2>2. CASE i > Len(a) /\ j > Len(a)
    <3>1. /\ i - Len(a) \in 1 .. Len(b) /\ j - Len(a) \in 1 .. Len(b) /\ b[i - Len(a)] = b[j - Len(a)]
      BY <1>4, <2>2
    <3>2. i - Len(a) = j - Len(a)
      BY <1>7, <3>1 DEF Distinct
    <3> QED
      BY <1>1, <3>2
  <2>3. CASE i <= Len(a) /\ j > Len(a)
    <3>1. i \in 1 .. Len(a) /\ (a \o b)[i] = a[i]
      BY <1>1, <2>3
    <3>2. a[i] \in Elements(a) /\ a[i] \in Elements(b)
      BY <1>4, <2>3, <3>1 DEF Elements
    <3> QED
      BY <1>7, <3>2
  <2>4. CASE i > Len(a) /\ j <= Len(a)
    <3>1. j \in 1 .. Len(a) /\ (a \o b)[j] = a[j]
      BY <1>1, <2>4
    <3>2. a[j] \in Elements(a) /\ a[j] \in Elements(b)
      BY <1>4, <2>4, <3>1 DEF Elements
    <3> QED
      BY <1>7, <3>2
  <2> QED
    BY <1>1, <2>1, <2>2, <2>3, <2>4
<1> QED
  BY <1>1, <1>5, <1>6, <1>7

(* A list of distinct elements has as many as it is long.                  *)
LEMMA CountOf ==
  ASSUME NEW S, NEW list \in Seq(S), Distinct(list)
  PROVE  IsFiniteSet(Elements(list)) /\ Cardinality(Elements(list)) = Len(list)
<1> DEFINE at == [k \in 1 .. Len(list) |-> list[k]]
<1>1. Len(list) \in Nat
  OBVIOUS
<1>2. IsFiniteSet(1 .. Len(list)) /\ Cardinality(1 .. Len(list)) = Len(list)
  BY <1>1, FS_Interval
<1>3. at \in Bijection(1 .. Len(list), Elements(list))
  BY DEF Bijection, Injection, IsInjective, Surjection, Distinct, Elements
<1>4. ExistsBijection(1 .. Len(list), Elements(list))
  BY <1>3 DEF ExistsBijection
<1> QED
  BY <1>2, <1>4, FS_Bijection

LEMMA ElementsFinite ==
  ASSUME NEW S, NEW list \in Seq(S)
  PROVE  IsFiniteSet(Elements(list)) /\ Elements(list) \subseteq S
<1> DEFINE at == [k \in 1 .. Len(list) |-> list[k]]
<1>1. Len(list) \in Nat /\ IsFiniteSet(1 .. Len(list))
  BY FS_Interval
<1>2. at \in Surjection(1 .. Len(list), Elements(list))
  BY DEF Surjection, Elements
<1>3. IsFiniteSet(Elements(list))
  BY <1>1, <1>2, FS_Surjection
<1>4. Elements(list) \subseteq S
  BY DEF Elements
<1> QED
  BY <1>3, <1>4

(* Numbers in increasing order are all of them, each once.                 *)
LEMMA AscendingLists ==
  ASSUME NEW S \in SUBSET Nat, IsFiniteSet(S)
  PROVE  /\ Cardinality(S) \in Nat
         /\ Ascending(S) \in Seq(S) /\ Len(Ascending(S)) = Cardinality(S)
         /\ Elements(Ascending(S)) = S /\ Distinct(Ascending(S))
<1> DEFINE upTo(s) == {t \in S : t <= s}
           n == Cardinality(S)
           rank == [s \in S |-> Cardinality(upTo(s))]
<1>1. n \in Nat /\ IsFiniteSet(1 .. n) /\ Cardinality(1 .. n) = n
  BY FS_CardinalityType, FS_Interval
<1>2. ASSUME NEW s \in S PROVE rank[s] \in 1 .. n
  <2>1. IsFiniteSet(upTo(s)) /\ Cardinality(upTo(s)) <= n
    BY FS_Subset
  <2>2. Cardinality(upTo(s)) # 0
    <3>1. s \in upTo(s)
      OBVIOUS
    <3> QED
      BY <2>1, <3>1, FS_EmptySet
  <2>3. Cardinality(upTo(s)) \in Nat
    BY <2>1, FS_CardinalityType
  <2> QED
    BY <1>1, <2>1, <2>2, <2>3
<1>3. ASSUME NEW s \in S, NEW t \in S, s < t PROVE rank[s] # rank[t]
  <2>1. IsFiniteSet(upTo(t)) /\ upTo(s) \in SUBSET upTo(t) /\ t \in upTo(t) /\ t \notin upTo(s)
    <3>1. IsFiniteSet(upTo(t))
      BY FS_Subset
    <3>2. s \in Nat /\ t \in Nat /\ \A u \in S : u \in Nat
      OBVIOUS
    <3>3. \A u \in S : u <= s => u <= t
      BY <1>3, <3>2
    <3>4. ~(t <= s)
      BY <1>3, <3>2
    <3>5. upTo(s) \in SUBSET upTo(t)
      BY <3>3
    <3>6. t \in upTo(t) /\ t \notin upTo(s)
      BY <3>2, <3>4
    <3> QED
      BY <3>1, <3>5, <3>6
  <2>2. upTo(s) # upTo(t)
    BY <2>1
  <2> QED
    BY <2>1, <2>2, FS_Subset
<1>4. rank \in Injection(S, 1 .. n)
  <2>1. rank \in [S -> 1 .. n]
    BY <1>2
  <2>2. ASSUME NEW s \in S, NEW t \in S, rank[s] = rank[t] PROVE s = t
    <3>1. s \in Nat /\ t \in Nat
      OBVIOUS
    <3>2. ~(s < t) /\ ~(t < s)
      BY <1>3, <2>2
    <3> QED
      BY <3>1, <3>2
  <2> QED
    BY <2>1, <2>2 DEF Injection, IsInjective
<1>5. rank \in Surjection(S, 1 .. n)
  BY <1>1, <1>4, FS_Injection
<1>6. ASSUME NEW k \in 1 .. n PROVE Ascending(S)[k] \in S /\ rank[Ascending(S)[k]] = k
  <2>1. Ascending(S)[k] = CHOOSE s \in S : Cardinality(upTo(s)) = k
    BY <1>1 DEF Ascending
  <2>2. PICK s \in S : rank[s] = k
    BY <1>5 DEF Surjection
  <2>3. Cardinality(upTo(s)) = k
    BY <2>2
  <2>4. Ascending(S)[k] \in S /\ Cardinality(upTo(Ascending(S)[k])) = k
    BY <2>1, <2>3
  <2> QED
    BY <2>4
<1>7. Ascending(S) \in Seq(S) /\ Len(Ascending(S)) = n
  <2>1. Ascending(S) = [k \in 1 .. n |-> Ascending(S)[k]]
    BY DEF Ascending
  <2>2. Ascending(S) \in [1 .. n -> S]
    BY <1>6, <2>1
  <2> QED
    BY <1>1, <2>2
<1>8. ASSUME NEW s \in S PROVE \E k \in 1 .. n : Ascending(S)[k] = s
  <2>1. rank[s] \in 1 .. n
    BY <1>2
  <2>2. Ascending(S)[rank[s]] \in S /\ rank[Ascending(S)[rank[s]]] = rank[s]
    BY <1>6, <2>1
  <2>3. Ascending(S)[rank[s]] = s
    BY <1>4, <2>2 DEF Injection, IsInjective
  <2> QED
    BY <2>1, <2>3
<1> HIDE DEF rank
<1>9. Elements(Ascending(S)) = S
  BY <1>6, <1>7, <1>8 DEF Elements
<1>10. Distinct(Ascending(S))
  BY <1>6, <1>7 DEF Distinct
<1> QED
  BY <1>1, <1>7, <1>9, <1>10

(* The elements of a list that were chosen.                                *)
LEMMA ChosenLists ==
  ASSUME NEW S, NEW list \in Seq(S), NEW K \in SUBSET (1 .. Len(list))
  PROVE  /\ Chosen(list, K) \in Seq(S)
         /\ Elements(Chosen(list, K)) = {list[k] : k \in K}
         /\ Distinct(list) => Distinct(Chosen(list, K))
<1> DEFINE places == Ascending(K)
           chosen == Chosen(list, K)
           n == Cardinality(K)
<1>1. Len(list) \in Nat /\ IsFiniteSet(1 .. Len(list))
  BY FS_Interval
<1>2. K \in SUBSET Nat /\ IsFiniteSet(K)
  <2>1. K \in SUBSET Nat
    BY <1>1
  <2>2. IsFiniteSet(K)
    BY <1>1, FS_Subset
  <2> QED
    BY <2>1, <2>2
<1>3. /\ n \in Nat /\ places \in Seq(K) /\ Len(places) = n
      /\ Elements(places) = K /\ Distinct(places)
  BY <1>2, AscendingLists
<1>4. chosen = [k \in 1 .. n |-> list[places[k]]]
  BY DEF Chosen
<1> HIDE DEF places, chosen, n
<1>5. ASSUME NEW k \in 1 .. n PROVE places[k] \in K /\ chosen[k] = list[places[k]] /\ chosen[k] \in S
  <2>1. places[k] \in K
    BY <1>3
  <2>2. chosen[k] = list[places[k]]
    BY <1>4
  <2>3. list[places[k]] \in S
    <3>1. places[k] \in 1 .. Len(list)
      BY <2>1
    <3> QED
      BY <3>1
  <2> QED
    BY <2>1, <2>2, <2>3
<1>6. chosen \in Seq(S) /\ Len(chosen) = n
  <2>1. chosen \in [1 .. n -> S]
    BY <1>4, <1>5
  <2> QED
    BY <1>3, <2>1
<1>7. Elements(chosen) = {list[k] : k \in K}
  <2>1. ASSUME NEW k \in K PROVE \E j \in 1 .. n : chosen[j] = list[k]
    <3>1. PICK j \in 1 .. n : places[j] = k
      BY <1>3 DEF Elements
    <3> QED
      BY <1>5, <3>1
  <2>2. Elements(chosen) = {chosen[j] : j \in 1 .. n}
    BY <1>6 DEF Elements
  <2>3. \A j \in 1 .. n : chosen[j] \in {list[k] : k \in K}
    BY <1>5
  <2> QED
    BY <2>1, <2>2, <2>3
<1>8. ASSUME Distinct(list) PROVE Distinct(chosen)
  <2> SUFFICES ASSUME NEW i \in 1 .. n, NEW j \in 1 .. n, chosen[i] = chosen[j] PROVE i = j
    BY <1>6 DEF Distinct
  <2>1. list[places[i]] = list[places[j]] /\ places[i] \in 1 .. Len(list) /\ places[j] \in 1 .. Len(list)
    BY <1>5
  <2>2. places[i] = places[j]
    BY <1>8, <2>1 DEF Distinct
  <2> QED
    BY <1>3, <2>2 DEF Distinct
<1> QED
  BY <1>6, <1>7, <1>8 DEF chosen

----------------------------------------------------------------------------
(* The inductive invariant. *)

Deps(s) == Elements(plan.dependsOn[s])
Circle(C) == C \in SUBSET Names /\ \A s \in C : Deps(s) \cap C # {}

(* The sections after each one, the end of validate included. *)
AfterTrials == {"metrics", "accepted"}
AfterCorpus == AfterTrials \cup {"trials"}
AfterSecurity == AfterCorpus \cup {"corpus"}
AfterDiagnostics == AfterSecurity \cup {"security"}
AfterPaired == AfterDiagnostics \cup {"diagnostics"}
AfterCycles == AfterPaired \cup {"workload", "paired"}
AfterReferences == AfterCycles \cup {"cycles"}
AfterServices == AfterReferences \cup {"references"}
AfterPath == AfterServices \cup {"services"}
AfterFeatures == AfterPath \cup {"path"}

(* What each section has made sure of, as far as preparation relies on it. *)
FeaturesHold == Path => plan.diagnostics = <<>> /\ plan.security = <<>>
PathHolds ==
  /\ Path => plan.subject # "External"
  /\ plan.subject = "Managed" => plan.subjectFault # "EmptyArgv"
ServicesHold ==
  /\ Distinct(plan.services)
  /\ \A s \in Names :
       /\ s \in plan.managed /\ s \notin plan.adapters => plan.fault[s] # "EmptyArgv"
       /\ Elements(plan.sources[s]) \subseteq Deps(s)
ReferencesHold == Reachable(plan.workload.target) /\ ~Unknown
PairedHolds ==
  Paired =>
    /\ ~Path
    /\ ~(plan.measured < 2 \/ plan.measured % 2 # 0)
    /\ plan.paired.baseline \in Names /\ plan.paired.candidate \in Names
DiagnosticsHold == \A request \in Elements(plan.diagnostics) : Reachable(request.target)
DistinctIds(list) == \A i, j \in 1 .. Len(list) : list[i].id = list[j].id => i = j
SecurityHolds ==
  /\ Paired => plan.security = <<>>
  /\ DistinctIds(plan.security)
  /\ \A request \in Elements(plan.security) : Reachable(request.target)
CorpusHolds ==
  /\ Paired \/ Path => plan.corpus = <<>>
  /\ DistinctIds(plan.corpus)
  /\ \A k \in 1 .. Len(plan.corpus), j \in 1 .. Len(plan.security) :
       plan.corpus[k].id # plan.security[j].id
  /\ \A request \in Elements(plan.corpus) : Reachable(request.target)
TrialsHold == plan.reset.kind = "Service" => plan.reset.target \in Names

Promised(at) ==
  /\ at \in AfterFeatures => FeaturesHold
  /\ at \in AfterPath => PathHolds
  /\ at \in AfterServices => ServicesHold
  /\ at \in AfterReferences => ReferencesHold
  /\ at \in AfterCycles => ~Cyclic
  /\ at \in AfterPaired => PairedHolds
  /\ at \in AfterDiagnostics => DiagnosticsHold
  /\ at \in AfterSecurity => SecurityHolds
  /\ at \in AfterCorpus => CorpusHolds
  /\ at \in AfterTrials => TrialsHold

Sections == AfterFeatures \cup {"features"}

(* Validation as a whole: only a plan built by hand skips it.              *)
Validated ==
  /\ IsPlan(plan)
  /\ section \in Sections \cup {"rejected"}
  /\ (rejected # None) <=> (section = "rejected")
  /\ rejected = "cycle" => Cyclic
  /\ ~plan.validated => section = "accepted"
  /\ plan.validated => Promised(section)

Call == [name : Nat, left : Seq(Nat)]

(* The calls of visit are a path through the dependencies.                 *)
IsPath(calls) ==
  /\ calls \in Seq(Call)
  /\ \A i, j \in 1 .. Len(calls) : calls[i].name = calls[j].name => i = j
  /\ \A i \in 1 .. Len(calls) : Elements(calls[i].left) \subseteq Deps(calls[i].name)
  /\ \A i \in 1 .. Len(calls) - 1 : calls[i + 1].name \in Deps(calls[i].name)

(* All that was left is closed under dependencies and meets no circle.     *)
IsDone(done) ==
  /\ done \subseteq Names
  /\ \A s \in done : Deps(s) \subseteq done
  /\ \A C : Circle(C) => C \cap done = {}

(* A dependency of a service being visited is done, is visited next or is  *)
(* left to visit; the last call is about to visit those in coming.         *)
AllSeen(calls, done, coming) ==
  \A i \in 1 .. Len(calls), d \in Nat :
    d \in Deps(calls[i].name) =>
      \/ d \in done \cup Elements(calls[i].left)
      \/ i < Len(calls) /\ d = calls[i + 1].name
      \/ i = Len(calls) /\ d \in coming

Visiting(calls) == {calls[i].name : i \in 1 .. Len(calls)}

Begun(count, seen) ==
  count \in 0 .. Cardinality(Names) /\ \A k \in 1 .. count : Ascending(Names)[k] \in seen

SearchAt(count, calls, visiting, done) ==
  /\ Begun(count, done \cup visiting)
  /\ IsPath(calls) /\ IsDone(done) /\ AllSeen(calls, done, {})
  /\ visiting = Visiting(calls) /\ visiting \subseteq Names /\ visiting \cap done = {}

Searched == SearchAt(roots, stack, temporary, permanent)

Searching ==
  /\ roots \in 0 .. Cardinality(Names) /\ temporary \cup permanent \subseteq Names
  /\ section \in Sections \ AfterReferences => search = <<0, <<>>, {}, {}>>
  /\ section = "cycles" => Searched

----------------------------------------------------------------------------
(* What the sections of validate refuse. *)

LEMMA PlanTyped ==
  ASSUME IsPlan(plan)
  PROVE  /\ plan.services \in Seq(Nat \ {Subject}) /\ Len(plan.services) \in Nat
         /\ IsFiniteSet(Names) /\ Names \subseteq Nat \ {Subject} /\ Cardinality(Names) \in Nat
         /\ \A k \in 1 .. Len(plan.services) : plan.services[k] \in Names
         /\ \A s \in Names : /\ plan.dependsOn[s] \in Seq(Nat \ {Subject})
                             /\ Len(plan.dependsOn[s]) \in Nat
                             /\ Deps(s) \subseteq Nat \ {Subject} /\ IsFiniteSet(Deps(s))
                             /\ plan.fault[s] \in Faults \cup {None}
<1>1. /\ plan.services \in Seq(Nat \ {Subject})
      /\ \A s \in Names : plan.dependsOn[s] \in Seq(Nat \ {Subject}) /\ plan.fault[s] \in Faults \cup {None}
  BY DEF IsPlan, Names
<1>2. IsFiniteSet(Names) /\ Names \subseteq Nat \ {Subject}
  BY <1>1, ElementsFinite DEF Names
<1>3. \A s \in Names : Deps(s) \subseteq Nat \ {Subject} /\ IsFiniteSet(Deps(s))
  BY <1>1, ElementsFinite DEF Deps
<1>4. \A k \in 1 .. Len(plan.services) : plan.services[k] \in Names
  BY DEF Names, Elements
<1>5. Cardinality(Names) \in Nat
  BY <1>2, FS_CardinalityType
<1> QED
  BY <1>1, <1>2, <1>3, <1>4, <1>5

LEMMA HoldsKept ==
  ASSUME plan' = plan
  PROVE  /\ FeaturesHold' = FeaturesHold /\ PathHolds' = PathHolds /\ ServicesHold' = ServicesHold
         /\ ReferencesHold' = ReferencesHold /\ PairedHolds' = PairedHolds
         /\ DiagnosticsHold' = DiagnosticsHold /\ SecurityHolds' = SecurityHolds
         /\ CorpusHolds' = CorpusHolds /\ TrialsHold' = TrialsHold
         /\ Cyclic' = Cyclic /\ Unknown' = Unknown /\ Names' = Names /\ IsPlan(plan)' = IsPlan(plan)
<1>1. FeaturesHold' = FeaturesHold /\ PathHolds' = PathHolds
  BY DEF FeaturesHold, PathHolds, Path
<1>2. Names' = Names /\ IsPlan(plan)' = IsPlan(plan)
  BY DEF Names
<1>3. ServicesHold' = ServicesHold
  BY <1>2 DEF ServicesHold, Deps
<1>4. Unknown' = Unknown
  BY <1>2 DEF Unknown
<1>5. Cyclic' = Cyclic
  BY <1>2 DEF Cyclic
<1>6. ReferencesHold' = ReferencesHold
  BY <1>2, <1>4 DEF ReferencesHold, Reachable
<1>7. PairedHolds' = PairedHolds
  BY <1>2 DEF PairedHolds, Paired, Path
<1>8. DiagnosticsHold' = DiagnosticsHold
  BY <1>2 DEF DiagnosticsHold, Reachable
<1>9. SecurityHolds' = SecurityHolds
  BY <1>2 DEF SecurityHolds, Reachable, Paired
<1>10. CorpusHolds' = CorpusHolds
  BY <1>2 DEF CorpusHolds, Reachable, Paired, Path
<1>11. TrialsHold' = TrialsHold
  BY <1>2 DEF TrialsHold
<1> QED
  BY <1>1, <1>2, <1>3, <1>4, <1>5, <1>6, <1>7, <1>8, <1>9, <1>10, <1>11

LEMMA FeaturesChecked ==
  FeatureRefusal # "cycle" /\ (FeatureRefusal = None => FeaturesHold)
<1>1. FeatureRefusal # "cycle"
  BY FirstFound DEF FeatureRefusal, FeatureChecks, When, None
<1>2. /\ FeatureChecks[9] = When(Path /\ plan.diagnostics # <<>>, "diagnostic_path_incompatible")
      /\ FeatureChecks[10] = When(Path /\ plan.security # <<>>, "security_path_incompatible")
  BY DEF FeatureChecks
<1>3. ASSUME FeatureRefusal = None PROVE \A i \in 1 .. 11 : FeatureChecks[i] = None
  <2>1. Len(FeatureChecks) = 11
    BY DEF FeatureChecks
  <2> QED
    BY <1>3, <2>1, FirstNone DEF FeatureRefusal
<1>4. ASSUME FeatureRefusal = None PROVE FeaturesHold
  BY <1>2, <1>3, <1>4 DEF FeaturesHold, When, None
<1> QED
  BY <1>1, <1>4

LEMMA PathChecked ==
  ASSUME IsPlan(plan)
  PROVE  PathRefusal # "cycle" /\ (PathRefusal = None => PathHolds)
<1>1. PathRefusal # "cycle"
  <2>1. plan.pathFlaw \in PathFlaws \cup {None}
    BY DEF IsPlan
  <2> QED
    BY <2>1, FirstFound DEF PathRefusal, When, None, PathFlaws
<1>2. ASSUME PathRefusal = None PROVE PathHolds
  <2>1. When(Path /\ plan.subject = "External", "workload_path_incompatible") = None
    BY <1>2, FirstNone DEF PathRefusal
  <2>2. When(plan.subject = "Managed" /\ plan.subjectFault = "EmptyArgv", "invalid_bound") = None
    BY <1>2, FirstNone DEF PathRefusal
  <2> QED
    BY <2>1, <2>2 DEF PathHolds, When, None
<1> QED
  BY <1>1, <1>2

LEMMA ServiceChecked ==
  ASSUME IsPlan(plan), NEW k \in 1 .. Len(plan.services), NEW s, s = plan.services[k]
  PROVE  /\ ServiceRefusal(k) # "cycle"
         /\ ServiceRefusal(k) = None =>
              /\ \A j \in 1 .. k - 1 : plan.services[j] # s
              /\ s \in plan.managed /\ s \notin plan.adapters => plan.fault[s] # "EmptyArgv"
              /\ Elements(plan.sources[s]) \subseteq Deps(s)
<1>1. BindingRefusal(s) # "cycle"
  BY FirstFound DEF BindingRefusal, When, None
<1>2. ASSUME BindingRefusal(s) = None PROVE Elements(plan.sources[s]) \subseteq Deps(s)
  <2>1. CASE plan.sources[s] = <<>>
    BY <2>1 DEF Elements
  <2>2. CASE plan.sources[s] # <<>>
    <3>1. When(~(Elements(plan.sources[s]) \subseteq Elements(plan.dependsOn[s])), "missing_reference") = None
      BY <1>2, <2>2, FirstNone DEF BindingRefusal
    <3> QED
      BY <3>1 DEF When, None, Deps
  <2> QED
    BY <2>1, <2>2
<1>3. /\ Len(ServiceChecks(k)) = 11
      /\ \A i \in 1 .. 11 : ServiceChecks(k)[i] # "cycle"
  BY <1>1 DEF ServiceChecks, When, None
<1>4. ServiceRefusal(k) # "cycle"
  BY <1>3, FirstFound DEF ServiceRefusal, None
<1>5. ASSUME ServiceRefusal(k) = None PROVE \A i \in 1 .. 11 : ServiceChecks(k)[i] = None
  BY <1>3, <1>5, FirstNone DEF ServiceRefusal
<1>6. /\ ServiceChecks(k)[7] = When(\E j \in 1 .. k - 1 : plan.services[j] = s, "duplicate_identity")
      /\ ServiceChecks(k)[9] = When(s \notin plan.adapters /\ s \in plan.managed /\ plan.fault[s] = "EmptyArgv", "contradictory_configuration")
      /\ ServiceChecks(k)[10] = BindingRefusal(s)
  BY DEF ServiceChecks
<1> QED
  BY <1>2, <1>4, <1>5, <1>6 DEF When, None

(* The first refusal of a loop. *)
LEMMA LoopNone ==
  ASSUME NEW n \in Nat, NEW list, list = [k \in 1 .. n |-> list[k]], First(list) = None
  PROVE  \A k \in 1 .. n : list[k] = None
<1>1. Len(list) = n
  OBVIOUS
<1> QED
  BY <1>1, FirstNone

LEMMA LoopFound ==
  ASSUME NEW n \in Nat, NEW list, list = [k \in 1 .. n |-> list[k]], First(list) # None
  PROVE  \E k \in 1 .. n : First(list) = list[k]
<1>1. Len(list) = n
  OBVIOUS
<1> QED
  BY <1>1, FirstFound

LEMMA ServicesChecked ==
  ASSUME IsPlan(plan)
  PROVE  ServicesRefusal # "cycle" /\ (ServicesRefusal = None => ServicesHold)
<1> DEFINE list == [k \in 1 .. Len(plan.services) |-> ServiceRefusal(k)]
<1>1. Len(plan.services) \in Nat
  BY PlanTyped
<1>2. list = [k \in 1 .. Len(plan.services) |-> list[k]]
  OBVIOUS
<1>3. \A k \in 1 .. Len(plan.services) : list[k] = ServiceRefusal(k)
  OBVIOUS
<1>4. ServicesRefusal \in {"invalid_bound", First(list)} /\ (ServicesRefusal = None => First(list) = None)
  BY DEF ServicesRefusal, None
<1> HIDE DEF list
<1>5. ServicesRefusal # "cycle"
  <2>1. First(list) = "cycle" => \E k \in 1 .. Len(plan.services) : list[k] = "cycle"
    BY <1>1, <1>2, LoopFound DEF None
  <2> QED
    BY <1>3, <1>4, <2>1, ServiceChecked
<1>6. ASSUME ServicesRefusal = None PROVE ServicesHold
  <2>1. \A k \in 1 .. Len(plan.services) : ServiceRefusal(k) = None
    BY <1>1, <1>2, <1>3, <1>4, <1>6, LoopNone
  <2>2. Distinct(plan.services)
    <3>1. ASSUME NEW k \in 1 .. Len(plan.services), NEW j \in 1 .. Len(plan.services), j < k
          PROVE  plan.services[j] # plan.services[k]
      <4>1. j \in 1 .. k - 1
        BY <1>1, <3>1
      <4> QED
        BY <2>1, <4>1, ServiceChecked
    <3> QED
      BY <1>1, <3>1 DEF Distinct
  <2>3. ASSUME NEW s \in Names
        PROVE  /\ s \in plan.managed /\ s \notin plan.adapters => plan.fault[s] # "EmptyArgv"
               /\ Elements(plan.sources[s]) \subseteq Deps(s)
    <3>1. PICK k \in 1 .. Len(plan.services) : plan.services[k] = s
      BY DEF Names, Elements
    <3> QED
      BY <2>1, <3>1, ServiceChecked
  <2> QED
    BY <2>2, <2>3 DEF ServicesHold
<1> QED
  BY <1>5, <1>6

LEMMA DependencyChecked ==
  ASSUME IsPlan(plan), NEW k \in 1 .. Len(plan.services), NEW s, s = plan.services[k]
  PROVE  DependencyRefusal(k) # "cycle" /\ (DependencyRefusal(k) = None => Deps(s) \subseteq Names)
<1> DEFINE refusal(j) == First(<<When(plan.dependsOn[s][j] = s, "contradictory_configuration"),
                                 When(plan.dependsOn[s][j] \notin Names, "missing_reference")>>)
           list == [j \in 1 .. Len(plan.dependsOn[s]) |-> refusal(j)]
<1>1. Len(plan.dependsOn[s]) \in Nat
  BY PlanTyped
<1>2. DependencyRefusal(k) = First(list)
  BY DEF DependencyRefusal
<1>2a. list = [j \in 1 .. Len(plan.dependsOn[s]) |-> list[j]]
  OBVIOUS
<1>3. ASSUME NEW j \in 1 .. Len(plan.dependsOn[s])
      PROVE  list[j] # "cycle" /\ (list[j] = None => plan.dependsOn[s][j] \in Names)
  <2>1. refusal(j) # "cycle"
    BY FirstFound DEF When, None
  <2>2. ASSUME refusal(j) = None PROVE plan.dependsOn[s][j] \in Names
    <3> DEFINE pair == <<When(plan.dependsOn[s][j] = s, "contradictory_configuration"),
                         When(plan.dependsOn[s][j] \notin Names, "missing_reference")>>
    <3>1. First(pair) = None /\ Len(pair) = 2
      BY <2>2
    <3>2. pair[2] = When(plan.dependsOn[s][j] \notin Names, "missing_reference")
      OBVIOUS
    <3> HIDE DEF pair
    <3>3. \A i \in 1 .. 2 : pair[i] = None
      BY <3>1, FirstNone
    <3> QED
      BY <3>2, <3>3 DEF When, None
  <2> QED
    BY <2>1, <2>2
<1> HIDE DEF list
<1>4. DependencyRefusal(k) # "cycle"
  <2>1. First(list) = "cycle" => \E j \in 1 .. Len(plan.dependsOn[s]) : list[j] = "cycle"
    BY <1>1, <1>2a, LoopFound DEF None
  <2> QED
    BY <1>2, <1>3, <2>1
<1>5. ASSUME DependencyRefusal(k) = None PROVE Deps(s) \subseteq Names
  <2>1. \A j \in 1 .. Len(plan.dependsOn[s]) : list[j] = None
    BY <1>1, <1>2, <1>2a, <1>5, LoopNone
  <2> QED
    BY <1>3, <2>1 DEF Deps, Elements
<1> QED
  BY <1>4, <1>5

LEMMA ReferencesChecked ==
  ASSUME IsPlan(plan)
  PROVE  ReferenceRefusal # "cycle" /\ (ReferenceRefusal = None => ReferencesHold)
<1> DEFINE list == [k \in 1 .. Len(plan.services) |-> DependencyRefusal(k)]
<1>1. Len(plan.services) \in Nat
  BY PlanTyped
<1>2. list = [k \in 1 .. Len(plan.services) |-> list[k]]
  OBVIOUS
<1>3. \A k \in 1 .. Len(plan.services) : list[k] = DependencyRefusal(k)
  OBVIOUS
<1>4. /\ ReferenceRefusal \in {"missing_reference", First(list)}
      /\ ReferenceRefusal = None => First(list) = None /\ Reachable(plan.workload.target)
  BY DEF ReferenceRefusal, None
<1> HIDE DEF list
<1>5. ReferenceRefusal # "cycle"
  <2>1. First(list) = "cycle" => \E k \in 1 .. Len(plan.services) : list[k] = "cycle"
    BY <1>1, <1>2, LoopFound DEF None
  <2> QED
    BY <1>3, <1>4, <2>1, DependencyChecked
<1>6. ASSUME ReferenceRefusal = None PROVE ~Unknown
  <2>1. \A k \in 1 .. Len(plan.services) : DependencyRefusal(k) = None
    BY <1>1, <1>2, <1>3, <1>4, <1>6, LoopNone
  <2>2. ASSUME NEW s \in Names PROVE Deps(s) \subseteq Names
    <3>1. PICK k \in 1 .. Len(plan.services) : plan.services[k] = s
      BY DEF Names, Elements
    <3> QED
      BY <2>1, <3>1, DependencyChecked
  <2> QED
    BY <2>2 DEF Unknown, Deps
<1> QED
  BY <1>4, <1>5, <1>6 DEF ReferencesHold

LEMMA WorkloadChecked ==
  ASSUME IsPlan(plan)
  PROVE  WorkloadRefusal # "cycle"
<1>1. plan.workload.flaw # "cycle"
  BY DEF IsPlan, Workload, LoadFlaws, None
<1> QED
  BY <1>1, FirstFound DEF WorkloadRefusal, When, None

LEMMA PairedChecked ==
  PairedRefusal # "cycle" /\ (PairedRefusal = None => PairedHolds)
<1>1. PairedRefusal # "cycle"
  BY FirstFound DEF PairedRefusal, PairedChecks, When, None
<1>2. ASSUME PairedRefusal = None, Paired PROVE \A i \in 1 .. 10 : PairedChecks[i] = None
  <2>1. Len(PairedChecks) = 10
    BY DEF PairedChecks
  <2> QED
    BY <1>2, <2>1, FirstNone DEF PairedRefusal
<1>3. /\ PairedChecks[2] = When(Path, "paired_network_path_not_supported")
      /\ PairedChecks[4] = When(plan.measured < 2 \/ plan.measured % 2 # 0, "invalid_bound")
      /\ PairedChecks[5] = When(plan.paired.baseline \notin Names, "missing_reference")
      /\ PairedChecks[7] = When(plan.paired.candidate \notin Names, "missing_reference")
  BY DEF PairedChecks
<1>4. ASSUME PairedRefusal = None PROVE PairedHolds
  BY <1>2, <1>3, <1>4 DEF PairedHolds, When, None
<1> QED
  BY <1>1, <1>4

LEMMA RequestsTyped ==
  ASSUME IsPlan(plan)
  PROVE  /\ Len(plan.diagnostics) \in Nat /\ Len(plan.security) \in Nat /\ Len(plan.corpus) \in Nat
         /\ \A k \in 1 .. Len(plan.diagnostics) : plan.diagnostics[k] \in Request
         /\ \A k \in 1 .. Len(plan.security) : plan.security[k] \in Request
         /\ \A k \in 1 .. Len(plan.corpus) : plan.corpus[k] \in Request
         /\ \A request \in Request : request.flaw # "cycle"
<1>1. plan.diagnostics \in Seq(Request) /\ plan.security \in Seq(Request) /\ plan.corpus \in Seq(Request)
  BY DEF IsPlan
<1>2. \A request \in Request : request.flaw # "cycle"
  BY DEF Request, None
<1> QED
  BY <1>1, <1>2

(* Names that no earlier request of a list has are distinct. *)
LEMMA NoneRepeated ==
  ASSUME NEW list, Len(list) \in Nat, \A k \in 1 .. Len(list) : ~Repeated(list, k)
  PROVE  DistinctIds(list)
<1>1. ASSUME NEW j \in 1 .. Len(list), NEW k \in 1 .. Len(list), j < k
      PROVE  list[j].id # list[k].id
  <2>1. j \in 1 .. k - 1
    BY <1>1
  <2> QED
    BY <2>1 DEF Repeated
<1> QED
  BY <1>1 DEF DistinctIds

LEMMA RequestChecked ==
  ASSUME NEW list, NEW k \in 1 .. Len(list), list[k].flaw # "cycle"
  PROVE  /\ First(RequestChecks(list, k)) # "cycle"
         /\ First(RequestChecks(list, k)) = None => Reachable(list[k].target) /\ ~Repeated(list, k)
<1> DEFINE checks == RequestChecks(list, k)
<1>1. /\ checks[1] = When(Repeated(list, k), "duplicate_identity")
      /\ checks[2] = list[k].flaw
      /\ checks[3] = When(list[k].slow, "invalid_bound")
      /\ checks[4] = When(~Reachable(list[k].target), "missing_reference")
  BY DEF RequestChecks
<1>2. Len(checks) = 4
  BY DEF RequestChecks
<1> HIDE DEF checks
<1>3. First(checks) # "cycle"
  <2>1. \A i \in 1 .. 4 : checks[i] # "cycle"
    BY <1>1 DEF When, None
  <2> QED
    BY <1>2, <2>1, FirstFound DEF None
<1>4. ASSUME First(checks) = None PROVE Reachable(list[k].target) /\ ~Repeated(list, k)
  <2>1. \A i \in 1 .. 4 : checks[i] = None
    BY <1>2, <1>4, FirstNone
  <2> QED
    BY <1>1, <2>1 DEF When, None
<1> QED
  BY <1>3, <1>4 DEF checks

LEMMA CorpusChecked ==
  ASSUME IsPlan(plan), NEW k \in 1 .. Len(plan.corpus)
  PROVE  /\ CorpusRefusal(k) # "cycle"
         /\ CorpusRefusal(k) = None =>
              /\ Reachable(plan.corpus[k].target) /\ ~Repeated(plan.corpus, k)
              /\ plan.corpus[k].id \notin {plan.security[j].id : j \in 1 .. Len(plan.security)}
<1> DEFINE taken == plan.corpus[k].id \in {plan.security[j].id : j \in 1 .. Len(plan.security)}
           checks == CorpusChecks(k)
<1>1. /\ checks[1] = When(Repeated(plan.corpus, k) \/ taken, "duplicate_identity")
      /\ checks[2] = plan.corpus[k].flaw
      /\ checks[3] = When(~Reachable(plan.corpus[k].target), "missing_reference")
      /\ checks[4] = When(plan.corpus[k].slow, "invalid_bound")
  BY DEF CorpusChecks
<1>2. Len(checks) = 4 /\ CorpusRefusal(k) = First(checks)
  BY DEF CorpusChecks, CorpusRefusal
<1> HIDE DEF checks
<1>3. First(checks) # "cycle"
  <2>1. \A i \in 1 .. 4 : checks[i] # "cycle"
    BY <1>1, RequestsTyped DEF When, None
  <2> QED
    BY <1>2, <2>1, FirstFound DEF None
<1>4. ASSUME First(checks) = None
      PROVE  Reachable(plan.corpus[k].target) /\ ~Repeated(plan.corpus, k) /\ ~taken
  <2>1. \A i \in 1 .. 4 : checks[i] = None
    BY <1>2, <1>4, FirstNone
  <2> QED
    BY <1>1, <2>1 DEF When, None
<1> QED
  BY <1>2, <1>3, <1>4

LEMMA TrialsChecked ==
  TrialRefusal # "cycle" /\ (TrialRefusal = None => TrialsHold)
<1>1. TrialRefusal # "cycle"
  BY FirstFound DEF TrialRefusal, When, None
<1>2. ASSUME TrialRefusal = None PROVE TrialsHold
  <2>1. When(plan.reset.kind = "Service" /\ plan.reset.target \notin Names, "missing_reference") = None
    BY <1>2, FirstNone DEF TrialRefusal
  <2> QED
    BY <2>1 DEF TrialsHold, When, None
<1> QED
  BY <1>1, <1>2

LEMMA MetricsChecked ==
  MetricsRefusal # "cycle"
<1> DEFINE list == [k \in 1 .. Len(plan.metrics) |-> MetricRefusal(k)]
<1>1. ASSUME NEW k PROVE MetricRefusal(k) # "cycle"
  BY FirstFound DEF MetricRefusal, When, None
<1>2. First(list) # "cycle"
  <2>1. \A k \in DOMAIN list : list[k] # "cycle"
    BY <1>1
  <2> QED
    BY <2>1, FirstFound DEF None
<1> HIDE DEF list
<1> QED
  BY <1>2, FirstFound DEF MetricsRefusal, When, None, list

----------------------------------------------------------------------------
(* The steps of validate. *)

LEMMA PromisedKept ==
  ASSUME plan' = plan, NEW CONSTANT at, Promised(at) PROVE Promised(at)'
BY HoldsKept DEF Promised

(* Before the search there is nothing on the stack. *)
LEMMA SearchBegins ==
  ASSUME IsPlan(plan), search = <<0, <<>>, {}, {}>> PROVE Searched
<1>1. roots = 0 /\ stack = <<>> /\ temporary = {} /\ permanent = {}
  BY DEF search
<1>2. Cardinality(Names) \in Nat
  BY PlanTyped
<1>3. stack \in Seq(Call) /\ Len(stack) = 0
  BY <1>1
<1> QED
  BY <1>1, <1>2, <1>3 DEF Searched, SearchAt, Begun, IsPath, IsDone, AllSeen, Visiting

LEMMA SearchAtKept ==
  ASSUME plan' = plan, NEW CONSTANT count, NEW CONSTANT calls, NEW CONSTANT visiting, NEW CONSTANT done,
         SearchAt(count, calls, visiting, done)
  PROVE  SearchAt(count, calls, visiting, done)'
<1>1. Names' = Names
  BY DEF Names
<1>2. Begun(count, done \cup visiting)'
  BY <1>1 DEF SearchAt, Begun
<1>3. IsPath(calls)' /\ AllSeen(calls, done, {})'
  BY DEF SearchAt, IsPath, AllSeen, Deps
<1>4. IsDone(done)'
  BY <1>1 DEF SearchAt, IsDone, Circle, Deps
<1> QED
  BY <1>1, <1>2, <1>3, <1>4 DEF SearchAt, Visiting

LEMMA SearchedNext ==
  ASSUME plan' = plan, SearchAt(roots', stack', temporary', permanent') PROVE Searched'
<1>1. PICK count, calls, visiting, done :
        count = roots' /\ calls = stack' /\ visiting = temporary' /\ done = permanent'
  OBVIOUS
<1>2. SearchAt(count, calls, visiting, done)'
  BY <1>1, SearchAtKept
<1> QED
  BY <1>1, <1>2 DEF Searched

LEMMA SearchedKept ==
  ASSUME plan' = plan, UNCHANGED search, Searched PROVE Searched'
BY SearchedNext DEF search, Searched

(* A section that passes has made sure of what it promises. *)
LEMMA SectionKept ==
  ASSUME Validated, Searching, NEW CONSTANT here, NEW refusal, NEW CONSTANT there,
         Section(here, refusal, there),
         here \in Sections \ {"accepted"}, there \in Sections, there # "cycles" \/ here = "references",
         there \in Sections \ AfterReferences => here \in Sections \ AfterReferences,
         refusal # "cycle", refusal = None /\ Promised(here) => Promised(there)
  PROVE  Validated' /\ Searching'
<1>1. /\ section = here /\ plan' = plan /\ search' = search
      /\ \/ refusal = None /\ section' = there /\ rejected' = rejected
         \/ refusal # None /\ section' = "rejected" /\ rejected' = refusal
  BY DEF Section, Reject
<1>2. "rejected" \notin Sections
  BY DEF Sections, AfterFeatures, AfterPath, AfterServices, AfterReferences, AfterCycles, AfterPaired,
         AfterDiagnostics, AfterSecurity, AfterCorpus, AfterTrials
<1>3. rejected = None /\ plan.validated /\ Promised(here)
  BY <1>1, <1>2 DEF Validated
<1>4. IsPlan(plan) /\ IsPlan(plan)' /\ Names' = Names /\ (Cyclic' <=> Cyclic)
  BY <1>1, HoldsKept DEF Validated
<1>5. ASSUME refusal # None PROVE Validated'
  <2>1. Promised("rejected")
    BY DEF Promised, AfterFeatures, AfterPath, AfterServices, AfterReferences, AfterCycles, AfterPaired,
           AfterDiagnostics, AfterSecurity, AfterCorpus, AfterTrials
  <2>2. Promised("rejected")'
    BY <1>1, <2>1, PromisedKept
  <2>3. Promised(section)'
    BY <1>1, <1>5, <2>2
  <2> QED
    BY <1>1, <1>3, <1>4, <1>5, <2>3 DEF Validated
<1>6. ASSUME refusal = None PROVE Validated'
  <2>1. Promised(there)'
    BY <1>1, <1>3, <1>6, PromisedKept
  <2>2. Promised(section)' /\ section' # "rejected"
    BY <1>1, <1>2, <1>6, <2>1
  <2> QED
    BY <1>1, <1>3, <1>4, <1>6, <2>2 DEF Validated, None
<1>7. Searching'
  <2>1. roots' = roots /\ temporary' = temporary /\ permanent' = permanent
    BY <1>1 DEF search
  <2>2. ASSUME section' = "cycles" PROVE Searched'
    <3>1. here = "references" /\ here \in Sections \ AfterReferences
      BY <1>1, <2>2 DEF Sections, AfterFeatures, AfterPath, AfterServices, AfterReferences, AfterCycles, AfterPaired,
         AfterDiagnostics, AfterSecurity, AfterCorpus, AfterTrials
    <3>2. Searched
      BY <1>1, <1>4, <3>1, SearchBegins DEF Searching
    <3> QED
      BY <1>1, <3>2, SearchedKept
  <2>3. ASSUME section' \in Sections \ AfterReferences PROVE search' = <<0, <<>>, {}, {}>>
    BY <1>1, <1>2, <2>3 DEF Searching
  <2> QED
    BY <1>4, <2>1, <2>2, <2>3 DEF Searching
<1> QED
  BY <1>5, <1>6, <1>7

LEMMA SectionsKept ==
  ASSUME Validated, Searching,
         \/ ValidateFeatures \/ ValidatePath \/ ValidateServices \/ ValidateReferences
         \/ ValidateWorkload \/ ValidatePaired \/ ValidateDiagnostics
         \/ ValidateSecurityChecks \/ ValidateCorpusChecks \/ ValidateTrials \/ ValidateMetrics
  PROVE  Validated' /\ Searching'
<1> USE DEF Sections, AfterFeatures, AfterPath, AfterServices, AfterReferences, AfterCycles, AfterPaired,
            AfterDiagnostics, AfterSecurity, AfterCorpus, AfterTrials
<1>1. IsPlan(plan)
  BY DEF Validated
<1>2. CASE ValidateFeatures
  <2>1. FeatureRefusal = None => Promised("path")
    BY FeaturesChecked DEF Promised
  <2> QED
    BY <1>2, <2>1, FeaturesChecked, SectionKept DEF ValidateFeatures
<1>3. CASE ValidatePath
  <2>1. PathRefusal = None /\ Promised("path") => Promised("services")
    BY <1>1, PathChecked DEF Promised
  <2> QED
    BY <1>1, <1>3, <2>1, PathChecked, SectionKept DEF ValidatePath
<1>4. CASE ValidateServices
  <2>1. ServicesRefusal = None /\ Promised("services") => Promised("references")
    BY <1>1, ServicesChecked DEF Promised
  <2> QED
    BY <1>1, <1>4, <2>1, ServicesChecked, SectionKept DEF ValidateServices
<1>5. CASE ValidateReferences
  <2>1. ReferenceRefusal = None /\ Promised("references") => Promised("cycles")
    BY <1>1, ReferencesChecked DEF Promised
  <2> QED
    BY <1>1, <1>5, <2>1, ReferencesChecked, SectionKept DEF ValidateReferences
<1>6. CASE ValidateWorkload
  <2>1. WorkloadRefusal = None /\ Promised("workload") => Promised("paired")
    BY DEF Promised
  <2> QED
    BY <1>1, <1>6, <2>1, WorkloadChecked, SectionKept DEF ValidateWorkload
<1>7. CASE ValidatePaired
  <2>1. PairedRefusal = None /\ Promised("paired") => Promised("diagnostics")
    BY PairedChecked DEF Promised
  <2> QED
    BY <1>7, <2>1, PairedChecked, SectionKept DEF ValidatePaired
<1>8. CASE ValidateDiagnostics
  <2> DEFINE list == [k \in 1 .. Len(plan.diagnostics) |-> DiagnosticRefusal(k)]
             refusal == IF "diagnostics" \in plan.excess THEN "invalid_bound" ELSE First(list)
  <2>1. /\ Len(plan.diagnostics) \in Nat
        /\ \A k \in 1 .. Len(plan.diagnostics) :
             /\ DiagnosticRefusal(k) # "cycle"
             /\ DiagnosticRefusal(k) = None => Reachable(plan.diagnostics[k].target)
    BY <1>1, RequestsTyped, RequestChecked DEF DiagnosticRefusal
  <2>2. list = [k \in 1 .. Len(plan.diagnostics) |-> list[k]]
        /\ \A k \in 1 .. Len(plan.diagnostics) : list[k] = DiagnosticRefusal(k)
    OBVIOUS
  <2>3. Section("diagnostics", refusal, "security")
    BY <1>8 DEF ValidateDiagnostics
  <2> HIDE DEF list
  <2>4. First(list) # "cycle"
    <3>1. First(list) = "cycle" => \E k \in 1 .. Len(plan.diagnostics) : list[k] = "cycle"
      BY <2>1, <2>2, LoopFound DEF None
    <3> QED
      BY <2>1, <2>2, <3>1
  <2>5. First(list) = None => DiagnosticsHold
    <3>1. First(list) = None => \A k \in 1 .. Len(plan.diagnostics) : list[k] = None
      BY <2>1, <2>2, LoopNone
    <3> QED
      BY <2>1, <2>2, <3>1 DEF DiagnosticsHold, Elements
  <2>6. refusal # "cycle" /\ (refusal = None /\ Promised("diagnostics") => Promised("security"))
    BY <2>4, <2>5 DEF Promised, None
  <2> QED
    BY <2>3, <2>6, SectionKept
<1>9. CASE ValidateSecurityChecks
  <2> DEFINE list == [k \in 1 .. Len(plan.security) |-> SecurityRefusal(k)]
             refusal == IF Paired /\ plan.security # <<>> THEN "paired_security_not_supported"
                        ELSE IF "security_checks" \in plan.excess THEN "invalid_bound"
                        ELSE First(list)
  <2>1. /\ Len(plan.security) \in Nat
        /\ \A k \in 1 .. Len(plan.security) :
             /\ SecurityRefusal(k) # "cycle"
             /\ SecurityRefusal(k) = None => Reachable(plan.security[k].target) /\ ~Repeated(plan.security, k)
    BY <1>1, RequestsTyped, RequestChecked DEF SecurityRefusal
  <2>2. list = [k \in 1 .. Len(plan.security) |-> list[k]]
        /\ \A k \in 1 .. Len(plan.security) : list[k] = SecurityRefusal(k)
    OBVIOUS
  <2>3. Section("security", refusal, "corpus")
    BY <1>9 DEF ValidateSecurityChecks
  <2> HIDE DEF list
  <2>4. First(list) # "cycle"
    <3>1. First(list) = "cycle" => \E k \in 1 .. Len(plan.security) : list[k] = "cycle"
      BY <2>1, <2>2, LoopFound DEF None
    <3> QED
      BY <2>1, <2>2, <3>1
  <2>5. ASSUME refusal = None PROVE SecurityHolds
    <3>1. First(list) = None /\ (Paired => plan.security = <<>>)
      BY <2>5 DEF None
    <3>2. \A k \in 1 .. Len(plan.security) : SecurityRefusal(k) = None
      BY <2>1, <2>2, <3>1, LoopNone
    <3>3. DistinctIds(plan.security)
      BY <2>1, <3>2, NoneRepeated
    <3> QED
      BY <2>1, <3>1, <3>2, <3>3 DEF SecurityHolds, Elements
  <2>6. refusal # "cycle"
    BY <2>4
  <2>7. refusal = None /\ Promised("security") => Promised("corpus")
    BY <2>5 DEF Promised
  <2> QED
    BY <2>3, <2>6, <2>7, SectionKept
<1>10. CASE ValidateCorpusChecks
  <2> DEFINE list == [k \in 1 .. Len(plan.corpus) |-> CorpusRefusal(k)]
             refusal == IF "http_corpus_checks" \in plan.excess THEN "invalid_bound"
                        ELSE IF plan.corpus # <<>> /\ Paired THEN "paired_security_not_supported"
                        ELSE IF plan.corpus # <<>> /\ Path THEN "security_path_incompatible"
                        ELSE First(list)
  <2>1. /\ Len(plan.corpus) \in Nat
        /\ \A k \in 1 .. Len(plan.corpus) :
             /\ CorpusRefusal(k) # "cycle"
             /\ CorpusRefusal(k) = None =>
                  /\ Reachable(plan.corpus[k].target) /\ ~Repeated(plan.corpus, k)
                  /\ plan.corpus[k].id \notin {plan.security[j].id : j \in 1 .. Len(plan.security)}
    BY <1>1, RequestsTyped, CorpusChecked
  <2>2. list = [k \in 1 .. Len(plan.corpus) |-> list[k]]
        /\ \A k \in 1 .. Len(plan.corpus) : list[k] = CorpusRefusal(k)
    OBVIOUS
  <2>3. Section("corpus", refusal, "trials")
    BY <1>10 DEF ValidateCorpusChecks
  <2> HIDE DEF list
  <2>4. First(list) # "cycle"
    <3>1. First(list) = "cycle" => \E k \in 1 .. Len(plan.corpus) : list[k] = "cycle"
      BY <2>1, <2>2, LoopFound DEF None
    <3> QED
      BY <2>1, <2>2, <3>1
  <2>5. ASSUME refusal = None PROVE CorpusHolds
    <3>1. First(list) = None /\ (Paired \/ Path => plan.corpus = <<>>)
      BY <2>5 DEF None
    <3>2. \A k \in 1 .. Len(plan.corpus) : CorpusRefusal(k) = None
      BY <2>1, <2>2, <3>1, LoopNone
    <3>3. DistinctIds(plan.corpus)
      BY <2>1, <3>2, NoneRepeated
    <3>4. \A k \in 1 .. Len(plan.corpus), j \in 1 .. Len(plan.security) :
            plan.corpus[k].id # plan.security[j].id
      BY <2>1, <3>2
    <3> QED
      BY <2>1, <3>1, <3>2, <3>3, <3>4 DEF CorpusHolds, Elements
  <2>6. refusal # "cycle"
    BY <2>4
  <2>7. refusal = None /\ Promised("corpus") => Promised("trials")
    BY <2>5 DEF Promised
  <2> QED
    BY <2>3, <2>6, <2>7, SectionKept
<1>11. CASE ValidateTrials
  <2>1. TrialRefusal = None /\ Promised("trials") => Promised("metrics")
    BY TrialsChecked DEF Promised
  <2> QED
    BY <1>11, <2>1, TrialsChecked, SectionKept DEF ValidateTrials
<1>12. CASE ValidateMetrics
  <2>1. MetricsRefusal = None /\ Promised("metrics") => Promised("accepted")
    BY DEF Promised
  <2> QED
    BY <1>12, <2>1, MetricsChecked, SectionKept DEF ValidateMetrics
<1> QED
  BY <1>2, <1>3, <1>4, <1>5, <1>6, <1>7, <1>8, <1>9, <1>10, <1>11, <1>12

(* A path that comes back to itself has a circle.                          *)
LEMMA PathCloses ==
  ASSUME NEW calls, IsPath(calls), Visiting(calls) \subseteq Names, calls # <<>>,
         NEW name \in Visiting(calls), name \in Deps(calls[Len(calls)].name)
  PROVE  Cyclic
<1>1. Len(calls) \in Nat
  BY DEF IsPath
<1>2. PICK j \in 1 .. Len(calls) : calls[j].name = name
  BY DEF Visiting
<1> DEFINE C == {calls[i].name : i \in j .. Len(calls)}
<1>3. C \in SUBSET Names /\ name \in C
  BY <1>1, <1>2 DEF Visiting
<1>4. ASSUME NEW i \in j .. Len(calls) PROVE Deps(calls[i].name) \cap C # {}
  <2>1. CASE i = Len(calls)
    BY <1>3, <2>1
  <2>2. CASE i # Len(calls)
    <3>1. i \in 1 .. Len(calls) - 1 /\ i + 1 \in j .. Len(calls)
      BY <1>1, <2>2
    <3>2. calls[i + 1].name \in Deps(calls[i].name) /\ calls[i + 1].name \in C
      BY <3>1 DEF IsPath
    <3> QED
      BY <3>2
  <2> QED
    BY <2>1, <2>2
<1>5. \A s \in C : Elements(plan.dependsOn[s]) \cap C # {}
  BY <1>4 DEF Deps
<1> HIDE DEF C
<1> QED
  BY <1>3, <1>5 DEF Cyclic

(* The search goes on to a service that is not being visited.              *)
LEMMA Pushed ==
  ASSUME IsPlan(plan), NEW calls, NEW done, NEW name \in Names,
         IsPath(calls), AllSeen(calls, done, {name}), name \notin Visiting(calls),
         calls # <<>> => name \in Deps(calls[Len(calls)].name),
         NEW after, after = Append(calls, [name |-> name, left |-> plan.dependsOn[name]])
  PROVE  /\ IsPath(after) /\ AllSeen(after, done, {})
         /\ Visiting(after) = Visiting(calls) \cup {name}
<1> DEFINE call == [name |-> name, left |-> plan.dependsOn[name]]
           n == Len(calls)
<1>1. calls \in Seq(Call) /\ n \in Nat
  BY DEF IsPath
<1>2. call \in Call /\ call.name = name /\ Elements(call.left) = Deps(name)
  <2>1. name \in Nat /\ plan.dependsOn[name] \in Seq(Nat)
    BY PlanTyped
  <2> QED
    BY <2>1 DEF Call, Deps
<1>3. /\ after \in Seq(Call) /\ Len(after) = n + 1 /\ after[n + 1] = call
      /\ \A i \in 1 .. n : after[i] = calls[i]
  BY <1>1, <1>2
<1> HIDE DEF call
<1>4. Visiting(after) = Visiting(calls) \cup {name}
  BY <1>1, <1>2, <1>3 DEF Visiting
<1>5. \A i \in 1 .. n : calls[i].name # name
  BY DEF Visiting
<1>6. \A i, j \in 1 .. n + 1 : after[i].name = after[j].name => i = j
  BY <1>1, <1>2, <1>3, <1>5 DEF IsPath
<1>7. \A i \in 1 .. n + 1 : Elements(after[i].left) \subseteq Deps(after[i].name)
  <2> SUFFICES ASSUME NEW i \in 1 .. n + 1 PROVE Elements(after[i].left) \subseteq Deps(after[i].name)
    OBVIOUS
  <2>1. CASE i = n + 1
    BY <1>2, <1>3, <2>1
  <2>2. CASE i # n + 1
    <3>1. i \in 1 .. n
      BY <1>1, <2>2
    <3>2. after[i] = calls[i]
      BY <1>3, <3>1
    <3>3. Elements(calls[i].left) \subseteq Deps(calls[i].name)
      BY <3>1 DEF IsPath
    <3> QED
      BY <3>2, <3>3
  <2> QED
    BY <2>1, <2>2
<1>8. \A i \in 1 .. n : after[i + 1].name \in Deps(after[i].name)
  <2> SUFFICES ASSUME NEW i \in 1 .. n PROVE after[i + 1].name \in Deps(after[i].name)
    OBVIOUS
  <2>1. CASE i = n
    BY <1>1, <1>2, <1>3, <2>1
  <2>2. CASE i # n
    BY <1>1, <1>3, <2>2 DEF IsPath
  <2> QED
    BY <2>1, <2>2
<1>9. AllSeen(after, done, {})
  <2> SUFFICES ASSUME NEW i \in 1 .. n + 1, NEW d \in Nat, d \in Deps(after[i].name)
               PROVE  \/ d \in done \cup Elements(after[i].left)
                      \/ i < n + 1 /\ d = after[i + 1].name
    BY <1>3 DEF AllSeen
  <2>1. CASE i = n + 1
    BY <1>2, <1>3, <2>1
  <2>2. CASE i = n
    <3>1. d \in done \cup Elements(calls[n].left) \/ d = name
      BY <1>1, <1>3, <2>2 DEF AllSeen
    <3> QED
      BY <1>1, <1>2, <1>3, <2>2, <3>1
  <2>3. CASE i < n
    <3>1. d \in done \cup Elements(calls[i].left) \/ d = calls[i + 1].name
      BY <1>1, <1>3, <2>3 DEF AllSeen
    <3> QED
      BY <1>1, <1>3, <2>3, <3>1
  <2> QED
    BY <1>1, <2>1, <2>2, <2>3
<1>10. Len(after) - 1 = n
  BY <1>1, <1>3
<1>11. IsPath(after)
  BY <1>3, <1>6, <1>7, <1>8, <1>10 DEF IsPath
<1> QED
  BY <1>4, <1>9, <1>11

(* The last call takes the next dependency off its list.                   *)
LEMMA TakenNext ==
  ASSUME NEW calls, NEW done, IsPath(calls), AllSeen(calls, done, {}), calls # <<>>,
         calls[Len(calls)].left # <<>>,
         NEW after, after = [calls EXCEPT ![Len(calls)].left = Tail(@)],
         NEW name, name = Head(calls[Len(calls)].left)
  PROVE  /\ IsPath(after) /\ AllSeen(after, done, {name}) /\ Visiting(after) = Visiting(calls)
         /\ after # <<>> /\ name \in Deps(after[Len(after)].name)
         /\ name \in Deps(calls[Len(calls)].name)
<1> DEFINE n == Len(calls)
<1>1. calls \in Seq(Call) /\ n \in Nat /\ n > 0 /\ n \in 1 .. n
  BY DEF IsPath
<1>2. calls[n] \in Call /\ calls[n].left \in Seq(Nat) /\ calls[n].name \in Nat
  <2>1. calls[n] \in Call
    BY <1>1
  <2> QED
    BY <2>1 DEF Call
<1>3. /\ Tail(calls[n].left) \in Seq(Nat) /\ name \in Nat
      /\ Elements(calls[n].left) = {name} \cup Elements(Tail(calls[n].left))
  BY <1>2, Beheaded
<1>4. /\ after \in Seq(Call) /\ Len(after) = n
      /\ \A i \in 1 .. n : after[i].name = calls[i].name
      /\ \A i \in 1 .. n : i # n => after[i].left = calls[i].left
      /\ after[n].left = Tail(calls[n].left)
  <2> DEFINE call == [calls[n] EXCEPT !.left = Tail(@)]
  <2>1. call \in Call /\ call.name = calls[n].name /\ call.left = Tail(calls[n].left)
    BY <1>2, <1>3 DEF Call
  <2>2. after = [calls EXCEPT ![n] = call]
    OBVIOUS
  <2> HIDE DEF call
  <2>3. after = [i \in 1 .. n |-> IF i = n THEN call ELSE calls[i]]
    <3>1. DOMAIN calls = 1 .. n
      BY <1>1
    <3> QED
      BY <2>2, <3>1
  <2>4. after \in Seq(Call) /\ Len(after) = n /\ after[n] = call /\ \A i \in 1 .. n : i # n => after[i] = calls[i]
    <3>1. after \in [1 .. n -> Call]
      BY <1>1, <2>1, <2>3
    <3>2. after \in Seq(Call) /\ Len(after) = n
      BY <1>1, <3>1
    <3> QED
      BY <1>1, <2>3, <3>2
  <2> QED
    BY <2>1, <2>4
<1>5. name \in Deps(calls[n].name)
  BY <1>1, <1>3 DEF IsPath
<1>6. \A i \in 1 .. n : Elements(after[i].left) \subseteq Elements(calls[i].left)
  BY <1>3, <1>4
<1>7. IsPath(after)
  <2>1. \A i \in 1 .. n - 1 : i \in 1 .. n /\ i + 1 \in 1 .. n
    BY <1>1
  <2>2. \A i \in 1 .. n - 1 : after[i + 1].name \in Deps(after[i].name)
    BY <1>4, <2>1 DEF IsPath
  <2>3. \A i, j \in 1 .. n : after[i].name = after[j].name => i = j
    BY <1>4 DEF IsPath
  <2>4. \A i \in 1 .. n : Elements(after[i].left) \subseteq Deps(after[i].name)
    BY <1>4, <1>6 DEF IsPath
  <2> QED
    BY <1>4, <2>2, <2>3, <2>4 DEF IsPath
<1>8. Visiting(after) = Visiting(calls)
  BY <1>4 DEF Visiting
<1>9. AllSeen(after, done, {name})
  <2> SUFFICES ASSUME NEW i \in 1 .. n, NEW d \in Nat, d \in Deps(calls[i].name)
               PROVE  \/ d \in done \cup Elements(after[i].left)
                      \/ i < n /\ d = after[i + 1].name
                      \/ i = n /\ d = name
    BY <1>4 DEF AllSeen
  <2>1. \/ d \in done \cup Elements(calls[i].left)
        \/ i < n /\ d = calls[i + 1].name
    BY DEF AllSeen
  <2>2. CASE i = n
    <3>1. d \in done \/ d \in Elements(calls[n].left)
      BY <1>1, <2>1, <2>2
    <3>2. d \in done \/ d = name \/ d \in Elements(after[n].left)
      BY <1>3, <1>4, <3>1
    <3> QED
      BY <2>2, <3>2
  <2>3. CASE i # n
    <3>1. i + 1 \in 1 .. n
      BY <1>1, <2>3
    <3> QED
      BY <1>4, <2>1, <2>3, <3>1
  <2> QED
    BY <2>2, <2>3
<1> QED
  BY <1>1, <1>4, <1>5, <1>7, <1>8, <1>9

(* The last call has visited all its dependencies: its service is done.    *)
LEMMA Popped ==
  ASSUME IsPlan(plan), ~Unknown, NEW calls, NEW done,
         IsPath(calls), IsDone(done), AllSeen(calls, done, {}), Visiting(calls) \subseteq Names,
         calls # <<>>, calls[Len(calls)].left = <<>>,
         NEW after, after = SubSeq(calls, 1, Len(calls) - 1),
         NEW name, name = calls[Len(calls)].name
  PROVE  /\ IsPath(after) /\ IsDone(done \cup {name}) /\ AllSeen(after, done \cup {name}, {})
         /\ Visiting(after) = Visiting(calls) \ {name} /\ name \in Visiting(calls)
<1> DEFINE n == Len(calls)
           more == done \cup {name}
<1>1. calls \in Seq(Call) /\ n \in Nat /\ n > 0 /\ n \in 1 .. n
  BY DEF IsPath
<1>2. /\ after \in Seq(Call) /\ Len(after) = n - 1
      /\ \A i \in 1 .. n - 1 : i \in 1 .. n /\ after[i] = calls[i]
  <2>1. \A i \in 1 .. n - 1 : i \in 1 .. n /\ calls[i] \in Call
    BY <1>1
  <2>2. /\ after \in Seq(Call) /\ Len(after) = IF 1 <= n - 1 THEN (n - 1) - 1 + 1 ELSE 0
        /\ \A i \in 1 .. (n - 1) - 1 + 1 : after[i] = calls[1 + i - 1]
    BY <1>1, <2>1, SubSeqProperties
  <2>3. \A i \in 1 .. n - 1 : i \in 1 .. (n - 1) - 1 + 1 /\ 1 + i - 1 = i
    BY <1>1
  <2>4. Len(after) = n - 1
    <3>1. ASSUME NEW m \in Nat, m > 0 PROVE (IF 1 <= m - 1 THEN (m - 1) - 1 + 1 ELSE 0) = m - 1
      BY <3>1
    <3> HIDE DEF n
    <3> QED
      BY <1>1, <2>2, <3>1
  <2>5. \A i \in 1 .. n - 1 : after[i] = calls[i]
    BY <2>2, <2>3
  <2> QED
    BY <2>1, <2>2, <2>4, <2>5
<1>3. name \in Visiting(calls)
  BY <1>1 DEF Visiting
<1>4. Visiting(after) = Visiting(calls) \ {name}
  <2>1. \A i \in 1 .. n - 1 : calls[i].name # name
    BY <1>1 DEF IsPath
  <2>2. \A i \in 1 .. n : i # n => i \in 1 .. n - 1
    BY <1>1
  <2> QED
    BY <1>2, <2>1, <2>2 DEF Visiting
<1>5. IsPath(after)
  <2>1. \A i \in 1 .. (n - 1) - 1 : i \in 1 .. n - 1 /\ i + 1 \in 1 .. n - 1
    BY <1>1
  <2>2. \A i, j \in 1 .. n - 1 : after[i].name = after[j].name => i = j
    BY <1>2 DEF IsPath
  <2>3. \A i \in 1 .. n - 1 : Elements(after[i].left) \subseteq Deps(after[i].name)
    BY <1>2 DEF IsPath
  <2>4. \A i \in 1 .. (n - 1) - 1 : after[i + 1].name \in Deps(after[i].name)
    BY <1>2, <2>1 DEF IsPath
  <2> QED
    BY <1>2, <2>2, <2>3, <2>4 DEF IsPath
<1>6. Deps(name) \subseteq done
  <2> SUFFICES ASSUME NEW d, d \in Deps(name) PROVE d \in done
    OBVIOUS
  <2>1. d \in Nat /\ Elements(calls[n].left) = {}
    BY <1>3, PlanTyped DEF Elements
  <2> QED
    BY <1>1, <2>1 DEF AllSeen
<1>7. IsDone(more)
  <2>1. ASSUME NEW C, Circle(C) PROVE name \notin C
    BY <1>6, <2>1 DEF Circle, IsDone
  <2> QED
    BY <1>3, <1>6, <2>1 DEF IsDone
<1>8. AllSeen(after, more, {})
  <2> SUFFICES ASSUME NEW i \in 1 .. n - 1, NEW d \in Nat, d \in Deps(calls[i].name)
               PROVE  \/ d \in more \cup Elements(calls[i].left)
                      \/ i < n - 1 /\ d = calls[i + 1].name
    <3>1. ASSUME NEW i \in 1 .. n - 1, i < n - 1 PROVE i + 1 \in 1 .. n - 1
      BY <1>1, <3>1
    <3> QED
      BY <1>2, <3>1 DEF AllSeen
  <2>1. \/ d \in done \cup Elements(calls[i].left)
        \/ i < n /\ d = calls[i + 1].name
    BY <1>1 DEF AllSeen
  <2>2. CASE i = n - 1
    BY <1>1, <2>1, <2>2
  <2>3. CASE i # n - 1
    BY <1>1, <2>1, <2>3
  <2> QED
    BY <2>2, <2>3
<1> QED
  BY <1>3, <1>4, <1>5, <1>7, <1>8

LEMMA SeenMore ==
  ASSUME NEW calls, NEW done, NEW name, AllSeen(calls, done, {name}), name \in done
  PROVE  AllSeen(calls, done, {})
BY DEF AllSeen

(* What the search relies on while it runs. *)
LEMMA Searchable ==
  ASSUME Validated, Searching, section = "cycles"
  PROVE  /\ IsPlan(plan) /\ plan.validated /\ ~Unknown /\ Searched /\ Promised("cycles") /\ rejected = None
         /\ \A s \in Names : Deps(s) \subseteq Names
<1>1. IsPlan(plan) /\ plan.validated /\ Promised("cycles") /\ Searched /\ rejected = None
  BY DEF Validated, Searching
<1>2. ~Unknown
  BY <1>1 DEF Promised, AfterReferences, ReferencesHold
<1> QED
  BY <1>1, <1>2 DEF Unknown, Deps

LEMMA StillSearching ==
  ASSUME Validated, Searching, section = "cycles", plan' = plan, UNCHANGED <<section, rejected>>,
         SearchAt(roots', stack', temporary', permanent')
  PROVE  Validated' /\ Searching'
<1>1. IsPlan(plan)' /\ Names' = Names /\ (Cyclic' <=> Cyclic)
  BY HoldsKept DEF Validated
<1>2. Promised("cycles")'
  BY Searchable, PromisedKept
<1>3. Validated'
  BY <1>1, <1>2, Searchable DEF Validated
<1>4. Searched'
  BY SearchedNext
<1>5. "cycles" \notin Sections \ AfterReferences
  BY DEF AfterReferences
<1>6. roots' \in 0 .. Cardinality(Names) /\ temporary' \subseteq Names /\ permanent' \subseteq Names
  BY DEF SearchAt, Begun, IsDone
<1> QED
  BY <1>1, <1>3, <1>4, <1>5, <1>6 DEF Searching

LEMMA CircleFound ==
  ASSUME Validated, Searching, section = "cycles", plan' = plan, Reject("cycle"), Cyclic,
         roots' \in 0 .. Cardinality(Names), temporary' \cup permanent' \subseteq Names
  PROVE  Validated' /\ Searching'
<1>1. IsPlan(plan)' /\ Names' = Names /\ Cyclic'
  BY HoldsKept DEF Validated
<1>2. "rejected" \notin Sections
  BY DEF Sections, AfterFeatures, AfterPath, AfterServices, AfterReferences, AfterCycles, AfterPaired,
         AfterDiagnostics, AfterSecurity, AfterCorpus, AfterTrials
<1>3. Promised("rejected")
  BY DEF Promised, AfterFeatures, AfterPath, AfterServices, AfterReferences, AfterCycles, AfterPaired,
         AfterDiagnostics, AfterSecurity, AfterCorpus, AfterTrials
<1>4. section' = "rejected" /\ rejected' = "cycle" /\ plan.validated
  BY Searchable DEF Reject
<1>5. Promised(section)'
  BY <1>3, <1>4, PromisedKept
<1>6. Validated'
  BY <1>1, <1>4, <1>5 DEF Validated, None
<1> QED
  BY <1>1, <1>2, <1>4, <1>6 DEF Searching

LEMMA VisitKept ==
  ASSUME Validated, Searching, section = "cycles", plan' = plan, permanent' = permanent,
         NEW name \in Names, NEW calls, Visit(name, calls),
         IsPath(calls), AllSeen(calls, permanent, {name}), Visiting(calls) = temporary,
         calls # <<>> => name \in Deps(calls[Len(calls)].name),
         Begun(roots', (permanent \cup temporary) \cup {name})
  PROVE  Validated' /\ Searching'
<1>1. IsPlan(plan) /\ Searched /\ rejected = None
  BY Searchable
<1>2. /\ IsDone(permanent) /\ temporary \subseteq Names /\ temporary \cap permanent = {} /\ permanent \subseteq Names
      /\ roots' \in 0 .. Cardinality(Names)
  BY <1>1 DEF Searched, SearchAt, Begun, IsDone
<1>3. CASE name \in permanent /\ stack' = calls /\ UNCHANGED <<section, rejected, temporary>>
  <2>1. AllSeen(calls, permanent, {})
    BY <1>3, SeenMore
  <2>2. (permanent \cup temporary) \cup {name} = permanent \cup temporary
    BY <1>3
  <2>3. SearchAt(roots', stack', temporary', permanent')
    BY <1>2, <1>3, <2>1, <2>2 DEF SearchAt
  <2> QED
    BY <1>3, <2>3, StillSearching
<1>4. CASE name \in temporary \ permanent /\ Reject("cycle") /\ UNCHANGED temporary
  <2>1. calls # <<>>
    BY <1>4 DEF Visiting
  <2>2. Cyclic
    BY <1>2, <1>4, <2>1, PathCloses
  <2> QED
    BY <1>2, <1>4, <2>2, CircleFound
<1>5. CASE /\ name \notin temporary \cup permanent
           /\ temporary' = temporary \cup {name}
           /\ stack' = Append(calls, [name |-> name, left |-> plan.dependsOn[name]])
           /\ UNCHANGED <<section, rejected>>
  <2>1. /\ IsPath(stack') /\ AllSeen(stack', permanent, {})
        /\ Visiting(stack') = temporary'
    BY <1>1, <1>5, Pushed
  <2>2. (permanent \cup temporary) \cup {name} = permanent \cup temporary'
    BY <1>5
  <2>3. SearchAt(roots', stack', temporary', permanent')
    BY <1>2, <1>5, <2>1, <2>2 DEF SearchAt
  <2> QED
    BY <1>5, <2>3, StillSearching
<1> QED
  BY <1>3, <1>4, <1>5 DEF Visit

LEMMA SearchKept ==
  ASSUME Validated, Searching, VisitRoot \/ VisitDependency \/ LeaveService \/ Acyclic
  PROVE  Validated' /\ Searching'
<1>1. section = "cycles" /\ plan' = plan
  BY DEF VisitRoot, VisitDependency, LeaveService, Acyclic
<1>2. IsPlan(plan) /\ ~Unknown /\ Searched /\ \A s \in Names : Deps(s) \subseteq Names
  BY <1>1, Searchable
<1>3. /\ Begun(roots, permanent \cup temporary) /\ roots \in Nat /\ Cardinality(Names) \in Nat
      /\ IsPath(stack) /\ IsDone(permanent) /\ AllSeen(stack, permanent, {})
      /\ temporary = Visiting(stack) /\ temporary \subseteq Names /\ temporary \cap permanent = {}
  BY <1>2, PlanTyped DEF Searched, SearchAt, Begun
<1>4. /\ Ascending(Names) \in Seq(Names) /\ Len(Ascending(Names)) = Cardinality(Names)
      /\ Elements(Ascending(Names)) = Names
  <2>1. Names \in SUBSET Nat /\ IsFiniteSet(Names)
    BY <1>2, PlanTyped
  <2> QED
    BY <2>1, AscendingLists
<1>5. CASE VisitRoot
  <2>1. PICK name, calls : name = Ascending(Names)[roots + 1] /\ calls = <<>>
    OBVIOUS
  <2>2. /\ stack = <<>> /\ roots < Cardinality(Names) /\ roots' = roots + 1 /\ permanent' = permanent
        /\ Visit(name, calls)
    BY <1>5, <2>1 DEF VisitRoot
  <2>3. name \in Names
    BY <1>3, <1>4, <2>1, <2>2
  <2>4. Begun(roots', (permanent \cup temporary) \cup {name})
    BY <1>3, <2>1, <2>2 DEF Begun
  <2>5. IsPath(calls) /\ AllSeen(calls, permanent, {name}) /\ Visiting(calls) = temporary
    BY <1>3, <2>1, <2>2 DEF IsPath, AllSeen, Visiting
  <2> QED
    BY <1>1, <2>1, <2>2, <2>3, <2>4, <2>5, VisitKept
<1>6. CASE VisitDependency
  <2>1. PICK name, calls : /\ name = Head(stack[Len(stack)].left)
                           /\ calls = [stack EXCEPT ![Len(stack)].left = Tail(@)]
    OBVIOUS
  <2>2. /\ stack # <<>> /\ stack[Len(stack)].left # <<>> /\ roots' = roots /\ permanent' = permanent
        /\ Visit(name, calls)
    BY <1>6, <2>1 DEF VisitDependency, Top
  <2>3. /\ IsPath(calls) /\ AllSeen(calls, permanent, {name}) /\ Visiting(calls) = temporary
        /\ name \in Deps(calls[Len(calls)].name) /\ name \in Deps(stack[Len(stack)].name)
    BY <1>3, <2>1, <2>2, TakenNext
  <2>4. name \in Names
    <3>1. Len(stack) \in 1 .. Len(stack)
      BY <1>3, <2>2 DEF IsPath
    <3>2. stack[Len(stack)].name \in Names
      BY <1>3, <3>1 DEF Visiting
    <3> QED
      BY <1>2, <2>3, <3>2
  <2>5. Begun(roots', (permanent \cup temporary) \cup {name})
    BY <1>3, <2>2 DEF Begun
  <2> QED
    BY <1>1, <2>2, <2>3, <2>4, <2>5, VisitKept
<1>7. CASE LeaveService
  <2>1. PICK name : name = stack[Len(stack)].name
    OBVIOUS
  <2>2. /\ stack # <<>> /\ stack[Len(stack)].left = <<>>
        /\ temporary' = temporary \ {name} /\ permanent' = permanent \cup {name}
        /\ stack' = SubSeq(stack, 1, Len(stack) - 1) /\ roots' = roots /\ UNCHANGED <<section, rejected>>
    BY <1>7, <2>1 DEF LeaveService, Top
  <2>3. /\ IsPath(stack') /\ IsDone(permanent \cup {name}) /\ AllSeen(stack', permanent \cup {name}, {})
        /\ Visiting(stack') = temporary \ {name} /\ name \in temporary
    BY <1>2, <1>3, <2>1, <2>2, Popped
  <2>4. permanent' \cup temporary' = permanent \cup temporary /\ temporary' \cap permanent' = {} /\ temporary' \subseteq Names
    BY <1>3, <2>2, <2>3
  <2>5. SearchAt(roots', stack', temporary', permanent')
    BY <1>3, <2>2, <2>3, <2>4 DEF SearchAt
  <2> QED
    BY <1>1, <2>2, <2>5, StillSearching
<1>8. CASE Acyclic
  <2>1. stack = <<>> /\ roots = Cardinality(Names) /\ section' = "workload" /\ UNCHANGED <<rejected, search>>
    BY <1>8 DEF Acyclic
  <2>2. temporary = {}
    BY <1>3, <2>1 DEF Visiting
  <2>3. Names \subseteq permanent
    <3>1. \A k \in 1 .. Cardinality(Names) : Ascending(Names)[k] \in permanent
      BY <1>3, <2>1, <2>2 DEF Begun
    <3> QED
      BY <1>4, <3>1 DEF Elements
  <2>4. ~Cyclic
    <3> SUFFICES ASSUME NEW circle \in SUBSET Names, circle # {},
                        \A s \in circle : Elements(plan.dependsOn[s]) \cap circle # {}
                 PROVE  FALSE
      BY DEF Cyclic
    <3>1. Circle(circle)
      BY DEF Circle, Deps
    <3> QED
      BY <1>3, <2>3, <3>1 DEF IsDone
  <2>5. Promised("workload")
    BY <1>1, <2>4, Searchable DEF Promised, AfterFeatures, AfterPath, AfterServices, AfterReferences,
       AfterCycles, AfterPaired, AfterDiagnostics, AfterSecurity, AfterCorpus, AfterTrials
  <2>6. Promised(section)'
    BY <1>1, <2>1, <2>5, PromisedKept
  <2>7. "workload" \in Sections /\ "workload" \notin Sections \ AfterReferences
    BY DEF Sections, AfterFeatures, AfterPath, AfterServices, AfterReferences, AfterCycles, AfterPaired
  <2>8. IsPlan(plan)' /\ Names' = Names /\ (Cyclic' <=> Cyclic)
    BY <1>1, <1>2, HoldsKept
  <2>9. Validated'
    BY <1>1, <2>1, <2>6, <2>7, <2>8, Searchable DEF Validated, None
  <2>10. Searching'
    BY <2>1, <2>7, <2>8 DEF Searching, search
  <2> QED
    BY <2>9, <2>10
<1> QED
  BY <1>5, <1>6, <1>7, <1>8

----------------------------------------------------------------------------
(* The launch order: what topological_order knows while it counts, while   *)
(* its queue drains, and at the end.                                       *)

Counted(n) == {plan.services[k] : k \in 1 .. n}

Typed(in, after) == in \in [Names -> Nat] /\ after \in [Names -> Seq(Names)]

(* The first n services are counted: how many they wait for, and who waits *)
(* for each.                                                               *)
Counting(n, in, after) ==
  /\ Typed(in, after)
  /\ \A s \in Counted(n) : Deps(s) \subseteq Names
  /\ \A s \in Names : in[s] = IF s \in Counted(n) THEN Cardinality(Deps(s)) ELSE 0
  /\ \A d \in Names : /\ Distinct(after[d])
                      /\ Elements(after[d]) = {s \in Counted(n) : d \in Deps(s)}

(* Each element of a list comes after all it depends on.                   *)
Sorted(list) ==
  \A k \in 1 .. Len(list), d \in Nat : d \in Deps(list[k]) => \E j \in 1 .. k - 1 : list[j] = d

(* The services on the list are settled; those in the queue are all others *)
(* that wait for none but these.                                           *)
Queueing(in, after, queue, list) ==
  /\ ~Unknown /\ Typed(in, after)
  /\ queue \in Seq(Names) /\ Distinct(queue)
  /\ list \in Seq(Names) /\ Distinct(list) /\ Sorted(list)
  /\ Elements(queue) \cap Elements(list) = {}
  /\ \A s \in Names : in[s] = Cardinality(Deps(s) \ Elements(list))
  /\ \A d \in Names \ Elements(list) :
       Distinct(after[d]) /\ Elements(after[d]) = {s \in Names : d \in Deps(s)}
  /\ \A s \in Names : s \in Elements(queue) \cup Elements(list) <=> Deps(s) \subseteq Elements(list)

(* All services, each once and after what it depends on.                   *)
InOrder(list) ==
  /\ ~Unknown
  /\ list \in Seq(Names) /\ Distinct(list) /\ Sorted(list)
  /\ Elements(list) = Names /\ Len(list) = Len(plan.services)

LEMMA CountedServices ==
  ASSUME IsPlan(plan)
  PROVE  /\ Counted(0) = {} /\ Counted(Len(plan.services)) = Names
         /\ \A n \in 0 .. Len(plan.services) : Counted(n) \subseteq Names
         /\ \A n \in 0 .. Len(plan.services) - 1 :
              /\ Counted(n + 1) = Counted(n) \cup {plan.services[n + 1]}
              /\ plan.services[n + 1] \in Names
              /\ Distinct(plan.services) => plan.services[n + 1] \notin Counted(n)
<1>1. Len(plan.services) \in Nat /\ \A k \in 1 .. Len(plan.services) : plan.services[k] \in Names
  BY PlanTyped
<1>2. Counted(0) = {} /\ Counted(Len(plan.services)) = Names
  BY DEF Counted, Names, Elements
<1>3. \A n \in 0 .. Len(plan.services) : Counted(n) \subseteq Names
  BY <1>1 DEF Counted
<1>4. ASSUME NEW n \in 0 .. Len(plan.services) - 1
      PROVE  /\ Counted(n + 1) = Counted(n) \cup {plan.services[n + 1]}
             /\ plan.services[n + 1] \in Names
             /\ Distinct(plan.services) => plan.services[n + 1] \notin Counted(n)
  <2>1. n \in Nat /\ n + 1 \in 1 .. Len(plan.services) /\ 1 .. n \subseteq 1 .. Len(plan.services)
    BY <1>1
  <2>2. 1 .. (n + 1) = (1 .. n) \cup {n + 1} /\ n + 1 \notin 1 .. n
    BY <2>1
  <2>3. Counted(n + 1) = Counted(n) \cup {plan.services[n + 1]}
    BY <2>2 DEF Counted
  <2>4. plan.services[n + 1] \in Names
    BY <1>1, <2>1
  <2>5. ASSUME Distinct(plan.services) PROVE plan.services[n + 1] \notin Counted(n)
    BY <2>1, <2>2, <2>5 DEF Counted, Distinct
  <2> QED
    BY <2>3, <2>4, <2>5
<1> QED
  BY <1>2, <1>3, <1>4

(* Counting one more service. *)
LEMMA CountingNext ==
  ASSUME IsPlan(plan), Distinct(plan.services), NEW n \in 0 .. Len(plan.services) - 1,
         NEW in, NEW after, Counting(n, in, after),
         NEW s, s = plan.services[n + 1], Deps(s) \subseteq Names,
         NEW in2, in2 = [in EXCEPT ![s] = @ + Cardinality(Deps(s))],
         NEW after2, after2 = [d \in Names |-> IF d \in Deps(s) THEN Append(after[d], s) ELSE after[d]]
  PROVE  Counting(n + 1, in2, after2)
<1>1. /\ Counted(n + 1) = Counted(n) \cup {s} /\ s \in Names /\ s \notin Counted(n)
      /\ Counted(n) \subseteq Names /\ Cardinality(Deps(s)) \in Nat
  <2>1. n \in 0 .. Len(plan.services)
    BY PlanTyped
  <2>2. Counted(n + 1) = Counted(n) \cup {s} /\ s \in Names /\ s \notin Counted(n) /\ Counted(n) \subseteq Names
    BY <2>1, CountedServices
  <2>3. Cardinality(Deps(s)) \in Nat
    BY <2>2, PlanTyped, FS_CardinalityType
  <2> QED
    BY <2>2, <2>3
<1>2. in \in [Names -> Nat] /\ after \in [Names -> Seq(Names)]
  BY DEF Counting, Typed
<1>3. in2 \in [Names -> Nat] /\ in2[s] = Cardinality(Deps(s)) /\ \A t \in Names : t # s => in2[t] = in[t]
  <2>1. in[s] = 0
    BY <1>1 DEF Counting
  <2> QED
    BY <1>1, <1>2, <2>1
<1>4. \A t \in Names : in2[t] = IF t \in Counted(n + 1) THEN Cardinality(Deps(t)) ELSE 0
  BY <1>1, <1>3 DEF Counting
<1>5. ASSUME NEW d \in Names
      PROVE  /\ after2[d] \in Seq(Names) /\ Distinct(after2[d])
             /\ Elements(after2[d]) = {t \in Counted(n + 1) : d \in Deps(t)}
  <2>1. after[d] \in Seq(Names) /\ Distinct(after[d]) /\ Elements(after[d]) = {t \in Counted(n) : d \in Deps(t)}
    BY <1>2 DEF Counting
  <2>2. CASE d \in Deps(s)
    <3>1. after2[d] = Append(after[d], s)
      BY <2>2
    <3>2. s \notin Elements(after[d])
      BY <1>1, <2>1
    <3>3. /\ after2[d] \in Seq(Names) /\ Distinct(after2[d]) /\ Elements(after2[d]) = Elements(after[d]) \cup {s}
      BY <1>1, <2>1, <3>1, <3>2, Appended
    <3>4. {t \in Counted(n + 1) : d \in Deps(t)} = {t \in Counted(n) : d \in Deps(t)} \cup {s}
      BY <1>1, <2>2
    <3> QED
      BY <2>1, <3>3, <3>4
  <2>3. CASE d \notin Deps(s)
    <3>1. after2[d] = after[d]
      BY <2>3
    <3>2. {t \in Counted(n + 1) : d \in Deps(t)} = {t \in Counted(n) : d \in Deps(t)}
      BY <1>1, <2>3
    <3> QED
      BY <2>1, <3>1, <3>2
  <2> QED
    BY <2>2, <2>3
<1>6. after2 \in [Names -> Seq(Names)]
  BY <1>5
<1>7. \A t \in Counted(n + 1) : Deps(t) \subseteq Names
  BY <1>1 DEF Counting
<1> QED
  BY <1>3, <1>4, <1>5, <1>6, <1>7 DEF Counting, Typed

(* All services are counted: those that wait for none are first.           *)
LEMMA QueueFilled ==
  ASSUME IsPlan(plan), NEW in, NEW after, Counting(Len(plan.services), in, after),
         NEW queue, queue = Ascending({s \in Names : in[s] = 0})
  PROVE  Queueing(in, after, queue, <<>>)
<1> DEFINE free == {s \in Names : in[s] = 0}
           list == <<>>
<1>1. Counted(Len(plan.services)) = Names
  BY CountedServices
<1>2. list \in Seq(Names) /\ Len(list) = 0 /\ Elements(list) = {}
  BY DEF Elements
<1>3. Distinct(list) /\ Sorted(list)
  BY <1>2 DEF Distinct, Sorted
<1>4. free \in SUBSET Nat /\ IsFiniteSet(free) /\ free \subseteq Names
  <2>1. IsFiniteSet(Names) /\ Names \subseteq Nat /\ free \subseteq Names
    BY PlanTyped
  <2> QED
    BY <2>1, FS_Subset
<1>5. queue \in Seq(Names) /\ Elements(queue) = free /\ Distinct(queue)
  <2>1. queue \in Seq(free) /\ Elements(queue) = free /\ Distinct(queue)
    BY <1>4, AscendingLists
  <2> QED
    BY <1>4, <2>1
<1>6. \A s \in Names : in[s] = Cardinality(Deps(s)) /\ Deps(s) \subseteq Names /\ IsFiniteSet(Deps(s))
  BY <1>1, PlanTyped DEF Counting
<1>7. ~Unknown
  BY <1>6 DEF Unknown, Deps
<1>8. \A s \in Names : in[s] = 0 <=> Deps(s) = {}
  BY <1>6, FS_EmptySet
<1>9. \A s \in Names : in[s] = Cardinality(Deps(s) \ Elements(list))
  <2>1. \A s \in Names : Deps(s) \ Elements(list) = Deps(s)
    BY <1>2
  <2> QED
    BY <1>6, <2>1
<1>10. \A d \in Names : Distinct(after[d]) /\ Elements(after[d]) = {s \in Names : d \in Deps(s)}
  BY <1>1 DEF Counting
<1>11. \A s \in Names : s \in Elements(queue) \cup Elements(list) <=> Deps(s) \subseteq Elements(list)
  BY <1>2, <1>5, <1>8
<1>12. Typed(in, after)
  BY DEF Counting
<1> HIDE DEF list
<1>13. Queueing(in, after, queue, list)
  BY <1>2, <1>3, <1>5, <1>7, <1>9, <1>10, <1>11, <1>12 DEF Queueing
<1> QED
  BY <1>13 DEF list

(* A list goes on with an element whose dependencies it has.               *)
LEMMA SortedOn ==
  ASSUME NEW list \in Seq(Names), Sorted(list), NEW name \in Names, Deps(name) \subseteq Elements(list)
  PROVE  Sorted(Append(list, name))
<1> DEFINE more == Append(list, name)
           n == Len(list)
<1>1. n \in Nat /\ Len(more) = n + 1 /\ more[n + 1] = name /\ \A k \in 1 .. n : more[k] = list[k]
  OBVIOUS
<1> HIDE DEF more, n
<1>2. ASSUME NEW k \in 1 .. n + 1, NEW d \in Nat, d \in Deps(more[k])
      PROVE  \E j \in 1 .. k - 1 : more[j] = d
  <2>1. CASE k = n + 1
    <3>1. d \in Elements(list)
      BY <1>1, <1>2, <2>1
    <3>2. PICK j \in 1 .. n : list[j] = d
      BY <3>1 DEF Elements, n
    <3> QED
      BY <1>1, <2>1, <3>2
  <2>2. CASE k # n + 1
    <3>1. k \in 1 .. n
      BY <1>1, <2>2
    <3>2. PICK j \in 1 .. k - 1 : list[j] = d
      BY <1>1, <1>2, <3>1 DEF Sorted, n
    <3>3. j \in 1 .. n
      BY <1>1, <3>1
    <3> QED
      BY <1>1, <3>2, <3>3
  <2> QED
    BY <2>1, <2>2
<1> QED
  BY <1>1, <1>2 DEF Sorted, more

(* What those that waited for a service wait for without it, and which of  *)
(* them are free.                                                          *)
Lowered(in, waiting) ==
  [s \in Names |-> IF s \in Elements(waiting) /\ in[s] > 0 THEN in[s] - 1 ELSE in[s]]
Released(in, waiting) == {k \in 1 .. Len(waiting) : in[waiting[k]] <= 1}

(* The head of the queue is settled and releases those that waited for it  *)
(* alone.                                                                  *)
LEMMA QueueNext ==
  ASSUME IsPlan(plan), NEW in, NEW after, NEW queue, NEW list, Queueing(in, after, queue, list),
         queue # <<>>, NEW name, name = Head(queue),
         NEW in2, in2 = Lowered(in, after[name]),
         NEW after2, after2 = [after EXCEPT ![name] = <<>>],
         NEW queue2, queue2 = Tail(queue) \o Chosen(after[name], Released(in, after[name])),
         NEW list2, list2 = Append(list, name)
  PROVE  Queueing(in2, after2, queue2, list2)
<1> DEFINE O == Elements(list)
           R == Elements(queue)
           waiting == after[name]
           released == Released(in, waiting)
           new == Chosen(waiting, released)
<1>1. /\ ~Unknown /\ in \in [Names -> Nat] /\ after \in [Names -> Seq(Names)]
      /\ queue \in Seq(Names) /\ Distinct(queue)
      /\ list \in Seq(Names) /\ Distinct(list) /\ Sorted(list)
      /\ R \cap O = {}
      /\ \A s \in Names : in[s] = Cardinality(Deps(s) \ O)
      /\ \A d \in Names \ O : Distinct(after[d]) /\ Elements(after[d]) = {s \in Names : d \in Deps(s)}
      /\ \A s \in Names : s \in R \cup O <=> Deps(s) \subseteq O
  BY DEF Queueing, Typed
<1>2. /\ name \in Names /\ Tail(queue) \in Seq(Names) /\ R = {name} \cup Elements(Tail(queue))
      /\ Distinct(Tail(queue)) /\ name \notin Elements(Tail(queue))
  BY <1>1, Beheaded
<1>3. name \notin O /\ Deps(name) \subseteq O /\ name \notin Deps(name)
  BY <1>1, <1>2
<1>4. waiting \in Seq(Names) /\ Distinct(waiting) /\ Elements(waiting) = {s \in Names : name \in Deps(s)}
  BY <1>1, <1>2, <1>3
<1>5. /\ new \in Seq(Names) /\ Distinct(new)
      /\ Elements(new) = {s \in Names : name \in Deps(s) /\ in[s] <= 1}
  <2>1. released \in SUBSET (1 .. Len(waiting))
    BY DEF Released
  <2>2. new \in Seq(Names) /\ Distinct(new) /\ Elements(new) = {waiting[k] : k \in released}
    BY <1>4, <2>1, ChosenLists
  <2>3. {waiting[k] : k \in released} = {s \in Elements(waiting) : in[s] <= 1}
    BY DEF Elements, Released
  <2> QED
    BY <1>4, <2>2, <2>3
<1>6. /\ list2 \in Seq(Names) /\ Elements(list2) = O \cup {name} /\ Distinct(list2) /\ Sorted(list2)
  BY <1>1, <1>2, <1>3, Appended, SortedOn
<1>6a. queue2 = Tail(queue) \o new
  OBVIOUS
<1> DEFINE O2 == O \cup {name}
<1> HIDE DEF O, R, waiting, new, O2
<1>7. Elements(new) \cap (R \cup O) = {}
  BY <1>1, <1>2, <1>3, <1>5
<1>8. /\ queue2 \in Seq(Names) /\ Elements(queue2) = Elements(Tail(queue)) \cup Elements(new) /\ Distinct(queue2)
  <2>1. Elements(Tail(queue)) \cap Elements(new) = {}
    BY <1>2, <1>7
  <2>2. PICK rest : rest = Tail(queue)
    OBVIOUS
  <2>3. PICK more : more = new
    OBVIOUS
  <2>4. rest \in Seq(Names) /\ more \in Seq(Names) /\ Distinct(rest) /\ Distinct(more)
    BY <1>2, <1>5, <2>2, <2>3
  <2>5. /\ rest \o more \in Seq(Names) /\ Elements(rest \o more) = Elements(rest) \cup Elements(more)
        /\ Elements(rest) \cap Elements(more) = {} => Distinct(rest \o more)
    BY <2>4, Joined
  <2> QED
    BY <1>6a, <2>1, <2>2, <2>3, <2>5
<1>9. Elements(queue2) \cap O2 = {}
  <2>1. Elements(Tail(queue)) \cap O = {} /\ name \notin Elements(new)
    BY <1>1, <1>2, <1>7
  <2> QED
    BY <1>2, <1>7, <1>8, <2>1 DEF O2
<1>10. ASSUME NEW s \in Names
       PROVE  /\ IsFiniteSet(Deps(s) \ O) /\ Cardinality(Deps(s) \ O) \in Nat /\ in[s] = Cardinality(Deps(s) \ O)
              /\ name \notin Deps(s) => Deps(s) \ O2 = Deps(s) \ O
              /\ name \in Deps(s) => in[s] > 0 /\ Cardinality(Deps(s) \ O2) = in[s] - 1
  <2>1. IsFiniteSet(Deps(s) \ O) /\ Cardinality(Deps(s) \ O) \in Nat
    <3>1. IsFiniteSet(Deps(s)) /\ Deps(s) \ O \subseteq Deps(s)
      BY PlanTyped
    <3> QED
      BY <3>1, FS_Subset, FS_CardinalityType
  <2>2. name \notin Deps(s) => Deps(s) \ O2 = Deps(s) \ O
    BY DEF O2
  <2>3. ASSUME name \in Deps(s) PROVE in[s] > 0 /\ Cardinality(Deps(s) \ O2) = in[s] - 1
    <3>1. Deps(s) \ O2 = (Deps(s) \ O) \ {name} /\ name \in Deps(s) \ O
      BY <1>3, <2>3 DEF O2
    <3>2. Cardinality((Deps(s) \ O) \ {name}) = Cardinality(Deps(s) \ O) - 1
      BY <2>1, <3>1, FS_RemoveElement
    <3>3. Cardinality(Deps(s) \ O) # 0
      BY <2>1, <3>1, FS_EmptySet
    <3>4. in[s] = Cardinality(Deps(s) \ O)
      BY <1>1
    <3>5. in[s] > 0
      BY <2>1, <3>3, <3>4
    <3> QED
      BY <3>1, <3>2, <3>4, <3>5
  <2>4. in[s] = Cardinality(Deps(s) \ O)
    BY <1>1
  <2> QED
    BY <2>1, <2>2, <2>3, <2>4
<1>11. ASSUME NEW s \in Names PROVE in2[s] \in Nat /\ in2[s] = Cardinality(Deps(s) \ O2)
  <2>1. in2[s] = IF s \in Elements(waiting) /\ in[s] > 0 THEN in[s] - 1 ELSE in[s]
    BY DEF waiting, Lowered
  <2>2. in[s] \in Nat
    BY <1>1
  <2>3. CASE name \in Deps(s)
    <3>1. s \in Elements(waiting) /\ in[s] > 0 /\ Cardinality(Deps(s) \ O2) = in[s] - 1
      BY <1>4, <1>10, <2>3
    <3> QED
      BY <2>1, <2>2, <3>1
  <2>4. CASE name \notin Deps(s)
    BY <1>4, <1>10, <2>1, <2>2, <2>4
  <2> QED
    BY <2>3, <2>4
<1>12. in2 \in [Names -> Nat]
  BY <1>11 DEF Lowered
<1>13. after2 \in [Names -> Seq(Names)] /\ \A d \in Names : d # name => after2[d] = after[d]
  BY <1>1, <1>2
<1>14. ASSUME NEW s \in Names PROVE s \in Elements(queue2) \cup O2 <=> Deps(s) \subseteq O2
  <2>1. s \in Elements(queue2) \cup O2 <=> s \in R \cup O \/ s \in Elements(new)
    BY <1>2, <1>8 DEF O2
  <2>2. CASE name \notin Deps(s)
    <3>1. s \notin Elements(new)
      BY <1>5, <2>2
    <3>2. Deps(s) \subseteq O2 <=> Deps(s) \subseteq O
      BY <2>2 DEF O2
    <3> QED
      BY <1>1, <2>1, <3>1, <3>2
  <2>3. CASE name \in Deps(s)
    <3>1. s \notin R \cup O
      BY <1>1, <1>3, <2>3
    <3>2. IsFiniteSet(Deps(s) \ O2)
      <4>1. Deps(s) \ O2 \subseteq Deps(s) \ O
        BY DEF O2
      <4> QED
        BY <1>10, <4>1, FS_Subset
    <3>3. Deps(s) \ O2 = {} <=> Cardinality(Deps(s) \ O2) = 0
      BY <3>2, FS_EmptySet
    <3>4. Deps(s) \subseteq O2 <=> in[s] - 1 = 0
      BY <1>10, <2>3, <3>3
    <3>5. in[s] \in Nat /\ in[s] > 0
      BY <1>1, <1>10, <2>3
    <3>6. in[s] <= 1 <=> in[s] - 1 = 0
      BY <3>5
    <3> QED
      BY <1>5, <2>1, <2>3, <3>1, <3>4, <3>6
  <2> QED
    BY <2>2, <2>3
<1>15. \A d \in Names \ O2 : Distinct(after2[d]) /\ Elements(after2[d]) = {s \in Names : d \in Deps(s)}
  BY <1>1, <1>13 DEF O2
<1>16. Elements(list2) = O2
  BY <1>6 DEF O2
<1> QED
  BY <1>1, <1>6, <1>8, <1>9, <1>11, <1>12, <1>13, <1>14, <1>15, <1>16 DEF Queueing, Typed

(* A list in order meets no circle. *)
LEMMA SortedAcyclic ==
  ASSUME IsPlan(plan), NEW list \in Seq(Names), Sorted(list), Elements(list) = Names
  PROVE  ~Cyclic
<1> SUFFICES ASSUME NEW circle \in SUBSET Names, circle # {},
                    \A s \in circle : Elements(plan.dependsOn[s]) \cap circle # {}
             PROVE  FALSE
  BY DEF Cyclic
<1> DEFINE places == {k \in 1 .. Len(list) : list[k] \in circle}
<1>1. Len(list) \in Nat
  OBVIOUS
<1>2. places \in SUBSET Nat /\ places # {}
  <2>1. PICK s \in circle : TRUE
    OBVIOUS
  <2>2. PICK k \in 1 .. Len(list) : list[k] = s
    BY <2>1 DEF Elements
  <2> QED
    BY <1>1, <2>1, <2>2
<1>3. PICK k \in places : \A j \in places : k <= j
  <2> HIDE DEF places
  <2> QED
    BY <1>2, LeastOf
<1>4. PICK d \in Deps(list[k]) : d \in circle
  BY DEF Deps
<1>5. d \in Nat
  BY <1>4, PlanTyped
<1>6. PICK j \in 1 .. k - 1 : list[j] = d
  BY <1>4, <1>5 DEF Sorted
<1>7. j \in places /\ j < k
  BY <1>1, <1>4, <1>6
<1> QED
  BY <1>1, <1>3, <1>7

(* The queue is empty: every service is settled, or the others are on a    *)
(* circle.                                                                 *)
LEMMA QueueDone ==
  ASSUME IsPlan(plan), Distinct(plan.services), NEW in, NEW after, NEW list, Queueing(in, after, <<>>, list)
  PROVE  /\ Len(list) = Len(plan.services) => InOrder(list)
         /\ Len(list) # Len(plan.services) => Cyclic
<1>1. /\ ~Unknown /\ list \in Seq(Names) /\ Distinct(list) /\ Sorted(list)
      /\ \A s \in Names : s \in Elements(list) <=> Deps(s) \subseteq Elements(list)
  BY DEF Queueing, Elements
<1>2. /\ IsFiniteSet(Names) /\ Cardinality(Names) = Len(plan.services)
      /\ Cardinality(Elements(list)) = Len(list) /\ Elements(list) \subseteq Names
  <2>1. plan.services \in Seq(Nat \ {Subject})
    BY PlanTyped
  <2>2. IsFiniteSet(Names) /\ Cardinality(Names) = Len(plan.services)
    BY <2>1, CountOf DEF Names
  <2>3. Cardinality(Elements(list)) = Len(list) /\ Elements(list) \subseteq Names
    BY <1>1, CountOf, ElementsFinite
  <2> QED
    BY <2>2, <2>3
<1>3. ASSUME Len(list) = Len(plan.services) PROVE Elements(list) = Names
  BY <1>2, <1>3, FS_Subset
<1>4. ASSUME Len(list) # Len(plan.services) PROVE Cyclic
  <2> DEFINE circle == Names \ Elements(list)
  <2>1. circle # {}
    <3>1. Elements(list) # Names
      BY <1>2, <1>4
    <3> QED
      BY <1>2, <3>1
  <2>2. \A s \in circle : Elements(plan.dependsOn[s]) \cap circle # {}
    BY <1>1 DEF Unknown, Deps
  <2>3. circle \in SUBSET Names
    OBVIOUS
  <2> HIDE DEF circle
  <2> QED
    BY <2>1, <2>2, <2>3 DEF Cyclic
<1> QED
  BY <1>1, <1>3, <1>4 DEF InOrder

----------------------------------------------------------------------------
(* Preparation as a whole. *)

Entry == (Names \cup {Subject}) \X {"Process", "Adapter"}

(* The first n services of the list were passed: the managed ones have     *)
(* nothing wrong and are to be launched, after the managed subject.        *)
Walked(list, n, entries) ==
  /\ {entries[i][1] : i \in 1 .. Len(entries)} =
       ({list[k] : k \in 1 .. n} \cap plan.managed)
         \cup (IF plan.subject = "Managed" THEN {Subject} ELSE {})
  /\ plan.subject = "Managed" =>
       Len(entries) > 0 /\ entries[1] = <<Subject, "Process">> /\ plan.subjectFault = None
  /\ \A i, j \in 1 .. Len(entries) :
       entries[j][1] # Subject /\ entries[i][1] \in Deps(entries[j][1]) => i < j
  /\ \A k \in 1 .. n : list[k] \in plan.managed => Refusal(list[k]) = None

(* What a refusal says of the plan. *)
Blames(reason) ==
  /\ reason = "InvalidPlan" => Cyclic \/ Unknown
  /\ plan.validated => reason \notin {"InvalidPlan", "EmptyArgv", "OddTrials"}

Spawnable == plan.workspace /\ (NeedsManagedSpawn => plan.platform = "Supported")

Stages == {"platform", "subject", "count", "queue", "walk", "prepared", "preflighted",
           "admitted", "cancelled", "refused"}

PrepAt(at, n, in, after, queue, list, passed, entries, reason) ==
  /\ at \in Stages /\ n \in 0 .. Len(plan.services) /\ Typed(in, after)
  /\ queue \in Seq(Names) /\ list \in Seq(Names) /\ passed \in 0 .. Len(plan.services)
  /\ entries \in Seq(Entry)
  /\ (reason # None) <=> (at = "refused")
  /\ Blames(reason)
  /\ at \in {"platform", "subject", "count"} => Counting(n, in, after) /\ queue = <<>> /\ list = <<>>
  /\ at = "queue" => Queueing(in, after, queue, list)
  /\ at \in {"walk", "prepared"} => InOrder(list)
  /\ at \in {"platform", "subject"} => entries = <<>>
  /\ at \in {"platform", "subject", "count", "queue"} => passed = 0
  /\ at \in {"count", "queue", "walk", "prepared"} => Walked(list, passed, entries)
  /\ at = "prepared" => passed = Len(list)
  /\ at \in {"subject", "count", "queue", "walk", "prepared"} => Spawnable
  /\ at \in {"preflighted", "admitted"} => PreflightRefusal = None
  /\ at = "admitted" => ExecutorRefusal = None

Preparing ==
  /\ PrepAt(stage, counted, indegree, dependents, ready, ordered, walked, launch, error)
  /\ stage # "platform" => section = "accepted"

LEMMA Accepted ==
  ASSUME Validated, section = "accepted"
  PROVE  /\ IsPlan(plan) /\ Distinct(plan.services)
         /\ plan.validated => Promised("accepted") /\ ~Cyclic /\ ~Unknown
<1>1. IsPlan(plan) /\ (plan.validated => Promised("accepted"))
  BY DEF Validated
<1>2. Promised("accepted") => /\ FeaturesHold /\ PathHolds /\ ServicesHold /\ ReferencesHold /\ ~Cyclic
                              /\ PairedHolds /\ DiagnosticsHold /\ SecurityHolds /\ CorpusHolds /\ TrialsHold
  BY DEF Promised, AfterFeatures, AfterPath, AfterServices, AfterReferences, AfterCycles, AfterPaired,
         AfterDiagnostics, AfterSecurity, AfterCorpus, AfterTrials
<1>3. ~plan.validated => Distinct(plan.services)
  BY <1>1 DEF IsPlan, Distinct
<1> QED
  BY <1>1, <1>2, <1>3 DEF ServicesHold, ReferencesHold

LEMMA AcceptedHolds ==
  ASSUME Promised("accepted")
  PROVE  /\ FeaturesHold /\ PathHolds /\ ServicesHold /\ ReferencesHold /\ ~Cyclic
         /\ PairedHolds /\ DiagnosticsHold /\ SecurityHolds /\ CorpusHolds /\ TrialsHold
BY DEF Promised, AfterFeatures, AfterPath, AfterServices, AfterReferences, AfterCycles, AfterPaired,
       AfterDiagnostics, AfterSecurity, AfterCorpus, AfterTrials

(* A plan that does not change makes the same of the same state. *)
LEMMA PrepAtKept ==
  ASSUME plan' = plan, NEW CONSTANT at, NEW CONSTANT n, NEW CONSTANT in, NEW CONSTANT after,
         NEW CONSTANT queue, NEW CONSTANT list, NEW CONSTANT passed, NEW CONSTANT entries,
         NEW CONSTANT reason, PrepAt(at, n, in, after, queue, list, passed, entries, reason)
  PROVE  PrepAt(at, n, in, after, queue, list, passed, entries, reason)'
<1>1. Names' = Names /\ Cyclic' = Cyclic /\ Unknown' = Unknown
  BY HoldsKept
<1>2. Typed(in, after) => Typed(in, after)'
  BY <1>1 DEF Typed
<1>3. ASSUME Counting(n, in, after) PROVE Counting(n, in, after)'
  <2>1. Counted(n)' = Counted(n) /\ \A s : Deps(s)' = Deps(s)
    BY DEF Counted, Deps
  <2>2. \A d : {s \in Counted(n) : d \in Deps(s)}' = {s \in Counted(n) : d \in Deps(s)}
    BY <2>1
  <2>3. (\A s \in Counted(n) : Deps(s) \subseteq Names)'
    BY <1>1, <1>3, <2>1 DEF Counting
  <2>4. (\A s \in Names : in[s] = IF s \in Counted(n) THEN Cardinality(Deps(s)) ELSE 0)'
    BY <1>1, <1>3, <2>1 DEF Counting
  <2>5. (\A d \in Names : /\ Distinct(after[d])
                          /\ Elements(after[d]) = {s \in Counted(n) : d \in Deps(s)})'
    BY <1>1, <1>3, <2>2 DEF Counting
  <2> QED
    BY <1>2, <1>3, <2>3, <2>4, <2>5 DEF Counting
<1>4. Queueing(in, after, queue, list) => Queueing(in, after, queue, list)'
  BY <1>1 DEF Queueing, Typed, Sorted, Distinct, Deps
<1>5. InOrder(list) => InOrder(list)'
  BY <1>1 DEF InOrder, Sorted, Distinct, Deps
<1>6. Walked(list, passed, entries) => Walked(list, passed, entries)'
  BY DEF Walked, Deps, Refusal
<1>7. Blames(reason) => Blames(reason)'
  BY <1>1 DEF Blames
<1>8. Spawnable' = Spawnable
  BY <1>1 DEF Spawnable, NeedsManagedSpawn
<1>9. PreflightRefusal' = PreflightRefusal /\ ExecutorRefusal' = ExecutorRefusal
  BY DEF PreflightRefusal, PreflightChecks, ExecutorRefusal, CorporaMissing, Paired
<1>10. Entry' = Entry
  BY <1>1 DEF Entry
<1> QED
  BY <1>1, <1>2, <1>3, <1>4, <1>5, <1>6, <1>7, <1>8, <1>9, <1>10 DEF PrepAt, Stages

LEMMA PrepNext ==
  ASSUME plan' = plan, stage' # "platform" => section' = "accepted",
         PrepAt(stage', counted', indegree', dependents', ready', ordered', walked', launch', error')
  PROVE  Preparing'
<1>1. PICK at, n, in, after, queue, list, passed, entries, reason :
        /\ at = stage' /\ n = counted' /\ in = indegree' /\ after = dependents' /\ queue = ready'
        /\ list = ordered' /\ passed = walked' /\ entries = launch' /\ reason = error'
  OBVIOUS
<1>2. PrepAt(at, n, in, after, queue, list, passed, entries, reason)'
  BY <1>1, PrepAtKept
<1> QED
  BY <1>1, <1>2 DEF Preparing

LEMMA PlatformKept ==
  ASSUME Validated, Preparing, EnsurePlatform PROVE Preparing'
<1>1. /\ stage = "platform" /\ section = "accepted" /\ section' = "accepted" /\ plan' = plan
      /\ UNCHANGED <<counted, indegree, dependents, ready, ordered, walked, launch>>
  BY DEF EnsurePlatform, validation, order
<1>2. \/ stage' = "refused" /\ error' \in {"UnsupportedPlatform", "InvalidWorkingDirectory"}
      \/ stage' = "subject" /\ error' = error /\ Spawnable
  BY DEF EnsurePlatform, Refuse, Continue, Spawnable
<1>3. Blames("UnsupportedPlatform") /\ Blames("InvalidWorkingDirectory")
  BY DEF Blames
<1>4. PrepAt(stage', counted', indegree', dependents', ready', ordered', walked', launch', error')
  BY <1>1, <1>2, <1>3 DEF Preparing, PrepAt, None, Stages
<1> QED
  BY <1>1, <1>4, PrepNext

(* Nothing is launched yet, or the managed subject. *)
LEMMA WalkBegins ==
  ASSUME IsPlan(plan), NEW list, NEW entries,
         entries = IF plan.subject = "Managed" THEN <<<<Subject, "Process">>>> ELSE <<>>,
         plan.subject = "Managed" => plan.subjectFault = None
  PROVE  Walked(list, 0, entries) /\ entries \in Seq(Entry)
<1>1. 1 .. 0 = {}
  OBVIOUS
<1>2. CASE plan.subject = "Managed"
  <2>1. Len(entries) = 1 /\ entries[1] = <<Subject, "Process">> /\ entries \in Seq(Entry)
    BY <1>2 DEF Entry
  <2>2. entries[1][1] = Subject
    BY <2>1
  <2>3. {entries[i][1] : i \in 1 .. Len(entries)} = {Subject}
    BY <2>1, <2>2
  <2> QED
    BY <1>1, <1>2, <2>1, <2>2, <2>3 DEF Walked
<1>3. CASE plan.subject # "Managed"
  <2>1. Len(entries) = 0 /\ entries \in Seq(Entry)
    BY <1>3
  <2> QED
    BY <1>1, <1>3, <2>1 DEF Walked
<1> QED
  BY <1>2, <1>3

LEMMA SubjectKept ==
  ASSUME Validated, Preparing, PrepareSubject PROVE Preparing'
<1>1. /\ stage = "subject" /\ section = "accepted" /\ section' = "accepted" /\ plan' = plan
      /\ UNCHANGED <<counted, indegree, dependents, ready, ordered, walked>>
  BY DEF PrepareSubject, validation, order, Preparing
<1>2. IsPlan(plan) /\ (plan.validated => PathHolds)
  BY <1>1, Accepted, AcceptedHolds
<1>3. launch = <<>> /\ walked = 0 /\ error = None
  BY <1>1 DEF Preparing, PrepAt
<1>4. CASE plan.subject = "Managed" /\ plan.subjectFault # None /\ Refuse(plan.subjectFault) /\ UNCHANGED launch
  <2>1. Blames(plan.subjectFault)
    BY <1>2, <1>4 DEF Blames, PathHolds, IsPlan, None
  <2>2. PrepAt(stage', counted', indegree', dependents', ready', ordered', walked', launch', error')
    BY <1>1, <1>4, <2>1 DEF Preparing, PrepAt, Refuse, Stages
  <2> QED
    BY <1>1, <2>2, PrepNext
<1>5. CASE /\ stage' = "count" /\ error' = error
           /\ plan.subject = "Managed" => plan.subjectFault = None
           /\ launch' = IF plan.subject = "Managed" THEN <<<<Subject, "Process">>>> ELSE <<>>
  <2>1. Walked(ordered', 0, launch') /\ launch' \in Seq(Entry)
    BY <1>2, <1>5, WalkBegins
  <2>2. PrepAt(stage', counted', indegree', dependents', ready', ordered', walked', launch', error')
    BY <1>1, <1>3, <1>5, <2>1 DEF Preparing, PrepAt, Stages
  <2> QED
    BY <1>1, <2>2, PrepNext
<1>6. Append(<<>>, <<Subject, "Process">>) = <<<<Subject, "Process">>>>
  OBVIOUS
<1> QED
  BY <1>3, <1>4, <1>5, <1>6 DEF PrepareSubject, Continue

LEMMA CountKept ==
  ASSUME Validated, Preparing, CountDependencies PROVE Preparing'
<1>1. /\ stage = "count" /\ section = "accepted" /\ section' = "accepted" /\ plan' = plan
      /\ counted < Len(plan.services) /\ counted' = counted + 1
      /\ UNCHANGED <<ready, ordered, walked, launch>>
  BY DEF CountDependencies, validation, Preparing
<1>2. IsPlan(plan) /\ Distinct(plan.services) /\ (plan.validated => ~Unknown) /\ Len(plan.services) \in Nat
  BY <1>1, Accepted, PlanTyped
<1>3. /\ counted \in 0 .. Len(plan.services) - 1 /\ counted' \in 0 .. Len(plan.services)
      /\ Counting(counted, indegree, dependents)
  BY <1>1, <1>2 DEF Preparing, PrepAt
<1>4. PICK s : s = plan.services[counted + 1]
  OBVIOUS
<1>5. s \in Names
  BY <1>2, <1>3, <1>4, CountedServices
<1>6. CASE Deps(s) \subseteq Names
  <2>1. /\ indegree' = [indegree EXCEPT ![s] = @ + Cardinality(Deps(s))]
        /\ dependents' = [d \in Names |-> IF d \in Deps(s) THEN Append(dependents[d], s) ELSE dependents[d]]
        /\ stage' = "count" /\ error' = error
    BY <1>4, <1>6 DEF CountDependencies, Deps, Continue
  <2>2. Counting(counted + 1, indegree', dependents')
    BY <1>2, <1>3, <1>4, <1>6, <2>1, CountingNext
  <2>3. PrepAt(stage', counted', indegree', dependents', ready', ordered', walked', launch', error')
    BY <1>1, <1>3, <2>1, <2>2 DEF Preparing, PrepAt, Counting
  <2> QED
    BY <1>1, <2>3, PrepNext
<1>7. CASE ~(Deps(s) \subseteq Names)
  <2>1. Unknown
    BY <1>5, <1>7 DEF Unknown, Deps
  <2>2. Blames("InvalidPlan")
    BY <1>2, <2>1 DEF Blames
  <2>3. stage' = "refused" /\ error' = "InvalidPlan" /\ UNCHANGED <<indegree, dependents>>
    BY <1>4, <1>7 DEF CountDependencies, Deps, Refuse
  <2>4. PrepAt(stage', counted', indegree', dependents', ready', ordered', walked', launch', error')
    BY <1>1, <1>3, <2>2, <2>3 DEF Preparing, PrepAt, None, Stages
  <2> QED
    BY <1>1, <2>4, PrepNext
<1> QED
  BY <1>6, <1>7

(* Before the walk nothing of the list is passed. *)
LEMMA WalkedNone ==
  ASSUME NEW list, NEW other, NEW entries, Walked(list, 0, entries) PROVE Walked(other, 0, entries)
<1>1. 1 .. 0 = {}
  OBVIOUS
<1>2. {list[k] : k \in 1 .. 0} = {other[k] : k \in 1 .. 0}
  BY <1>1
<1> QED
  BY <1>1, <1>2 DEF Walked

LEMMA FillKept ==
  ASSUME Validated, Preparing, FillQueue PROVE Preparing'
<1>1. /\ stage = "count" /\ section = "accepted" /\ section' = "accepted" /\ plan' = plan
      /\ counted = Len(plan.services) /\ stage' = "queue" /\ error' = error
      /\ ready' = Ascending({s \in Names : indegree[s] = 0})
      /\ UNCHANGED <<counted, indegree, dependents, ordered, walked, launch>>
  BY DEF FillQueue, validation, Preparing, Continue
<1>2. IsPlan(plan)
  BY <1>1, Accepted
<1>3. Counting(Len(plan.services), indegree, dependents) /\ ordered = <<>>
  BY <1>1 DEF Preparing, PrepAt
<1>4. Queueing(indegree, dependents, ready', <<>>)
  BY <1>1, <1>2, <1>3, QueueFilled
<1>5. ready' \in Seq(Names)
  BY <1>4 DEF Queueing
<1>6. PrepAt(stage', counted', indegree', dependents', ready', ordered', walked', launch', error')
  BY <1>1, <1>3, <1>4, <1>5 DEF Preparing, PrepAt, Stages
<1> QED
  BY <1>1, <1>6, PrepNext

LEMMA PopKept ==
  ASSUME Validated, Preparing, PopReady PROVE Preparing'
<1>1. PICK name : name = Head(ready)
  OBVIOUS
<1>2. /\ stage = "queue" /\ section = "accepted" /\ section' = "accepted" /\ plan' = plan
      /\ stage' = "queue" /\ error' = error /\ ready # <<>>
      /\ ordered' = Append(ordered, name)
      /\ indegree' = Lowered(indegree, dependents[name])
      /\ ready' = Tail(ready) \o Chosen(dependents[name], Released(indegree, dependents[name]))
      /\ dependents' = [dependents EXCEPT ![name] = <<>>]
      /\ UNCHANGED <<counted, walked, launch>>
  BY <1>1 DEF PopReady, validation, Preparing, Lowered, Released
<1>3. IsPlan(plan)
  BY <1>2, Accepted
<1>4. Queueing(indegree, dependents, ready, ordered)
  BY <1>2 DEF Preparing, PrepAt
<1>5. Queueing(indegree', dependents', ready', ordered')
  BY <1>1, <1>2, <1>3, <1>4, QueueNext
<1>6. walked = 0 /\ Walked(ordered, 0, launch)
  BY <1>2 DEF Preparing, PrepAt
<1>7. Walked(ordered', 0, launch)
  BY <1>6, WalkedNone
<1>8. Typed(indegree', dependents') /\ ready' \in Seq(Names) /\ ordered' \in Seq(Names)
  BY <1>5 DEF Queueing
<1>9. PrepAt(stage', counted', indegree', dependents', ready', ordered', walked', launch', error')
  BY <1>2, <1>5, <1>6, <1>7, <1>8 DEF Preparing, PrepAt, Stages
<1> QED
  BY <1>2, <1>9, PrepNext

LEMMA CycleKept ==
  ASSUME Validated, Preparing, CheckCycle PROVE Preparing'
<1>1. /\ stage = "queue" /\ section = "accepted" /\ section' = "accepted" /\ plan' = plan /\ ready = <<>>
      /\ UNCHANGED <<counted, indegree, dependents, ready, ordered, walked, launch>>
  BY DEF CheckCycle, validation, order, Preparing
<1>2. IsPlan(plan) /\ Distinct(plan.services) /\ (plan.validated => ~Cyclic)
  BY <1>1, Accepted
<1>3. Queueing(indegree, dependents, <<>>, ordered)
  BY <1>1 DEF Preparing, PrepAt
<1>4. CASE Len(ordered) = Len(plan.services)
  <2>1. InOrder(ordered) /\ stage' = "walk" /\ error' = error
    BY <1>2, <1>3, <1>4, QueueDone DEF CheckCycle, Continue
  <2>2. PrepAt(stage', counted', indegree', dependents', ready', ordered', walked', launch', error')
    BY <1>1, <2>1 DEF Preparing, PrepAt, Stages
  <2> QED
    BY <1>1, <2>2, PrepNext
<1>5. CASE Len(ordered) # Len(plan.services)
  <2>1. Cyclic /\ stage' = "refused" /\ error' = "InvalidPlan"
    BY <1>2, <1>3, <1>5, QueueDone DEF CheckCycle, Refuse
  <2>2. Blames("InvalidPlan")
    BY <1>2, <2>1 DEF Blames
  <2>3. PrepAt(stage', counted', indegree', dependents', ready', ordered', walked', launch', error')
    BY <1>1, <2>1, <2>2 DEF Preparing, PrepAt, Stages, None
  <2> QED
    BY <1>1, <2>3, PrepNext
<1> QED
  BY <1>4, <1>5

(* The list goes on with a service that is not managed, or is launched.    *)
LEMMA WalkedNext ==
  ASSUME IsPlan(plan), NEW list, InOrder(list), NEW n \in 0 .. Len(list) - 1,
         NEW entries \in Seq(Entry), Walked(list, n, entries), NEW s, s = list[n + 1]
  PROVE  /\ s \in Names
         /\ s \notin plan.managed => Walked(list, n + 1, entries)
         /\ s \in plan.managed /\ Refusal(s) = None =>
              /\ Walked(list, n + 1, Append(entries, <<s, Kind(s)>>))
              /\ Append(entries, <<s, Kind(s)>>) \in Seq(Entry)
<1> DEFINE more == Append(entries, <<s, Kind(s)>>)
           m == Len(entries)
<1>1. list \in Seq(Names) /\ Distinct(list) /\ Sorted(list) /\ Len(list) \in Nat /\ n \in Nat
  BY DEF InOrder
<1>2. s \in Names /\ n + 1 \in 1 .. Len(list)
  BY <1>1
<1>3. 1 .. (n + 1) = (1 .. n) \cup {n + 1}
  BY <1>1
<1>4. {list[k] : k \in 1 .. n + 1} = {list[k] : k \in 1 .. n} \cup {s}
  BY <1>3
<1>5. ASSUME s \notin plan.managed PROVE Walked(list, n + 1, entries)
  <2>1. {list[k] : k \in 1 .. n + 1} \cap plan.managed = {list[k] : k \in 1 .. n} \cap plan.managed
    BY <1>4, <1>5
  <2>2. \A k \in 1 .. n + 1 : list[k] \in plan.managed => k \in 1 .. n
    BY <1>3, <1>5
  <2> QED
    BY <2>1, <2>2 DEF Walked
<1>6. ASSUME s \in plan.managed, Refusal(s) = None PROVE Walked(list, n + 1, more) /\ more \in Seq(Entry)
  <2>1. <<s, Kind(s)>> \in Entry /\ <<s, Kind(s)>>[1] = s
    BY <1>2 DEF Entry, Kind
  <2>2. /\ more \in Seq(Entry) /\ m \in Nat /\ Len(more) = m + 1 /\ more[m + 1][1] = s
        /\ \A i \in 1 .. m : more[i] = entries[i]
    BY <2>1
  <2>3. 1 .. (m + 1) = (1 .. m) \cup {m + 1}
    BY <2>2
  <2> HIDE DEF more, m
  <2>4. {more[i][1] : i \in 1 .. m + 1} = {entries[i][1] : i \in 1 .. m} \cup {s}
    <3>1. /\ \A i \in 1 .. m : i \in 1 .. m + 1 /\ more[i][1] = entries[i][1]
          /\ m + 1 \in 1 .. m + 1 /\ more[m + 1][1] = s
      BY <2>2
    <3>2. \A i \in 1 .. m + 1 : i \in 1 .. m \/ i = m + 1
      BY <2>3
    <3>3. ASSUME NEW x \in {more[i][1] : i \in 1 .. m + 1}
          PROVE  x \in {entries[i][1] : i \in 1 .. m} \cup {s}
      BY <3>1, <3>2
    <3>4. ASSUME NEW x \in {entries[i][1] : i \in 1 .. m} \cup {s}
          PROVE  x \in {more[i][1] : i \in 1 .. m + 1}
      BY <3>1
    <3> QED
      BY <3>3, <3>4
  <2>5. {more[i][1] : i \in 1 .. Len(more)} =
          ({list[k] : k \in 1 .. n + 1} \cap plan.managed)
            \cup (IF plan.subject = "Managed" THEN {Subject} ELSE {})
    BY <1>4, <1>6, <2>2, <2>4 DEF Walked, m
  <2>6. plan.subject = "Managed" =>
          Len(more) > 0 /\ more[1] = <<Subject, "Process">> /\ plan.subjectFault = None
    BY <2>2 DEF Walked, m
  <2>7. \A k \in 1 .. n + 1 : list[k] \in plan.managed => Refusal(list[k]) = None
    BY <1>3, <1>6 DEF Walked
  <2>8. \A k \in 1 .. n + 1 : s \notin Deps(list[k])
    <3> SUFFICES ASSUME NEW k \in 1 .. n + 1, s \in Deps(list[k]) PROVE FALSE
      OBVIOUS
    <3>1. k \in 1 .. Len(list) /\ s \in Nat
      BY <1>1, <1>2, PlanTyped
    <3>2. PICK j \in 1 .. k - 1 : list[j] = s
      BY <1>1, <3>1 DEF Sorted
    <3>3. j \in 1 .. Len(list) /\ j # n + 1
      BY <1>1, <3>1
    <3> QED
      BY <1>1, <1>2, <3>2, <3>3 DEF Distinct
  <2>9. ASSUME NEW i \in 1 .. m + 1, NEW j \in 1 .. m + 1,
               more[j][1] # Subject, more[i][1] \in Deps(more[j][1])
        PROVE  i < j
    <3>1. more[j][1] \in {list[k] : k \in 1 .. n + 1}
      BY <2>2, <2>5, <2>9
    <3>2. PICK k \in 1 .. n + 1 : list[k] = more[j][1]
      BY <3>1
    <3>3. i # m + 1
      BY <2>2, <2>8, <2>9, <3>2
    <3>4. i \in 1 .. m
      BY <2>3, <3>3
    <3>5. CASE j = m + 1
      BY <2>2, <3>4, <3>5
    <3>6. CASE j # m + 1
      <4>1. j \in 1 .. m
        BY <2>3, <3>6
      <4> QED
        BY <2>2, <2>9, <3>4, <4>1 DEF Walked, m
    <3> QED
      BY <3>5, <3>6
  <2> QED
    BY <2>2, <2>5, <2>6, <2>7, <2>9 DEF Walked
<1> QED
  BY <1>2, <1>5, <1>6

LEMMA ServiceKept ==
  ASSUME Validated, Preparing, PrepareService PROVE Preparing'
<1>1. /\ stage = "walk" /\ section = "accepted" /\ section' = "accepted" /\ plan' = plan
      /\ walked < Len(ordered) /\ walked' = walked + 1
      /\ UNCHANGED <<counted, indegree, dependents, ready, ordered>>
  BY DEF PrepareService, validation, order, Preparing
<1>2. IsPlan(plan) /\ (plan.validated => ServicesHold) /\ Len(plan.services) \in Nat
  BY <1>1, Accepted, AcceptedHolds, PlanTyped
<1>3. /\ InOrder(ordered) /\ Walked(ordered, walked, launch) /\ launch \in Seq(Entry)
      /\ Len(ordered) = Len(plan.services) /\ error = None
      /\ walked \in 0 .. Len(ordered) - 1 /\ walked' \in 0 .. Len(plan.services)
  <2>1. InOrder(ordered) /\ Walked(ordered, walked, launch) /\ launch \in Seq(Entry)
        /\ walked \in 0 .. Len(plan.services) /\ error = None
    BY <1>1 DEF Preparing, PrepAt
  <2>2. Len(ordered) = Len(plan.services)
    BY <2>1 DEF InOrder
  <2> QED
    BY <1>1, <1>2, <2>1, <2>2
<1>4. PICK s : s = ordered[walked + 1]
  OBVIOUS
<1>5. /\ s \in Names
      /\ s \notin plan.managed => Walked(ordered, walked + 1, launch)
      /\ s \in plan.managed /\ Refusal(s) = None =>
           /\ Walked(ordered, walked + 1, Append(launch, <<s, Kind(s)>>))
           /\ Append(launch, <<s, Kind(s)>>) \in Seq(Entry)
  BY <1>2, <1>3, <1>4, WalkedNext
<1>6. CASE s \notin plan.managed /\ Continue("walk") /\ UNCHANGED launch
  <2>1. PrepAt(stage', counted', indegree', dependents', ready', ordered', walked', launch', error')
    BY <1>1, <1>3, <1>5, <1>6 DEF Preparing, PrepAt, Continue
  <2> QED
    BY <1>1, <2>1, PrepNext
<1>7. CASE s \in plan.managed /\ Refusal(s) # None /\ Refuse(Refusal(s)) /\ UNCHANGED launch
  <2>1. Blames(Refusal(s))
    <3>1. plan.fault[s] \in Faults \cup {None}
      BY <1>2, <1>5, PlanTyped
    <3> QED
      BY <1>2, <1>5, <1>7, <3>1 DEF Blames, Refusal, ServicesHold, Faults, None
  <2>2. PrepAt(stage', counted', indegree', dependents', ready', ordered', walked', launch', error')
    BY <1>1, <1>3, <1>7, <2>1 DEF Preparing, PrepAt, Refuse, Stages
  <2> QED
    BY <1>1, <2>2, PrepNext
<1>8. CASE /\ s \in plan.managed /\ Refusal(s) = None /\ launch' = Append(launch, <<s, Kind(s)>>)
           /\ Continue("walk")
  <2>1. PrepAt(stage', counted', indegree', dependents', ready', ordered', walked', launch', error')
    BY <1>1, <1>3, <1>5, <1>8 DEF Preparing, PrepAt, Continue
  <2> QED
    BY <1>1, <2>1, PrepNext
<1> QED
  BY <1>4, <1>6, <1>7, <1>8 DEF PrepareService

LEMMA PreparedKept ==
  ASSUME Validated, Preparing, Prepared PROVE Preparing'
<1>1. /\ stage = "walk" /\ section = "accepted" /\ section' = "accepted" /\ plan' = plan
      /\ walked = Len(ordered) /\ stage' = "prepared" /\ error' = error
      /\ UNCHANGED <<counted, indegree, dependents, ready, ordered, walked, launch>>
  BY DEF Prepared, validation, order, Preparing, Continue
<1>2. PrepAt(stage', counted', indegree', dependents', ready', ordered', walked', launch', error')
  BY <1>1 DEF Preparing, PrepAt, Stages
<1> QED
  BY <1>1, <1>2, PrepNext

LEMMA PreflightKept ==
  ASSUME Validated, Preparing, Preflight PROVE Preparing'
<1>1. /\ stage = "prepared" /\ section = "accepted" /\ section' = "accepted" /\ plan' = plan
      /\ UNCHANGED <<counted, indegree, dependents, ready, ordered, walked, launch>>
  BY DEF Preflight, validation, order, Preparing
<1>2. plan.validated => PairedHolds
  BY <1>1, Accepted, AcceptedHolds
<1>3. Blames(PreflightRefusal)
  <2>1. Len(PreflightChecks) = 6
    BY DEF PreflightChecks
  <2>2. /\ PreflightChecks[1] = When(Paired /\ (plan.measured < 2 \/ plan.measured % 2 # 0), "OddTrials")
        /\ \A i \in 2 .. 6 : PreflightChecks[i] \in {"UnknownTimeout", "MissingTimeout", "MissingHook",
                                                   "InvalidCorpus", None}
    BY DEF PreflightChecks, When
  <2>3. /\ PreflightRefusal # "InvalidPlan" /\ PreflightRefusal # "EmptyArgv"
        /\ PreflightRefusal = "OddTrials" => Paired /\ (plan.measured < 2 \/ plan.measured % 2 # 0)
    <3>1. CASE PreflightRefusal = None
      BY <3>1 DEF None
    <3>2. CASE PreflightRefusal # None
      <4>1. PICK k \in 1 .. 6 : PreflightRefusal = PreflightChecks[k]
        BY <2>1, <3>2, FirstFound DEF PreflightRefusal
      <4>2. CASE k = 1
        BY <2>2, <4>1, <4>2 DEF When, None
      <4>3. CASE k # 1
        <5>1. k \in 2 .. 6
          BY <4>3
        <5> QED
          BY <2>2, <4>1, <5>1 DEF None
      <4> QED
        BY <4>2, <4>3
    <3> QED
      BY <3>1, <3>2
  <2> QED
    BY <1>2, <2>3 DEF Blames, PairedHolds
<1>4. CASE PreflightRefusal = None
  <2>1. stage' = "preflighted" /\ error' = error
    BY <1>4 DEF Preflight, Continue
  <2>2. PrepAt(stage', counted', indegree', dependents', ready', ordered', walked', launch', error')
    BY <1>1, <1>4, <2>1 DEF Preparing, PrepAt, Stages
  <2> QED
    BY <1>1, <2>2, PrepNext
<1>5. CASE PreflightRefusal # None
  <2>1. stage' = "refused" /\ error' = PreflightRefusal
    BY <1>5 DEF Preflight, Refuse
  <2>2. PrepAt(stage', counted', indegree', dependents', ready', ordered', walked', launch', error')
    BY <1>1, <1>3, <1>5, <2>1 DEF Preparing, PrepAt, Stages
  <2> QED
    BY <1>1, <2>2, PrepNext
<1> QED
  BY <1>4, <1>5

LEMMA ExecutorsKept ==
  ASSUME Validated, Preparing, PreflightExecutors PROVE Preparing'
<1>1. /\ stage = "preflighted" /\ section = "accepted" /\ section' = "accepted" /\ plan' = plan
      /\ UNCHANGED <<counted, indegree, dependents, ready, ordered, walked, launch>>
  BY DEF PreflightExecutors, validation, order, Preparing
<1>2. Blames(ExecutorRefusal)
  <2>1. ExecutorRefusal \notin {"InvalidPlan", "EmptyArgv", "OddTrials"}
    BY FirstFound DEF ExecutorRefusal, When, None
  <2> QED
    BY <2>1 DEF Blames
<1>3. \/ stage' = "cancelled" /\ error' = error
      \/ ExecutorRefusal = None /\ stage' = "admitted" /\ error' = error
      \/ ExecutorRefusal # None /\ stage' = "refused" /\ error' = ExecutorRefusal
  BY DEF PreflightExecutors, Continue, Refuse
<1>4. PrepAt(stage', counted', indegree', dependents', ready', ordered', walked', launch', error')
  BY <1>1, <1>2, <1>3 DEF Preparing, PrepAt, Stages
<1> QED
  BY <1>1, <1>4, PrepNext

----------------------------------------------------------------------------
(* The invariant holds of every reachable state. *)

Sane == Validated /\ Searching /\ Preparing

LEMMA InitSane ==
  ASSUME Init PROVE Sane
<1>1. IsPlan(plan)
  BY PlanAssumption DEF Init, InitValidation
<1>2. /\ section = IF plan.validated THEN "features" ELSE "accepted"
      /\ rejected = None /\ search = <<0, <<>>, {}, {}>>
      /\ roots = 0 /\ stack = <<>> /\ temporary = {} /\ permanent = {}
  BY DEF Init, InitValidation, search
<1>3. Promised("features")
  BY DEF Promised, AfterFeatures, AfterPath, AfterServices, AfterReferences, AfterCycles, AfterPaired,
         AfterDiagnostics, AfterSecurity, AfterCorpus, AfterTrials
<1>4. /\ "features" \in Sections /\ "accepted" \in Sections /\ "accepted" \in AfterReferences
      /\ "features" # "rejected" /\ "accepted" # "rejected" /\ plan.validated \in BOOLEAN
  BY <1>1 DEF IsPlan, Sections, AfterFeatures, AfterPath, AfterServices, AfterReferences, AfterCycles,
         AfterPaired, AfterDiagnostics, AfterSecurity, AfterCorpus, AfterTrials
<1>5. Validated
  BY <1>1, <1>2, <1>3, <1>4 DEF Validated, None
<1>6. Searching
  BY <1>1, <1>2, PlanTyped DEF Searching
<1>7. /\ stage = "platform" /\ error = None /\ counted = 0 /\ ready = <<>> /\ ordered = <<>>
      /\ walked = 0 /\ launch = <<>>
      /\ indegree \in [Names -> Nat] /\ dependents \in [Names -> Seq(Names)]
      /\ \A s \in Names : indegree[s] = 0 /\ dependents[s] = <<>>
  BY DEF Init
<1>8. Counting(0, indegree, dependents)
  <2>1. Counted(0) = {}
    BY <1>1, CountedServices
  <2>2. \A d \in Names : Distinct(dependents[d]) /\ Elements(dependents[d]) = {}
    BY <1>7 DEF Distinct, Elements
  <2> QED
    BY <1>7, <2>1, <2>2 DEF Counting, Typed
<1>9. Blames(None)
  BY DEF Blames, None
<1>10. 0 \in 0 .. Len(plan.services)
  BY <1>1, PlanTyped
<1>11. Preparing
  BY <1>7, <1>8, <1>9, <1>10 DEF Preparing, PrepAt, Stages, Counting
<1> QED
  BY <1>5, <1>6, <1>11 DEF Sane

LEMMA PreparingUnchanged ==
  ASSUME Preparing, plan' = plan, UNCHANGED preparation, stage # "platform" => section' = "accepted"
  PROVE  Preparing'
<1>1. UNCHANGED <<stage, counted, indegree, dependents, ready, ordered, walked, launch, error>>
  BY DEF preparation, order
<1>2. PrepAt(stage', counted', indegree', dependents', ready', ordered', walked', launch', error')
  BY <1>1 DEF Preparing
<1> QED
  BY <1>1, <1>2, PrepNext

LEMMA ValidationUnchanged ==
  ASSUME Validated, Searching, plan' = plan, UNCHANGED validation PROVE Validated' /\ Searching'
<1>1. UNCHANGED <<section, rejected, roots, stack, temporary, permanent, search>>
  BY DEF validation, search
<1>2. IsPlan(plan)' /\ Names' = Names /\ (Cyclic' <=> Cyclic)
  BY HoldsKept DEF Validated
<1>3. Validated'
  <2>1. ASSUME plan.validated PROVE Promised(section)'
    <3>1. PICK at : at = section
      OBVIOUS
    <3>2. Promised(at)
      BY <2>1, <3>1 DEF Validated
    <3>3. Promised(at)'
      BY <3>2, PromisedKept
    <3> QED
      BY <1>1, <3>1, <3>3
  <2> QED
    BY <1>1, <1>2, <2>1 DEF Validated
<1>4. Searching'
  <2>1. section = "cycles" => Searched'
    BY <1>1, SearchedKept DEF Searching
  <2> QED
    BY <1>1, <1>2, <2>1 DEF Searching
<1> QED
  BY <1>3, <1>4

LEMMA StepSane ==
  ASSUME Sane, [Next]_vars PROVE Sane'
<1>1. Validated /\ Searching /\ Preparing
  BY DEF Sane
<1>2. CASE Validate /\ UNCHANGED preparation
  <2>1. Validated' /\ Searching'
    BY <1>1, <1>2, SectionsKept, SearchKept DEF Validate
  <2>2. plan' = plan /\ section # "accepted"
    BY <1>2 DEF Validate, Section, ValidateFeatures, ValidatePath, ValidateServices, ValidateReferences,
       VisitRoot, VisitDependency, LeaveService, Acyclic, ValidateWorkload, ValidatePaired,
       ValidateDiagnostics, ValidateSecurityChecks, ValidateCorpusChecks, ValidateTrials, ValidateMetrics
  <2>3. stage = "platform"
    BY <1>1, <2>2 DEF Preparing
  <2>4. Preparing'
    BY <1>1, <1>2, <2>2, <2>3, PreparingUnchanged
  <2> QED
    BY <2>1, <2>4 DEF Sane
<1>3. CASE Prepare
  <2>1. plan' = plan /\ UNCHANGED validation
    BY <1>3 DEF Prepare, EnsurePlatform, PrepareSubject, CountDependencies, FillQueue, PopReady,
       CheckCycle, PrepareService, Prepared, Preflight, PreflightExecutors
  <2>2. Preparing'
    BY <1>1, <1>3, PlatformKept, SubjectKept, CountKept, FillKept, PopKept, CycleKept, ServiceKept,
       PreparedKept, PreflightKept, ExecutorsKept DEF Prepare
  <2> QED
    BY <1>1, <2>1, <2>2, ValidationUnchanged DEF Sane
<1>4. CASE UNCHANGED vars
  <2>1. plan' = plan /\ UNCHANGED validation /\ UNCHANGED preparation /\ section' = section
    BY <1>4 DEF vars, validation
  <2>2. stage # "platform" => section' = "accepted"
    BY <1>1, <2>1 DEF Preparing
  <2> QED
    BY <1>1, <2>1, <2>2, ValidationUnchanged, PreparingUnchanged DEF Sane
<1> QED
  BY <1>2, <1>3, <1>4 DEF Next

----------------------------------------------------------------------------
(* What the invariant says. *)

LEMMA SaneTyped ==
  ASSUME Sane PROVE TypeOK
<1>1. PrepAt(stage, counted, indegree, dependents, ready, ordered, walked, launch, error)
  BY DEF Sane, Preparing
<1>2. /\ roots \in 0 .. Cardinality(Names) /\ temporary \cup permanent \subseteq Names
      /\ (rejected # None) <=> (section = "rejected")
  BY DEF Sane, Validated, Searching
<1> QED
  BY <1>1, <1>2 DEF TypeOK, PrepAt, Stages, Typed, Entry

LEMMA SaneRefuses ==
  ASSUME Sane PROVE RefusesExactlyInvalid
<1>1. Validated /\ Preparing /\ IsPlan(plan)
  BY DEF Sane, Validated
<1>2. rejected = "cycle" => Cyclic
  BY <1>1 DEF Validated
<1>3. ASSUME plan.validated, section \in {"workload", "accepted"} PROVE ~(Cyclic \/ Unknown)
  <2>1. Promised(section)
    BY <1>1, <1>3 DEF Validated
  <2> QED
    BY <1>3, <2>1 DEF Promised, ReferencesHold, AfterReferences, AfterCycles, AfterPaired,
       AfterDiagnostics, AfterSecurity, AfterCorpus, AfterTrials
<1>4. Blames(error)
  BY <1>1 DEF Preparing, PrepAt
<1>5. ASSUME stage \in {"walk", "prepared"} PROVE ~(Cyclic \/ Unknown)
  <2>1. InOrder(ordered)
    BY <1>1, <1>5 DEF Preparing, PrepAt
  <2> QED
    BY <1>1, <2>1, SortedAcyclic DEF InOrder
<1> QED
  BY <1>2, <1>3, <1>4, <1>5 DEF RefusesExactlyInvalid, Blames

LEMMA PositionOf ==
  ASSUME InOrder(ordered), NEW s \in Names
  PROVE  /\ Position(s) \in 1 .. Len(ordered) /\ ordered[Position(s)] = s
         /\ \A k \in 1 .. Len(ordered) : ordered[k] = s => k = Position(s)
<1>1. \E k \in 1 .. Len(ordered) : ordered[k] = s
  BY DEF InOrder, Elements
<1>2. Position(s) \in 1 .. Len(ordered) /\ ordered[Position(s)] = s
  BY <1>1 DEF Position
<1> QED
  BY <1>2 DEF InOrder, Distinct

LEMMA SaneOrder ==
  ASSUME Sane PROVE LaunchesInOrder
<1>1. Preparing /\ Validated /\ IsPlan(plan)
  BY DEF Sane, Validated
<1>2. PrepAt(stage, counted, indegree, dependents, ready, ordered, walked, launch, error)
  BY <1>1 DEF Preparing
<1>3. ASSUME stage \in {"walk", "prepared"}
      PROVE  /\ Elements(ordered) = Names /\ Len(ordered) = Len(plan.services)
             /\ \A s \in Names : \A d \in Elements(plan.dependsOn[s]) : Position(d) < Position(s)
             /\ plan.validated =>
                  \A s \in Names : \A d \in Elements(plan.sources[s]) : Position(d) < Position(s)
  <2>1. InOrder(ordered) /\ section = "accepted"
    BY <1>1, <1>2, <1>3 DEF Preparing, PrepAt
  <2>2. ASSUME NEW s \in Names, NEW d \in Deps(s) PROVE Position(d) < Position(s)
    <3>1. Position(s) \in 1 .. Len(ordered) /\ ordered[Position(s)] = s /\ Len(ordered) \in Nat
      BY <2>1, PositionOf DEF InOrder
    <3>2. d \in Nat /\ d \in Names
      BY <1>1, <2>1, <2>2, PlanTyped DEF InOrder, Unknown, Deps
    <3>3. PICK j \in 1 .. Position(s) - 1 : ordered[j] = d
      BY <2>1, <2>2, <3>1, <3>2 DEF InOrder, Sorted
    <3>4. j \in 1 .. Len(ordered)
      BY <3>1
    <3>5. j = Position(d)
      BY <2>1, <3>2, <3>3, <3>4, PositionOf
    <3> QED
      BY <3>1, <3>3, <3>5
  <2>3. plan.validated => \A s \in Names : Elements(plan.sources[s]) \subseteq Deps(s)
    BY <1>1, <2>1, Accepted, AcceptedHolds DEF ServicesHold
  <2> QED
    BY <2>1, <2>2, <2>3 DEF InOrder, Deps
<1>4. ASSUME stage = "prepared"
      PROVE  /\ {entry[1] : entry \in Elements(launch)} =
                  (Names \cap plan.managed) \cup (IF plan.subject = "Managed" THEN {Subject} ELSE {})
             /\ plan.subject = "Managed" => launch[1] = <<Subject, "Process">> /\ plan.subjectFault = None
             /\ \A i, j \in 1 .. Len(launch) :
                  launch[j][1] # Subject /\ launch[i][1] \in Elements(plan.dependsOn[launch[j][1]]) => i < j
             /\ \A s \in Names \cap plan.managed : Refusal(s) = None
             /\ launch # <<>> => plan.platform = "Supported" /\ plan.workspace
  <2>1. InOrder(ordered) /\ Walked(ordered, Len(ordered), launch) /\ Spawnable /\ launch \in Seq(Entry)
    BY <1>2, <1>4 DEF PrepAt
  <2>2. {ordered[k] : k \in 1 .. Len(ordered)} = Names
    BY <2>1 DEF InOrder, Elements
  <2>3. {entry[1] : entry \in Elements(launch)} = {launch[i][1] : i \in 1 .. Len(launch)}
    BY DEF Elements
  <2>4. {launch[i][1] : i \in 1 .. Len(launch)} =
          (Names \cap plan.managed) \cup (IF plan.subject = "Managed" THEN {Subject} ELSE {})
    BY <2>1, <2>2 DEF Walked
  <2>5. \A s \in Names \cap plan.managed : Refusal(s) = None
    BY <2>1, <2>2 DEF Walked
  <2>6. ASSUME launch # <<>> PROVE plan.platform = "Supported" /\ plan.workspace
    <3>1. Len(launch) \in Nat /\ Len(launch) # 0
      BY <2>1, <2>6
    <3>2. launch[1][1] \in {launch[i][1] : i \in 1 .. Len(launch)}
      BY <3>1
    <3>3. NeedsManagedSpawn
      BY <2>4, <3>2 DEF NeedsManagedSpawn
    <3> QED
      BY <2>1, <3>3 DEF Spawnable
  <2>7. \A i, j \in 1 .. Len(launch) :
          launch[j][1] # Subject /\ launch[i][1] \in Deps(launch[j][1]) => i < j
    BY <2>1 DEF Walked
  <2>8. plan.subject = "Managed" => launch[1] = <<Subject, "Process">> /\ plan.subjectFault = None
    BY <2>1 DEF Walked
  <2> QED
    BY <2>3, <2>4, <2>5, <2>6, <2>7, <2>8 DEF Deps
<1> QED
  BY <1>3, <1>4 DEF LaunchesInOrder

(* Requests with distinct names have as many names as there are of them.   *)
LEMMA IdsCounted ==
  ASSUME NEW list \in Seq(Request), DistinctIds(list)
  PROVE  /\ IsFiniteSet({request.id : request \in Elements(list)})
         /\ Cardinality({request.id : request \in Elements(list)}) = Len(list)
<1> DEFINE ids == [k \in 1 .. Len(list) |-> list[k].id]
<1>1. Len(list) \in Nat /\ \A k \in 1 .. Len(list) : list[k].id \in Nat
  <2>1. \A k \in 1 .. Len(list) : list[k] \in Request
    OBVIOUS
  <2> QED
    BY <2>1 DEF Request
<1>2. ids \in Seq(Nat) /\ Len(ids) = Len(list) /\ \A k \in 1 .. Len(list) : ids[k] = list[k].id
  BY <1>1
<1> HIDE DEF ids
<1>3. Distinct(ids)
  BY <1>2 DEF Distinct, DistinctIds
<1>4. Elements(ids) = {request.id : request \in Elements(list)}
  BY <1>2 DEF Elements
<1> QED
  BY <1>2, <1>3, <1>4, CountOf

LEMMA SanePreflighted ==
  ASSUME Sane PROVE PreparedIsPreflighted
<1> SUFFICES ASSUME plan.validated, stage = "admitted" PROVE NothingDangles
  BY SaneOrder DEF PreparedIsPreflighted
<1>1. Preparing /\ Validated /\ IsPlan(plan) /\ section = "accepted"
  BY DEF Sane, Validated, Preparing
<1>2. PreflightRefusal = None /\ ExecutorRefusal = None
  BY <1>1 DEF Preparing, PrepAt
<1>3. /\ FeaturesHold /\ PathHolds /\ ReferencesHold /\ PairedHolds /\ DiagnosticsHold
      /\ SecurityHolds /\ CorpusHolds /\ TrialsHold
  BY <1>1, Accepted, AcceptedHolds
<1>4. plan.diagnostics \in Seq(Request) /\ plan.security \in Seq(Request) /\ plan.corpus \in Seq(Request)
  BY <1>1 DEF IsPlan
<1>5. Elements(<<>>) = {}
  BY DEF Elements
<1>6. Reachable(plan.workload.target) /\ \A request \in Requests : Reachable(request.target)
  BY <1>3 DEF ReferencesHold, DiagnosticsHold, SecurityHolds, CorpusHolds, Requests
<1>7. Paired => {plan.paired.baseline, plan.paired.candidate} \subseteq Names /\ Checks = {}
  BY <1>3, <1>5 DEF PairedHolds, SecurityHolds, CorpusHolds, Checks
<1>8. Path => Requests = {} /\ ~Paired /\ plan.subject # "External"
  BY <1>3, <1>5 DEF FeaturesHold, PathHolds, CorpusHolds, PairedHolds, Requests
<1>9. plan.reset.kind = "Service" => plan.reset.target \in Names
  BY <1>3 DEF TrialsHold
<1>10. Cardinality({request.id : request \in Checks}) = Len(plan.security) + Len(plan.corpus)
  <2> DEFINE ours == {request.id : request \in Elements(plan.security)}
             theirs == {request.id : request \in Elements(plan.corpus)}
  <2>1. DistinctIds(plan.security) /\ DistinctIds(plan.corpus)
    BY <1>3 DEF SecurityHolds, CorpusHolds
  <2>2. /\ IsFiniteSet(ours) /\ Cardinality(ours) = Len(plan.security)
        /\ IsFiniteSet(theirs) /\ Cardinality(theirs) = Len(plan.corpus)
    BY <1>4, <2>1, IdsCounted
  <2>3. Len(plan.security) \in Nat /\ Len(plan.corpus) \in Nat
    BY <1>4
  <2>4. ours \cap theirs = {}
    BY <1>3 DEF CorpusHolds, Elements
  <2>5. {request.id : request \in Checks} = ours \cup theirs
    BY DEF Checks
  <2> HIDE DEF ours, theirs
  <2>6. Cardinality(ours \cup theirs) = Cardinality(ours) + Cardinality(theirs) - Cardinality(ours \cap theirs)
    BY <2>2, FS_Union
  <2>7. Cardinality(ours \cap theirs) = 0
    BY <2>4, FS_EmptySet
  <2>8. Cardinality(ours \cup theirs) = Len(plan.security) + Len(plan.corpus)
    BY <2>2, <2>3, <2>6, <2>7
  <2> QED
    BY <2>5, <2>8
<1>11. plan.reset.kind # None => plan.reset.target \in plan.hooks
  <2>1. Len(PreflightChecks) = 6
    BY DEF PreflightChecks
  <2>2. PreflightChecks[5] = When(plan.reset.kind # None /\ plan.reset.target \notin plan.hooks, "MissingHook")
    BY DEF PreflightChecks
  <2>3. \A i \in 1 .. 6 : PreflightChecks[i] = None
    BY <1>2, <2>1, FirstNone DEF PreflightRefusal
  <2> QED
    BY <2>2, <2>3 DEF When, None
<1>12. Checks # {} => plan.executors \cap {"security", "corpus"} # {}
  <2>1. /\ When(plan.security # <<>> /\ "security" \notin plan.executors, "MissingExecutor") = None
        /\ When(plan.corpus # <<>> /\ "corpus" \notin plan.executors, "MissingExecutor") = None
    BY <1>2, FirstNone DEF ExecutorRefusal
  <2> QED
    BY <1>5, <2>1 DEF Checks, When, None
<1> QED
  BY <1>6, <1>7, <1>8, <1>9, <1>10, <1>11, <1>12 DEF NothingDangles

----------------------------------------------------------------------------
LEMMA AlwaysSane == Spec => []Sane
BY InitSane, StepSane, PTL DEF Spec

(* Every variable of validate, topological_order and prepare keeps its     *)
(* type: no list holds a name that is no service, no counter goes past the *)
(* plan, and there is an error exactly where something was refused.        *)
THEOREM PreparationTypeCorrect == Spec => []TypeOK
BY AlwaysSane, SaneTyped, PTL

(* ensure_acyclic and topological_order agree with each other and with the *)
(* definition of a circle, for every plan: a plan is refused as circular   *)
(* only when it is, a circle or an unknown dependency is never accepted,   *)
(* and prepare and the preflights never refuse a validated plan for what   *)
(* validate has checked.                                                   *)
THEOREM RefusalsAreExact == Spec => []RefusesExactlyInvalid
BY AlwaysSane, SaneRefuses, PTL

(* For every plan, the launch order of prepare has exactly the managed     *)
(* subject and services, each checked and after the managed services it    *)
(* depends on or takes bindings from; a validated plan that passes the     *)
(* preflights names nothing that is not there.                             *)
THEOREM PreparedPlansAreSafe == Spec => []PreparedIsPreflighted
BY AlwaysSane, SanePreflighted, PTL
=============================================================================
