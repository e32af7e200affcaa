----------------------------- MODULE FetchProofs ----------------------------
(***************************************************************************)
(* Proofs about the schedule of the native workload: for any number of     *)
(* workers, any workload and any interleaving of claims, requests, the     *)
(* deadline and a cancellation.                                            *)
(***************************************************************************)
EXTENDS Fetch, FiniteSetTheorems, TLAPS

Sends == {"send", "dial", "wrap", "answer"}
Places == Sends \cup {"off", "loop", "claim", "issue", "joined"}

(* The workers of a place. *)
In(places, f) == {w \in Workers : f[w] \in places}

(* The workers of a schedule that have a claim and no outcome, and those   *)
(* of them that send.                                                      *)
Claimed == In(Sends \cup {"issue"}, at)
Sending == In(Sends, at)

Typed ==
  /\ workload \in {asked[1] : asked \in Asked}
  /\ stage \in {"refused", "idle", "running", "failed", "ended"}
  /\ at \in [Workers -> Places]
  /\ claims \in Nat /\ attempted \in Nat /\ busy \in Int /\ busiest \in Int

(* Every claim is an outcome, or in the hands of one worker; while nothing *)
(* stops the schedule a worker ends only when the claims are used up.      *)
CountInv ==
  stage = "running" =>
    /\ \A w \in Workers : at[w] = "off" <=> w \notin Crew
    /\ busy = Cardinality(Sending) /\ busiest <= Cardinality(Crew)
    /\ IF Corpus THEN attempted + Cardinality(Claimed) = Lesser(claims, Budget)
                 ELSE attempted + Cardinality(Claimed) + claims = Budget
    /\ due \/ cancelled \/ \A w \in Workers : at[w] = "joined" => Exhausted

ReportInv == ScheduleIsExact /\ (stage = "running" => ~report.made)

ScheduleInv == Typed /\ CountInv /\ ReportInv

LEMMA BudgetNat == Typed => Budget \in Nat /\ workload.concurrency \in Nat
BY AskedAssumption, FetchAssumption DEF Typed, Budget

LEMMA CrewOf ==
  Typed => /\ Crew \subseteq Workers /\ IsFiniteSet(Crew) /\ Cardinality(Crew) \in Nat /\ 0 \in Crew
<1> SUFFICES ASSUME Typed PROVE Crew \subseteq Workers /\ IsFiniteSet(Crew) /\ Cardinality(Crew) \in Nat /\ 0 \in Crew
  OBVIOUS
<1>1. Crew \subseteq Workers /\ 0 \in Crew
  BY BudgetNat, FetchAssumption DEF Crew, Greater
<1>2. IsFiniteSet(Crew)
  BY <1>1, FetchAssumption, FS_Subset
<1> QED
  BY <1>1, <1>2, FS_CardinalityType

(* The actions of a worker by what they do to the schedule.                *)
Ends(w) ==
  /\ at' = [at EXCEPT ![w] = "joined"] /\ at[w] \in {"loop", "claim"}
  /\ UNCHANGED <<attempted, busy, busiest>>
  /\ due \/ cancelled \/ stage # "running" \/ Exhausted
  /\ claims' = claims \/ (Corpus /\ Exhausted /\ claims' = claims + 1)
Looks(w) ==
  /\ at' = [at EXCEPT ![w] = "claim"] /\ at[w] = "loop"
  /\ UNCHANGED <<claims, attempted, busy, busiest>>
Takes(w) ==
  /\ at' = [at EXCEPT ![w] = "issue"] /\ at[w] = "claim" /\ ~Exhausted
  /\ claims' = IF Corpus THEN claims + 1 ELSE claims - 1
  /\ UNCHANGED <<attempted, busy, busiest>>
Skips(w) ==
  /\ at' = [at EXCEPT ![w] = "loop"] /\ at[w] = "issue" /\ attempted' = attempted + 1
  /\ UNCHANGED <<claims, busy, busiest>>
Sets(w) ==
  /\ at' = [at EXCEPT ![w] = "send"] /\ at[w] = "issue"
  /\ busy' = busy + 1 /\ busiest' = Greater(busiest, busy + 1)
  /\ UNCHANGED <<claims, attempted>>
Goes(w) ==
  /\ \E p \in Sends : at' = [at EXCEPT ![w] = p]
  /\ at[w] \in Sends
  /\ UNCHANGED <<claims, attempted, busy, busiest>>
Answers(w) ==
  /\ at' = [at EXCEPT ![w] = "loop"] /\ at[w] \in Sends
  /\ attempted' = attempted + 1 /\ busy' = busy - 1
  /\ UNCHANGED <<claims, busiest>>
Leaves(w) ==
  /\ stage # "running" /\ at' = [at EXCEPT ![w] = "joined"]
  /\ UNCHANGED <<claims, attempted, busy, busiest>>

LEMMA WorkerSteps ==
  ASSUME Typed, NEW w \in Workers, Worker(w)
  PROVE  /\ Ends(w) \/ Looks(w) \/ Takes(w) \/ Skips(w) \/ Sets(w) \/ Goes(w) \/ Answers(w) \/ Leaves(w)
         /\ UNCHANGED <<workload, stage, cancelled, due, report>>
<1> USE DEF setup, run, schedule, dials, Go, Sends
<1>1. CASE Check(w)
  BY <1>1 DEF Check, Told, Ends, Looks
<1>2. CASE Claim(w)
  <2>1. CASE Exhausted
    <3>1. claims' = IF Corpus THEN claims + 1 ELSE Greater(claims - 1, 0)
      BY <1>2 DEF Claim
    <3>2. ~Corpus => Greater(claims - 1, 0) = claims
      BY <2>1 DEF Exhausted, Greater
    <3> QED
      BY <1>2, <2>1, <3>1, <3>2 DEF Claim, Ends
  <2>2. CASE ~Exhausted
    <3>1. ~Corpus => claims # 0
      BY <2>2 DEF Exhausted
    <3>2. claims' = IF Corpus THEN claims + 1 ELSE Greater(claims - 1, 0)
      BY <1>2 DEF Claim
    <3>3. claims \in Nat
      BY DEF Typed
    <3>4. ~Corpus => Greater(claims - 1, 0) = claims - 1
      BY <3>1, <3>3 DEF Greater
    <3> QED
      BY <1>2, <2>2, <3>2, <3>4 DEF Claim, Takes
  <2> QED
    BY <2>1, <2>2
<1>3. CASE NotIssued(w)
  BY <1>3 DEF NotIssued, Note, Skips
<1>4. CASE Issue(w)
  BY <1>4 DEF Issue, Sets
<1>5. CASE Reuse(w) \/ Dial(w) \/ Wrapped(w)
  BY <1>5 DEF Reuse, Dial, Wrapped, Goes
<1>6. CASE DialSucceeds(w)
  BY <1>6 DEF DialSucceeds, Goes
<1>7. CASE DialFails(w) \/ WrapFails(w) \/ RequestFails(w) \/ Answered(w) \/ Interrupted(w)
  BY <1>7 DEF DialFails, WrapFails, RequestFails, Answered, Interrupted, Over, Note, Answers
<1>8. CASE Dropped(w)
  BY <1>8 DEF Dropped, Leaves
<1> QED
  BY <1>1, <1>2, <1>3, <1>4, <1>5, <1>6, <1>7, <1>8 DEF Worker

LEMMA InitSchedule == Init => ScheduleInv
<1> SUFFICES ASSUME Init PROVE ScheduleInv
  OBVIOUS
<1>1. Typed
  BY DEF Init, Typed, Places, Sends
<1>2. ~report.made /\ stage # "running"
  BY DEF Init, NoReport
<1> QED
  BY <1>1, <1>2 DEF ScheduleInv, CountInv, ReportInv, ScheduleIsExact

LEMMA TypedKept == Typed /\ [Next]_vars => Typed'
<1> SUFFICES ASSUME Typed, [Next]_vars PROVE Typed'
  OBVIOUS
<1>1. CASE Cancel \/ Expire \/ Finish \/ GiveUp \/ End
  BY <1>1 DEF Cancel, Expire, Finish, GiveUp, End, Typed, setup, run, schedule, dials
<1>2. CASE Begin
  BY <1>2, BudgetNat DEF Begin, Typed, setup, dials, Places, Sends
<1>3. ASSUME NEW w \in Workers, Worker(w) PROVE Typed'
  <2>1. UNCHANGED <<workload, stage>>
    BY <1>3, WorkerSteps
  <2>2. \E p \in Places : at' = [at EXCEPT ![w] = p]
    BY <1>3, WorkerSteps DEF Ends, Looks, Takes, Skips, Sets, Goes, Answers, Leaves, Places, Sends
  <2>3. /\ claims' \in Nat /\ attempted' \in Nat
        /\ busy' \in Int /\ busiest' \in Int
    BY <1>3, WorkerSteps
       DEF Typed, Ends, Looks, Takes, Skips, Sets, Goes, Answers, Leaves, Exhausted, Greater
  <2> QED
    BY <2>1, <2>2, <2>3 DEF Typed
<1>4. CASE vars' = vars
  BY <1>4 DEF vars, setup, Typed
<1> QED
  BY <1>1, <1>2, <1>3, <1>4 DEF Next

(* What a worker that moves does to the number of workers in places.       *)
After(n, places, p, q) == IF p \in places <=> q \in places THEN n ELSE IF q \in places THEN n + 1 ELSE n - 1

LEMMA Moves ==
  ASSUME Typed, NEW w \in Workers, NEW p \in Places, at' = [at EXCEPT ![w] = p], NEW places
  PROVE  /\ Cardinality(In(places, at)) \in Nat
         /\ Cardinality(In(places, at')) = After(Cardinality(In(places, at)), places, at[w], p)
<1> DEFINE S == In(places, at)
<1>1. IsFiniteSet(S)
  BY FetchAssumption, FS_Subset DEF In
<1>2. Cardinality(S) \in Nat
  BY <1>1, FS_CardinalityType
<1>3. /\ Cardinality(S \cup {w}) = IF w \in S THEN Cardinality(S) ELSE Cardinality(S) + 1
      /\ Cardinality(S \ {w}) = IF w \in S THEN Cardinality(S) - 1 ELSE Cardinality(S)
  BY <1>1, FS_AddElement, FS_RemoveElement
<1>4. In(places, at') = IF p \in places THEN S \cup {w} ELSE S \ {w}
  BY DEF In, Typed
<1>5. w \in S <=> at[w] \in places
  BY DEF In
<1> QED
  BY <1>2, <1>3, <1>4, <1>5 DEF After

LEMMA Counting ==
  ASSUME Typed, NEW w \in Workers, NEW p \in Places, at' = [at EXCEPT ![w] = p]
  PROVE  /\ Cardinality(Claimed) \in Nat /\ Cardinality(Sending) \in Nat
         /\ Cardinality(Claimed)' = After(Cardinality(Claimed), Sends \cup {"issue"}, at[w], p)
         /\ Cardinality(Sending)' = After(Cardinality(Sending), Sends, at[w], p)
<1> DEFINE S == Sends \cup {"issue"}
<1>1. /\ Cardinality(In(S, at)) \in Nat
      /\ Cardinality(In(S, at')) = After(Cardinality(In(S, at)), S, at[w], p)
  BY Moves
<1>2. /\ Cardinality(In(Sends, at)) \in Nat
      /\ Cardinality(In(Sends, at')) = After(Cardinality(In(Sends, at)), Sends, at[w], p)
  BY Moves
<1> QED
  BY <1>1, <1>2 DEF Claimed, Sending

LEMMA CountKept == ScheduleInv /\ [Next]_vars => CountInv'
<1> SUFFICES ASSUME ScheduleInv, [Next]_vars, stage' = "running" PROVE CountInv'
  BY DEF CountInv
<1>1. Typed /\ CountInv
  BY DEF ScheduleInv
<1>2. ASSUME UNCHANGED <<workload, stage, due, claims, at, attempted, busy, busiest>>, cancelled => cancelled'
      PROVE  CountInv'
  BY <1>1, <1>2 DEF CountInv, Claimed, Sending, In, Crew, Corpus, Budget, Exhausted
<1>3. CASE Cancel
  BY <1>2, <1>3 DEF Cancel, setup, schedule
<1>4. CASE Expire
  BY <1>1, <1>4 DEF Expire, setup, run, CountInv, Claimed, Sending, In, Crew, Corpus, Budget
<1>5. CASE Begin
  <2>1. /\ workload' = workload /\ attempted' = 0 /\ busy' = 0 /\ busiest' = 0
        /\ claims' = IF Corpus THEN 0 ELSE Budget
        /\ at' = [w \in Workers |-> IF w \in Crew THEN "loop" ELSE "off"]
    BY <1>5 DEF Begin, setup
  <2>2. Claimed' = {} /\ Sending' = {}
    BY <2>1 DEF Claimed, Sending, In, Sends
  <2>3. Budget' = Budget /\ Crew' = Crew /\ Corpus' = Corpus
    BY <2>1 DEF Budget, Crew, Corpus
  <2>4. \A w \in Workers : at'[w] = "off" <=> w \notin Crew
    BY <2>1
  <2>5. \A w \in Workers : at'[w] # "joined"
    BY <2>1
  <2>6. Cardinality(Claimed') = 0 /\ Cardinality(Sending') = 0
    BY <2>2, FS_EmptySet
  <2>7. Budget \in Nat /\ Cardinality(Crew) \in Nat
    BY <1>1, BudgetNat, CrewOf
  <2>8. Lesser(0, Budget) = 0
    BY <2>7 DEF Lesser
  <2> QED
    BY <2>1, <2>3, <2>4, <2>5, <2>6, <2>7, <2>8 DEF CountInv
<1>6. CASE Finish \/ GiveUp \/ End
  BY <1>6 DEF Finish, GiveUp, End
<1>7. ASSUME NEW w \in Workers, Worker(w) PROVE CountInv'
  <2>1. /\ Ends(w) \/ Looks(w) \/ Takes(w) \/ Skips(w) \/ Sets(w) \/ Goes(w) \/ Answers(w)
        /\ stage = "running" /\ UNCHANGED <<workload, stage, cancelled, due>>
    BY <1>1, <1>7, WorkerSteps DEF Leaves
  <2>2. PICK p \in Places : at' = [at EXCEPT ![w] = p]
    BY <2>1 DEF Ends, Looks, Takes, Skips, Sets, Goes, Answers, Places, Sends
  <2>3. Budget' = Budget /\ Crew' = Crew /\ Corpus' = Corpus
    BY <2>1 DEF Budget, Crew, Corpus
  <2> DEFINE claimed == Cardinality(Claimed)
             sending == Cardinality(Sending)
  <2>4. /\ \A v \in Workers : at[v] = "off" <=> v \notin Crew
        /\ busy = sending /\ busiest <= Cardinality(Crew)
        /\ IF Corpus THEN attempted + claimed = Lesser(claims, Budget)
                     ELSE attempted + claimed + claims = Budget
        /\ due \/ cancelled \/ \A v \in Workers : at[v] = "joined" => Exhausted
    BY <1>1, <2>1 DEF CountInv
  <2>5. /\ claimed \in Nat /\ sending \in Nat
        /\ claimed' = After(claimed, Sends \cup {"issue"}, at[w], p)
        /\ sending' = After(sending, Sends, at[w], p)
    BY <1>1, <2>1, <2>2, Counting
  <2>6. p = at'[w] /\ p # "off" /\ at[w] # "off" /\ at \in [Workers -> Places]
    BY <1>1, <2>1, <2>2 DEF Typed, Ends, Looks, Takes, Skips, Sets, Goes, Answers, Sends
  <2>7. \A v \in Workers : at'[v] = "off" <=> v \notin Crew
    BY <2>2, <2>4, <2>6
  <2>8. Budget \in Nat /\ Cardinality(Crew) \in Nat /\ claims \in Nat /\ attempted \in Nat /\ busiest \in Int
    BY <1>1, BudgetNat, CrewOf DEF Typed
  <2>9. sending' <= Cardinality(Crew)
    <3>1. Sending' \subseteq Crew
      BY <2>7 DEF Sending, In, Sends
    <3> QED
      BY <1>1, <3>1, CrewOf, FS_Subset
  <2>10. busy' = sending' /\ busiest' <= Cardinality(Crew)
    <3>1. CASE Sets(w)
      BY <2>4, <2>5, <2>6, <2>8, <2>9, <3>1 DEF Sets, Sends, Greater, After
    <3>2. CASE ~Sets(w)
      BY <2>1, <2>4, <2>5, <2>6, <2>8, <3>2 DEF Ends, Looks, Takes, Skips, Goes, Answers, Sends, After
    <3> QED
      BY <3>1, <3>2
  <2>11. IF Corpus THEN attempted' + claimed' = Lesser(claims', Budget)
                   ELSE attempted' + claimed' + claims' = Budget
    <3>1. CASE Ends(w)
      BY <2>4, <2>5, <2>6, <2>8, <3>1 DEF Ends, Sends, Exhausted, Lesser, After
    <3>2. CASE Takes(w)
      BY <2>4, <2>5, <2>6, <2>8, <3>2 DEF Takes, Sends, Exhausted, Lesser, After
    <3>3. CASE ~Ends(w) /\ ~Takes(w)
      BY <2>1, <2>4, <2>5, <2>6, <2>8, <3>3 DEF Looks, Skips, Sets, Goes, Answers, Sends, After
    <3> QED
      BY <3>1, <3>2, <3>3
  <2>12. due \/ cancelled \/ \A v \in Workers : at'[v] = "joined" => Exhausted'
    <3>1. Exhausted => Exhausted'
      BY <2>1, <2>3, <2>8 DEF Exhausted, Ends, Looks, Takes, Skips, Sets, Goes, Answers
    <3>2. at'[w] = "joined" => Exhausted \/ due \/ cancelled
      BY <2>1, <2>2, <2>6 DEF Ends, Looks, Takes, Skips, Sets, Goes, Answers, Sends
    <3> QED
      BY <2>2, <2>4, <2>6, <3>1, <3>2
  <2> QED
    BY <2>1, <2>3, <2>7, <2>10, <2>11, <2>12 DEF CountInv
<1>8. CASE vars' = vars
  BY <1>2, <1>8 DEF vars, setup
<1> QED
  BY <1>3, <1>4, <1>5, <1>6, <1>7, <1>8 DEF Next

LEMMA ReportKept == ScheduleInv /\ [Next]_vars => ReportInv'
<1> SUFFICES ASSUME ScheduleInv, [Next]_vars PROVE ReportInv'
  OBVIOUS
<1>1. Typed /\ CountInv /\ ReportInv
  BY DEF ScheduleInv
<1>2. ASSUME UNCHANGED <<workload, due, report>>, cancelled => cancelled', stage' = "running" => stage = "running"
      PROVE  ReportInv'
  BY <1>1, <1>2 DEF ReportInv, ScheduleIsExact, Budget, Crew
<1>3. CASE Cancel \/ GiveUp \/ End
  BY <1>2, <1>3 DEF Cancel, GiveUp, End, setup, schedule
<1>4. CASE Expire
  BY <1>1, <1>4 DEF Expire, setup, run, ReportInv, ScheduleIsExact
<1>5. CASE Begin
  BY <1>5 DEF Begin, NoReport, ReportInv, ScheduleIsExact
<1>6. CASE Finish
  <2>1. /\ stage = "running" /\ AllJoined /\ stage' = "idle"
        /\ UNCHANGED <<workload, due, cancelled>>
        /\ report'.made /\ report'.attempted = attempted /\ report'.busiest = busiest
    BY <1>6 DEF Finish, setup, schedule
  <2>2. Claimed = {}
    BY <1>1, <2>1 DEF AllJoined, Claimed, In, Sends
  <2>3. Cardinality(Claimed) = 0
    BY <2>2, FS_EmptySet
  <2>4. Budget \in Nat /\ claims \in Nat /\ attempted \in Nat
    BY <1>1, BudgetNat DEF Typed
  <2>5. attempted <= Budget
    BY <1>1, <2>1, <2>3, <2>4 DEF CountInv, Lesser
  <2>6. ASSUME ~due, ~cancelled PROVE attempted = Budget
    <3>1. at[0] = "joined"
      BY <1>1, <2>1, CrewOf, FetchAssumption DEF CountInv, AllJoined
    <3>2. Exhausted
      BY <1>1, <2>1, <2>6, <3>1, FetchAssumption DEF CountInv
    <3> QED
      BY <1>1, <2>1, <2>3, <2>4, <3>2 DEF CountInv, Exhausted, Lesser
  <2>7. busiest <= Cardinality(Crew)
    BY <1>1, <2>1 DEF CountInv
  <2>8. Budget' = Budget /\ Crew' = Crew
    BY <2>1 DEF Budget, Crew
  <2> QED
    BY <2>1, <2>5, <2>6, <2>7, <2>8 DEF ReportInv, ScheduleIsExact
<1>7. ASSUME NEW w \in Workers, Worker(w) PROVE ReportInv'
  BY <1>1, <1>2, <1>7, WorkerSteps
<1>8. CASE vars' = vars
  BY <1>2, <1>8 DEF vars, setup
<1> QED
  BY <1>3, <1>4, <1>5, <1>6, <1>7, <1>8 DEF Next

(* A schedule of so many requests is reported in full unless it was        *)
(* stopped, never in excess, never busier than its concurrency             *)
(* (run_closed_loop, run_http_corpus_schedule).                            *)
THEOREM SchedulesAreExact == Spec => []ScheduleIsExact
<1>1. ScheduleInv => ScheduleIsExact
  BY DEF ScheduleInv, ReportInv
<1>2. ScheduleInv /\ [Next]_vars => ScheduleInv'
  BY TypedKept, CountKept, ReportKept DEF ScheduleInv
<1> QED
  BY <1>1, <1>2, InitSchedule, PTL DEF Spec
-----------------------------------------------------------------------------
(* The diagnostics of a path. *)

(* The workers whose dial is open, and those between a dial and its        *)
(* wrapper.                                                                *)
Dialing == In({"dial"}, at)
Wrapping == In({"wrap"}, at)

Diagnostics ==
  [attempts : Nat, ok : Nat, wrapped : Nat, unwrapped : Nat, dropped : Nat,
   failures : [Labels -> Nat], hops : [0..MaxHops -> Nat], maxHops : Nat,
   min : Nat, max : Nat, start : Int, first : Int, last : Int]
Snapshots ==
  [attempts : Nat, ok : Nat, wrapped : Nat, unwrapped : Nat, dropped : Nat,
   failures : [Labels -> Nat], hops : [0..MaxHops -> Nat], maxHops : Nat,
   min : Nat, max : Nat, count : Nat]

DialsTyped ==
  /\ path \in {asked[2] : asked \in Asked}
  /\ ordinals \in [Workers -> Nat] /\ next \in Nat
  /\ diag \in Diagnostics /\ before \in Snapshots

(* Of the dials that took an ordinal some succeeded, some failed, some are *)
(* open and some were dropped; a successful one ends in its wrapper.       *)
Counters ==
  /\ diag.attempts = next
  /\ diag.ok + diag.dropped + Total(diag.failures) + Cardinality(Dialing) <= diag.attempts
  /\ IsFiniteSet(Units(diag.failures))
  /\ diag.wrapped + diag.unwrapped + Cardinality(Wrapping) = IF Faulty THEN diag.ok ELSE 0

(* What the dials of a path leave in its diagnostics.                      *)
Recorded ==
  /\ IsFiniteSet(Buckets(diag.failures)) /\ Cardinality(Buckets(diag.failures)) <= MaxBuckets
  /\ diag.hops = [h \in 0..MaxHops |-> IF h = Hops(path) THEN diag.ok ELSE 0]
  /\ diag.maxHops = IF diag.ok = 0 THEN 0 ELSE Hops(path)
  /\ diag.ok > 0 => diag.min <= diag.max

(* Nobody works between the invocations, nor after one that was reported.  *)
Quiet == stage \in {"idle", "refused"} \/ report.made => AllJoined

(* What a dial of this invocation adds to the failures.                    *)
NewFailures == Difference(diag.failures, before.failures)

(* The ordinals of the invocation's successful dials: as many as it        *)
(* counts, from the least to the greatest it noted, none of an open dial.  *)
Numbered(S) ==
  /\ IsFiniteSet(S) /\ Cardinality(S) = diag.ok - before.ok
  /\ S \subseteq Nat
  /\ \A s \in S : diag.start <= s /\ diag.first <= s /\ s <= diag.last /\ s < next
  /\ IF S = {} THEN diag.first = NoOrdinal /\ diag.last = NoOrdinal ELSE diag.first \in S /\ diag.last \in S
  /\ \A v \in Dialing :
       /\ ordinals[v] \notin S /\ diag.start <= ordinals[v] /\ ordinals[v] < next
       /\ \A w \in Dialing : ordinals[v] = ordinals[w] => v = w

Numbers == diag.start <= next /\ \E S \in SUBSET (diag.start..next) : Numbered(S)

(* An invocation's counters run on from its snapshot.                      *)
Since ==
  /\ before.attempts = diag.start
  /\ \A l \in Labels : before.failures[l] <= diag.failures[l]
  /\ IsFiniteSet(Units(NewFailures))
  /\ (diag.ok - before.ok) + (diag.dropped - before.dropped) + Total(NewFailures) + Cardinality(Dialing)
       <= diag.attempts - before.attempts
  /\ before.wrapped + before.unwrapped = IF Faulty THEN before.ok ELSE 0
  /\ reported = [attempts |-> before.attempts, ok |-> before.ok, ends |-> before.wrapped + before.unwrapped]

DeltaInv ==
  Routed =>
    /\ stage = "running" => Since /\ Numbers
    /\ stage = "idle" =>
         reported = [attempts |-> diag.attempts, ok |-> diag.ok, ends |-> diag.wrapped + diag.unwrapped]
    /\ DeltaIsTheInvocations

PathInv == Typed /\ DialsTyped /\ Counters /\ Recorded /\ Quiet

(* Sums of counts. *)
LEMMA NoUnits ==
  ASSUME NEW counts, \A x \in DOMAIN counts : counts[x] = 0
  PROVE  IsFiniteSet(Units(counts)) /\ Total(counts) = 0
<1>1. Units(counts) = {}
  BY DEF Units
<1> QED
  BY <1>1, FS_EmptySet DEF Total

LEMMA CountedOnce ==
  ASSUME NEW S, NEW f \in [S -> Nat], NEW x \in S
  PROVE  [f EXCEPT ![x] = @ + 1] \in [S -> Nat]
OBVIOUS

LEMMA OneMoreUnit ==
  ASSUME NEW S, NEW f \in [S -> Nat], NEW g \in [S -> Nat], IsFiniteSet(Units(f)),
         NEW x \in S, g[x] = f[x] + 1, \A y \in S \ {x} : g[y] = f[y]
  PROVE  IsFiniteSet(Units(g)) /\ Total(f) \in Nat /\ Total(g) = Total(f) + 1
<1> DEFINE new == <<x, f[x] + 1>>
<1>1. /\ DOMAIN f = S /\ DOMAIN g = S /\ g[x] = f[x] + 1
      /\ \A y \in S : y # x => g[y] = f[y]
  OBVIOUS
<1>2. \A n : n \in 1..g[x] <=> n \in 1..f[x] \/ n = f[x] + 1
  BY <1>1
<1>3. {x} \X (1..g[x]) = ({x} \X (1..f[x])) \cup {new}
  BY <1>2
<1>4. \A y \in S : y # x => {y} \X (1..g[y]) = {y} \X (1..f[y])
  BY <1>1
<1>5. Units(g) = Units(f) \cup {new}
  BY <1>1, <1>3, <1>4 DEF Units
<1>6. new \notin Units(f)
  BY <1>1 DEF Units
<1>7. Cardinality(Units(f)) \in Nat
  BY FS_CardinalityType
<1>8. IsFiniteSet(Units(f) \cup {new}) /\ Cardinality(Units(f) \cup {new}) = Cardinality(Units(f)) + 1
  BY <1>6, FS_AddElement
<1> QED
  BY <1>5, <1>7, <1>8 DEF Total

LEMMA UnitsOfOne ==
  ASSUME NEW S, NEW f \in [S -> Nat], NEW k \in S, \A x \in S : x # k => f[x] = 0
  PROVE  Total(f) = f[k]
<1> DEFINE n == f[k]
<1>1. \A x \in S : x # k => {x} \X (1..f[x]) = {}
  OBVIOUS
<1>2. Units(f) = {k} \X (1..n)
  BY <1>1 DEF Units
<1>3. IsFiniteSet({k}) /\ Cardinality({k}) = 1
  BY FS_Singleton
<1>4. n \in Nat
  OBVIOUS
<1> HIDE DEF n
<1>5. IsFiniteSet(1..n) /\ Cardinality(1..n) = n
  BY <1>4, FS_Interval
<1>6. Cardinality({k} \X (1..n)) = 1 * n
  BY <1>3, <1>5, FS_Product
<1> QED
  BY <1>2, <1>4, <1>6 DEF Total, n

(* What each record of the dialer does to its diagnostics. *)
LEMMA AttemptRecorded ==
  ASSUME NEW d \in Diagnostics, NEW e, e = RecordAttempt(d)
  PROVE  /\ e \in Diagnostics /\ e.attempts = d.attempts + 1
         /\ e.ok = d.ok /\ e.wrapped = d.wrapped /\ e.unwrapped = d.unwrapped /\ e.dropped = d.dropped
         /\ e.failures = d.failures /\ e.hops = d.hops /\ e.maxHops = d.maxHops /\ e.min = d.min
         /\ e.max = d.max /\ e.start = d.start /\ e.first = d.first /\ e.last = d.last
<1>1. d.attempts + 1 \in Nat
  BY DEF Diagnostics
<1>2. e \in Diagnostics
  BY <1>1 DEF RecordAttempt, Diagnostics
<1> QED
  BY <1>2 DEF RecordAttempt, Diagnostics

LEMMA WrapRecorded ==
  ASSUME NEW d \in Diagnostics, NEW e, e = RecordWrapped(d) \/ e = RecordUnwrapped(d)
  PROVE  /\ e \in Diagnostics /\ e.wrapped + e.unwrapped = d.wrapped + d.unwrapped + 1
         /\ e.attempts = d.attempts /\ e.ok = d.ok /\ e.dropped = d.dropped
         /\ e.failures = d.failures /\ e.hops = d.hops /\ e.maxHops = d.maxHops /\ e.min = d.min
         /\ e.max = d.max /\ e.start = d.start /\ e.first = d.first /\ e.last = d.last
<1>1. d.wrapped \in Nat /\ d.unwrapped \in Nat /\ d.wrapped + 1 \in Nat /\ d.unwrapped + 1 \in Nat
  BY DEF Diagnostics
<1>2. e \in Diagnostics
  BY <1>1 DEF RecordWrapped, RecordUnwrapped, Diagnostics
<1>3. \/ e.wrapped = d.wrapped + 1 /\ e.unwrapped = d.unwrapped
      \/ e.wrapped = d.wrapped /\ e.unwrapped = d.unwrapped + 1
  BY DEF RecordWrapped, RecordUnwrapped, Diagnostics
<1>4. e.wrapped + e.unwrapped = d.wrapped + d.unwrapped + 1
  BY <1>1, <1>3
<1> QED
  BY <1>2, <1>4 DEF RecordWrapped, RecordUnwrapped, Diagnostics

LEMMA FailureRecorded ==
  ASSUME NEW d \in Diagnostics, NEW l \in Labels, NEW e, e = RecordFailure(d, l)
  PROVE  /\ e \in Diagnostics
         /\ e.attempts = d.attempts /\ e.ok = d.ok /\ e.wrapped = d.wrapped /\ e.unwrapped = d.unwrapped
         /\ e.hops = d.hops /\ e.maxHops = d.maxHops /\ e.min = d.min
         /\ e.max = d.max /\ e.start = d.start /\ e.first = d.first /\ e.last = d.last
         /\ \/ /\ Cardinality(Buckets(d.failures)) < MaxBuckets \/ d.failures[l] > 0
               /\ e.failures = [d.failures EXCEPT ![l] = @ + 1] /\ e.dropped = d.dropped
            \/ e.failures = d.failures /\ e.dropped = d.dropped + 1
<1>1. /\ d.dropped + 1 \in Nat /\ d.failures \in [Labels -> Nat]
      /\ [d.failures EXCEPT ![l] = @ + 1] \in [Labels -> Nat]
  BY DEF Diagnostics
<1>2. CASE Cardinality(Buckets(d.failures)) < MaxBuckets \/ d.failures[l] > 0
  <2>1. e = [d EXCEPT !.failures = [d.failures EXCEPT ![l] = @ + 1]]
    BY <1>2 DEF RecordFailure, Diagnostics
  <2>2. e \in Diagnostics
    BY <1>1, <2>1 DEF Diagnostics
  <2> QED
    BY <1>2, <2>1, <2>2 DEF Diagnostics
<1>3. CASE ~(Cardinality(Buckets(d.failures)) < MaxBuckets \/ d.failures[l] > 0)
  <2>1. e = [d EXCEPT !.dropped = @ + 1]
    BY <1>3 DEF RecordFailure
  <2>2. e \in Diagnostics
    BY <1>1, <2>1 DEF Diagnostics
  <2> QED
    BY <2>1, <2>2 DEF Diagnostics
<1> QED
  BY <1>2, <1>3

LEMMA DialRecorded ==
  ASSUME NEW d \in Diagnostics, NEW hops \in 0..MaxHops, NEW ordinal \in Nat,
         NEW e, e = RecordDial(d, hops, ordinal)
  PROVE  /\ e \in Diagnostics /\ e.ok = d.ok + 1
         /\ e.hops = [d.hops EXCEPT ![hops] = @ + 1] /\ e.maxHops = Greater(d.maxHops, hops)
         /\ e.min = IF d.ok = 0 THEN ordinal ELSE Lesser(d.min, ordinal)
         /\ e.max = Greater(d.max, ordinal)
         /\ e.attempts = d.attempts /\ e.wrapped = d.wrapped /\ e.unwrapped = d.unwrapped
         /\ e.dropped = d.dropped /\ e.failures = d.failures /\ e.start = d.start
         /\ d.start # NoOrdinal /\ d.start <= ordinal =>
              /\ e.first = IF d.first = NoOrdinal THEN ordinal ELSE Lesser(d.first, ordinal)
              /\ e.last = IF d.last = NoOrdinal THEN ordinal ELSE Greater(d.last, ordinal)
<1> DEFINE mine == d.start # NoOrdinal /\ ordinal >= d.start
           min == IF d.ok = 0 THEN ordinal ELSE Lesser(d.min, ordinal)
           first == IF ~mine THEN d.first ELSE IF d.first = NoOrdinal THEN ordinal ELSE Lesser(d.first, ordinal)
           last == IF ~mine THEN d.last ELSE IF d.last = NoOrdinal THEN ordinal ELSE Greater(d.last, ordinal)
           hopsOf == [d.hops EXCEPT ![hops] = @ + 1]
<1>1. /\ d.ok \in Nat /\ d.min \in Nat /\ d.max \in Nat /\ d.maxHops \in Nat
      /\ d.start \in Int /\ d.first \in Int /\ d.last \in Int /\ d.hops \in [0..MaxHops -> Nat]
  BY DEF Diagnostics
<1>2. d.ok + 1 \in Nat /\ min \in Nat /\ Greater(d.max, ordinal) \in Nat
  BY <1>1 DEF Greater, Lesser
<1>3. first \in Int /\ last \in Int
  BY <1>1 DEF Greater, Lesser, NoOrdinal
<1>4. Greater(d.maxHops, hops) \in Nat
  BY <1>1, BucketsAssumption DEF Greater
<1>5. hopsOf \in [0..MaxHops -> Nat]
  BY <1>1, CountedOnce
<1> HIDE DEF mine, min, first, last, hopsOf
<1>6. e = [d EXCEPT !.ok = d.ok + 1, !.min = min, !.max = Greater(d.max, ordinal),
             !.first = first, !.last = last, !.maxHops = Greater(d.maxHops, hops), !.hops = hopsOf]
  BY DEF RecordDial, Diagnostics, mine, min, first, last, hopsOf
<1>7. e \in Diagnostics
  <2>1. [d EXCEPT !.ok = d.ok + 1, !.min = min, !.max = Greater(d.max, ordinal)] \in Diagnostics
    BY <1>2 DEF Diagnostics
  <2>2. ASSUME NEW c \in Diagnostics
        PROVE  [c EXCEPT !.first = first, !.last = last] \in Diagnostics
    BY <1>3 DEF Diagnostics
  <2>3. ASSUME NEW c \in Diagnostics
        PROVE  [c EXCEPT !.maxHops = Greater(d.maxHops, hops), !.hops = hopsOf] \in Diagnostics
    BY <1>4, <1>5 DEF Diagnostics
  <2>4. e = [[[d EXCEPT !.ok = d.ok + 1, !.min = min, !.max = Greater(d.max, ordinal)]
                EXCEPT !.first = first, !.last = last]
               EXCEPT !.maxHops = Greater(d.maxHops, hops), !.hops = hopsOf]
    BY <1>6 DEF Diagnostics
  <2> QED
    BY <2>1, <2>2, <2>3, <2>4
<1>8. /\ e.ok = d.ok + 1 /\ e.hops = hopsOf /\ e.maxHops = Greater(d.maxHops, hops)
      /\ e.min = min /\ e.max = Greater(d.max, ordinal) /\ e.first = first /\ e.last = last
      /\ e.attempts = d.attempts /\ e.wrapped = d.wrapped /\ e.unwrapped = d.unwrapped
      /\ e.dropped = d.dropped /\ e.failures = d.failures /\ e.start = d.start
  BY <1>6 DEF Diagnostics
<1>9. d.start <= ordinal => ordinal >= d.start
  BY <1>1
<1> QED
  BY <1>7, <1>8, <1>9 DEF mine, min, first, last, hopsOf

(* The same without the hops. *)
LEMMA DialCounted ==
  ASSUME NEW d \in Diagnostics, NEW hops \in 0..MaxHops, NEW ordinal \in Nat,
         NEW e, e = RecordDial(d, hops, ordinal)
  PROVE  /\ e.ok = d.ok + 1
         /\ e.attempts = d.attempts /\ e.wrapped = d.wrapped /\ e.unwrapped = d.unwrapped
         /\ e.dropped = d.dropped /\ e.failures = d.failures /\ e.start = d.start
         /\ d.start # NoOrdinal /\ d.start <= ordinal =>
              /\ e.first = IF d.first = NoOrdinal THEN ordinal ELSE Lesser(d.first, ordinal)
              /\ e.last = IF d.last = NoOrdinal THEN ordinal ELSE Greater(d.last, ordinal)
<1>1. /\ e.ok = d.ok + 1 /\ e.hops = [d.hops EXCEPT ![hops] = @ + 1]
      /\ e.attempts = d.attempts /\ e.wrapped = d.wrapped /\ e.unwrapped = d.unwrapped
      /\ e.dropped = d.dropped /\ e.failures = d.failures /\ e.start = d.start
      /\ d.start # NoOrdinal /\ d.start <= ordinal =>
           /\ e.first = IF d.first = NoOrdinal THEN ordinal ELSE Lesser(d.first, ordinal)
           /\ e.last = IF d.last = NoOrdinal THEN ordinal ELSE Greater(d.last, ordinal)
  BY DialRecorded
<1> QED
  BY <1>1

LEMMA InvocationBegun ==
  ASSUME NEW d \in Diagnostics, NEW n \in Nat, NEW e, e = BeginInvocation(d, n)
  PROVE  /\ e \in Diagnostics /\ e.start = n /\ e.first = NoOrdinal /\ e.last = NoOrdinal
         /\ e.attempts = d.attempts /\ e.ok = d.ok /\ e.wrapped = d.wrapped /\ e.unwrapped = d.unwrapped
         /\ e.dropped = d.dropped /\ e.failures = d.failures /\ e.hops = d.hops /\ e.maxHops = d.maxHops
         /\ e.min = d.min /\ e.max = d.max
<1>1. n \in Int /\ NoOrdinal \in Int
  BY DEF NoOrdinal
<1>2. e \in Diagnostics
  BY <1>1 DEF BeginInvocation, Diagnostics
<1> QED
  BY <1>2 DEF BeginInvocation, Diagnostics

LEMMA SnapshotTaken ==
  ASSUME NEW d \in Diagnostics, NEW s, s = Snapshot(d)
  PROVE  /\ s \in Snapshots
         /\ s.attempts = d.attempts /\ s.ok = d.ok /\ s.wrapped = d.wrapped /\ s.unwrapped = d.unwrapped
         /\ s.dropped = d.dropped /\ s.failures = d.failures /\ s.hops = d.hops /\ s.maxHops = d.maxHops
         /\ s.min = IF d.ok = 0 THEN 0 ELSE d.min
         /\ s.max = IF d.ok = 0 THEN 0 ELSE d.max
         /\ s.count = d.ok
BY DEF Snapshot, Diagnostics, Snapshots

(* The actions of a worker by what they do to the dials. *)
Opens(w) ==
  /\ at[w] = "send" /\ at' = [at EXCEPT ![w] = "dial"]
  /\ ordinals' = [ordinals EXCEPT ![w] = next] /\ next' = next + 1
  /\ diag' = RecordAttempt(diag)
Fails(w) ==
  /\ at[w] = "dial" /\ at' = [at EXCEPT ![w] = "loop"]
  /\ ordinals' = [ordinals EXCEPT ![w] = 0] /\ next' = next
  /\ \E l \in Labels : diag' = RecordFailure(diag, l)
Succeeds(w) ==
  /\ at[w] = "dial" /\ at' = [at EXCEPT ![w] = IF Faulty THEN "wrap" ELSE "answer"]
  /\ ordinals' = [ordinals EXCEPT ![w] = 0] /\ next' = next
  /\ diag' = RecordDial(diag, Hops(path), ordinals[w])
Wraps(w) ==
  /\ at[w] = "wrap" /\ \E p \in {"answer", "loop"} : at' = [at EXCEPT ![w] = p]
  /\ ordinals' = ordinals /\ next' = next
  /\ diag' = RecordWrapped(diag) \/ diag' = RecordUnwrapped(diag)
Passes(w) ==
  /\ at[w] # "wrap" /\ \E p \in Places \ {"dial", "wrap"} : at' = [at EXCEPT ![w] = p]
  /\ ordinals' = ordinals \/ ordinals' = [ordinals EXCEPT ![w] = 0]
  /\ next' = next /\ diag' = diag

LEMMA DialSteps ==
  ASSUME NEW w \in Workers, Worker(w)
  PROVE  /\ Opens(w) \/ Fails(w) \/ Succeeds(w) \/ Wraps(w) \/ Passes(w)
         /\ at[w] \notin {"off", "joined"}
         /\ UNCHANGED <<path, workload, stage, before, report, reported, evidence>>
<1> USE DEF setup, run, schedule, dials, Go
<1>1. CASE Check(w) \/ Claim(w)
  BY <1>1 DEF Check, Claim, Passes, Places, Sends
<1>2. CASE NotIssued(w) \/ Issue(w) \/ Reuse(w)
  BY <1>2 DEF NotIssued, Issue, Reuse, Passes, Places, Sends
<1>3. CASE Dial(w)
  BY <1>3 DEF Dial, Opens
<1>4. CASE DialFails(w)
  BY <1>4 DEF DialFails, Over, Fails
<1>5. CASE DialSucceeds(w)
  BY <1>5 DEF DialSucceeds, Succeeds
<1>6. CASE Wrapped(w) \/ WrapFails(w)
  BY <1>6 DEF Wrapped, WrapFails, Over, Wraps
<1>7. CASE RequestFails(w) \/ Answered(w) \/ Interrupted(w)
  BY <1>7 DEF RequestFails, Answered, Interrupted, Over, Passes, Places, Sends
<1>8. CASE Dropped(w)
  BY <1>8 DEF Dropped, Passes, Places, Sends
<1> QED
  BY <1>1, <1>2, <1>3, <1>4, <1>5, <1>6, <1>7, <1>8 DEF Worker

LEMMA PathOf ==
  ASSUME DialsTyped
  PROVE  Typable(path) /\ Hops(path) \in 0..MaxHops
BY AskedAssumption, BucketsAssumption DEF DialsTyped, Typable, Hops

LEMMA InNat == \A f, places : Cardinality(In(places, f)) \in Nat
<1> SUFFICES ASSUME NEW f, NEW places PROVE Cardinality(In(places, f)) \in Nat
  OBVIOUS
<1>1. IsFiniteSet(In(places, f))
  BY FetchAssumption, FS_Subset DEF In
<1> QED
  BY <1>1, FS_CardinalityType

LEMMA DialCounts ==
  ASSUME Typed, NEW w \in Workers, NEW p \in Places, at' = [at EXCEPT ![w] = p]
  PROVE  /\ Cardinality(Dialing) \in Nat /\ Cardinality(Wrapping) \in Nat
         /\ Cardinality(Dialing)' = After(Cardinality(Dialing), {"dial"}, at[w], p)
         /\ Cardinality(Wrapping)' = After(Cardinality(Wrapping), {"wrap"}, at[w], p)
         /\ Cardinality(Dialing)' \in Nat /\ Cardinality(Wrapping)' \in Nat
<1>1. /\ Cardinality(In({"dial"}, at)) \in Nat
      /\ Cardinality(In({"dial"}, at')) = After(Cardinality(In({"dial"}, at)), {"dial"}, at[w], p)
  BY Moves
<1>2. /\ Cardinality(In({"wrap"}, at)) \in Nat
      /\ Cardinality(In({"wrap"}, at')) = After(Cardinality(In({"wrap"}, at)), {"wrap"}, at[w], p)
  BY Moves
<1>3. Cardinality(In({"dial"}, at')) \in Nat /\ Cardinality(In({"wrap"}, at')) \in Nat
  BY InNat
<1> QED
  BY <1>1, <1>2, <1>3 DEF Dialing, Wrapping

LEMMA NoneAtWork ==
  ASSUME AllJoined
  PROVE  Dialing = {} /\ Wrapping = {} /\ Cardinality(Dialing) = 0 /\ Cardinality(Wrapping) = 0
<1>1. Dialing = {} /\ Wrapping = {}
  BY DEF AllJoined, Dialing, Wrapping, In
<1> QED
  BY <1>1, FS_EmptySet

LEMMA InitPath == Init => PathInv
<1> SUFFICES ASSUME Init PROVE PathInv
  OBVIOUS
<1>1. Typed
  BY InitSchedule DEF ScheduleInv
<1>2. AllJoined /\ Quiet
  BY DEF Init, AllJoined, Quiet
<1>3. NoDials \in Diagnostics
  BY BucketsAssumption DEF NoDials, Diagnostics, NoOrdinal
<1>4. Snapshot(NoDials) \in Snapshots
  BY <1>3, SnapshotTaken
<1>5. DialsTyped
  BY <1>3, <1>4 DEF Init, DialsTyped
<1>6. diag.ok = 0 /\ diag.attempts = 0 /\ diag.dropped = 0 /\ diag.wrapped = 0 /\ diag.unwrapped = 0
  BY DEF Init, NoDials
<1>7. /\ diag.failures = [l \in Labels |-> 0] /\ diag.hops = [h \in 0..MaxHops |-> 0] /\ diag.maxHops = 0
      /\ next = 0
  BY DEF Init, NoDials
<1>8. IsFiniteSet(Units(diag.failures)) /\ Total(diag.failures) = 0
  BY <1>7, NoUnits
<1>9. Counters
  BY <1>2, <1>6, <1>7, <1>8, NoneAtWork DEF Counters
<1>10. Buckets(diag.failures) = {}
  BY <1>7 DEF Buckets
<1>11. IsFiniteSet({}) /\ Cardinality({}) = 0
  BY FS_EmptySet
<1>12. diag.hops = [h \in 0..MaxHops |-> IF h = Hops(path) THEN diag.ok ELSE 0]
  BY <1>6, <1>7
<1>13. diag.maxHops = IF diag.ok = 0 THEN 0 ELSE Hops(path)
  BY <1>6, <1>7
<1>14. ~(diag.ok > 0)
  BY <1>6
<1>15. IsFiniteSet(Buckets(diag.failures)) /\ Cardinality(Buckets(diag.failures)) <= MaxBuckets
  BY <1>10, <1>11, BucketsAssumption
<1>16. Recorded
  BY <1>12, <1>13, <1>14, <1>15 DEF Recorded
<1> QED
  BY <1>1, <1>2, <1>5, <1>9, <1>16 DEF PathInv

LEMMA DialsTypedKept == Typed /\ DialsTyped /\ [Next]_vars => DialsTyped'
<1> SUFFICES ASSUME Typed, DialsTyped, [Next]_vars PROVE DialsTyped'
  OBVIOUS
<1>1. CASE Cancel \/ Expire \/ Finish \/ GiveUp \/ End
  BY <1>1 DEF Cancel, Expire, Finish, GiveUp, End, DialsTyped, setup, dials
<1>2. CASE Begin
  <2>1. path' = path /\ ordinals' = ordinals /\ next' = next /\ before' = Snapshot(diag)
    BY <1>2 DEF Begin, setup
  <2>2. diag' = BeginInvocation(diag, next) \/ diag' = diag
    BY <1>2 DEF Begin
  <2>3. diag' \in Diagnostics
    BY <2>2, InvocationBegun DEF DialsTyped
  <2>4. before' \in Snapshots
    BY <2>1, SnapshotTaken DEF DialsTyped
  <2> QED
    BY <2>1, <2>3, <2>4 DEF DialsTyped
<1>3. ASSUME NEW w \in Workers, Worker(w) PROVE DialsTyped'
  <2>1. /\ Opens(w) \/ Fails(w) \/ Succeeds(w) \/ Wraps(w) \/ Passes(w)
        /\ path' = path /\ before' = before
    BY <1>3, DialSteps
  <2>2. ordinals \in [Workers -> Nat] /\ next \in Nat /\ diag \in Diagnostics /\ Hops(path) \in 0..MaxHops
    BY PathOf DEF DialsTyped
  <2>3. ordinals' \in [Workers -> Nat] /\ next' \in Nat
    BY <2>1, <2>2 DEF Opens, Fails, Succeeds, Wraps, Passes
  <2>4. diag' \in Diagnostics
    <3>1. CASE Opens(w)
      BY <2>2, <3>1, AttemptRecorded DEF Opens
    <3>2. CASE Fails(w)
      BY <2>2, <3>2, FailureRecorded DEF Fails
    <3>3. CASE Succeeds(w)
      BY <2>2, <3>3, DialRecorded DEF Succeeds
    <3>4. CASE Wraps(w)
      BY <2>2, <3>4, WrapRecorded DEF Wraps
    <3>5. CASE Passes(w)
      BY <2>2, <3>5 DEF Passes
    <3> QED
      BY <2>1, <3>1, <3>2, <3>3, <3>4, <3>5
  <2> QED
    BY <2>1, <2>3, <2>4 DEF DialsTyped
<1>4. CASE vars' = vars
  BY <1>4 DEF vars, setup, DialsTyped
<1> QED
  BY <1>1, <1>2, <1>3, <1>4 DEF Next

LEMMA QuietKept == Quiet /\ [Next]_vars => Quiet'
<1> SUFFICES ASSUME Quiet, [Next]_vars PROVE Quiet'
  OBVIOUS
<1>1. CASE Cancel \/ Expire
  BY <1>1 DEF Cancel, Expire, setup, run, Quiet, AllJoined
<1>2. CASE Begin
  BY <1>2 DEF Begin, Quiet, NoReport
<1>3. CASE Finish \/ GiveUp \/ End
  BY <1>3 DEF Finish, GiveUp, End, Quiet, AllJoined
<1>4. ASSUME NEW w \in Workers, Worker(w) PROVE Quiet'
  BY <1>4, DialSteps DEF Quiet, AllJoined
<1>5. CASE vars' = vars
  BY <1>5 DEF vars, Quiet, AllJoined
<1> QED
  BY <1>1, <1>2, <1>3, <1>4, <1>5 DEF Next

LEMMA CountersKept ==
  ASSUME Typed, DialsTyped, DialsTyped', Quiet, Counters, [Next]_vars
  PROVE  Counters'
<1>1. ASSUME UNCHANGED <<path, at, next, diag>> PROVE Counters'
  BY <1>1 DEF Counters, Dialing, Wrapping, In, Faulty, Routed
<1>2. CASE Cancel \/ Expire \/ Finish \/ GiveUp \/ End
  BY <1>1, <1>2 DEF Cancel, Expire, Finish, GiveUp, End, setup, dials
<1>3. CASE Begin
  <2>1. path' = path /\ next' = next /\ Faulty' = Faulty
    BY <1>3 DEF Begin, setup, Faulty, Routed
  <2>2. diag' = BeginInvocation(diag, next) \/ diag' = diag
    BY <1>3 DEF Begin
  <2>3. /\ diag'.attempts = diag.attempts /\ diag'.ok = diag.ok /\ diag'.dropped = diag.dropped
        /\ diag'.failures = diag.failures /\ diag'.wrapped = diag.wrapped /\ diag'.unwrapped = diag.unwrapped
    BY <2>2, InvocationBegun DEF DialsTyped
  <2>4. AllJoined
    BY <1>3 DEF Begin, Quiet
  <2>5. Cardinality(Dialing) = 0 /\ Cardinality(Wrapping) = 0
    BY <2>4, NoneAtWork
  <2>6. Dialing' = {} /\ Wrapping' = {}
    BY <1>3 DEF Begin, Dialing, Wrapping, In
  <2>7. Cardinality(Dialing)' = 0 /\ Cardinality(Wrapping)' = 0
    BY <2>6, FS_EmptySet
  <2> QED
    BY <2>1, <2>3, <2>5, <2>7 DEF Counters
<1>4. ASSUME NEW w \in Workers, Worker(w) PROVE Counters'
  <2>1. /\ Opens(w) \/ Fails(w) \/ Succeeds(w) \/ Wraps(w) \/ Passes(w)
        /\ path' = path /\ Faulty' = Faulty
    BY <1>4, DialSteps DEF Faulty, Routed
  <2>2. PICK p \in Places : at' = [at EXCEPT ![w] = p]
    BY <2>1 DEF Opens, Fails, Succeeds, Wraps, Passes, Places, Sends
  <2> DEFINE dialing == Cardinality(Dialing)
             wrapping == Cardinality(Wrapping)
  <2>3. /\ dialing \in Nat /\ wrapping \in Nat /\ dialing' \in Nat /\ wrapping' \in Nat
        /\ dialing' = After(dialing, {"dial"}, at[w], p)
        /\ wrapping' = After(wrapping, {"wrap"}, at[w], p)
    BY <2>2, DialCounts
  <2>4. p = at'[w]
    BY <2>2 DEF Typed
  <2>5. /\ diag \in Diagnostics /\ Hops(path) \in 0..MaxHops /\ ordinals[w] \in Nat /\ next \in Nat
        /\ diag.failures \in [Labels -> Nat]
        /\ diag.attempts \in Nat /\ diag.ok \in Nat /\ diag.dropped \in Nat
        /\ diag.wrapped \in Nat /\ diag.unwrapped \in Nat
    BY PathOf DEF DialsTyped, Diagnostics
  <2>6. /\ diag.attempts = next /\ IsFiniteSet(Units(diag.failures))
        /\ diag.ok + diag.dropped + Total(diag.failures) + dialing <= diag.attempts
        /\ diag.wrapped + diag.unwrapped + wrapping = IF Faulty THEN diag.ok ELSE 0
    BY DEF Counters
  <2>7. Total(diag.failures) \in Nat
    BY <2>6, FS_CardinalityType DEF Total
  <2> HIDE DEF dialing, wrapping
  <2> SUFFICES
        /\ diag'.attempts = next' /\ IsFiniteSet(Units(diag'.failures))
        /\ diag'.ok + diag'.dropped + Total(diag'.failures) + dialing' <= diag'.attempts
        /\ diag'.wrapped + diag'.unwrapped + wrapping' = IF Faulty THEN diag'.ok ELSE 0
    BY <2>1 DEF Counters, dialing, wrapping
  <2>8. CASE Opens(w)
    <3>1. /\ diag'.attempts = diag.attempts + 1 /\ next' = next + 1
          /\ diag'.ok = diag.ok /\ diag'.dropped = diag.dropped /\ diag'.failures = diag.failures
          /\ diag'.wrapped = diag.wrapped /\ diag'.unwrapped = diag.unwrapped
      BY <2>5, <2>8, AttemptRecorded DEF Opens
    <3>2. at[w] = "send" /\ p = "dial"
      BY <2>4, <2>8 DEF Opens, Typed
    <3>3. dialing' = dialing + 1 /\ wrapping' = wrapping
      BY <2>3, <3>2 DEF After
    <3>4. /\ diag'.attempts = next' /\ IsFiniteSet(Units(diag'.failures))
          /\ Total(diag'.failures) = Total(diag.failures)
      BY <2>5, <2>6, <3>1
    <3>5. diag'.ok + diag'.dropped + Total(diag.failures) + dialing' <= diag'.attempts
      BY <2>3, <2>5, <2>6, <2>7, <3>1, <3>3
    <3>6. diag'.wrapped + diag'.unwrapped + wrapping' = IF Faulty THEN diag'.ok ELSE 0
      BY <2>3, <2>5, <2>6, <3>1, <3>3
    <3> QED
      BY <3>4, <3>5, <3>6
  <2>9. CASE Fails(w)
    <3>1. PICK l \in Labels : diag' = RecordFailure(diag, l)
      BY <2>9 DEF Fails
    <3>2. /\ diag'.attempts = diag.attempts /\ next' = next /\ diag'.ok = diag.ok
          /\ diag'.wrapped = diag.wrapped /\ diag'.unwrapped = diag.unwrapped
          /\ \/ diag'.failures = [diag.failures EXCEPT ![l] = @ + 1] /\ diag'.dropped = diag.dropped
             \/ diag'.failures = diag.failures /\ diag'.dropped = diag.dropped + 1
      BY <2>5, <2>9, <3>1, FailureRecorded DEF Fails
    <3>3. at[w] = "dial" /\ p = "loop"
      BY <2>4, <2>9 DEF Fails, Typed
    <3>4. dialing' = dialing - 1 /\ wrapping' = wrapping
      BY <2>3, <3>3 DEF After
    <3>5. ASSUME diag'.failures = [diag.failures EXCEPT ![l] = @ + 1] /\ diag'.dropped = diag.dropped
          PROVE  /\ IsFiniteSet(Units(diag'.failures))
                 /\ diag'.ok + diag'.dropped + Total(diag'.failures) + dialing' <= diag'.attempts
      <4>1. IsFiniteSet(Units(diag'.failures)) /\ Total(diag'.failures) = Total(diag.failures) + 1
        <5>1. /\ diag'.failures \in [Labels -> Nat] /\ diag'.failures[l] = diag.failures[l] + 1
              /\ \A k \in Labels \ {l} : diag'.failures[k] = diag.failures[k]
          BY <2>5, <3>5
        <5> QED
          BY <2>5, <2>6, <5>1, OneMoreUnit
      <4> QED
        <5>1. diag'.ok = diag.ok /\ diag'.dropped = diag.dropped /\ diag'.attempts = diag.attempts
          BY <3>2, <3>5
        <5>2. diag'.ok + diag'.dropped + Total(diag'.failures) + dialing' <= diag'.attempts
          BY <2>3, <2>5, <2>6, <2>7, <3>4, <4>1, <5>1
        <5> QED
          BY <4>1, <5>2
    <3>6. ASSUME diag'.failures = diag.failures /\ diag'.dropped = diag.dropped + 1
          PROVE  /\ IsFiniteSet(Units(diag'.failures))
                 /\ diag'.ok + diag'.dropped + Total(diag'.failures) + dialing' <= diag'.attempts
      <4>1. IsFiniteSet(Units(diag'.failures)) /\ Total(diag'.failures) = Total(diag.failures)
        BY <2>6, <3>6
      <4> QED
        <5>1. diag'.ok = diag.ok /\ diag'.attempts = diag.attempts
          BY <3>2
        <5>2. diag'.ok + diag'.dropped + Total(diag'.failures) + dialing' <= diag'.attempts
          BY <2>3, <2>5, <2>6, <2>7, <3>4, <3>6, <4>1, <5>1
        <5> QED
          BY <4>1, <5>2
    <3>7. /\ IsFiniteSet(Units(diag'.failures))
          /\ diag'.ok + diag'.dropped + Total(diag'.failures) + dialing' <= diag'.attempts
      BY <3>2, <3>5, <3>6
    <3>8. diag'.attempts = next'
      BY <2>6, <3>2
    <3>9. diag'.wrapped + diag'.unwrapped + wrapping' = IF Faulty THEN diag'.ok ELSE 0
      BY <2>6, <3>2, <3>4
    <3> QED
      BY <3>7, <3>8, <3>9
  <2>10. CASE Succeeds(w)
    <3>1. /\ diag'.attempts = diag.attempts /\ next' = next /\ diag'.ok = diag.ok + 1
          /\ diag'.wrapped = diag.wrapped /\ diag'.unwrapped = diag.unwrapped
          /\ diag'.failures = diag.failures /\ diag'.dropped = diag.dropped
      <4>1. diag' = RecordDial(diag, Hops(path), ordinals[w]) /\ next' = next
        BY <2>10 DEF Succeeds
      <4>2. diag \in Diagnostics /\ Hops(path) \in 0..MaxHops /\ ordinals[w] \in Nat
        BY <2>5
      <4>3. /\ diag'.attempts = diag.attempts /\ diag'.ok = diag.ok + 1
            /\ diag'.wrapped = diag.wrapped /\ diag'.unwrapped = diag.unwrapped
            /\ diag'.failures = diag.failures /\ diag'.dropped = diag.dropped
        BY <4>1, <4>2, DialCounted
      <4> QED
        BY <4>1, <4>3
    <3>2. at[w] = "dial" /\ p = IF Faulty THEN "wrap" ELSE "answer"
      BY <2>4, <2>10 DEF Succeeds, Typed
    <3>3. dialing' = dialing - 1 /\ wrapping' = IF Faulty THEN wrapping + 1 ELSE wrapping
      BY <2>3, <3>2 DEF After
    <3>4. /\ diag'.attempts = next' /\ IsFiniteSet(Units(diag'.failures))
          /\ Total(diag'.failures) = Total(diag.failures)
      BY <2>5, <2>6, <3>1
    <3>5. diag'.ok + diag'.dropped + Total(diag.failures) + dialing' <= diag'.attempts
      BY <2>3, <2>5, <2>6, <2>7, <3>1, <3>3
    <3>6. diag'.wrapped + diag'.unwrapped + wrapping' = IF Faulty THEN diag'.ok ELSE 0
      BY <2>3, <2>5, <2>6, <3>1, <3>3
    <3> QED
      BY <3>4, <3>5, <3>6
  <2>11. CASE Wraps(w)
    <3>1. /\ diag'.attempts = diag.attempts /\ next' = next /\ diag'.ok = diag.ok
          /\ diag'.wrapped + diag'.unwrapped = diag.wrapped + diag.unwrapped + 1
          /\ diag'.failures = diag.failures /\ diag'.dropped = diag.dropped
      BY <2>5, <2>11, WrapRecorded DEF Wraps
    <3>2. at[w] = "wrap" /\ p \in {"answer", "loop"}
      BY <2>4, <2>11 DEF Wraps, Typed
    <3>3. dialing' = dialing /\ wrapping' = wrapping - 1
      BY <2>3, <3>2 DEF After
    <3>4. Faulty
      BY <2>3, <2>5, <2>6, <3>3
    <3>5. /\ diag'.attempts = next' /\ IsFiniteSet(Units(diag'.failures))
          /\ Total(diag'.failures) = Total(diag.failures)
      BY <2>5, <2>6, <3>1
    <3>6. diag'.ok + diag'.dropped + Total(diag.failures) + dialing' <= diag'.attempts
      BY <2>3, <2>5, <2>6, <2>7, <3>1, <3>3, <3>4
    <3>7. diag'.wrapped + diag'.unwrapped + wrapping' = IF Faulty THEN diag'.ok ELSE 0
      BY <2>3, <2>5, <2>6, <3>1, <3>3, <3>4
    <3> QED
      BY <3>5, <3>6, <3>7
  <2>12. CASE Passes(w)
    <3>1. diag' = diag /\ next' = next
      BY <2>12 DEF Passes
    <3>2. at[w] # "wrap" /\ p \notin {"dial", "wrap"}
      BY <2>4, <2>12 DEF Passes, Typed
    <3>3. dialing' <= dialing /\ wrapping' = wrapping
      BY <2>3, <3>2 DEF After
    <3>4. /\ diag'.attempts = next' /\ IsFiniteSet(Units(diag'.failures))
          /\ Total(diag'.failures) = Total(diag.failures)
      BY <2>5, <2>6, <3>1
    <3>5. diag'.ok + diag'.dropped + Total(diag.failures) + dialing' <= diag'.attempts
      BY <2>3, <2>5, <2>6, <2>7, <3>1, <3>3
    <3>6. diag'.wrapped + diag'.unwrapped + wrapping' = IF Faulty THEN diag'.ok ELSE 0
      BY <2>3, <2>5, <2>6, <3>1, <3>3
    <3> QED
      BY <3>4, <3>5, <3>6
  <2> QED
    BY <2>1, <2>8, <2>9, <2>10, <2>11, <2>12
<1>5. CASE vars' = vars
  BY <1>1, <1>5 DEF vars, setup
<1> QED
  BY <1>2, <1>3, <1>4, <1>5 DEF Next

LEMMA RecordedKept ==
  ASSUME Typed, DialsTyped, DialsTyped', Recorded, [Next]_vars
  PROVE  Recorded'
<1>1. ASSUME UNCHANGED <<path, diag>> PROVE Recorded'
  BY <1>1 DEF Recorded
<1>2. CASE Cancel \/ Expire \/ Finish \/ GiveUp \/ End
  BY <1>1, <1>2 DEF Cancel, Expire, Finish, GiveUp, End, setup, dials
<1>3. ASSUME path' = path, diag'.ok = diag.ok, diag'.failures = diag.failures, diag'.hops = diag.hops,
             diag'.maxHops = diag.maxHops, diag'.min = diag.min, diag'.max = diag.max
      PROVE  Recorded'
  BY <1>3 DEF Recorded
<1>4. CASE Begin
  <2>1. path' = path /\ (diag' = BeginInvocation(diag, next) \/ diag' = diag)
    BY <1>4 DEF Begin, setup
  <2>2. diag \in Diagnostics /\ next \in Nat
    BY DEF DialsTyped
  <2> QED
    BY <1>3, <2>1, <2>2, InvocationBegun
<1>5. ASSUME NEW w \in Workers, Worker(w) PROVE Recorded'
  <2>1. /\ Opens(w) \/ Fails(w) \/ Succeeds(w) \/ Wraps(w) \/ Passes(w)
        /\ path' = path
    BY <1>5, DialSteps
  <2>2. /\ diag \in Diagnostics /\ Hops(path) \in 0..MaxHops /\ ordinals[w] \in Nat /\ next \in Nat
        /\ diag.failures \in [Labels -> Nat] /\ diag.hops \in [0..MaxHops -> Nat]
        /\ diag.ok \in Nat /\ diag.min \in Nat /\ diag.max \in Nat /\ diag.maxHops \in Nat
    BY PathOf DEF DialsTyped, Diagnostics
  <2>3. CASE Opens(w)
    BY <1>3, <2>1, <2>2, <2>3, AttemptRecorded DEF Opens
  <2>4. CASE Wraps(w)
    BY <1>3, <2>1, <2>2, <2>4, WrapRecorded DEF Wraps
  <2>5. CASE Passes(w)
    BY <1>1, <2>1, <2>5 DEF Passes
  <2>6. CASE Fails(w)
    <3>1. PICK l \in Labels : diag' = RecordFailure(diag, l)
      BY <2>6 DEF Fails
    <3>2. /\ diag'.ok = diag.ok /\ diag'.hops = diag.hops /\ diag'.maxHops = diag.maxHops
          /\ diag'.min = diag.min /\ diag'.max = diag.max
          /\ \/ /\ Cardinality(Buckets(diag.failures)) < MaxBuckets \/ diag.failures[l] > 0
                /\ diag'.failures = [diag.failures EXCEPT ![l] = @ + 1]
             \/ diag'.failures = diag.failures
      BY <2>2, <3>1, FailureRecorded
    <3>3. CASE diag'.failures = diag.failures
      BY <1>3, <2>1, <3>2, <3>3
    <3>4. CASE /\ Cardinality(Buckets(diag.failures)) < MaxBuckets \/ diag.failures[l] > 0
               /\ diag'.failures = [diag.failures EXCEPT ![l] = @ + 1]
      <4> DEFINE B == Buckets(diag.failures)
      <4>1. Buckets(diag'.failures) = B \cup {l} /\ (diag.failures[l] > 0 <=> l \in B)
        BY <2>2, <3>4 DEF Buckets
      <4>2. IsFiniteSet(B) /\ Cardinality(B) <= MaxBuckets
        BY DEF Recorded
      <4>3. Cardinality(B) \in Nat /\ MaxBuckets \in Nat
        BY <4>2, FS_CardinalityType, BucketsAssumption
      <4>4. /\ IsFiniteSet(B \cup {l})
            /\ Cardinality(B \cup {l}) = IF l \in B THEN Cardinality(B) ELSE Cardinality(B) + 1
        BY <4>2, FS_AddElement
      <4>5. IsFiniteSet(Buckets(diag'.failures)) /\ Cardinality(Buckets(diag'.failures)) <= MaxBuckets
        BY <3>4, <4>1, <4>2, <4>3, <4>4
      <4> QED
        BY <2>1, <3>2, <4>5 DEF Recorded
    <3> QED
      BY <3>2, <3>3, <3>4
  <2>7. CASE Succeeds(w)
    <3> DEFINE ordinal == ordinals[w]
    <3>1. /\ diag'.ok = diag.ok + 1 /\ diag'.failures = diag.failures
          /\ diag'.hops = [diag.hops EXCEPT ![Hops(path)] = @ + 1]
          /\ diag'.maxHops = Greater(diag.maxHops, Hops(path))
          /\ diag'.min = IF diag.ok = 0 THEN ordinal ELSE Lesser(diag.min, ordinal)
          /\ diag'.max = Greater(diag.max, ordinal)
      BY <2>2, <2>7, DialRecorded DEF Succeeds
    <3>2. /\ diag.hops = [h \in 0..MaxHops |-> IF h = Hops(path) THEN diag.ok ELSE 0]
          /\ diag.maxHops = IF diag.ok = 0 THEN 0 ELSE Hops(path)
          /\ diag.ok > 0 => diag.min <= diag.max
      BY DEF Recorded
    <3>3. diag'.hops = [h \in 0..MaxHops |-> IF h = Hops(path) THEN diag'.ok ELSE 0]
      BY <2>2, <3>1, <3>2
    <3>4. diag'.maxHops = Hops(path) /\ diag'.ok > 0
      BY <2>2, <3>1, <3>2, BucketsAssumption DEF Greater
    <3>5. diag'.min <= diag'.max
      BY <2>2, <3>1, <3>2 DEF Greater, Lesser
    <3>6. diag'.ok # 0
      BY <2>2, <3>1
    <3> QED
      BY <2>1, <3>1, <3>3, <3>4, <3>5, <3>6 DEF Recorded
  <2> QED
    BY <2>1, <2>3, <2>4, <2>5, <2>6, <2>7
<1>6. CASE vars' = vars
  BY <1>1, <1>6 DEF vars, setup
<1> QED
  BY <1>2, <1>4, <1>5, <1>6 DEF Next

LEMMA PathKept == PathInv /\ [Next]_vars => PathInv'
<1> SUFFICES ASSUME PathInv, [Next]_vars PROVE PathInv'
  OBVIOUS
<1>1. Typed' /\ DialsTyped'
  BY TypedKept, DialsTypedKept DEF PathInv
<1> QED
  BY <1>1, CountersKept, RecordedKept, QuietKept DEF PathInv

-----------------------------------------------------------------------------
(* The evidence of a run. *)

LEMMA PathsAreLowered ==
  ASSUME Typable(path), Accepted(path, TRUE), Resolves(path)
  PROVE  Lowers(path, TRUE)
<1>1. Pinned(path) /\ Contract(path)
  BY DEF Accepted, Resolves
<1>2. path.mode = "chain" => RouteParses(path.chain)
  BY <1>1 DEF Contract, HopOk, RouteParses
<1>3. ASSUME NEW list \in {path.faults.up, path.faults.down} PROVE LowersFaults(list)
  <2>1. FaultsOk(list)
    BY <1>1 DEF Contract
  <2>2. \A i \in DOMAIN list : list[i].average \in Nat /\ list[i].variation \in Nat
    BY DEF Typable
  <2>3. \A i \in DOMAIN list : LowersKind(list[i])
    BY <2>1, <2>2 DEF FaultsOk, LowersKind
  <2> QED
    BY <2>1, <2>3 DEF FaultsOk, LowersFaults
<1> QED
  BY <1>1, <1>2, <1>3 DEF Lowers

LEMMA HighestOf ==
  ASSUME NEW top \in 0..MaxHops, NEW n \in Nat,
         NEW hops, hops = [h \in 0..MaxHops |-> IF h = top THEN n ELSE 0]
  PROVE  Highest(hops) = IF n = 0 THEN 0 ELSE top
<1>1. {h \in DOMAIN hops : hops[h] > 0} = IF n = 0 THEN {} ELSE {top}
  BY BucketsAssumption
<1> DEFINE S == {0} \cup {h \in DOMAIN hops : hops[h] > 0}
           m == IF n = 0 THEN 0 ELSE top
<1>2. m \in S /\ (\A y \in S : m >= y) /\ S \subseteq Int
  BY <1>1, BucketsAssumption
<1>3. \A x \in S : (\A y \in S : x >= y) => x = m
  BY <1>2
<1>4. Max(S) \in S /\ \A y \in S : Max(S) >= y
  BY <1>2 DEF Max
<1>5. Max(S) = m
  BY <1>3, <1>4
<1> QED
  BY <1>5 DEF Highest

(* The counting laws hold of the diagnostics whenever no dial is between   *)
(* its success and its wrapper.                                            *)
LEMMA LawsHold ==
  ASSUME PathInv, Routed, Wrapping = {}, NEW e, e = Evidence(path, Seed, Snapshot(diag))
  PROVE  DiagnosticsMatch(e)
<1>1. diag \in Diagnostics /\ Hops(path) \in 0..MaxHops
  BY PathOf DEF PathInv, DialsTyped
<1> DEFINE s == Snapshot(diag)
<1>2. e.diagnostics = s /\ e.hops = Hops(path) /\ (Active(e) <=> Faulty)
  BY DEF Evidence, Active, Faulty, HasFaults
<1>3. /\ s.attempts = diag.attempts /\ s.ok = diag.ok /\ s.wrapped = diag.wrapped /\ s.unwrapped = diag.unwrapped
      /\ s.dropped = diag.dropped /\ s.failures = diag.failures /\ s.hops = diag.hops /\ s.maxHops = diag.maxHops
      /\ s.min = IF diag.ok = 0 THEN 0 ELSE diag.min
      /\ s.max = IF diag.ok = 0 THEN 0 ELSE diag.max
      /\ s.count = diag.ok
  BY <1>1, SnapshotTaken
<1>4. /\ diag.attempts \in Nat /\ diag.ok \in Nat /\ diag.dropped \in Nat /\ diag.wrapped \in Nat
      /\ diag.unwrapped \in Nat /\ diag.min \in Nat /\ diag.max \in Nat
  BY <1>1 DEF Diagnostics
<1>5. Total(diag.failures) \in Nat /\ Cardinality(Dialing) \in Nat
  BY InNat, FS_CardinalityType DEF PathInv, Counters, Total, Dialing
<1>6. diag.dropped <= diag.attempts /\ diag.ok <= diag.attempts
  BY <1>4, <1>5 DEF PathInv, Counters
<1>7. diag.wrapped + diag.unwrapped = IF Faulty THEN diag.ok ELSE 0
  <2>1. Cardinality(Wrapping) = 0
    BY FS_EmptySet
  <2> QED
    BY <1>4, <2>1 DEF PathInv, Counters
<1>8. /\ diag.hops = [h \in 0..MaxHops |-> IF h = Hops(path) THEN diag.ok ELSE 0]
      /\ diag.maxHops = IF diag.ok = 0 THEN 0 ELSE Hops(path)
      /\ diag.ok > 0 => diag.min <= diag.max
      /\ Cardinality(Buckets(diag.failures)) <= MaxBuckets
  BY DEF PathInv, Recorded
<1>9. \A h \in DOMAIN diag.hops : diag.hops[h] > 0 => h <= Hops(path)
  BY <1>1, <1>4, <1>8
<1>10. Total(diag.hops) = diag.ok
  <2>1. diag.hops \in [0..MaxHops -> Nat] /\ diag.hops[Hops(path)] = diag.ok
    BY <1>1, <1>8 DEF Diagnostics
  <2>2. \A h \in 0..MaxHops : h # Hops(path) => diag.hops[h] = 0
    BY <1>8
  <2>3. Total(diag.hops) = diag.hops[Hops(path)]
    BY <1>1, <2>1, <2>2, UnitsOfOne
  <2> QED
    BY <2>1, <2>3
<1>11. diag.maxHops = Highest(diag.hops)
  BY <1>1, <1>4, <1>8, HighestOf
<1>12. s.min <= s.max
  BY <1>3, <1>4, <1>8
<1> HIDE DEF s
<1> QED
  BY <1>2, <1>3, <1>6, <1>7, <1>8, <1>9, <1>10, <1>11, <1>12 DEF DiagnosticsMatch

LEMMA EvidenceIsValid ==
  ASSUME PathInv, Routed, Wrapping = {}, NEW e, e = Evidence(path, Seed, Snapshot(diag))
  PROVE  Valid(e) /\ Stored(e, path, Seed)
<1>1. DiagnosticsMatch(e)
  BY LawsHold
<1>2. /\ e.mode = path.mode /\ e.route = path.chain /\ e.hops = Hops(path) /\ e.faults = path.faults
      /\ e.canonical = (IF path.mode = "direct" THEN <<>> ELSE Canonical(path.chain))
      /\ e.driver = path.faults.planned /\ e.seed = IF HasFaults(path) THEN Seed ELSE NoSeed
  BY DEF Evidence
<1>3. Active(e) <=> HasFaults(path)
  BY <1>2 DEF Active, HasFaults
<1>4. CanonicalMatches(e)
  BY <1>2 DEF CanonicalMatches, Hops
<1>5. Seed # NoSeed
  BY DEF Seed, NoSeed
<1> QED
  BY <1>1, <1>2, <1>3, <1>4, <1>5 DEF Valid, Stored

(* A path the plan accepts is lowered and the evidence of its run passes   *)
(* both its readers, unless it was read inside a dropped dial's poll       *)
(* (SharedPathDiagnostics, NetworkPathEvidence::validate,                  *)
(* stored_diagnostics_match).                                              *)
THEOREM EvidenceIsAccepted == Spec => []EvidenceAccepted
<1>1. Init => EvidenceAccepted
  <2> SUFFICES ASSUME Init PROVE EvidenceAccepted
    OBVIOUS
  <2>1. DialsTyped
    BY InitPath DEF PathInv
  <2>2. Routed => Lowers(path, TRUE)
    BY <2>1, PathOf, PathsAreLowered DEF Init
  <2> QED
    BY <2>2 DEF Init, EvidenceAccepted, NoEvidence
<1>2. PathInv /\ EvidenceAccepted /\ [Next]_vars => EvidenceAccepted'
  <2> SUFFICES ASSUME PathInv, EvidenceAccepted, [Next]_vars PROVE EvidenceAccepted'
    OBVIOUS
  <2>1. ASSUME UNCHANGED <<path, evidence>>, stage' # "refused" PROVE EvidenceAccepted'
    BY <2>1 DEF EvidenceAccepted
  <2>2. CASE Cancel \/ Expire \/ Begin \/ Finish \/ GiveUp
    BY <2>1, <2>2 DEF Cancel, Expire, Begin, Finish, GiveUp, setup, run
  <2>3. CASE End
    <3>1. path' = path /\ stage' = "ended"
      BY <2>3 DEF End, setup
    <3>2. CASE ~Routed
      BY <2>3, <3>1, <3>2 DEF End, NoEvidence, EvidenceAccepted
    <3>3. CASE Routed
      <4>1. /\ evidence'.json = Evidence(path, Seed, Snapshot(diag))
            /\ evidence'.inPoll = (\E w \in Workers : at[w] = "wrap")
        BY <2>3, <3>3 DEF End
      <4>2. evidence'.inPoll \/ Wrapping = {}
        BY <4>1 DEF Wrapping, In
      <4>3. Wrapping = {} => Valid(evidence'.json) /\ Stored(evidence'.json, path, Seed)
        BY <3>3, <4>1, EvidenceIsValid
      <4> QED
        BY <3>1, <4>2, <4>3 DEF EvidenceAccepted
    <3> QED
      BY <3>2, <3>3
  <2>4. ASSUME NEW w \in Workers, Worker(w) PROVE EvidenceAccepted'
    BY <2>1, <2>4, DialSteps DEF EvidenceAccepted
  <2>5. CASE vars' = vars
    BY <2>1, <2>5 DEF vars, setup, EvidenceAccepted
  <2> QED
    BY <2>2, <2>3, <2>4, <2>5 DEF Next
<1> QED
  BY <1>1, <1>2, InitPath, PathKept, PTL DEF Spec

-----------------------------------------------------------------------------
(* The delta of an invocation. *)

LEMMA DeltaOf ==
  ASSUME NEW d \in Diagnostics, NEW b \in Snapshots, NEW r, r = Delta(d, b)
  PROVE  /\ r.attempts = d.attempts - b.attempts /\ r.ok = d.ok - b.ok
         /\ r.wrapped = d.wrapped - b.wrapped /\ r.unwrapped = d.unwrapped - b.unwrapped
         /\ r.dropped = d.dropped - b.dropped /\ r.failures = Difference(d.failures, b.failures)
         /\ r.min = IF d.ok - b.ok = 0 THEN 0 ELSE Known(d.first)
         /\ r.max = IF d.ok - b.ok = 0 THEN 0 ELSE Known(d.last)
BY DEF Delta, Snapshot

LEMMA CountsTyped ==
  ASSUME PathInv
  PROVE  /\ diag \in Diagnostics /\ before \in Snapshots /\ next \in Nat /\ ordinals \in [Workers -> Nat]
         /\ diag.attempts \in Nat /\ diag.ok \in Nat /\ diag.dropped \in Nat
         /\ diag.wrapped \in Nat /\ diag.unwrapped \in Nat
         /\ diag.start \in Int /\ diag.first \in Int /\ diag.last \in Int
         /\ diag.failures \in [Labels -> Nat] /\ before.failures \in [Labels -> Nat]
         /\ before.attempts \in Nat /\ before.ok \in Nat /\ before.dropped \in Nat
         /\ before.wrapped \in Nat /\ before.unwrapped \in Nat
BY DEF PathInv, DialsTyped, Diagnostics, Snapshots

LEMMA DifferenceOf ==
  ASSUME NEW f \in [Labels -> Nat], NEW b \in [Labels -> Nat], \A l \in Labels : b[l] <= f[l]
  PROVE  /\ Difference(f, b) \in [Labels -> Nat]
         /\ \A l \in Labels : Difference(f, b)[l] = f[l] - b[l]
BY DEF Difference, Greater

LEMMA SinceKept ==
  ASSUME PathInv, Since, NEW w \in Workers, Worker(w), PathInv', UNCHANGED reported
  PROVE  Since'
<1>1. /\ Opens(w) \/ Fails(w) \/ Succeeds(w) \/ Wraps(w) \/ Passes(w)
      /\ path' = path /\ Faulty' = Faulty /\ before' = before
  BY DialSteps DEF Faulty, Routed
<1>2. PICK p \in Places : at' = [at EXCEPT ![w] = p]
  BY <1>1 DEF Opens, Fails, Succeeds, Wraps, Passes, Places, Sends
<1> DEFINE dialing == Cardinality(Dialing)
<1>3. dialing \in Nat /\ dialing' \in Nat /\ dialing' = After(dialing, {"dial"}, at[w], p)
  BY <1>2, DialCounts DEF PathInv
<1>4. p = at'[w]
  BY <1>2 DEF PathInv, Typed
<1>5. /\ diag \in Diagnostics /\ before \in Snapshots /\ next \in Nat /\ ordinals[w] \in Nat
      /\ diag.attempts \in Nat /\ diag.ok \in Nat /\ diag.dropped \in Nat /\ diag.start \in Int
      /\ diag.failures \in [Labels -> Nat] /\ before.failures \in [Labels -> Nat]
      /\ before.attempts \in Nat /\ before.ok \in Nat /\ before.dropped \in Nat
      /\ Hops(path) \in 0..MaxHops
  BY CountsTyped, PathOf DEF PathInv
<1>6. /\ before.attempts = diag.start /\ \A l \in Labels : before.failures[l] <= diag.failures[l]
      /\ IsFiniteSet(Units(NewFailures))
      /\ (diag.ok - before.ok) + (diag.dropped - before.dropped) + Total(NewFailures) + dialing
           <= diag.attempts - before.attempts
  BY DEF Since
<1>7. Total(NewFailures) \in Nat
  BY <1>6, FS_CardinalityType DEF Total
<1> HIDE DEF dialing
<1> SUFFICES
      /\ diag'.start = diag.start /\ \A l \in Labels : before.failures[l] <= diag'.failures[l]
      /\ IsFiniteSet(Units(NewFailures'))
      /\ (diag'.ok - before.ok) + (diag'.dropped - before.dropped) + Total(NewFailures') + dialing'
           <= diag'.attempts - before.attempts
  BY <1>1, <1>6 DEF Since, dialing
<1>8. ASSUME diag'.failures = diag.failures PROVE NewFailures' = NewFailures
  BY <1>1, <1>8 DEF NewFailures
<1>9. CASE Opens(w)
  <2>1. diag' = RecordAttempt(diag) /\ at[w] = "send" /\ p = "dial"
    BY <1>4, <1>9 DEF Opens, PathInv, Typed
  <2>2. /\ diag'.attempts = diag.attempts + 1 /\ diag'.ok = diag.ok /\ diag'.dropped = diag.dropped
        /\ diag'.failures = diag.failures /\ diag'.start = diag.start
    BY <1>5, <2>1, AttemptRecorded
  <2>3. dialing' = dialing + 1
    BY <1>3, <2>1 DEF After
  <2> QED
    BY <1>3, <1>5, <1>6, <1>7, <1>8, <2>2, <2>3
<1>10. CASE Fails(w)
  <2>1. PICK l \in Labels : diag' = RecordFailure(diag, l)
    BY <1>10 DEF Fails
  <2>2. at[w] = "dial" /\ p = "loop"
    BY <1>4, <1>10 DEF Fails, PathInv, Typed
  <2>3. /\ diag'.attempts = diag.attempts /\ diag'.ok = diag.ok /\ diag'.start = diag.start
        /\ \/ diag'.failures = [diag.failures EXCEPT ![l] = @ + 1] /\ diag'.dropped = diag.dropped
           \/ diag'.failures = diag.failures /\ diag'.dropped = diag.dropped + 1
    BY <1>5, <2>1, FailureRecorded
  <2>4. dialing' = dialing - 1
    BY <1>3, <2>2 DEF After
  <2>5. CASE diag'.failures = diag.failures /\ diag'.dropped = diag.dropped + 1
    BY <1>3, <1>5, <1>6, <1>7, <1>8, <2>3, <2>4, <2>5
  <2>6. CASE diag'.failures = [diag.failures EXCEPT ![l] = @ + 1] /\ diag'.dropped = diag.dropped
    <3>1. diag'.failures \in [Labels -> Nat] /\ \A k \in Labels : before.failures[k] <= diag'.failures[k]
      BY <1>5, <1>6, <2>6
    <3>2. /\ NewFailures \in [Labels -> Nat]
          /\ \A k \in Labels : NewFailures[k] = diag.failures[k] - before.failures[k]
      BY <1>5, <1>6, DifferenceOf DEF NewFailures
    <3>3. /\ NewFailures' \in [Labels -> Nat]
          /\ \A k \in Labels : NewFailures'[k] = diag'.failures[k] - before.failures[k]
      BY <1>1, <1>5, <3>1, DifferenceOf DEF NewFailures
    <3>4. NewFailures'[l] = NewFailures[l] + 1 /\ \A k \in Labels \ {l} : NewFailures'[k] = NewFailures[k]
      BY <1>5, <2>6, <3>2, <3>3
    <3>5. IsFiniteSet(Units(NewFailures')) /\ Total(NewFailures') = Total(NewFailures) + 1
      BY <1>6, <3>2, <3>3, <3>4, OneMoreUnit
    <3> QED
      BY <1>3, <1>5, <1>6, <1>7, <2>3, <2>4, <2>6, <3>1, <3>5
  <2> QED
    BY <2>3, <2>5, <2>6
<1>11. CASE Succeeds(w)
  <2>1. diag' = RecordDial(diag, Hops(path), ordinals[w]) /\ at[w] = "dial" /\ p \in {"wrap", "answer"}
    BY <1>4, <1>11 DEF Succeeds, PathInv, Typed
  <2>2. /\ diag'.attempts = diag.attempts /\ diag'.ok = diag.ok + 1 /\ diag'.dropped = diag.dropped
        /\ diag'.failures = diag.failures /\ diag'.start = diag.start
    BY <1>5, <2>1, DialCounted
  <2>3. dialing' = dialing - 1
    BY <1>3, <2>1 DEF After
  <2> QED
    BY <1>3, <1>5, <1>6, <1>7, <1>8, <2>2, <2>3
<1>12. CASE Wraps(w)
  <2>1. /\ diag' = RecordWrapped(diag) \/ diag' = RecordUnwrapped(diag)
        /\ at[w] = "wrap" /\ p \in {"answer", "loop"}
    BY <1>4, <1>12 DEF Wraps, PathInv, Typed
  <2>2. /\ diag'.attempts = diag.attempts /\ diag'.ok = diag.ok /\ diag'.dropped = diag.dropped
        /\ diag'.failures = diag.failures /\ diag'.start = diag.start
    BY <1>5, <2>1, WrapRecorded
  <2>3. dialing' = dialing
    BY <1>3, <2>1 DEF After
  <2> QED
    BY <1>3, <1>5, <1>6, <1>7, <1>8, <2>2, <2>3
<1>13. CASE Passes(w)
  <2>1. diag' = diag /\ p \notin {"dial", "wrap"}
    BY <1>4, <1>13 DEF Passes, PathInv, Typed
  <2>2. dialing' <= dialing
    BY <1>3, <2>1 DEF After
  <2> QED
    BY <1>3, <1>5, <1>6, <1>7, <1>8, <2>1, <2>2
<1> QED
  BY <1>1, <1>9, <1>10, <1>11, <1>12, <1>13

LEMMA NumbersKept ==
  ASSUME PathInv, Since, Numbers, NEW w \in Workers, Worker(w), PathInv'
  PROVE  Numbers'
<1>1. /\ Opens(w) \/ Fails(w) \/ Succeeds(w) \/ Wraps(w) \/ Passes(w)
      /\ before' = before
  BY DialSteps
<1>2. /\ diag \in Diagnostics /\ next \in Nat /\ ordinals \in [Workers -> Nat]
      /\ diag.start \in Nat /\ diag.first \in Int /\ diag.last \in Int /\ diag.ok \in Nat
      /\ before.ok \in Nat /\ Hops(path) \in 0..MaxHops /\ at \in [Workers -> Places]
  BY CountsTyped, PathOf DEF PathInv, Since, Typed
<1>3. PICK S \in SUBSET (diag.start..next) : Numbered(S)
  BY DEF Numbers
<1>4. diag.start <= next
  BY DEF Numbers
<1>5. \A v : v \in Dialing <=> v \in Workers /\ at[v] = "dial"
  BY DEF Dialing, In
<1>6. \A v : v \in Dialing' <=> v \in Workers /\ at'[v] = "dial"
  BY DEF Dialing, In
<1>7. ASSUME Dialing' \subseteq Dialing, \A v \in Dialing' : ordinals'[v] = ordinals[v], next' = next,
             diag'.start = diag.start, diag'.first = diag.first, diag'.last = diag.last, diag'.ok = diag.ok
      PROVE  Numbers'
  <2>1. Numbered(S)'
    BY <1>1, <1>3, <1>7 DEF Numbered
  <2> QED
    BY <1>3, <1>4, <1>7, <2>1 DEF Numbers
<1>8. CASE Fails(w)
  <2>1. PICK l \in Labels : diag' = RecordFailure(diag, l)
    BY <1>8 DEF Fails
  <2>2. diag'.start = diag.start /\ diag'.first = diag.first /\ diag'.last = diag.last /\ diag'.ok = diag.ok
    BY <1>2, <2>1, FailureRecorded
  <2>3. /\ at' = [at EXCEPT ![w] = "loop"] /\ ordinals' = [ordinals EXCEPT ![w] = 0] /\ next' = next
    BY <1>8 DEF Fails
  <2>4. Dialing' \subseteq Dialing /\ \A v \in Dialing' : ordinals'[v] = ordinals[v]
    BY <1>2, <1>5, <1>6, <2>3
  <2> QED
    BY <1>7, <2>2, <2>3, <2>4
<1>9. CASE Wraps(w)
  <2>1. diag' = RecordWrapped(diag) \/ diag' = RecordUnwrapped(diag)
    BY <1>9 DEF Wraps
  <2>2. diag'.start = diag.start /\ diag'.first = diag.first /\ diag'.last = diag.last /\ diag'.ok = diag.ok
    BY <1>2, <2>1, WrapRecorded
  <2>3. /\ \E p \in {"answer", "loop"} : at' = [at EXCEPT ![w] = p]
        /\ ordinals' = ordinals /\ next' = next
    BY <1>9 DEF Wraps
  <2>4. Dialing' \subseteq Dialing
    BY <1>2, <1>5, <1>6, <2>3
  <2> QED
    BY <1>7, <2>2, <2>3, <2>4
<1>10. CASE Passes(w)
  <2>1. /\ \E p \in Places \ {"dial", "wrap"} : at' = [at EXCEPT ![w] = p]
        /\ ordinals' = ordinals \/ ordinals' = [ordinals EXCEPT ![w] = 0]
        /\ next' = next /\ diag' = diag
    BY <1>10 DEF Passes
  <2>2. Dialing' \subseteq Dialing /\ \A v \in Dialing' : ordinals'[v] = ordinals[v]
    BY <1>2, <1>5, <1>6, <2>1
  <2> QED
    BY <1>7, <2>1, <2>2
<1>11. CASE Opens(w)
  <2>1. diag' = RecordAttempt(diag)
    BY <1>11 DEF Opens
  <2>2. diag'.start = diag.start /\ diag'.first = diag.first /\ diag'.last = diag.last /\ diag'.ok = diag.ok
    BY <1>2, <2>1, AttemptRecorded
  <2>3. /\ at' = [at EXCEPT ![w] = "dial"] /\ ordinals' = [ordinals EXCEPT ![w] = next] /\ next' = next + 1
        /\ at[w] = "send"
    BY <1>11 DEF Opens
  <2>4. /\ Dialing' = Dialing \cup {w} /\ w \notin Dialing /\ ordinals'[w] = next
        /\ \A v \in Dialing : ordinals'[v] = ordinals[v]
    BY <1>2, <1>5, <1>6, <2>3
  <2>5. /\ \A s \in S : diag.start <= s /\ diag.first <= s /\ s <= diag.last /\ s < next /\ s \in Nat
        /\ \A v \in Dialing : ordinals[v] \notin S /\ diag.start <= ordinals[v] /\ ordinals[v] < next
        /\ \A v, u \in Dialing : ordinals[v] = ordinals[u] => v = u
    BY <1>3 DEF Numbered
  <2>6. next \notin S
    BY <1>2, <2>5
  <2>7. \A v \in Dialing' : ordinals'[v] \notin S /\ diag.start <= ordinals'[v] /\ ordinals'[v] < next'
    BY <1>2, <1>4, <1>5, <2>3, <2>4, <2>5, <2>6
  <2>8. \A v, u \in Dialing' : ordinals'[v] = ordinals'[u] => v = u
    BY <1>2, <1>5, <2>4, <2>5
  <2>9. \A s \in S : diag.start <= s /\ diag.first <= s /\ s <= diag.last /\ s < next'
    BY <1>2, <2>3, <2>5
  <2>10. Numbered(S)'
    BY <1>1, <1>3, <2>2, <2>7, <2>8, <2>9 DEF Numbered
  <2>11. S \in SUBSET (diag'.start..next') /\ diag'.start <= next'
    BY <1>2, <1>3, <1>4, <2>2, <2>3
  <2> QED
    BY <2>10, <2>11 DEF Numbers
<1>12. CASE Succeeds(w)
  <2>0. PICK o, T : o = ordinals[w] /\ T = S \cup {o}
    OBVIOUS
  <2>1. /\ diag' = RecordDial(diag, Hops(path), o) /\ at[w] = "dial"
        /\ at' = [at EXCEPT ![w] = IF Faulty THEN "wrap" ELSE "answer"]
        /\ ordinals' = [ordinals EXCEPT ![w] = 0] /\ next' = next
    BY <1>12, <2>0 DEF Succeeds
  <2>2. o \in Nat /\ w \in Dialing
    BY <1>2, <1>5, <2>0, <2>1
  <2>3. /\ IsFiniteSet(S) /\ Cardinality(S) = diag.ok - before.ok /\ S \subseteq Nat
        /\ \A s \in S : diag.start <= s /\ diag.first <= s /\ s <= diag.last /\ s < next
        /\ IF S = {} THEN diag.first = NoOrdinal /\ diag.last = NoOrdinal ELSE diag.first \in S /\ diag.last \in S
        /\ \A v \in Dialing : ordinals[v] \notin S /\ diag.start <= ordinals[v] /\ ordinals[v] < next
        /\ \A v, u \in Dialing : ordinals[v] = ordinals[u] => v = u
    BY <1>3 DEF Numbered
  <2>4. o \notin S /\ diag.start <= o /\ o < next
    BY <2>0, <2>2, <2>3
  <2>5. diag.start # NoOrdinal
    BY <1>2 DEF NoOrdinal
  <2>6. /\ diag'.ok = diag.ok + 1 /\ diag'.start = diag.start
        /\ diag'.first = IF diag.first = NoOrdinal THEN o ELSE Lesser(diag.first, o)
        /\ diag'.last = IF diag.last = NoOrdinal THEN o ELSE Greater(diag.last, o)
    BY <1>2, <2>1, <2>2, <2>4, <2>5, DialCounted
  <2>7. IsFiniteSet(T) /\ Cardinality(T) = diag'.ok - before.ok
    <3>1. IsFiniteSet(T) /\ Cardinality(T) = Cardinality(S) + 1
      BY <2>0, <2>3, <2>4, FS_AddElement
    <3> QED
      BY <1>2, <2>3, <2>6, <3>1
  <2>8. /\ T \subseteq Nat /\ T # {} /\ diag'.first \in T /\ diag'.last \in T
        /\ \A s \in T : diag.start <= s /\ diag'.first <= s /\ s <= diag'.last /\ s < next
    <3>1. CASE S = {}
      BY <2>0, <2>2, <2>3, <2>4, <2>6, <3>1
    <3>2. CASE S # {}
      <4>1. diag.first \in S /\ diag.last \in S /\ diag.first # NoOrdinal /\ diag.last # NoOrdinal
        <5>1. NoOrdinal \notin Nat
          BY DEF NoOrdinal
        <5> QED
          BY <2>3, <3>2, <5>1
      <4>2. diag'.first = Lesser(diag.first, o) /\ diag'.last = Greater(diag.last, o)
        BY <2>6, <4>1
      <4>3. diag.first \in Nat /\ diag.last \in Nat
        BY <2>3, <4>1
      <4>4. diag'.first \in T /\ diag'.last \in T
        BY <2>0, <4>1, <4>2 DEF Lesser, Greater
      <4>5. diag'.first <= o /\ o <= diag'.last /\ diag'.first <= diag.first /\ diag.last <= diag'.last
        BY <2>2, <4>2, <4>3 DEF Lesser, Greater
      <4>6. diag'.first \in Nat /\ diag'.last \in Nat /\ T \subseteq Nat
        BY <2>0, <2>2, <2>3, <4>4
      <4>7. \A s \in S : diag'.first <= s /\ s <= diag'.last
        BY <1>2, <2>3, <4>3, <4>5, <4>6
      <4> QED
        BY <1>2, <2>0, <2>3, <2>4, <4>4, <4>5, <4>6, <4>7
    <3> QED
      BY <3>1, <3>2
  <2>9. Dialing' = Dialing \ {w} /\ \A v \in Dialing' : ordinals'[v] = ordinals[v]
    BY <1>2, <1>5, <1>6, <2>1
  <2>10. \A v \in Dialing' : ordinals'[v] \notin T /\ diag.start <= ordinals'[v] /\ ordinals'[v] < next
    BY <2>0, <2>2, <2>3, <2>9
  <2>11. \A v, u \in Dialing' : ordinals'[v] = ordinals'[u] => v = u
    BY <2>3, <2>9
  <2>12. Numbered(T)'
    BY <1>1, <1>2, <2>1, <2>6, <2>7, <2>8, <2>10, <2>11 DEF Numbered
  <2>13. T \in SUBSET (diag'.start..next') /\ diag'.start <= next'
    BY <1>2, <1>4, <2>1, <2>6, <2>8
  <2> QED
    BY <2>12, <2>13 DEF Numbers
<1> QED
  BY <1>1, <1>8, <1>9, <1>10, <1>11, <1>12

LEMMA SinceBegun ==
  ASSUME PathInv, DeltaInv, Routed, Begin
  PROVE  Since' /\ Numbers'
<1>1. /\ path' = path /\ next' = next /\ reported' = reported /\ before' = Snapshot(diag)
      /\ diag' = BeginInvocation(diag, next) /\ stage = "idle"
  BY DEF Begin, setup
<1>2. /\ diag \in Diagnostics /\ next \in Nat /\ diag.ok \in Nat /\ diag.attempts \in Nat /\ diag.dropped \in Nat
      /\ diag.wrapped \in Nat /\ diag.unwrapped \in Nat /\ diag.failures \in [Labels -> Nat]
  BY CountsTyped
<1>3. /\ diag'.start = next /\ diag'.first = NoOrdinal /\ diag'.last = NoOrdinal
      /\ diag'.attempts = diag.attempts /\ diag'.ok = diag.ok /\ diag'.dropped = diag.dropped
      /\ diag'.failures = diag.failures
  <2>1. diag' = BeginInvocation(diag, next) /\ diag \in Diagnostics /\ next \in Nat
    BY <1>1, <1>2
  <2> QED
    BY <2>1, InvocationBegun
<1>4. /\ before'.attempts = diag.attempts /\ before'.ok = diag.ok /\ before'.dropped = diag.dropped
      /\ before'.wrapped = diag.wrapped /\ before'.unwrapped = diag.unwrapped
      /\ before'.failures = diag.failures
  BY <1>1, <1>2, SnapshotTaken
<1>5. Dialing' = {} /\ Wrapping' = {}
  BY DEF Begin, Dialing, Wrapping, In
<1>6. Cardinality(Dialing') = 0
  BY <1>5, FS_EmptySet
<1>7. Cardinality(Wrapping) = 0
  <2>1. AllJoined
    BY <1>1 DEF PathInv, Quiet
  <2> QED
    BY <2>1, NoneAtWork
<1>8. diag.attempts = next /\ diag.wrapped + diag.unwrapped = IF Faulty THEN diag.ok ELSE 0
  BY <1>2, <1>7 DEF PathInv, Counters
<1>9. \A x \in DOMAIN NewFailures' : NewFailures'[x] = 0
  BY <1>2, <1>3, <1>4 DEF NewFailures, Difference, Greater
<1>10. IsFiniteSet(Units(NewFailures')) /\ Total(NewFailures') = 0
  BY <1>9, NoUnits
<1>11. reported = [attempts |-> diag.attempts, ok |-> diag.ok, ends |-> diag.wrapped + diag.unwrapped]
  BY <1>1 DEF DeltaInv
<1>12. Since'
  <2>1. before'.attempts = diag'.start /\ \A l \in Labels : before'.failures[l] <= diag'.failures[l]
    BY <1>2, <1>3, <1>4, <1>8
  <2>2. (diag'.ok - before'.ok) + (diag'.dropped - before'.dropped) + Total(NewFailures') + Cardinality(Dialing')
          <= diag'.attempts - before'.attempts
    BY <1>2, <1>3, <1>4, <1>6, <1>10
  <2>3. Faulty' = Faulty
    BY <1>1 DEF Faulty, Routed
  <2>4. reported' = [attempts |-> before'.attempts, ok |-> before'.ok, ends |-> before'.wrapped + before'.unwrapped]
    BY <1>1, <1>4, <1>11
  <2>5. before'.wrapped + before'.unwrapped = IF Faulty' THEN before'.ok ELSE 0
    BY <1>4, <1>8, <2>3
  <2> QED
    BY <1>10, <2>1, <2>2, <2>4, <2>5 DEF Since
<1>13. Numbers'
  <2>1. PICK S : S = {}
    OBVIOUS
  <2>2. IsFiniteSet(S) /\ Cardinality(S) = 0
    BY <2>1, FS_EmptySet
  <2>3. Cardinality(S) = diag'.ok - before'.ok
    BY <1>2, <1>3, <1>4, <2>2
  <2>4. Numbered(S)'
    BY <1>3, <1>5, <2>1, <2>2, <2>3 DEF Numbered
  <2>5. diag'.start <= next'
    BY <1>1, <1>2, <1>3
  <2> QED
    BY <2>1, <2>4, <2>5 DEF Numbers
<1> QED
  BY <1>12, <1>13

LEMMA DeltaReported ==
  ASSUME PathInv, DeltaInv, Routed, Finish
  PROVE  /\ DeltaIsTheInvocations'
         /\ reported' = [attempts |-> diag.attempts, ok |-> diag.ok, ends |-> diag.wrapped + diag.unwrapped]
<1> DEFINE d == Delta(diag, before)
<1>1. /\ path' = path /\ diag' = diag /\ next' = next /\ stage = "running" /\ AllJoined
      /\ report'.delta = d /\ report'.next = next
      /\ reported' = [attempts |-> reported.attempts + d.attempts, ok |-> reported.ok + d.ok,
                      ends |-> reported.ends + d.wrapped + d.unwrapped]
  BY DEF Finish, setup, dials
<1>2. /\ diag \in Diagnostics /\ before \in Snapshots /\ next \in Nat /\ diag.ok \in Nat /\ diag.attempts \in Nat
      /\ diag.dropped \in Nat /\ diag.wrapped \in Nat /\ diag.unwrapped \in Nat
      /\ diag.start \in Int /\ diag.first \in Int /\ diag.last \in Int
      /\ before.ok \in Nat /\ before.attempts \in Nat /\ before.dropped \in Nat
      /\ before.wrapped \in Nat /\ before.unwrapped \in Nat
  BY CountsTyped
<1>3. /\ d.attempts = diag.attempts - before.attempts /\ d.ok = diag.ok - before.ok
      /\ d.wrapped = diag.wrapped - before.wrapped /\ d.unwrapped = diag.unwrapped - before.unwrapped
      /\ d.dropped = diag.dropped - before.dropped /\ d.failures = NewFailures
      /\ d.min = IF diag.ok - before.ok = 0 THEN 0 ELSE Known(diag.first)
      /\ d.max = IF diag.ok - before.ok = 0 THEN 0 ELSE Known(diag.last)
  BY <1>2, DeltaOf DEF NewFailures
<1> HIDE DEF d
<1>4. Since /\ Numbers
  BY <1>1 DEF DeltaInv
<1>5. Cardinality(Dialing) = 0 /\ Cardinality(Wrapping) = 0
  BY <1>1, NoneAtWork
<1>6. diag.attempts = next /\ diag.wrapped + diag.unwrapped = IF Faulty THEN diag.ok ELSE 0
  BY <1>2, <1>5 DEF PathInv, Counters
<1>7. Total(NewFailures) \in Nat
  BY <1>4, FS_CardinalityType DEF Since, Total
<1>8. /\ before.attempts = diag.start
      /\ (diag.ok - before.ok) + (diag.dropped - before.dropped) + Total(NewFailures)
           <= diag.attempts - before.attempts
      /\ before.wrapped + before.unwrapped = IF Faulty THEN before.ok ELSE 0
      /\ reported = [attempts |-> before.attempts, ok |-> before.ok, ends |-> before.wrapped + before.unwrapped]
  BY <1>2, <1>4, <1>5, <1>7 DEF Since
<1>9. d.attempts = next - diag.start /\ d.ok + d.dropped + Total(d.failures) <= d.attempts
  BY <1>2, <1>3, <1>6, <1>7, <1>8
<1>10. d.wrapped + d.unwrapped = IF Faulty THEN d.ok ELSE 0
  BY <1>2, <1>3, <1>6, <1>8
<1>11. d.ok > 0 => diag.start <= d.min /\ d.min + d.ok - 1 <= d.max /\ d.max < next
  <2> SUFFICES ASSUME d.ok > 0 PROVE diag.start <= d.min /\ d.min + d.ok - 1 <= d.max /\ d.max < next
    OBVIOUS
  <2>1. PICK S : Numbered(S)
    BY <1>4 DEF Numbers
  <2>2. /\ IsFiniteSet(S) /\ Cardinality(S) = d.ok /\ S \subseteq Nat
        /\ \A s \in S : diag.start <= s /\ diag.first <= s /\ s <= diag.last /\ s < next
        /\ S # {} => diag.first \in S /\ diag.last \in S
    BY <1>3, <2>1 DEF Numbered
  <2>3. S # {}
    BY <2>2, FS_EmptySet
  <2>4. /\ diag.first \in S /\ diag.last \in S /\ diag.first \in Nat /\ diag.last \in Nat
        /\ diag.first <= diag.last
    BY <2>2, <2>3
  <2>5. diag.first # NoOrdinal /\ diag.last # NoOrdinal
    <3>1. NoOrdinal \notin Nat
      BY DEF NoOrdinal
    <3> QED
      BY <2>4, <3>1
  <2>6. d.min = diag.first /\ d.max = diag.last
    BY <1>2, <1>3, <2>5 DEF Known
  <2>7. S \in SUBSET (diag.first..diag.last)
    BY <1>2, <2>2
  <2>8. /\ IsFiniteSet(diag.first..diag.last)
        /\ Cardinality(diag.first..diag.last) = diag.last - diag.first + 1
    <3>1. diag.first \in Int /\ diag.last \in Int /\ ~(diag.first > diag.last)
      BY <2>4
    <3> QED
      BY <3>1, FS_Interval
  <2>9. Cardinality(S) <= diag.last - diag.first + 1
    BY <2>7, <2>8, FS_Subset
  <2>10. d.ok \in Int
    BY <1>2, <1>3
  <2>11. d.ok <= diag.last - diag.first + 1
    BY <2>2, <2>9
  <2>12. diag.first + d.ok - 1 <= diag.last
    BY <2>4, <2>10, <2>11
  <2> QED
    BY <2>2, <2>4, <2>6, <2>12
<1>12. reported' = [attempts |-> diag.attempts, ok |-> diag.ok, ends |-> diag.wrapped + diag.unwrapped]
  <2>1. /\ reported.attempts + d.attempts = diag.attempts /\ reported.ok + d.ok = diag.ok
        /\ reported.ends + d.wrapped + d.unwrapped = diag.wrapped + diag.unwrapped
    <3>1. /\ reported.attempts = before.attempts /\ reported.ok = before.ok
          /\ reported.ends = before.wrapped + before.unwrapped
      BY <1>8
    <3>2. before.attempts + d.attempts = diag.attempts /\ before.ok + d.ok = diag.ok
      BY <1>2, <1>3
    <3>3. before.wrapped + before.unwrapped + d.wrapped + d.unwrapped = diag.wrapped + diag.unwrapped
      BY <1>2, <1>3
    <3> QED
      BY <3>1, <3>2, <3>3
  <2> QED
    BY <1>1, <2>1
<1>13. Faulty' = Faulty
  BY <1>1 DEF Faulty, Routed
<1> QED
  BY <1>1, <1>9, <1>10, <1>11, <1>12, <1>13 DEF DeltaIsTheInvocations

LEMMA DeltaKept ==
  ASSUME PathInv, ReportInv, DeltaInv, [Next]_vars, PathInv'
  PROVE  DeltaInv'
<1> SUFFICES ASSUME Routed' PROVE DeltaInv'
  BY DEF DeltaInv
<1>1. ASSUME path' = path PROVE Routed
  BY <1>1 DEF Routed
<1>2. ASSUME UNCHANGED <<path, diag, before, next, at, ordinals, reported, report>>,
             stage' # stage => stage' \notin {"running", "idle"}
      PROVE  DeltaInv'
  <2>1. Routed /\ Faulty' = Faulty /\ Dialing' = Dialing /\ NewFailures' = NewFailures
    BY <1>1, <1>2 DEF Faulty, Routed, Dialing, In, NewFailures
  <2>2. DeltaIsTheInvocations'
    BY <1>2, <2>1 DEF DeltaInv, DeltaIsTheInvocations, Routed
  <2>3. stage' = "running" => Since'
    BY <1>2, <2>1 DEF DeltaInv, Since
  <2>4. stage' = "running" => Numbers'
    BY <1>2, <2>1 DEF DeltaInv, Numbers, Numbered
  <2> QED
    BY <1>2, <2>1, <2>2, <2>3, <2>4 DEF DeltaInv
<1>3. CASE Cancel \/ Expire \/ GiveUp \/ End
  BY <1>2, <1>3 DEF Cancel, Expire, GiveUp, End, setup, run, dials
<1>4. CASE Begin
  <2>1. path' = path /\ stage' = "running" /\ ~report'.made
    BY <1>4 DEF Begin, setup, NoReport
  <2>2. Since' /\ Numbers'
    BY <1>1, <1>4, <2>1, SinceBegun
  <2> QED
    BY <2>1, <2>2 DEF DeltaInv, DeltaIsTheInvocations
<1>5. CASE Finish
  <2>1. path' = path /\ stage' = "idle" /\ diag' = diag
    BY <1>5 DEF Finish, setup, dials
  <2>2. /\ DeltaIsTheInvocations'
        /\ reported' = [attempts |-> diag.attempts, ok |-> diag.ok, ends |-> diag.wrapped + diag.unwrapped]
    BY <1>1, <1>5, <2>1, DeltaReported
  <2> QED
    BY <2>1, <2>2 DEF DeltaInv
<1>6. ASSUME NEW w \in Workers, Worker(w) PROVE DeltaInv'
  <2>1. UNCHANGED <<path, stage, report, reported>> /\ at[w] \notin {"off", "joined"}
    BY <1>6, DialSteps DEF Worker, Check, Claim, NotIssued, Issue, Reuse, Dial, DialFails, DialSucceeds,
         Wrapped, WrapFails, RequestFails, Answered, Interrupted, Dropped, Over, run, setup
  <2>2. Routed
    BY <1>1, <2>1
  <2>3. stage # "idle" /\ ~report.made
    BY <1>6, <2>1 DEF PathInv, Quiet, AllJoined
  <2>4. stage = "running" => Since' /\ Numbers'
    BY <1>6, <2>1, <2>2, SinceKept, NumbersKept DEF DeltaInv
  <2> QED
    BY <2>1, <2>3, <2>4 DEF DeltaInv, DeltaIsTheInvocations
<1>7. CASE vars' = vars
  BY <1>2, <1>7 DEF vars, setup
<1> QED
  BY <1>3, <1>4, <1>5, <1>6, <1>7 DEF Next

(* The dials of a report are its invocation's, each successful one ended,  *)
(* its ordinals within the invocation's, and the reports add up to the     *)
(* run's counters (SharedPathDiagnostics::begin_invocation,                *)
(* invocation_delta).                                                      *)
THEOREM DeltasAreTheInvocations == Spec => []DeltaIsTheInvocations
<1>1. Init => DeltaInv
  BY DEF Init, DeltaInv, DeltaIsTheInvocations, NoReport, NoDials
<1>2. DeltaInv => DeltaIsTheInvocations
  BY DEF DeltaInv, DeltaIsTheInvocations
<1>3. ScheduleInv /\ PathInv /\ DeltaInv /\ [Next]_vars => ScheduleInv' /\ PathInv' /\ DeltaInv'
  <2>1. ScheduleInv /\ [Next]_vars => ScheduleInv'
    BY TypedKept, CountKept, ReportKept DEF ScheduleInv
  <2> QED
    BY <2>1, PathKept, DeltaKept DEF ScheduleInv
<1> QED
  BY <1>1, <1>2, <1>3, InitSchedule, InitPath, PTL DEF Spec
=============================================================================
