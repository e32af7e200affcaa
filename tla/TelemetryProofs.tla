--------------------------- MODULE TelemetryProofs --------------------------
(***************************************************************************)
(* Proofs about the telemetry of a run: what every plan, every answer of   *)
(* an endpoint and every interleaving of coordinator, polling tasks and    *)
(* cancellation leave true of the windows.                                 *)
(***************************************************************************)
EXTENDS Telemetry, SequenceTheorems, FiniteSetTheorems, WellFoundedInduction, TLAPS

Elements(list) == {list[i] : i \in DOMAIN list}

Probing == {"before", "startup", "after"}
Stoppings == {"close", "salvage", "abandon"}
Steps == Probing \cup Stoppings \cup {"refused", "trial", "open", "work", "drain", "done"}

FieldsTyped ==
  /\ requests \in RequestLists /\ built = Registry(requests)
  /\ cancelled \in BOOLEAN /\ step \in Steps /\ at \in Nat
  /\ probed \in Seq(Collectors) /\ active \in Seq(Collectors) /\ opened \in Seq(Collectors)
  /\ window \subseteq Collectors
  /\ task \in [Collectors -> {"none", "sleep", "fetch"}]

(* A request is served by one of these sources, or is optional and known   *)
(* to be disabled.                                                         *)
Served(i, sources) ==
  \/ requests[i].source \in sources
  \/ requests[i].source \in disabled /\ ~requests[i].required

(* Which probe point deals with a request. *)
Early(i) == requests[i].source \notin DOMAIN built \/ Timing(requests[i].source) = "before"

(* How far the two probe points have come.  A cancellation may have        *)
(* discarded what they found, but then no trial begins.                    *)
ProbeInv ==
  /\ step # "refused" => \A i \in DOMAIN requests : requests[i].required => Builds(requests[i])
  /\ step = "before" =>
       /\ active = <<>> /\ at <= Len(requests)
       /\ cancelled \/ \A i \in 1 .. at : Early(i) => Served(i, Elements(probed))
  /\ step \in {"startup", "after"} =>
       /\ at <= Len(requests)
       /\ cancelled \/ \A i \in DOMAIN requests : Early(i) => Served(i, Elements(active))
  /\ step = "startup" => at = 0 /\ probed = <<>>
  /\ step = "after" =>
       cancelled \/ \A i \in 1 .. at : ~Early(i) => Served(i, Elements(active) \cup Elements(probed))
  /\ step = "trial" => cancelled \/ \A i \in DOMAIN requests : Served(i, Elements(active))
  /\ step \in {"open", "work", "close"} => \A i \in DOMAIN requests : Served(i, Elements(active))

(* The windows that are open: those opened so far, or not yet closed.      *)
Unclosed(n) == {opened[i] : i \in n .. Len(opened)}

Prefix == Len(opened) <= Len(active) /\ \A i \in 1 .. Len(opened) : opened[i] = active[i]

WindowInv ==
  /\ \A i, j \in 1 .. Len(opened) : opened[i] = opened[j] => i = j
  /\ step \notin Stoppings => closing = "take"
  /\ step \notin Stoppings \cup {"open", "work"} => window = {}
  /\ step = "open" => at = Len(opened) /\ Prefix /\ window = Elements(opened)
  /\ step = "work" => Len(opened) = Len(active) /\ Prefix /\ window = Elements(opened)
  /\ step = "abandon" => Len(opened) < Len(active)
  /\ step \in Stoppings =>
       IF closing = "take" THEN at <= Len(opened) /\ window = Unclosed(at + 1)
       ELSE at < Len(opened) /\ window = Unclosed(at + 2)

(* Whose polling task may live: an open window's, that of the window which *)
(* is being stopped, and one whose stop failed.                            *)
MayLive(c) ==
  CASE step \in Probing \cup {"refused", "trial"} -> FALSE
    [] step \in {"open", "work"} -> c \in window
    [] step \in Stoppings ->
         \/ c \in window \/ c \in stopFailed \/ step = "abandon"
         \/ closing = "join" /\ c = opened[at + 1]
    [] OTHER -> c \in stopFailed \/ Len(opened) < Len(active)

TaskInv == \A c \in Collectors : task[c] # "none" => (c \in window \/ c \in stopped) /\ MayLive(c)

TelemetryInv == FieldsTyped /\ ProbeInv /\ WindowInv /\ TaskInv

LEMMA ElementsOf ==
  ASSUME NEW S, NEW a \in Seq(S), NEW b \in Seq(S), NEW e \in S
  PROVE  /\ Append(a, e) \in Seq(S) /\ Elements(Append(a, e)) = Elements(a) \cup {e}
         /\ Len(Append(a, e)) = Len(a) + 1 /\ Append(a, e)[Len(a) + 1] = e
         /\ \A i \in 1 .. Len(a) : Append(a, e)[i] = a[i]
         /\ a \o b \in Seq(S) /\ Elements(a \o b) = Elements(a) \cup Elements(b)
         /\ Elements(<<>>) = {} /\ <<>> \in Seq(S) /\ Len(<<>>) = 0
         /\ Len(a) \in Nat /\ DOMAIN a = 1 .. Len(a)
<1>1. Len(a) \in Nat /\ DOMAIN a = 1 .. Len(a) /\ Len(b) \in Nat /\ DOMAIN b = 1 .. Len(b)
  BY LenProperties
<1>2. /\ Append(a, e) \in Seq(S) /\ Len(Append(a, e)) = Len(a) + 1 /\ Append(a, e)[Len(a) + 1] = e
      /\ \A i \in 1 .. Len(a) : Append(a, e)[i] = a[i]
  BY AppendProperties
<1>3. DOMAIN Append(a, e) = 1 .. Len(a) + 1
  BY <1>2, LenProperties
<1>4. Elements(Append(a, e)) = Elements(a) \cup {e}
  <2>1. ASSUME NEW x \in Elements(Append(a, e)) PROVE x \in Elements(a) \cup {e}
    BY <1>1, <1>2, <1>3, <2>1 DEF Elements
  <2>2. ASSUME NEW x \in Elements(a) \cup {e} PROVE x \in Elements(Append(a, e))
    BY <1>1, <1>2, <1>3, <2>2 DEF Elements
  <2> QED
    BY <2>1, <2>2
<1>5. /\ a \o b \in Seq(S) /\ Len(a \o b) = Len(a) + Len(b)
      /\ \A i \in 1 .. Len(a) + Len(b) : (a \o b)[i] = IF i <= Len(a) THEN a[i] ELSE b[i - Len(a)]
  BY ConcatProperties
<1>6. DOMAIN (a \o b) = 1 .. Len(a) + Len(b)
  BY <1>5, LenProperties
<1>7. Elements(a \o b) = Elements(a) \cup Elements(b)
  <2>1. ASSUME NEW x \in Elements(a \o b) PROVE x \in Elements(a) \cup Elements(b)
    BY <1>1, <1>5, <1>6, <2>1 DEF Elements
  <2>2. ASSUME NEW i \in 1 .. Len(a) PROVE a[i] \in Elements(a \o b)
    BY <1>1, <1>5, <1>6, <2>2 DEF Elements
  <2>3. ASSUME NEW i \in 1 .. Len(b) PROVE b[i] \in Elements(a \o b)
    <3>1. i + Len(a) \in 1 .. Len(a) + Len(b) /\ (a \o b)[i + Len(a)] = b[i]
      BY <1>1, <1>5, <2>3
    <3> QED
      BY <1>6, <3>1 DEF Elements
  <2> QED
    BY <1>1, <2>1, <2>2, <2>3 DEF Elements
<1>8. Elements(<<>>) = {} /\ <<>> \in Seq(S) /\ Len(<<>>) = 0
  BY EmptySeq DEF Elements
<1> QED
  BY <1>1, <1>2, <1>4, <1>5, <1>7, <1>8

(* A source that was built is one of the collectors.                       *)
LEMMA BuiltSources ==
  ASSUME FieldsTyped
  PROVE  /\ Len(requests) \in Nat /\ DOMAIN requests = 1 .. Len(requests)
         /\ DOMAIN built \subseteq Collectors
         /\ \A i \in DOMAIN requests : Builds(requests[i]) => requests[i].source \in DOMAIN built
<1>1. Len(requests) \in Nat /\ DOMAIN requests = 1 .. Len(requests)
  BY ListsAssumption DEF FieldsTyped
<1>2. DOMAIN built = {requests[i].source : i \in {i \in DOMAIN requests : Builds(requests[i])}}
  BY DEF FieldsTyped, Registry
<1>3. \A r : Builds(r) => r.source \in Collectors
  BY DEF Builds, Collectors
<1> QED
  BY <1>1, <1>2, <1>3

LEMMA InitTelemetry == Init => TelemetryInv
<1> SUFFICES ASSUME Init PROVE TelemetryInv
  OBVIOUS
<1>1. FieldsTyped
  BY EmptySeq DEF Init, FieldsTyped, Steps, Probing, Stoppings
<1>2. ProbeInv
  <2>1. step # "refused" => \A i \in DOMAIN requests : requests[i].required => Builds(requests[i])
    BY DEF Init, Refused
  <2>2. step \in {"refused", "before"} /\ active = <<>> /\ at = 0 /\ at <= Len(requests)
    BY <1>1, BuiltSources DEF Init
  <2> QED
    BY <2>1, <2>2 DEF ProbeInv
<1>3. WindowInv
  BY DEF Init, WindowInv, Stoppings
<1>4. TaskInv
  BY DEF Init, TaskInv
<1> QED
  BY <1>1, <1>2, <1>3, <1>4 DEF TelemetryInv

(* The polling tasks change nothing but themselves, what they sampled and  *)
(* the number of polls, and no task begins by itself.                      *)
LEMMA TaskStep ==
  ASSUME FieldsTyped, \E c \in Collectors : Task(c)
  PROVE  /\ task' \in [Collectors -> {"none", "sleep", "fetch"}]
         /\ \A c \in Collectors : task'[c] # "none" => task[c] # "none"
         /\ UNCHANGED <<setup, cancelled, step, at, plan, opened, closing, window, stopped, stopFailed>>
<1>1. PICK c \in Collectors : Task(c)
  OBVIOUS
<1>2. PICK state \in {"none", "sleep", "fetch"} : task[c] # "none" /\ task' = [task EXCEPT ![c] = state]
  BY <1>1, Zenon DEF Task, Poll, PollAnswers, PollFails, Ends, Obey
<1>3. UNCHANGED <<setup, cancelled, step, at, plan, opened, closing, window, stopped, stopFailed>>
  BY <1>1 DEF Task, Poll, PollAnswers, PollFails, Ends, Obey, results
<1> QED
  BY <1>2, <1>3 DEF FieldsTyped

(* The stop of a window that was taken succeeds, fails or expires.         *)
Concludes == StopExpires \/ FinalSample \/ NoFinalSample

LEMMA ConcludeStep ==
  ASSUME Concludes
  PROVE  /\ step \in Stoppings /\ at < Len(opened) /\ closing \in {"join", "final"}
         /\ at' = at + 1 /\ closing' = "take"
         /\ \A c : c \in stopFailed => c \in stopFailed'
         /\ closing = "join" /\ step # "abandon" => opened[at + 1] \in stopFailed'
         /\ UNCHANGED <<setup, cancelled, step, plan, opened, window, task, stopped>>
<1>1. CASE StopExpires
  BY <1>1 DEF StopExpires, Stopping, Stoppings, Settled, Blamed, This, tasks
<1>2. CASE FinalSample
  <2>1. PICK w : Stopping("final") /\ Conclude(This(opened), w)
    BY <1>2 DEF FinalSample
  <2> QED
    BY <2>1 DEF Stopping, Stoppings, Conclude, Settled, Blamed, This
<1>3. CASE NoFinalSample
  <2>1. PICK w : Stopping("final") /\ Conclude(This(opened), w)
    BY <1>3 DEF NoFinalSample
  <2> QED
    BY <2>1 DEF Stopping, Stoppings, Conclude, Settled, Blamed, This
<1> QED
  BY <1>1, <1>2, <1>3 DEF Concludes

(* The actions, for the lemmas that go through them.                       *)
Probes(point) ==
  PassOver(point) \/ ProbeSucceeds(point) \/ ProbeFails(point) \/ ProbeDiscarded(point) \/ PointEnds(point)

LEMMA Actions ==
  [Next]_vars =>
    \/ Probes("before") \/ Probes("after") \/ Startup \/ BeginTrial \/ OpenWindow \/ OpenFails
    \/ Measure \/ WorkEnds \/ TakeWindow \/ Joined \/ Concludes \/ Closed \/ Drain \/ Drained
    \/ Cancel \/ (\E c \in Collectors : Task(c)) \/ vars' = vars
BY DEF Next, Coordinator, Probe, Probes, Stop, Concludes

LEMMA FieldsKept == TelemetryInv /\ [Next]_vars => FieldsTyped'
<1> SUFFICES ASSUME TelemetryInv, [Next]_vars PROVE FieldsTyped'
  OBVIOUS
<1>1. FieldsTyped
  BY DEF TelemetryInv
<1>2. built' = Registry(requests) /\ requests' = requests
  BY <1>1, Actions, TaskStep, ConcludeStep
     DEF Probes, PassOver, ProbeSucceeds, ProbeFails, ProbeDiscarded, PointEnds, Startup, BeginTrial,
         OpenWindow, OpenFails, Measure, WorkEnds, TakeWindow, Joined, Closed, Drain, Drained, Cancel,
         FieldsTyped, setup, vars
<1>3. ASSUME NEW point \in {"before", "after"}, Probes(point) PROVE FieldsTyped'
  <2>1. CASE PassOver(point) \/ ProbeFails(point) \/ ProbeDiscarded(point)
    <3>1. /\ at' = 0 \/ at' = at + 1 \/ at' = Len(requests)
          /\ step' = step \/ step' = "done" \/ step' = "drain"
          /\ probed' = probed \/ probed' = <<>>
      BY <2>1 DEF PassOver, ProbeFails, ProbeDiscarded, Enter
    <3>2. UNCHANGED <<cancelled, active, opened, window, task>>
      BY <2>1 DEF PassOver, ProbeFails, ProbeDiscarded, tasks
    <3>3. Len(requests) \in Nat /\ <<>> \in Seq(Collectors)
      BY <1>1, BuiltSources, EmptySeq
    <3>4. step \in Steps /\ at \in Nat /\ at + 1 \in Nat /\ 0 \in Nat /\ probed \in Seq(Collectors)
      BY <1>1 DEF FieldsTyped
    <3>5. at' \in Nat
      BY <3>1, <3>3, <3>4, Zenon
    <3>6. probed' \in Seq(Collectors)
      BY <3>1, <3>3, <3>4, Zenon
    <3>7. step' \in Steps
      BY <3>1, <3>4 DEF Steps
    <3> QED
      BY <1>1, <1>2, <3>2, <3>5, <3>6, <3>7 DEF FieldsTyped
  <2>2. CASE ProbeSucceeds(point)
    <3>1. This(requests).source \in Collectors
      BY <1>1, <2>2, BuiltSources DEF ProbeSucceeds, Here
    <3> QED
      BY <1>1, <1>2, <2>2, <3>1, AppendProperties DEF ProbeSucceeds, FieldsTyped, tasks
  <2>3. CASE PointEnds(point)
    BY <1>1, <1>2, <2>3, ConcatProperties, EmptySeq
       DEF PointEnds, Enter, FieldsTyped, Steps, Probing, tasks
  <2> QED
    BY <1>3, <2>1, <2>2, <2>3 DEF Probes
<1>4. CASE Startup \/ BeginTrial \/ OpenFails \/ Measure \/ WorkEnds \/ Joined \/ Closed \/ Drained
  <2>1. step' \in {step, "after", "done", "drain", "open", "trial", "abandon", "work", "close", "salvage"}
    BY <1>4 DEF Startup, BeginTrial, OpenFails, Measure, WorkEnds, Joined, Closed, Drained, Enter
  <2>2. (at' = 0 \/ at' = at) /\ (opened' = opened \/ opened' = <<>>)
    BY <1>4 DEF Startup, BeginTrial, OpenFails, Measure, WorkEnds, Joined, Closed, Drained, Enter
  <2>3. UNCHANGED <<cancelled, probed, active, window, task>>
    BY <1>4 DEF Startup, BeginTrial, OpenFails, Measure, WorkEnds, Joined, Closed, Drained, plan, tasks
  <2>4. step' \in Steps
    BY <1>1, <2>1 DEF FieldsTyped, Steps, Probing, Stoppings
  <2>5. at' \in Nat
    BY <1>1, <2>2 DEF FieldsTyped
  <2>6. opened' \in Seq(Collectors)
    BY <1>1, <2>2, EmptySeq, Zenon DEF FieldsTyped
  <2> QED
    BY <1>1, <1>2, <2>3, <2>4, <2>5, <2>6 DEF FieldsTyped
<1>5. CASE OpenWindow
  <2>1. This(active) \in Collectors
    BY <1>1, <1>5, ElementOfSeq DEF OpenWindow, Doing, This, FieldsTyped
  <2> QED
    BY <1>1, <1>2, <1>5, <2>1, AppendProperties DEF OpenWindow, FieldsTyped, plan
<1>6. CASE TakeWindow \/ Drain
  <2>1. /\ at' = at \/ at' = at + 1
        /\ window' \subseteq window
        /\ UNCHANGED <<cancelled, step, probed, active, opened>>
    BY <1>6 DEF TakeWindow, Drain, plan
  <2>2. task' = task \/ \E c : task' = [task EXCEPT ![c] = "none"]
    BY <1>6 DEF TakeWindow, Drain
  <2> QED
    BY <1>1, <1>2, <2>1, <2>2 DEF FieldsTyped
<1>7. CASE Concludes
  BY <1>1, <1>2, <1>7, ConcludeStep DEF FieldsTyped, plan
<1>8. CASE (\E c \in Collectors : Task(c)) \/ Cancel \/ vars' = vars
  BY <1>1, <1>2, <1>8, TaskStep DEF Cancel, FieldsTyped, plan, tasks, vars
<1> QED
  BY Actions, <1>3, <1>4, <1>5, <1>6, <1>7, <1>8

(* Dealing with one more request of a probe point keeps what is known of   *)
(* the others, and serves this one.                                        *)
LEMMA OneMore ==
  ASSUME TelemetryInv, NEW point \in {"before", "after"}, ~cancelled, step = point, at < Len(requests),
         UNCHANGED <<requests, built, cancelled, step, active>>, NEW n, n = at + 1, at' = n,
         disabled \subseteq disabled', Elements(probed) \subseteq Elements(probed)',
         (Early(n) <=> point = "before") => Served(n, Elements(probed))'
  PROVE  ProbeInv'
<1>1. /\ at \in Nat /\ Len(requests) \in Nat /\ DOMAIN requests = 1 .. Len(requests)
      /\ \A i : Early(i)' <=> Early(i)
      /\ \A i, A, B : Served(i, A) /\ A \subseteq B => Served(i, B)'
  BY BuiltSources DEF TelemetryInv, FieldsTyped, Early, Served
<1>2. Elements(active)' = Elements(active)
  BY DEF Elements
<1>3. CASE point = "before"
  <2>1. \A i \in 1 .. at : Early(i) => Served(i, Elements(probed))'
    BY <1>1, <1>3 DEF TelemetryInv, ProbeInv
  <2> QED
    BY <1>1, <1>3, <2>1 DEF TelemetryInv, ProbeInv
<1>4. CASE point = "after"
  <2>1. \A i \in DOMAIN requests : Early(i) => Served(i, Elements(active))'
    BY <1>1, <1>2, <1>4 DEF TelemetryInv, ProbeInv
  <2>2. \A i \in 1 .. at : ~Early(i) => Served(i, Elements(active) \cup Elements(probed))'
    BY <1>1, <1>2, <1>4 DEF TelemetryInv, ProbeInv
  <2>3. ~Early(n) => Served(n, Elements(active) \cup Elements(probed))'
    BY <1>4 DEF Served
  <2> QED
    BY <1>1, <1>4, <2>1, <2>2, <2>3 DEF TelemetryInv, ProbeInv
<1> QED
  BY <1>3, <1>4

LEMMA ProbesKept == ASSUME TelemetryInv, NEW point \in {"before", "after"}, Probes(point) PROVE ProbeInv'
<1> USE DEF Doing, Through
<1>0. PICK n : n = at + 1
  OBVIOUS
<1>1. /\ at \in Nat /\ Len(requests) \in Nat /\ DOMAIN requests = 1 .. Len(requests)
      /\ probed \in Seq(Collectors) /\ active \in Seq(Collectors)
      /\ DOMAIN built \subseteq Collectors
  BY BuiltSources DEF TelemetryInv, FieldsTyped
<1>2. step = point /\ UNCHANGED <<requests, built, cancelled>>
  BY DEF Probes, PassOver, ProbeSucceeds, ProbeFails, ProbeDiscarded, PointEnds, Here, setup
<1>3. \A i \in DOMAIN requests : requests[i].required => requests[i].source \in DOMAIN built
  BY <1>2, BuiltSources DEF TelemetryInv, ProbeInv
<1>4. CASE PassOver(point)
  <2>1. at < Len(requests) /\ UNCHANGED <<step, active, probed>> /\ at' = n /\ disabled \subseteq disabled'
    BY <1>0, <1>4 DEF PassOver
  <2>2. (Early(n) <=> point = "before") => Served(n, Elements(probed))'
    BY <1>0, <1>1, <1>2, <1>3, <1>4, <2>1 DEF PassOver, Here, Early, Timing, This, Served
  <2>3. CASE cancelled
    BY <1>0, <1>1, <1>2, <2>1, <2>3 DEF TelemetryInv, ProbeInv
  <2>4. Elements(probed)' = Elements(probed)
    BY <2>1 DEF Elements
  <2> QED
    BY <1>0, <1>2, <2>1, <2>2, <2>3, <2>4, OneMore
<1>5. CASE ProbeSucceeds(point)
  <2>1. /\ at < Len(requests) /\ ~cancelled /\ UNCHANGED <<step, active, disabled>> /\ at' = n
        /\ requests[n].source \in Collectors /\ probed' = Append(probed, requests[n].source)
    BY <1>0, <1>1, <1>5 DEF ProbeSucceeds, Here, This
  <2>2. Elements(probed)' = Elements(probed) \cup {requests[n].source}
    BY <1>1, <2>1, ElementsOf
  <2>3. Served(n, Elements(probed))'
    BY <1>2, <2>2 DEF Served
  <2> QED
    BY <1>0, <1>2, <2>1, <2>2, <2>3, OneMore
<1>6. CASE ProbeFails(point)
  <2>1. CASE requests[n].required
    BY <1>0, <1>2, <1>6, <2>1 DEF ProbeFails, Enter, This, TelemetryInv, ProbeInv
  <2>2. CASE ~requests[n].required
    <3>1. /\ at < Len(requests) /\ UNCHANGED <<step, active, probed>> /\ at' = n
          /\ disabled' = disabled \cup {requests[n].source}
      BY <1>0, <1>6, <2>2 DEF ProbeFails, Here, This
    <3>2. Served(n, Elements(probed))' /\ Elements(probed)' = Elements(probed)
      BY <1>2, <2>2, <3>1 DEF Served, Elements
    <3>3. CASE cancelled
      BY <1>0, <1>1, <1>2, <3>1, <3>3 DEF TelemetryInv, ProbeInv
    <3> QED
      BY <1>0, <1>2, <3>1, <3>2, <3>3, OneMore
  <2> QED
    BY <2>1, <2>2
<1>7. CASE ProbeDiscarded(point)
  <2>1. cancelled /\ UNCHANGED <<step, active>> /\ at' = Len(requests)
    BY <1>7 DEF ProbeDiscarded
  <2> QED
    BY <1>1, <1>2, <2>1 DEF TelemetryInv, ProbeInv
<1>8. CASE PointEnds(point)
  <2>1. /\ at = Len(requests) /\ active' = active \o probed /\ probed' = <<>> /\ disabled' = disabled /\ at' = 0
        /\ step' = IF point = "before" THEN "startup" ELSE "trial"
    BY <1>8 DEF PointEnds, Enter
  <2>2. Elements(active)' = Elements(active) \cup Elements(probed)
    <3>1. Elements(active \o probed) = Elements(active) \cup Elements(probed)
      BY <1>1, ElementsOf DEF Collectors
    <3> QED
      BY <2>1, <3>1 DEF Elements
  <2>3. \A i, A : (Early(i)' <=> Early(i)) /\ (Served(i, A)' <=> Served(i, A))
    BY <1>2, <2>1 DEF Early, Served
  <2>4. \A i, A, B : Served(i, A) => Served(i, A \cup B) /\ Served(i, B \cup A)
    BY DEF Served
  <2>5. CASE point = "before"
    <3>1. cancelled \/ \A i \in DOMAIN requests : Early(i) => Served(i, Elements(active))'
      BY <1>1, <1>2, <2>1, <2>2, <2>3, <2>4, <2>5 DEF TelemetryInv, ProbeInv
    <3> QED
      BY <1>1, <1>2, <2>1, <2>3, <2>5, <3>1 DEF TelemetryInv, ProbeInv
  <2>6. CASE point = "after"
    <3>1. cancelled \/ \A i \in DOMAIN requests : Served(i, Elements(active))'
      BY <1>1, <1>2, <2>1, <2>2, <2>3, <2>4, <2>6 DEF TelemetryInv, ProbeInv
    <3> QED
      BY <1>1, <1>2, <2>1, <2>3, <2>6, <3>1 DEF TelemetryInv, ProbeInv
  <2> QED
    BY <2>5, <2>6
<1> QED
  BY <1>4, <1>5, <1>6, <1>7, <1>8 DEF Probes

(* Outside the probe points a source that serves a request goes on doing   *)
(* so, and what the last point found is there when a trial begins.         *)
LEMMA ProbeKept == TelemetryInv /\ [Next]_vars => ProbeInv'
<1> SUFFICES ASSUME TelemetryInv, [Next]_vars PROVE ProbeInv'
  OBVIOUS
<1>1. ProbeInv
  BY DEF TelemetryInv
<1>2. CASE /\ step \notin Probing /\ step # "refused" /\ UNCHANGED <<requests, built, active, disabled>>
           /\ step' \notin Probing
           /\ step' = "trial" => step = "close"
           /\ step' \in {"open", "work", "close"} =>
                step \in {"open", "work", "close"} \/ (step = "trial" /\ ~cancelled)
  <2>1. \A i, A : Served(i, A)' <=> Served(i, A)
    BY <1>2 DEF Served
  <2>2. Elements(active)' = Elements(active)
    BY <1>2 DEF Elements
  <2> QED
    BY <1>1, <1>2, <2>1, <2>2 DEF ProbeInv, Probing
<1>3. CASE UNCHANGED <<requests, built, step, at, probed, active, disabled>> /\ (cancelled => cancelled')
  <2>1. \A i, A : (Served(i, A)' <=> Served(i, A)) /\ (Early(i)' <=> Early(i))
    BY <1>3 DEF Served, Early
  <2>2. Elements(active)' = Elements(active) /\ Elements(probed)' = Elements(probed)
    BY <1>3 DEF Elements
  <2> QED
    BY <1>1, <1>3, <2>1, <2>2 DEF ProbeInv
<1>4. CASE Probes("before") \/ Probes("after")
  BY <1>4, ProbesKept
<1>5. CASE Startup
  <2>1. \A i, A : (Served(i, A)' <=> Served(i, A)) /\ (Early(i)' <=> Early(i))
    BY <1>5 DEF Startup, Served, Early, setup, plan
  <2>2. /\ UNCHANGED <<requests, built, cancelled, active, probed>> /\ step = "startup" /\ at' = 0
        /\ step' \in {"after", "done"}
    BY <1>5 DEF Startup, Enter, setup, plan
  <2>3. Elements(active)' = Elements(active) /\ Len(requests) \in Nat
    BY <2>2, BuiltSources DEF Elements, TelemetryInv
  <2> QED
    BY <1>1, <2>1, <2>2, <2>3 DEF ProbeInv
<1>6. CASE BeginTrial \/ OpenWindow \/ OpenFails \/ Measure \/ WorkEnds \/ Closed \/ Drain \/ Drained \/ Concludes
  <2>1. UNCHANGED <<requests, built, active, disabled>>
    BY <1>6, ConcludeStep
       DEF BeginTrial, OpenWindow, OpenFails, Measure, WorkEnds, Closed, Drain, Drained, setup, plan
  <2>2. \/ step = "trial" /\ (step' = "drain" \/ (step' = "open" /\ ~cancelled))
        \/ step = "open" /\ step' \in {"open", "abandon", "work"}
        \/ step = "work" /\ step' \in {"close", "salvage"}
        \/ step \in Stoppings /\ step' \in {step, "drain"}
        \/ step = "close" /\ step' = "trial"
        \/ step = "drain" /\ step' \in {"drain", "done"}
    BY <1>6, ConcludeStep
       DEF BeginTrial, OpenWindow, OpenFails, Measure, WorkEnds, Closed, Drain, Drained, Enter, Doing,
           Through, Stoppings
  <2> QED
    BY <1>2, <2>1, <2>2 DEF Probing, Stoppings
<1>7. CASE TakeWindow \/ Joined \/ Cancel \/ (\E c \in Collectors : Task(c)) \/ vars' = vars
  BY <1>3, <1>7, TaskStep DEF TakeWindow, Joined, Cancel, TelemetryInv, setup, plan, vars
<1> QED
  BY Actions, <1>4, <1>5, <1>6, <1>7

(* One window is stopped after the other: what is left of them.            *)
LEMMA UnclosedOnes ==
  ASSUME FieldsTyped, \A i, j \in 1 .. Len(opened) : opened[i] = opened[j] => i = j
  PROVE  /\ Unclosed(1) = Elements(opened)
         /\ Unclosed(Len(opened) + 1) = {}
         /\ at < Len(opened) => Unclosed(at + 2) = Unclosed(at + 1) \ {opened[at + 1]}
<1>1. Len(opened) \in Nat /\ DOMAIN opened = 1 .. Len(opened) /\ at \in Nat
  BY LenProperties DEF FieldsTyped
<1>2. Unclosed(1) = Elements(opened)
  BY <1>1 DEF Unclosed, Elements
<1>3. Unclosed(Len(opened) + 1) = {}
  BY <1>1 DEF Unclosed
<1>4. ASSUME at < Len(opened) PROVE Unclosed(at + 2) = Unclosed(at + 1) \ {opened[at + 1]}
  <2>1. /\ \A i \in at + 2 .. Len(opened) : i \in at + 1 .. Len(opened) /\ i \in 1 .. Len(opened) /\ i # at + 1
        /\ \A i \in at + 1 .. Len(opened) : i \in at + 2 .. Len(opened) \/ i = at + 1
        /\ at + 1 \in 1 .. Len(opened)
    BY <1>1, <1>4
  <2> QED
    BY <2>1 DEF Unclosed
<1> QED
  BY <1>2, <1>3, <1>4

LEMMA WindowKept == TelemetryInv /\ [Next]_vars => WindowInv'
<1> SUFFICES ASSUME TelemetryInv, [Next]_vars PROVE WindowInv'
  OBVIOUS
<1> USE DEF Stoppings
<1>1. WindowInv /\ FieldsTyped
  BY DEF TelemetryInv
<1>2. /\ at \in Nat /\ Len(opened) \in Nat /\ DOMAIN opened = 1 .. Len(opened) /\ opened \in Seq(Collectors)
      /\ Len(active) \in Nat /\ active \in Seq(Collectors)
  BY <1>1, LenProperties DEF FieldsTyped
<1>3. /\ Unclosed(1) = Elements(opened) /\ Unclosed(Len(opened) + 1) = {}
      /\ at < Len(opened) => Unclosed(at + 2) = Unclosed(at + 1) \ {opened[at + 1]}
  BY <1>1, UnclosedOnes DEF WindowInv
<1>4. ASSUME UNCHANGED opened
      PROVE  \A n : Unclosed(n)' = Unclosed(n) /\ Elements(opened)' = Elements(opened)
  BY <1>4 DEF Unclosed, Elements
<1>5. CASE UNCHANGED <<step, at, active, opened, closing, window>>
  BY <1>1, <1>4, <1>5 DEF WindowInv, Prefix, Unclosed
<1>6. CASE /\ step \notin Stoppings \cup {"open", "work"} /\ step' \notin Stoppings \cup {"open", "work"}
           /\ UNCHANGED <<opened, closing, window>>
  BY <1>1, <1>6 DEF WindowInv
<1>7. CASE Probes("before") \/ Probes("after") \/ Startup \/ Drained
  <2>1. /\ step \in Probing \cup {"drain"} /\ step' \in Probing \cup {"trial", "drain", "done"}
        /\ UNCHANGED <<opened, closing, window>>
    BY <1>7 DEF Probes, PassOver, ProbeSucceeds, ProbeFails, ProbeDiscarded, PointEnds, Startup, Drained, Enter,
                Here, Doing, Through, Probing, plan, tasks
  <2> QED
    BY <1>6, <2>1 DEF Probing
<1>8. CASE BeginTrial
  <2>1. CASE step' = "drain"
    BY <1>6, <1>8, <2>1 DEF BeginTrial, Enter, tasks
  <2>2. CASE step' = "open"
    <3>1. step = "trial" /\ opened' = <<>> /\ at' = 0 /\ UNCHANGED <<closing, window, active>>
      BY <1>8, <2>2 DEF BeginTrial, Enter, plan, tasks
    <3>2. Len(opened') = 0 /\ Elements(opened)' = {}
      BY <3>1, EmptySeq DEF Elements
    <3>3. Prefix'
      BY <1>2, <3>1, <3>2 DEF Prefix
    <3>4. window' = {} /\ closing' = "take" /\ at' = 0
      BY <1>1, <3>1 DEF WindowInv
    <3> QED
      BY <2>2, <3>2, <3>3, <3>4 DEF WindowInv
  <2> QED
    BY <1>8, <2>1, <2>2 DEF BeginTrial, Enter
<1>9. CASE OpenWindow
  <2> DEFINE c == active[at + 1]
  <2>1. /\ step = "open" /\ at < Len(active) /\ c \notin window /\ window' = window \cup {c}
        /\ opened' = Append(opened, c) /\ at' = at + 1 /\ UNCHANGED <<step, active, closing>>
    BY <1>9 DEF OpenWindow, Doing, This, plan
  <2>2. at = Len(opened) /\ Prefix /\ window = Elements(opened)
    BY <1>1, <2>1 DEF WindowInv
  <2>3. c \in Collectors
    BY <1>2, <2>1, ElementOfSeq
  <2>4. /\ Len(opened') = Len(opened) + 1 /\ opened'[Len(opened) + 1] = c
        /\ \A i \in 1 .. Len(opened) : opened'[i] = opened[i]
    BY <1>2, <2>1, <2>3, AppendProperties
  <2>5. Elements(opened') = Elements(opened) \cup {c}
    BY <1>2, <2>1, <2>3, ElementsOf
  <2>6. Prefix'
    BY <1>2, <2>1, <2>2, <2>4 DEF Prefix
  <2>7. \A i \in 1 .. Len(opened) : opened[i] # c
    BY <1>2, <2>1, <2>2 DEF Elements
  <2>8. \A i, j \in 1 .. Len(opened') : opened'[i] = opened'[j] => i = j
    <3>1. \A i, j \in 1 .. Len(opened) : opened[i] = opened[j] => i = j
      BY <1>1 DEF WindowInv
    <3>2. \A i \in 1 .. Len(opened') : i \in 1 .. Len(opened) \/ i = Len(opened) + 1
      BY <1>2, <2>4
    <3> QED
      BY <2>4, <2>7, <3>1, <3>2
  <2>9. Elements(opened)' = Elements(opened')
    BY DEF Elements
  <2> HIDE DEF c
  <2> QED
    BY <1>1, <1>2, <2>1, <2>2, <2>4, <2>5, <2>6, <2>8, <2>9 DEF WindowInv
<1>10. CASE OpenFails
  <2>1. step = "open" /\ at < Len(active) /\ step' = "abandon" /\ at' = 0 /\ UNCHANGED <<active, opened, closing, window>>
    BY <1>10 DEF OpenFails, Doing, Enter, plan, tasks
  <2> QED
    BY <1>1, <1>2, <1>3, <1>4, <2>1 DEF WindowInv
<1>11. CASE Measure
  <2>1. step = "open" /\ at = Len(active) /\ step' = "work" /\ UNCHANGED <<active, opened, closing, window>>
    BY <1>11 DEF Measure, Through, Enter, plan, tasks
  <2>2. Prefix'
    BY <1>1, <2>1 DEF WindowInv, Prefix
  <2> QED
    BY <1>1, <1>2, <1>4, <2>1, <2>2 DEF WindowInv
<1>12. CASE WorkEnds
  <2>1. step = "work" /\ step' \in {"close", "salvage"} /\ at' = 0 /\ UNCHANGED <<active, opened, closing, window>>
    BY <1>12 DEF WorkEnds, Enter, plan, tasks
  <2> QED
    BY <1>1, <1>2, <1>3, <1>4, <2>1 DEF WindowInv
<1>13. CASE TakeWindow \/ Joined
  <2>1. /\ step \in Stoppings /\ at < Len(opened) /\ UNCHANGED <<step, at, active, opened>>
        /\ \/ closing = "take" /\ closing' = "join" /\ window' = window \ {opened[at + 1]}
           \/ closing = "join" /\ closing' = "final" /\ window' = window
    BY <1>13 DEF TakeWindow, Joined, Stopping, This, plan, tasks
  <2> QED
    BY <1>1, <1>2, <1>3, <1>4, <2>1 DEF WindowInv
<1>14. CASE Concludes
  <2>1. /\ step \in Stoppings /\ at < Len(opened) /\ closing \in {"join", "final"}
        /\ at' = at + 1 /\ closing' = "take" /\ UNCHANGED <<step, active, opened, window>>
    BY <1>14, ConcludeStep DEF plan
  <2>2. closing # "take" /\ window = Unclosed(at + 2)
    BY <1>1, <2>1 DEF WindowInv
  <2>3. at' + 1 = at + 2 /\ at' <= Len(opened)
    BY <1>2, <2>1
  <2>4. Unclosed(at' + 1) = Unclosed(at + 2)
    BY <2>3
  <2> QED
    BY <1>1, <1>2, <1>4, <2>1, <2>2, <2>3, <2>4 DEF WindowInv
<1>15. CASE Closed
  <2>1. step \in Stoppings /\ at = Len(opened) /\ step' \in {"trial", "drain"} /\ UNCHANGED <<opened, closing, window>>
    BY <1>15 DEF Closed, Enter, tasks
  <2> QED
    BY <1>1, <1>2, <1>3, <2>1 DEF WindowInv
<1>16. CASE Drain
  <2>1. step = "drain" /\ window' \subseteq window /\ UNCHANGED <<step, opened, closing>>
    BY <1>16 DEF Drain, Doing
  <2> QED
    BY <1>1, <2>1 DEF WindowInv
<1>17. CASE Cancel \/ (\E c \in Collectors : Task(c)) \/ vars' = vars
  BY <1>1, <1>5, <1>17, TaskStep DEF Cancel, plan, tasks, vars
<1> QED
  BY Actions, <1>7, <1>8, <1>9, <1>10, <1>11, <1>12, <1>13, <1>14, <1>15, <1>16, <1>17

LEMMA TaskKept == TelemetryInv /\ [Next]_vars => TaskInv'
<1> SUFFICES ASSUME TelemetryInv, [Next]_vars PROVE TaskInv'
  OBVIOUS
<1> USE DEF Stoppings, Probing
<1>1. FieldsTyped /\ WindowInv /\ \A d \in Collectors : task[d] # "none" => (d \in window \/ d \in stopped) /\ MayLive(d)
  BY DEF TelemetryInv, TaskInv
<1>2. CASE /\ UNCHANGED <<step, at, active, opened, closing, window, stopped, stopFailed>>
           /\ \A d \in Collectors : task'[d] # "none" => task[d] # "none"
  BY <1>1, <1>2 DEF TaskInv, MayLive
<1>3. CASE step \in Probing \cup {"trial"} /\ UNCHANGED task
  BY <1>1, <1>3 DEF TaskInv, MayLive
<1>4. CASE Probes("before") \/ Probes("after") \/ Startup \/ BeginTrial
  <2>1. step \in Probing \cup {"trial"} /\ UNCHANGED task
    BY <1>4 DEF Probes, PassOver, ProbeSucceeds, ProbeFails, ProbeDiscarded, PointEnds, Startup, BeginTrial,
                Here, Doing, Through, tasks
  <2> QED
    BY <1>3, <2>1
<1>5. CASE OpenWindow
  <2> DEFINE c == active[at + 1]
  <2>1. /\ step = "open" /\ step' = "open" /\ window' = window \cup {c} /\ stopped' = stopped \ {c}
        /\ task' = [task EXCEPT ![c] = "sleep"]
    BY <1>5 DEF OpenWindow, Doing, This
  <2>2. ASSUME NEW d \in Collectors, task'[d] # "none" PROVE d \in window'
    <3>1. CASE d = c
      BY <2>1, <3>1
    <3>2. CASE d # c
      BY <1>1, <2>1, <2>2, <3>2 DEF FieldsTyped, MayLive
    <3> QED
      BY <3>1, <3>2
  <2> QED
    BY <2>1, <2>2 DEF TaskInv, MayLive
<1>6. CASE OpenFails \/ Measure \/ WorkEnds
  <2>1. /\ UNCHANGED <<task, window, stopped>> /\ step \in {"open", "work"}
        /\ step' \in {"abandon", "work", "close", "salvage"}
    BY <1>6 DEF OpenFails, Measure, WorkEnds, Doing, Through, Enter, tasks
  <2> QED
    BY <1>1, <2>1 DEF TaskInv, MayLive
<1>7. CASE TakeWindow
  <2>1. /\ step \in Stoppings /\ closing = "take" /\ closing' = "join"
        /\ window' = window \ {opened[at + 1]} /\ stopped' = stopped \cup {opened[at + 1]}
        /\ UNCHANGED <<step, at, active, opened, task, stopFailed>>
    BY <1>7 DEF TakeWindow, Stopping, This, plan, results
  <2> QED
    BY <1>1, <2>1 DEF TaskInv, MayLive
<1>8. CASE Joined
  <2>1. /\ step \in Stoppings /\ closing = "join" /\ closing' = "final" /\ task[opened[at + 1]] = "none"
        /\ UNCHANGED <<step, at, active, opened, task, window, stopped, stopFailed>>
    BY <1>8 DEF Joined, Stopping, This, plan, tasks, results
  <2> QED
    BY <1>1, <2>1 DEF TaskInv, MayLive
<1>9. CASE Concludes
  <2>1. /\ step \in Stoppings /\ closing \in {"join", "final"} /\ \A d : d \in stopFailed => d \in stopFailed'
        /\ closing = "join" /\ step # "abandon" => opened[at + 1] \in stopFailed'
        /\ UNCHANGED <<step, window, task, stopped>>
    BY <1>9, ConcludeStep
  <2> QED
    BY <1>1, <2>1 DEF TaskInv, MayLive
<1>10. CASE Closed
  <2>1. /\ step \in Stoppings /\ at = Len(opened)
        /\ step' = IF step = "close" /\ stopFailed = {} THEN "trial" ELSE "drain"
        /\ UNCHANGED <<task, window, stopped, stopFailed, opened, active>>
    BY <1>10 DEF Closed, Enter, plan, tasks
  <2>2. closing = "take" /\ window = Unclosed(at + 1)
    <3>1. Len(opened) \in Nat
      BY <1>1, LenProperties DEF FieldsTyped
    <3>2. ~(at < Len(opened))
      BY <2>1, <3>1
    <3> QED
      BY <1>1, <2>1, <3>2 DEF WindowInv
  <2>3. window = {}
    BY <1>1, <2>1, <2>2, UnclosedOnes DEF WindowInv
  <2> QED
    BY <1>1, <2>1, <2>2, <2>3 DEF TaskInv, MayLive, WindowInv
<1>11. CASE Drain
  <2>1. step = "drain" /\ window = {}
    BY <1>1, <1>11 DEF Drain, Doing, WindowInv
  <2>2. UNCHANGED <<step, active, opened, task, stopped, stopFailed>> /\ window' = {}
    BY <1>11, <2>1 DEF Drain, plan, results
  <2> QED
    BY <1>1, <2>1, <2>2 DEF TaskInv, MayLive
<1>12. CASE Drained
  <2>1. step = "drain" /\ step' = "done" /\ UNCHANGED <<active, opened, task, window, stopped, stopFailed>>
    BY <1>12 DEF Drained, Through, Enter, plan, tasks, results
  <2> QED
    BY <1>1, <2>1 DEF TaskInv, MayLive
<1>13. CASE Cancel \/ (\E c \in Collectors : Task(c)) \/ vars' = vars
  BY <1>1, <1>2, <1>13, TaskStep DEF Cancel, plan, tasks, results, vars
<1> QED
  BY Actions, <1>4, <1>5, <1>6, <1>7, <1>8, <1>9, <1>10, <1>11, <1>12, <1>13

(* The invariant says of the windows what the property asks.               *)
LEMMA PairedFromInv == TelemetryInv => WindowsPaired
<1> SUFFICES ASSUME TelemetryInv PROVE WindowsPaired
  OBVIOUS
<1>1. step \in {"trial", "drain", "done"} => window = {}
  BY DEF TelemetryInv, WindowInv, Stoppings
<1>2. ASSUME step = "trial", NEW c \in Collectors PROVE task[c] = "none"
  <2>1. ~MayLive(c)
    BY <1>2 DEF MayLive, Probing, Stoppings
  <2> QED
    BY <2>1 DEF TelemetryInv, TaskInv
<1>3. step \in {"drain", "done"} => \A c \in Collectors : task[c] # "none" =>
        c \in stopped /\ (c \in stopFailed \/ Len(opened) < Len(active))
  BY <1>1 DEF TelemetryInv, TaskInv, MayLive, Probing, Stoppings
<1>4. ASSUME step = "work"
      PROVE  \A i \in DOMAIN requests :
               \/ requests[i].source \in window
               \/ requests[i].source \in disabled /\ ~requests[i].required
  <2>1. Len(opened) = Len(active) /\ Prefix /\ window = Elements(opened)
    BY <1>4 DEF TelemetryInv, WindowInv
  <2>2. DOMAIN opened = 1 .. Len(opened) /\ DOMAIN active = 1 .. Len(active)
    BY LenProperties DEF TelemetryInv, FieldsTyped
  <2>3. Elements(opened) = Elements(active)
    BY <2>1, <2>2 DEF Prefix, Elements
  <2> QED
    BY <1>4, <2>1, <2>3 DEF TelemetryInv, ProbeInv, Served
<1> QED
  BY <1>1, <1>2, <1>3, <1>4 DEF WindowsPaired

(* Whatever an endpoint answers, whenever an interval ends, a budget       *)
(* expires or the run is cancelled, for every telemetry section: no window *)
(* is open between trials, no polling task outlives its trial unrecorded,  *)
(* and a workload is measured only under every source that was asked for   *)
(* or known to be disabled (orchestration.rs, start_inner and stop_inner   *)
(* of the collectors).                                                     *)
THEOREM WindowsArePaired == Spec => []WindowsPaired
<1>1. Init => TelemetryInv
  BY InitTelemetry
<1>2. TelemetryInv /\ [Next]_vars => TelemetryInv'
  BY FieldsKept, ProbeKept, WindowKept, TaskKept DEF TelemetryInv
<1>3. TelemetryInv => WindowsPaired
  BY PairedFromInv
<1> QED
  BY <1>1, <1>2, <1>3, PTL DEF Spec

(* What a window and its polling task share: the whole record of what they *)
(* took (push_sample, push_snapshot).                                      *)
SamplesOf(c) == {Sample(built[c], answer) : answer \in Answers(c)}
BasesOf(c) == {<<>>} \cup {s.values : s \in SamplesOf(c)}

Windows(bases, samples) ==
  [base : bases, samples : Seq(samples), dropped : Nat, errors : Nat, seen : Seq(samples), lost : Nat]

(* What is kept and what is dropped is everything that was taken.          *)
Whole(w) ==
  /\ Len(w.seen) = Len(w.samples) + w.dropped
  /\ w.dropped = 0 => w.samples = w.seen

DataInv ==
  /\ data = [c \in Collectors |-> data[c]]
  /\ \A c \in Collectors : data[c] \in Windows(BasesOf(c), SamplesOf(c)) /\ Whole(data[c])

LEMMA FreshIsWhole ==
  ASSUME NEW bases, NEW samples, NEW r, NEW first \in samples, first.values \in bases, <<>> \in bases
  PROVE  Fresh(r, first) \in Windows(bases, samples) /\ Whole(Fresh(r, first))
<1>1. <<>> \in Seq(samples) /\ Len(<<>>) = 0 /\ <<first>> \in Seq(samples) /\ Len(<<first>>) = 1
  OBVIOUS
<1>2. 0 \in Nat /\ 1 + 0 = 1 /\ 0 + 0 = 0
  OBVIOUS
<1>3. CASE r.source = Gregg
  BY <1>1, <1>2, <1>3 DEF Fresh, Windows, Whole
<1>4. CASE r.source # Gregg
  BY <1>1, <1>2, <1>4 DEF Fresh, Windows, Whole
<1> QED
  BY <1>3, <1>4

LEMMA PushIsWhole ==
  ASSUME NEW bases, NEW S, NEW w \in Windows(bases, S), Whole(w), NEW s \in S, NEW source
  PROVE  Push(source, w, s) \in Windows(bases, S) /\ Whole(Push(source, w, s))
<1>1. w.samples \in Seq(S) /\ w.seen \in Seq(S) /\ w.dropped \in Nat /\ w.dropped + 1 \in Nat
  BY DEF Windows
<1>2. /\ Append(w.samples, s) \in Seq(S) /\ Len(Append(w.samples, s)) = Len(w.samples) + 1
      /\ Append(w.seen, s) \in Seq(S) /\ Len(Append(w.seen, s)) = Len(w.seen) + 1
      /\ Len(w.samples) \in Nat /\ Len(w.seen) \in Nat
  BY <1>1, AppendProperties, LenProperties
<1>3. Len(w.seen) = Len(w.samples) + w.dropped /\ (w.dropped = 0 => w.samples = w.seen)
  BY DEF Whole
<1> DEFINE kept == IF source = Gregg THEN GreggPush(w, s) ELSE PrometheusPush(w, s)
<1>4. /\ kept \in Windows(bases, S) /\ kept.seen = w.seen
      /\ \/ kept.dropped = w.dropped + 1 /\ Len(kept.samples) = Len(w.samples)
         \/ kept.dropped = w.dropped /\ kept.samples = Append(w.samples, s)
  <2>1. CASE Len(w.samples) >= Retained /\ source = Gregg
    <3>1. kept = [w EXCEPT !.dropped = w.dropped + 1]
      BY <2>1 DEF GreggPush
    <3> QED
      BY <1>1, <3>1 DEF Windows
  <2>2. CASE Len(w.samples) >= Retained /\ source # Gregg
    <3>1. Retained \in Nat \ {0} /\ w.samples # <<>>
      BY <1>2, <2>2, RetainedAssumption, EmptySeq
    <3>2. Tail(w.samples) \in Seq(S) /\ Len(Tail(w.samples)) = Len(w.samples) - 1
      BY <1>1, <3>1, HeadTailProperties
    <3>3. PICK list \in Seq(S) : list = Append(Tail(w.samples), s) /\ Len(list) = Len(w.samples)
      <4>1. /\ Append(Tail(w.samples), s) \in Seq(S)
            /\ Len(Append(Tail(w.samples), s)) = Len(Tail(w.samples)) + 1
        BY <3>2, AppendProperties
      <4>2. Len(w.samples) - 1 + 1 = Len(w.samples)
        BY <1>2
      <4> QED
        BY <3>2, <4>1, <4>2
    <3>4. PICK v : v = [w EXCEPT !.samples = list]
      OBVIOUS
    <3>5. v \in Windows(bases, S) /\ v.dropped = w.dropped /\ v.samples = list /\ v.seen = w.seen
      BY <1>1, <3>4 DEF Windows
    <3>6. kept = [v EXCEPT !.dropped = w.dropped + 1]
      BY <2>2, <3>3, <3>4 DEF PrometheusPush
    <3> QED
      BY <1>1, <3>3, <3>5, <3>6 DEF Windows
  <2>3. CASE ~(Len(w.samples) >= Retained)
    <3>1. kept = [w EXCEPT !.samples = Append(w.samples, s)]
      BY <2>3 DEF GreggPush, PrometheusPush
    <3> QED
      BY <1>1, <1>2, <3>1 DEF Windows
  <2> QED
    BY <2>1, <2>2, <2>3
<1>5. Push(source, w, s) = [kept EXCEPT !.seen = Append(w.seen, s)]
  BY <1>4 DEF Push
<1> HIDE DEF kept
<1>6. /\ Push(source, w, s) \in Windows(bases, S) /\ Push(source, w, s).dropped = kept.dropped
      /\ Push(source, w, s).samples = kept.samples /\ Push(source, w, s).seen = Append(w.seen, s)
  BY <1>1, <1>2, <1>4, <1>5 DEF Windows
<1>7. /\ Len(Append(w.seen, s)) = Len(kept.samples) + kept.dropped
      /\ kept.dropped = 0 => kept.samples = Append(w.seen, s)
  <2>1. CASE kept.dropped = w.dropped + 1 /\ Len(kept.samples) = Len(w.samples)
    <3>1. Len(w.samples) + w.dropped + 1 = Len(w.samples) + (w.dropped + 1) /\ w.dropped + 1 # 0
      BY <1>1, <1>2
    <3> QED
      BY <1>2, <1>3, <2>1, <3>1
  <2>2. CASE kept.dropped = w.dropped /\ kept.samples = Append(w.samples, s)
    <3>1. Len(w.samples) + w.dropped + 1 = Len(w.samples) + 1 + w.dropped
      BY <1>1, <1>2
    <3> QED
      BY <1>2, <1>3, <2>2, <3>1
  <2> QED
    BY <1>4, <2>1, <2>2
<1> QED
  BY <1>6, <1>7 DEF Whole

(* A request that fails leaves the samples alone.                          *)
LEMMA FailureIsWhole ==
  ASSUME NEW bases, NEW S, NEW w \in Windows(bases, S), Whole(w), NEW v,
         v = [w EXCEPT !.lost = @ + 1] \/ v = [w EXCEPT !.errors = @ + 1, !.lost = @ + 1]
  PROVE  v \in Windows(bases, S) /\ Whole(v)
<1>1. w.lost + 1 \in Nat /\ w.errors + 1 \in Nat /\ w.seen \in Seq(S)
  BY DEF Windows
<1>2. PICK u : u = [w EXCEPT !.errors = w.errors + 1]
  OBVIOUS
<1>3. u \in Windows(bases, S) /\ u.dropped = w.dropped /\ u.samples = w.samples /\ u.seen = w.seen
  BY <1>1, <1>2 DEF Windows
<1>4. v = [w EXCEPT !.lost = w.lost + 1] \/ v = [u EXCEPT !.lost = w.lost + 1]
  BY <1>2 DEF Windows
<1>5. v \in Windows(bases, S) /\ v.dropped = w.dropped /\ v.samples = w.samples /\ v.seen = w.seen
  BY <1>1, <1>3, <1>4 DEF Windows
<1> QED
  BY <1>5 DEF Whole

(* A list of numbers none of which is below the one before never falls.    *)
LEMMA NeverFalls ==
  ASSUME NEW run \in Seq(Int), \A i \in 1 .. Len(run) - 1 : ~(run[i + 1] < run[i])
  PROVE  \A i, j \in 1 .. Len(run) : i < j => run[i] <= run[j]
<1>1. Len(run) \in Nat /\ \A i \in 1 .. Len(run) : run[i] \in Int
  BY LenProperties, ElementOfSeq
<1> SUFFICES ASSUME NEW i \in 1 .. Len(run), NEW low \in 1 .. Len(run), i < low, ~(run[i] <= run[low])
             PROVE  FALSE
  OBVIOUS
<1> DEFINE Lower == {j \in Nat : j \in 1 .. Len(run) /\ i < j /\ ~(run[i] <= run[j])}
<1>2. Lower \subseteq Nat /\ Lower # {}
  <2>1. low \in Lower
    BY <1>1
  <2> QED
    BY <2>1
<1>3. PICK j \in Lower : \A k \in Lower : ~(<<k, j>> \in OpToRel(<, Nat))
  BY <1>2, NatLessThanWellFounded, WFMin
<1>4. \A k \in Lower : ~(k < j)
  BY <1>2, <1>3 DEF OpToRel
<1>5. j - 1 \in 1 .. Len(run) - 1 /\ j - 1 \in 1 .. Len(run) /\ (j - 1) + 1 = j /\ j - 1 < j /\ j - 1 \in Nat
  BY <1>1
<1>6. ~(run[j] < run[j - 1]) /\ run[j] \in Int /\ run[j - 1] \in Int /\ run[i] \in Int
  BY <1>1, <1>5
<1>7. ~(run[i] <= run[j])
  OBVIOUS
<1>8. i = j - 1 \/ i < j - 1
  BY <1>5
<1>9. ~(run[i] <= run[j - 1])
  BY <1>6, <1>7
<1>10. CASE i = j - 1
  BY <1>6, <1>9, <1>10
<1>11. CASE i < j - 1
  BY <1>4, <1>5, <1>9, <1>11
<1> QED
  BY <1>8, <1>10, <1>11

(* Every sample carries the field: they all count.                         *)
LEMMA AllPicked ==
  ASSUME NEW S, NEW list \in Seq(S)
  PROVE  Picked(list, 1 .. Len(list)) = list
<1>1. Len(list) \in Nat /\ list = [k \in 1 .. Len(list) |-> list[k]]
  BY LenProperties, SeqDef
<1>2. \A n \in Nat : Cardinality(1 .. n) = n
  BY FS_Interval
<1>3. ASSUME NEW k \in 1 .. Len(list) PROVE Nth(1 .. Len(list), k) = k
  <2>1. ASSUME NEW i \in 1 .. Len(list) PROVE Cardinality({j \in 1 .. Len(list) : j <= i}) = i
    <3>1. {j \in 1 .. Len(list) : j <= i} = 1 .. i
      BY <1>1
    <3>2. i \in Nat
      BY <1>1
    <3> QED
      BY <1>2, <3>1, <3>2
  <2> QED
    BY <2>1 DEF Nth
<1>4. Picked(list, 1 .. Len(list)) = [k \in 1 .. Len(list) |-> list[Nth(1 .. Len(list), k)]]
  BY <1>1, <1>2 DEF Picked
<1> QED
  BY <1>1, <1>3, <1>4

LEMMA AllCarry ==
  ASSUME NEW S, NEW samples \in Seq(S), NEW name,
         \A i \in DOMAIN samples : name \in DOMAIN samples[i].values
  PROVE  ValuesOf(samples, name) = [i \in 1 .. Len(samples) |-> samples[i].values[name]]
<1>1. Len(samples) \in Nat /\ DOMAIN samples = 1 .. Len(samples)
  BY LenProperties
<1>2. {i \in DOMAIN samples : name \in DOMAIN samples[i].values} = 1 .. Len(samples)
  BY <1>1
<1>3. Picked(samples, {i \in DOMAIN samples : name \in DOMAIN samples[i].values}) = samples
  BY <1>2, AllPicked
<1> QED
  BY <1>1, <1>3 DEF ValuesOf

(* A scraped sample holds the integers of its page, and one field of the   *)
(* mapping has a name.                                                     *)
LEMMA OneFieldByName ==
  ASSUME NEW r, PrometheusBuilds(r), NEW f \in Kept(r)
  PROVE  \A g \in Kept(r) : g.name = f.name => g = f
BY DEF PrometheusBuilds, MappingLoads, MappingValid, Kept, ToSet

LEMMA PageValues ==
  ASSUME NEW r, r.source = Prometheus, PrometheusBuilds(r), NEW page \in Pages,
         NEW name \in DOMAIN Sample(r, page).values
  PROVE  Sample(r, page).values[name] \in Int
<1> DEFINE line(f) == {i \in DOMAIN page.lines : Carries(page.lines[i], f)}
           field == CHOOSE f \in Kept(r) : f.name = name
<1>1. Sample(r, page).values = ParsedPage(page, Kept(r))
  BY DEF Sample, Prometheus, Gregg
<1>2. PICK f \in Kept(r) : f.name = name /\ line(f) # {}
  BY <1>1 DEF ParsedPage
<1>3. field = f
  BY <1>2, OneFieldByName
<1>4. Sample(r, page).values[name] = page.lines[CHOOSE i \in line(f) : TRUE].value
  <2>1. name \in {g.name : g \in {h \in Kept(r) : line(h) # {}}}
    BY <1>2
  <2>2. Sample(r, page).values[name] = page.lines[CHOOSE i \in line(field) : TRUE].value
    BY <1>1, <2>1 DEF ParsedPage
  <2> QED
    BY <1>3, <2>2
<1>5. (CHOOSE i \in line(f) : TRUE) \in line(f)
  BY <1>2
<1> QED
  BY <1>4, <1>5, PagesAssumption

LEMMA BuiltStays ==
  ASSUME TelemetryInv, [Next]_vars
  PROVE  requests' = requests /\ built' = built
BY Actions, TaskStep, ConcludeStep
   DEF Probes, PassOver, ProbeSucceeds, ProbeFails, ProbeDiscarded, PointEnds, Startup, BeginTrial,
       OpenWindow, OpenFails, Measure, WorkEnds, TakeWindow, Joined, Closed, Drain, Drained, Cancel,
       TelemetryInv, setup, vars

(* What a collector was built from is a request for it that can be built.  *)
LEMMA BuiltBuilds ==
  ASSUME FieldsTyped, NEW c \in DOMAIN built
  PROVE  built[c].source = c /\ Builds(built[c])
<1> DEFINE usable == {i \in DOMAIN requests : Builds(requests[i])}
           one == CHOOSE i \in usable : requests[i].source = c
<1>1. DOMAIN built = {requests[i].source : i \in usable} /\ built[c] = requests[one]
  BY DEF FieldsTyped, Registry
<1>2. one \in usable /\ requests[one].source = c
  BY <1>1
<1> QED
  BY <1>1, <1>2

(* A source is probed, active and opened only when it was built.           *)
SourcesInv == Elements(active) \cup Elements(probed) \cup Elements(opened) \subseteq DOMAIN built

LEMMA SourcesKept == TelemetryInv /\ SourcesInv /\ [Next]_vars => SourcesInv'
<1> SUFFICES ASSUME TelemetryInv, SourcesInv, [Next]_vars PROVE SourcesInv'
  OBVIOUS
<1>1. /\ built' = built /\ Elements(active) \subseteq DOMAIN built
      /\ Elements(probed) \subseteq DOMAIN built /\ Elements(opened) \subseteq DOMAIN built
      /\ Elements(<<>>) = {} /\ <<>> \in Seq(Collectors)
      /\ active \in Seq(Collectors) /\ probed \in Seq(Collectors) /\ opened \in Seq(Collectors)
  BY BuiltStays, EmptySeq DEF SourcesInv, TelemetryInv, FieldsTyped, Elements
<1>2. /\ \A list : Elements(list') = Elements(list)'
      /\ Elements(active') = Elements(active)' /\ Elements(probed') = Elements(probed)'
      /\ Elements(opened') = Elements(opened)'
  BY DEF Elements
<1>3. CASE UNCHANGED active /\ (probed' = probed \/ probed' = <<>>) /\ (opened' = opened \/ opened' = <<>>)
  BY <1>1, <1>2, <1>3 DEF SourcesInv
<1>4. ASSUME NEW point \in {"before", "after"}, ProbeSucceeds(point) PROVE SourcesInv'
  <2> DEFINE c == This(requests).source
  <2>1. c \in DOMAIN built /\ probed' = Append(probed, c) /\ UNCHANGED <<active, opened>>
    BY <1>4 DEF ProbeSucceeds, Here
  <2>2. c \in Collectors
    BY <2>1, BuiltSources DEF TelemetryInv
  <2>3. Elements(Append(probed, c)) = Elements(probed) \cup {c}
    BY <1>1, <2>2, ElementsOf
  <2> QED
    BY <1>1, <1>2, <2>1, <2>3 DEF SourcesInv
<1>5. ASSUME NEW point \in {"before", "after"}, PointEnds(point) PROVE SourcesInv'
  <2>1. active' = active \o probed /\ probed' = <<>> /\ opened' = opened
    BY <1>5 DEF PointEnds
  <2>2. Gregg \in Collectors
    BY DEF Collectors
  <2>3. Elements(active \o probed) = Elements(active) \cup Elements(probed)
    BY <1>1, <2>2, ElementsOf
  <2> QED
    BY <1>1, <1>2, <2>1, <2>3 DEF SourcesInv
<1>6. CASE OpenWindow
  <2> DEFINE c == active[at + 1]
  <2>1. /\ step = "open" /\ at < Len(active) /\ opened' = Append(opened, c)
        /\ UNCHANGED <<active, probed>>
    BY <1>6 DEF OpenWindow, Doing, This, plan
  <2>2. at \in Nat /\ Len(active) \in Nat /\ DOMAIN active = 1 .. Len(active)
    BY <1>1, LenProperties DEF TelemetryInv, FieldsTyped
  <2>3. c \in Elements(active) /\ c \in Collectors
    BY <1>1, <2>1, <2>2, ElementOfSeq DEF Elements
  <2>4. Elements(Append(opened, c)) = Elements(opened) \cup {c}
    BY <1>1, <2>3, ElementsOf
  <2> QED
    BY <1>1, <1>2, <2>1, <2>3, <2>4 DEF SourcesInv
<1>7. ASSUME NEW point \in {"before", "after"}, PassOver(point) \/ ProbeFails(point) \/ ProbeDiscarded(point)
      PROVE  SourcesInv'
  BY <1>3, <1>7 DEF PassOver, ProbeFails, ProbeDiscarded
<1>8. CASE Startup \/ BeginTrial \/ OpenFails \/ Measure \/ WorkEnds \/ TakeWindow \/ Joined \/ Closed \/ Drain \/ Drained
  BY <1>3, <1>8
     DEF Startup, BeginTrial, OpenFails, Measure, WorkEnds, TakeWindow, Joined, Closed, Drain, Drained, plan
<1>9. CASE Concludes \/ Cancel \/ (\E c \in Collectors : Task(c)) \/ vars' = vars
  BY <1>3, <1>9, ConcludeStep, TaskStep DEF Cancel, plan, vars, TelemetryInv
<1> QED
  BY Actions, <1>4, <1>5, <1>6, <1>7, <1>8, <1>9 DEF Probes

(* The samples of a window change by one request at a time: the first, one *)
(* more, or one that failed.                                               *)
Follows(c, w) ==
  \/ \E s \in SamplesOf(c) : w = Fresh(built[c], s) \/ w = Push(c, data[c], s)
  \/ w = [data[c] EXCEPT !.lost = @ + 1]
  \/ w = [data[c] EXCEPT !.errors = @ + 1, !.lost = @ + 1]

Turn(c, w) == data' = [data EXCEPT ![c] = w] /\ Follows(c, w)

LEMMA ConcludeTurn ==
  ASSUME NEW c, c = This(opened), FinalSample \/ NoFinalSample
  PROVE  \E w : Stopping("final") /\ Conclude(c, w) /\ Turn(c, w)
<1>1. CASE FinalSample
  <2>1. PICK answer \in Answers(c) :
          Stopping("final") /\ Conclude(c, Push(c, data[c], Sample(built[c], answer)))
    BY <1>1 DEF FinalSample
  <2>2. Sample(built[c], answer) \in SamplesOf(c)
    BY DEF SamplesOf
  <2>3. Turn(c, Push(c, data[c], Sample(built[c], answer)))
    BY <2>1, <2>2 DEF Conclude, Turn, Follows
  <2> QED
    BY <2>1, <2>3
<1>2. CASE NoFinalSample
  BY <1>2 DEF NoFinalSample, Conclude, Turn, Follows
<1> QED
  BY <1>1, <1>2

LEMMA TaskTurn ==
  ASSUME FieldsTyped, \E c \in Collectors : Task(c)
  PROVE  /\ UNCHANGED outputs
         /\ UNCHANGED data \/ \E c \in Collectors : \E w : task[c] # "none" /\ Turn(c, w)
<1>1. PICK c \in Collectors : Task(c)
  OBVIOUS
<1>2. CASE Poll(c) \/ Obey(c)
  BY <1>2 DEF Poll, Obey, results
<1>3. CASE PollAnswers(c)
  <2>1. PICK answer \in Answers(c) :
          task[c] = "fetch" /\ Ends(c, Push(c, data[c], Sample(built[c], answer)))
    BY <1>3 DEF PollAnswers
  <2>2. Sample(built[c], answer) \in SamplesOf(c)
    BY DEF SamplesOf
  <2>3. Turn(c, Push(c, data[c], Sample(built[c], answer))) /\ UNCHANGED outputs
    BY <2>1, <2>2 DEF Ends, Turn, Follows, results
  <2> QED
    BY <2>1, <2>3
<1>4. CASE PollFails(c)
  BY <1>4 DEF PollFails, Ends, Turn, Follows, results
<1> QED
  BY <1>1, <1>2, <1>3, <1>4 DEF Task

LEMMA OpenTurn ==
  ASSUME OpenWindow
  PROVE  \E w : Turn(active[at + 1], w)
BY DEF OpenWindow, This, SamplesOf, Turn, Follows

LEMMA DataTurn ==
  ASSUME TelemetryInv, [Next]_vars
  PROVE  UNCHANGED data \/ \E c \in Collectors : \E w : Turn(c, w)
<1>1. FieldsTyped
  BY DEF TelemetryInv
<1>2. CASE OpenWindow
  <2>1. active[at + 1] \in Collectors
    BY <1>1, <1>2, ElementOfSeq DEF OpenWindow, Doing, FieldsTyped
  <2> QED
    BY <1>2, <2>1, OpenTurn
<1>3. CASE FinalSample \/ NoFinalSample
  <2>1. This(opened) \in Collectors
    BY <1>1, <1>3, ElementOfSeq DEF FinalSample, NoFinalSample, Stopping, This, FieldsTyped
  <2> QED
    BY <1>3, <2>1, ConcludeTurn
<1>4. CASE \E c \in Collectors : Task(c)
  BY <1>1, <1>4, TaskTurn
<1>5. CASE StopExpires \/ Probes("before") \/ Probes("after") \/ Startup \/ BeginTrial \/ OpenFails \/ Measure
           \/ WorkEnds \/ TakeWindow \/ Joined \/ Closed \/ Drain \/ Drained \/ Cancel \/ vars' = vars
  BY <1>5
     DEF StopExpires, Probes, PassOver, ProbeSucceeds, ProbeFails, ProbeDiscarded, PointEnds, Startup, BeginTrial,
         OpenFails, Measure, WorkEnds, TakeWindow, Joined, Closed, Drain, Drained, Cancel, tasks, vars
<1> QED
  BY Actions, <1>2, <1>3, <1>4, <1>5 DEF Concludes

LEMMA DataKept == TelemetryInv /\ DataInv /\ [Next]_vars => DataInv'
<1> SUFFICES ASSUME TelemetryInv, DataInv, [Next]_vars PROVE DataInv'
  OBVIOUS
<1>1. built' = built
  BY BuiltStays
<1>2. /\ data = [d \in Collectors |-> data[d]]
      /\ \A d \in Collectors : data[d] \in Windows(BasesOf(d), SamplesOf(d)) /\ Whole(data[d])
  BY DEF DataInv
<1>3. \A d : BasesOf(d)' = BasesOf(d) /\ SamplesOf(d)' = SamplesOf(d)
  BY <1>1 DEF BasesOf, SamplesOf
<1>4. CASE UNCHANGED data
  BY <1>2, <1>3, <1>4 DEF DataInv
<1>5. ASSUME NEW c \in Collectors, NEW w, Turn(c, w) PROVE DataInv'
  <2>1. data' = [data EXCEPT ![c] = w] /\ Follows(c, w)
    BY <1>5 DEF Turn
  <2>2. w \in Windows(BasesOf(c), SamplesOf(c)) /\ Whole(w)
    <3>1. CASE \E s \in SamplesOf(c) : w = Fresh(built[c], s)
      <4>1. <<>> \in BasesOf(c) /\ \A s \in SamplesOf(c) : s.values \in BasesOf(c)
        BY DEF BasesOf
      <4> QED
        BY <3>1, <4>1, FreshIsWhole
    <3>2. CASE \E s \in SamplesOf(c) : w = Push(c, data[c], s)
      BY <1>2, <3>2, PushIsWhole
    <3>3. CASE w = [data[c] EXCEPT !.lost = @ + 1] \/ w = [data[c] EXCEPT !.errors = @ + 1, !.lost = @ + 1]
      <4>1. PICK before : before = data[c]
        OBVIOUS
      <4>2. before \in Windows(BasesOf(c), SamplesOf(c)) /\ Whole(before)
        BY <1>2, <4>1
      <4>3. w = [before EXCEPT !.lost = @ + 1] \/ w = [before EXCEPT !.errors = @ + 1, !.lost = @ + 1]
        BY <3>3, <4>1
      <4> QED
        BY <4>2, <4>3, FailureIsWhole, Zenon
    <3> QED
      BY <2>1, <3>1, <3>2, <3>3 DEF Follows
  <2>3. data' = [d \in Collectors |-> data'[d]]
    BY <1>2, <2>1
  <2>4. data'[c] = w /\ \A d \in Collectors \ {c} : data'[d] = data[d]
    BY <1>2, <2>1
  <2> QED
    BY <1>2, <1>3, <2>2, <2>3, <2>4 DEF DataInv
<1> QED
  BY <1>4, <1>5, DataTurn

(* Until a trial is read, its outputs are what its stopped windows gave:   *)
(* the task of such a window is gone, so nothing it sampled changes.       *)
Stopped(c) ==
  /\ c \in DOMAIN built /\ task[c] = "none"
  /\ outputs[c] = Output(built[c], data[c]) /\ ~RequiredInvalid(built[c], data[c])

OutInv ==
  /\ step \in {"open", "work", "salvage", "abandon"} => DOMAIN outputs = {}
  /\ closing = "final" => task[opened[at + 1]] = "none"
  /\ step = "close" => \A c \in DOMAIN outputs : \E i \in 1 .. at : c = opened[i]
  /\ \A c \in DOMAIN outputs : Stopped(c)

LEMMA InitOutputs == Init => SourcesInv /\ DataInv /\ OutInv
<1> SUFFICES ASSUME Init PROVE SourcesInv /\ DataInv /\ OutInv
  OBVIOUS
<1>1. SourcesInv
  BY DEF Init, SourcesInv, Elements
<1>2. DataInv
  <2>1. \A S : <<>> \in Seq(S) /\ Len(<<>>) = 0 /\ 0 + 0 = 0 /\ 0 \in Nat
    BY EmptySeq
  <2>2. \A c : NoWindow \in Windows(BasesOf(c), SamplesOf(c)) /\ Whole(NoWindow)
    BY <2>1 DEF NoWindow, Windows, Whole, BasesOf
  <2> QED
    BY <2>2 DEF Init, DataInv
<1>3. OutInv
  BY DEF Init, OutInv
<1> QED
  BY <1>1, <1>2, <1>3

(* Outputs and samples stay, and no task begins that had ended.            *)
LEMMA OutputsStay ==
  ASSUME TelemetryInv, OutInv, UNCHANGED <<built, outputs>>,
         \A c \in DOMAIN outputs : task[c] = "none" => task'[c] = "none" /\ data'[c] = data[c]
  PROVE  \A c \in DOMAIN outputs : Stopped(c)'
BY DEF OutInv, Stopped

LEMMA OutKept == TelemetryInv /\ SourcesInv /\ DataInv /\ OutInv /\ [Next]_vars => OutInv'
<1> SUFFICES ASSUME TelemetryInv, SourcesInv, DataInv, OutInv, [Next]_vars PROVE OutInv'
  OBVIOUS
<1>1. FieldsTyped /\ WindowInv /\ built' = built
  BY BuiltStays DEF TelemetryInv
<1>2. /\ at \in Nat /\ Len(opened) \in Nat /\ opened \in Seq(Collectors)
      /\ DOMAIN opened = 1 .. Len(opened) /\ DOMAIN built \subseteq Collectors
      /\ \A i \in DOMAIN opened : opened[i] \in Collectors
  BY <1>1, LenProperties, ElementOfSeq, BuiltSources DEF FieldsTyped
<1>3. DOMAIN data = Collectors /\ DOMAIN task = Collectors
  BY <1>1 DEF DataInv, FieldsTyped
<1>4. DOMAIN outputs \subseteq Collectors
  BY <1>2 DEF OutInv, Stopped
<1>5. \/ step \notin {"open", "work", "salvage", "abandon"}
      \/ DOMAIN outputs = {}
  BY DEF OutInv
<1>6. CASE Probes("before") \/ Probes("after") \/ Startup \/ BeginTrial \/ Drain \/ Drained
  <2>1. /\ step \in Probing \cup {"trial", "drain"}
        /\ UNCHANGED <<closing, data>>
        /\ (outputs' = outputs /\ step' \in Probing \cup {"trial", "drain", "done"}) \/ (outputs' = <<>> /\ step' = "open")
        /\ task' = task \/ \E c : task' = [task EXCEPT ![c] = "none"]
    BY <1>6 DEF Probes, PassOver, ProbeSucceeds, ProbeFails, ProbeDiscarded, PointEnds, Startup, BeginTrial, Drain,
                Drained, Here, Doing, Through, Enter, Probing, tasks, results
  <2>2. closing' = "take"
    BY <1>1, <2>1 DEF WindowInv, Probing, Stoppings
  <2>3. DOMAIN <<>> = {}
    OBVIOUS
  <2>4. CASE outputs' = outputs /\ step' \in Probing \cup {"trial", "drain", "done"}
    <3>1. \A c \in DOMAIN outputs : task[c] = "none" => task'[c] = "none" /\ data'[c] = data[c]
      BY <1>3, <1>4, <2>1
    <3>2. \A c \in DOMAIN outputs : Stopped(c)'
      BY <1>1, <2>4, <3>1, OutputsStay
    <3> QED
      BY <2>2, <2>4, <3>2 DEF OutInv, Probing
  <2>5. CASE outputs' = <<>> /\ step' = "open"
    BY <2>2, <2>3, <2>5 DEF OutInv
  <2> QED
    BY <2>1, <2>4, <2>5
<1>7. CASE OpenWindow \/ OpenFails \/ Measure \/ WorkEnds
  <2>1. /\ step \in {"open", "work"} /\ UNCHANGED <<closing, outputs>>
    BY <1>7 DEF OpenWindow, OpenFails, Measure, WorkEnds, Doing, Through, results
  <2>2. closing' = "take" /\ DOMAIN outputs' = {}
    BY <1>1, <1>5, <2>1 DEF WindowInv, Stoppings
  <2> QED
    BY <2>2 DEF OutInv
<1>8. CASE TakeWindow \/ Joined
  <2>1. /\ UNCHANGED <<step, at, opened, task, data, outputs>>
        /\ closing' = "join" \/ (closing' = "final" /\ task[opened[at + 1]] = "none")
    BY <1>8 DEF TakeWindow, Joined, This, tasks, results
  <2>2. \A c \in DOMAIN outputs : Stopped(c)'
    BY <1>1, <2>1, OutputsStay
  <2> QED
    BY <2>1, <2>2 DEF OutInv
<1>9. CASE StopExpires
  <2>1. /\ UNCHANGED <<step, opened, task, data, outputs>> /\ closing' = "take" /\ at' = at + 1
    BY <1>9 DEF StopExpires, Settled, tasks
  <2>2. \A c \in DOMAIN outputs : Stopped(c)'
    BY <1>1, <2>1, OutputsStay
  <2>3. 1 .. at \subseteq 1 .. at'
    BY <1>2, <2>1
  <2> QED
    BY <2>1, <2>2, <2>3 DEF OutInv
<1>10. CASE FinalSample \/ NoFinalSample
  <2>0. PICK c : c = opened[at + 1]
    OBVIOUS
  <2>1. PICK w : Stopping("final") /\ Conclude(c, w) /\ data' = [data EXCEPT ![c] = w]
    BY <1>10, <2>0, ConcludeTurn DEF This, Turn
  <2>2. /\ step \in Stoppings /\ at < Len(opened) /\ closing = "final"
        /\ at' = at + 1 /\ closing' = "take" /\ UNCHANGED <<step, opened, task>>
        /\ \/ outputs' = outputs
           \/ /\ step = "close" /\ ~RequiredInvalid(built[c], w)
              /\ outputs' = [d \in DOMAIN outputs \cup {c} |-> IF d = c THEN Output(built[c], w) ELSE outputs[d]]
    BY <2>1 DEF Stopping, Stoppings, Conclude, Settled
  <2>3. at + 1 \in 1 .. Len(opened) /\ c \in Collectors
    BY <1>2, <2>0, <2>2
  <2>4. c \in DOMAIN built
    BY <1>2, <2>0, <2>3 DEF SourcesInv, Elements
  <2>5. task[c] = "none"
    BY <2>0, <2>2 DEF OutInv
  <2>6. c \notin DOMAIN outputs
    <3>1. CASE step # "close"
      BY <1>5, <2>2, <3>1 DEF Stoppings
    <3>2. CASE step = "close"
      <4>1. \A i \in 1 .. at : i \in 1 .. Len(opened) /\ i # at + 1
        BY <1>2, <2>2
      <4>2. \A i \in 1 .. at : opened[i] # c
        BY <1>1, <2>0, <2>3, <4>1 DEF WindowInv
      <4> QED
        BY <3>2, <4>2 DEF OutInv
    <3> QED
      BY <3>1, <3>2
  <2>7. data'[c] = w /\ \A d \in DOMAIN outputs : data'[d] = data[d]
    BY <1>3, <1>4, <2>1, <2>3, <2>6
  <2>8. \A i \in 1 .. at : i \in 1 .. at'
    BY <1>2, <2>2
  <2>9. at + 1 \in 1 .. at'
    BY <1>2, <2>2
  <2>10. CASE outputs' = outputs
    <3>1. \A d \in DOMAIN outputs : Stopped(d)'
      BY <1>1, <2>2, <2>7, <2>10, OutputsStay
    <3> QED
      BY <2>2, <2>8, <2>10, <3>1 DEF OutInv
  <2>11. CASE /\ step = "close" /\ ~RequiredInvalid(built[c], w)
              /\ outputs' = [d \in DOMAIN outputs \cup {c} |-> IF d = c THEN Output(built[c], w) ELSE outputs[d]]
    <3>1. DOMAIN outputs' = DOMAIN outputs \cup {c}
      BY <2>11
    <3>2. outputs'[c] = Output(built[c], w) /\ \A d \in DOMAIN outputs : outputs'[d] = outputs[d]
      BY <2>6, <2>11
    <3>3. Stopped(c)'
      BY <1>1, <2>2, <2>4, <2>5, <2>7, <2>11, <3>2 DEF Stopped
    <3>4. ASSUME NEW d \in DOMAIN outputs PROVE Stopped(d)'
      <4>1. Stopped(d)
        BY DEF OutInv
      <4> QED
        BY <1>1, <2>2, <2>7, <3>2, <4>1 DEF Stopped
    <3>5. ASSUME NEW d \in DOMAIN outputs PROVE \E i \in 1 .. at : d = opened[i]
      BY <2>11 DEF OutInv
    <3>6. c = opened'[at + 1]
      BY <2>0, <2>2
    <3>7. \A d \in DOMAIN outputs' : \E i \in 1 .. at' : d = opened'[i]
      BY <2>2, <2>8, <2>9, <3>1, <3>5, <3>6
    <3>8. step' = "close" /\ closing' = "take"
      BY <2>2, <2>11
    <3>9. \A d \in DOMAIN outputs' : Stopped(d)'
      BY <3>1, <3>3, <3>4
    <3> QED
      BY <3>7, <3>8, <3>9 DEF OutInv
  <2> QED
    BY <2>2, <2>10, <2>11
<1>11. CASE Closed
  <2>1. /\ step \in Stoppings /\ at = Len(opened) /\ step' \in {"trial", "drain"}
        /\ outputs' = outputs \/ outputs' = <<>>
        /\ UNCHANGED <<closing, task, data>>
    BY <1>11 DEF Closed, Stoppings, Enter, tasks
  <2>2. closing' = "take"
    BY <1>1, <1>2, <2>1 DEF WindowInv
  <2>3. \A c \in DOMAIN outputs' : Stopped(c)'
    <3>1. CASE outputs' = outputs
      BY <1>1, <2>1, <3>1, OutputsStay
    <3>2. CASE outputs' = <<>>
      BY <3>2
    <3> QED
      BY <2>1, <3>1, <3>2
  <2> QED
    BY <2>1, <2>2, <2>3 DEF OutInv
<1>12. CASE (\E c \in Collectors : Task(c)) \/ Cancel \/ vars' = vars
  <2>1. /\ UNCHANGED <<step, at, opened, closing, outputs>>
        /\ \A c \in Collectors : task[c] = "none" => task'[c] = "none" /\ data'[c] = data[c]
    <3>1. CASE \E c \in Collectors : Task(c)
      <4>1. /\ UNCHANGED <<step, at, opened, closing, outputs>>
            /\ \A c \in Collectors : task'[c] # "none" => task[c] # "none"
        BY <1>1, <3>1, TaskStep, TaskTurn
      <4>2. UNCHANGED data \/ \E c \in Collectors : \E w : task[c] # "none" /\ data' = [data EXCEPT ![c] = w]
        BY <1>1, <3>1, TaskTurn DEF Turn
      <4>3. \A c \in Collectors : task[c] = "none" => data'[c] = data[c]
        BY <1>3, <4>2
      <4> QED
        BY <4>1, <4>3
    <3>2. CASE Cancel \/ vars' = vars
      BY <3>2 DEF Cancel, vars, tasks, results
    <3> QED
      BY <1>12, <3>1, <3>2
  <2>2. \A c \in DOMAIN outputs : Stopped(c)'
    BY <1>1, <1>4, <2>1, OutputsStay
  <2>3. closing = "final" => opened[at + 1] \in Collectors
    <3>1. closing = "final" => at < Len(opened)
      BY <1>1 DEF WindowInv
    <3> QED
      BY <1>2, <3>1
  <2> QED
    BY <2>1, <2>2, <2>3 DEF OutInv
<1> QED
  BY Actions, <1>6, <1>7, <1>8, <1>9, <1>10, <1>11, <1>12 DEF Concludes

(* A snapshot is lost to a poll that failed, which the window counts, or   *)
(* it is the last one, and then the trial that has the output is told.     *)
Even(w) == w.lost = w.errors

LostInv ==
  /\ \A c \in window : Even(data[c])
  /\ closing # "take" => Even(data[opened[at + 1]])
  /\ \A c \in DOMAIN outputs : Even(data[c]) \/ c \in warned

LEMMA FreshIsEven ==
  ASSUME NEW r, NEW first
  PROVE  Even(Fresh(r, first))
BY DEF Even, Fresh

LEMMA PushIsEven ==
  ASSUME NEW bases, NEW S, NEW w \in Windows(bases, S), Even(w), NEW s, NEW source
  PROVE  Even(Push(source, w, s))
<1>1. PICK kept : kept = IF source = Gregg THEN GreggPush(w, s) ELSE PrometheusPush(w, s)
  OBVIOUS
<1>2. DOMAIN kept = DOMAIN w /\ kept.lost = w.lost /\ kept.errors = w.errors
  <2>1. CASE source = Gregg
    BY <1>1, <2>1 DEF GreggPush, Windows
  <2>2. CASE source # Gregg
    BY <1>1, <2>2 DEF PrometheusPush, Windows
  <2> QED
    BY <2>1, <2>2
<1>3. Push(source, w, s) = [kept EXCEPT !.seen = Append(@, s)]
  BY <1>1 DEF Push
<1> QED
  BY <1>2, <1>3 DEF Even

LEMMA FailureIsEven ==
  ASSUME NEW bases, NEW S, NEW w \in Windows(bases, S), Even(w)
  PROVE  Even([w EXCEPT !.errors = @ + 1, !.lost = @ + 1])
BY DEF Even, Windows

LEMMA TaskEven ==
  ASSUME FieldsTyped, DataInv, \E c \in Collectors : Task(c)
  PROVE  /\ UNCHANGED warned
         /\ \A d \in Collectors : Even(data[d]) => Even(data'[d])
<1>1. PICK c \in Collectors : Task(c)
  OBVIOUS
<1>2. DOMAIN data = Collectors /\ data[c] \in Windows(BasesOf(c), SamplesOf(c))
  BY DEF DataInv
<1>3. CASE Poll(c) \/ Obey(c)
  BY <1>3 DEF Poll, Obey, results
<1>4. CASE PollAnswers(c)
  <2>1. PICK s : Ends(c, Push(c, data[c], s))
    BY <1>4 DEF PollAnswers
  <2>2. data' = [data EXCEPT ![c] = Push(c, data[c], s)] /\ UNCHANGED warned
    BY <2>1 DEF Ends, results
  <2>3. Even(data[c]) => Even(Push(c, data[c], s))
    BY <1>2, PushIsEven
  <2> QED
    BY <1>2, <2>2, <2>3
<1>5. CASE PollFails(c)
  <2>1. PICK w : w = [data[c] EXCEPT !.errors = @ + 1, !.lost = @ + 1]
    OBVIOUS
  <2>2. data' = [data EXCEPT ![c] = w] /\ UNCHANGED warned
    BY <1>5, <2>1 DEF PollFails, Ends, results
  <2>3. Even(data[c]) => Even(w)
    BY <1>2, <2>1, FailureIsEven
  <2> QED
    BY <1>2, <2>2, <2>3
<1> QED
  BY <1>1, <1>3, <1>4, <1>5 DEF Task

LEMMA LostKept == TelemetryInv /\ DataInv /\ OutInv /\ LostInv /\ [Next]_vars => LostInv'
<1> SUFFICES ASSUME TelemetryInv, DataInv, OutInv, LostInv, [Next]_vars PROVE LostInv'
  OBVIOUS
<1>1. FieldsTyped /\ WindowInv /\ DOMAIN data = Collectors /\ window \subseteq Collectors
  BY DEF TelemetryInv, DataInv, FieldsTyped
<1>2. /\ at \in Nat /\ Len(opened) \in Nat /\ DOMAIN opened = 1 .. Len(opened)
      /\ \A i \in DOMAIN opened : opened[i] \in Collectors
  BY <1>1, LenProperties, ElementOfSeq DEF FieldsTyped
<1>3. closing # "take" => /\ step \in Stoppings /\ at + 1 \in 1 .. Len(opened) /\ opened[at + 1] \in Collectors
                          /\ opened[at + 1] \notin window
  <2>1. SUFFICES ASSUME closing # "take"
                 PROVE  /\ step \in Stoppings /\ at + 1 \in 1 .. Len(opened) /\ opened[at + 1] \in Collectors
                        /\ opened[at + 1] \notin window
    OBVIOUS
  <2>2. step \in Stoppings /\ at < Len(opened) /\ window = Unclosed(at + 2)
    BY <1>1, <2>1 DEF WindowInv
  <2>3. at + 1 \in 1 .. Len(opened)
    BY <1>2, <2>2
  <2>4. \A i \in at + 2 .. Len(opened) : i \in 1 .. Len(opened) /\ i # at + 1
    BY <1>2
  <2>5. opened[at + 1] \notin window
    BY <1>1, <2>2, <2>3, <2>4 DEF Unclosed, WindowInv
  <2> QED
    BY <1>2, <2>2, <2>3, <2>5
<1>4. DOMAIN <<>> = {}
  OBVIOUS
<1>5. CASE \/ Probes("before") \/ Probes("after") \/ Startup \/ BeginTrial \/ OpenFails \/ Measure \/ WorkEnds
           \/ Drain \/ Drained \/ Closed
  <2>1. /\ data' = data /\ window' \subseteq window /\ closing' = closing
        /\ UNCHANGED <<outputs, warned>> \/ outputs' = <<>>
        /\ step \notin Stoppings \/ at = Len(opened)
    BY <1>5 DEF Probes, PassOver, ProbeSucceeds, ProbeFails, ProbeDiscarded, PointEnds, Startup, BeginTrial,
       OpenFails, Measure, WorkEnds, Drain, Drained, Closed, Here, Doing, Through, Enter, tasks, results, Stoppings
  <2>2. closing' = "take"
    <3>1. at = Len(opened) => at + 1 \notin 1 .. Len(opened)
      BY <1>2
    <3> QED
      BY <1>3, <2>1, <3>1
  <2> QED
    BY <1>4, <2>1, <2>2 DEF LostInv
<1>6. CASE OpenWindow
  <2>1. PICK c, s : /\ c = active[at + 1] /\ data' = [data EXCEPT ![c] = Fresh(built[c], s)]
                    /\ window' = window \cup {c} /\ step = "open" /\ at < Len(active)
                    /\ UNCHANGED <<closing, outputs, warned>>
    BY <1>6 DEF OpenWindow, Doing, This, results
  <2>2. DOMAIN outputs = {} /\ closing = "take"
    BY <1>3, <2>1 DEF OutInv, Stoppings
  <2>3. c \in Collectors
    BY <1>1, <2>1, ElementOfSeq DEF FieldsTyped
  <2>4. Even(data'[c]) /\ \A d \in Collectors \ {c} : data'[d] = data[d]
    BY <1>1, <2>1, <2>3, FreshIsEven
  <2> QED
    BY <1>1, <2>1, <2>2, <2>4 DEF LostInv
<1>7. CASE TakeWindow \/ Joined
  <2>1. /\ UNCHANGED <<data, at, opened, outputs, warned>> /\ window' \subseteq window
        /\ closing = "take" => step \in Stoppings /\ at < Len(opened)
    BY <1>7 DEF TakeWindow, Joined, Stopping, Stoppings, tasks, results
  <2>2. Even(data[opened[at + 1]])
    <3>1. CASE closing = "take"
      <4>1. window = Unclosed(at + 1)
        BY <1>1, <2>1, <3>1 DEF WindowInv
      <4>2. at + 1 \in at + 1 .. Len(opened)
        BY <1>2, <2>1, <3>1
      <4> QED
        BY <4>1, <4>2 DEF Unclosed, LostInv
    <3>2. CASE closing # "take"
      BY <3>2 DEF LostInv
    <3> QED
      BY <3>1, <3>2
  <2> QED
    BY <2>1, <2>2 DEF LostInv
<1>8. CASE StopExpires
  BY <1>8 DEF StopExpires, Settled, LostInv, tasks
<1>9. CASE FinalSample \/ NoFinalSample
  <2>0. PICK c : c = opened[at + 1]
    OBVIOUS
  <2>1. PICK w : Stopping("final") /\ Conclude(c, w) /\ data' = [data EXCEPT ![c] = w]
    BY <1>9, <2>0, ConcludeTurn DEF This, Turn
  <2>2. /\ closing = "final" /\ closing' = "take" /\ window' = window
        /\ \A d \in DOMAIN outputs' : d # c => d \in DOMAIN outputs
    BY <2>1 DEF Stopping, Conclude, Settled
  <2>3. c \in Collectors /\ c \notin window /\ Even(data[c])
    BY <1>3, <2>0, <2>2 DEF LostInv
  <2>4. data'[c] = w /\ \A d \in Collectors \ {c} : data'[d] = data[d]
    BY <1>1, <2>1, <2>3
  <2>5. \A d \in DOMAIN outputs : d \in Collectors
    BY <1>1, BuiltSources DEF OutInv, Stopped
  <2>6. CASE FinalSample
    <3>1. PICK s : Conclude(c, Push(c, data[c], s)) /\ UNCHANGED warned
      BY <2>0, <2>6 DEF FinalSample, This
    <3>2. data' = [data EXCEPT ![c] = Push(c, data[c], s)]
      BY <3>1 DEF Conclude
    <3>3. data'[c] = Push(c, data[c], s)
      BY <1>1, <2>3, <3>2
    <3>4. data[c] \in Windows(BasesOf(c), SamplesOf(c))
      BY <2>3 DEF DataInv
    <3>5. Even(data'[c])
      BY <2>3, <3>3, <3>4, PushIsEven
    <3> QED
      BY <1>1, <2>2, <2>3, <2>4, <2>5, <3>1, <3>5 DEF LostInv
  <2>7. CASE NoFinalSample
    <3>1. warned' = IF c \in DOMAIN outputs' THEN warned \cup {c} ELSE warned
      BY <2>0, <2>7 DEF NoFinalSample, This
    <3> QED
      BY <1>1, <2>2, <2>3, <2>4, <2>5, <3>1 DEF LostInv
  <2> QED
    BY <1>9, <2>6, <2>7
<1>10. CASE Cancel \/ vars' = vars
  BY <1>10 DEF Cancel, vars, tasks, results, LostInv
<1>11. CASE \E c \in Collectors : Task(c)
  <2>1. UNCHANGED <<at, opened, closing, window, outputs, warned>>
    BY <1>1, <1>11, TaskStep, TaskTurn, TaskEven
  <2>2. \A d \in Collectors : Even(data[d]) => Even(data'[d])
    BY <1>1, <1>11, TaskEven
  <2>3. \A d \in DOMAIN outputs : d \in Collectors
    BY <1>1, BuiltSources DEF OutInv, Stopped
  <2> QED
    BY <1>1, <1>3, <2>1, <2>2, <2>3 DEF LostInv
<1> QED
  BY Actions, <1>5, <1>6, <1>7, <1>8, <1>9, <1>10, <1>11 DEF Concludes

OutputsInv == TelemetryInv /\ SourcesInv /\ DataInv /\ OutInv /\ LostInv

LEMMA OutputsInductive == Spec => []OutputsInv
<1>1. Init => OutputsInv
  <2>1. Init => LostInv
    BY DEF Init, LostInv
  <2> QED
    BY <2>1, InitTelemetry, InitOutputs DEF OutputsInv
<1>2. OutputsInv /\ [Next]_vars => OutputsInv'
  BY FieldsKept, ProbeKept, WindowKept, TaskKept, SourcesKept, DataKept, OutKept, LostKept
     DEF OutputsInv, TelemetryInv
<1> QED
  BY <1>1, <1>2, PTL DEF Spec

(* What the invariant says of one collector whose outputs a trial has.     *)
LEMMA OutputOf ==
  ASSUME OutputsInv, NEW c \in DOMAIN outputs
  PROVE  /\ c \in Collectors /\ built[c].source = c /\ Builds(built[c])
         /\ data[c] \in Windows(BasesOf(c), SamplesOf(c)) /\ Whole(data[c])
         /\ outputs[c] = Output(built[c], data[c]) /\ ~RequiredInvalid(built[c], data[c])
<1>1. FieldsTyped /\ Stopped(c) /\ c \in DOMAIN built
  BY DEF OutputsInv, TelemetryInv, OutInv, Stopped
<1>2. c \in Collectors /\ built[c].source = c /\ Builds(built[c])
  BY <1>1, BuiltSources, BuiltBuilds
<1> QED
  BY <1>1, <1>2 DEF OutputsInv, DataInv, Stopped

(* The invariant gives the properties.                                     *)
LEMMA NothingLostFromInv == OutputsInv => NothingLostSilently
<1> SUFFICES ASSUME OutputsInv, NEW c \in DOMAIN outputs
             PROVE  LET w == data[c] IN
                    /\ Len(w.seen) = Len(w.samples) + w.dropped
                    /\ w.dropped = 0 => \A name \in DOMAIN outputs[c] :
                         LET values == Observed(c, name) IN
                         IF c = Gregg THEN outputs[c][name] = Aggregate(HostMetrics[name], values)
                         ELSE LET f == CHOOSE f \in Kept(built[c]) : f.name = name IN
                              IF f.kind = "gauge" THEN outputs[c][name] = Aggregate(f.aggregation, values)
                              ELSE outputs[c][name] = Last(<<w.base[name]>> \o values) - w.base[name]
  BY DEF NothingLostSilently
<1>1. /\ c \in Collectors /\ built[c].source = c /\ Whole(data[c]) /\ outputs[c] = Output(built[c], data[c])
  BY OutputOf
<1>2. Len(data[c].seen) = Len(data[c].samples) + data[c].dropped
  BY <1>1 DEF Whole
<1>3. ASSUME data[c].dropped = 0, c = Gregg, NEW name \in DOMAIN outputs[c]
      PROVE  outputs[c][name] = Aggregate(HostMetrics[name], Observed(c, name))
  <2>1. outputs[c] = HostOutput(built[c], data[c])
    BY <1>1, <1>3 DEF Output
  <2>2. outputs[c][name] = Aggregate(HostMetrics[name], ValuesOf(Deduplicated(data[c].samples), name))
    BY <1>3, <2>1 DEF HostOutput
  <2>3. Observed(c, name) = ValuesOf(Deduplicated(data[c].samples), name)
    BY <1>1, <1>3 DEF Whole, Observed
  <2> QED
    BY <2>2, <2>3
<1>4. ASSUME data[c].dropped = 0, c # Gregg, NEW name \in DOMAIN outputs[c], NEW f,
             f = CHOOSE g \in Kept(built[c]) : g.name = name
      PROVE  IF f.kind = "gauge" THEN outputs[c][name] = Aggregate(f.aggregation, Observed(c, name))
             ELSE outputs[c][name] = Last(<<data[c].base[name]>> \o Observed(c, name)) - data[c].base[name]
  <2>1. outputs[c] = ScrapeOutput(built[c], data[c])
    BY <1>1, <1>4 DEF Output
  <2>2. outputs[c][name] = FieldValue(f, data[c]) /\ \E g \in Kept(built[c]) : g.name = name
    BY <1>4, <2>1 DEF ScrapeOutput
  <2>3. f.name = name
    BY <1>4, <2>2
  <2>4. Observed(c, name) = ValuesOf(data[c].samples, name)
    BY <1>1, <1>4 DEF Whole, Observed
  <2> QED
    BY <2>2, <2>3, <2>4 DEF FieldValue, CounterDelta, CounterRun
<1> QED
  BY <1>2, <1>3, <1>4

LEMMA RequiredFromInv == OutputsInv => RequiredIsWhole
<1> SUFFICES ASSUME OutputsInv, Prometheus \in DOMAIN outputs, NEW f \in Kept(built[Prometheus]), f.required
             PROVE  LET w == data[Prometheus]
                        values == Observed(Prometheus, f.name)
                    IN  /\ f.name \in DOMAIN outputs[Prometheus]
                        /\ w.errors = 0 /\ Len(values) = Len(w.seen) /\ Len(w.samples) = Len(w.seen)
                        /\ w.lost = 0 \/ Prometheus \in warned
                        /\ f.kind = "counter" =>
                             LET run == <<w.base[f.name]>> \o values IN
                             /\ \A i, j \in DOMAIN run : i < j => run[i] <= run[j]
                             /\ outputs[Prometheus][f.name] = run[Len(run)] - run[1]
  BY DEF RequiredIsWhole
<1>1. PICK w, r : w = data[Prometheus] /\ r = built[Prometheus]
  OBVIOUS
<1>2. /\ r.source = Prometheus /\ Builds(r) /\ w \in Windows(BasesOf(Prometheus), SamplesOf(Prometheus))
      /\ Whole(w) /\ outputs[Prometheus] = Output(r, w) /\ ~RequiredInvalid(r, w) /\ f \in Kept(r)
  BY <1>1, OutputOf
<1>3. Prometheus # Gregg
  BY DEF Prometheus, Gregg
<1>4. PrometheusBuilds(r) /\ outputs[Prometheus] = ScrapeOutput(r, w)
  BY <1>2, <1>3 DEF Builds, Output
<1>5. Reported(f, w)
  BY <1>2 DEF RequiredInvalid
<1>6. /\ w.errors = 0 /\ w.dropped = 0 /\ Measurable(f, w)
      /\ \A i \in DOMAIN w.samples : f.name \in DOMAIN w.samples[i].values
  <2>1. w.errors \in Nat /\ w.dropped \in Nat
    BY <1>2 DEF Windows
  <2>2. /\ ~(w.errors > 0) /\ ~(w.dropped > 0) /\ Measurable(f, w)
        /\ \A i \in DOMAIN w.samples : f.name \in DOMAIN w.samples[i].values
    BY <1>5 DEF Reported, RequiredGap
  <2> QED
    BY <2>1, <2>2
<1>7. w.samples = w.seen /\ w.samples \in Seq(SamplesOf(Prometheus))
  BY <1>2, <1>6 DEF Whole, Windows
<1>8. PICK values : values = Observed(Prometheus, f.name)
  OBVIOUS
<1>9. values = ValuesOf(w.samples, f.name)
  BY <1>1, <1>3, <1>7, <1>8 DEF Observed
<1>10. /\ values = [i \in 1 .. Len(w.samples) |-> w.samples[i].values[f.name]]
       /\ DOMAIN w.samples = 1 .. Len(w.samples) /\ Len(w.samples) \in Nat
  <2>1. DOMAIN w.samples = 1 .. Len(w.samples) /\ Len(w.samples) \in Nat
    BY <1>7, LenProperties
  <2> QED
    BY <1>6, <1>7, <1>9, <2>1, AllCarry
<1>11. \A i \in 1 .. Len(w.samples) : values[i] \in Int
  <2>1. SUFFICES ASSUME NEW i \in 1 .. Len(w.samples) PROVE w.samples[i].values[f.name] \in Int
    BY <1>10
  <2>2. w.samples[i] \in SamplesOf(Prometheus)
    BY <1>7, <1>10, ElementOfSeq
  <2>3. PICK page \in Pages : w.samples[i] = Sample(r, page)
    BY <1>1, <1>3, <2>2 DEF SamplesOf, Answers
  <2>4. f.name \in DOMAIN Sample(r, page).values
    BY <1>6, <1>10, <2>3
  <2> QED
    BY <1>2, <1>4, <2>3, <2>4, PageValues
<1>12. values \in Seq(Int) /\ Len(values) = Len(w.samples)
  BY <1>10, <1>11
<1>13. f.name \in DOMAIN outputs[Prometheus] /\ outputs[Prometheus][f.name] = FieldValue(f, w)
  <2>1. (CHOOSE g \in Kept(r) : g.name = f.name) = f
    BY <1>2, <1>4, OneFieldByName
  <2> QED
    BY <1>2, <1>4, <1>5, <2>1 DEF ScrapeOutput
<1>14. ASSUME f.kind = "counter", NEW run, run = <<w.base[f.name]>> \o values
       PROVE  /\ \A i, j \in DOMAIN run : i < j => run[i] <= run[j]
              /\ outputs[Prometheus][f.name] = run[Len(run)] - run[1]
  <2>1. f.name \in DOMAIN w.base /\ ~CounterReset(f, w)
    BY <1>6, <1>14 DEF Measurable
  <2>2. w.base[f.name] \in Int
    <3>1. PICK s \in SamplesOf(Prometheus) : w.base = s.values
      <4>1. DOMAIN <<>> = {}
        OBVIOUS
      <4>2. w.base \in BasesOf(Prometheus)
        BY <1>2 DEF Windows
      <4> QED
        BY <2>1, <4>1, <4>2 DEF BasesOf
    <3>2. PICK page \in Pages : s = Sample(r, page)
      BY <1>1, <1>3 DEF SamplesOf, Answers
    <3> QED
      BY <1>2, <1>4, <2>1, <3>1, <3>2, PageValues
  <2>3. <<w.base[f.name]>> \in Seq(Int) /\ Len(<<w.base[f.name]>>) = 1
    BY <2>2
  <2>4. run \in Seq(Int) /\ Len(run) = 1 + Len(values) /\ run[1] = w.base[f.name]
    BY <1>12, <1>14, <2>2, <2>3
  <2>5. run = CounterRun(f, w)
    BY <1>9, <1>14 DEF CounterRun
  <2>6. \A i \in 1 .. Len(run) - 1 : ~(run[i + 1] < run[i])
    BY <2>1, <2>5 DEF CounterReset
  <2>7. DOMAIN run = 1 .. Len(run)
    BY <2>4, LenProperties
  <2>8. \A i, j \in DOMAIN run : i < j => run[i] <= run[j]
    BY <2>4, <2>6, <2>7, NeverFalls
  <2>9. outputs[Prometheus][f.name] = run[Len(run)] - run[1]
    BY <1>13, <1>14, <2>4, <2>5 DEF FieldValue, CounterDelta, Last
  <2> QED
    BY <2>8, <2>9
<1>15. w.lost = 0 \/ Prometheus \in warned
  BY <1>1, <1>6 DEF OutputsInv, LostInv, Even
<1> QED
  BY <1>1, <1>6, <1>7, <1>8, <1>12, <1>13, <1>14, <1>15

(* For every section, every answer of the endpoints and every order of     *)
(* polls, stops, expiries and cancellations: what a window did not take    *)
(* over into a trial is counted, and without such a count the metric       *)
(* summarises all of it (push_sample, push_snapshot, stop_inner).          *)
THEOREM NothingIsLostSilently == Spec => []NothingLostSilently
BY OutputsInductive, NothingLostFromInv, PTL

(* A required scraped field reaches a trial only from a window without     *)
(* gap, eviction, failed poll or counter reset, and a counter as what it   *)
(* gained up to the window's last snapshot; when the snapshot after the    *)
(* workload is missing, the trial has the warning that says so             *)
(* (counter_delta, required_metric_invalid, final_snapshot_failed).        *)
THEOREM RequiredFieldsAreWhole == Spec => []RequiredIsWhole
BY OutputsInductive, RequiredFromInv, PTL
=============================================================================
