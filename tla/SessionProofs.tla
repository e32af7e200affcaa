--------------------------- MODULE SessionProofs ----------------------------
(***************************************************************************)
(* Proofs about the session, for every launch order.                       *)
(***************************************************************************)
EXTENDS Session, LogSpool, SequenceTheorems, TLAPS

LEMMA LaunchFacts ==
  /\ N \in Nat /\ Services = 1 .. N
  /\ \A s \in Services : Launch[s] \in Entry
BY LaunchAssumption, LenProperties, ElementOfSeq DEF N, Services

(* emit_event appends one event.                                           *)
LEMMA Emitted ==
  ASSUME events \in Seq(Event), NEW s \in Services, NEW kind \in EventKinds, Emit(s, kind)
  PROVE  /\ events' \in Seq(Event) /\ Len(events) \in Nat /\ Len(events') = Len(events) + 1
         /\ events'[Len(events) + 1] = Logged(s, kind)
         /\ \A k \in 1 .. Len(events) : events'[k] = events[k]
<1>1. Logged(s, kind) \in Event
  BY DEF Logged, Event
<1>2. events' = Append(events, Logged(s, kind))
  BY DEF Emit, Logged
<1> QED
  BY <1>1, <1>2, AppendProperties, LenProperties

(* What has occurred stays so, and what occurred before an event, too.     *)
LEMMA History ==
  ASSUME events \in Seq(Event), NEW s \in Services, NEW kind \in EventKinds, Emit(s, kind)
  PROVE  /\ \A t, q : Occurred(t, q)' <=> Occurred(t, q) \/ (t = s /\ q = kind)
         /\ \A k \in 1 .. Len(events) : \A t, q : Before(k, t, q)' <=> Before(k, t, q)
         /\ \A n : n = Len(events) + 1 => \A t, q : Before(n, t, q)' <=> Occurred(t, q)
<1>1. /\ Len(events) \in Nat /\ Len(events') = Len(events) + 1
      /\ events'[Len(events) + 1] = Logged(s, kind)
      /\ \A k \in 1 .. Len(events) : events'[k] = events[k]
  BY Emitted
<1>2. \A t, q : Logged(t, q) = Logged(s, kind) <=> t = s /\ q = kind
  BY DEF Logged
<1>3. ASSUME NEW t, NEW q PROVE Occurred(t, q)' <=> Occurred(t, q) \/ (t = s /\ q = kind)
  <2>1. Occurred(t, q)' <=> \E k \in 1 .. Len(events) + 1 : events'[k] = Logged(t, q)
    BY <1>1 DEF Occurred, Logged
  <2> QED
    BY <1>1, <1>2, <2>1 DEF Occurred
<1>4. ASSUME NEW k \in 1 .. Len(events) + 1, NEW t, NEW q
      PROVE  Before(k, t, q)' <=> \E i \in 1 .. k - 1 : events[i] = Logged(t, q)
  BY <1>1 DEF Before, Logged
<1>5. ASSUME NEW k \in 1 .. Len(events), NEW t, NEW q PROVE Before(k, t, q)' <=> Before(k, t, q)
  <2>1. k \in 1 .. Len(events) + 1
    BY <1>1
  <2>2. Before(k, t, q)' <=> \E i \in 1 .. k - 1 : events[i] = Logged(t, q)
    BY <1>4, <2>1
  <2> QED
    BY <2>2 DEF Before
<1>6. ASSUME NEW n, n = Len(events) + 1, NEW t, NEW q PROVE Before(n, t, q)' <=> Occurred(t, q)
  <2>1. n \in 1 .. Len(events) + 1 /\ n - 1 = Len(events)
    BY <1>1, <1>6
  <2> QED
    BY <1>4, <2>1 DEF Occurred
<1> QED
  BY <1>3, <1>5, <1>6

(***************************************************************************)
(* Where the session stands: it always runs a prefix of the launch order,  *)
(* because startup appends and teardown pops.                              *)
(***************************************************************************)
NotSpawned == {"entry", "resolve", "spawn", "adapterStart", "adapterConflict"}
Unready == {"delay", "probe", "backoff", "alive", "adapterReady"}
StopStages == {"grace", "kill", "killWait", "adapterStop"}

Owns == Len(running)

PlaceInv ==
  /\ Owns <= N /\ \A k \in 1 .. Owns : running[k] = k
  /\ stage = "idle" => Owns = 0 /\ next = 1
  /\ stage \in NotSpawned => Owns = next - 1
  /\ stage \in Unready => Owns = next
  /\ stage \in StartingStages \ {"entry"} => next <= N
  /\ stage = "up" => Owns = N
  /\ stage \in StopStages <=> stopping # 0
  /\ stopping # 0 => stopping = Owns + 1
  /\ stage \in StartingStages \cup {"idle", "up"} => cause = None
  /\ stage = "failed" => cause # None
  /\ stage = "stopped" => cause = None /\ Owns = 0

KindInv ==
  /\ stage \in {"resolve", "spawn", "delay", "probe", "backoff", "alive"} => Launch[next].kind = "Process"
  /\ stage \in {"adapterStart", "adapterConflict", "adapterReady"} => Launch[next].kind = "Adapter"
  /\ stage \in {"grace", "kill", "killWait"} => Launch[stopping].kind = "Process"
  /\ stage = "adapterStop" => Launch[stopping].kind = "Adapter"

Safe == TypeOK /\ PlaceInv /\ KindInv

(* Steps that neither start, make ready nor stop a service.                *)
Quiet ==
  \/ Startup \/ BeginEntry \/ Resolve \/ SpawnCancelled \/ SpawnFails \/ ReadinessCancelled
  \/ DelayExited \/ DelayElapsed \/ ProbeAttempt \/ ProbeAgain \/ ProbeTimeout \/ ProcessExitedEarly
  \/ AdapterStartCancelled \/ AdapterStartFails \/ AdapterDropped \/ AdapterConflicts
  \/ AdapterConflictStopped \/ AdapterReadinessFails \/ AdapterBindingsClash
  \/ Shutdown \/ GraceElapsed \/ KillGroup \/ TeardownDone \/ Environment

StartsOne == Spawn \/ AdapterStarts
ReadiesOne == ProcessReady \/ AdapterReady \/ ProcessBindingRefused
EndsOne == ChildReaped \/ KillFails \/ KillWaitElapsed \/ AdapterStopped

LEMMA StepKinds == Next <=> Quiet \/ StartsOne \/ ReadiesOne \/ StopNext \/ EndsOne
BY DEF Next, StartStep, TeardownStep, AdapterAnswer, Quiet, StartsOne, ReadiesOne, EndsOne

LEMMA QuietFrame == Quiet => UNCHANGED <<running, stopping, offer, events, failures, retained>>
BY DEF Quiet, Startup, BeginEntry, Resolve, SpawnCancelled, SpawnFails, ReadinessCancelled, DelayExited,
       DelayElapsed, ProbeAttempt, ProbeAgain, ProbeTimeout, ProcessExitedEarly, AdapterStartCancelled,
       AdapterStartFails, AdapterDropped, AdapterConflicts, AdapterConflictStopped, AdapterReadinessFails,
       AdapterBindingsClash, Shutdown, GraceElapsed, KillGroup, TeardownDone, Environment, Cancel, ProcessExits,
       At, bound, ledger, world, control

LEMMA InitSafe == Init => Safe
<1> SUFFICES ASSUME Init PROVE Safe
  OBVIOUS
<1>1. TypeOK
  <2>1. /\ next \in 1 .. N + 1 /\ stopping \in 0 .. N /\ stage \in Stages /\ offer \in Binding
        /\ {running, failures, reported} \subseteq Seq(Services) /\ events \in Seq(Event)
    BY LaunchFacts DEF Init, Stages, Binding
  <2>2. bindings \in [Sources -> Binding]
    BY LaunchAssumption DEF Init, Binding
  <2>3. proc \in [Services -> {"absent", "alive", "exited", "reaped"}]
    BY DEF Init
  <2> QED
    BY <2>1, <2>2, <2>3 DEF Init, TypeOK
<1>2. PlaceInv /\ KindInv
  BY LaunchFacts DEF Init, PlaceInv, KindInv, Owns, NotSpawned, Unready, StopStages, StartingStages
<1> QED
  BY <1>1, <1>2 DEF Safe

(* Causes and stages of the ways out of startup.                           *)
LEMMA WaysOut ==
  ASSUME TypeOK, NEW error \in Causes,
         Unwind(error) \/ Return(error) \/ CancelAfterStart \/ AdapterFailed(error)
  PROVE  stage' \in {"teardown", "failed"} /\ cause' \in Causes
BY DEF Unwind, Return, CancelAfterStart, AdapterFailed, Causes

StartFailures ==
  \/ SpawnCancelled \/ SpawnFails \/ ReadinessCancelled \/ DelayExited \/ ProbeTimeout
  \/ ProcessExitedEarly \/ AdapterStartCancelled \/ AdapterStartFails \/ AdapterDropped
  \/ AdapterConflictStopped \/ AdapterReadinessFails \/ AdapterBindingsClash

LEMMA FailuresLeave ==
  ASSUME Safe, StartFailures
  PROVE  /\ stage \in StartingStages
         /\ stage' \in {"teardown", "failed"} /\ cause' \in Causes
         /\ UNCHANGED <<next, running, stopping, bound, ledger, cancelled>>
         /\ proc' \in [Services -> {"absent", "alive", "exited", "reaped"}]
<1>1. {"Cancelled", "SpawnFailed", "ReadinessTimeout", "ProcessExitedEarly", "InvalidPlan",
       "BindingRefused", "UnsupportedService", "UnsupportedProbe", "CancelledBeforeSpawn"} \subseteq Causes
  BY DEF Causes
<1>2. stage \in StartingStages
  BY DEF StartFailures, SpawnCancelled, SpawnFails, ReadinessCancelled, DelayExited, ProbeTimeout,
         ProcessExitedEarly, AdapterStartCancelled, AdapterStartFails, AdapterDropped,
         AdapterConflictStopped, AdapterReadinessFails, AdapterBindingsClash, At, StartingStages
<1>3. stage' \in {"teardown", "failed"} /\ cause' \in Causes
  BY <1>1, WaysOut
  DEF StartFailures, SpawnCancelled, SpawnFails, ReadinessCancelled, DelayExited, ProbeTimeout,
      ProcessExitedEarly, AdapterStartCancelled, AdapterStartFails, AdapterDropped,
      AdapterConflictStopped, AdapterReadinessFails, AdapterBindingsClash, Safe
<1>4. UNCHANGED <<next, running, stopping, bound, ledger, cancelled>>
  BY DEF StartFailures, SpawnCancelled, SpawnFails, ReadinessCancelled, DelayExited, ProbeTimeout,
         ProcessExitedEarly, AdapterStartCancelled, AdapterStartFails, AdapterDropped,
         AdapterConflictStopped, AdapterReadinessFails, AdapterBindingsClash, At, world
<1>5. proc' \in [Services -> {"absent", "alive", "exited", "reaped"}]
  BY DEF StartFailures, SpawnCancelled, SpawnFails, ReadinessCancelled, DelayExited, ProbeTimeout,
         ProcessExitedEarly, AdapterStartCancelled, AdapterStartFails, AdapterDropped,
         AdapterConflictStopped, AdapterReadinessFails, AdapterBindingsClash, At, world, Safe, TypeOK
<1> QED
  BY <1>2, <1>3, <1>4, <1>5

LEMMA TypeKept ==
  ASSUME Safe, [Next]_vars PROVE TypeOK'
<1> USE LaunchFacts
<1>1. CASE UNCHANGED vars
  BY <1>1 DEF vars, control, bound, ledger, world, Safe, TypeOK
<1>2. CASE StartFailures
  BY <1>2, FailuresLeave DEF bound, ledger, Safe, TypeOK, Stages, TeardownStages
<1>3. CASE Startup
  BY <1>3 DEF Startup, At, Return, bound, ledger, world, Safe, TypeOK, Stages, StartingStages, Causes
<1>4. CASE BeginEntry
  BY <1>4 DEF BeginEntry, At, CancelAfterStart, Return, Unwind, bound, ledger, world, Safe, TypeOK, Stages,
              StartingStages, TeardownStages, Causes
<1>5. CASE Resolve
  <2>1. next \in Services /\ Launch[next].needs \subseteq Sources
    <3>1. next \in Services
      BY <1>5 DEF Resolve, At, Safe, TypeOK, PlaceInv, StartingStages
    <3> QED
      BY <3>1, LaunchAssumption DEF Sources
  <2>2. consumed' \subseteq Services \X Sources
    BY <1>5, <2>1 DEF Resolve, Safe, TypeOK
  <2> QED
    BY <1>5, <2>2 DEF Resolve, At, Unwind, ledger, world, Safe, TypeOK, Stages, StartingStages, TeardownStages, Causes
<1>6. CASE Spawn \/ AdapterStarts
  <2>1. next \in Services /\ UNCHANGED stopping
    BY <1>6 DEF Spawn, AdapterStarts, At, Safe, TypeOK, PlaceInv, StartingStages
  <2>2. events' \in Seq(Event) /\ running' \in Seq(Services)
    <3>1. Emit(next, "Spawned") /\ running' = Append(running, next)
      BY <1>6 DEF Spawn, AdapterStarts
    <3> QED
      BY <2>1, <3>1, Emitted, AppendProperties DEF Safe, TypeOK, EventKinds
  <2>3. stage' \in Stages
    BY <1>6, <2>1 DEF Spawn, AdapterStarts, Entry, Stages, StartingStages
  <2>4. offer' \in Binding \cup {"Foreign"} /\ UNCHANGED <<bindings, consumed>>
    BY <1>6 DEF Spawn, AdapterStarts, Safe, TypeOK, Binding, bound
  <2>5. proc' \in [Services -> {"absent", "alive", "exited", "reaped"}]
    BY <1>6 DEF Spawn, AdapterStarts, Safe, TypeOK
  <2> QED
    BY <1>6, <2>1, <2>2, <2>3, <2>4, <2>5 DEF Spawn, AdapterStarts, At, Safe, TypeOK
<1>7. CASE ProcessReady \/ AdapterReady \/ ProcessBindingRefused
  <2>1. next \in Services
    BY <1>7 DEF ProcessReady, AdapterReady, ProcessBindingRefused, At, Safe, TypeOK, PlaceInv, StartingStages
  <2>2. events' \in Seq(Event)
    BY <1>7, <2>1, Emitted DEF ProcessReady, AdapterReady, ProcessBindingRefused, Safe, TypeOK, EventKinds
  <2>3. bindings' \in [Sources -> Binding]
    <3>1. CASE ProcessReady
      <4>1. PICK value \in (IF Launch[next].declares THEN Declared \ {"Refused"} ELSE {"Absent"}) :
              bindings' = [bindings EXCEPT ![next] = value]
        BY <3>1 DEF ProcessReady
      <4>2. value \in Binding
        BY LaunchAssumption DEF Binding
      <4> QED
        BY <4>1, <4>2 DEF Safe, TypeOK
    <3>2. CASE AdapterReady
      BY <3>2 DEF AdapterReady, Safe, TypeOK, Binding
    <3>3. CASE ProcessBindingRefused
      BY <3>3 DEF ProcessBindingRefused, Safe, TypeOK, bound
    <3> QED
      BY <1>7, <3>1, <3>2, <3>3
  <2>4. next' \in 1 .. N + 1 /\ stage' \in Stages /\ cause' \in Causes \cup {None}
    BY <1>7, <2>1 DEF ProcessReady, AdapterReady, ProcessBindingRefused, Return, Safe, TypeOK, Stages, StartingStages, Causes
  <2> QED
    BY <1>7, <2>2, <2>3, <2>4 DEF ProcessReady, AdapterReady, ProcessBindingRefused, At, bound, world, Safe, TypeOK
<1>8. CASE DelayElapsed \/ ProbeAttempt \/ ProbeAgain \/ Shutdown \/ GraceElapsed \/ KillGroup \/ AdapterConflicts
  <2>1. UNCHANGED <<next, running, stopping, cause, bound, ledger, cancelled>>
    BY <1>8 DEF DelayElapsed, ProbeAttempt, ProbeAgain, Shutdown, GraceElapsed, KillGroup, AdapterConflicts, At, world
  <2>2. stage' \in Stages
    BY <1>8 DEF DelayElapsed, ProbeAttempt, ProbeAgain, Shutdown, GraceElapsed, KillGroup, AdapterConflicts,
                Stages, StartingStages, TeardownStages
  <2>3. proc' \in [Services -> {"absent", "alive", "exited", "reaped"}]
    BY <1>8 DEF DelayElapsed, ProbeAttempt, ProbeAgain, Shutdown, GraceElapsed, KillGroup, AdapterConflicts, world, Safe, TypeOK
  <2> QED
    BY <2>1, <2>2, <2>3 DEF bound, ledger, Safe, TypeOK
<1>9. CASE TeardownDone
  <2>1. <<>> \in Seq(Services)
    OBVIOUS
  <2> QED
    BY <1>9, <2>1 DEF TeardownDone, At, bound, world, Safe, TypeOK, Stages
<1>10. CASE Environment
  BY <1>10 DEF Environment, Cancel, ProcessExits, control, bound, ledger, Safe, TypeOK
<1>11. CASE StopNext
  <2>1. /\ Len(running) \in 1 .. N /\ stopping' = Len(running) /\ stopping' \in Services
        /\ running' \in Seq(Services)
    <3>1. Len(running) \in Nat /\ Len(running) # 0
      BY <1>11, LenProperties, EmptySeq DEF StopNext, Safe, TypeOK
    <3>2. Len(running) \in 1 .. N /\ running[Len(running)] = Len(running)
      BY <3>1 DEF Safe, PlaceInv, Owns
    <3>3. \A k \in 1 .. Len(running) - 1 : running[k] \in Services
      BY <3>1, <3>2 DEF Safe, PlaceInv, Owns
    <3>4. SubSeq(running, 1, Len(running) - 1) \in Seq(Services)
      BY <3>1, <3>3, SubSeqProperties
    <3> QED
      BY <1>11, <3>2, <3>4 DEF StopNext
  <2>2. events' \in Seq(Event)
    BY <1>11, <2>1, Emitted DEF StopNext, Emit, Safe, TypeOK, EventKinds, Event
  <2>3. stage' \in Stages
    BY <1>11 DEF StopNext, Stages, TeardownStages
  <2> QED
    BY <1>11, <2>1, <2>2, <2>3 DEF StopNext, bound, world, Safe, TypeOK
<1>12. CASE ChildReaped \/ KillFails \/ KillWaitElapsed \/ AdapterStopped
  <2>1. PICK failed \in BOOLEAN : Stopped(failed)
    BY <1>12 DEF ChildReaped, KillFails, KillWaitElapsed, AdapterStopped
  <2>2. stopping \in Services
    <3>1. stage \in StopStages
      BY <1>12 DEF ChildReaped, KillFails, KillWaitElapsed, AdapterStopped, StopStages
    <3>2. stopping \in 0 .. N /\ stopping # 0
      BY <3>1 DEF Safe, TypeOK, PlaceInv
    <3> QED
      BY <3>2
  <2>3. events' \in Seq(Event)
    BY <2>1, <2>2, Emitted DEF Stopped, Safe, TypeOK, EventKinds
  <2>4. failures' \in Seq(Services)
    BY <2>1, <2>2, AppendProperties DEF Stopped, Safe, TypeOK
  <2>5. proc' \in [Services -> {"absent", "alive", "exited", "reaped"}]
    BY <1>12 DEF ChildReaped, KillFails, KillWaitElapsed, AdapterStopped, Safe, TypeOK
  <2> QED
    BY <2>1, <2>2, <2>3, <2>4, <2>5 DEF Stopped, bound, Safe, TypeOK, Stages, TeardownStages
<1> QED
  BY <1>1, <1>2, <1>3, <1>4, <1>5, <1>6, <1>7, <1>8, <1>9, <1>10, <1>11, <1>12
  DEF Next, StartStep, TeardownStep, AdapterAnswer, StartFailures

(* StopNext takes the last service of the prefix.                          *)
LEMMA PopsLast ==
  ASSUME Safe, StopNext
  PROVE  /\ Owns \in 1 .. N /\ Owns' = Owns - 1 /\ stopping' = Owns /\ stopping = 0
         /\ Emit(Owns, "Stopping")
         /\ \A k \in 1 .. Owns' : running'[k] = k
         /\ stage' = IF Launch[Owns].kind = "Process" THEN "grace" ELSE "adapterStop"
         /\ UNCHANGED <<next, cause, bound, failures, reported, retained, world>>
<1>1. Owns \in Nat /\ Owns # 0
  BY LenProperties, EmptySeq DEF StopNext, Safe, TypeOK, Owns
<1>2. Owns \in 1 .. N /\ \A k \in 1 .. Owns : running[k] = k
  BY <1>1, LaunchFacts DEF Safe, PlaceInv
<1>3. stopping' = Owns /\ stopping = 0
  BY <1>2 DEF StopNext, Owns, Safe, PlaceInv, StopStages
<1>4. running' = SubSeq(running, 1, Owns - 1)
  BY DEF StopNext, Owns
<1>5. Owns' = Owns - 1 /\ \A k \in 1 .. Owns - 1 : running'[k] = running[k]
  <2>1. \A k \in 1 .. Owns - 1 : running[k] \in Services
    BY <1>1, <1>2, LaunchFacts
  <2> DEFINE n == Owns - 1
             rest == SubSeq(running, 1, n)
  <2>2. n \in Nat
    BY <1>1
  <2> HIDE DEF n
  <2>3. /\ Len(rest) = IF 1 <= n THEN n - 1 + 1 ELSE 0
        /\ \A k \in 1 .. n - 1 + 1 : rest[k] = running[1 + k - 1]
    BY <2>1, <2>2, SubSeqProperties DEF n
  <2>4. Len(rest) = n /\ \A k \in 1 .. n : rest[k] = running[k]
    BY <2>2, <2>3
  <2>5. running' = rest
    BY <1>4 DEF n
  <2> QED
    BY <2>4, <2>5 DEF Owns, n
<1>6. Emit(Owns, "Stopping")
  BY <1>3 DEF StopNext, Emit
<1>7. stage' = IF Launch[Owns].kind = "Process" THEN "grace" ELSE "adapterStop"
  BY <1>3 DEF StopNext
<1>8. UNCHANGED <<next, cause, bound, failures, reported, retained, world>>
  BY DEF StopNext
<1>9. \A k \in 1 .. Owns' : running'[k] = k
  BY <1>1, <1>2, <1>5
<1> QED
  BY <1>2, <1>3, <1>5, <1>6, <1>7, <1>8, <1>9

(* Spawn and AdapterStarts make the prefix longer by one.                  *)
LEMMA AppendsNext ==
  ASSUME Safe, StartsOne
  PROVE  /\ next \in Services /\ Owns = next - 1 /\ Owns' = next
         /\ \A k \in 1 .. Owns' : running'[k] = k
         /\ Emit(next, "Spawned")
         /\ stage \in {"spawn", "adapterStart"}
         /\ stage' \in Unready
         /\ UNCHANGED <<next, stopping, cause, bindings, consumed, failures, reported, retained, cancelled>>
<1>1. /\ stage \in {"spawn", "adapterStart"} /\ running' = Append(running, next) /\ Emit(next, "Spawned")
      /\ UNCHANGED <<next, stopping, cause, bindings, consumed, failures, reported, retained, cancelled>>
  BY DEF StartsOne, Spawn, AdapterStarts, At, bound
<1>2. next \in Services /\ Owns = next - 1
  BY <1>1, LaunchFacts DEF Safe, TypeOK, PlaceInv, StartingStages, NotSpawned
<1>3. stage' \in Unready
  BY <1>2, LaunchFacts DEF StartsOne, Spawn, AdapterStarts, Entry, Unready
<1>4. Owns' = Owns + 1 /\ running'[Owns + 1] = next /\ \A k \in 1 .. Owns : running'[k] = running[k]
  BY <1>1, <1>2, AppendProperties DEF Owns, Safe, TypeOK
<1>5. \A k \in 1 .. Owns : running[k] = k
  BY DEF Safe, PlaceInv
<1> QED
  BY <1>1, <1>2, <1>3, <1>4, <1>5, LaunchFacts

(* The stop of one service ends.                                           *)
LEMMA EndsStopping ==
  ASSUME Safe, EndsOne
  PROVE  /\ stage \in StopStages /\ stopping \in Services /\ stopping = Owns + 1
         /\ Emit(stopping, "Stopped") /\ stopping' = 0 /\ stage' = "teardown"
         /\ \/ failures' = failures /\ proc'[stopping] = "reaped"
            \/ failures' = Append(failures, stopping)
         /\ \A s \in Services : s # stopping => proc'[s] = proc[s]
         /\ retained' = IF Launch[stopping].kind = "Process" THEN retained \cup {stopping} ELSE retained
         /\ UNCHANGED <<next, running, cause, bound, reported, cancelled>>
<1>1. stage \in StopStages
  BY DEF EndsOne, ChildReaped, KillFails, KillWaitElapsed, AdapterStopped, StopStages
<1>2. stopping \in 0 .. N /\ stopping # 0 /\ stopping = Owns + 1
  BY <1>1 DEF Safe, TypeOK, PlaceInv
<1>3. stopping \in Services /\ proc \in [Services -> {"absent", "alive", "exited", "reaped"}]
  BY <1>2, LaunchFacts DEF Safe, TypeOK
<1>4. \E failed \in BOOLEAN : Stopped(failed) /\ (failed \/ proc'[stopping] = "reaped")
  BY <1>3 DEF EndsOne, ChildReaped, KillFails, KillWaitElapsed, AdapterStopped
<1>5. \A s \in Services : s # stopping => proc'[s] = proc[s]
  BY <1>3 DEF EndsOne, ChildReaped, KillFails, KillWaitElapsed, AdapterStopped
<1> QED
  BY <1>1, <1>2, <1>3, <1>4, <1>5 DEF Stopped

(* An entry becomes ready; or it is ready and its bindings are refused.    *)
LEMMA MakesReady ==
  ASSUME Safe, ReadiesOne
  PROVE  /\ stage \in {"alive", "adapterReady"} /\ next \in Services /\ Owns = next
         /\ Emit(next, "Ready")
         /\ \/ stage' = "entry" /\ next' = next + 1 /\ cause' = cause
            \/ stage' = "failed" /\ cause' = "BindingRefused" /\ next' = next /\ stage = "alive"
         /\ UNCHANGED <<running, stopping, consumed, failures, reported, retained, world>>
<1>1. stage \in {"alive", "adapterReady"}
  BY DEF ReadiesOne, ProcessReady, AdapterReady, ProcessBindingRefused, At
<1>2. next \in Services /\ Owns = next
  BY <1>1, LaunchFacts DEF Safe, TypeOK, PlaceInv, StartingStages, Unready
<1> QED
  BY <1>1, <1>2 DEF ReadiesOne, ProcessReady, AdapterReady, ProcessBindingRefused, At, Return, MayBeRefused, bound

LEMMA PlaceKept ==
  ASSUME Safe, [Next]_vars PROVE PlaceInv'
<1> USE LaunchFacts DEF StartingStages, NotSpawned, Unready, StopStages
<1>0. next \in 1 .. N + 1 /\ Owns \in Nat
  BY LenProperties DEF Safe, TypeOK, Owns
<1>1. CASE UNCHANGED vars
  BY <1>1 DEF vars, control, Safe, PlaceInv, Owns
<1>2. CASE StartFailures
  BY <1>2, FailuresLeave DEF Safe, PlaceInv, Owns, Causes, None
<1>3. CASE Startup \/ BeginEntry
  BY <1>0, <1>3, EmptySeq DEF Startup, BeginEntry, At, CancelAfterStart, Return, Unwind, Safe, PlaceInv, Owns, None
<1>4. CASE Resolve
  BY <1>0, <1>4 DEF Resolve, At, Unwind, Safe, PlaceInv, Owns, None
<1>5. CASE StartsOne
  BY <1>0, <1>5, AppendsNext DEF Safe, PlaceInv
<1>6. CASE ReadiesOne
  BY <1>0, <1>6, MakesReady DEF Safe, PlaceInv, Owns, None
<1>7. CASE DelayElapsed \/ ProbeAttempt \/ ProbeAgain \/ AdapterConflicts
  BY <1>7 DEF DelayElapsed, ProbeAttempt, ProbeAgain, AdapterConflicts, At, Safe, PlaceInv, Owns
<1>8. CASE Shutdown \/ GraceElapsed \/ KillGroup
  BY <1>8 DEF Shutdown, GraceElapsed, KillGroup, At, Safe, PlaceInv, Owns
<1>9. CASE TeardownDone
  BY <1>9, EmptySeq DEF TeardownDone, At, Safe, PlaceInv, Owns
<1>10. CASE Environment
  BY <1>10 DEF Environment, Cancel, ProcessExits, control, Safe, PlaceInv, Owns
<1>11. CASE StopNext
  BY <1>0, <1>11, PopsLast DEF StopNext, Safe, PlaceInv
<1>12. CASE EndsOne
  BY <1>12, EndsStopping DEF Safe, PlaceInv, Owns
<1> QED
  BY <1>1, <1>2, <1>3, <1>4, <1>5, <1>6, <1>7, <1>8, <1>9, <1>10, <1>11, <1>12, StepKinds
  DEF Quiet, StartFailures

LEMMA KindKept ==
  ASSUME Safe, [Next]_vars PROVE KindInv'
<1> USE LaunchFacts
<1>0. next \in 1 .. N + 1 /\ (next \in Services => Launch[next] \in Entry)
  BY DEF Safe, TypeOK
<1>1. CASE UNCHANGED vars
  BY <1>1 DEF vars, control, Safe, KindInv
<1>2. CASE StartFailures
  BY <1>2, FailuresLeave DEF KindInv
<1>3. CASE Startup \/ BeginEntry
  <2>1. CASE Startup
    BY <2>1 DEF Startup, At, Return, KindInv
  <2>2. CASE BeginEntry
    <3>1. ASSUME stage' \in {"resolve", "adapterStart"}
          PROVE  Launch[next].kind = (IF stage' = "resolve" THEN "Process" ELSE "Adapter")
      BY <1>0, <2>2, <3>1 DEF BeginEntry, CancelAfterStart, Return, Unwind, Entering, Entry
    <3>2. next' = next /\ stage' \in {"up", "failed", "teardown", "resolve", "adapterStart"}
      BY <2>2 DEF BeginEntry, CancelAfterStart, Return, Unwind
    <3> QED
      BY <3>1, <3>2 DEF KindInv
  <2> QED
    BY <1>3, <2>1, <2>2
<1>4. CASE Resolve
  BY <1>4 DEF Resolve, At, Unwind, Safe, KindInv
<1>5. CASE StartsOne
  <2>1. CASE Spawn
    <3>1. stage = "spawn" /\ next' = next /\ stage' \in {"alive", "delay", "probe"}
      BY <1>5, <2>1, AppendsNext DEF Spawn, At, Entry
    <3> QED
      BY <3>1 DEF Safe, KindInv
  <2>2. CASE AdapterStarts
    BY <2>2 DEF AdapterStarts, At, Safe, KindInv
  <2> QED
    BY <1>5, <2>1, <2>2 DEF StartsOne
<1>6. CASE ReadiesOne
  BY <1>6, MakesReady DEF KindInv
<1>7. CASE DelayElapsed \/ ProbeAttempt \/ ProbeAgain \/ AdapterConflicts
  BY <1>7 DEF DelayElapsed, ProbeAttempt, ProbeAgain, AdapterConflicts, At, Safe, KindInv
<1>8. CASE Shutdown \/ GraceElapsed \/ KillGroup
  BY <1>8 DEF Shutdown, GraceElapsed, KillGroup, At, Safe, KindInv
<1>9. CASE TeardownDone
  BY <1>9 DEF TeardownDone, At, Safe, KindInv
<1>10. CASE Environment
  BY <1>10 DEF Environment, Cancel, ProcessExits, control, Safe, KindInv
<1>11. CASE StopNext
  <2>1. Launch[Owns] \in Entry
    BY <1>11, PopsLast
  <2> QED
    BY <1>11, <2>1, PopsLast DEF KindInv, Entry
<1>12. CASE EndsOne
  BY <1>12, EndsStopping DEF KindInv
<1> QED
  BY <1>1, <1>2, <1>3, <1>4, <1>5, <1>6, <1>7, <1>8, <1>9, <1>10, <1>11, <1>12, StepKinds
  DEF Quiet, StartFailures

(* The control invariant of the session.                                   *)
THEOREM SafeInvariant == Spec => []Safe
<1>1. Safe /\ [Next]_vars => Safe'
  BY TypeKept, PlaceKept, KindKept DEF Safe
<1> QED
  BY InitSafe, <1>1, PTL DEF Spec

(* Every variable has its type.                                            *)
THEOREM TypeCorrect == Spec => []TypeOK
<1>1. Safe => TypeOK
  BY DEF Safe
<1> QED
  BY SafeInvariant, <1>1, PTL

(***************************************************************************)
(* The history: what the events say about the services the session runs,   *)
(* runs no longer, and has still to start.                                 *)
(***************************************************************************)
Early == stage \in StartingStages \cup {"idle", "up"}
Held(s) == s <= Owns \/ s = stopping

SpawnInv ==
  /\ \A s \in Services : s <= Owns => Occurred(s, "Spawned")
  /\ \A s \in Services : Occurred(s, "Spawned") => Held(s) \/ Occurred(s, "Stopped")
  /\ \A s \in Services :
       Launch[s].kind = "Process" /\ Occurred(s, "Spawned") => Held(s) \/ s \in retained

EarlyInv ==
  Early => /\ \A s \in Services : ~Occurred(s, "Stopped")
           /\ \A s \in Services : s < next => Occurred(s, "Ready")
           /\ Owns = 0 => events = <<>>

CauseInv ==
  /\ CancellationTruthful
  /\ cause = "CancelledBeforeSpawn" => stage = "failed"

HistoryInv ==
  SpawnInv /\ EarlyInv /\ CauseInv /\ DependenciesReady /\ DependentsStopFirst /\ StoppedOrReported

(* What a step that emits nothing may still change.                        *)
LEMMA QuietSteps ==
  ASSUME Safe, EarlyInv, SpawnInv, Quiet
  PROVE  /\ UNCHANGED <<running, stopping, events, failures, retained, next>>
         /\ Early' => Early
         /\ \A s \in Services : proc'[s] # proc[s] => stage \in StartingStages \/ proc[s] = "alive"
         /\ consumed' = consumed \/ (Resolve /\ consumed' = consumed \cup ({next} \X Launch[next].needs))
         /\ cancelled => cancelled'
         /\ \/ cause' = cause /\ (stage = "failed" => stage' = "failed")
            \/ cause' \notin {"Cancelled", "CancelledBeforeSpawn"}
            \/ cause' = "Cancelled" /\ cancelled' /\ events # <<>>
            \/ cause' = "CancelledBeforeSpawn" /\ cancelled' /\ events = <<>> /\ stage' = "failed"
<1> USE DEF StartingStages
<1>1. UNCHANGED <<running, stopping, events, failures, retained, next>>
  BY QuietFrame
  DEF Quiet, Startup, BeginEntry, Resolve, SpawnCancelled, SpawnFails, ReadinessCancelled, DelayExited,
      DelayElapsed, ProbeAttempt, ProbeAgain, ProbeTimeout, ProcessExitedEarly, AdapterStartCancelled,
      AdapterStartFails, AdapterDropped, AdapterConflicts, AdapterConflictStopped, AdapterReadinessFails,
      AdapterBindingsClash, Shutdown, GraceElapsed, KillGroup, TeardownDone, Environment, Cancel, ProcessExits, control
<1>2. Early' => Early
  BY DEF Quiet, Startup, BeginEntry, Resolve, SpawnCancelled, SpawnFails, ReadinessCancelled, DelayExited,
         DelayElapsed, ProbeAttempt, ProbeAgain, ProbeTimeout, ProcessExitedEarly, AdapterStartCancelled,
         AdapterStartFails, AdapterDropped, AdapterConflicts, AdapterConflictStopped, AdapterReadinessFails,
         AdapterBindingsClash, Shutdown, GraceElapsed, KillGroup, TeardownDone, Environment, Cancel, ProcessExits,
         control, At, Early
<1>3. \A s \in Services : proc'[s] # proc[s] => stage \in StartingStages \/ proc[s] = "alive"
  BY DEF Quiet, Startup, BeginEntry, Resolve, SpawnCancelled, SpawnFails, ReadinessCancelled, DelayExited,
         DelayElapsed, ProbeAttempt, ProbeAgain, ProbeTimeout, ProcessExitedEarly, AdapterStartCancelled,
         AdapterStartFails, AdapterDropped, AdapterConflicts, AdapterConflictStopped, AdapterReadinessFails,
         AdapterBindingsClash, Shutdown, GraceElapsed, KillGroup, TeardownDone, Environment, Cancel, ProcessExits,
         world, At, Safe, TypeOK
<1>4. consumed' = consumed \/ (Resolve /\ consumed' = consumed \cup ({next} \X Launch[next].needs))
  BY DEF Quiet, Startup, BeginEntry, Resolve, SpawnCancelled, SpawnFails, ReadinessCancelled, DelayExited,
         DelayElapsed, ProbeAttempt, ProbeAgain, ProbeTimeout, ProcessExitedEarly, AdapterStartCancelled,
         AdapterStartFails, AdapterDropped, AdapterConflicts, AdapterConflictStopped, AdapterReadinessFails,
         AdapterBindingsClash, Shutdown, GraceElapsed, KillGroup, TeardownDone, Environment, Cancel, ProcessExits, bound
<1>5. cancelled => cancelled'
  BY DEF Quiet, Startup, BeginEntry, Resolve, SpawnCancelled, SpawnFails, ReadinessCancelled, DelayExited,
         DelayElapsed, ProbeAttempt, ProbeAgain, ProbeTimeout, ProcessExitedEarly, AdapterStartCancelled,
         AdapterStartFails, AdapterDropped, AdapterConflicts, AdapterConflictStopped, AdapterReadinessFails,
         AdapterBindingsClash, Shutdown, GraceElapsed, KillGroup, TeardownDone, Environment, Cancel, ProcessExits, world
<1>6. ASSUME stage \in StartingStages PROVE running = <<>> <=> events = <<>>
  <2>1. Early /\ Owns \in Nat /\ (Owns = 0 <=> running = <<>>)
    BY <1>6, LenProperties, EmptySeq DEF Early, Safe, TypeOK, Owns
  <2>2. CASE Owns = 0
    BY <2>1, <2>2 DEF EarlyInv
  <2>3. CASE Owns # 0
    <3>1. 1 \in Services /\ 1 <= Owns
      BY <2>1, <2>3, LaunchFacts DEF Safe, PlaceInv
    <3>2. Occurred(1, "Spawned")
      BY <3>1 DEF SpawnInv
    <3> QED
      BY <2>1, <2>3, <3>2 DEF Occurred
  <2> QED
    BY <2>2, <2>3
<1>7. \/ cause' = cause /\ (stage = "failed" => stage' = "failed")
      \/ cause' \notin {"Cancelled", "CancelledBeforeSpawn"}
      \/ cause' = "Cancelled" /\ cancelled' /\ events # <<>>
      \/ cause' = "CancelledBeforeSpawn" /\ cancelled' /\ events = <<>> /\ stage' = "failed"
  <2>1. CASE StartFailures
    <3>1. cancelled' = cancelled /\ (running = <<>> <=> events = <<>>)
      BY <1>6, <2>1, FailuresLeave
    <3>2. ReadinessCancelled \/ AdapterReadinessFails => running # <<>>
      BY EmptySeq, LaunchFacts DEF ReadinessCancelled, AdapterReadinessFails, At, Safe, TypeOK, PlaceInv, Unready, Owns
    <3> QED
      BY <2>1, <3>1, <3>2
      DEF StartFailures, SpawnCancelled, SpawnFails, ReadinessCancelled, DelayExited, ProbeTimeout,
          ProcessExitedEarly, AdapterStartCancelled, AdapterStartFails, AdapterDropped,
          AdapterConflictStopped, AdapterReadinessFails, AdapterBindingsClash,
          CancelAfterStart, AdapterFailed, Unwind, Return
  <2>2. CASE BeginEntry
    <3>1. running = <<>> <=> events = <<>>
      BY <1>6, <2>2 DEF BeginEntry, At
    <3> QED
      BY <2>2, <3>1 DEF BeginEntry, At, CancelAfterStart, Unwind, Return, world
  <2>3. CASE ~StartFailures /\ ~BeginEntry
    BY <2>3
    DEF Quiet, StartFailures, Startup, Resolve, DelayElapsed, ProbeAttempt, ProbeAgain, AdapterConflicts,
        Shutdown, GraceElapsed, KillGroup, TeardownDone, Environment, Cancel, ProcessExits, control, At, Unwind, Return
  <2> QED
    BY <2>1, <2>2, <2>3
<1> QED
  BY <1>1, <1>2, <1>3, <1>4, <1>5, <1>7

LEMMA InitHistory == Init => HistoryInv
BY LaunchFacts, EmptySeq
DEF Init, HistoryInv, SpawnInv, EarlyInv, CauseInv, DependenciesReady, DependentsStopFirst, StoppedOrReported,
    CancellationTruthful, Occurred, Owns, Held, None

LEMMA HistoryKeptQuiet ==
  ASSUME Safe, HistoryInv, Quiet PROVE HistoryInv'
<1>0. EarlyInv /\ SpawnInv
  BY DEF HistoryInv
<1>1. UNCHANGED <<running, stopping, events, failures, retained, next>>
  BY <1>0, QuietSteps
<1>2. \A s, q : Occurred(s, q)' <=> Occurred(s, q)
  BY <1>1 DEF Occurred, Logged
<1>3. SpawnInv'
  BY <1>0, <1>1, <1>2 DEF SpawnInv, Held, Owns
<1>4. EarlyInv'
  <2>1. Early' => Early
    BY <1>0, QuietSteps
  <2> QED
    BY <1>0, <1>1, <1>2, <2>1 DEF EarlyInv, Owns
<1>5. CauseInv'
  <2>1. cancelled => cancelled'
    BY <1>0, QuietSteps
  <2>2. \/ cause' = cause /\ (stage = "failed" => stage' = "failed")
        \/ cause' \notin {"Cancelled", "CancelledBeforeSpawn"}
        \/ cause' = "Cancelled" /\ cancelled' /\ events # <<>>
        \/ cause' = "CancelledBeforeSpawn" /\ cancelled' /\ events = <<>> /\ stage' = "failed"
    BY <1>0, QuietSteps
  <2> QED
    BY <1>1, <2>1, <2>2 DEF HistoryInv, CauseInv, CancellationTruthful
<1>6. DependenciesReady'
  <2>1. \A k : \A s, q : Before(k, s, q)' <=> Before(k, s, q)
    BY <1>1 DEF Before, Logged
  <2>2. ASSUME NEW use \in consumed', use[2] # External PROVE Occurred(use[2], "Ready")
    <3>1. CASE use \in consumed
      BY <2>2, <3>1 DEF HistoryInv, DependenciesReady
    <3>2. CASE Resolve /\ use \in {next} \X Launch[next].needs
      <4>1. stage = "resolve" /\ next \in Services
        BY <3>2, LaunchFacts DEF Resolve, At, Safe, TypeOK, PlaceInv, StartingStages
      <4>2. use[2] \in Services /\ use[2] < next
        BY <2>2, <3>2, <4>1, LaunchAssumption, LaunchFacts DEF External
      <4>3. Early
        BY <4>1 DEF Early, StartingStages
      <4> QED
        BY <1>0, <4>2, <4>3 DEF EarlyInv
    <3> QED
      BY <1>0, <2>2, <3>1, <3>2, QuietSteps
  <2> QED
    BY <1>1, <1>2, <2>1, <2>2 DEF HistoryInv, DependenciesReady
<1>7. DependentsStopFirst'
  <2>1. \A k : \A s, q : Before(k, s, q)' <=> Before(k, s, q)
    BY <1>1 DEF Before, Logged
  <2> QED
    BY <1>1, <2>1 DEF HistoryInv, DependentsStopFirst
<1>8. StoppedOrReported'
  <2>1. ASSUME NEW s \in Services, Occurred(s, "Stopped"), proc[s] = "reaped" PROVE proc'[s] = "reaped"
    BY <1>0, <2>1, QuietSteps DEF EarlyInv, Early
  <2> QED
    BY <1>1, <1>2, <2>1 DEF HistoryInv, StoppedOrReported, Reported
<1> QED
  BY <1>3, <1>4, <1>5, <1>6, <1>7, <1>8 DEF HistoryInv

LEMMA HistoryKeptStart ==
  ASSUME Safe, HistoryInv, StartsOne PROVE HistoryInv'
<1>0. EarlyInv /\ SpawnInv /\ Early /\ cause = None /\ stopping = 0
  BY AppendsNext DEF HistoryInv, Early, StartingStages, Safe, PlaceInv, StopStages
<1>1. /\ next \in Services /\ Owns' = next /\ Owns = next - 1 /\ stopping' = 0 /\ Emit(next, "Spawned")
      /\ UNCHANGED <<next, cause, consumed, failures, retained>>
  BY <1>0, AppendsNext
<1>n. PICK n : n = Len(events) + 1
  OBVIOUS
<1>2. /\ \A t, q : Occurred(t, q)' <=> Occurred(t, q) \/ (t = next /\ q = "Spawned")
      /\ \A k \in 1 .. Len(events) : \A t, q : Before(k, t, q)' <=> Before(k, t, q)
      /\ \A t, q : Before(n, t, q)' <=> Occurred(t, q)
  BY <1>n, <1>1, History DEF Safe, TypeOK, EventKinds
<1>3. /\ Len(events) \in Nat /\ Len(events') = n /\ events'[n] = Logged(next, "Spawned")
      /\ \A k \in 1 .. Len(events) : events'[k] = events[k]
  BY <1>n, <1>1, Emitted DEF Safe, TypeOK, EventKinds
<1>4. SpawnInv'
  BY <1>0, <1>1, <1>2, LaunchFacts DEF SpawnInv, Held
<1>5. EarlyInv'
  BY <1>0, <1>1, <1>2, LaunchFacts DEF EarlyInv
<1>6. CauseInv'
  BY <1>0, <1>1 DEF CauseInv, CancellationTruthful, None
<1>7. \A k \in 1 .. Len(events') : k \in 1 .. Len(events) \/ k = n
  BY <1>n, <1>3
<1>8. DependenciesReady'
  <2>1. \A d \in Launch[next].deps : Occurred(d, "Ready")
    <3>1. \A d \in Launch[next].deps : d \in Services /\ d < next
      BY <1>1, LaunchAssumption, LaunchFacts
    <3> QED
      BY <1>0, <3>1 DEF EarlyInv
  <2>2. events'[n].id = next
    BY <1>3 DEF Logged
  <2>3. \A use \in consumed' : use[2] # External => Occurred(use[2], "Ready")'
    BY <1>1, <1>2 DEF HistoryInv, DependenciesReady
  <2>4. \A k \in 1 .. Len(events') :
          events'[k].kind = "Spawned" =>
            \A d \in Launch[events'[k].id].deps : Before(k, d, "Ready")'
    BY <1>2, <1>3, <1>7, <2>1, <2>2 DEF HistoryInv, DependenciesReady
  <2> QED
    BY <2>3, <2>4 DEF DependenciesReady
<1>9. DependentsStopFirst'
  <2>1. events'[n].kind # "Stopping"
    BY <1>3 DEF Logged
  <2> QED
    BY <1>2, <1>3, <1>7, <2>1 DEF HistoryInv, DependentsStopFirst
<1>10. StoppedOrReported'
  BY <1>0, <1>2 DEF StoppedOrReported, EarlyInv
<1> QED
  BY <1>4, <1>5, <1>6, <1>8, <1>9, <1>10 DEF HistoryInv

LEMMA HistoryKeptReady ==
  ASSUME Safe, HistoryInv, ReadiesOne PROVE HistoryInv'
<1>0. EarlyInv /\ SpawnInv /\ Early /\ cause = None /\ stopping = 0
  BY MakesReady DEF HistoryInv, Early, StartingStages, Safe, PlaceInv, StopStages
<1>1. /\ next \in Services /\ Owns' = Owns /\ Owns = next /\ stopping' = 0 /\ Emit(next, "Ready")
      /\ \/ stage' = "entry" /\ next' = next + 1 /\ cause' = cause
         \/ stage' = "failed" /\ cause' = "BindingRefused"
      /\ UNCHANGED <<consumed, failures, retained, proc>>
  BY <1>0, MakesReady DEF Owns, world
<1>n. PICK n : n = Len(events) + 1
  OBVIOUS
<1>2. /\ \A t, q : Occurred(t, q)' <=> Occurred(t, q) \/ (t = next /\ q = "Ready")
      /\ \A k \in 1 .. Len(events) : \A t, q : Before(k, t, q)' <=> Before(k, t, q)
      /\ \A t, q : Before(n, t, q)' <=> Occurred(t, q)
  BY <1>n, <1>1, History DEF Safe, TypeOK, EventKinds
<1>3. /\ Len(events) \in Nat /\ Len(events') = n /\ events'[n] = Logged(next, "Ready")
      /\ \A k \in 1 .. Len(events) : events'[k] = events[k]
  BY <1>n, <1>1, Emitted DEF Safe, TypeOK, EventKinds
<1>4. SpawnInv'
  BY <1>0, <1>1, <1>2, LaunchFacts DEF SpawnInv, Held
<1>5. EarlyInv'
  BY <1>0, <1>1, <1>2, LaunchFacts DEF EarlyInv, Early, StartingStages
<1>6. CauseInv'
  BY <1>0, <1>1 DEF CauseInv, CancellationTruthful, None
<1>7. \A k \in 1 .. Len(events') : k \in 1 .. Len(events) \/ k = n
  BY <1>n, <1>3
<1>8. DependenciesReady'
  <2>1. events'[n].kind # "Spawned"
    BY <1>3 DEF Logged
  <2>2. \A use \in consumed' : use[2] # External => Occurred(use[2], "Ready")'
    BY <1>1, <1>2 DEF HistoryInv, DependenciesReady
  <2>3. \A k \in 1 .. Len(events') :
          events'[k].kind = "Spawned" =>
            \A d \in Launch[events'[k].id].deps : Before(k, d, "Ready")'
    BY <1>2, <1>3, <1>7, <2>1 DEF HistoryInv, DependenciesReady
  <2> QED
    BY <2>2, <2>3 DEF DependenciesReady
<1>9. DependentsStopFirst'
  <2>1. events'[n].kind # "Stopping"
    BY <1>3 DEF Logged
  <2> QED
    BY <1>2, <1>3, <1>7, <2>1 DEF HistoryInv, DependentsStopFirst
<1>10. StoppedOrReported'
  BY <1>0, <1>2 DEF StoppedOrReported, EarlyInv
<1> QED
  BY <1>4, <1>5, <1>6, <1>8, <1>9, <1>10 DEF HistoryInv

LEMMA HistoryKeptStopping ==
  ASSUME Safe, HistoryInv, StopNext PROVE HistoryInv'
<1>0. SpawnInv /\ stage = "teardown"
  BY DEF HistoryInv, StopNext
<1>1. /\ Owns \in Services /\ Owns' = Owns - 1 /\ stopping' = Owns /\ stopping = 0 /\ Emit(Owns, "Stopping")
      /\ stage' \in {"grace", "adapterStop"}
      /\ UNCHANGED <<next, cause, consumed, failures, retained, proc, cancelled>>
  BY PopsLast, LaunchFacts DEF bound, world
<1>a. PICK last : last = Owns
  OBVIOUS
<1>n. PICK n : n = Len(events) + 1
  OBVIOUS
<1>2. /\ \A t, q : Occurred(t, q)' <=> Occurred(t, q) \/ (t = last /\ q = "Stopping")
      /\ \A k \in 1 .. Len(events) : \A t, q : Before(k, t, q)' <=> Before(k, t, q)
      /\ \A t, q : Before(n, t, q)' <=> Occurred(t, q)
  BY <1>a, <1>n, <1>1, History DEF Safe, TypeOK, EventKinds
<1>3. /\ Len(events) \in Nat /\ Len(events') = n /\ events'[n] = Logged(last, "Stopping")
      /\ \A k \in 1 .. Len(events) : events'[k] = events[k]
  BY <1>a, <1>n, <1>1, Emitted DEF Safe, TypeOK, EventKinds
<1>4. SpawnInv'
  BY <1>0, <1>1, <1>2, LaunchFacts DEF SpawnInv, Held
<1>5. EarlyInv'
  BY <1>1 DEF EarlyInv, Early, StartingStages
<1>6. CauseInv'
  <2>1. events' # <<>>
    BY <1>3, <1>n, EmptySeq
  <2> QED
    BY <1>0, <1>1, <2>1 DEF HistoryInv, CauseInv, CancellationTruthful
<1>7. \A k \in 1 .. Len(events') : k \in 1 .. Len(events) \/ k = n
  BY <1>n, <1>3
<1>8. DependenciesReady'
  <2>1. events'[n].kind # "Spawned"
    BY <1>3 DEF Logged
  <2>2. \A use \in consumed' : use[2] # External => Occurred(use[2], "Ready")'
    BY <1>1, <1>2 DEF HistoryInv, DependenciesReady
  <2>3. \A k \in 1 .. Len(events') :
          events'[k].kind = "Spawned" =>
            \A d \in Launch[events'[k].id].deps : Before(k, d, "Ready")'
    BY <1>2, <1>3, <1>7, <2>1 DEF HistoryInv, DependenciesReady
  <2> QED
    BY <2>2, <2>3 DEF DependenciesReady
<1>9. DependentsStopFirst'
  <2>1. ASSUME NEW t \in Services, last \in Launch[t].deps, Occurred(t, "Spawned") PROVE Occurred(t, "Stopped")
    <3>1. last < t /\ t # 0
      BY <1>1, <1>a, <2>1, LaunchAssumption, LaunchFacts
    <3> QED
      BY <1>0, <1>1, <1>a, <2>1, <3>1, LaunchFacts DEF SpawnInv, Held
  <2>2. events'[n].id = last
    BY <1>3 DEF Logged
  <2> QED
    BY <1>2, <1>3, <1>7, <2>1, <2>2 DEF HistoryInv, DependentsStopFirst
<1>10. StoppedOrReported'
  BY <1>1, <1>2 DEF HistoryInv, StoppedOrReported, Reported
<1> QED
  BY <1>4, <1>5, <1>6, <1>8, <1>9, <1>10 DEF HistoryInv

(* A stop that ends leaves the service reaped, or reported; none is        *)
(* forgotten.                                                              *)
LEMMA FailureKept ==
  ASSUME Safe, EndsOne
  PROVE  /\ \A s : Reported(s) => Reported(s)'
         /\ \A gone : gone = stopping => proc'[gone] = "reaped" \/ Reported(gone)'
<1>1. stopping \in Services /\ failures \in Seq(Services)
  BY EndsStopping DEF Safe, TypeOK
<1>2. CASE failures' = failures /\ proc'[stopping] = "reaped"
  BY <1>2 DEF Reported
<1>3. CASE failures' = Append(failures, stopping)
  <2>1. /\ Len(failures) \in Nat /\ Len(failures') = Len(failures) + 1 /\ failures'[Len(failures) + 1] = stopping
        /\ \A k \in 1 .. Len(failures) : failures'[k] = failures[k]
    BY <1>1, <1>3, AppendProperties, LenProperties
  <2> QED
    BY <2>1 DEF Reported
<1> QED
  BY <1>2, <1>3, EndsStopping

LEMMA HistoryKeptStopped ==
  ASSUME Safe, HistoryInv, EndsOne PROVE HistoryInv'
<1>0. SpawnInv /\ stage \in StopStages
  BY EndsStopping DEF HistoryInv
<1>a. PICK gone : gone = stopping
  OBVIOUS
<1>1. /\ gone \in Services /\ Owns' = Owns /\ gone = Owns + 1 /\ stopping' = 0 /\ stage' = "teardown"
      /\ Emit(gone, "Stopped")
      /\ UNCHANGED <<next, cause, consumed, cancelled>>
  BY <1>a, EndsStopping DEF bound, Owns
<1>n. PICK n : n = Len(events) + 1
  OBVIOUS
<1>2. /\ \A t, q : Occurred(t, q)' <=> Occurred(t, q) \/ (t = gone /\ q = "Stopped")
      /\ \A k \in 1 .. Len(events) : \A t, q : Before(k, t, q)' <=> Before(k, t, q)
      /\ \A t, q : Before(n, t, q)' <=> Occurred(t, q)
  BY <1>n, <1>1, History DEF Safe, TypeOK, EventKinds
<1>3. /\ Len(events) \in Nat /\ Len(events') = n /\ events'[n] = Logged(gone, "Stopped")
      /\ \A k \in 1 .. Len(events) : events'[k] = events[k]
  BY <1>n, <1>1, Emitted DEF Safe, TypeOK, EventKinds
<1>4. SpawnInv'
  <2>1. retained \subseteq retained' /\ (Launch[gone].kind = "Process" => gone \in retained')
    BY <1>a, EndsStopping
  <2> QED
    BY <1>0, <1>1, <1>2, <1>a, <2>1, LaunchFacts DEF SpawnInv, Held
<1>5. EarlyInv'
  BY <1>1 DEF EarlyInv, Early, StartingStages
<1>6. CauseInv'
  <2>1. events' # <<>>
    BY <1>3, <1>n, EmptySeq
  <2> QED
    BY <1>0, <1>1, <2>1 DEF HistoryInv, CauseInv, CancellationTruthful, StopStages
<1>7. \A k \in 1 .. Len(events') : k \in 1 .. Len(events) \/ k = n
  BY <1>n, <1>3
<1>8. DependenciesReady'
  <2>1. events'[n].kind # "Spawned"
    BY <1>3 DEF Logged
  <2>2. \A use \in consumed' : use[2] # External => Occurred(use[2], "Ready")'
    BY <1>1, <1>2 DEF HistoryInv, DependenciesReady
  <2>3. \A k \in 1 .. Len(events') :
          events'[k].kind = "Spawned" =>
            \A d \in Launch[events'[k].id].deps : Before(k, d, "Ready")'
    BY <1>2, <1>3, <1>7, <2>1 DEF HistoryInv, DependenciesReady
  <2> QED
    BY <2>2, <2>3 DEF DependenciesReady
<1>9. DependentsStopFirst'
  <2>1. events'[n].kind # "Stopping"
    BY <1>3 DEF Logged
  <2> QED
    BY <1>2, <1>3, <1>7, <2>1 DEF HistoryInv, DependentsStopFirst
<1>10. StoppedOrReported'
  <2>2. \A s : Reported(s) => Reported(s)'
    BY FailureKept
  <2>3. proc'[gone] = "reaped" \/ Reported(gone)'
    BY <1>a, FailureKept
  <2>4. \A s \in Services : s # gone => proc'[s] = proc[s]
    BY <1>a, EndsStopping
  <2> QED
    BY <1>2, <2>2, <2>3, <2>4 DEF HistoryInv, StoppedOrReported
<1> QED
  BY <1>4, <1>5, <1>6, <1>8, <1>9, <1>10 DEF HistoryInv

LEMMA HistoryInvariant == Spec => []HistoryInv
<1>1. Safe /\ HistoryInv /\ [Next]_vars => HistoryInv'
  <2>1. HistoryInv /\ UNCHANGED vars => HistoryInv'
    BY DEF vars, control, bound, ledger, world, HistoryInv, SpawnInv, EarlyInv, CauseInv, DependenciesReady,
           DependentsStopFirst, StoppedOrReported, CancellationTruthful, Occurred, Before, Logged, Reported,
           Owns, Held, Early
  <2> QED
    BY <2>1, StepKinds, HistoryKeptQuiet, HistoryKeptStart, HistoryKeptReady, HistoryKeptStopping, HistoryKeptStopped
<1> QED
  BY InitHistory, SafeInvariant, <1>1, PTL DEF Spec

(* No service is spawned, and no binding consumed, before what it depends  *)
(* on was ready.                                                           *)
THEOREM StartupRespectsDependencies == Spec => []DependenciesReady
<1>1. HistoryInv => DependenciesReady
  BY DEF HistoryInv
<1> QED
  BY HistoryInvariant, <1>1, PTL

(* A service is asked to stop only after its started dependents stopped,   *)
(* whichever way startup ended.                                            *)
THEOREM TeardownRespectsDependencies == Spec => []DependentsStopFirst
<1>1. HistoryInv => DependentsStopFirst
  BY DEF HistoryInv
<1> QED
  BY HistoryInvariant, <1>1, PTL

(* A service that was stopped is gone, or its stop is a recorded failure.  *)
THEOREM NoStopIsLost == Spec => []StoppedOrReported
<1>1. HistoryInv => StoppedOrReported
  BY DEF HistoryInv
<1> QED
  BY HistoryInvariant, <1>1, PTL

(* The cancellation errors tell whether a service had been started.        *)
THEOREM CancellationErrors == Spec => []CancellationTruthful
<1>1. HistoryInv => CancellationTruthful
  BY DEF HistoryInv, CauseInv
<1> QED
  BY HistoryInvariant, <1>1, PTL

(* A session that returned still gives the logs of every spawned process.  *)
THEOREM LogsKept == Spec => []LogsSurviveTeardown
<1>1. Safe /\ HistoryInv => LogsSurviveTeardown
  <2> SUFFICES ASSUME Safe, HistoryInv, stage \in {"up", "failed", "stopped"}, NEW s \in Services,
                      Launch[s].kind = "Process", Occurred(s, "Spawned"), s \notin retained
               PROVE  \E k \in 1 .. Len(running) : running[k] = s
    BY DEF LogsSurviveTeardown
  <2>1. stopping = 0
    BY DEF Safe, PlaceInv, StopStages
  <2>2. s <= Owns /\ s \in 1 .. Owns
    <3>1. Owns \in Nat
      BY LenProperties DEF Safe, TypeOK, Owns
    <3>2. Held(s)
      BY DEF HistoryInv, SpawnInv
    <3> QED
      BY <2>1, <3>1, <3>2, LaunchFacts DEF Held
  <2> QED
    BY <2>2 DEF Safe, PlaceInv, Owns
<1> QED
  BY HistoryInvariant, SafeInvariant, <1>1, PTL

(***************************************************************************)
(* The contract.                                                           *)
(***************************************************************************)
AbstractStep == [Contract!Next]_(Contract!vars)

(* The contract's picture of a session in a safe state.                    *)
Picture ==
  /\ Owned \in 0 .. N
  /\ running = <<>> <=> Owns = 0
  /\ Owned = Owns + (IF stopping = 0 THEN 0 ELSE 1)
  /\ stopping # 0 <=> stage \in StopStages

LEMMA Pictured == Safe => Picture
<1> SUFFICES ASSUME Safe PROVE Picture
  OBVIOUS
<1>1. Owns \in Nat /\ Owns <= N /\ (stopping # 0 => stopping = Owns + 1) /\ stopping \in 0 .. N
  BY LenProperties DEF Safe, TypeOK, PlaceInv, Owns
<1>2. running = <<>> <=> Owns = 0
  BY EmptySeq DEF Safe, TypeOK, Owns
<1> QED
  BY <1>1, <1>2, LaunchFacts DEF Picture, Owned, Owns, Safe, PlaceInv

LEMMA InitAbstract == Init => Contract!Init
<1> SUFFICES ASSUME Init PROVE Contract!Init
  OBVIOUS
<1>1. Phase = "Idle"
  BY DEF Init, Phase, StartingStages, TeardownStages
<1>2. Owned = 0
  BY EmptySeq DEF Init, Owned
<1> QED
  BY <1>1, <1>2 DEF Contract!Init

LEMMA StepAbstract ==
  ASSUME Safe, Picture, Picture', [Next]_vars PROVE AbstractStep
<1> USE LaunchFacts DEF StartingStages, TeardownStages, StopStages
<1>1. CASE UNCHANGED vars
  BY <1>1 DEF vars, control, Phase, Owned, AbstractStep, Contract!vars
<1>2. CASE StartFailures
  <2>1. Phase = "Starting" /\ stopping = 0 /\ UNCHANGED <<running, stopping, Owned>>
    BY <1>2, FailuresLeave DEF Phase, Owned, Picture, Safe, PlaceInv
  <2>2. stage' = "teardown" \/ stage' = "failed"
    BY <1>2, FailuresLeave
  <2>3. stage' = "teardown" => Phase' = "Unwinding"
    BY <1>2, FailuresLeave DEF Phase, Causes, None
  <2>4. stage' = "failed" => Phase' = (IF Owned = 0 THEN "Failed" ELSE "Abandoned")
    BY <2>1 DEF Phase, Picture, Owned, Owns
  <2> QED
    BY <2>1, <2>2, <2>3, <2>4 DEF Picture, AbstractStep, Contract!Next, Contract!GiveUp, Contract!Abandon
<1>3. CASE Startup
  BY <1>3 DEF Startup, At, Return, Phase, Owned, Picture, Safe, PlaceInv, AbstractStep,
              Contract!Next, Contract!Refuse, Contract!Begin
<1>4. CASE BeginEntry
  <2>1. Phase = "Starting" /\ stopping = 0 /\ UNCHANGED <<running, stopping, Owned>> /\ Owned = next - 1
    <3>1. stage = "entry" /\ UNCHANGED <<next, running, stopping>>
      BY <1>4 DEF BeginEntry, At
    <3>2. stopping = 0 /\ Owns = next - 1
      BY <3>1 DEF Picture, Safe, PlaceInv, NotSpawned
    <3> QED
      BY <3>1, <3>2 DEF Phase, Owned, Owns
  <2>0. next \in 1 .. N + 1 /\ (running = <<>> <=> Owned = 0)
    BY <2>1 DEF Picture, Safe, TypeOK, Owned, Owns
  <2>2. \/ stage' = "up" /\ next > N
        \/ stage' = "failed" /\ running = <<>>
        \/ stage' = "teardown" /\ cause' = "Cancelled"
        \/ stage' \in {"resolve", "adapterStart"}
    BY <1>4 DEF BeginEntry, CancelAfterStart, Return, Unwind
  <2>3. CASE stage' = "up" /\ next > N
    <3>1. Phase' = "Up" /\ Owned = N
      BY <2>0, <2>1, <2>3 DEF Phase
    <3> QED
      BY <2>1, <3>1 DEF AbstractStep, Contract!Next, Contract!Succeed
  <2>4. CASE stage' = "failed" /\ running = <<>>
    BY <2>0, <2>1, <2>4 DEF Phase, AbstractStep, Contract!Next, Contract!GiveUp
  <2>5. CASE stage' = "teardown" /\ cause' = "Cancelled"
    BY <2>1, <2>5 DEF Phase, None, AbstractStep, Contract!Next, Contract!GiveUp
  <2>6. CASE stage' \in {"resolve", "adapterStart"}
    <3>1. Phase' = "Starting"
      BY <2>6 DEF Phase
    <3> QED
      BY <2>1, <3>1 DEF AbstractStep, Contract!vars
  <2> QED
    BY <2>2, <2>3, <2>4, <2>5, <2>6
<1>5. CASE Resolve
  <2>1. Phase = "Starting" /\ UNCHANGED Owned
    BY <1>5 DEF Resolve, At, Phase, Owned
  <2>2. Phase' \in {"Starting", "Unwinding"}
    BY <1>5 DEF Resolve, Unwind, Phase, None
  <2> QED
    BY <2>1, <2>2 DEF AbstractStep, Contract!vars, Contract!Next, Contract!GiveUp
<1>6. CASE StartsOne
  BY <1>6, AppendsNext DEF Phase, Picture, Unready, AbstractStep, Contract!Next, Contract!Acquire
<1>7. CASE ReadiesOne
  <2>1. Phase = "Starting" /\ UNCHANGED <<running, stopping, Owned>> /\ Owned > 0
    BY <1>7, MakesReady DEF Phase, Owned, Picture, Safe, PlaceInv
  <2>2. Phase' \in {"Starting", "Abandoned"}
    BY <1>7, <2>1, MakesReady DEF Phase, Picture, Owns
  <2> QED
    BY <2>1, <2>2 DEF AbstractStep, Contract!vars, Contract!Next, Contract!Abandon
<1>8. CASE DelayElapsed \/ ProbeAttempt \/ ProbeAgain \/ AdapterConflicts \/ GraceElapsed \/ KillGroup
  BY <1>8 DEF DelayElapsed, ProbeAttempt, ProbeAgain, AdapterConflicts, GraceElapsed, KillGroup, At,
              Phase, Owned, AbstractStep, Contract!vars
<1>9. CASE Shutdown
  BY <1>9 DEF Shutdown, At, Phase, Owned, Safe, PlaceInv, AbstractStep, Contract!Next, Contract!Shutdown
<1>10. CASE TeardownDone
  <2>1. /\ stage = "teardown" /\ UNCHANGED <<running, stopping, cause>> /\ Owned = 0 /\ Owned' = 0 /\ running' = <<>>
        /\ stage' = IF cause = None THEN "stopped" ELSE "failed"
    BY <1>10 DEF TeardownDone, At, Picture, Owned
  <2>2. /\ Phase = (IF cause = None THEN "Stopping" ELSE "Unwinding")
        /\ Phase' = (IF cause = None THEN "Stopped" ELSE "Failed")
    BY <2>1 DEF Phase
  <2> QED
    BY <2>1, <2>2 DEF AbstractStep, Contract!Next, Contract!Finish
<1>11. CASE Environment
  BY <1>11 DEF Environment, Cancel, ProcessExits, control, Phase, Owned, AbstractStep, Contract!vars
<1>12. CASE StopNext
  <2>1. Owned' = Owned
    BY <1>12, PopsLast DEF Picture
  <2>2. stage = "teardown" /\ stage' \in {"grace", "adapterStop"} /\ cause' = cause
    BY <1>12, PopsLast DEF StopNext
  <2> QED
    BY <2>1, <2>2 DEF Phase, AbstractStep, Contract!vars
<1>13. CASE EndsOne
  <2>1. /\ stage \in StopStages /\ stage' = "teardown" /\ cause' = cause
        /\ Owned > 0 /\ Owned' = Owned - 1
    BY <1>13, EndsStopping DEF Picture, Owns
  <2>2. Phase \in {"Unwinding", "Stopping"} /\ Phase' = Phase
    BY <2>1 DEF Phase
  <2> QED
    BY <2>1, <2>2 DEF AbstractStep, Contract!Next, Contract!Release
<1> QED
  BY <1>1, <1>2, <1>3, <1>4, <1>5, <1>6, <1>7, <1>8, <1>9, <1>10, <1>11, <1>12, <1>13, StepKinds
  DEF Quiet, StartFailures

(* The safety part of the contract, for every launch order: services are   *)
(* acquired one by one and released last acquired first, and what a failed *)
(* session still owns is told by "Abandoned".                              *)
THEOREM KeepsTheContract == Spec => Contract!Init /\ [][Contract!Next]_(Contract!vars)
<1>1. Safe /\ Picture /\ Picture' /\ [Next]_vars => [Contract!Next]_(Contract!vars)
  BY StepAbstract DEF AbstractStep
<1> QED
  BY InitAbstract, SafeInvariant, Pictured, <1>1, PTL DEF Spec

(***************************************************************************)
(* What a failed startup leaves.                                           *)
(***************************************************************************)

(* A startup that has failed runs nothing, but for a refused binding.      *)
EmptyInv == stage = "failed" => Owns = 0 \/ cause = "BindingRefused"

LEMMA EmptyKept ==
  ASSUME Safe, EmptyInv, [Next]_vars PROVE EmptyInv'
<1>1. CASE UNCHANGED vars
  BY <1>1 DEF vars, control, EmptyInv, Owns
<1>2. CASE Quiet
  BY <1>2, EmptySeq
  DEF Quiet, Startup, BeginEntry, Resolve, SpawnCancelled, SpawnFails, ReadinessCancelled, DelayExited,
      DelayElapsed, ProbeAttempt, ProbeAgain, ProbeTimeout, ProcessExitedEarly, AdapterStartCancelled,
      AdapterStartFails, AdapterDropped, AdapterConflicts, AdapterConflictStopped, AdapterReadinessFails,
      AdapterBindingsClash, Shutdown, GraceElapsed, KillGroup, TeardownDone, Environment, Cancel, ProcessExits,
      control, At, CancelAfterStart, AdapterFailed, Unwind, Return, EmptyInv, Safe, PlaceInv, Owns
<1>3. CASE StartsOne
  BY <1>3, AppendsNext DEF EmptyInv, Unready
<1>4. CASE ReadiesOne
  BY <1>4, MakesReady DEF EmptyInv
<1>5. CASE StopNext
  BY <1>5, PopsLast DEF EmptyInv
<1>6. CASE EndsOne
  BY <1>6, EndsStopping DEF EmptyInv
<1> QED
  BY <1>1, <1>2, <1>3, <1>4, <1>5, <1>6, StepKinds

(* For any launch order, of processes and adapters, and whatever becomes   *)
(* of declared bindings: a startup that fails leaves no service it spawned *)
(* but those whose stop failed and was recorded, unless it fails by the    *)
(* return of a refused binding.                                            *)
THEOREM FailureLeavesNothing == Spec => []FailedStartupLeavesNothing
<1>1. Init => EmptyInv
  BY DEF Init, EmptyInv
<1>2. Safe /\ EmptyInv /\ [Next]_vars => EmptyInv'
  BY EmptyKept
<1>3. Safe /\ HistoryInv /\ EmptyInv => FailedStartupLeavesNothing
  <2> SUFFICES ASSUME Safe, HistoryInv, EmptyInv, stage = "failed", cause # "BindingRefused",
                      NEW s \in Services, Occurred(s, "Spawned"), proc[s] = "alive"
               PROVE  Reported(s)
    BY DEF FailedStartupLeavesNothing, NothingLeft
  <2>1. Owns = 0 /\ stopping = 0
    BY DEF EmptyInv, Safe, PlaceInv, StopStages
  <2>2. Occurred(s, "Stopped")
    BY <2>1, LaunchFacts DEF HistoryInv, SpawnInv, Held
  <2> QED
    BY <2>2 DEF HistoryInv, StoppedOrReported
<1> QED
  BY <1>1, <1>2, <1>3, SafeInvariant, HistoryInvariant, PTL DEF Spec

----------------------------------------------------------------------------
(* One output stream, for every length of output, pipe, chunk and cap.     *)

(* A task that has ended saw the write end closed, so no byte comes after. *)
SpoolInv ==
  /\ SpoolTypeOK /\ Accounting /\ NothingLost
  /\ task = "ended" => ~open

(* One chunk keeps the counters of the spool in agreement.                 *)
LEMMA PushAgrees ==
  ASSUME NEW s \in [total : Nat, retained : Nat, dropped : Nat], NEW n \in Nat,
         s.total = s.retained + s.dropped, s.retained = Smaller(s.total, Cap)
  PROVE  /\ Push(s, n) \in [total : Nat, retained : Nat, dropped : Nat]
         /\ Push(s, n).total = s.total + n
         /\ Push(s, n).total = Push(s, n).retained + Push(s, n).dropped
         /\ Push(s, n).retained = Smaller(Push(s, n).total, Cap)
<1> USE SizeAssumption
<1> DEFINE kept == IF s.retained >= Cap THEN 0 ELSE Smaller(n, Cap - s.retained)
<1>1. Push(s, n) = [total |-> s.total + n, retained |-> s.retained + kept, dropped |-> s.dropped + (n - kept)]
  BY DEF Push
<1>2. s.total \in Nat /\ s.retained \in Nat /\ s.dropped \in Nat
  OBVIOUS
<1>3. kept \in 0 .. n
  BY <1>2 DEF Smaller
<1>4. s.retained + kept = Smaller(s.total + n, Cap)
  <2>1. CASE s.retained >= Cap
    BY <1>2, <2>1 DEF Smaller
  <2>2. CASE s.retained < Cap
    BY <1>2, <2>2 DEF Smaller
  <2> QED
    BY <1>2, <2>1, <2>2
<1> HIDE DEF kept
<1>5. /\ Push(s, n).total = s.total + n /\ Push(s, n).retained = s.retained + kept
      /\ Push(s, n).dropped = s.dropped + (n - kept)
  <2> DEFINE pushed == [total |-> s.total + n, retained |-> s.retained + kept, dropped |-> s.dropped + (n - kept)]
  <2>1. pushed.total = s.total + n /\ pushed.retained = s.retained + kept /\ pushed.dropped = s.dropped + (n - kept)
    OBVIOUS
  <2> QED
    BY <1>1, <2>1
<1>6. /\ s.total + n \in Nat /\ s.retained + kept \in Nat /\ s.dropped + (n - kept) \in Nat
      /\ s.total + n = (s.retained + kept) + (s.dropped + (n - kept))
  BY <1>2, <1>3
<1>7. Push(s, n) \in [total : Nat, retained : Nat, dropped : Nat]
  BY <1>1, <1>6
<1> QED
  BY <1>4, <1>5, <1>6, <1>7

LEMMA SpoolBegins == SpoolInit => SpoolInv
BY SizeAssumption DEF SpoolInit, SpoolInv, SpoolTypeOK, Accounting, NothingLost, Smaller, Truncated

(* Steps that leave the spool alone leave its counters in agreement.       *)
LEMMA CountersKept ==
  ASSUME Accounting, spool' = spool PROVE Accounting'
BY DEF Accounting, Truncated

LEMMA SpoolKept == SpoolInv /\ [SpoolNext]_spoolVars => SpoolInv'
<1> SUFFICES ASSUME SpoolInv, [SpoolNext]_spoolVars PROVE SpoolInv'
  OBVIOUS
<1>1. /\ written \in 0 .. Output /\ pipe \in 0 .. PipeSize /\ open \in BOOLEAN
      /\ spool \in [total : Nat, retained : Nat, dropped : Nat] /\ spool.total \in Nat
      /\ written = spool.total + pipe
      /\ task = "ended" => ~open /\ spool.total = written
      /\ Output \in Nat /\ PipeSize \in Nat /\ Cap \in Nat
  BY SizeAssumption DEF SpoolInv, SpoolTypeOK, NothingLost
<1>2. CASE Write
  <2>1. PICK n \in 1 .. Smaller(Output - written, PipeSize - pipe) : written' = written + n /\ pipe' = pipe + n
    BY <1>2 DEF Write
  <2>2. n \in Nat /\ n <= Output - written /\ n <= PipeSize - pipe
    BY <1>1, <2>1 DEF Smaller
  <2>3. open /\ task # "ended" /\ UNCHANGED <<open, task, spool, join>>
    BY <1>1, <1>2 DEF Write
  <2>4. written' \in 0 .. Output /\ pipe' \in 0 .. PipeSize /\ written' = spool.total + pipe'
    BY <1>1, <2>1, <2>2
  <2> QED
    BY <2>3, <2>4, CountersKept DEF SpoolInv, SpoolTypeOK, NothingLost
<1>3. CASE ReadChunk
  <2>1. PICK n \in 1 .. Smaller(Chunk, pipe) : pipe' = pipe - n /\ spool' = Push(spool, n)
    BY <1>3 DEF ReadChunk
  <2>2. n \in Nat /\ n <= pipe
    BY <1>1, <2>1, SizeAssumption DEF Smaller
  <2>3. /\ spool' \in [total : Nat, retained : Nat, dropped : Nat]
        /\ spool'.total = spool.total + n
        /\ spool'.total = spool'.retained + spool'.dropped
        /\ spool'.retained = Smaller(spool'.total, Cap)
    BY <1>1, <2>1, <2>2, PushAgrees DEF SpoolInv, Accounting
  <2>4. pipe' \in 0 .. PipeSize /\ written = spool'.total + pipe'
    BY <1>1, <2>1, <2>2, <2>3
  <2>5. task = "reading" /\ UNCHANGED <<written, open, task, join>>
    BY <1>3 DEF ReadChunk
  <2>6. spool'.dropped > 0 <=> spool'.total > Cap
    BY <1>1, <2>3 DEF Smaller
  <2>7. Accounting'
    BY <2>3, <2>6 DEF Accounting, Truncated
  <2> QED
    BY <2>3, <2>4, <2>5, <2>7 DEF SpoolInv, SpoolTypeOK, NothingLost
<1>4. CASE ReadEof
  <2>1. task' = "ended" /\ pipe = 0 /\ ~open /\ UNCHANGED <<written, open, pipe, spool, join>>
    BY <1>4 DEF ReadEof
  <2>2. spool.total = written
    BY <1>1, <2>1
  <2> QED
    BY <2>1, <2>2, CountersKept DEF SpoolInv, SpoolTypeOK, NothingLost
<1>5. CASE Close \/ ReadFails \/ JoinBegin \/ JoinEnd
  <2>1. /\ UNCHANGED <<written, pipe, spool>> /\ open' \in {open, FALSE}
        /\ task' \in {task, "failed"} /\ join' \in {join, "waiting", "joined", "abandoned"}
    BY <1>5 DEF Close, ReadFails, JoinBegin, JoinEnd
  <2>2. task' = "ended" => ~open' /\ spool.total = written
    BY <1>1, <2>1
  <2> QED
    BY <2>1, <2>2, CountersKept DEF SpoolInv, SpoolTypeOK, NothingLost
<1>6. CASE UNCHANGED spoolVars
  BY <1>6, CountersKept DEF spoolVars, SpoolInv, SpoolTypeOK, NothingLost
<1> QED
  BY <1>2, <1>3, <1>4, <1>5, <1>6 DEF SpoolNext

(* The inductive invariant holds, whatever is written and at what sizes.   *)
THEOREM SpoolInvariant == SpoolSpec => []SpoolInv
<1> QED
  BY SpoolBegins, SpoolKept, PTL DEF SpoolSpec

(* Every variable has its type; the pipe and the spool stay within bounds. *)
THEOREM SpoolTypeCorrect == SpoolSpec => []SpoolTypeOK
<1>1. SpoolInv => SpoolTypeOK
  BY DEF SpoolInv
<1> QED
  BY SpoolInvariant, <1>1, PTL

(* What a snapshot says of total, retained, dropped and truncated agrees.  *)
THEOREM CountersAgree == SpoolSpec => []Accounting
<1>1. SpoolInv => Accounting
  BY DEF SpoolInv
<1> QED
  BY SpoolInvariant, <1>1, PTL

(* A drain that came to its end has drained all that was written.          *)
THEOREM NothingIsLost == SpoolSpec => []NothingLost
<1>1. SpoolInv => NothingLost
  BY DEF SpoolInv
<1> QED
  BY SpoolInvariant, <1>1, PTL
=============================================================================
