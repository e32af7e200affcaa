------------------------------ MODULE Session ------------------------------
(***************************************************************************)
(* LocalSession of crates/eggbench-runner/src/session.rs: the owner of the *)
(* managed processes and in-process adapter services of one run.           *)
(*                                                                         *)
(* startup and shutdown are one sequential task; beside it run the token,  *)
(* the processes, which exit when they please, and the adapters, which     *)
(* answer when they please.  Every await is a stage of its own; a bounded  *)
(* wait may end at its bound at any time.                                  *)
(*                                                                         *)
(* Abstracted: argv, environment and paths; log bytes (see LogSpool); the  *)
(* identity of a service is its position in the launch order, which        *)
(* prepare has computed (see Preparation), so dependencies point backwards;*)
(* join_drains, which is bounded and changes no state of the session;      *)
(* descendants of a process, which stop_process does not look for.         *)
(* Left out because prepare refuses them: an unsupported platform, an      *)
(* adapter nobody registered, a launch entry without a specification.      *)
(* try_wait is taken to succeed: the session alone reaps its children.     *)
(***************************************************************************)
EXTENDS Integers, Sequences, FiniteSets

CONSTANTS
  Launch,            \* SpawnPlan.launch_order, with each entry's specification
  ExternalBinding,   \* what the external services' bindings hold for consumers
  Declared           \* what a declared http_url may come to, see Entry

N == Len(Launch)
Services == 1 .. N

(* The external services, as one source of bindings. *)
External == 0
Sources == {External} \cup Services

(* A binding a consumer asks for: not there, usable, or longer than the    *)
(* 2048 bytes a command accepts (a publisher may insert up to 4096).       *)
Binding == {"Absent", "Valid", "TooLong"}

(* An entry may declare bindings itself (http_url and static_bindings).    *)
(* The plan bounds neither length nor characters of an http_url's path:    *)
(* up to 2048 bytes it is "Valid", up to 4096 it is published and then     *)
(* "TooLong" for a command, beyond that, or with a control character,      *)
(* RuntimeBindings::insert has it "Refused".                               *)
Entry ==
  [kind : {"Process", "Adapter"}, readiness : {"None", "Delay", "Probe"},
   registered : BOOLEAN,        \* the probe is in the registry
   deps : SUBSET Nat, needs : SUBSET Nat, declares : BOOLEAN]

ASSUME LaunchAssumption ==
  /\ Launch \in Seq(Entry)
  /\ ExternalBinding \in Binding
  /\ Declared \subseteq {"Valid", "TooLong", "Refused"}
  /\ \A s \in Services :
       /\ Launch[s].deps \subseteq 1 .. (s - 1)
       /\ Launch[s].needs \subseteq Launch[s].deps \cup {External}
       /\ Launch[s].kind = "Adapter" => Launch[s].needs = {}

None == "None"

(* "BindingRefused" is the InvalidPlan of the two returns that tear down   *)
(* nothing, told apart from the others of that variant.                    *)
Causes ==
  {"UnsupportedProbe", "CancelledBeforeSpawn", "Cancelled", "InvalidPlan", "BindingRefused",
   "SpawnFailed", "ReadinessTimeout", "ProcessExitedEarly", "UnsupportedService"}

(* The errors attach_cleanup can attach teardown problems to. *)
CarriesCleanup == {"SpawnFailed", "ReadinessTimeout", "ProcessExitedEarly", "Cancelled"}

StartingStages ==
  {"entry", "resolve", "spawn", "delay", "probe", "backoff", "alive",
   "adapterStart", "adapterConflict", "adapterReady"}

TeardownStages == {"teardown", "grace", "kill", "killWait", "adapterStop"}

Stages == {"idle", "up", "failed", "stopped"} \cup StartingStages \cup TeardownStages

EventKinds == {"Spawned", "Ready", "Stopping", "Stopped"}
Event == [id : Services, kind : EventKinds]

VARIABLES
  stage,      \* where the session's task is
  next,       \* launch entry being started
  running,    \* LocalSession.running
  stopping,   \* the service teardown has popped, or 0
  cause,      \* initiating failure of startup
  offer,      \* bindings of the adapter handle just started
  bindings,   \* LocalSession.bindings
  consumed,   \* LocalSession.binding_consumptions: <<consumer, source>>
  events,     \* LocalSession.events
  failures,   \* cleanup failures collected by the teardown
  reported,   \* cleanup failures the caller received
  retained,   \* LocalSession.retained
  cancelled,  \* the cancellation token
  proc        \* the process, or the in-process service, behind each entry

control == <<stage, next, running, stopping, cause>>
bound == <<offer, bindings, consumed>>
ledger == <<events, failures, reported, retained>>
world == <<cancelled, proc>>
vars == <<control, bound, ledger, world>>

Init ==
  /\ stage = "idle" /\ next = 1 /\ running = <<>> /\ stopping = 0 /\ cause = None
  /\ offer = "Absent"
  /\ bindings = [s \in Sources |-> IF s = External THEN ExternalBinding ELSE "Absent"]
  /\ consumed = {} /\ events = <<>> /\ failures = <<>> /\ reported = <<>> /\ retained = {}
  /\ cancelled = FALSE
  /\ proc = [s \in Services |-> "absent"]

----------------------------------------------------------------------------
(* The world around the session. *)

Cancel ==
  /\ ~cancelled
  /\ cancelled' = TRUE
  /\ UNCHANGED <<control, bound, ledger, proc>>

(* A process exits on its own account, or obeying SIGTERM. *)
ProcessExits(s) ==
  /\ Launch[s].kind = "Process" /\ proc[s] = "alive"
  /\ proc' = [proc EXCEPT ![s] = "exited"]
  /\ UNCHANGED <<control, bound, ledger, cancelled>>

----------------------------------------------------------------------------
Emit(s, kind) == events' = Append(events, [id |-> s, kind |-> kind])

(* Startup fails with this error and tears down what is running. *)
Unwind(error) == stage' = "teardown" /\ cause' = error

(* Startup returns this error as it is, whatever is running. *)
Return(error) == stage' = "failed" /\ cause' = error

(* Mutant of CancelAfterStart: whether anything runs is not asked. *)
CancelAfterStartPlain == Unwind("Cancelled")

CancelAfterStart ==
  IF running = <<>> THEN Return("CancelledBeforeSpawn") ELSE Unwind("Cancelled")

(* An adapter's start has failed: a cancellation takes precedence. *)
AdapterFailed(error) == IF cancelled THEN CancelAfterStart ELSE Unwind(error)

At(s) == stage = s /\ UNCHANGED stopping
Entering(kind) == Launch[next].kind = kind

(* check_probes_registered, then the loop over the launch order. *)
Startup ==
  /\ At("idle")
  /\ IF \E s \in Services : /\ Launch[s].kind = "Process"
                            /\ Launch[s].readiness = "Probe" /\ ~Launch[s].registered
     THEN Return("UnsupportedProbe")
     ELSE stage' = "entry" /\ UNCHANGED cause
  /\ UNCHANGED <<next, running, bound, ledger, world>>

BeginEntry ==
  /\ At("entry")
  /\ \/ /\ next > N
        /\ stage' = "up" /\ UNCHANGED cause
     \/ /\ next <= N /\ cancelled
        /\ CancelAfterStart
     \/ /\ next <= N /\ ~cancelled
        /\ stage' = (IF Entering("Process") THEN "resolve" ELSE "adapterStart")
        /\ UNCHANGED cause
  /\ UNCHANGED <<next, running, bound, ledger, world>>

----------------------------------------------------------------------------
(* Processes. *)

Resolve ==
  /\ At("resolve")
  /\ IF \A source \in Launch[next].needs : bindings[source] = "Valid"
     THEN /\ consumed' = consumed \cup ({next} \X Launch[next].needs)
          /\ stage' = "spawn" /\ UNCHANGED cause
     ELSE Unwind("InvalidPlan") /\ UNCHANGED consumed
  /\ UNCHANGED <<next, running, offer, bindings, ledger, world>>

SpawnCancelled ==
  /\ At("spawn") /\ cancelled
  /\ CancelAfterStart
  /\ UNCHANGED <<next, running, bound, ledger, world>>

(* Mutant of SpawnFails: the error returns past the teardown. *)
SpawnFailsAtOnce ==
  /\ At("spawn") /\ ~cancelled
  /\ Return("SpawnFailed")
  /\ UNCHANGED <<next, running, bound, ledger, world>>

SpawnFails ==
  /\ At("spawn") /\ ~cancelled
  /\ Unwind("SpawnFailed")
  /\ UNCHANGED <<next, running, bound, ledger, world>>

(* Mutant of Spawn: the next entry is begun before this one is ready. *)
SpawnEager ==
  /\ At("spawn") /\ ~cancelled
  /\ proc' = [proc EXCEPT ![next] = "alive"]
  /\ running' = Append(running, next)
  /\ Emit(next, "Spawned")
  /\ stage' = "entry" /\ next' = next + 1
  /\ UNCHANGED <<cause, bound, failures, reported, retained, cancelled>>

(* spawn_one. *)
Spawn ==
  /\ At("spawn") /\ ~cancelled
  /\ proc' = [proc EXCEPT ![next] = "alive"]
  /\ running' = Append(running, next)
  /\ Emit(next, "Spawned")
  /\ stage' = CASE Launch[next].readiness = "None" -> "alive"
                [] Launch[next].readiness = "Delay" -> "delay"
                [] Launch[next].readiness = "Probe" -> "probe"
  /\ UNCHANGED <<next, cause, bound, failures, reported, retained, cancelled>>

ReadinessCancelled ==
  /\ stage \in {"delay", "probe", "backoff"} /\ cancelled
  /\ Unwind("Cancelled")
  /\ UNCHANGED <<next, running, stopping, bound, ledger, world>>

(* wait_for_exit_cancel reaps a child that exits during the delay. *)
DelayExited ==
  /\ At("delay") /\ proc[next] = "exited"
  /\ proc' = [proc EXCEPT ![next] = "reaped"]
  /\ Unwind("ProcessExitedEarly")
  /\ UNCHANGED <<next, running, bound, ledger, cancelled>>

DelayElapsed ==
  /\ At("delay")
  /\ stage' = "alive"
  /\ UNCHANGED <<next, running, cause, bound, ledger, world>>

(* One attempt of the probe: ready, or not (an error or the attempt cap). *)
ProbeAttempt ==
  /\ At("probe")
  /\ stage' \in {"alive", "backoff"}
  /\ UNCHANGED <<next, running, cause, bound, ledger, world>>

ProbeAgain ==
  /\ At("backoff")
  /\ stage' = "probe"
  /\ UNCHANGED <<next, running, cause, bound, ledger, world>>

(* Mutant of ProbeTimeout: only a cancellation ends the loop. *)
ProbeTimeoutIgnored ==
  /\ At("probe") /\ cancelled
  /\ Unwind("ReadinessTimeout")
  /\ UNCHANGED <<next, running, bound, ledger, world>>

(* The deadline is read before and after every attempt. *)
ProbeTimeout ==
  /\ stage \in {"probe", "backoff"}
  /\ Unwind("ReadinessTimeout")
  /\ UNCHANGED <<next, running, stopping, bound, ledger, world>>

ProcessExitedEarly ==
  /\ At("alive") /\ proc[next] = "exited"
  /\ proc' = [proc EXCEPT ![next] = "reaped"]
  /\ Unwind("ProcessExitedEarly")
  /\ UNCHANGED <<next, running, bound, ledger, cancelled>>

MayBeRefused == Launch[next].declares /\ "Refused" \in Declared

(* check_alive, the Ready event and publish_spec_bindings. *)
ProcessReady ==
  /\ At("alive") /\ proc[next] = "alive"
  /\ Emit(next, "Ready")
  /\ \E value \in (IF Launch[next].declares THEN Declared \ {"Refused"} ELSE {"Absent"}) :
       bindings' = [bindings EXCEPT ![next] = value]
  /\ stage' = "entry" /\ next' = next + 1
  /\ UNCHANGED <<running, cause, offer, consumed, failures, reported, retained, world>>

(* publish_spec_bindings refuses: startup returns without a teardown. *)
ProcessBindingRefused ==
  /\ At("alive") /\ proc[next] = "alive" /\ MayBeRefused
  /\ Emit(next, "Ready")
  /\ Return("BindingRefused")
  /\ UNCHANGED <<next, running, bound, failures, reported, retained, world>>

----------------------------------------------------------------------------
(* Adapters.                                                               *)

(* Mutant of AdapterStartCancelled: the await goes on without the token. *)
AdapterStartDeaf == At("adapterStart") /\ cancelled /\ UNCHANGED vars

(* The select drops the start future; the adapter honours its child token. *)
AdapterStartCancelled ==
  /\ At("adapterStart") /\ cancelled
  /\ CancelAfterStart
  /\ UNCHANGED <<next, running, bound, ledger, world>>

AdapterStartFails ==
  /\ At("adapterStart")
  /\ AdapterFailed("SpawnFailed")
  /\ UNCHANGED <<next, running, bound, ledger, world>>

(* The handle is there, but publish_spec_bindings refuses what the entry   *)
(* declares: the handle is dropped, with whatever that does to the service.*)
AdapterDropped ==
  /\ At("adapterStart") /\ MayBeRefused
  /\ \E state \in {"alive", "reaped"} : proc' = [proc EXCEPT ![next] = state]
  /\ AdapterFailed("InvalidPlan")
  /\ UNCHANGED <<next, running, bound, ledger, cancelled>>

(* The handle's own bindings contradict those the entry declares. *)
AdapterConflicts ==
  /\ At("adapterStart") /\ Launch[next].declares
  /\ proc' = [proc EXCEPT ![next] = "alive"]
  /\ stage' = "adapterConflict"
  /\ UNCHANGED <<next, running, cause, bound, ledger, cancelled>>

AdapterConflictStopped ==
  /\ At("adapterConflict")
  /\ \E state \in {"alive", "reaped"} : proc' = [proc EXCEPT ![next] = state]
  /\ AdapterFailed("UnsupportedService")
  /\ UNCHANGED <<next, running, bound, ledger, cancelled>>

(* What consumers will find is up to the handle, also where the entry      *)
(* declares bindings (they may ask for other keys).  "Foreign": it         *)
(* publishes, under the name of another service, a value other than the    *)
(* one already merged.                                                     *)
AdapterStarts ==
  /\ At("adapterStart")
  /\ \/ offer' \in Binding
     \/ /\ \E s \in Sources \ {next} : bindings[s] # "Absent"
        /\ offer' = "Foreign"
  /\ proc' = [proc EXCEPT ![next] = "alive"]
  /\ running' = Append(running, next)
  /\ Emit(next, "Spawned")
  /\ stage' = "adapterReady"
  /\ UNCHANGED <<next, cause, bindings, consumed, failures, reported, retained, cancelled>>

AdapterReadinessFails ==
  /\ At("adapterReady")
  /\ \/ Launch[next].readiness = "Probe" /\ Unwind("UnsupportedProbe")
     \/ Launch[next].readiness = "Delay" /\ cancelled /\ Unwind("Cancelled")
  /\ UNCHANGED <<next, running, bound, ledger, world>>

(* merge_checked and the Ready event. *)
AdapterReady ==
  /\ At("adapterReady") /\ Launch[next].readiness # "Probe" /\ offer # "Foreign"
  /\ bindings' = [bindings EXCEPT ![next] = offer]
  /\ Emit(next, "Ready")
  /\ stage' = "entry" /\ next' = next + 1
  /\ UNCHANGED <<running, cause, offer, consumed, failures, reported, retained, world>>

(* merge_checked refuses: startup returns without a teardown. *)
AdapterBindingsClash ==
  /\ At("adapterReady") /\ Launch[next].readiness # "Probe" /\ offer = "Foreign"
  /\ Return("BindingRefused")
  /\ UNCHANGED <<next, running, bound, ledger, world>>

----------------------------------------------------------------------------
(* Teardown: the loop shutdown and teardown_running share. *)

(* The caller's shutdown of a session that is up. *)
Shutdown ==
  /\ At("up")
  /\ stage' = "teardown"
  /\ UNCHANGED <<next, running, cause, bound, ledger, world>>

(* Mutant of StopNext: services are stopped in launch order. *)
StopNextInOrder ==
  /\ stage = "teardown" /\ running # <<>>
  /\ stopping' = running[1]
  /\ running' = Tail(running)
  /\ Emit(stopping', "Stopping")
  /\ stage' = IF Launch[stopping'].kind = "Process" THEN "grace" ELSE "adapterStop"
  /\ UNCHANGED <<next, cause, bound, failures, reported, retained, world>>

(* Pop the last service; a process is sent SIGTERM, errors ignored. *)
StopNext ==
  /\ stage = "teardown" /\ running # <<>>
  /\ stopping' = running[Len(running)]
  /\ running' = SubSeq(running, 1, Len(running) - 1)
  /\ Emit(stopping', "Stopping")
  /\ stage' = IF Launch[stopping'].kind = "Process" THEN "grace" ELSE "adapterStop"
  /\ UNCHANGED <<next, cause, bound, failures, reported, retained, world>>

(* Mutant of Stopped: the failure is recorded after the service is let go. *)
StoppedForgotten(failed) ==
  /\ stopping' = 0 /\ stage' = "teardown"
  /\ failures' = IF failed THEN Append(failures, stopping') ELSE failures
  /\ Emit(stopping, "Stopped")
  /\ retained' = IF Launch[stopping].kind = "Process" THEN retained \cup {stopping} ELSE retained
  /\ UNCHANGED <<next, running, cause, bound, reported, cancelled>>

(* Mutant of Stopped: a failed stop keeps no logs. *)
StoppedWithoutLogs(failed) ==
  /\ failures' = IF failed THEN Append(failures, stopping) ELSE failures
  /\ Emit(stopping, "Stopped")
  /\ retained' = IF Launch[stopping].kind = "Process" /\ ~failed THEN retained \cup {stopping} ELSE retained
  /\ stopping' = 0 /\ stage' = "teardown"
  /\ UNCHANGED <<next, running, cause, bound, reported, cancelled>>

(* Mutant of Stopped: the first failed stop ends the teardown. *)
StoppedEarly(failed) ==
  /\ failures' = IF failed THEN Append(failures, stopping) ELSE failures
  /\ Emit(stopping, "Stopped")
  /\ retained' = IF Launch[stopping].kind = "Process" THEN retained \cup {stopping} ELSE retained
  /\ stopping' = 0
  /\ stage' = IF ~failed THEN "teardown" ELSE IF cause = None THEN "stopped" ELSE "failed"
  /\ UNCHANGED <<next, running, cause, bound, reported, cancelled>>

(* The stop of the popped service is over; failed: with a cleanup failure. *)
Stopped(failed) ==
  /\ failures' = IF failed THEN Append(failures, stopping) ELSE failures
  /\ Emit(stopping, "Stopped")
  /\ retained' = IF Launch[stopping].kind = "Process" THEN retained \cup {stopping} ELSE retained
  /\ stopping' = 0 /\ stage' = "teardown"
  /\ UNCHANGED <<next, running, cause, bound, reported, cancelled>>

(* wait_for_child_exit sees the child gone; its group is not looked at. *)
ChildReaped ==
  /\ stage \in {"grace", "killWait"} /\ proc[stopping] \in {"exited", "reaped"}
  /\ proc' = [proc EXCEPT ![stopping] = "reaped"]
  /\ Stopped(FALSE)

GraceElapsed ==
  /\ At("grace")
  /\ stage' = "kill"
  /\ UNCHANGED <<next, running, cause, bound, ledger, world>>

(* SIGKILL to the group; a process may be stuck in the kernel. *)
KillGroup ==
  /\ At("kill")
  /\ \/ proc[stopping] = "alive" /\ proc' = [proc EXCEPT ![stopping] = "exited"]
     \/ UNCHANGED proc
  /\ stage' = "killWait"
  /\ UNCHANGED <<next, running, cause, bound, ledger, cancelled>>

KillFails ==
  /\ stage = "kill"
  /\ Stopped(TRUE)
  /\ UNCHANGED proc

(* Mutant of KillWaitElapsed: the expiry of the second wait is a success. *)
KillWaitAssumed ==
  /\ stage = "killWait"
  /\ Stopped(FALSE)
  /\ UNCHANGED proc

KillWaitElapsed ==
  /\ stage = "killWait"
  /\ Stopped(TRUE)
  /\ UNCHANGED proc

(* handle.shutdown(grace) answers; after an error the service may be up.   *)
AdapterStopped ==
  /\ stage = "adapterStop"
  /\ \/ proc' = [proc EXCEPT ![stopping] = "reaped"] /\ Stopped(FALSE)
     \/ /\ \E state \in {"alive", "reaped"} : proc' = [proc EXCEPT ![stopping] = state]
        /\ Stopped(TRUE)

(* Nothing is left to pop: shutdown reports, or startup returns its error  *)
(* with the failures attached if that error can carry them.                *)
TeardownDone ==
  /\ At("teardown") /\ running = <<>>
  /\ stage' = IF cause = None THEN "stopped" ELSE "failed"
  /\ reported' = IF cause \in CarriesCleanup \cup {None} THEN failures ELSE <<>>
  /\ UNCHANGED <<next, running, cause, bound, events, failures, retained, world>>

----------------------------------------------------------------------------
StartStep ==
  \/ Startup \/ BeginEntry \/ Resolve \/ SpawnCancelled \/ SpawnFails \/ Spawn
  \/ ReadinessCancelled \/ DelayExited \/ DelayElapsed \/ ProbeAttempt \/ ProbeAgain
  \/ ProbeTimeout \/ ProcessExitedEarly \/ ProcessReady \/ ProcessBindingRefused
  \/ AdapterStartCancelled \/ AdapterConflictStopped \/ AdapterReadinessFails
  \/ AdapterReady \/ AdapterBindingsClash

TeardownStep ==
  \/ StopNext \/ ChildReaped \/ GraceElapsed \/ KillGroup \/ KillFails
  \/ KillWaitElapsed \/ AdapterStopped \/ TeardownDone

AdapterAnswer == AdapterStartFails \/ AdapterDropped \/ AdapterConflicts \/ AdapterStarts

Environment ==
  \/ Cancel
  \/ \E s \in Services : ProcessExits(s)

Next == StartStep \/ TeardownStep \/ AdapterAnswer \/ Shutdown \/ Environment

(* The session's own steps are taken, and the deadline of a probe passes.  *)
(* No adapter has to answer a start, no process has to exit, nobody has to *)
(* cancel or to shut down; an adapter does answer a shutdown, which its    *)
(* contract bounds by the grace it is given.                               *)
Fairness == WF_vars(StartStep \/ TeardownStep) /\ WF_vars(ProbeTimeout)

Spec == Init /\ [][Next]_vars /\ Fairness

----------------------------------------------------------------------------
(* Properties. *)

TypeOK ==
  /\ stage \in Stages
  /\ next \in 1 .. N + 1
  /\ running \in Seq(Services)
  /\ stopping \in 0 .. N
  /\ cause \in Causes \cup {None}
  /\ offer \in Binding \cup {"Foreign"}
  /\ bindings \in [Sources -> Binding]
  /\ consumed \subseteq Services \X Sources
  /\ events \in Seq(Event)
  /\ failures \in Seq(Services)
  /\ reported \in Seq(Services)
  /\ retained \subseteq Services
  /\ cancelled \in BOOLEAN
  /\ proc \in [Services -> {"absent", "alive", "exited", "reaped"}]

Logged(s, kind) == [id |-> s, kind |-> kind]
Occurred(s, kind) == \E k \in 1 .. Len(events) : events[k] = Logged(s, kind)
Before(k, s, kind) == \E i \in 1 .. k - 1 : events[i] = Logged(s, kind)
Reported(s) == \E k \in 1 .. Len(failures) : failures[k] = s

(* No service is spawned before everything it depends on was ready, and no *)
(* command consumed a binding of a service that was not.                   *)
DependenciesReady ==
  /\ \A k \in 1 .. Len(events) :
       events[k].kind = "Spawned" =>
         \A d \in Launch[events[k].id].deps : Before(k, d, "Ready")
  /\ \A use \in consumed : use[2] # External => Occurred(use[2], "Ready")

(* A service is asked to stop only after every service that depends on it  *)
(* and was started has been stopped, whichever way startup ended.          *)
DependentsStopFirst ==
  \A k \in 1 .. Len(events) :
    events[k].kind = "Stopping" =>
      \A t \in Services :
        events[k].id \in Launch[t].deps /\ Before(k, t, "Spawned") => Before(k, t, "Stopped")

(* A service that was stopped is gone, or its stop is among the failures:  *)
(* the teardown loses none, whatever step of stop_process failed.          *)
StoppedOrReported ==
  \A s \in Services :
    Occurred(s, "Stopped") => proc[s] = "reaped" \/ Reported(s)

(* The two cancellation errors say truthfully whether a service had been   *)
(* started, and are returned only when the token was cancelled.            *)
CancellationTruthful ==
  /\ cause \in {"Cancelled", "CancelledBeforeSpawn"} => cancelled
  /\ cause = "Cancelled" => events # <<>>
  /\ cause = "CancelledBeforeSpawn" => events = <<>>

(* A session that has returned still gives the logs of every process it    *)
(* ever spawned.                                                           *)
LogsSurviveTeardown ==
  stage \in {"up", "failed", "stopped"} =>
    \A s \in Services :
      Launch[s].kind = "Process" /\ Occurred(s, "Spawned") =>
        s \in retained \/ \E k \in 1 .. Len(running) : running[k] = s

(* No service that was spawned is up, but those whose stop failed and was  *)
(* recorded.                                                               *)
NothingLeft ==
  \A s \in Services : Occurred(s, "Spawned") /\ proc[s] = "alive" => Reported(s)

(* A failed startup leaves nothing: its error paths tear down, process or  *)
(* adapter, except the two that return a refused binding as it is (see     *)
(* EveryFailureTearsDown).                                                 *)
FailedStartupLeavesNothing == stage = "failed" /\ cause # "BindingRefused" => NothingLeft

(* A cancellation ends a startup, also one that waits for an adapter or a  *)
(* probe that never answers.                                               *)
CancellationEndsStartup == cancelled ~> stage \notin StartingStages

(* Startup returns although nobody cancels, if no adapter is involved:     *)
(* delays and probes are bounded, whatever the processes do.               *)
StartupBounded == stage \in StartingStages ~> stage \notin StartingStages

----------------------------------------------------------------------------
(* The session implements its contract: what it owns are the running       *)
(* services and the one being stopped.                                     *)
Phase ==
  CASE stage = "idle" -> "Idle"
    [] stage \in StartingStages -> "Starting"
    [] stage = "up" -> "Up"
    [] stage \in TeardownStages -> IF cause = None THEN "Stopping" ELSE "Unwinding"
    [] stage = "failed" -> IF running = <<>> THEN "Failed" ELSE "Abandoned"
    [] stage = "stopped" -> "Stopped"

Owned == Len(running) + (IF stopping = 0 THEN 0 ELSE 1)

Contract == INSTANCE SessionContract WITH N <- N, phase <- Phase, owned <- Owned

ImplementsContract == Contract!Spec

----------------------------------------------------------------------------
(* What the documentation says and the code does not do.                   *)

(* docs/local-runner-lifecycle.md, "Every failure or cancellation after    *)
(* the first successful spawn tears down already-started processes".       *)
EveryFailureTearsDown == stage = "failed" => NothingLeft

(* docs/local-runner-lifecycle.md, "The initiating failure is preserved;   *)
(* teardown problems are reported alongside it": every cleanup failure the *)
(* teardown has collected reaches the caller of startup or shutdown.       *)
TeardownReported == stage \in {"failed", "stopped"} => reported = failures
=============================================================================
