----------------------------- MODULE Telemetry ------------------------------
(***************************************************************************)
(* The telemetry of one run: the registry the CLI builds, the two probe    *)
(* points, the windows of the measured trials and the final drain of the   *)
(* coordinator (crates/eggbench-runner/src/orchestration.rs), with the     *)
(* collectors and their polling tasks                                      *)
(* (crates/eggbench-drivers/src/gregg/collect.rs, prometheus_http.rs) and  *)
(* a cancellation at any time.                                             *)
(*                                                                         *)
(* Time is nondeterminism: an interval ends, a request fails and a budget  *)
(* expires when they please.  Services, diagnostics, workloads and         *)
(* evidence are reduced to their answers (Orchestration.tla has them).     *)
(***************************************************************************)
EXTENDS Scrape

CONSTANTS
  RequestLists,   \* the telemetry sections that are run: sequences of requests
  Snapshots,      \* answers of the Gregg daemon
  Pages,          \* answers of the scraped endpoint
  Trials,         \* measured trials
  MaxPolls        \* polls of a run, at most

ASSUME BoundsAssumption == Trials \in Nat /\ MaxPolls \in Nat
ASSUME PagesAssumption ==
  \A page \in Pages : \A i \in DOMAIN page.lines : page.lines[i].value \in Int
ASSUME ListsAssumption ==
  \A list \in RequestLists : Len(list) \in Nat /\ DOMAIN list = 1 .. Len(list)

Collectors == {Gregg, Prometheus}

VARIABLES
  requests,    \* resolved.telemetry
  built,       \* the registry: the request a collector was built from
  cancelled,   \* the token of the run
  step,        \* the section of the coordinator
  at,          \* requests, sources or windows that section has dealt with
  probed,      \* sources this probe point found
  active,      \* TelemetryPlan.active
  disabled,    \* TelemetryPlan.disabled
  trial,       \* trials begun
  opened,      \* started_sources
  closing,     \* where stop_trial of the collector in hand is
  window,      \* collectors whose window is open
  data,        \* the samples the window and its task share
  task,        \* the polling task
  stopped,     \* collectors whose window token is cancelled
  outputs,     \* outputs of this trial, by source
  warned,      \* telemetry_warnings: sources whose last sample is missing
  stopFailed,  \* sources whose stop or drain failed
  polls

vars == <<requests, built, cancelled, step, at, probed, active, disabled, trial, opened,
          closing, window, data, task, stopped, outputs, warned, stopFailed, polls>>

setup == <<requests, built>>
plan == <<probed, active, disabled>>
tasks == <<window, data, task, stopped, polls>>
results == <<outputs, warned, stopFailed>>

NoWindow == [base |-> <<>>, samples |-> <<>>, dropped |-> 0, errors |-> 0, seen |-> <<>>, lost |-> 0]

(* production_telemetry_registry: a required source that cannot be built,  *)
(* or a source that is built twice, refuses the run; resolution refused    *)
(* the fields no driver has.                                               *)
Refused(list) ==
  \/ Unsupported(list)
  \/ \E i \in DOMAIN list : list[i].required /\ ~Builds(list[i])
  \/ \E i, j \in DOMAIN list :
       i # j /\ list[i].source = list[j].source /\ Builds(list[i]) /\ Builds(list[j])

Registry(list) ==
  LET usable == {i \in DOMAIN list : Builds(list[i])}
  IN  [c \in {list[i].source : i \in usable} |->
         list[CHOOSE i \in usable : list[i].source = c]]

Init ==
  /\ requests \in RequestLists
  /\ built = Registry(requests)
  /\ cancelled = FALSE
  /\ step = IF Refused(requests) THEN "refused" ELSE "before"
  /\ at = 0
  /\ probed = <<>> /\ active = <<>> /\ disabled = {}
  /\ trial = 0 /\ opened = <<>> /\ closing = "take"
  /\ window = {} /\ stopped = {} /\ polls = 0
  /\ task = [c \in Collectors |-> "none"]
  /\ data = [c \in Collectors |-> NoWindow]
  /\ outputs = <<>> /\ warned = {} /\ stopFailed = {}

Ended == step \in {"refused", "done"}

Cancel ==
  /\ ~cancelled /\ ~Ended
  /\ cancelled' = TRUE
  /\ UNCHANGED <<setup, step, at, plan, trial, opened, closing, tasks, results>>

(* The next of a list, and the section it is dealt with in. *)
Doing(section, list) == step = section /\ at < Len(list)
This(list) == list[at + 1]
Through(section, list) == step = section /\ at = Len(list)
Enter(section) == step' = section /\ at' = 0

Answers(c) == IF c = Gregg THEN Snapshots ELSE Pages

(* preflight_timing of the collectors. *)
Timing(c) == IF c = Gregg THEN "before" ELSE "after"

Here(point) ==
  /\ Doing(point, requests)
  /\ This(requests).source \in DOMAIN built
  /\ Timing(This(requests).source) = point

PassOver(point) ==
  /\ Doing(point, requests) /\ ~Here(point)
  /\ disabled' = IF point = "before" /\ This(requests).source \notin DOMAIN built
                 THEN disabled \cup {This(requests).source} ELSE disabled
  /\ at' = at + 1
  /\ UNCHANGED <<setup, cancelled, step, probed, active, trial, opened, closing, tasks, results>>

ProbeSucceeds(point) ==
  /\ Here(point) /\ ~cancelled
  /\ \E answer \in Answers(This(requests).source) : Probed(built[This(requests).source], answer)
  /\ probed' = Append(probed, This(requests).source) /\ at' = at + 1
  /\ UNCHANGED <<setup, cancelled, step, active, disabled, trial, opened, closing, tasks, results>>

(* A probe fails, times out or meets the cancellation.  The plan of a      *)
(* failed required source replaces what this point had found.              *)
ProbeFails(point) ==
  /\ Here(point)
  /\ IF This(requests).required
     THEN /\ probed' = <<>>
          /\ Enter(IF point = "before" THEN "done" ELSE "drain")
          /\ UNCHANGED disabled
     ELSE /\ disabled' = disabled \cup {This(requests).source}
          /\ at' = at + 1
          /\ UNCHANGED <<probed, step>>
  /\ UNCHANGED <<setup, cancelled, active, trial, opened, closing, tasks, results>>

(* A cancellation leaves the point with nothing found. *)
ProbeDiscarded(point) ==
  /\ Here(point) /\ cancelled
  /\ probed' = <<>> /\ at' = Len(requests)
  /\ UNCHANGED <<setup, cancelled, step, active, disabled, trial, opened, closing, tasks, results>>

PointEnds(point) ==
  /\ Through(point, requests)
  /\ active' = active \o probed /\ probed' = <<>>
  /\ Enter(IF point = "before" THEN "startup" ELSE "trial")
  /\ UNCHANGED <<setup, cancelled, disabled, trial, opened, closing, tasks, results>>

(* The services come up, or the run ends with them down. *)
Startup ==
  /\ step = "startup"
  /\ \/ ~cancelled /\ Enter("after")
     \/ Enter("done")
  /\ UNCHANGED <<setup, cancelled, plan, trial, opened, closing, tasks, results>>

(* The head of the trial loop. *)
BeginTrial ==
  /\ step = "trial"
  /\ IF cancelled \/ trial = Trials
     THEN Enter("drain") /\ UNCHANGED <<trial, opened, outputs, warned>>
     ELSE /\ Enter("open")
          /\ trial' = trial + 1 /\ opened' = <<>>
          /\ outputs' = <<>> /\ warned' = {}
  /\ UNCHANGED <<setup, cancelled, plan, closing, tasks, stopFailed>>

(* start_inner: the first sample, the window and its polling task.         *)
OpenWindow ==
  LET c == This(active) IN
  /\ Doing("open", active) /\ ~cancelled
  /\ c \notin window
  /\ \E answer \in Answers(c) :
       /\ ~Rejected(built[c], answer)
       /\ data' = [data EXCEPT ![c] = Fresh(built[c], Sample(built[c], answer))]
  /\ window' = window \cup {c}
  /\ stopped' = stopped \ {c}
  /\ task' = [task EXCEPT ![c] = "sleep"]
  /\ opened' = Append(opened, c) /\ at' = at + 1
  /\ UNCHANGED <<setup, cancelled, step, plan, trial, closing, polls, results>>

(* Mutant of OpenFails: the windows that are open stay so. *)
OpenFailsOnly ==
  /\ Doing("open", active)
  /\ Enter("drain")
  /\ UNCHANGED <<setup, cancelled, plan, trial, opened, closing, tasks, results>>

(* A start fails, finds its window open, times out or is cancelled: the    *)
(* windows that are open are stopped for nothing.                          *)
OpenFails ==
  /\ Doing("open", active)
  /\ Enter("abandon")
  /\ UNCHANGED <<setup, cancelled, plan, trial, opened, closing, tasks, results>>

Measure ==
  /\ Through("open", active)
  /\ Enter("work")
  /\ UNCHANGED <<setup, cancelled, plan, trial, opened, closing, tasks, results>>

(* The workload ends; nothing but its success gives the outputs a trial.   *)
WorkEnds ==
  /\ step = "work"
  /\ \/ ~cancelled /\ Enter("close")
     \/ Enter("salvage")
  /\ UNCHANGED <<setup, cancelled, plan, trial, opened, closing, tasks, results>>

(* stop_trial runs for each open window, after the workload whatever       *)
(* became of it.                                                           *)
Stopping(phase) == step \in {"close", "salvage", "abandon"} /\ at < Len(opened) /\ closing = phase

TakeWindow ==
  LET c == This(opened) IN
  /\ Stopping("take")
  /\ window' = window \ {c} /\ stopped' = stopped \cup {c}
  /\ closing' = "join"
  /\ UNCHANGED <<setup, cancelled, step, at, plan, trial, opened, data, task, polls, results>>

Joined ==
  /\ Stopping("join") /\ task[This(opened)] = "none"
  /\ closing' = "final"
  /\ UNCHANGED <<setup, cancelled, step, at, plan, trial, opened, tasks, results>>

Settled == at' = at + 1 /\ closing' = "take"

(* A failed stop of an abandoned start is not recorded: the trial has failed. *)
Blamed(c) == IF step = "abandon" THEN stopFailed ELSE stopFailed \cup {c}

(* The stop budget expires: before the task ended, which is then left to   *)
(* its token, or in the final request.                                     *)
StopExpires ==
  /\ Stopping("join") \/ Stopping("final")
  /\ stopFailed' = Blamed(This(opened))
  /\ Settled
  /\ UNCHANGED <<setup, cancelled, step, plan, trial, opened, tasks, outputs, warned>>

(* The output of a stopped window, with its last sample or without.        *)
Conclude(c, w) ==
  /\ data' = [data EXCEPT ![c] = w]
  /\ IF RequiredInvalid(built[c], w)
     THEN stopFailed' = Blamed(c) /\ UNCHANGED outputs
     ELSE /\ outputs' = IF step = "close"
                        THEN [d \in DOMAIN outputs \cup {c} |->
                                IF d = c THEN Output(built[c], w) ELSE outputs[d]]
                        ELSE outputs
          /\ UNCHANGED stopFailed
  /\ Settled
  /\ UNCHANGED <<setup, cancelled, step, plan, trial, opened, window, task, stopped, polls>>

FinalSample ==
  LET c == This(opened) IN
  /\ Stopping("final")
  /\ c = Prometheus => ~cancelled
  /\ \E answer \in Answers(c) :
       /\ ~Rejected(built[c], answer)
       /\ Conclude(c, Push(c, data[c], Sample(built[c], answer)))
  /\ UNCHANGED warned

(* Mutant of NoFinalSample: the trial is not told. *)
NoFinalSampleUntold ==
  LET c == This(opened) IN
  /\ Stopping("final")
  /\ Conclude(c, [data[c] EXCEPT !.lost = @ + 1])
  /\ UNCHANGED warned

(* A last sample that fails, or is skipped, is a warning of the output,    *)
(* which the trial takes over with it.                                     *)
NoFinalSample ==
  LET c == This(opened) IN
  /\ Stopping("final")
  /\ Conclude(c, [data[c] EXCEPT !.lost = @ + 1])
  /\ warned' = IF c \in DOMAIN outputs' THEN warned \cup {c} ELSE warned

Closed ==
  /\ step \in {"close", "salvage", "abandon"} /\ at = Len(opened)
  /\ Enter(IF step = "close" /\ stopFailed = {} THEN "trial" ELSE "drain")
  /\ outputs' = IF stopFailed = {} THEN outputs ELSE <<>>
  /\ warned' = IF stopFailed = {} THEN warned ELSE {}
  /\ UNCHANGED <<setup, cancelled, plan, trial, opened, closing, tasks, stopFailed>>

(* drain of the active collectors: a window that is still open is closed,  *)
(* and its task aborted.                                                   *)
Drain ==
  LET c == This(active) IN
  /\ Doing("drain", active)
  /\ window' = window \ {c}
  /\ stopped' = IF c \in window THEN stopped \cup {c} ELSE stopped
  /\ task' = IF c \in window THEN [task EXCEPT ![c] = "none"] ELSE task
  /\ at' = at + 1
  /\ UNCHANGED <<setup, cancelled, step, plan, trial, opened, closing, data, polls, results>>

Drained ==
  /\ Through("drain", active)
  /\ Enter("done")
  /\ UNCHANGED <<setup, cancelled, plan, trial, opened, closing, tasks, results>>

(* The polling task of a window.  Its token is a child of the run's.       *)
Told(c) == c \in stopped \/ cancelled

(* The interval ends; a task that is told at the same moment may go either *)
(* way.                                                                    *)
Poll(c) ==
  /\ task[c] = "sleep" /\ polls < MaxPolls
  /\ task' = [task EXCEPT ![c] = "fetch"]
  /\ polls' = polls + 1
  /\ UNCHANGED <<setup, cancelled, step, at, plan, trial, opened, closing, window, data, stopped, results>>

Ends(c, w) ==
  /\ data' = [data EXCEPT ![c] = w]
  /\ task' = [task EXCEPT ![c] = IF Told(c) THEN "none" ELSE "sleep"]
  /\ UNCHANGED <<setup, cancelled, step, at, plan, trial, opened, closing, window, stopped, polls, results>>

PollAnswers(c) ==
  /\ task[c] = "fetch"
  /\ \E answer \in Answers(c) :
       /\ ~Rejected(built[c], answer)
       /\ Ends(c, Push(c, data[c], Sample(built[c], answer)))

PollFails(c) ==
  /\ task[c] = "fetch"
  /\ Ends(c, [data[c] EXCEPT !.errors = @ + 1, !.lost = @ + 1])

(* Mutant of Obey: the token is looked at during a request only. *)
ObeyInRequest(c) ==
  /\ Told(c) /\ task[c] = "fetch" /\ c = Prometheus
  /\ task' = [task EXCEPT ![c] = "none"]
  /\ UNCHANGED <<setup, cancelled, step, at, plan, trial, opened, closing, window, data, stopped, polls, results>>

(* The task that is told ends: from its sleep, and the Prometheus task     *)
(* from its request too.                                                   *)
Obey(c) ==
  /\ Told(c)
  /\ task[c] = "sleep" \/ (task[c] = "fetch" /\ c = Prometheus)
  /\ task' = [task EXCEPT ![c] = "none"]
  /\ UNCHANGED <<setup, cancelled, step, at, plan, trial, opened, closing, window, data, stopped, polls, results>>

Probe(point) ==
  PassOver(point) \/ ProbeSucceeds(point) \/ ProbeFails(point) \/ ProbeDiscarded(point) \/ PointEnds(point)

Stop == TakeWindow \/ Joined \/ StopExpires \/ FinalSample \/ NoFinalSample \/ Closed

Coordinator ==
  \/ Probe("before") \/ Startup \/ Probe("after")
  \/ BeginTrial \/ OpenWindow \/ OpenFails \/ Measure \/ WorkEnds \/ Stop
  \/ Drain \/ Drained

Task(c) == Poll(c) \/ PollAnswers(c) \/ PollFails(c) \/ Obey(c)

Next == Cancel \/ Coordinator \/ \E c \in Collectors : Task(c)

(* Every await of the coordinator has a timeout, every request of a task   *)
(* has one, and the runtime polls a task whose token is cancelled.         *)
Spec == /\ Init /\ [][Next]_vars
        /\ WF_vars(Coordinator)
        /\ \A c \in Collectors : WF_vars(PollAnswers(c) \/ PollFails(c)) /\ WF_vars(Obey(c))

(***************************************************************************)
(* Properties.                                                             *)
(***************************************************************************)

(* Between trials no window is open and no polling task lives.  While the  *)
(* collectors are drained and when the run is over no window is open, and  *)
(* a task that still lives was told to stop and its failed stop is         *)
(* recorded, or belongs to a trial that never began.  A workload is        *)
(* measured only with a window of every source that was asked for, or with *)
(* that source disabled, which a required one never is.                    *)
WindowsPaired ==
  /\ step \in {"trial", "drain", "done"} => window = {}
  /\ step = "trial" => \A c \in Collectors : task[c] = "none"
  /\ step \in {"drain", "done"} => \A c \in Collectors : task[c] # "none" =>
       c \in stopped /\ (c \in stopFailed \/ Len(opened) < Len(active))
  /\ step = "work" => \A i \in DOMAIN requests :
       \/ requests[i].source \in window
       \/ requests[i].source \in disabled /\ ~requests[i].required

(* The trial's own snapshots of a field, in order. *)
Observed(c, name) ==
  LET seen == data[c].seen IN ValuesOf(IF c = Gregg THEN Deduplicated(seen) ELSE seen, name)

(* A required field of a scraped endpoint reaches a trial only from a whole *)
(* window: no poll failed, every snapshot that was taken holds the field,  *)
(* none was evicted, and a counter that began at the start snapshot never  *)
(* went back, its value being what it gained up to the last snapshot.      *)
(* That snapshot is the one taken after the workload, or the trial carries *)
(* the warning that it is missing.                                         *)
RequiredIsWhole ==
  Prometheus \in DOMAIN outputs =>
    LET w == data[Prometheus] IN
    \A f \in Kept(built[Prometheus]) :
      LET values == Observed(Prometheus, f.name)
      IN  f.required =>
            /\ f.name \in DOMAIN outputs[Prometheus]
            /\ w.errors = 0 /\ Len(values) = Len(w.seen) /\ Len(w.samples) = Len(w.seen)
            /\ w.lost = 0 \/ Prometheus \in warned
            /\ f.kind = "counter" =>
                 LET run == <<w.base[f.name]>> \o values IN
                 /\ \A i, j \in DOMAIN run : i < j => run[i] <= run[j]
                 /\ outputs[Prometheus][f.name] = run[Len(run)] - run[1]

(* A metric of a trial that records no dropped sample summarises every     *)
(* snapshot its window took, each daemon timestamp once; one that records  *)
(* drops has as many samples as it took and did not drop.                  *)
NothingLostSilently ==
  \A c \in DOMAIN outputs : LET w == data[c] IN
    /\ Len(w.seen) = Len(w.samples) + w.dropped
    /\ w.dropped = 0 => \A name \in DOMAIN outputs[c] :
         LET values == Observed(c, name) IN
         IF c = Gregg THEN outputs[c][name] = Aggregate(HostMetrics[name], values)
         ELSE LET f == CHOOSE f \in Kept(built[c]) : f.name = name IN
              IF f.kind = "gauge" THEN outputs[c][name] = Aggregate(f.aggregation, values)
              ELSE outputs[c][name] = Last(<<w.base[name]>> \o values) - w.base[name]

(* In the end the coordinator has returned and no polling task lives,      *)
(* whatever stop or drain failed on the way.                               *)
PollingEnds == <>[](Ended /\ \A c \in Collectors : task[c] = "none")

(* No polling task survives its trial (docs/gregg-telemetry.md). *)
PollingEndsWithTrial ==
  step \in {"trial", "drain", "done"} => \A c \in Collectors : task[c] = "none"

(* A required field is not reported when a snapshot of its window was lost *)
(* (prometheus_http.rs, required_metric_gap).                              *)
RequiredFailsClosed ==
  Prometheus \in DOMAIN outputs =>
    \A f \in Kept(built[Prometheus]) : f.required => data[Prometheus].lost = 0

(* A reported counter was observed in its window (docs/metrics.md: missing *)
(* samples are omitted, zero is never inserted).                           *)
ZeroIsObserved ==
  \A c \in DOMAIN outputs : \A name \in DOMAIN outputs[c] : Observed(c, name) # <<>>
=============================================================================
