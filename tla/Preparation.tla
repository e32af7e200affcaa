---------------------------- MODULE Preparation ----------------------------
(***************************************************************************)
(* From a plan to a run that may start: validation (PlanValidation), then  *)
(* prepare of crates/eggbench-runner/src/spec.rs with the launch order     *)
(* (topological_order, Kahn's algorithm on a queue), then the preflights   *)
(* of orchestration.rs that need no component to answer.                   *)
(*                                                                         *)
(* Abstracted: what makes a program, a directory, a secret or an argv      *)
(* unusable; a service carries the first check it fails.  Resolution is    *)
(* left out: it copies what is used here.                                  *)
(***************************************************************************)
EXTENDS PlanValidation

VARIABLES
  stage,       \* where prepare is, or how it returned
  counted,     \* services whose dependencies topological_order has counted
  indegree, dependents, ready, ordered,    \* its local variables
  walked,      \* services of that order the loop of prepare has passed
  launch,      \* launch_order: <<identity, kind>>
  error        \* RunnerError

order == <<counted, indegree, dependents, ready, ordered>>
preparation == <<stage, order, walked, launch, error>>
vars == <<plan, validation, preparation>>

Init ==
  /\ InitValidation
  /\ stage = "platform" /\ error = None
  /\ counted = 0
  /\ indegree = [s \in Names |-> 0]
  /\ dependents = [s \in Names |-> <<>>]
  /\ ready = <<>> /\ ordered = <<>>
  /\ walked = 0 /\ launch = <<>>

Refuse(reason) == stage' = "refused" /\ error' = reason
Continue(there) == stage' = there /\ UNCHANGED error

(* needs_managed_spawn *)
NeedsManagedSpawn == plan.subject = "Managed" \/ Names \cap plan.managed # {}

(* ensure_platform, then normalize_workspace_root *)
EnsurePlatform ==
  /\ stage = "platform" /\ section = "accepted"
  /\ \/ NeedsManagedSpawn /\ plan.platform # "Supported" /\ Refuse("UnsupportedPlatform")
     \/ /\ NeedsManagedSpawn => plan.platform = "Supported"
        /\ IF plan.workspace THEN Continue("subject") ELSE Refuse("InvalidWorkingDirectory")
  /\ UNCHANGED <<plan, validation, order, walked, launch>>

(* The managed subject: argv, executable, secrets; first in the order. *)
PrepareSubject ==
  /\ stage = "subject"
  /\ \/ plan.subject # "Managed" /\ Continue("count") /\ UNCHANGED launch
     \/ /\ plan.subject = "Managed" /\ plan.subjectFault # None
        /\ Refuse(plan.subjectFault) /\ UNCHANGED launch
     \/ /\ plan.subject = "Managed" /\ plan.subjectFault = None
        /\ launch' = Append(launch, <<Subject, "Process">>)
        /\ Continue("count")
  /\ UNCHANGED <<plan, validation, order, walked>>

(* Mutant of CountDependencies: a repeated dependency counts again. *)
CountRepeated ==
  /\ stage = "count" /\ counted < Len(plan.services)
  /\ LET s == plan.services[counted + 1]
         before == Elements(plan.dependsOn[s])
     IN  IF before \subseteq Names
         THEN /\ indegree' = [indegree EXCEPT ![s] = @ + Len(plan.dependsOn[s])]
              /\ dependents' = [d \in Names |->
                   IF d \in before THEN Append(dependents[d], s) ELSE dependents[d]]
              /\ Continue("count")
         ELSE Refuse("InvalidPlan") /\ UNCHANGED <<indegree, dependents>>
  /\ counted' = counted + 1
  /\ UNCHANGED <<plan, validation, ready, ordered, walked, launch>>

(* Count the distinct dependencies of one service. *)
CountDependencies ==
  /\ stage = "count" /\ counted < Len(plan.services)
  /\ LET s == plan.services[counted + 1]
         before == Elements(plan.dependsOn[s])
     IN  IF before \subseteq Names
         THEN /\ indegree' = [indegree EXCEPT ![s] = @ + Cardinality(before)]
              /\ dependents' = [d \in Names |->
                   IF d \in before THEN Append(dependents[d], s) ELSE dependents[d]]
              /\ Continue("count")
         ELSE Refuse("InvalidPlan") /\ UNCHANGED <<indegree, dependents>>
  /\ counted' = counted + 1
  /\ UNCHANGED <<plan, validation, ready, ordered, walked, launch>>

(* The initial queue: services without dependencies, by name. *)
FillQueue ==
  /\ stage = "count" /\ counted = Len(plan.services)
  /\ ready' = Ascending({s \in Names : indegree[s] = 0})
  /\ Continue("queue")
  /\ UNCHANGED <<plan, validation, counted, indegree, dependents, ordered, walked, launch>>

(* The elements of a list at some of its positions, in their order. *)
Chosen(list, positions) ==
  [k \in 1 .. Cardinality(positions) |-> list[Ascending(positions)[k]]]

(* Take a service off the queue and release its dependents. *)
PopReady ==
  /\ stage = "queue" /\ ready # <<>>
  /\ LET name == Head(ready)
         after == dependents[name]
         released == {k \in 1 .. Len(after) : indegree[after[k]] <= 1}
     IN  /\ ordered' = Append(ordered, name)
         /\ indegree' = [s \in Names |->
              IF s \in Elements(after) /\ indegree[s] > 0 THEN indegree[s] - 1 ELSE indegree[s]]
         /\ ready' = Tail(ready) \o Chosen(after, released)
         /\ dependents' = [dependents EXCEPT ![name] = <<>>]
  /\ UNCHANGED <<plan, validation, stage, counted, walked, launch, error>>

(* The queue is empty: services left out are on a cycle, or behind one. *)
CheckCycle ==
  /\ stage = "queue" /\ ready = <<>>
  /\ IF Len(ordered) = Len(plan.services) THEN Continue("walk") ELSE Refuse("InvalidPlan")
  /\ UNCHANGED <<plan, validation, order, walked, launch>>

Kind(s) == IF s \in plan.adapters THEN "Adapter" ELSE "Process"

Refusal(s) ==
  IF s \in plan.adapters
  THEN IF s \in plan.registered THEN None ELSE "UnsupportedService"
  ELSE plan.fault[s]

(* Mutant of PrepareService: an external service is launched, too. *)
PrepareEveryService ==
  /\ stage = "walk" /\ walked < Len(ordered)
  /\ LET s == ordered[walked + 1]
     IN  IF Refusal(s) # None THEN Refuse(Refusal(s)) /\ UNCHANGED launch
         ELSE launch' = Append(launch, <<s, Kind(s)>>) /\ Continue("walk")
  /\ walked' = walked + 1
  /\ UNCHANGED <<plan, validation, order>>

(* One service of the order: external ones are only observed; a command's  *)
(* argv, directory and executable, an adapter's type are checked.          *)
PrepareService ==
  /\ stage = "walk" /\ walked < Len(ordered)
  /\ LET s == ordered[walked + 1]
     IN  \/ s \notin plan.managed /\ Continue("walk") /\ UNCHANGED launch
         \/ s \in plan.managed /\ Refusal(s) # None /\ Refuse(Refusal(s)) /\ UNCHANGED launch
         \/ /\ s \in plan.managed /\ Refusal(s) = None
            /\ launch' = Append(launch, <<s, Kind(s)>>)
            /\ Continue("walk")
  /\ walked' = walked + 1
  /\ UNCHANGED <<plan, validation, order>>

Prepared ==
  /\ stage = "walk" /\ walked = Len(ordered)
  /\ Continue("prepared")
  /\ UNCHANGED <<plan, validation, order, walked, launch>>

(* The corpora a plan names must be there, with the cases it schedules. *)
CorporaMissing ==
  (plan.corpus # <<>> \/ plan.workload.kind = "HttpCorpus") /\ ~plan.corpora

(* The timeouts of the phases, then the reset hook. *)
PreflightChecks ==
  LET reset == plan.reset.kind # None
      given(key) == key \in plan.timeouts
  IN  <<When(Paired /\ (plan.measured < 2 \/ plan.measured % 2 # 0), "OddTrials"),
        When(~(plan.timeouts \subseteq {"measurement", "warmup", "reset", "drain", "telemetry"}),
             "UnknownTimeout"),
        When(~given("measurement") \/ ~given("drain"), "MissingTimeout"),
        When(reset /\ ~given("reset"), "MissingTimeout"),
        When(reset /\ plan.reset.target \notin plan.hooks, "MissingHook"),
        When(CorporaMissing, "InvalidCorpus")>>

PreflightRefusal == First(PreflightChecks)

Preflight ==
  /\ stage = "prepared"
  /\ IF PreflightRefusal = None THEN Continue("preflighted") ELSE Refuse(PreflightRefusal)
  /\ UNCHANGED <<plan, validation, order, walked, launch>>

(* preflight_diagnostics and preflight_correctness are skipped by a run    *)
(* that was cancelled; it starts nothing.                                  *)
ExecutorRefusal ==
  First(<<When(plan.diagnostics # <<>> /\ "diagnostics" \notin plan.executors, "MissingExecutor"),
          When(plan.security # <<>> /\ "security" \notin plan.executors, "MissingExecutor"),
          When(plan.corpus # <<>> /\ "corpus" \notin plan.executors, "MissingExecutor")>>)

PreflightExecutors ==
  /\ stage = "preflighted"
  /\ \/ stage' = "cancelled" /\ UNCHANGED error
     \/ IF ExecutorRefusal = None THEN Continue("admitted") ELSE Refuse(ExecutorRefusal)
  /\ UNCHANGED <<plan, validation, order, walked, launch>>

Prepare ==
  \/ EnsurePlatform \/ PrepareSubject \/ CountDependencies \/ FillQueue \/ PopReady
  \/ CheckCycle \/ PrepareService \/ Prepared \/ Preflight \/ PreflightExecutors

Next == Prepare \/ (Validate /\ UNCHANGED preparation)

Spec == Init /\ [][Next]_vars /\ WF_vars(Next)

----------------------------------------------------------------------------
TypeOK ==
  /\ stage \in {"platform", "subject", "count", "queue", "walk", "prepared", "preflighted",
               "admitted", "cancelled", "refused"}
  /\ roots \in 0 .. Cardinality(Names)
  /\ temporary \cup permanent \subseteq Names
  /\ counted \in 0 .. Len(plan.services)
  /\ indegree \in [Names -> Nat]
  /\ dependents \in [Names -> Seq(Names)]
  /\ ready \in Seq(Names)
  /\ ordered \in Seq(Names)
  /\ walked \in 0 .. Len(plan.services)
  /\ launch \in Seq((Names \cup {Subject}) \X {"Process", "Adapter"})
  /\ (error # None) <=> (stage = "refused")
  /\ (rejected # None) <=> (section = "rejected")

Position(s) == CHOOSE k \in 1 .. Len(ordered) : ordered[k] = s

(* Services that depend on one another in a circle. *)
Cyclic ==
  \E circle \in SUBSET Names :
    circle # {} /\ \A s \in circle : Elements(plan.dependsOn[s]) \cap circle # {}

Unknown == \E s \in Names : ~(Elements(plan.dependsOn[s]) \subseteq Names)

(* The two algorithms agree with each other and with the definition of a   *)
(* cycle.  The search of validate refuses a circle and nothing else; the   *)
(* queue of prepare refuses a plan as invalid exactly when a dependency is *)
(* unknown or circular, whatever is repeated and in which order services   *)
(* are declared; and prepare and preflight never refuse a validated plan   *)
(* for what validate has promised.                                         *)
RefusesExactlyInvalid ==
  /\ rejected = "cycle" => Cyclic
  /\ plan.validated /\ section \in {"workload", "accepted"} => ~(Cyclic \/ Unknown)
  /\ error = "InvalidPlan" => Cyclic \/ Unknown
  /\ stage \in {"walk", "prepared"} => ~(Cyclic \/ Unknown)
  /\ plan.validated => error \notin {"InvalidPlan", "EmptyArgv", "OddTrials"}

(* A prepared plan launches the managed subject first and then exactly the *)
(* managed services, each after the managed services it depends on, and    *)
(* every check holds of each: nothing is left to fail after a spawn.  The  *)
(* order it walks has every service, external ones too, after all it       *)
(* depends on, and, once validated, after all it takes bindings from.      *)
LaunchesInOrder ==
  /\ stage \in {"walk", "prepared"} =>
       /\ Elements(ordered) = Names /\ Len(ordered) = Len(plan.services)
       /\ \A s \in Names : \A d \in Elements(plan.dependsOn[s]) : Position(d) < Position(s)
       /\ plan.validated =>
            \A s \in Names : \A d \in Elements(plan.sources[s]) : Position(d) < Position(s)
  /\ stage = "prepared" =>
       /\ {entry[1] : entry \in Elements(launch)} =
            (Names \cap plan.managed) \cup (IF plan.subject = "Managed" THEN {Subject} ELSE {})
       /\ plan.subject = "Managed" => launch[1] = <<Subject, "Process">> /\ plan.subjectFault = None
       /\ \A i, j \in 1 .. Len(launch) :
            launch[j][1] # Subject /\ launch[i][1] \in Elements(plan.dependsOn[launch[j][1]]) => i < j
       /\ \A s \in Names \cap plan.managed : Refusal(s) = None
       /\ launch # <<>> => plan.platform = "Supported" /\ plan.workspace

(* Every name an admitted run will look up leads somewhere, each in a      *)
(* section of its own: the workload, its arms, the diagnostics, the checks *)
(* and the service to reset; no two records claim one name; and what       *)
(* bypasses a path or an arm is not combined with one.                     *)
Requests == Elements(plan.diagnostics) \cup Elements(plan.security) \cup Elements(plan.corpus)
Checks == Elements(plan.security) \cup Elements(plan.corpus)

NothingDangles ==
  /\ Reachable(plan.workload.target)
  /\ \A request \in Requests : Reachable(request.target)
  /\ Paired => {plan.paired.baseline, plan.paired.candidate} \subseteq Names /\ Checks = {}
  /\ Path => Requests = {} /\ ~Paired /\ plan.subject # "External"
  /\ plan.reset.kind = "Service" => plan.reset.target \in Names
  /\ Cardinality({request.id : request \in Checks}) = Len(plan.security) + Len(plan.corpus)
  /\ plan.reset.kind # None => plan.reset.target \in plan.hooks
  /\ Checks # {} => plan.executors \cap {"security", "corpus"} # {}

PreparedIsPreflighted ==
  /\ LaunchesInOrder
  /\ plan.validated /\ stage = "admitted" => NothingDangles
=============================================================================
