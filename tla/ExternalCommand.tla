-------------------------- MODULE ExternalCommand ---------------------------
(***************************************************************************)
(* The external tools of a run                                             *)
(* (crates/eggbench-drivers/src/external): one call of a driver as the     *)
(* commands it runs one after the other, each a run_command with its child *)
(* process, two drains and deadline, under a coordinator that may drop the *)
(* call at any await.                                                      *)
(*                                                                         *)
(* Output is counted in blocks; a report is stdout's first so many.  A     *)
(* descendant stays in the child's process group; it keeps the output      *)
(* pipes ("holding") or not ("quiet").  Abstracted: argv, resolution,      *)
(* stdin, what a report says.  Time is nondeterminism.                     *)
(***************************************************************************)
EXTENDS Integers, Sequences

CONSTANTS
  Calls,       \* pairs of a driver and the length of its reports
  Limit,       \* blocks retained of a stream
  Capacity     \* blocks a pipe holds

ASSUME BlocksAssumption == Limit \in Nat \ {0} /\ Capacity \in Nat \ {0}
ASSUME CallsAssumption == \A asked \in Calls : asked[2] \in Nat

None == "None"
NoStatus == -1
Streams == {"stdout", "stderr"}

-----------------------------------------------------------------------------
(* A command has a timeout of its own or the call's; it may insist on exit *)
(* status 0 and on a whole report; a refused plan may have a second try.   *)

Probe == [own |-> TRUE, gate |-> TRUE, whole |-> FALSE, retry |-> FALSE]
Validate == [own |-> TRUE, gate |-> TRUE, whole |-> TRUE, retry |-> FALSE]
GuardedPreflight == Validate
LoadPreflight == [Validate EXCEPT !.gate = FALSE]
Handshake == [Validate EXCEPT !.retry = TRUE]
Load == [own |-> FALSE, gate |-> FALSE, whole |-> TRUE, retry |-> FALSE]
Checked == [Load EXCEPT !.gate = TRUE]
Rows == [Load EXCEPT !.whole = FALSE]
Diagnose == Rows

(* A driver has its commands; the coordinator races it (with slack over    *)
(* its timeout, or without) or the command line waits for it; it may read  *)
(* the marks of an outcome, and take a failure for an answer; it looks at  *)
(* its token again when one of "checks" fails.                             *)
Workload(commands) ==
  [commands |-> commands, raced |-> TRUE, slack |-> FALSE, reads |-> FALSE,
   checks |-> {Probe}]

Oha == Workload(<<Probe, Load>>)
H2load == Workload(<<Probe, Rows>>)
Iperf3 == Workload(<<Probe, Load>>)
EggReplay == Workload(<<Probe, Validate, Checked>>)
EggsecLoad == [Workload(<<Probe, LoadPreflight, Load>>) EXCEPT !.checks = {}]
EggsecWaf ==
  [Workload(<<Probe, GuardedPreflight, Checked>>) EXCEPT
     !.slack = TRUE, !.checks = {Probe, GuardedPreflight, Checked}]
EggProbe == [Workload(<<Diagnose>>) EXCEPT !.slack = TRUE, !.reads = TRUE]
CommandLine(commands) == [Workload(commands) EXCEPT !.raced = FALSE]
PreflightEggprobe == CommandLine(<<Probe, Handshake, Handshake>>)
PreflightReplay == CommandLine(<<Probe, Validate>>)

VARIABLES
  driver, report,
  k,           \* the command that runs
  phase,       \* of run_command, or of the call
  why,         \* the command is terminated for this
  passed,      \* the command's deadline
  child, heir, \* its process, and a descendant
  exit,        \* its status
  sent, read,  \* blocks of each stream
  open,        \* streams whose drain task runs
  broken,      \* streams whose drain task ended on a failed read
  cancelled, due,   \* the run's token, the coordinator's deadline
  result

tool == <<child, heir, exit, sent>>
drains == <<read, open, broken>>
clock == <<passed, cancelled, due>>
call == <<driver, report, k, phase, why, result>>
vars == <<driver, report, k, phase, why, passed, child, heir, exit, sent, read, open, broken,
          cancelled, due, result>>

Init ==
  /\ \E asked \in Calls : driver = asked[1] /\ report = asked[2]
  /\ k = 1 /\ phase = "spawn" /\ why = None /\ result = None
  /\ passed = FALSE /\ cancelled = FALSE /\ due = FALSE
  /\ child = None /\ heir = None /\ exit = NoStatus
  /\ sent = [s \in Streams |-> 0] /\ read = [s \in Streams |-> 0] /\ open = {} /\ broken = {}

Command == driver.commands[k]
Descends == heir \in {"quiet", "holding"}

(* The coordinator's own branch is ready: nothing that takes time happens  *)
(* before it is polled.                                                    *)
Prompted == driver.raced /\ (cancelled \/ due)

-----------------------------------------------------------------------------
(* The tool and time. *)

Size(s) == IF s = "stdout" THEN report ELSE 1

(* Nobody can write to a stream that is no longer read. *)
Emit(s) ==
  /\ s \notin broken
  /\ child = "running" /\ sent[s] < Size(s) /\ sent[s] - read[s] < Capacity
  /\ sent' = [sent EXCEPT ![s] = @ + 1]
  /\ UNCHANGED <<child, heir, exit, drains, clock, call>>

Fork ==
  /\ child = "running" /\ heir = None
  /\ heir' \in {"quiet", "holding"}
  /\ UNCHANGED <<child, exit, sent, drains, clock, call>>

Quit ==
  /\ child = "running"
  /\ child' = "exited" /\ exit' \in {0, 1, 2, 130}
  /\ UNCHANGED <<heir, sent, drains, clock, call>>

HeirQuits ==
  /\ Descends /\ heir' = "gone"
  /\ UNCHANGED <<child, exit, sent, drains, clock, call>>

Cancel ==
  /\ driver.raced /\ ~cancelled /\ result = None /\ phase # "use" /\ cancelled' = TRUE
  /\ UNCHANGED <<passed, due, tool, drains, call>>

Due ==
  /\ driver.raced /\ ~due /\ result = None /\ phase # "use" /\ due' = TRUE
  /\ UNCHANGED <<passed, cancelled, tool, drains, call>>

(* The call's timeout starts after the coordinator's, which has some slack *)
(* over a diagnostic's or a check's.                                       *)
Pass ==
  /\ phase \in {"wait", "join"} /\ ~passed
  /\ Command.own \/ driver.slack \/ due
  /\ passed' = TRUE
  /\ UNCHANGED <<cancelled, due, tool, drains, call>>

-----------------------------------------------------------------------------
(* drain_stream: everything is read, the first blocks are kept.            *)

Drain(s) ==
  /\ s \in open /\ read[s] < sent[s]
  /\ read' = [read EXCEPT ![s] = @ + 1]
  /\ UNCHANGED <<open, broken, tool, clock, call>>

AtEnd(s) == read[s] = sent[s] /\ child # "running" /\ heir # "holding"

DrainEnds(s) ==
  /\ s \in open /\ AtEnd(s)
  /\ open' = open \ {s}
  /\ UNCHANGED <<read, broken, tool, clock, call>>

(* A read fails: the drain ends as at the end of the stream, with what was *)
(* read so far.                                                            *)
DrainFails(s) ==
  /\ s \in open
  /\ open' = open \ {s} /\ broken' = broken \cup {s}
  /\ UNCHANGED <<read, tool, clock, call>>

(* Output over the limit is dropped, and counted. *)
Retained == IF read["stdout"] < Limit THEN read["stdout"] ELSE Limit
Dropped == read["stdout"] - Retained

-----------------------------------------------------------------------------
(* run_command. *)

Enter(place) == phase' = place /\ UNCHANGED <<driver, report, k, why, result>>
Return(answer) ==
  phase' = "returned" /\ result' = answer /\ UNCHANGED <<driver, report, k, why>>

(* What the driver makes of an error of its command: a diagnostic that     *)
(* fails is an answer; a probe or a load preflight that times out is a     *)
(* failure.                                                                *)
Answer(error) ==
  IF driver.reads /\ error = "Failed" THEN "Done"
  ELSE IF cancelled /\ Command \in driver.checks THEN "Cancelled"
  ELSE IF Command \in {Probe, LoadPreflight} THEN "Failed"
  ELSE error

Fail == \E answer \in {"Failed", Answer("Failed")} : Return(answer)

(* The command is made, and spawned, or one of the two fails.              *)
Spawn ==
  /\ phase = "spawn"
  /\ \/ Enter("wait") /\ child' = "running" /\ open' = Streams
     \/ Fail /\ UNCHANGED <<child, open>>
  /\ heir' = None /\ exit' = NoStatus /\ passed' = FALSE /\ broken' = {}
  /\ sent' = [s \in Streams |-> 0] /\ read' = [s \in Streams |-> 0]
  /\ UNCHANGED <<cancelled, due>>

Exited ==
  /\ phase = "wait" /\ child = "exited"
  /\ child' = "reaped" /\ Enter("join")
  /\ UNCHANGED <<heir, exit, sent, drains, clock>>

(* The token or the deadline wins the race against the child's exit.       *)
Interrupted ==
  /\ phase = "wait"
  /\ \/ cancelled /\ why' = "Cancelled"
     \/ passed /\ why' = "TimedOut"
  /\ phase' = "term"
  /\ UNCHANGED <<driver, report, k, result, tool, drains, clock>>

(* terminate_child: TERM to the group, which some of it may ignore.        *)
Term ==
  /\ phase = "term"
  /\ child' \in {child, IF child = "running" THEN "exited" ELSE child}
  /\ heir' \in {heir, IF Descends THEN "gone" ELSE heir}
  /\ Enter("grace")
  /\ UNCHANGED <<exit, sent, drains, clock>>

(* Mutant of Kill: only the child is killed.                               *)
KillChildOnly ==
  /\ phase = "grace" /\ ~Prompted
  /\ child' = "reaped"
  /\ Enter("discard")
  /\ UNCHANGED <<heir, exit, sent, drains, clock>>

(* Half a second later, KILL to the group, and the child is waited for.    *)
Kill ==
  /\ phase = "grace" /\ ~Prompted
  /\ child' = "reaped" /\ heir' = IF Descends THEN "gone" ELSE heir
  /\ Enter("discard")
  /\ UNCHANGED <<exit, sent, drains, clock>>

(* The drains are given their bound, what they read is thrown away.        *)
Discard ==
  /\ phase = "discard" /\ (open = {} \/ ~Prompted)
  /\ Return(Answer(why))
  /\ UNCHANGED <<tool, drains, clock>>

Join ==
  /\ phase = "join" /\ open = {}
  /\ Enter("use")
  /\ UNCHANGED <<tool, drains, clock>>

(* Mutant of JoinExpires: what was read by then is taken for the output.   *)
JoinGivesUp ==
  /\ phase = "join" /\ open # {} /\ ~Prompted
  /\ Enter("use")
  /\ UNCHANGED <<tool, drains, clock>>

(* Mutant of JoinExpires: the drains are waited for without a bound.       *)
JoinWaits ==
  /\ phase = "join" /\ open # {} /\ heir # "holding"
  /\ Return(Answer("Failed"))
  /\ UNCHANGED <<tool, drains, clock>>

(* A drain does not end within its bound: cleanup failed, whatever the     *)
(* child's status.                                                         *)
JoinExpires ==
  /\ phase = "join" /\ open # {} /\ ~Prompted
  /\ Return(Answer("Failed"))
  /\ UNCHANGED <<tool, drains, clock>>

(* Within the same poll the driver looks at the outcome, which is marked   *)
(* if the token or the deadline came before its output was complete.       *)
Marked == IF cancelled THEN "Cancelled" ELSE IF passed THEN "TimedOut" ELSE None

Refused ==
  \/ Command.gate /\ exit # 0
  \/ Command.whole /\ Dropped > 0

Last == k = Len(driver.commands)
Retries == Command.retry /\ exit = 2 /\ ~Last

Diagnosed ==
  \/ Marked # None /\ Return(Marked)
  \/ Marked = None /\ Return("Done")
  \/ Marked = None /\ exit = 130 /\ Return("Cancelled")

Understood ==
  \/ ~Retries /\ Fail
  \/ ~Refused /\ (Last \/ Command.retry) /\ Return("Done")
  \/ /\ ~Last
     /\ IF Command.retry THEN Retries ELSE ~Refused
     /\ k' = k + 1 /\ phase' = "spawn" /\ UNCHANGED <<driver, report, why, result>>

Use ==
  /\ phase = "use"
  /\ IF driver.reads THEN Diagnosed ELSE Understood
  /\ UNCHANGED <<tool, drains, clock>>

-----------------------------------------------------------------------------
(* execute_invocation, run_diagnostic_phase and run_correctness_phase drop *)
(* the call on the run's token or their own timeout: kill_on_drop kills    *)
(* the child, the drains are on their own.                                 *)
Drop ==
  /\ Prompted /\ result = None /\ phase # "use"
  /\ \/ cancelled /\ result' = "Cancelled"
     \/ due /\ result' = "TimedOut"
  /\ phase' = "dropped"
  /\ child' = IF child = "running" THEN "exited" ELSE child
  /\ UNCHANGED <<driver, report, k, why, heir, exit, sent, drains, clock>>

RunCommand ==
  \/ Spawn \/ Exited \/ Interrupted \/ Term \/ Kill \/ Discard \/ Join \/ JoinExpires \/ Use

Tool == Fork \/ Quit \/ HeirQuits \/ \E s \in Streams : Emit(s)

Draining == \E s \in Streams : Drain(s) \/ DrainEnds(s)

Breaking == \E s \in Streams : DrainFails(s)

Next == RunCommand \/ Tool \/ Draining \/ Breaking \/ Cancel \/ Due \/ Pass \/ Drop

(* The executor polls what is ready and timers expire.  The tool may run   *)
(* for ever, and so may its descendants.                                   *)
Fairness == WF_vars(RunCommand) /\ WF_vars(Draining) /\ WF_vars(Due) /\ WF_vars(Pass) /\ WF_vars(Drop)

Spec == Init /\ [][Next]_vars /\ Fairness

-----------------------------------------------------------------------------
(* An outcome a driver sees comes from a child that was waited for and     *)
(* from streams read to their end, though a descendant may keep them, or   *)
(* to the read that failed.  What a driver that insists on a whole report  *)
(* has accepted is everything the tool wrote, unless such a read failed.   *)
OutcomeIsWhole ==
  /\ phase = "use" => child = "reaped" /\ \A s \in Streams : AtEnd(s) \/ s \in broken
  /\ result = "Done" /\ ~driver.reads /\ Command.whole /\ "stdout" \notin broken =>
       Retained = sent["stdout"]

(* "request bounded termination, continue draining pipes, ensure owned     *)
(* process cleanup": a command that reports its own cancellation or        *)
(* timeout leaves no process of its group, and a call that is over, even   *)
(* by being dropped, leaves no child.                                      *)
GroupCleaned ==
  /\ phase = "returned" /\ why # None => child = "reaped" /\ ~Descends
  /\ result # None => child # "running"

(* "Cancellation token plus explicit driver timeout are always observed":  *)
(* a call ends, though the tool ignores TERM or a descendant keeps its     *)
(* output open for ever.                                                   *)
CallEnds == result = None ~> result # None

(* "Unix uses a dedicated process group (TERM then KILL)": the claim of    *)
(* docs/external-drivers.md for every cancellation and timeout.  A call    *)
(* the coordinator drops does not get to the second signal.                *)
NoOrphans == result \in {"Cancelled", "TimedOut"} => ~Descends

(* "A drain that does not complete is a failure, never empty output"       *)
(* (command.rs, run_command): false of a drain whose read fails.           *)
DrainsComplete == phase = "use" => \A s \in Streams : AtEnd(s)
=============================================================================
