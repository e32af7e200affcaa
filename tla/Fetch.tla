------------------------------- MODULE Fetch --------------------------------
(***************************************************************************)
(* The native HTTP workload of a run                                       *)
(* (crates/eggbench-drivers/src/eggstack/fetch.rs): the invocations of the *)
(* coordinator, the workers that share one schedule, the requests with     *)
(* their deadlines and cancellation, and the dialer of a network path      *)
(* (path/dialer.rs) whose diagnostics become evidence.                     *)
(*                                                                         *)
(* Eggfetch is external: it reuses a connection or dials, and a request    *)
(* may fail or time out at any await.  A worker that is aborted runs on to *)
(* the end of its poll.  Time is nondeterminism.                           *)
(***************************************************************************)
EXTENDS PathEvidence

CONSTANTS
  Workers,       \* worker tasks of the largest schedule
  Asked,         \* pairs of a workload and a network path
  MaxRequests    \* requests of a schedule that only time ends, at most

ASSUME FetchAssumption ==
  Workers \subseteq Nat /\ IsFiniteSet(Workers) /\ 0 \in Workers /\ MaxRequests \in Nat
ASSUME AskedAssumption ==
  \A asked \in Asked :
    asked[1].total \in Nat /\ asked[1].concurrency \in Nat /\ Typable(asked[2])

(* A workload is [mode, total, concurrency, invocations]: its schedule, and *)
(* the warmups and trials of the run.                                      *)

Seed == 7

NoPath == [mode |-> "none", chain |-> <<>>, faults |-> NoFaults, configs |-> {}, drivers |-> {}]
NoReport == [made |-> FALSE]
NoEvidence == [made |-> FALSE]

VARIABLES
  workload, path,
  stage,       \* of the coordinator: refused, idle, running, failed, ended
  invocation,  \* invocations begun
  cancelled,   \* the token of the run
  due,         \* the schedule's deadline has passed
  claims,      \* the atomic the workers claim from
  at,          \* where each worker is
  ordinals,    \* of the dial a worker is in
  attempted,   \* outcomes folded in this invocation
  busy,        \* in_flight
  busiest,     \* max_in_flight
  next,        \* connection_ordinal
  diag,        \* SharedPathDiagnostics
  before,      \* its snapshot when the invocation began
  report,      \* method evidence of the last invocation
  reported,    \* dials of the reports so far
  evidence     \* run evidence

vars == <<workload, path, stage, invocation, cancelled, due, claims, at, ordinals, attempted,
          busy, busiest, next, diag, before, report, reported, evidence>>

setup == <<workload, path>>
run == <<stage, invocation, cancelled, report, reported, evidence>>
schedule == <<due, claims, attempted>>
dials == <<ordinals, next, diag, before>>

Routed == path.mode # "none"
Faulty == Routed /\ HasFaults(path)
Corpus == workload.mode = "corpus"

(* run_plan: a schedule of so many requests, or one that only time ends:   *)
(* that one is cut at MaxRequests.                                         *)
Budget == IF workload.mode = "deadline" THEN MaxRequests ELSE workload.total
Crew == {w \in Workers : w < Greater(workload.concurrency, 1)}

(* A request for a path that the plan, the resolution or the lowering      *)
(* refuses ends the run before it begins; only a closed loop is routed.    *)
Init ==
  /\ \E asked \in Asked : workload = asked[1] /\ path = asked[2]
  /\ Routed => Accepted(path, TRUE) /\ Resolves(path) /\ ~Corpus
  /\ stage = IF Routed /\ ~Lowers(path, TRUE) THEN "refused" ELSE "idle"
  /\ invocation = 0 /\ cancelled = FALSE /\ due = FALSE /\ claims = 0
  /\ at = [w \in Workers |-> "off"] /\ ordinals = [w \in Workers |-> 0]
  /\ attempted = 0 /\ busy = 0 /\ busiest = 0
  /\ next = 0 /\ diag = NoDials /\ before = Snapshot(NoDials)
  /\ report = NoReport /\ evidence = NoEvidence
  /\ reported = [attempts |-> 0, ok |-> 0, ends |-> 0]

(* The child token of the invocation. *)
Told == cancelled \/ stage # "running"

Cancel ==
  /\ ~cancelled /\ stage \in {"idle", "running", "failed"}
  /\ cancelled' = TRUE
  /\ UNCHANGED <<setup, stage, invocation, report, reported, evidence, schedule, dials, at, busy, busiest>>

(* duration_ms or the timeout of the invocation. *)
Expire ==
  /\ stage = "running" /\ ~due
  /\ due' = TRUE
  /\ UNCHANGED <<setup, run, claims, attempted, dials, at, busy, busiest>>

(* execute_inner: the diagnostics are read and the workers spawned.        *)
Begin ==
  /\ stage = "idle" /\ invocation < workload.invocations /\ ~cancelled
  /\ stage' = "running" /\ invocation' = invocation + 1
  /\ due' = FALSE /\ attempted' = 0
  /\ claims' = IF Corpus THEN 0 ELSE Budget
  /\ busy' = 0 /\ busiest' = 0
  /\ at' = [w \in Workers |-> IF w \in Crew THEN "loop" ELSE "off"]
  /\ before' = Snapshot(diag)
  /\ diag' = IF Routed THEN BeginInvocation(diag, next) ELSE diag
  /\ report' = NoReport
  /\ UNCHANGED <<setup, cancelled, reported, evidence, ordinals, next>>

Go(w, place) == at' = [at EXCEPT ![w] = place]

(* The head of the worker's loop: the token, then the deadlines. *)
Check(w) ==
  /\ at[w] = "loop"
  /\ Go(w, IF Told \/ due THEN "joined" ELSE "claim")
  /\ UNCHANGED <<setup, run, schedule, dials, busy, busiest>>

(* Mutant of Exhausted: the last claim is not used. *)
ExhaustedEarly == IF Corpus THEN claims >= Budget ELSE claims <= 1

Exhausted == IF Corpus THEN claims >= Budget ELSE claims = 0

(* Mutant of Claim: a worker that finds no claim goes on looking.          *)
ClaimAgain(w) ==
  /\ at[w] = "claim"
  /\ Go(w, IF Exhausted THEN "loop" ELSE "issue")
  /\ claims' = IF Corpus THEN claims ELSE Greater(claims - 1, 0)
  /\ UNCHANGED <<setup, run, due, attempted, dials, busy, busiest>>

(* fetch_update stays at zero; fetch_add of the corpus runs past the end.  *)
Claim(w) ==
  /\ at[w] = "claim"
  /\ Go(w, IF Exhausted THEN "joined" ELSE "issue")
  /\ claims' = IF Corpus THEN claims + 1 ELSE Greater(claims - 1, 0)
  /\ UNCHANGED <<setup, run, due, attempted, dials, busy, busiest>>

(* Whatever became of a request, its outcome is one more attempt.          *)
Note == attempted' = attempted + 1

(* A closed loop that is told takes no slot. *)
NotIssued(w) ==
  /\ at[w] = "issue" /\ ~Corpus /\ Told
  /\ Note /\ Go(w, "loop")
  /\ UNCHANGED <<setup, run, due, claims, dials, busy, busiest>>

Issue(w) ==
  /\ at[w] = "issue" /\ (Corpus \/ ~Told)
  /\ busy' = busy + 1 /\ busiest' = Greater(busiest, busy + 1)
  /\ Go(w, "send")
  /\ UNCHANGED <<setup, run, schedule, dials>>

(* The request of a worker is over. *)
Over(w) ==
  /\ Note /\ Go(w, "loop") /\ busy' = busy - 1
  /\ UNCHANGED <<setup, run, due, claims, busiest>>

(* A pooled connection, or no dialer to ask. *)
Reuse(w) ==
  /\ at[w] = "send" /\ (Routed => diag.ok > diag.unwrapped)
  /\ Go(w, "answer")
  /\ UNCHANGED <<setup, run, schedule, dials, busy, busiest>>

Dial(w) ==
  /\ at[w] = "send" /\ Routed
  /\ ordinals' = [ordinals EXCEPT ![w] = next] /\ next' = next + 1
  /\ diag' = RecordAttempt(diag)
  /\ Go(w, "dial")
  /\ UNCHANGED <<setup, run, schedule, before, busy, busiest>>

(* The Eggress route fails: no other is tried. *)
DialFails(w) ==
  /\ at[w] = "dial"
  /\ \E l \in Labels : diag' = RecordFailure(diag, l)
  /\ Over(w)
  /\ ordinals' = [ordinals EXCEPT ![w] = 0]
  /\ UNCHANGED <<next, before>>

(* The route is there; active faults wrap the stream in the same poll.     *)
DialSucceeds(w) ==
  /\ at[w] = "dial"
  /\ diag' = RecordDial(diag, Hops(path), ordinals[w])
  /\ Go(w, IF Faulty THEN "wrap" ELSE "answer")
  /\ ordinals' = [ordinals EXCEPT ![w] = 0]
  /\ UNCHANGED <<setup, run, schedule, next, before, busy, busiest>>

Wrapped(w) ==
  /\ at[w] = "wrap"
  /\ diag' = RecordWrapped(diag) /\ Go(w, "answer")
  /\ UNCHANGED <<setup, run, schedule, ordinals, next, before, busy, busiest>>

(* Mutant of WrapFails: the early return leaves the wrapper uncounted.     *)
WrapFailsUncounted(w) ==
  /\ at[w] = "wrap"
  /\ Over(w)
  /\ UNCHANGED <<ordinals, next, before, diag>>

WrapFails(w) ==
  /\ at[w] = "wrap"
  /\ diag' = RecordUnwrapped(diag) /\ Over(w)
  /\ UNCHANGED <<ordinals, next, before>>

(* A failure of the request or of its body, or the request's deadline,     *)
(* which drops a dial where it is.                                         *)
RequestFails(w) ==
  /\ at[w] \in {"send", "dial", "answer"}
  /\ Over(w)
  /\ ordinals' = [ordinals EXCEPT ![w] = 0]
  /\ UNCHANGED <<next, diag, before>>

(* The response and its body, two awaits raced alike; the digest or the    *)
(* status may still make the outcome an error.                             *)
Answered(w) ==
  /\ at[w] = "answer" /\ Over(w)
  /\ UNCHANGED dials

(* The token wins the race at an await. *)
Interrupted(w) ==
  /\ Told /\ at[w] \in {"send", "dial", "answer"}
  /\ Over(w)
  /\ ordinals' = [ordinals EXCEPT ![w] = 0]
  /\ UNCHANGED <<next, diag, before>>

(* The invocation was dropped: its task ends at the next await, its        *)
(* outcome is no one's.                                                    *)
Dropped(w) ==
  /\ stage \in {"failed", "ended"} /\ at[w] \in {"loop", "send", "dial", "answer"}
  /\ Go(w, "joined")
  /\ UNCHANGED <<setup, run, schedule, dials, busy, busiest>>

AllJoined == \A w \in Workers : at[w] \in {"off", "joined"}

(* Every worker has been joined: the evidence of the invocation is made.   *)
Finish ==
  /\ stage = "running" /\ AllJoined
  /\ LET delta == IF Routed THEN Delta(diag, before) ELSE Delta(NoDials, Snapshot(NoDials))
     IN  /\ report' = [made |-> TRUE, attempted |-> attempted, busiest |-> busiest, delta |-> delta, next |-> next]
         /\ reported' = [attempts |-> reported.attempts + delta.attempts,
                         ok |-> reported.ok + delta.ok,
                         ends |-> reported.ends + delta.wrapped + delta.unwrapped]
  /\ stage' = "idle"
  /\ UNCHANGED <<setup, invocation, cancelled, evidence, schedule, dials, at, busy, busiest>>

(* The coordinator gives the invocation up, on the token of the run or its *)
(* own timeout, and drops the future with its tasks.  No later invocation  *)
(* begins.                                                                 *)
GiveUp ==
  /\ stage = "running"
  /\ stage' = "failed"
  /\ UNCHANGED <<setup, invocation, cancelled, report, reported, evidence, schedule, dials, at, busy, busiest>>

(* run_evidence, after the drain and the teardown.  A dropped task is not  *)
(* awaited, so the wrapper of a dial may not be counted yet.               *)
End ==
  /\ stage = "failed" \/ (stage = "idle" /\ (cancelled \/ invocation = workload.invocations))
  /\ stage' = "ended"
  /\ evidence' = IF Routed THEN [made |-> TRUE, json |-> Evidence(path, Seed, Snapshot(diag)),
                                 inPoll |-> \E w \in Workers : at[w] = "wrap"]
                 ELSE NoEvidence
  /\ UNCHANGED <<setup, invocation, cancelled, report, reported, schedule, dials, at, busy, busiest>>

Worker(w) ==
  \/ Check(w) \/ Claim(w) \/ NotIssued(w) \/ Issue(w)
  \/ Reuse(w) \/ Dial(w) \/ DialFails(w) \/ DialSucceeds(w) \/ Wrapped(w) \/ WrapFails(w)
  \/ RequestFails(w) \/ Answered(w) \/ Interrupted(w) \/ Dropped(w)

Next == Cancel \/ Expire \/ Begin \/ Finish \/ GiveUp \/ End \/ \E w \in Workers : Worker(w)

(* Tasks are polled; a request ends within its timeout, so no state of a   *)
(* worker lasts.  Nothing makes the coordinator's own timeout or a         *)
(* cancellation happen.                                                    *)
Fairness ==
  /\ \A w \in Workers : WF_vars(Worker(w))
  /\ WF_vars(Begin \/ Finish \/ End)

Spec == Init /\ [][Next]_vars /\ Fairness

-----------------------------------------------------------------------------
(* A schedule of so many requests is reported short only when it was       *)
(* stopped, never in excess, and never busier than its concurrency         *)
(* ("exactly the planned count is issued"; "at most `concurrency` active   *)
(* requests"): workers that pass the check of the token and the deadline   *)
(* together still share one claim counter.                                 *)
ScheduleIsExact ==
  report.made =>
    /\ report.attempted <= Budget
    /\ workload.mode # "deadline" /\ ~due /\ ~cancelled => report.attempted = Budget
    /\ report.busiest <= Cardinality(Crew)

(* "one invocation's coherent diagnostics delta": the dials of a report    *)
(* are those of its invocation, none of an earlier one nor of a dial a     *)
(* timeout dropped on the way, each successful one ended, its ordinals     *)
(* within the invocation's; and the reports add up to the run's counters.  *)
DeltaIsTheInvocations ==
  report.made /\ Routed =>
    LET d == report.delta IN
    /\ d.attempts = report.next - diag.start
    /\ d.ok + d.dropped + Total(d.failures) <= d.attempts
    /\ d.wrapped + d.unwrapped = IF Faulty THEN d.ok ELSE 0
    /\ d.ok > 0 => diag.start <= d.min /\ d.min + d.ok - 1 <= d.max /\ d.max < report.next
    /\ reported = [attempts |-> diag.attempts, ok |-> diag.ok, ends |-> diag.wrapped + diag.unwrapped]

(* A path the plan accepts is lowered, and the evidence of its run passes  *)
(* its own validation and the one of the comparison, whatever became of    *)
(* the dials; unless a dropped task was between a dial and its wrapper     *)
(* when the counters were read.                                            *)
EvidenceAccepted ==
  /\ stage # "refused"
  /\ evidence.made =>
       evidence.inPoll \/ (Valid(evidence.json) /\ Stored(evidence.json, path, Seed))

(* "no per-request task leaks after the invocation": a worker that runs    *)
(* ends, with the invocation or after it was dropped.                      *)
WorkersEnd == ~AllJoined ~> AllJoined
=============================================================================
