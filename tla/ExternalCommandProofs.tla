------------------------ MODULE ExternalCommandProofs -----------------------
(***************************************************************************)
(* Proofs about the calls of external tools, for every driver, every       *)
(* length of report and every bound on what is retained.                   *)
(***************************************************************************)
EXTENDS ExternalCommand, TLAPS

(* Blocks are counted: what a drain has read was sent, and the tool sends  *)
(* no more of a stream than there is.                                      *)
Counted ==
  /\ report \in Nat
  /\ read \in [Streams -> Nat] /\ sent \in [Streams -> Nat]
  /\ \A s \in Streams : read[s] <= sent[s] /\ sent[s] <= Size(s)

(* A drain that has ended saw the end of its stream, and nobody is left to *)
(* write more; or its read failed.                                         *)
DrainedInv ==
  /\ open \subseteq Streams
  /\ \A s \in Streams \ open : AtEnd(s) \/ s \in broken
  /\ phase = "use" => open = {}
  /\ result = "Done" => phase = "returned"
  /\ result = "Done" /\ ~driver.reads => open = {}

(* Which process is left in which phase.                                   *)
ProcessInv ==
  /\ phase \in {"spawn", "wait", "join", "use"} => why = None /\ result = None
  /\ phase \in {"term", "grace"} => result = None
  /\ phase = "discard" => result = None /\ child = "reaped" /\ ~Descends
  /\ phase = "spawn" => child \in {None, "reaped"}
  /\ phase \in {"join", "use"} => child = "reaped"
  /\ phase = "dropped" => child # "running" /\ result # "Done"
  /\ phase = "returned" =>
       /\ child \in {None, "reaped"}
       /\ why # None => child = "reaped" /\ ~Descends
  /\ phase \in {"spawn", "wait", "term", "grace", "discard", "join", "use", "returned", "dropped"}
  /\ why \in {None, "Cancelled", "TimedOut"}

(* A report a driver has accepted was not cut.                             *)
WholeInv == result = "Done" /\ ~driver.reads /\ Command.whole => read["stdout"] <= Limit

CommandInv == Counted /\ DrainedInv /\ ProcessInv /\ WholeInv

LEMMA InitCommand == Init => CommandInv
BY CallsAssumption
   DEF Init, CommandInv, Counted, DrainedInv, ProcessInv, WholeInv, Streams, Size, AtEnd, None

(* The actions, for the lemmas that go through them.                       *)
LEMMA Actions ==
  [Next]_vars =>
    \/ Spawn \/ Exited \/ Interrupted \/ Term \/ Kill \/ Discard \/ Join \/ JoinExpires \/ Use
    \/ Fork \/ Quit \/ HeirQuits \/ (\E s \in Streams : Emit(s) \/ Drain(s) \/ DrainEnds(s) \/ DrainFails(s))
    \/ Cancel \/ Due \/ Pass \/ Drop \/ vars' = vars
BY DEF Next, RunCommand, Tool, Draining, Breaking

LEMMA CountedKept == CommandInv /\ [Next]_vars => Counted'
<1> SUFFICES ASSUME CommandInv, [Next]_vars PROVE Counted'
  OBVIOUS
<1>1. Counted
  BY DEF CommandInv
<1>2. ASSUME UNCHANGED <<report, read, sent>> PROVE Counted'
  BY <1>1, <1>2 DEF Counted, Size
<1>3. CASE Spawn
  BY <1>1, <1>3 DEF Spawn, Enter, Fail, Return, Counted, Size, Streams
<1>4. ASSUME NEW s \in Streams, Emit(s) PROVE Counted'
  <2>1. sent[s] < Size(s) /\ sent' = [sent EXCEPT ![s] = @ + 1] /\ UNCHANGED <<report, read>>
    BY <1>4 DEF Emit, drains, call
  <2> QED
    BY <1>1, <2>1 DEF Counted, Size
<1>5. ASSUME NEW s \in Streams, Drain(s) PROVE Counted'
  <2>1. read[s] < sent[s] /\ read' = [read EXCEPT ![s] = @ + 1] /\ UNCHANGED <<report, sent>>
    BY <1>5 DEF Drain, tool, call
  <2> QED
    BY <1>1, <2>1 DEF Counted, Size
<1>6. ASSUME NEW s \in Streams, DrainEnds(s) \/ DrainFails(s) PROVE Counted'
  BY <1>2, <1>6 DEF DrainEnds, DrainFails, tool, call
<1>7. CASE Exited \/ Interrupted \/ Term \/ Kill \/ Discard \/ Join \/ JoinExpires \/ Use
  BY <1>2, <1>7 DEF Exited, Interrupted, Term, Kill, Discard, Join, JoinExpires, Use, Diagnosed,
                    Understood, Fail, Enter, Return, tool, drains
<1>8. CASE Fork \/ Quit \/ HeirQuits \/ Cancel \/ Due \/ Pass \/ Drop \/ vars' = vars
  BY <1>2, <1>8 DEF Fork, Quit, HeirQuits, Cancel, Due, Pass, Drop, vars, tool, drains, call
<1> QED
  BY Actions, <1>3, <1>4, <1>5, <1>6, <1>7, <1>8

LEMMA ProcessKept == CommandInv /\ [Next]_vars => ProcessInv'
<1> SUFFICES ASSUME CommandInv, [Next]_vars PROVE ProcessInv'
  OBVIOUS
<1>1. ProcessInv
  BY DEF CommandInv
<1>2. CASE Spawn
  BY <1>1, <1>2 DEF Spawn, Enter, Fail, Return, ProcessInv, Descends, None
<1>3. CASE Exited \/ Interrupted \/ Term
  BY <1>1, <1>3 DEF Exited, Interrupted, Term, Enter, ProcessInv, Descends, None, tool
<1>4. CASE Kill
  BY <1>1, <1>4 DEF Kill, Enter, ProcessInv, Descends, None
<1>5. CASE Discard
  BY <1>1, <1>5 DEF Discard, Return, ProcessInv, Descends, None, tool
<1>6. CASE Join \/ JoinExpires
  BY <1>1, <1>6 DEF Join, JoinExpires, Enter, Return, ProcessInv, Descends, None, tool
<1>7. CASE Use
  BY <1>1, <1>7 DEF Use, Diagnosed, Understood, Fail, Return, ProcessInv, Descends, None, tool
<1>8. CASE Fork \/ Quit \/ HeirQuits
  BY <1>1, <1>8 DEF Fork, Quit, HeirQuits, ProcessInv, Descends, None, call
<1>9. ASSUME NEW s \in Streams, Emit(s) \/ Drain(s) \/ DrainEnds(s) \/ DrainFails(s) PROVE ProcessInv'
  BY <1>1, <1>9 DEF Emit, Drain, DrainEnds, DrainFails, ProcessInv, Descends, tool, call
<1>10. CASE Cancel \/ Due \/ Pass \/ vars' = vars
  BY <1>1, <1>10 DEF Cancel, Due, Pass, vars, ProcessInv, Descends, tool, call
<1>11. CASE Drop
  BY <1>1, <1>11 DEF Drop, ProcessInv, Descends, None
<1> QED
  BY Actions, <1>2, <1>3, <1>4, <1>5, <1>6, <1>7, <1>8, <1>9, <1>10, <1>11

(* A stream at its end stays there when the child is not started again.    *)
LEMMA EndKept ==
  ASSUME NEW s \in Streams, AtEnd(s), read'[s] = read[s], sent'[s] = sent[s],
         child' = child \/ child' # "running", heir' = heir \/ heir' # "holding"
  PROVE  AtEnd(s)'
BY DEF AtEnd

LEMMA DrainedKept == CommandInv /\ [Next]_vars => DrainedInv'
<1> SUFFICES ASSUME CommandInv, [Next]_vars PROVE DrainedInv'
  OBVIOUS
<1>1. Counted /\ DrainedInv /\ ProcessInv
  BY DEF CommandInv
(* Steps that read and write nothing, and after which the child runs only  *)
(* if it ran, and a descendant holds the output only if it did.            *)
<1>2. ASSUME UNCHANGED <<read, sent, open, broken, driver>>,
             child' = child \/ child' # "running", heir' = heir \/ heir' # "holding",
             phase' = "use" => open = {},
             result' = "Done" => phase' = "returned" /\ (driver.reads \/ open = {})
      PROVE  DrainedInv'
  BY <1>1, <1>2, EndKept DEF DrainedInv
<1>3. CASE Spawn
  <2>1. CASE Enter("wait") /\ open' = Streams
    BY <1>1, <1>3, <2>1 DEF Spawn, DrainedInv, ProcessInv, Enter, None
  <2>2. CASE Fail /\ UNCHANGED <<child, open>>
    BY <1>1, <1>3, <2>2 DEF Spawn, Fail, Return, Answer, DrainedInv, ProcessInv, AtEnd, None, Streams
  <2> QED
    BY <1>3, <2>1, <2>2 DEF Spawn
<1>4. CASE Exited \/ Interrupted \/ Term \/ Kill
  BY <1>1, <1>2, <1>4 DEF Exited, Interrupted, Term, Kill, Enter, DrainedInv, ProcessInv, tool, drains
<1>5. CASE Discard
  BY <1>1, <1>2, <1>5 DEF Discard, Return, Answer, DrainedInv, ProcessInv, None, tool, drains
<1>6. CASE Join \/ JoinExpires
  BY <1>1, <1>2, <1>6 DEF Join, JoinExpires, Enter, Return, Answer, DrainedInv, ProcessInv, None, tool, drains
<1>7. CASE Use
  <2>1. phase = "use" /\ open = {} /\ result = None /\ UNCHANGED <<tool, drains, driver>> /\ phase' \in {"returned", "spawn"}
    BY <1>1, <1>7 DEF Use, Diagnosed, Understood, Fail, Return, DrainedInv, ProcessInv
  <2>2. phase' = "returned" \/ result' = result
    BY <1>7 DEF Use, Diagnosed, Understood, Fail, Return
  <2> QED
    BY <1>1, <1>2, <2>1, <2>2 DEF tool, drains, None
<1>8. CASE Fork \/ Quit \/ HeirQuits
  <2>1. UNCHANGED <<read, sent, open, broken, driver, phase, result>>
    BY <1>8 DEF Fork, Quit, HeirQuits, drains, call
  <2>2. ASSUME NEW s \in Streams, AtEnd(s) PROVE AtEnd(s)'
    BY <1>8, <2>1, <2>2 DEF Fork, Quit, HeirQuits, AtEnd
  <2> QED
    BY <1>1, <2>1, <2>2 DEF DrainedInv
<1>9. ASSUME NEW s \in Streams, Emit(s) PROVE DrainedInv'
  <2>1. /\ child = "running" /\ sent' = [sent EXCEPT ![s] = @ + 1]
        /\ UNCHANGED <<read, open, broken, driver, phase, result, child, heir>>
    BY <1>9 DEF Emit, drains, call
  <2>2. \A t \in Streams \ open : t \in broken
    BY <1>1, <2>1 DEF DrainedInv, AtEnd
  <2> QED
    BY <1>1, <2>1, <2>2 DEF DrainedInv
<1>10. ASSUME NEW s \in Streams, Drain(s) PROVE DrainedInv'
  <2>1. /\ s \in open /\ read' = [read EXCEPT ![s] = @ + 1]
        /\ UNCHANGED <<sent, open, broken, driver, phase, result, child, heir>>
    BY <1>10 DEF Drain, tool, call
  <2>2. ASSUME NEW t \in Streams \ open, AtEnd(t) PROVE AtEnd(t)'
    BY <1>1, <2>1, <2>2 DEF AtEnd, Counted
  <2> QED
    BY <1>1, <2>1, <2>2 DEF DrainedInv
<1>11. ASSUME NEW s \in Streams, DrainEnds(s) \/ DrainFails(s) PROVE DrainedInv'
  <2>1. /\ open' = open \ {s} /\ UNCHANGED <<read, sent, driver, phase, result, child, heir>>
        /\ (AtEnd(s) /\ broken' = broken) \/ broken' = broken \cup {s}
    BY <1>11 DEF DrainEnds, DrainFails, tool, call
  <2>2. \A t \in Streams : AtEnd(t)' <=> AtEnd(t)
    BY <2>1 DEF AtEnd
  <2> QED
    BY <1>1, <2>1, <2>2 DEF DrainedInv
<1>12. CASE Cancel \/ Due \/ Pass \/ vars' = vars
  <2>1. UNCHANGED <<read, sent, open, broken, driver, phase, result, child, heir>>
    BY <1>12 DEF Cancel, Due, Pass, vars, tool, drains, call
  <2>2. \A t \in Streams : AtEnd(t)' <=> AtEnd(t)
    BY <2>1 DEF AtEnd
  <2> QED
    BY <1>1, <2>1, <2>2 DEF DrainedInv
<1>13. CASE Drop
  <2>1. /\ UNCHANGED <<read, sent, open, broken, driver, heir>> /\ result' \in {"Cancelled", "TimedOut"}
        /\ phase' = "dropped" /\ (child' = child \/ child' = "exited")
    BY <1>13 DEF Drop, drains
  <2> QED
    BY <1>2, <2>1
<1> QED
  BY Actions, <1>3, <1>4, <1>5, <1>6, <1>7, <1>8, <1>9, <1>10, <1>11, <1>12, <1>13

LEMMA WholeKept == CommandInv /\ [Next]_vars => WholeInv'
<1> SUFFICES ASSUME CommandInv, [Next]_vars PROVE WholeInv'
  OBVIOUS
<1>1. Counted /\ DrainedInv /\ ProcessInv /\ WholeInv
  BY DEF CommandInv
<1>2. ASSUME result' = "Done" => UNCHANGED <<driver, report, k, read, result>> PROVE WholeInv'
  BY <1>1, <1>2 DEF WholeInv, Command
<1>3. ASSUME result' = "Done" => driver.reads /\ driver' = driver PROVE WholeInv'
  BY <1>3 DEF WholeInv
<1>4. ASSUME ~Refused PROVE Command.whole => read["stdout"] <= Limit
  <2>1. read["stdout"] \in Nat /\ Limit \in Nat
    BY <1>1, BlocksAssumption DEF Counted, Streams
  <2> QED
    BY <1>4, <2>1 DEF Refused, Dropped, Retained
<1>5. CASE Spawn \/ JoinExpires
  BY <1>1, <1>2, <1>3, <1>5 DEF Spawn, JoinExpires, Enter, Fail, Return, Answer, ProcessInv, None
<1>6. CASE Discard
  BY <1>1, <1>2, <1>3, <1>6 DEF Discard, Return, Answer, ProcessInv, None
<1>7. CASE Exited \/ Interrupted \/ Term \/ Kill \/ Join
  BY <1>2, <1>1, <1>7 DEF Exited, Interrupted, Term, Kill, Join, Enter, ProcessInv, None
<1>8. CASE Use
  <2>1. phase = "use" /\ result = None /\ UNCHANGED <<driver, report, read>>
    BY <1>1, <1>8 DEF Use, Diagnosed, Understood, Fail, Return, ProcessInv, drains
  <2>2. CASE driver.reads
    BY <1>3, <2>1, <2>2
  <2>3. CASE ~driver.reads
    <3>1. Understood
      BY <1>8, <2>3 DEF Use
    <3>2. CASE Fail
      BY <1>3, <2>1, <2>3, <3>2 DEF Fail, Return, Answer
    <3>3. CASE ~Refused /\ Return("Done")
      BY <1>4, <2>1, <3>3 DEF Return, WholeInv, Command
    <3>4. CASE UNCHANGED result
      BY <1>3, <2>1, <3>4 DEF None
    <3> QED
      BY <3>1, <3>2, <3>3, <3>4 DEF Understood
  <2> QED
    BY <2>2, <2>3
<1>9. CASE Fork \/ Quit \/ HeirQuits \/ Cancel \/ Due \/ Pass \/ vars' = vars
  BY <1>2, <1>9 DEF Fork, Quit, HeirQuits, Cancel, Due, Pass, vars, tool, drains, call
<1>10. ASSUME NEW s \in Streams, Emit(s) \/ DrainEnds(s) \/ DrainFails(s) PROVE WholeInv'
  BY <1>2, <1>10 DEF Emit, DrainEnds, DrainFails, tool, drains, call
<1>11. ASSUME NEW s \in Streams, Drain(s) PROVE WholeInv'
  <2>1. s \in open /\ UNCHANGED <<driver, result>>
    BY <1>11 DEF Drain, call
  <2> QED
    BY <1>1, <1>3, <2>1 DEF DrainedInv
<1>12. CASE Drop
  BY <1>3, <1>12 DEF Drop
<1> QED
  BY Actions, <1>5, <1>6, <1>7, <1>8, <1>9, <1>10, <1>11, <1>12

LEMMA CommandHolds == Spec => []CommandInv
<1>1. CommandInv /\ [Next]_vars => CommandInv'
  BY CountedKept, DrainedKept, ProcessKept, WholeKept DEF CommandInv
<1> QED
  BY <1>1, InitCommand, PTL DEF Spec

(* What a driver takes for the outcome of its command comes from a child   *)
(* that was waited for and from streams read to their end, or to a read    *)
(* that failed; a report it accepts is then everything the tool wrote,     *)
(* unless a read failed (run_command, join_pipes, drain_stream and the     *)
(* drivers' checks of truncation).                                         *)
THEOREM OutcomesAreWhole == Spec => []OutcomeIsWhole
<1>1. CommandInv => OutcomeIsWhole
  <2> SUFFICES ASSUME CommandInv PROVE OutcomeIsWhole
    OBVIOUS
  <2>1. phase = "use" => child = "reaped" /\ \A s \in Streams : AtEnd(s) \/ s \in broken
    BY DEF CommandInv, DrainedInv, ProcessInv
  <2>2. ASSUME result = "Done", ~driver.reads, Command.whole, "stdout" \notin broken
        PROVE  Retained = sent["stdout"]
    <3>1. read["stdout"] = sent["stdout"]
      BY <2>2 DEF CommandInv, DrainedInv, AtEnd, Streams
    <3>2. read["stdout"] \in Nat /\ Limit \in Nat /\ read["stdout"] <= Limit
      BY <2>2, BlocksAssumption DEF CommandInv, Counted, WholeInv, Streams
    <3> QED
      BY <3>1, <3>2 DEF Retained
  <2> QED
    BY <2>1, <2>2 DEF OutcomeIsWhole
<1> QED
  BY <1>1, CommandHolds, PTL

(* A command that reports its own cancellation or timeout has left no      *)
(* process of its group, and a call that is over no child                  *)
(* (terminate_child, kill_on_drop).                                        *)
THEOREM GroupIsCleaned == Spec => []GroupCleaned
<1>1. CommandInv => GroupCleaned
  BY DEF CommandInv, ProcessInv, GroupCleaned, None
<1> QED
  BY <1>1, CommandHolds, PTL
=============================================================================
