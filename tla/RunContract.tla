---------------------------- MODULE RunContract ----------------------------
(***************************************************************************)
(* What a benchmark run promises, without its sections, timeline, timeouts *)
(* or cancellation:                                                        *)
(*                                                                         *)
(*  - a run is refused only while it has started nothing;                  *)
(*  - measured work is done only by a run that nothing has gone wrong for, *)
(*    with its managed services up;                                        *)
(*  - a run has one verdict: it leaves "Completed" at most once, and from  *)
(*    then on only lost evidence can take the verdict away;                *)
(*  - services that came up are down before the run is sealed, whatever    *)
(*    happened; a run whose services were given up by their own startup    *)
(*    (a refused binding leaves them up, and the run cannot reach them)    *)
(*    works nothing;                                                       *)
(*  - a bundle is published only when its evidence is complete;            *)
(*  - a run that has begun to work or to clean up ends (while it prepares, *)
(*    it may wait for its services).                                       *)
(*                                                                         *)
(* Orchestration implements this contract: see Contract there.             *)
(***************************************************************************)

CONSTANT Managed

VARIABLES stage, services, verdict

vars == <<stage, services, verdict>>

Verdicts == {"Completed", "Failed", "Invalid", "Cancelled", "unreported"}

Ended == {"refused", "published", "failed"}

TypeOK ==
  /\ stage \in {"preparing", "working", "cleaning", "sealing"} \cup Ended
  /\ services \in {"idle", "running", "stopped", "abandoned"}
  /\ verdict \in Verdicts

Init ==
  /\ stage = "preparing"
  /\ services = "idle"
  /\ verdict = "Completed"

(* The verdict of the run stands, is reached, or is lost with its evidence. *)
Judge ==
  \/ UNCHANGED verdict
  \/ verdict = "Completed" /\ verdict' \in Verdicts \ {"Completed"}
  \/ verdict' = "unreported"

Move(from, to) ==
  /\ stage = from
  /\ stage' = to

Refuse ==
  /\ Move("preparing", "refused")
  /\ services = "idle"
  /\ UNCHANGED <<services, verdict>>

Start ==
  /\ stage = "preparing"
  /\ Managed
  /\ services = "idle"
  /\ services' = "running"
  /\ UNCHANGED <<stage, verdict>>

(* The verdict follows: a run that gave up its services can only GiveUp. *)
Abandon ==
  /\ stage = "preparing"
  /\ Managed
  /\ services = "idle"
  /\ services' = "abandoned"
  /\ Judge
  /\ verdict' # "Completed"
  /\ UNCHANGED stage

Work ==
  /\ Move("preparing", "working")
  /\ verdict = "Completed"
  /\ Managed => services = "running"
  /\ UNCHANGED <<services, verdict>>

GiveUp ==
  /\ Move("preparing", "cleaning")
  /\ Judge
  /\ verdict' # "Completed"
  /\ UNCHANGED services

StopWorking ==
  /\ Move("working", "cleaning")
  /\ Judge
  /\ UNCHANGED services

JudgeOnly ==
  /\ stage \notin Ended
  /\ Judge
  /\ UNCHANGED <<stage, services>>

CleanUp ==
  /\ Move("cleaning", "sealing")
  /\ Judge
  /\ services' = IF services = "running" THEN "stopped" ELSE services

Publish ==
  /\ Move("sealing", "published")
  /\ verdict # "unreported"
  /\ UNCHANGED <<services, verdict>>

FailToPublish ==
  /\ Move("sealing", "failed")
  /\ UNCHANGED <<services, verdict>>

Prepare == Refuse \/ Start \/ Abandon \/ Work \/ GiveUp

Advance == StopWorking \/ CleanUp \/ Publish \/ FailToPublish

Next == Prepare \/ Advance \/ JudgeOnly

Spec == Init /\ [][Next]_vars /\ WF_vars(Advance)
=============================================================================
