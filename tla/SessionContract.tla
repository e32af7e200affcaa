-------------------------- MODULE SessionContract --------------------------
(***************************************************************************)
(* What a local session promises the coordinator: services are acquired    *)
(* one after the other and released last acquired first; the session is up *)
(* only when it owns all of them; a failed or stopped session owns none.   *)
(*                                                                         *)
(* "Abandoned" is the way out the code has besides: startup returns an     *)
(* error and keeps what it started.                                        *)
(***************************************************************************)
EXTENDS Integers

CONSTANT N    \* services of the launch order

VARIABLES phase, owned

vars == <<phase, owned>>

Init == phase = "Idle" /\ owned = 0

(* The plan names a probe nobody registered. *)
Refuse == phase = "Idle" /\ phase' = "Failed" /\ owned' = owned

Begin == phase = "Idle" /\ phase' = "Starting" /\ owned' = owned

Acquire == phase = "Starting" /\ owned < N /\ phase' = phase /\ owned' = owned + 1

Succeed == phase = "Starting" /\ owned = N /\ phase' = "Up" /\ owned' = owned

GiveUp ==
  /\ phase = "Starting"
  /\ phase' = "Unwinding" \/ (owned = 0 /\ phase' = "Failed")
  /\ owned' = owned

Abandon == phase = "Starting" /\ owned > 0 /\ phase' = "Abandoned" /\ owned' = owned

Shutdown == phase = "Up" /\ phase' = "Stopping" /\ owned' = owned

Release ==
  /\ phase \in {"Unwinding", "Stopping"} /\ owned > 0
  /\ phase' = phase
  /\ owned' = owned - 1

Finish ==
  /\ phase \in {"Unwinding", "Stopping"} /\ owned = 0
  /\ phase' = IF phase = "Unwinding" THEN "Failed" ELSE "Stopped"
  /\ owned' = owned

Next ==
  \/ Refuse \/ Begin \/ Acquire \/ Succeed \/ GiveUp \/ Abandon \/ Shutdown
  \/ Release \/ Finish

(* Teardown is carried through: every stop is bounded. *)
Spec == Init /\ [][Next]_vars /\ WF_vars(Release \/ Finish)
=============================================================================
