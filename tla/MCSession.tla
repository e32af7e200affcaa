----------------------------- MODULE MCSession -----------------------------
(***************************************************************************)
(* Launch orders the session is checked with.                              *)
(***************************************************************************)
EXTENDS Session

Service(aKind, aReadiness, someDeps, someNeeds, declared) ==
  [kind |-> aKind, readiness |-> aReadiness, registered |-> TRUE,
   deps |-> someDeps, needs |-> someNeeds, declares |-> declared]

(* A service that is ready when it runs, one with a declared endpoint      *)
(* behind a delay, an adapter beside it, a probed process that is given    *)
(* what both publish and an external binding, and an adapter with          *)
(* declarations of its own behind that.                                    *)
Mixed ==
  <<Service("Process", "None", {}, {}, FALSE),
    Service("Process", "Delay", {1}, {}, TRUE),
    Service("Adapter", "Delay", {1}, {}, FALSE),
    Service("Process", "Probe", {2, 3}, {0, 2, 3}, FALSE),
    Service("Adapter", "None", {3, 4}, {}, TRUE)>>

(* Two processes; the second is given what the first declares. *)
Consumer ==
  <<Service("Process", "None", {}, {}, TRUE),
    Service("Process", "None", {1}, {1}, FALSE)>>
=============================================================================
