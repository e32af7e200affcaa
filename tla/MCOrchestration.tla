-------------------------- MODULE MCOrchestration --------------------------
(***************************************************************************)
(* Plans the coordinator is checked with.                                  *)
(***************************************************************************)
EXTENDS Orchestration

NoSources == <<>>
NoDiagnostics == <<>>

Collector(isRequired, isRegistered, isManaged) ==
  [required |-> isRequired, registered |-> isRegistered, managed |-> isManaged]

(* A collector nobody registered, an external one and a managed one that   *)
(* are required, and an external optional one.                             *)
FourSources ==
  <<Collector(FALSE, FALSE, FALSE), Collector(TRUE, TRUE, FALSE),
    Collector(TRUE, TRUE, TRUE), Collector(FALSE, TRUE, FALSE)>>

BothSlots == <<[slot |-> "Both", required |-> FALSE]>>

PreAndBoth ==
  <<[slot |-> "Pre", required |-> TRUE], [slot |-> "Both", required |-> FALSE],
    [slot |-> "Post", required |-> TRUE]>>
=============================================================================
