------------------------- MODULE MCEvidenceBundle --------------------------
(* Two runs with one destination.                                          *)
EXTENDS EvidenceBundle

Artifact(path, role, size) == [path |-> path, role |-> role, size |-> size]

(* The four artifacts of prepare_bundle without the subject, which has no  *)
(* rule of its own.                                                        *)
MCPrimary == <<Artifact("plan.json", "ExperimentPlan", 1), Artifact("resolved-plan.json", "ResolvedPlan", 1),
               Artifact("environment.json", "EnvironmentFingerprint", 1)>>

(* A trial result and a log that is too long for what is then left.        *)
MCOthers == {Artifact("trial.json", "TrialResult", 2), Artifact("log", "Log", 2)}

MCTrials == {{}, {[id |-> 1, result |-> "trial.json", artifacts |-> {"trial.json", "log"}]},
             {[id |-> 1, result |-> "trial.json", artifacts |-> {"trial.json"}]}}

Limit(count, bytes, total) == [count |-> count, bytes |-> bytes, total |-> total]

MCBounds == {Limit(5, 2, 6), Limit(2, 2, 6), Limit(5, 3, 2)}
MCCaps == Limit(5, 2, 6)
=============================================================================
