---------------------------- MODULE MCK8sEvents ----------------------------
(***************************************************************************)
(* Instances of K8sEvents for TLC: an OOM kill that may recur, a Normal    *)
(* event that is important, and one that is not although its reason is one *)
(* that CollectMetrics counts; a buffer of two that a third one trims.     *)
(***************************************************************************)
EXTENDS K8sEvents, TLC

CONSTANTS oom, started, noise

AllTypes == (oom :> "Warning") @@ (started :> "Normal") @@ (noise :> "Normal")
AllReasons == (oom :> "OOMKilling") @@ (started :> "Started") @@ (noise :> "FailedScheduling")

\* The same for the events of the run.
TypesOfEvents == [e \in Events |-> AllTypes[e]]
ReasonsOfEvents == [e \in Events |-> AllReasons[e]]

=============================================================================
