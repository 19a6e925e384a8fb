-------------------------- MODULE DaemonLifecycle --------------------------
(***************************************************************************)
(* What an FFN worker promises about its background loop, whatever the     *)
(* platform: resources the loop uses are released only once it has ended,  *)
(* a shutdown that hides a failure of the loop, or that leaves something   *)
(* unreleased, does not end clean, and a loop that does not end is         *)
(* reported as stuck with its resources kept.                              *)
(***************************************************************************)

VARIABLES
  life,       \* the background loop
  resources,  \* what the loop computes and communicates with
  report      \* what the owner's shutdown told it

lifecycleVars == <<life, resources, report>>

Ended == {"absent", "returned", "failed"}

LifecycleInit ==
  /\ life = "absent" /\ resources = "held" /\ report = "none"

Start ==
  /\ life = "absent" /\ resources = "held"
  /\ life' = "running" /\ UNCHANGED <<resources, report>>

End ==
  /\ life = "running"
  /\ life' \in {"returned", "failed"} /\ UNCHANGED <<resources, report>>

\* The owner's shutdown, in one step or several: it may release once the loop
\* has ended, and calls itself clean only if the loop had not failed and
\* everything is released.
Close ==
  /\ life \in Ended /\ report = "none"
  /\ resources' \in {resources, "released"}
  /\ report' \in {"none", "clean", "failed"}
  /\ report' = "clean" => life # "failed" /\ resources' = "released"
  /\ UNCHANGED life

Abandon ==
  /\ life = "running" /\ report = "none"
  /\ report' = "stuck" /\ UNCHANGED <<life, resources>>

LifecycleNext == Start \/ End \/ Close \/ Abandon

LifecycleSpec == LifecycleInit /\ [][LifecycleNext]_lifecycleVars
=============================================================================
