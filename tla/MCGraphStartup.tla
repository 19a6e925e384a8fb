--------------------------- MODULE MCGraphStartup ---------------------------
(***************************************************************************)
(* Small worlds for GraphStartup.                                          *)
(***************************************************************************)
EXTENDS GraphStartup

\* The plan of a rank with a layered executor, and variations of it.
FullPlan == [requested |-> "full", stream |-> "", streamError |-> FALSE,
             graphError |-> FALSE, signature |-> "s", layers |-> "l"]

EagerPlan == [FullPlan EXCEPT !.requested = "eager", !.graphError = TRUE,
                              !.signature = ""]
TwoStreamPlan == [FullPlan EXCEPT !.requested = "eager", !.stream = "two"]

\* Every way in which the plans of two ranks may disagree or be unusable.
AllPlans ==
  {FullPlan, EagerPlan, TwoStreamPlan,
   [FullPlan EXCEPT !.stream = "two"],
   [FullPlan EXCEPT !.signature = "t"],
   [FullPlan EXCEPT !.layers = "m"],
   [FullPlan EXCEPT !.graphError = TRUE, !.signature = ""],
   [TwoStreamPlan EXCEPT !.streamError = TRUE]}

(* The worlds that start: two FFN ranks with the same plan, or the second one
   with a plan that a single check tells from the full plan of the first; an
   Attention rank with another transport signature where the plans agree. *)
Worlds ==
  LET f == plan[First]
      g == plan[First + 1]
  IN  /\ f = g \/ f = FullPlan
      /\ \A q, r \in FFN : transport[q] = transport[r]
      /\ transport[0] # transport[First] => f = g /\ f = FullPlan /\ transport[0] = "v"

WorldsInit == StartupInit /\ Worlds
WorldsSpec == WorldsInit /\ [][StartupNext]_startupVars /\ StartupFairness
=============================================================================
