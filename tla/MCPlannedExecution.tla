-------------------------- MODULE MCPlannedExecution --------------------------
(* All of the planner's requests are planned; executed are the plans of the  *)
(* few that differ in what happens then.                                     *)
EXTENDS PlannedExecution, MCPlanner

CONSTANTS clean, raw

\* A chain and a join, with and without declassification of stage 1's output,
\* whose input is on target 1.
ExecutedRequests ==
  {[fabric |-> f, snapshot |-> Up,
    graph |-> GraphOf((1 :> {sec}) @@ (2 :> a) @@ (3 :> b), rule, NoClass, eu)] :
     f \in {Nested, Lax}, rule \in {NoClass, public},
     <<a, b>> \in {<<{o1}, {o2, reg}>>, <<{reg}, {o1, o2}>>}}

BeginIfExecuted == request \in ExecutedRequests /\ BeginExecution

MCSpec == InitAll /\ [][PlanOn \/ BeginIfExecuted \/ ExecuteOn]_vars
===============================================================================
