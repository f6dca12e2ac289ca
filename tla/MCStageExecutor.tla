---------------------------- MODULE MCStageExecutor ----------------------------
(***************************************************************************)
(* Two stages on up to two placements: the second reads the input the      *)
(* first reads and one of the first's two outputs.  One output of each is  *)
(* declassified.  The second plan is out of order.                         *)
(***************************************************************************)
EXTENDS StageExecutor, TLC

CONSTANTS in, o1, p1, o2, s1, s2, clean, raw

MCInputs == {in}
MCOutputs == {o1, p1, o2}
MCStages == {s1, s2}
MCProducer == (o1 :> s1) @@ (p1 :> s1) @@ (o2 :> s2)

InOrder ==
  [order |-> <<s1, s2>>,
   reads |-> (s1 :> {in}) @@ (s2 :> {in, o1}),
   candidates |-> (s1 :> {1, 2}) @@ (s2 :> {1, 2}),
   declassified |-> {o1}]

OutOfOrder == [InOrder EXCEPT !.order = <<s2, s1>>]
AllDeclassified == [InOrder EXCEPT !.declassified = {o1, p1}, !.candidates[s2] = {2}]

MCPlans == {InOrder, OutOfOrder, AllDeclassified}
================================================================================
