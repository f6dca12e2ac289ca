--------------------------- MODULE PlannedExecution ---------------------------
(***************************************************************************)
(* The planner and the executor together (composition/live-runner.ts,      *)
(* runLiveStageGraph; composition/demo.ts and context-supply-chain.ts,     *)
(* which admit declassification too): a request is planned, and the plan,  *)
(* if there is one, is executed on inputs the caller gives.                *)
(* What the planner decided of values before they exist is here held       *)
(* against where they really come from and go to.                          *)
(***************************************************************************)
EXTENDS Planner

CONSTANTS GuardCount, Contents, Approved, Missing

ASSUME ContentsAssumption ==
  GuardCount \in Nat /\ Approved \subseteq Contents /\ Missing \notin Contents

VARIABLES phase, plan, at, target, passed, caller, values, staged, result,
          outputs, verified, source, inspected, sent, emitters

Executor == INSTANCE StageExecutor WITH Plans <- {}

execVars == <<phase, plan, at, target, passed, caller, values, staged, result,
              outputs, verified, source, inspected, sent, emitters>>
vars == <<plannerVars, execVars>>

\* assertExactInputs: the inputs given are those the graph declares.
InitAll ==
  /\ Init
  /\ Executor!Init
  /\ \A i \in Inputs : caller[i] # Missing

\* What the executor reads of a sealed plan.
SealedPlan ==
  [order |-> order,
   reads |-> graph.reads,
   candidates |-> candidates,
   declassified |-> {o \in Outputs : graph.rule[o] # NoClass}]

\* executePreparedLivePlan, on the plan as sealed.
BeginExecution ==
  /\ planning = "planned"
  /\ Executor!Begin(SealedPlan)
  /\ UNCHANGED plannerVars

PlanOn == PlannerNext /\ UNCHANGED execVars
ExecuteOn == Executor!Continue /\ UNCHANGED plannerVars

Next == PlanOn \/ BeginExecution \/ ExecuteOn

SpecAll == InitAll /\ [][Next]_vars

-------------------------------------------------------------------------------

\* Where a value really is when a stage reads it: where the caller keeps it,
\* or on the target that produced it.
Whereabouts(v) ==
  IF v \in Inputs THEN graph.origin[v] ELSE Placed(source[v])

\* Every request that makes a value cross to another target or zone has its
\* egress proof in the plan, for the very placements in use, fallbacks and
\* failed attempts included (docs/delivery-contract.md: "Every cross-target or
\* cross-zone transfer has a reason-coded egress record").  Of an input without
\* an origin nothing can be said.
EveryTransferIsProved ==
  \A q \in sent : \A v \in DOMAIN q.data :
    LET place == Whereabouts(v)
    IN  place.zone # NoZone /\ Crosses(place, q.target)
          => ProofFor(v, place, q.stage, q.target) \in proofs

\* Under a monotone policy, the content of an input never reaches a target
\* its classification forbids, through any chain of stages, unless a verifier
\* approved what was made of it.
RawDataNeverEscapes ==
  Monotone =>
    \A q \in sent : \A v \in DOMAIN q.data :
      /\ \A i \in lineage[v].raw : Admits(graph.class[i], fabric.zone[q.target])
      /\ lineage[v].declassified => q.data[v] \in Approved

\* The planner's order lets the executor find every input it looks up.
NoMissingInput == phase # "missing_input"
===============================================================================
