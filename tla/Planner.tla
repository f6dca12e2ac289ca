-------------------------------- MODULE Planner --------------------------------
(***************************************************************************)
(* The planner (application/planner.ts, planStageGraph): one pass over a   *)
(* stage graph in dependency order that gives each stage the ordered list  *)
(* of targets allowed to run it, derives the classification and the        *)
(* residencies of each value, and ends with an egress proof for every      *)
(* transfer the plan may make.  Each turn of its loop is a step here.      *)
(*                                                                         *)
(* A request is a fabric (classifications, zones, targets, the bound on    *)
(* fallbacks), a snapshot read at the evaluation time, and a graph.  It is *)
(* any of Requests: schema parsing and digest checks come before.  Stages  *)
(* are numbered in the order of their identifiers, and targets in the      *)
(* order of comparePlacements, which the stage has no part in.             *)
(***************************************************************************)
EXTENDS Integers, FiniteSets, Sequences

CONSTANTS
  Inputs, Outputs,    \* the values: graph inputs, stage outputs
  Stages, Producer,   \* the stages, and the one each output is of
  Targets, Zones, Classes, Residencies, Capabilities,
  NoClass, NoZone, NoTarget,
  Requests

Values == Inputs \cup Outputs

\* A classification's allowed zones and residencies, and a stage's allowed
\* zones, are empty when they do not restrict.
Fabric ==
  [rank : [Classes -> Nat],
   minTrust : [Classes -> Nat],
   classZones : [Classes -> SUBSET Zones],
   classResidencies : [Classes -> SUBSET Residencies],
   zone : [Targets -> Zones],
   trust : [Zones -> Nat],
   zoneResidencies : [Zones -> SUBSET Residencies],
   configured : [Targets -> SUBSET Capabilities],
   maxFallbacks : Nat]

\* live: the targets reported, healthy, already observed and not expired.
Snapshot ==
  [live : SUBSET Targets,
   observed : [Targets -> SUBSET Capabilities]]

\* operation: the evidence of its operation that a stage needs when the
\* snapshot is bound to live bindings, or none.
Graph ==
  [class : [Inputs -> Classes],
   residencies : [Inputs -> SUBSET Residencies],
   origin : [Inputs -> [zone : Zones \cup {NoZone}, target : Targets \cup {NoTarget}]],
   reads : [Stages -> SUBSET Values],
   allowedZones : [Stages -> SUBSET Zones],
   requiredResidencies : [Stages -> SUBSET Residencies],
   requiredCapabilities : [Stages -> SUBSET Capabilities],
   operation : [Stages -> SUBSET Capabilities],
   declared : [Outputs -> Classes \cup {NoClass}],
   rule : [Outputs -> Classes \cup {NoClass}],
   authority : [Outputs -> Capabilities]]

ASSUME PlannerAssumption ==
  /\ Inputs \cap Outputs = {}
  /\ Stages \subseteq Nat /\ IsFiniteSet(Stages) /\ Stages # {}
  /\ Targets \subseteq Nat /\ IsFiniteSet(Targets)
  /\ Producer \in [Outputs -> Stages]
  /\ IsFiniteSet(Classes)
  /\ NoClass \notin Classes /\ NoZone \notin Zones /\ NoTarget \notin Targets
  /\ \A q \in Requests :
       /\ q.fabric \in Fabric /\ q.snapshot \in Snapshot /\ q.graph \in Graph
       /\ \A c, d \in Classes : q.fabric.rank[c] = q.fabric.rank[d] => c = d

VARIABLES
  request,    \* what is being planned
  planning,   \* "ordering", "planning", "planned", or the error it ended with
  order,      \* the stages in the order found so far
  turn,       \* how many of them are planned
  lineage,    \* what is known of each value
  candidates, \* each planned stage's primary and fallbacks
  proofs      \* the egress proofs of the finished plan

plannerVars == <<request, planning, order, turn, lineage, candidates, proofs>>

fabric == request.fabric
snapshot == request.snapshot
graph == request.graph

Ordered == {order[k] : k \in 1..Len(order)}
Planned == {order[k] : k \in 1..turn}

OutputsOf(s) == {o \in Outputs : Producer[o] = s}

Errors == {"cycle_detected", "classification_required",
           "declassification_required", "invalid_declassification",
           "no_eligible_target"}

\* raw and inherits are history: the inputs that reach the value with no
\* declassification on the way, and those that reach it at all.
Lineage ==
  [class : Classes \cup {NoClass},
   residencies : SUBSET Residencies,
   declassified : BOOLEAN,
   raw : SUBSET Inputs,
   inherits : SUBSET Inputs]

Proof ==
  [value : Values, fromZone : Zones, from : Targets \cup {NoTarget},
   stage : Stages, to : Targets, class : Classes]

TypeOK ==
  /\ request \in Requests
  /\ planning \in {"ordering", "planning", "planned"} \cup Errors
  /\ order \in Seq(Stages)
  /\ turn \in 0..Len(order)
  /\ lineage \in [Values -> Lineage]
  /\ candidates \in [Stages -> SUBSET Targets]
  /\ proofs \subseteq Proof

-------------------------------------------------------------------------------
(* Which stage is next.                                                      *)

Sources(s) == {Producer[o] : o \in graph.reads[s] \cap Outputs}

\* Faulty: a stage that reads its own output does not wait for it.
ReadyDespiteItself == {s \in Stages \ Ordered : Sources(s) \ {s} \subseteq Ordered}

\* stageOrder: a stage is ready when all it reads from is ordered before it.
ReadyStages == {s \in Stages \ Ordered : Sources(s) \subseteq Ordered}

-------------------------------------------------------------------------------
(* What a stage's turn derives.                                              *)

InputClasses(s) == {lineage[v].class : v \in graph.reads[s]}

\* A declassification rule, else the declared classification.
Wanted(o) == IF graph.rule[o] # NoClass THEN graph.rule[o] ELSE graph.declared[o]

OutputClasses(s) == {Wanted(o) : o \in OutputsOf(s)} \ {NoClass}

\* highestClassification: ranks are unique in a fabric.
Highest(classes) ==
  CHOOSE c \in classes : \A d \in classes : fabric.rank[d] <= fabric.rank[c]

Processing(s) ==
  Highest(IF graph.reads[s] # {} THEN InputClasses(s) ELSE OutputClasses(s))

Desired(s, o) == IF Wanted(o) = NoClass THEN Processing(s) ELSE Wanted(o)

Downgraded(s, o) == fabric.rank[Desired(s, o)] < fabric.rank[Processing(s)]

\* Faulty: the residencies of graph inputs bind only the stages that read them.
RequiredResidenciesOfInputs(s) ==
  graph.requiredResidencies[s]
    \cup UNION {lineage[v].residencies : v \in graph.reads[s] \cap Inputs}

RequiredResidencies(s) ==
  graph.requiredResidencies[s]
    \cup UNION {lineage[v].residencies : v \in graph.reads[s]}

RequiredCapabilities(s) ==
  graph.requiredCapabilities[s]
    \cup {graph.authority[o] : o \in {p \in OutputsOf(s) : graph.rule[p] # NoClass}}

OutputLineage(s, o) ==
  [class |-> Desired(s, o),
   residencies |-> RequiredResidencies(s),
   declassified |-> graph.rule[o] # NoClass,
   raw |-> IF graph.rule[o] # NoClass
             THEN {} ELSE UNION {lineage[v].raw : v \in graph.reads[s]},
   inherits |-> UNION {lineage[v].inherits : v \in graph.reads[s]}]

ClassificationMissing(s) ==
  graph.reads[s] = {} /\ \E o \in OutputsOf(s) : Wanted(o) = NoClass

\* Faulty: only the rules are looked at, a lower declaration passes.
OutputErrorsOfRules(s, o) ==
  {e \in {"invalid_declassification"} :
     /\ graph.rule[o] # NoClass
     /\ graph.declared[o] \notin {NoClass, graph.rule[o]} \/ ~Downgraded(s, o)}

\* What may be wrong with an output.  (The code reports the first it meets.)
OutputErrors(s, o) ==
  {e \in {"declassification_required", "invalid_declassification"} :
     IF graph.rule[o] = NoClass
       THEN e = "declassification_required" /\ Downgraded(s, o)
       ELSE /\ e = "invalid_declassification"
            /\ \/ graph.declared[o] \notin {NoClass, graph.rule[o]}
               \/ ~Downgraded(s, o)}

StageErrors(s) ==
  IF ClassificationMissing(s)
    THEN {"classification_required"}
    ELSE UNION {OutputErrors(s, o) : o \in OutputsOf(s)}

-------------------------------------------------------------------------------
(* Which targets may run it.                                                 *)

\* What a classification asks of a zone.
Admits(c, z) ==
  /\ fabric.classZones[c] # {} => z \in fabric.classZones[c]
  /\ fabric.classResidencies[c] # {} =>
       fabric.classResidencies[c] \cap fabric.zoneResidencies[z] # {}
  /\ fabric.trust[z] >= fabric.minTrust[c]

\* evaluateTarget, with no reason to reject.
Suits(s, t) ==
  LET z == fabric.zone[t]
  IN  /\ t \in snapshot.live
      /\ graph.allowedZones[s] # {} => z \in graph.allowedZones[s]
      /\ Admits(Processing(s), z)
      /\ RequiredResidencies(s) \subseteq fabric.zoneResidencies[z]
      /\ RequiredCapabilities(s)
           \subseteq fabric.configured[t] \cap snapshot.observed[t]
      /\ graph.operation[s] \subseteq snapshot.observed[t]

Eligible(s) == {t \in Targets : Suits(s, t)}

\* Faulty: only the primary is held to the policy.
ChosenWithAnyFallback(s) ==
  {t \in Eligible(s) : \A u \in Eligible(s) : t <= u}
    \cup {t \in snapshot.live : Cardinality({u \in snapshot.live : u < t}) <= fabric.maxFallbacks}

\* The preferred eligible target and as many fallbacks as the policy allows.
Chosen(s) ==
  {t \in Eligible(s) :
     Cardinality({u \in Eligible(s) : u < t}) <= fabric.maxFallbacks}

-------------------------------------------------------------------------------
(* buildEgressProofs: where a value may come from, where it may go.          *)

Placed(t) == [zone |-> fabric.zone[t], target |-> t]

\* Faulty: a stage is taken to run on its primary.
PlacesOfPrimary(v) ==
  IF v \in Inputs
    THEN {p \in {graph.origin[v]} : p.zone # NoZone}
    ELSE {Placed(t) : t \in {u \in candidates[Producer[v]] :
                               \A w \in candidates[Producer[v]] : u <= w}}

\* An input without an origin has no known place, and no proof.
Places(v) ==
  IF v \in Inputs
    THEN {p \in {graph.origin[v]} : p.zone # NoZone}
    ELSE {Placed(t) : t \in candidates[Producer[v]]}

Crosses(place, t) == place.zone # fabric.zone[t] \/ place.target # t

ProofFor(v, place, s, t) ==
  [value |-> v, fromZone |-> place.zone, from |-> place.target,
   stage |-> s, to |-> t, class |-> lineage[v].class]

ProofsInto(s, t, v) ==
  {ProofFor(v, place, s, t) : place \in {p \in Places(v) : Crosses(p, t)}}

EgressProofs ==
  UNION {UNION {ProofsInto(s, t, v) : v \in graph.reads[s], t \in candidates[s]}
           : s \in Stages}

-------------------------------------------------------------------------------

NoLineage ==
  [class |-> NoClass, residencies |-> {}, declassified |-> FALSE,
   raw |-> {}, inherits |-> {}]

InputLineage(i) ==
  [class |-> graph.class[i], residencies |-> graph.residencies[i],
   declassified |-> FALSE, raw |-> {i}, inherits |-> {i}]

Init ==
  /\ request \in Requests
  /\ planning = "ordering"
  /\ order = <<>>
  /\ turn = 0
  /\ lineage = [v \in Values |-> IF v \in Inputs THEN InputLineage(v) ELSE NoLineage]
  /\ candidates = [s \in Stages |-> {}]
  /\ proofs = {}

\* stageOrder: the ready stage of the least identifier comes next.
OrderStage(s) ==
  /\ planning = "ordering"
  /\ s \in ReadyStages /\ \A u \in ReadyStages : s <= u
  /\ order' = Append(order, s)
  /\ planning' = IF Ordered \cup {s} = Stages THEN "planning" ELSE "ordering"
  /\ UNCHANGED <<request, turn, lineage, candidates, proofs>>

\* Some stages are left and none is ready.
DetectCycle ==
  /\ planning = "ordering"
  /\ ReadyStages = {}
  /\ planning' = "cycle_detected"
  /\ UNCHANGED <<request, order, turn, lineage, candidates, proofs>>

PlanStage(s) ==
  /\ planning = "planning"
  /\ turn < Len(order) /\ s = order[turn + 1]
  /\ StageErrors(s) = {}
  /\ Eligible(s) # {}
  /\ turn' = turn + 1
  /\ candidates' = [candidates EXCEPT ![s] = Chosen(s)]
  /\ lineage' = [v \in Values |->
                   IF v \in OutputsOf(s) THEN OutputLineage(s, v) ELSE lineage[v]]
  /\ UNCHANGED <<request, planning, order, proofs>>

RejectStage(s) ==
  /\ planning = "planning"
  /\ turn < Len(order) /\ s = order[turn + 1]
  /\ \/ planning' \in StageErrors(s)
     \/ /\ StageErrors(s) = {}
        /\ Eligible(s) = {}
        /\ planning' = "no_eligible_target"
  /\ UNCHANGED <<request, order, turn, lineage, candidates, proofs>>

\* Every stage has its targets: the plan is sealed with its egress proofs.
SealPlan ==
  /\ planning = "planning"
  /\ turn = Len(order)
  /\ planning' = "planned"
  /\ proofs' = EgressProofs
  /\ UNCHANGED <<request, order, turn, lineage, candidates>>

PlannerNext ==
  \/ \E s \in Stages : OrderStage(s) \/ PlanStage(s) \/ RejectStage(s)
  \/ DetectCycle
  \/ SealPlan

Spec == Init /\ [][PlannerNext]_plannerVars

-------------------------------------------------------------------------------

\* The stages come in an order in which each follows all it reads from, each
\* once (stageOrder).
OrderIsTopological ==
  /\ \A j, k \in 1..Len(order) : order[j] = order[k] => j = k
  /\ \A k \in 1..Len(order) : Sources(order[k]) \subseteq {order[j] : j \in 1..(k - 1)}

\* Every stage of some set reads from a stage of that set.
Cyclic ==
  \E S \in (SUBSET Stages) \ {{}} : \A s \in S : Sources(s) \cap S # {}

\* A graph is called cyclic exactly when it is (stageOrder's count of what
\* Kahn's algorithm has left).
CyclesAreFound ==
  planning # "ordering" => (planning = "cycle_detected" <=> Cyclic)

\* However long the chain of stages, a value ranks no lower than any input that
\* reaches it without a declassification rule (docs/architecture.md, "Data
\* lineage and egress").
NoSilentDowngrade ==
  \A v \in Values : \A i \in lineage[v].raw :
    fabric.rank[graph.class[i]] <= fabric.rank[lineage[v].class]

\* A residency demanded of an input binds every stage it ever reaches: all
\* targets of the stage, fallbacks too, have it, declassified or not.
ResidencySticks ==
  \A s \in Planned : \A t \in candidates[s], v \in graph.reads[s] :
    \A i \in lineage[v].inherits :
      graph.residencies[i] \subseteq fabric.zoneResidencies[fabric.zone[t]]

\* The policy asks at least as much of a zone for a higher classification as
\* for a lower one.  (Nothing in the schema says so.)
Monotone ==
  \A c, d \in Classes : fabric.rank[c] <= fabric.rank[d] =>
    \A z \in Zones : Admits(d, z) => Admits(c, z)

\* Under a monotone policy, raw data is placed only where its own
\* classification allows, whatever it is mixed with on the way: selecting
\* targets by the highest classification read is enough (evaluateTarget).
RawDataStaysAllowed ==
  Monotone =>
    \A s \in Planned : \A t \in candidates[s], v \in graph.reads[s] :
      \A i \in lineage[v].raw : Admits(graph.class[i], fabric.zone[t])

\* What an egress proof says: classification_zone_allowed,
\* classification_trust_satisfied and residency_satisfied hold of the
\* classification and the zone it names (buildEgressProofs).
EgressProofsAreTrue ==
  \A p \in proofs :
    /\ Admits(p.class, fabric.zone[p.to])
    /\ lineage[p.value].residencies \subseteq fabric.zoneResidencies[fabric.zone[p.to]]

\* Under a monotone policy every egress proof is true.
EgressProofsHold == Monotone => EgressProofsAreTrue
================================================================================
