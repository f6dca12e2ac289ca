------------------------- MODULE PlannedExecutionProofs -------------------------
(***************************************************************************)
(* Proofs about the planner, for any fabric, snapshot and graph, and about *)
(* the planner and the executor together, for any request, guards,         *)
(* adapters and verifiers. First the planner alone: the order it finds,    *)
(* the cycles it reports, and what it derives of each value, by an         *)
(* invariant that says of every planned stage that what it reads is        *)
(* settled and was taken into account. Then both: what the planner decided *)
(* of values before they existed is true of where they go.                 *)
(***************************************************************************)
EXTENDS PlannedExecution, FiniteSetTheorems, TLAPS

\* The order so far is a sound one, and is complete when planning begins.
OrderInv ==
  /\ OrderIsTopological
  /\ planning = "ordering" => turn = 0 /\ Ordered # Stages
  /\ planning = "cycle_detected" => Ordered # Stages /\ ReadyStages = {}
  /\ planning \notin {"ordering", "cycle_detected"} => Ordered = Stages

Settled(v) == v \in Inputs \/ Producer[v] \in Planned

\* What is known of a value accounts for every input it comes from.
LineageInv ==
  \A v \in Values :
    /\ Settled(v) => lineage[v].class \in Classes
    /\ \A i \in lineage[v].raw :
         fabric.rank[graph.class[i]] <= fabric.rank[lineage[v].class]
    /\ \A i \in lineage[v].inherits : graph.residencies[i] \subseteq lineage[v].residencies

\* A stage's targets suit a classification no lower than any it reads, and all
\* residencies of what it reads.
PlacementInv ==
  \A s \in Stages : \A t \in candidates[s] :
    /\ s \in Planned
    /\ \A v \in graph.reads[s] :
         lineage[v].residencies \subseteq fabric.zoneResidencies[fabric.zone[t]]
    /\ graph.reads[s] # {} => \E c \in Classes :
         /\ Admits(c, fabric.zone[t])
         /\ \A v \in graph.reads[s] : fabric.rank[lineage[v].class] <= fabric.rank[c]

\* Egress proofs are of transfers that a planned stage may make.
ProofInv ==
  \A p \in proofs :
    /\ p.stage \in Stages
    /\ p.value \in graph.reads[p.stage]
    /\ p.to \in candidates[p.stage]
    /\ p.class = lineage[p.value].class

IInv ==
  TypeOK /\ OrderInv /\ LineageInv /\ PlacementInv /\ (planning # "planned" => proofs = {}) /\ ProofInv

-------------------------------------------------------------------------------
(* Sets.                                                                     *)

\* A nonempty set of numbers has a least one.
LEMMA LeastElement ==
  ASSUME NEW S, S \subseteq Nat, S # {}
  PROVE  \E x \in S : \A y \in S : x <= y
<1> DEFINE Less == OpToRel(<, Nat)
<1>1. \E x \in S : \A y \in S : <<y, x>> \notin Less
  <2> HIDE DEF Less
  <2>1. IsWellFoundedOn(Less, Nat)
    BY NatLessThanWellFounded DEF Less
  <2>2. QED
    BY <2>1, WFMin
<1>2. \A x, y \in Nat : <<y, x>> \notin Less => x <= y
  BY DEF OpToRel
<1>3. QED
  BY <1>1, <1>2

\* A nonempty finite set has an element of the highest rank.
LEMMA HighestExists ==
  ASSUME NEW S, NEW rank \in [S -> Nat], NEW T \in SUBSET S, IsFiniteSet(S), T # {}
  PROVE  \E c \in T : \A d \in T : rank[d] <= rank[c]
<1> DEFINE Less == StrictSubsetOrdering(S)
           Bad == {U \in SUBSET S : U # {} /\ ~ \E c \in U : \A d \in U : rank[d] <= rank[c]}
<1>1. SUFFICES Bad = {}
  BY <1>1
<1>2. SUFFICES ASSUME Bad # {} PROVE FALSE
  OBVIOUS
<1>3. IsWellFoundedOn(Less, SUBSET S)
  BY FS_StrictSubsetOrderingWellFounded, FS_FiniteSubsetsOfFinite
<1>4. PICK U \in Bad : \A V \in Bad : <<V, U>> \notin Less
  <2>1. Bad \subseteq SUBSET S
    OBVIOUS
  <2> HIDE DEF Less, Bad
  <2>2. QED
    BY <1>2, <1>3, <2>1, WFMin
<1>5. PICK x \in U : TRUE
  OBVIOUS
<1>6. U \ {x} \notin Bad
  <2>1. <<U \ {x}, U>> \in Less
    BY <1>4, <1>5 DEF StrictSubsetOrdering
  <2>2. QED
    BY <1>4, <2>1
<1>7. CASE U \ {x} = {}
  <2>1. \A d \in U : rank[d] <= rank[x]
    BY <1>4, <1>5, <1>7
  <2>2. QED
    BY <1>4, <1>5, <2>1
<1>8. CASE U \ {x} # {}
  <2>1. PICK y \in U \ {x} : \A d \in U \ {x} : rank[d] <= rank[y]
    BY <1>4, <1>6, <1>8
  <2>2. rank[x] \in Nat /\ rank[y] \in Nat /\ \A d \in U : rank[d] \in Nat
    BY <1>4, <1>5, <2>1
  <2>3. CASE rank[x] <= rank[y]
    BY <1>4, <2>1, <2>2, <2>3
  <2>4. CASE rank[y] <= rank[x]
    BY <1>4, <1>5, <2>1, <2>2, <2>4
  <2>5. QED
    BY <2>2, <2>3, <2>4
<1>9. QED
  BY <1>7, <1>8

-------------------------------------------------------------------------------
(* What a request holds, and what a stage's turn derives from it.            *)

\* What a request holds.
LEMMA RequestTypes ==
  ASSUME TypeOK
  PROVE  /\ fabric.rank \in [Classes -> Nat]
         /\ fabric.zone \in [Targets -> Zones]
         /\ graph.class \in [Inputs -> Classes]
         /\ graph.residencies \in [Inputs -> SUBSET Residencies]
         /\ graph.origin \in [Inputs -> [zone : Zones \cup {NoZone}, target : Targets \cup {NoTarget}]]
         /\ graph.reads \in [Stages -> SUBSET Values]
         /\ graph.requiredResidencies \in [Stages -> SUBSET Residencies]
         /\ graph.declared \in [Outputs -> Classes \cup {NoClass}]
         /\ graph.rule \in [Outputs -> Classes \cup {NoClass}]
<1>1. fabric \in Fabric /\ graph \in Graph
  BY PlannerAssumption DEF TypeOK, fabric, graph
<1>2. QED
  BY <1>1 DEF Fabric, Graph

\* Of a nonempty set of classes the highest is one, and no class ranks above it.
LEMMA HighestIsHighest ==
  ASSUME TypeOK, NEW T \in SUBSET Classes, T # {}
  PROVE  /\ Highest(T) \in T
         /\ \A d \in T : fabric.rank[d] <= fabric.rank[Highest(T)]
<1>1. \E c \in T : \A d \in T : fabric.rank[d] <= fabric.rank[c]
  BY RequestTypes, HighestExists, PlannerAssumption
<1>2. QED
  BY <1>1 DEF Highest

\* What a stage's turn derives from it.
LEMMA WantedTypes ==
  ASSUME TypeOK, NEW o \in Outputs
  PROVE  Wanted(o) \in Classes \cup {NoClass}
  BY RequestTypes DEF Wanted

\* A stage without errors, whose inputs are settled, has a classification it
\* processes, no lower than any it reads.
LEMMA ProcessingTypes ==
  ASSUME TypeOK, NEW s \in Stages, StageErrors(s) = {}, OutputsOf(s) # {} \/ graph.reads[s] # {},
         \A v \in graph.reads[s] : lineage[v].class \in Classes
  PROVE  /\ Processing(s) \in Classes
         /\ \A v \in graph.reads[s] : fabric.rank[lineage[v].class] <= fabric.rank[Processing(s)]
<1>1. CASE graph.reads[s] # {}
  <2>1. InputClasses(s) \in SUBSET Classes /\ InputClasses(s) # {}
    BY <1>1 DEF InputClasses
  <2>2. Processing(s) = Highest(InputClasses(s))
    BY <1>1 DEF Processing
  <2>3. QED
    BY <2>1, <2>2, HighestIsHighest DEF InputClasses
<1>2. CASE graph.reads[s] = {}
  <2>1. ~ClassificationMissing(s)
    BY DEF StageErrors
  <2>2. \A o \in OutputsOf(s) : Wanted(o) \in Classes
    BY <1>2, <2>1, WantedTypes DEF ClassificationMissing, OutputsOf
  <2>3. OutputClasses(s) \in SUBSET Classes /\ OutputClasses(s) # {}
    BY <1>2, <2>2, PlannerAssumption DEF OutputClasses
  <2>4. QED
    BY <1>2, <2>3, HighestIsHighest DEF Processing
<1>3. QED
  BY <1>1, <1>2

\* The lineage of an output is well typed, and takes up that of what the stage
\* reads.
LEMMA OutputLineageTypes ==
  ASSUME TypeOK, NEW s \in Stages, NEW o \in OutputsOf(s), StageErrors(s) = {},
         \A v \in graph.reads[s] : lineage[v].class \in Classes
  PROVE  /\ OutputLineage(s, o) \in Lineage
         /\ OutputLineage(s, o).class \in Classes
         /\ graph.rule[o] = NoClass =>
              fabric.rank[Processing(s)] <= fabric.rank[OutputLineage(s, o).class]
<1>1. o \in Outputs /\ graph.reads[s] \subseteq Values
  BY RequestTypes DEF OutputsOf
<1>2. Processing(s) \in Classes
  BY ProcessingTypes
<1>3. Desired(s, o) \in Classes
  BY <1>1, <1>2, WantedTypes DEF Desired
<1>4. \A v \in graph.reads[s] : lineage[v] \in Lineage
  BY <1>1 DEF TypeOK
<1>5. RequiredResidencies(s) \subseteq Residencies
  BY <1>4, RequestTypes DEF RequiredResidencies, Lineage
<1>6. UNION {lineage[v].raw : v \in graph.reads[s]} \subseteq Inputs
  BY <1>4 DEF Lineage
<1>7. UNION {lineage[v].inherits : v \in graph.reads[s]} \subseteq Inputs
  BY <1>4 DEF Lineage
<1>8. OutputLineage(s, o) \in Lineage
  BY <1>3, <1>5, <1>6, <1>7 DEF OutputLineage, Lineage
<1>9. ASSUME graph.rule[o] = NoClass
      PROVE  fabric.rank[Processing(s)] <= fabric.rank[Desired(s, o)]
  <2>1. ~Downgraded(s, o)
    <3>1. OutputErrors(s, o) = {}
      BY DEF StageErrors
    <3>2. QED
      BY <1>9, <3>1 DEF OutputErrors
  <2>2. fabric.rank[Processing(s)] \in Nat /\ fabric.rank[Desired(s, o)] \in Nat
    BY <1>2, <1>3, RequestTypes
  <2>3. QED
    BY <2>1, <2>2 DEF Downgraded
<1>10. QED
  BY <1>3, <1>8, <1>9 DEF OutputLineage

-------------------------------------------------------------------------------
(* The order.                                                                *)

\* What planned stages read is settled, and so is what the next one reads,
\* which is not planned yet.
LEMMA OrderFacts ==
  ASSUME TypeOK, OrderIsTopological
  PROVE  /\ Planned \subseteq Stages
         /\ \A u \in Planned : Sources(u) \subseteq Planned
         /\ turn < Len(order) =>
              /\ order[turn + 1] \in Stages \ Planned
              /\ Sources(order[turn + 1]) \subseteq Planned
<1>1. order \in Seq(Stages) /\ turn \in Nat /\ turn <= Len(order) /\ Len(order) \in Nat
  BY DEF TypeOK
<1>2. \A k \in 1..Len(order) : order[k] \in Stages
  BY <1>1
<1>3. ASSUME NEW u \in Planned
      PROVE  Sources(u) \subseteq Planned
  <2>1. PICK k \in 1..turn : u = order[k]
    BY DEF Planned
  <2>2. k \in 1..Len(order) /\ 1..(k - 1) \subseteq 1..turn
    BY <1>1
  <2>3. Sources(u) \subseteq {order[j] : j \in 1..(k - 1)}
    BY <2>1, <2>2 DEF OrderIsTopological
  <2>4. QED
    BY <2>2, <2>3 DEF Planned
<1>4. ASSUME turn < Len(order)
      PROVE  /\ order[turn + 1] \in Stages \ Planned
             /\ Sources(order[turn + 1]) \subseteq Planned
  <2>1. turn + 1 \in 1..Len(order) /\ (turn + 1) - 1 = turn
    BY <1>1, <1>4
  <2>2. order[turn + 1] \notin Planned
    <3>1. SUFFICES ASSUME NEW k \in 1..turn, order[k] = order[turn + 1] PROVE FALSE
      BY DEF Planned
    <3>2. k \in 1..Len(order) /\ k # turn + 1
      BY <1>1
    <3>3. QED
      BY <2>1, <3>1, <3>2 DEF OrderIsTopological
  <2>3. Sources(order[turn + 1]) \subseteq {order[j] : j \in 1..turn}
    BY <2>1 DEF OrderIsTopological
  <2>4. QED
    BY <1>2, <2>1, <2>2, <2>3 DEF Planned
<1>5. QED
  BY <1>1, <1>2, <1>3, <1>4 DEF Planned

\* What a stage reads of stages that are planned is settled.
LEMMA ReadsSettled ==
  ASSUME TypeOK, NEW u \in Stages, Sources(u) \subseteq Planned, NEW v \in graph.reads[u]
  PROVE  v \in Values /\ Settled(v)
<1>1. v \in Values
  BY RequestTypes
<1>2. CASE v \in Outputs
  <2>1. Producer[v] \in Sources(u)
    BY <1>2 DEF Sources
  <2>2. QED
    BY <1>1, <2>1 DEF Settled
<1>3. QED
  BY <1>1, <1>2 DEF Values, Settled

\* The order stays a sound one as long as it stays.
LEMMA OrderKept ==
  ASSUME UNCHANGED <<request, order>>
  PROVE  /\ OrderIsTopological => OrderIsTopological'
         /\ Ordered' = Ordered
         /\ ReadyStages' = ReadyStages
<1>1. graph' = graph /\ order' = order
  BY DEF graph
<1>2. Ordered' = Ordered
  BY <1>1 DEF Ordered
<1>3. ReadyStages' = ReadyStages
  BY <1>1, <1>2 DEF ReadyStages, Sources
<1>4. ASSUME OrderIsTopological
      PROVE  OrderIsTopological'
  <2>2. \A k \in 1..Len(order) :
          Sources(order[k]) \subseteq {order[j] : j \in 1..(k - 1)}
    BY <1>4 DEF OrderIsTopological
  <2>3. ASSUME NEW k \in 1..Len(order')
        PROVE  Sources(order[k])' \subseteq {order'[j] : j \in 1..(k - 1)}
    <3>1. k \in 1..Len(order)
      BY <1>1
    <3>2. Sources(order[k])' = Sources(order[k])
      BY <1>1 DEF Sources
    <3>3. {order'[j] : j \in 1..(k - 1)} = {order[j] : j \in 1..(k - 1)}
      BY <1>1
    <3>4. QED
      BY <2>2, <3>1, <3>2, <3>3
  <2>4. \A j, k \in 1..Len(order') : order'[j] = order'[k] => j = k
    BY <1>1, <1>4 DEF OrderIsTopological
  <2>5. QED
    BY <2>3, <2>4 DEF OrderIsTopological
<1>5. QED
  BY <1>2, <1>3, <1>4

LEMMA OrderStep ==
  ASSUME IInv, NEW s \in Stages, OrderStage(s)
  PROVE  IInv'
<1> USE DEF OrderStage
<1>1. order \in Seq(Stages) /\ order' \in Seq(Stages) /\ Len(order) \in Nat
      /\ Len(order') = Len(order) + 1 /\ order'[Len(order) + 1] = s
      /\ \A k \in 1..Len(order) : order'[k] = order[k]
  BY DEF IInv, TypeOK
<1>2. turn = 0 /\ turn' = 0
  BY DEF IInv, OrderInv
<1>3. TypeOK'
  <2>1. turn' \in 0..Len(order')
    BY <1>1, <1>2
  <2>2. planning' \in {"ordering", "planning", "planned"} \cup Errors
    OBVIOUS
  <2>3. QED
    BY <1>1, <2>1, <2>2 DEF IInv, TypeOK
<1>4. Ordered' = Ordered \cup {s}
  BY <1>1 DEF Ordered
<1>5. s \notin Ordered /\ Sources(s) \subseteq Ordered /\ \A u \in Stages : Sources(u)' = Sources(u)
  BY DEF ReadyStages, Sources, graph
<1>6. OrderIsTopological'
  <2>1. ASSUME NEW j \in 1..Len(order'), NEW k \in 1..Len(order'), order'[j] = order'[k]
        PROVE  j = k
    <3>1. \A i \in 1..Len(order) : order'[i] # s
      BY <1>1, <1>5 DEF Ordered
    <3>2. (j \in 1..Len(order) \/ j = Len(order) + 1) /\ (k \in 1..Len(order) \/ k = Len(order) + 1)
      BY <1>1
    <3>3. QED
      BY <1>1, <2>1, <3>1, <3>2 DEF IInv, OrderInv, OrderIsTopological
  <2>2. ASSUME NEW k \in 1..Len(order')
        PROVE  Sources(order[k])' \subseteq {order'[j] : j \in 1..(k - 1)}
    <3>1. CASE k = Len(order) + 1
      <4>1. 1..(k - 1) = 1..Len(order)
        BY <1>1, <3>1
      <4>2. {order'[j] : j \in 1..Len(order)} = Ordered
        BY <1>1 DEF Ordered
      <4>3. Sources(order[k])' = Sources(s)
        BY <1>1, <3>1 DEF Sources, graph
      <4>4. QED
        BY <1>5, <4>1, <4>2, <4>3
    <3>2. CASE k \in 1..Len(order)
      <4>1. 1..(k - 1) \subseteq 1..Len(order)
        BY <1>1, <3>2
      <4>2. Sources(order[k]) \subseteq {order[j] : j \in 1..(k - 1)}
        BY <3>2 DEF IInv, OrderInv, OrderIsTopological
      <4>3. Sources(order[k])' = Sources(order[k])
        BY <1>1, <3>2 DEF Sources, graph
      <4>4. \A j \in 1..(k - 1) : order'[j] = order[j]
        BY <1>1, <4>1
      <4>5. QED
        BY <4>2, <4>3, <4>4
    <3>3. QED
      BY SMTT(30), <1>1, <3>1, <3>2
  <2>3. QED
    BY <2>1, <2>2 DEF OrderIsTopological
<1>7. OrderInv'
  <2>1. planning' = IF Ordered' = Stages THEN "planning" ELSE "ordering"
    BY <1>4
  <2>2. QED
    BY <1>2, <1>6, <2>1 DEF OrderInv
<1>8. Planned = {} /\ Planned' = {}
  BY <1>2 DEF Planned
<1>9. LineageInv'
  <2>1. \A v \in Values : Settled(v)' <=> Settled(v)
    BY <1>8 DEF Settled
  <2>2. QED
    BY <2>1 DEF IInv, LineageInv, fabric, graph
<1>10. PlacementInv' /\ ProofInv'
  <2>1. proofs = {} /\ \A u \in Stages : candidates[u] = {}
    BY <1>8 DEF IInv, PlacementInv
  <2>2. QED
    BY <2>1 DEF PlacementInv, ProofInv
<1>11. QED
  BY <1>3, <1>7, <1>9, <1>10 DEF IInv

-------------------------------------------------------------------------------
(* A turn of the planner.                                                    *)

LEMMA PlanStep ==
  ASSUME IInv, NEW s \in Stages, PlanStage(s)
  PROVE  IInv'
<1> USE DEF PlanStage
<1>1. /\ TypeOK /\ OrderIsTopological /\ Planned \subseteq Stages
      /\ \A u \in Planned : Sources(u) \subseteq Planned
      /\ s \notin Planned /\ Sources(s) \subseteq Planned
  BY OrderFacts DEF IInv, OrderInv
<1>2. turn' = turn + 1 /\ turn' \in 0..Len(order) /\ Planned' = Planned \cup {s}
  <2>1. turn \in Nat /\ Len(order) \in Nat /\ turn < Len(order) /\ s = order[turn + 1]
    BY <1>1 DEF TypeOK
  <2>2. 1..(turn + 1) = (1..turn) \cup {turn + 1}
    BY <2>1
  <2>3. QED
    BY <2>1, <2>2 DEF Planned
<1>3. ASSUME NEW u \in Planned \cup {s}, NEW v \in graph.reads[u]
      PROVE  /\ v \in Values
             /\ lineage'[v] = lineage[v]
             /\ lineage[v].class \in Classes
  <2>1. u \in Stages /\ Sources(u) \subseteq Planned
    BY <1>1
  <2>2. v \in Values /\ Settled(v)
    BY <1>1, <2>1, ReadsSettled
  <2>3. v \notin OutputsOf(s)
    BY <1>1, <2>2, PlannerAssumption DEF Settled, OutputsOf
  <2>4. QED
    BY <2>2, <2>3 DEF IInv, LineageInv
<1>4. \A o \in OutputsOf(s) :
        /\ OutputLineage(s, o) \in Lineage
        /\ OutputLineage(s, o).class \in Classes
        /\ graph.rule[o] = NoClass =>
             fabric.rank[Processing(s)] <= fabric.rank[OutputLineage(s, o).class]
  BY <1>1, <1>3, OutputLineageTypes
<1>5. Chosen(s) \subseteq Eligible(s) /\ Eligible(s) \subseteq Targets
  BY DEF Chosen, Eligible
<1>6. TypeOK'
  <2>1. lineage' \in [Values -> Lineage]
    BY <1>1, <1>4 DEF TypeOK
  <2>2. candidates' \in [Stages -> SUBSET Targets]
    BY <1>1, <1>5 DEF TypeOK
  <2>3. QED
    BY <1>1, <1>2, <2>1, <2>2 DEF TypeOK
<1>7. OrderInv'
  <2>1. OrderIsTopological' /\ Ordered' = Ordered
    BY <1>1, OrderKept
  <2>2. planning' = planning /\ planning = "planning"
    OBVIOUS
  <2>3. QED
    BY <2>1, <2>2 DEF IInv, OrderInv
<1>8. fabric' = fabric /\ graph' = graph
  BY DEF fabric, graph
<1>9. LineageInv'
  <2>1. SUFFICES ASSUME NEW v \in Values
        PROVE  /\ Settled(v)' => lineage'[v].class \in Classes
               /\ \A i \in lineage'[v].raw :
                    fabric.rank[graph.class[i]] <= fabric.rank[lineage'[v].class]
               /\ \A i \in lineage'[v].inherits :
                    graph.residencies[i] \subseteq lineage'[v].residencies
    BY <1>8 DEF LineageInv
  <2>2. CASE v \notin OutputsOf(s)
    <3>1. lineage'[v] = lineage[v]
      BY <2>2
    <3>2. Settled(v)' => Settled(v)
      BY <1>2, <2>2 DEF Settled, OutputsOf, Values
    <3>3. QED
      BY <3>1, <3>2 DEF IInv, LineageInv
  <2>3. CASE v \in OutputsOf(s)
    <3>1. lineage'[v] = OutputLineage(s, v)
      BY <2>3
    <3>2. ASSUME NEW i \in OutputLineage(s, v).raw
          PROVE  fabric.rank[graph.class[i]] <= fabric.rank[OutputLineage(s, v).class]
      <4>1. graph.rule[v] = NoClass
        BY <3>2 DEF OutputLineage
      <4>2. PICK w \in graph.reads[s] : i \in lineage[w].raw
        BY <3>2, <4>1 DEF OutputLineage
      <4>3. w \in Values /\ lineage[w].class \in Classes
        BY <1>3
      <4>4. fabric.rank[graph.class[i]] <= fabric.rank[lineage[w].class]
        BY <4>2, <4>3 DEF IInv, LineageInv
      <4>5. /\ Processing(s) \in Classes
            /\ fabric.rank[lineage[w].class] <= fabric.rank[Processing(s)]
        BY <1>1, <1>3, <4>2, ProcessingTypes
      <4>6. i \in Inputs
        BY <1>1, <4>2, <4>3 DEF TypeOK, Lineage
      <4>7. /\ fabric.rank[graph.class[i]] \in Nat
            /\ fabric.rank[lineage[w].class] \in Nat
            /\ fabric.rank[Processing(s)] \in Nat
            /\ fabric.rank[OutputLineage(s, v).class] \in Nat
        BY <1>1, <1>4, <2>3, <4>3, <4>5, <4>6, RequestTypes
      <4>8. fabric.rank[Processing(s)] <= fabric.rank[OutputLineage(s, v).class]
        BY <1>4, <2>3, <4>1
      <4>9. QED
        BY <4>4, <4>5, <4>7, <4>8
    <3>3. ASSUME NEW i \in OutputLineage(s, v).inherits
          PROVE  graph.residencies[i] \subseteq OutputLineage(s, v).residencies
      <4>1. PICK w \in graph.reads[s] : i \in lineage[w].inherits
        BY <3>3 DEF OutputLineage
      <4>2. graph.residencies[i] \subseteq lineage[w].residencies
        BY <1>3, <4>1 DEF IInv, LineageInv
      <4>3. lineage[w].residencies \subseteq RequiredResidencies(s)
        BY DEF RequiredResidencies
      <4>4. QED
        BY <4>2, <4>3 DEF OutputLineage
    <3>4. QED
      BY <1>4, <2>3, <3>1, <3>2, <3>3
  <2>4. QED
    BY <2>2, <2>3
<1>10. PlacementInv'
  <2>1. SUFFICES ASSUME NEW u \in Stages, NEW t \in candidates'[u]
        PROVE  /\ u \in Planned'
               /\ \A v \in graph.reads[u] :
                    lineage'[v].residencies \subseteq fabric.zoneResidencies[fabric.zone[t]]
               /\ graph.reads[u] # {} => \E c \in Classes :
                    /\ Admits(c, fabric.zone[t])
                    /\ \A v \in graph.reads[u] : fabric.rank[lineage'[v].class] <= fabric.rank[c]
    BY ZenonT(40), <1>8 DEF PlacementInv, Admits
  <2>2. CASE u # s
    <3>1. t \in candidates[u]
      BY <1>1, <2>1, <2>2 DEF TypeOK
    <3>2. u \in Planned
      BY <3>1 DEF IInv, PlacementInv
    <3>3. \A v \in graph.reads[u] : lineage'[v] = lineage[v]
      BY <1>3, <3>2
    <3>4. QED
      BY <1>2, <3>1, <3>2, <3>3 DEF IInv, PlacementInv
  <2>3. CASE u = s
    <3>1. Suits(s, t)
      BY <1>1, <1>5, <2>1, <2>3 DEF TypeOK, Eligible
    <3>2. \A v \in graph.reads[s] : lineage'[v] = lineage[v]
      BY <1>3
    <3>3. RequiredResidencies(s) \subseteq fabric.zoneResidencies[fabric.zone[t]]
      BY <3>1 DEF Suits
    <3>4. \A v \in graph.reads[s] : lineage[v].residencies \subseteq RequiredResidencies(s)
      BY DEF RequiredResidencies
    <3>5. ASSUME graph.reads[s] # {}
          PROVE  \E c \in Classes :
                   /\ Admits(c, fabric.zone[t])
                   /\ \A v \in graph.reads[s] : fabric.rank[lineage[v].class] <= fabric.rank[c]
      <4>1. /\ Processing(s) \in Classes
            /\ \A v \in graph.reads[s] : fabric.rank[lineage[v].class] <= fabric.rank[Processing(s)]
        BY <1>1, <1>3, <3>5, ProcessingTypes
      <4>2. Admits(Processing(s), fabric.zone[t])
        BY <3>1 DEF Suits
      <4>3. QED
        BY <4>1, <4>2
    <3>6. QED
      BY <1>2, <2>3, <3>2, <3>3, <3>4, <3>5
  <2>4. QED
    BY <2>2, <2>3
<1>11. proofs = {} /\ planning' # "planned" /\ proofs' = {}
  BY DEF IInv
<1>12. QED
  BY <1>6, <1>7, <1>9, <1>10, <1>11 DEF IInv, ProofInv

LEMMA EndStep ==
  ASSUME IInv, DetectCycle \/ \E s \in Stages : RejectStage(s)
  PROVE  IInv'
<1>1. UNCHANGED <<request, order, turn, lineage, candidates, proofs>>
  BY DEF DetectCycle, RejectStage
<1>2. planning' \in Errors
  <2>1. ASSUME NEW s \in Stages PROVE StageErrors(s) \subseteq Errors
    BY DEF StageErrors, OutputErrors, Errors
  <2>2. QED
    BY <2>1 DEF DetectCycle, RejectStage, Errors
<1>3. planning' \notin {"ordering", "planning", "planned"}
  BY <1>2 DEF Errors
<1>4. planning' = "cycle_detected" => planning = "ordering" /\ ReadyStages = {}
  <2>1. ASSUME NEW s \in Stages PROVE "cycle_detected" \notin StageErrors(s)
    BY DEF StageErrors, OutputErrors
  <2>2. QED
    BY <2>1 DEF DetectCycle, RejectStage
<1>5. planning' # "cycle_detected" => planning = "planning"
  BY DEF DetectCycle, RejectStage
<1>6. OrderInv'
  <2>1. OrderIsTopological' /\ Ordered' = Ordered /\ ReadyStages' = ReadyStages
    BY <1>1, OrderKept DEF IInv, OrderInv
  <2>2. QED
    BY <1>3, <1>4, <1>5, <2>1 DEF IInv, OrderInv
<1>7. TypeOK'
  BY <1>1, <1>2 DEF IInv, TypeOK
<1>8. LineageInv' /\ PlacementInv'
  BY SMTT(30), <1>1 DEF IInv, LineageInv, PlacementInv, Settled, Planned, Admits, fabric, graph
<1>9. proofs' = {}
  BY <1>1 DEF IInv, DetectCycle, RejectStage
<1>10. QED
  BY <1>6, <1>7, <1>8, <1>9 DEF IInv, ProofInv

LEMMA SealStep ==
  ASSUME IInv, SealPlan
  PROVE  IInv'
<1> USE DEF SealPlan
<1>1. fabric' = fabric /\ graph' = graph /\ lineage' = lineage /\ candidates' = candidates
  BY DEF fabric, graph
<1>2. ASSUME NEW p \in EgressProofs
      PROVE  /\ p \in Proof
             /\ p.stage \in Stages
             /\ p.value \in graph.reads[p.stage]
             /\ p.to \in candidates[p.stage]
             /\ p.class = lineage[p.value].class
  <2>0. PICK s \in Stages :
          \E v \in graph.reads[s], t \in candidates[s] : p \in ProofsInto(s, t, v)
    BY DEF EgressProofs
  <2>1. PICK v \in graph.reads[s], t \in candidates[s] : p \in ProofsInto(s, t, v)
    BY <2>0
  <2>2. PICK place \in Places(v) : p = ProofFor(v, place, s, t)
    BY <2>1 DEF ProofsInto
  <2>3. v \in Values /\ t \in Targets
    BY RequestTypes DEF IInv, TypeOK
  <2>4. lineage[v].class \in Classes
    <3>1. s \in Planned
      BY DEF IInv, PlacementInv
    <3>2. Sources(s) \subseteq Planned
      BY <3>1, OrderFacts DEF IInv, OrderInv
    <3>3. Settled(v)
      BY <3>2, ReadsSettled DEF IInv
    <3>4. QED
      BY <2>3, <3>3 DEF IInv, LineageInv
  <2>5. place.zone \in Zones /\ place.target \in Targets \cup {NoTarget}
    <3>1. CASE v \in Inputs
      <4>1. place = graph.origin[v] /\ place.zone # NoZone
        BY <2>2, <3>1 DEF Places
      <4>2. QED
        BY <3>1, <4>1, RequestTypes DEF IInv
    <3>2. CASE v \notin Inputs
      <4>1. Producer[v] \in Stages
        BY <2>3, <3>2, PlannerAssumption DEF Values
      <4>2. PICK u \in candidates[Producer[v]] : place = Placed(u)
        BY <2>2, <3>2 DEF Places
      <4>3. u \in Targets
        BY <4>1 DEF IInv, TypeOK
      <4>4. QED
        BY <4>2, <4>3, RequestTypes DEF IInv, Placed
    <3>3. QED
      BY <3>1, <3>2
  <2>6. QED
    BY <2>2, <2>3, <2>4, <2>5 DEF ProofFor, Proof
<1>3. TypeOK'
  BY <1>2 DEF IInv, TypeOK
<1>4. OrderInv'
  <2>1. OrderIsTopological' /\ Ordered' = Ordered
    BY OrderKept DEF IInv, OrderInv
  <2>2. QED
    BY <2>1 DEF IInv, OrderInv
<1>5. LineageInv' /\ PlacementInv'
  BY ZenonT(40), <1>1 DEF IInv, LineageInv, PlacementInv, Settled, Planned, Admits
<1>6. ProofInv'
  BY <1>1, <1>2 DEF ProofInv
<1>7. QED
  BY <1>3, <1>4, <1>5, <1>6 DEF IInv

LEMMA Invariance == Spec => []IInv
<1>1. Init => IInv
  <2> SUFFICES ASSUME Init PROVE IInv
    OBVIOUS
  <2> USE DEF Init
  <2>1. order = <<>> /\ Len(order) = 0 /\ Ordered = {} /\ Planned = {}
    BY DEF Ordered, Planned
  <2>2. fabric \in Fabric /\ graph \in Graph
    BY PlannerAssumption DEF fabric, graph
  <2>3. /\ graph.class \in [Inputs -> Classes]
        /\ graph.residencies \in [Inputs -> SUBSET Residencies]
        /\ fabric.rank \in [Classes -> Nat]
    BY <2>2 DEF Fabric, Graph
  <2>4. \A v \in Values : lineage[v] = IF v \in Inputs THEN InputLineage(v) ELSE NoLineage
    OBVIOUS
  <2>5. TypeOK
    <3>1. \A i \in Inputs : InputLineage(i) \in Lineage
      BY <2>3 DEF InputLineage, Lineage
    <3>2. NoLineage \in Lineage
      BY DEF NoLineage, Lineage
    <3>3. lineage \in [Values -> Lineage]
      BY <3>1, <3>2
    <3>4. QED
      BY <2>1, <3>3 DEF TypeOK
  <2>6. OrderInv
    BY <2>1, PlannerAssumption DEF OrderInv, OrderIsTopological
  <2>7. LineageInv
    <3>1. SUFFICES ASSUME NEW v \in Values
          PROVE  /\ Settled(v) => lineage[v].class \in Classes
                 /\ \A i \in lineage[v].raw :
                      fabric.rank[graph.class[i]] <= fabric.rank[lineage[v].class]
                 /\ \A i \in lineage[v].inherits :
                      graph.residencies[i] \subseteq lineage[v].residencies
      BY DEF LineageInv
    <3>2. CASE v \in Inputs
      BY <2>3, <2>4, <3>2 DEF InputLineage
    <3>3. CASE v \notin Inputs
      BY <2>1, <2>4, <3>3 DEF NoLineage, Settled
    <3>4. QED
      BY <3>2, <3>3
  <2>8. PlacementInv /\ ProofInv
    BY DEF PlacementInv, ProofInv
  <2>9. QED
    BY <2>5, <2>6, <2>7, <2>8 DEF IInv
<1>2. IInv /\ [PlannerNext]_plannerVars => IInv'
  <2>1. IInv /\ PlannerNext => IInv'
    BY OrderStep, PlanStep, EndStep, SealStep DEF PlannerNext
  <2>2. IInv /\ UNCHANGED plannerVars => IInv'
    <3> SUFFICES ASSUME IInv, UNCHANGED plannerVars PROVE IInv'
      OBVIOUS
    <3> USE DEF IInv, plannerVars
    <3>1. OrderInv'
      BY OrderKept DEF OrderInv
    <3>2. TypeOK' /\ ProofInv'
      BY DEF TypeOK, ProofInv, graph
    <3>3. LineageInv' /\ PlacementInv'
      BY DEF LineageInv, PlacementInv, Planned, Settled, Admits, fabric, graph
    <3>4. QED
      BY <3>1, <3>2, <3>3
  <2>3. QED
    BY <2>1, <2>2
<1>3. QED
  BY <1>1, <1>2, PTL DEF Spec

-------------------------------------------------------------------------------
(* The theorems.                                                             *)

\* Every reachable state of planStageGraph is well typed.
THEOREM TypeCorrect == Spec => []TypeOK
<1>1. IInv => TypeOK
  BY DEF IInv
<1>2. QED
  BY <1>1, Invariance, PTL

\* The stages come in an order in which each follows all it reads from
\* (stageOrder).
THEOREM OrderIsSound == Spec => []OrderIsTopological
<1>1. IInv => OrderIsTopological
  BY DEF IInv, OrderInv
<1>2. QED
  BY <1>1, Invariance, PTL

\* A graph is called cyclic exactly when some of its stages read from one
\* another in a circle (stageOrder).
THEOREM CyclesAreFoundAll == Spec => []CyclesAreFound
<1>1. ASSUME IInv, planning = "cycle_detected"
      PROVE  Cyclic
  <2> DEFINE S == Stages \ Ordered
  <2>1. S \in (SUBSET Stages) \ {{}}
    BY <1>1 DEF IInv, OrderInv, OrderIsTopological, Ordered, TypeOK
  <2>2. \A s \in S : Sources(s) \cap S # {}
    <3>1. \A s \in S : Sources(s) \subseteq Stages
      BY PlannerAssumption DEF Sources
    <3>2. \A s \in S : ~(Sources(s) \subseteq Ordered)
      BY <1>1 DEF IInv, OrderInv, ReadyStages
    <3>3. QED
      BY <3>1, <3>2
  <2>3. QED
    BY <2>1, <2>2 DEF Cyclic
<1>2. ASSUME IInv, planning \notin {"ordering", "cycle_detected"}, Cyclic
      PROVE  FALSE
  <2>1. PICK S \in (SUBSET Stages) \ {{}} : \A s \in S : Sources(s) \cap S # {}
    BY <1>2 DEF Cyclic
  <2> DEFINE K == {k \in 1..Len(order) : order[k] \in S}
  <2>2. Ordered = Stages /\ OrderIsTopological
    BY <1>2 DEF IInv, OrderInv
  <2>3. K \subseteq Nat /\ K # {}
    <3>1. PICK s \in S : s \in Ordered
      BY <2>1, <2>2
    <3>2. PICK k \in 1..Len(order) : s = order[k]
      BY <3>1 DEF Ordered
    <3>3. QED
      BY <3>1, <3>2
  <2>4. PICK k \in K : \A j \in K : k <= j
    <3> HIDE DEF K
    <3>1. QED
      BY <2>3, LeastElement
  <2>5. PICK u \in Sources(order[k]) : u \in S
    BY <2>1, <2>4
  <2>6. PICK j \in 1..(k - 1) : u = order[j]
    <3>1. Sources(order[k]) \subseteq {order[j] : j \in 1..(k - 1)}
      BY <2>2, <2>4 DEF OrderIsTopological
    <3>2. QED
      BY <2>5, <3>1
  <2>7. j \in K /\ j < k
    BY <1>2, <2>4, <2>5, <2>6 DEF IInv, TypeOK
  <2>8. QED
    BY <2>4, <2>7
<1>3. IInv => CyclesAreFound
  BY <1>1, <1>2 DEF CyclesAreFound
<1>4. QED
  BY <1>3, Invariance, PTL

\* However long the chain of stages, a value ranks no lower than any input that
\* reaches it without a declassification rule.
THEOREM NoDowngrade == Spec => []NoSilentDowngrade
<1>1. IInv => NoSilentDowngrade
  BY DEF IInv, LineageInv, NoSilentDowngrade
<1>2. QED
  BY <1>1, Invariance, PTL

\* A residency demanded of an input binds every target of every stage it ever
\* reaches.
THEOREM ResidencyHolds == Spec => []ResidencySticks
<1>1. ASSUME IInv
      PROVE  ResidencySticks
  <2>1. SUFFICES ASSUME NEW s \in Planned, NEW t \in candidates[s], NEW v \in graph.reads[s],
                        NEW i \in lineage[v].inherits
        PROVE  graph.residencies[i] \subseteq fabric.zoneResidencies[fabric.zone[t]]
    BY DEF ResidencySticks
  <2>2. s \in Stages
    BY <1>1, OrderFacts DEF IInv, OrderInv
  <2>3. v \in Values
    BY <1>1, <2>2, RequestTypes DEF IInv
  <2>4. graph.residencies[i] \subseteq lineage[v].residencies
    BY <1>1, <2>3 DEF IInv, LineageInv
  <2>5. lineage[v].residencies \subseteq fabric.zoneResidencies[fabric.zone[t]]
    BY <1>1, <2>2 DEF IInv, PlacementInv
  <2>6. QED
    BY <2>4, <2>5
<1>2. QED
  BY <1>1, Invariance, PTL

\* What a planned stage reads, and what reaches it raw, is allowed on all its
\* targets by the classification of its own, under a monotone policy.
LEMMA AllowedWherePlaced ==
  ASSUME IInv, Monotone, NEW s \in Stages, NEW t \in candidates[s], NEW v \in graph.reads[s]
  PROVE  /\ Admits(lineage[v].class, fabric.zone[t])
         /\ \A i \in lineage[v].raw : Admits(graph.class[i], fabric.zone[t])
<1>1. /\ s \in Planned /\ t \in Targets
      /\ \E c \in Classes :
           /\ Admits(c, fabric.zone[t])
           /\ \A w \in graph.reads[s] : fabric.rank[lineage[w].class] <= fabric.rank[c]
  BY DEF IInv, PlacementInv, TypeOK
<1>2. PICK c \in Classes :
        Admits(c, fabric.zone[t]) /\ fabric.rank[lineage[v].class] <= fabric.rank[c]
  BY <1>1
<1>3. fabric.zone[t] \in Zones
  BY <1>1, RequestTypes DEF IInv
<1>4. v \in Values /\ lineage[v].class \in Classes /\ lineage[v] \in Lineage
  <2>1. Sources(s) \subseteq Planned
    BY <1>1, OrderFacts DEF IInv, OrderInv
  <2>2. v \in Values /\ Settled(v)
    BY <2>1, ReadsSettled DEF IInv
  <2>3. QED
    BY <2>2 DEF IInv, LineageInv, TypeOK
<1>5. Admits(lineage[v].class, fabric.zone[t])
  BY <1>2, <1>3, <1>4 DEF Monotone
<1>6. ASSUME NEW i \in lineage[v].raw
      PROVE  Admits(graph.class[i], fabric.zone[t])
  <2>1. graph.class[i] \in Classes
    BY <1>4, RequestTypes DEF IInv, Lineage
  <2>2. fabric.rank[graph.class[i]] <= fabric.rank[lineage[v].class]
    BY <1>4 DEF IInv, LineageInv
  <2>3. QED
    BY <1>3, <1>4, <1>5, <2>1, <2>2 DEF Monotone
<1>7. QED
  BY <1>5, <1>6

\* Under a monotone policy, raw data is placed only where its own
\* classification allows, whatever it is mixed with (evaluateTarget).
THEOREM RawDataStays == Spec => []RawDataStaysAllowed
<1>1. ASSUME IInv
      PROVE  RawDataStaysAllowed
  <2>1. Planned \subseteq Stages
    BY <1>1, OrderFacts DEF IInv, OrderInv
  <2>2. QED
    BY <1>1, <2>1, AllowedWherePlaced DEF RawDataStaysAllowed
<1>2. QED
  BY <1>1, Invariance, PTL

\* Under a monotone policy, what the egress proofs of a plan say is true
\* (buildEgressProofs).
THEOREM EgressProofsAlwaysHold == Spec => []EgressProofsHold
<1>1. ASSUME IInv, Monotone
      PROVE  EgressProofsAreTrue
  <2>1. SUFFICES ASSUME NEW p \in proofs
        PROVE  /\ Admits(p.class, fabric.zone[p.to])
               /\ lineage[p.value].residencies \subseteq fabric.zoneResidencies[fabric.zone[p.to]]
    BY DEF EgressProofsAreTrue
  <2>2. /\ p.stage \in Stages
        /\ p.value \in graph.reads[p.stage]
        /\ p.to \in candidates[p.stage]
        /\ p.class = lineage[p.value].class
    BY <1>1 DEF IInv, ProofInv
  <2>3. Admits(p.class, fabric.zone[p.to])
    BY <1>1, <2>2, AllowedWherePlaced
  <2>4. QED
    BY <1>1, <2>2, <2>3 DEF IInv, PlacementInv
<1>2. IInv => EgressProofsHold
  BY <1>1 DEF EgressProofsHold
<1>3. QED
  BY <1>2, Invariance, PTL

-------------------------------------------------------------------------------
(* The planner and the executor together.                                    *)

\* A sealed plan is complete: every stage has targets, every value that is taken
\* for declassified a rule, and every transfer the plan may make its proof.
SealInv ==
  /\ \A s \in Planned : candidates[s] # {}
  /\ \A v \in Values : lineage[v].declassified => v \in Outputs /\ graph.rule[v] # NoClass
  /\ planning = "planned" => turn = Len(order) /\ proofs = EgressProofs

\* An execution has a sealed plan, and nothing was sent before.
ExecutionInv ==
  /\ phase = "idle" => sent = {} /\ verified = {} /\ at = 1
  /\ phase # "idle" => planning = "planned" /\ plan = SealedPlan
  /\ phase # "missing_input"

CallerInv ==
  /\ caller \in [Inputs -> Contents \cup {Missing}]
  /\ \A i \in Inputs : caller[i] # Missing

Attempting == phase \in {"guards", "adapter", "verify"}
Working == Attempting \/ phase = "inputs"

\* A value there is was produced on a target the plan has for its stage, and
\* verified if it is declassified; those of the stages behind are all there.
ValuesInv ==
  phase # "idle" =>
    /\ \A i \in Inputs : values[i] # Missing
    /\ \A o \in Outputs : values[o] # Missing =>
         /\ source[o] \in candidates[Producer[o]]
         /\ graph.rule[o] # NoClass => values[o] \in Approved
    /\ Working =>
         /\ at \in 1..Len(order)
         /\ \A k \in 1..(at - 1) : \A o \in OutputsOf(order[k]) : values[o] # Missing

\* What an attempt is made with.
AttemptInv ==
  /\ Attempting =>
       /\ target \in candidates[order[at]]
       /\ DOMAIN staged = graph.reads[order[at]]
       /\ \A v \in DOMAIN staged : staged[v] = values[v] /\ values[v] # Missing
  /\ \A o \in verified : outputs[o] \in Approved
  /\ phase = "verify" => \A o \in OutputsOf(order[at]) : outputs[o] # Missing

SentInv ==
  \A q \in sent :
    /\ q.stage \in Stages /\ q.target \in candidates[q.stage]
    /\ DOMAIN q.data = graph.reads[q.stage]
    /\ \A v \in DOMAIN q.data \cap Outputs :
         /\ source[v] \in candidates[Producer[v]]
         /\ graph.rule[v] # NoClass => q.data[v] \in Approved

AllInv == IInv /\ SealInv /\ ExecutionInv /\ CallerInv /\ ValuesInv /\ AttemptInv /\ SentInv

-------------------------------------------------------------------------------
(* The plan.                                                                 *)

\* The planner's own invariant holds of the two together.
LEMMA PlannerGoesOn == SpecAll => []IInv
<1>1. InitAll => Init
  BY DEF InitAll
<1>2. [Next]_vars => [PlannerNext]_plannerVars
  BY DEF Next, vars, PlanOn, BeginExecution, ExecuteOn
<1> QED
  BY <1>1, <1>2, Invariance, PTL DEF SpecAll, Spec

\* A stage that is planned gets a target at least.
LEMMA ChosenExist ==
  ASSUME TypeOK, NEW s \in Stages, Eligible(s) # {}
  PROVE  Chosen(s) # {}
<1>1. Eligible(s) \subseteq Nat
  BY PlannerAssumption DEF Eligible
<1>2. PICK t \in Eligible(s) : \A u \in Eligible(s) : t <= u
  BY <1>1, LeastElement
<1>3. {u \in Eligible(s) : u < t} = {}
  BY <1>1, <1>2
<1>4. Cardinality({u \in Eligible(s) : u < t}) = 0
  BY <1>3, FS_EmptySet
<1>5. fabric.maxFallbacks \in Nat
  BY PlannerAssumption DEF TypeOK, fabric, Fabric
<1> QED
  BY <1>2, <1>4, <1>5 DEF Chosen

LEMMA SealingIsSound ==
  ASSUME IInv, SealInv, [PlannerNext]_plannerVars
  PROVE  SealInv'
<1>0. TypeOK /\ turn \in Nat /\ order \in Seq(Stages) /\ Len(order) \in Nat /\ turn <= Len(order)
  BY DEF IInv, TypeOK
<1>1. ASSUME NEW s \in Stages, OrderStage(s)
      PROVE  SealInv'
  <2>1. turn = 0 /\ turn' = 0
    BY <1>1 DEF OrderStage, IInv, OrderInv
  <2>2. Planned' = {}
    BY <2>1 DEF Planned
  <2> QED
    BY <1>1, <2>2 DEF OrderStage, SealInv, graph
<1>2. ASSUME NEW s \in Stages, PlanStage(s)
      PROVE  SealInv'
  <2>1. Planned' \subseteq Planned \cup {s}
    <3>1. 1..(turn + 1) = (1..turn) \cup {turn + 1}
      BY <1>0
    <3> QED
      BY <1>2, <3>1 DEF PlanStage, Planned
  <2>2. Planned \subseteq Stages
    BY OrderFacts DEF IInv, OrderInv
  <2>3. Chosen(s) # {}
    BY <1>0, <1>2, ChosenExist DEF PlanStage
  <2>4. candidates' = [candidates EXCEPT ![s] = Chosen(s)] /\ candidates \in [Stages -> SUBSET Targets]
    BY <1>0, <1>2 DEF PlanStage, TypeOK
  <2>5. \A u \in Planned' : candidates'[u] # {}
    BY <2>1, <2>2, <2>3, <2>4 DEF SealInv
  <2>6. graph' = graph
    BY <1>2 DEF PlanStage, graph
  <2>7. ASSUME NEW v \in Values, lineage'[v].declassified
        PROVE  v \in Outputs /\ graph.rule[v] # NoClass
    <3>1. CASE v \in OutputsOf(s)
      <4>1. lineage'[v] = OutputLineage(s, v)
        BY <1>2, <3>1 DEF PlanStage
      <4>2. lineage'[v].declassified = (graph.rule[v] # NoClass)
        BY <4>1 DEF OutputLineage
      <4> QED
        BY <2>7, <3>1, <4>2 DEF OutputsOf
    <3>2. CASE v \notin OutputsOf(s)
      <4>1. lineage'[v] = lineage[v]
        BY <1>2, <3>2 DEF PlanStage
      <4> QED
        BY <2>7, <4>1 DEF SealInv
    <3> QED
      BY <3>1, <3>2
  <2> QED
    BY <1>2, <2>5, <2>6, <2>7 DEF PlanStage, SealInv
<1>3. CASE DetectCycle \/ \E s \in Stages : RejectStage(s)
  <2>1. UNCHANGED <<request, order, turn, lineage, candidates, proofs>>
    BY <1>3 DEF DetectCycle, RejectStage
  <2>2. planning' # "planned"
    <3>1. \A s \in Stages : "planned" \notin StageErrors(s)
      BY DEF StageErrors, OutputErrors
    <3> QED
      BY <1>3, <3>1 DEF DetectCycle, RejectStage
  <2> QED
    BY <2>1, <2>2 DEF SealInv, Planned, graph
<1>4. CASE SealPlan
  <2>1. EgressProofs' = EgressProofs
    BY <1>4 DEF SealPlan, EgressProofs, ProofsInto, ProofFor, Places, Placed, Crosses, graph, fabric
  <2> QED
    BY <1>4, <2>1 DEF SealPlan, SealInv, Planned, graph
<1>5. CASE UNCHANGED plannerVars
  <2>1. EgressProofs' = EgressProofs
    BY <1>5 DEF plannerVars, EgressProofs, ProofsInto, ProofFor, Places, Placed, Crosses, graph, fabric
  <2> QED
    BY <1>5, <2>1 DEF plannerVars, SealInv, Planned, graph
<1> QED
  BY <1>1, <1>2, <1>3, <1>4, <1>5 DEF PlannerNext

\* What the executor may rely on.
LEMMA SealedFacts ==
  ASSUME IInv, SealInv, planning = "planned"
  PROVE  /\ order \in Seq(Stages) /\ Len(order) \in Nat \ {0} /\ Ordered = Stages
         /\ \A k \in 1..Len(order) : order[k] \in Stages
         /\ graph.reads \in [Stages -> SUBSET Values]
         /\ \A s \in Stages : /\ candidates[s] \subseteq Targets
                              /\ Executor!First(candidates[s]) \in candidates[s]
         /\ \A k \in 1..Len(order) : \A v \in graph.reads[order[k]] :
              v \in Inputs \/ (v \in Outputs /\ \E j \in 1..(k - 1) : Producer[v] = order[j])
<1>1. /\ TypeOK /\ order \in Seq(Stages) /\ Len(order) \in Nat /\ Ordered = Stages
      /\ turn = Len(order) /\ OrderIsTopological
  BY DEF IInv, TypeOK, OrderInv, SealInv
<1>2. Len(order) # 0
  BY <1>1, PlannerAssumption DEF Ordered
<1>3. \A k \in 1..Len(order) : order[k] \in Stages
  BY <1>1
<1>4. graph.reads \in [Stages -> SUBSET Values]
  BY <1>1, RequestTypes
<1>5. ASSUME NEW s \in Stages
      PROVE  candidates[s] \subseteq Targets /\ Executor!First(candidates[s]) \in candidates[s]
  <2>1. candidates[s] \subseteq Targets
    BY <1>1 DEF TypeOK
  <2>2. candidates[s] # {} /\ candidates[s] \subseteq Nat
    BY <1>1, <2>1, PlannerAssumption DEF SealInv, Planned, Ordered
  <2>3. \E t \in candidates[s] : \A u \in candidates[s] : t <= u
    BY <2>2, LeastElement
  <2> QED
    BY <2>1, <2>3 DEF Executor!First
<1>6. ASSUME NEW k \in 1..Len(order), NEW v \in graph.reads[order[k]]
      PROVE  v \in Inputs \/ (v \in Outputs /\ \E j \in 1..(k - 1) : Producer[v] = order[j])
  <2>1. v \in Inputs \cup Outputs
    BY <1>3, <1>4 DEF Values
  <2>2. CASE v \in Outputs
    BY ZenonT(40), <1>1, <2>2 DEF OrderIsTopological, Sources
  <2> QED
    BY <2>1, <2>2
<1> QED
  BY <1>1, <1>2, <1>3, <1>4, <1>5, <1>6

-------------------------------------------------------------------------------
(* The execution.                                                            *)

ExecInv == ExecutionInv /\ CallerInv /\ ValuesInv /\ AttemptInv /\ SentInv

LEMMA PlanIsSealed ==
  ASSUME AllInv, phase # "idle"
  PROVE  /\ planning = "planned"
         /\ plan.order = order /\ plan.reads = graph.reads /\ plan.candidates = candidates
         /\ plan.declassified = {o \in Outputs : graph.rule[o] # NoClass}
BY DEF AllInv, ExecutionInv, SealedPlan

LEMMA PlanStays ==
  ASSUME UNCHANGED plannerVars
  PROVE  /\ UNCHANGED <<order, candidates, planning, graph, SealedPlan>>
         /\ \A s : OutputsOf(s)' = OutputsOf(s)
BY DEF plannerVars, graph, SealedPlan, OutputsOf

\* The planner goes on only before there is an execution.
LEMMA PlanningKeeps ==
  ASSUME AllInv, PlanOn
  PROVE  ExecInv'
<1>1. planning # "planned"
  <2>1. ASSUME planning = "planned", NEW s \in Stages
        PROVE  ~(OrderStage(s) \/ PlanStage(s) \/ RejectStage(s) \/ DetectCycle \/ SealPlan)
    BY <2>1 DEF OrderStage, PlanStage, RejectStage, DetectCycle, SealPlan
  <2>2. Stages # {}
    BY PlannerAssumption
  <2> QED
    BY <2>1, <2>2 DEF PlanOn, PlannerNext
<1>2. phase = "idle" /\ UNCHANGED execVars
  BY <1>1 DEF AllInv, ExecutionInv, PlanOn
<1>3. phase' = "idle" /\ sent' = {} /\ verified' = {} /\ at' = 1 /\ caller' = caller
  BY <1>2 DEF AllInv, ExecutionInv, execVars
<1> QED
  BY <1>3 DEF AllInv, ExecInv, ExecutionInv, CallerInv, ValuesInv, AttemptInv, SentInv, Attempting

LEMMA BeginningKeeps ==
  ASSUME AllInv, BeginExecution
  PROVE  ExecInv'
<1> USE DEF BeginExecution, Executor!Begin
<1>1. planning' = "planned" /\ plan' = SealedPlan' /\ phase' = "inputs" /\ at' = 1 /\ sent' = {} /\ verified' = {}
  BY PlanStays DEF AllInv, ExecutionInv
<1>2. Len(order) \in Nat \ {0} /\ order' = order
  BY SealedFacts, PlanStays DEF AllInv
<1>3. ExecutionInv' /\ CallerInv' /\ AttemptInv' /\ SentInv'
  BY <1>1 DEF AllInv, ExecutionInv, CallerInv, AttemptInv, SentInv, Attempting
<1>4. /\ \A i \in Inputs : values'[i] # Missing
      /\ \A o \in Outputs : values'[o] = Missing
  BY PlannerAssumption DEF AllInv, CallerInv, Values, Executor!Values
<1>5. 1..(at' - 1) = {} /\ at' \in 1..Len(order')
  BY <1>1, <1>2
<1>6. ValuesInv'
  BY <1>4, <1>5 DEF ValuesInv
<1> QED
  BY <1>3, <1>6 DEF ExecInv

\* An execution that ends leaves all it did behind.
LEMMA EndingKeeps ==
  ASSUME AllInv, UNCHANGED plannerVars, phase # "idle",
         phase' \notin {"idle", "inputs", "guards", "adapter", "verify", "missing_input"},
         UNCHANGED <<plan, caller, values, outputs, verified, source, sent>>
  PROVE  ExecInv'
<1>1. ~Attempting' /\ ~Working' /\ phase' # "verify"
  BY DEF Attempting, Working
<1>2. ExecutionInv'
  BY PlanStays DEF AllInv, ExecutionInv
<1>3. CallerInv'
  BY DEF AllInv, CallerInv
<1>4. ValuesInv' /\ AttemptInv' /\ SentInv'
  BY <1>1, PlanStays DEF AllInv, ValuesInv, AttemptInv, SentInv
<1> QED
  BY <1>2, <1>3, <1>4 DEF ExecInv

\* What a stage reads is there when its turn comes.
LEMMA ReadsAreThere ==
  ASSUME AllInv, phase = "inputs"
  PROVE  /\ at \in 1..Len(order) /\ order[at] \in Stages
         /\ Executor!Stage = order[at] /\ Executor!Reads = graph.reads[order[at]]
         /\ \A v \in graph.reads[order[at]] : v \in Values /\ values[v] # Missing
<1>1. phase # "idle" /\ Working
  BY DEF Working
<1>2. at \in 1..Len(order) /\ planning = "planned" /\ plan.order = order /\ plan.reads = graph.reads
  BY <1>1, PlanIsSealed DEF AllInv, ValuesInv
<1>3. order[at] \in Stages
  BY <1>2, SealedFacts DEF AllInv
<1>4. ASSUME NEW v \in graph.reads[order[at]]
      PROVE  v \in Values /\ values[v] # Missing
  <2>1. CASE v \in Inputs
    BY <1>1, <2>1 DEF AllInv, ValuesInv, Values
  <2>2. CASE v \notin Inputs
    <3>1. v \in Outputs /\ \E j \in 1..(at - 1) : Producer[v] = order[j]
      BY <1>2, <2>2, SealedFacts DEF AllInv
    <3> QED
      BY <1>1, <3>1 DEF AllInv, ValuesInv, OutputsOf, Values
  <2> QED
    BY <2>1, <2>2
<1> QED
  BY <1>2, <1>3, <1>4 DEF Executor!Stage, Executor!Reads

LEMMA TakingKeeps ==
  ASSUME AllInv, Executor!TakeInputs, UNCHANGED plannerVars
  PROVE  ExecInv'
<1> USE DEF Executor!TakeInputs
<1>1. phase = "inputs" /\ phase' = "guards" /\ Attempting' /\ Working /\ Working'
  BY DEF Attempting, Working
<1>2. /\ target' \in candidates[order[at]]
      /\ DOMAIN staged' = graph.reads[order[at]]
      /\ \A v \in DOMAIN staged' : staged'[v] = values[v] /\ values[v] # Missing
  <2>1. target' = Executor!First(candidates[order[at]])
    BY <1>1, ReadsAreThere, PlanIsSealed
  <2>2. target' \in candidates[order[at]]
    BY <1>1, <2>1, ReadsAreThere, PlanIsSealed, SealedFacts DEF AllInv
  <2>3. staged' = [v \in graph.reads[order[at]] |-> values[v]]
    BY <1>1, ReadsAreThere
  <2> QED
    BY <1>1, <2>2, <2>3, ReadsAreThere
<1>3. ExecutionInv' /\ CallerInv'
  BY <1>1, PlanStays DEF AllInv, ExecutionInv, CallerInv
<1>4. ValuesInv' /\ SentInv'
  BY <1>1, PlanStays DEF AllInv, ValuesInv, SentInv
<1>5. AttemptInv'
  BY <1>1, <1>2, PlanStays DEF AllInv, AttemptInv
<1> QED
  BY <1>3, <1>4, <1>5 DEF ExecInv

LEMMA NothingIsMissing ==
  ASSUME AllInv, Executor!MissingInput
  PROVE  FALSE
BY ReadsAreThere DEF Executor!MissingInput, Executor!Fail

\* An attempt is of the stage whose turn it is, on one of its targets.
LEMMA AttemptIsPlanned ==
  ASSUME AllInv, Attempting
  PROVE  /\ phase # "idle" /\ Working /\ at \in 1..Len(order) /\ order[at] \in Stages
         /\ Executor!Stage = order[at] /\ Executor!Reads = graph.reads[order[at]]
         /\ target \in candidates[order[at]]
         /\ candidates[order[at]] \subseteq Nat
         /\ planning = "planned" /\ plan.candidates = candidates
         /\ plan.declassified = {o \in Outputs : graph.rule[o] # NoClass}
<1>1. phase # "idle" /\ Working
  BY DEF Attempting, Working
<1>2. /\ at \in 1..Len(order) /\ planning = "planned" /\ plan.order = order /\ plan.reads = graph.reads
      /\ plan.candidates = candidates /\ plan.declassified = {o \in Outputs : graph.rule[o] # NoClass}
  BY <1>1, PlanIsSealed DEF AllInv, ValuesInv
<1>3. order[at] \in Stages /\ candidates[order[at]] \subseteq Nat
  BY <1>2, SealedFacts, PlannerAssumption DEF AllInv
<1> QED
  BY <1>1, <1>2, <1>3 DEF AllInv, AttemptInv, Executor!Stage, Executor!Reads

LEMMA GuardsKeep ==
  ASSUME AllInv, Executor!GuardPasses \/ Executor!AdapterMutates, UNCHANGED plannerVars
  PROVE  ExecInv'
<1>1. UNCHANGED <<phase, plan, at, target, caller, values, staged, outputs, verified, source, sent>>
  BY DEF Executor!GuardPasses, Executor!AdapterMutates
<1>2. ExecutionInv' /\ CallerInv'
  BY <1>1, PlanStays DEF AllInv, ExecutionInv, CallerInv
<1>3. ValuesInv'
  BY <1>1, PlanStays DEF AllInv, ValuesInv, Working, Attempting
<1>4. AttemptInv' /\ SentInv'
  BY <1>1, PlanStays DEF AllInv, AttemptInv, SentInv, Attempting
<1> QED
  BY <1>2, <1>3, <1>4 DEF ExecInv

\* The copies were taken: what the caller does to the objects changes nothing.
LEMMA CallersKeep ==
  ASSUME AllInv, Executor!CallerMutates, UNCHANGED plannerVars
  PROVE  ExecInv'
<1>1. UNCHANGED <<phase, plan, at, target, values, staged, outputs, verified, source, sent>>
  BY DEF Executor!CallerMutates
<1>2. CallerInv'
  BY ContentsAssumption DEF AllInv, CallerInv, Executor!CallerMutates
<1>3. ExecutionInv' /\ ValuesInv'
  BY <1>1, PlanStays DEF AllInv, ExecutionInv, ValuesInv, Working, Attempting
<1>4. AttemptInv' /\ SentInv'
  BY <1>1, PlanStays DEF AllInv, AttemptInv, SentInv, Attempting
<1> QED
  BY <1>2, <1>3, <1>4 DEF ExecInv

LEMMA CallingKeeps ==
  ASSUME AllInv, Executor!CallAdapter, UNCHANGED plannerVars
  PROVE  ExecInv'
<1> USE DEF Executor!CallAdapter
<1>1. Attempting /\ Attempting' /\ Working /\ Working' /\ phase' = "adapter" /\ phase # "idle"
  BY DEF Attempting, Working
<1>2. ExecutionInv' /\ CallerInv'
  BY <1>1, PlanStays DEF AllInv, ExecutionInv, CallerInv
<1>3. ValuesInv'
  BY <1>1, PlanStays DEF AllInv, ValuesInv
<1>4. AttemptInv'
  BY <1>1, PlanStays DEF AllInv, AttemptInv
<1>5. SentInv'
  <2> DEFINE q == [stage |-> order[at], target |-> target, data |-> staged]
  <2>1. sent' = sent \cup {q}
    BY <1>1, AttemptIsPlanned DEF Executor!CurrentRequest
  <2>2. q.stage \in Stages /\ q.target \in candidates[q.stage] /\ DOMAIN q.data = graph.reads[q.stage]
    BY <1>1, AttemptIsPlanned DEF AllInv, AttemptInv
  <2>3. ASSUME NEW v \in DOMAIN staged \cap Outputs
        PROVE  /\ source[v] \in candidates[Producer[v]]
               /\ graph.rule[v] # NoClass => staged[v] \in Approved
    BY <1>1 DEF AllInv, AttemptInv, ValuesInv
  <2> HIDE DEF q
  <2>4. \A v \in DOMAIN q.data \cap Outputs :
          /\ source[v] \in candidates[Producer[v]]
          /\ graph.rule[v] # NoClass => q.data[v] \in Approved
    BY <2>3 DEF q
  <2> QED
    BY <2>1, <2>2, <2>4, PlanStays DEF AllInv, SentInv
<1> QED
  BY <1>2, <1>3, <1>4, <1>5 DEF ExecInv

LEMMA ReturningKeeps ==
  ASSUME AllInv, phase = "adapter", NEW r \in Executor!Results, Executor!AdapterReturns(r), UNCHANGED plannerVars
  PROVE  ExecInv'
<1> USE DEF Executor!AdapterReturns
<1>1. Attempting /\ Attempting' /\ Working /\ Working' /\ phase' = "verify" /\ phase # "idle"
  BY DEF Attempting, Working
<1>2. ExecutionInv' /\ CallerInv'
  BY <1>1, PlanStays DEF AllInv, ExecutionInv, CallerInv
<1>3. ValuesInv' /\ SentInv'
  BY <1>1, PlanStays DEF AllInv, ValuesInv, SentInv
<1>4. \A o \in OutputsOf(order[at]) : r[o] # Missing
  <2> DEFINE Own == Executor!OutputsOf(Executor!Stage)
  <2>1. PICK f \in [Own -> Contents] : r = [o \in Outputs |-> IF o \in Own THEN f[o] ELSE Missing]
    BY Zenon DEF Executor!Results
  <2>2. Own = OutputsOf(order[at]) /\ Own \subseteq Outputs
    BY <1>1, AttemptIsPlanned DEF Executor!OutputsOf, OutputsOf
  <2> HIDE DEF Own
  <2> QED
    BY <2>1, <2>2, ContentsAssumption
<1>5. AttemptInv'
  BY <1>1, <1>4, PlanStays DEF AllInv, AttemptInv
<1> QED
  BY <1>2, <1>3, <1>5 DEF ExecInv

LEMMA FallingBackKeeps ==
  ASSUME AllInv, NEW emitted \in BOOLEAN, NEW retryable \in BOOLEAN,
         Executor!Fallback(emitted, retryable), UNCHANGED plannerVars
  PROVE  ExecInv'
<1> USE DEF Executor!Fallback, Executor!TryNext
<1>1. Attempting /\ Attempting' /\ Working /\ Working' /\ phase' = "guards" /\ phase # "idle"
  BY DEF Attempting, Working
<1>2. ExecutionInv' /\ CallerInv'
  BY <1>1, PlanStays DEF AllInv, ExecutionInv, CallerInv
<1>3. ValuesInv' /\ SentInv'
  BY <1>1, PlanStays DEF AllInv, ValuesInv, SentInv
<1>4. target' \in candidates[order[at]]
  <2>1. /\ Executor!Later \subseteq candidates[order[at]]
        /\ Executor!Later \subseteq Nat /\ Executor!Later # {}
        /\ target' = Executor!First(Executor!Later)
    BY <1>1, AttemptIsPlanned DEF Executor!Later
  <2>2. \E t \in Executor!Later : \A u \in Executor!Later : t <= u
    BY <2>1, LeastElement
  <2>3. Executor!First(Executor!Later) \in Executor!Later
    BY <2>2 DEF Executor!First
  <2> QED
    BY <2>1, <2>3
<1>5. AttemptInv'
  BY <1>1, <1>4, PlanStays DEF AllInv, AttemptInv
<1> QED
  BY <1>2, <1>3, <1>5 DEF ExecInv

LEMMA VerifyingKeeps ==
  ASSUME AllInv, NEW o \in Outputs, Executor!VerifyOutput(o), UNCHANGED plannerVars
  PROVE  ExecInv'
<1> USE DEF Executor!VerifyOutput
<1>1. Attempting /\ Attempting' /\ Working /\ Working' /\ phase # "idle"
  BY DEF Attempting, Working
<1>2. ExecutionInv' /\ CallerInv'
  BY <1>1, PlanStays DEF AllInv, ExecutionInv, CallerInv
<1>3. ValuesInv' /\ SentInv'
  BY <1>1, PlanStays DEF AllInv, ValuesInv, SentInv
<1>4. AttemptInv'
  BY <1>1, PlanStays DEF AllInv, AttemptInv
<1> QED
  BY <1>2, <1>3, <1>4 DEF ExecInv

\* What becomes a value was verified if it must be, and is of a target planned.
LEMMA CommittingKeeps ==
  ASSUME AllInv, Executor!Commit, UNCHANGED plannerVars
  PROVE  ExecInv'
<1> USE DEF Executor!Commit, Executor!CommitAs
<1>1. Attempting /\ Working /\ phase = "verify" /\ ~Attempting' /\ phase # "idle"
      /\ phase' # "idle" /\ phase' # "missing_input" /\ phase' # "verify"
  BY DEF Attempting, Working, Executor!NextPhase
<1>2. /\ at \in 1..Len(order) /\ Len(order) \in Nat /\ order[at] \in Stages
      /\ Executor!Stage = order[at] /\ target \in candidates[order[at]]
      /\ Executor!OutputsOf(order[at]) = OutputsOf(order[at])
      /\ Executor!Unverified = {o \in OutputsOf(order[at]) : graph.rule[o] # NoClass} \ verified
  BY <1>1, AttemptIsPlanned, SealedFacts
  DEF AllInv, Executor!Unverified, Executor!OutputsOf, OutputsOf
<1>3. /\ \A o \in OutputsOf(order[at]) :
           /\ values'[o] = outputs[o] /\ outputs[o] # Missing
           /\ graph.rule[o] # NoClass => outputs[o] \in Approved
           /\ source'[o] = target /\ target \in candidates[Producer[o]]
      /\ \A o \in Outputs \ OutputsOf(order[at]) : values'[o] = values[o] /\ source'[o] = source[o]
      /\ \A i \in Inputs : values'[i] = values[i]
  BY <1>1, <1>2, PlannerAssumption DEF AllInv, AttemptInv, OutputsOf, Values, Executor!Values
<1>4. ExecutionInv' /\ CallerInv'
  BY <1>1, PlanStays DEF AllInv, ExecutionInv, CallerInv
<1>5. ValuesInv'
  <2>1. ASSUME Working'
        PROVE  at' \in 1..Len(order')
    <3>1. at # Len(order)
      BY <1>1, <2>1, PlanIsSealed DEF Working, Executor!NextPhase
    <3> QED
      BY <1>2, <3>1, PlanStays
  <2>2. 1..(at' - 1) = (1..(at - 1)) \cup {at}
    BY <1>2
  <2>3. \A k \in 1..(at' - 1) : \A o \in OutputsOf(order[k]) : values'[o] # Missing
    BY ZenonT(40), <1>1, <1>3, <2>2 DEF AllInv, ValuesInv, OutputsOf
  <2>4. /\ \A i \in Inputs : values'[i] # Missing
        /\ \A o \in Outputs : values'[o] # Missing =>
             /\ source'[o] \in candidates[Producer[o]]
             /\ graph.rule[o] # NoClass => values'[o] \in Approved
    BY ZenonT(40), <1>1, <1>3 DEF AllInv, ValuesInv
  <2> QED
    BY <2>1, <2>3, <2>4, PlanStays DEF ValuesInv
<1>6. AttemptInv'
  BY <1>1 DEF AllInv, AttemptInv
<1>7. SentInv'
  BY <1>3, PlanStays DEF AllInv, SentInv
<1> QED
  BY <1>4, <1>5, <1>6, <1>7 DEF ExecInv

LEMMA ExecutionKeeps ==
  ASSUME AllInv, ExecuteOn
  PROVE  ExecInv'
<1>1. UNCHANGED plannerVars /\ Executor!Continue
  BY DEF ExecuteOn
<1>2. CASE Executor!TakeInputs
  BY <1>1, <1>2, TakingKeeps
<1>3. CASE Executor!MissingInput
  BY <1>3, NothingIsMissing
<1>4. CASE \/ Executor!AdapterNotRegistered \/ Executor!GuardRejects
           \/ Executor!InvalidOutputs \/ Executor!OutputRejected
           \/ \E emitted, retryable \in BOOLEAN : Executor!AdapterFails(emitted, retryable)
  <2>1. /\ phase # "idle" /\ phase' \notin {"idle", "inputs", "guards", "adapter", "verify", "missing_input"}
        /\ UNCHANGED <<plan, caller, values, outputs, verified, source, sent>>
    BY <1>4 DEF Executor!AdapterNotRegistered, Executor!GuardRejects, Executor!InvalidOutputs,
                Executor!OutputRejected, Executor!AdapterFails, Executor!Fail
  <2> QED
    BY <1>1, <2>1, EndingKeeps
<1>5. CASE Executor!GuardPasses \/ Executor!AdapterMutates
  BY <1>1, <1>5, GuardsKeep
<1>6. CASE Executor!CallAdapter
  BY <1>1, <1>6, CallingKeeps
<1>7. CASE phase = "adapter" /\ \E r \in Executor!Results : Executor!AdapterReturns(r)
  BY <1>1, <1>7, ReturningKeeps
<1>8. CASE \E emitted, retryable \in BOOLEAN : Executor!Fallback(emitted, retryable)
  BY <1>1, <1>8, FallingBackKeeps
<1>9. CASE phase = "verify" /\ \E o \in Executor!OutputsOf(Executor!Stage) : Executor!VerifyOutput(o)
  BY <1>1, <1>9, VerifyingKeeps DEF Executor!OutputsOf
<1>10. CASE Executor!Commit
  BY <1>1, <1>10, CommittingKeeps
<1>11. CASE Executor!CallerMutates
  BY <1>1, <1>11, CallersKeep
<1> QED
  BY <1>1, <1>2, <1>3, <1>4, <1>5, <1>6, <1>7, <1>8, <1>9, <1>10, <1>11
  DEF Executor!Continue, Executor!Proceed

LEMMA StutteringKeeps ==
  ASSUME AllInv, UNCHANGED vars
  PROVE  ExecInv'
<1>1. UNCHANGED plannerVars /\ UNCHANGED <<phase, plan, at, target, caller, values, staged, outputs, verified, source, sent>>
  BY DEF vars, execVars
<1>2. ExecutionInv' /\ CallerInv'
  BY <1>1, PlanStays DEF AllInv, ExecutionInv, CallerInv
<1>3. ValuesInv'
  BY <1>1, PlanStays DEF AllInv, ValuesInv, Working, Attempting
<1>4. AttemptInv' /\ SentInv'
  BY <1>1, PlanStays DEF AllInv, AttemptInv, SentInv, Attempting
<1> QED
  BY <1>2, <1>3, <1>4 DEF ExecInv

LEMMA AllInvHolds == SpecAll => []AllInv
<1>1. InitAll /\ IInv => AllInv
  <2> SUFFICES ASSUME InitAll, IInv
               PROVE  AllInv
    OBVIOUS
  <2> USE DEF InitAll, Executor!Init
  <2>1. SealInv
    BY DEF Init, SealInv, Planned, NoLineage, InputLineage
  <2>2. ExecutionInv /\ CallerInv /\ ValuesInv /\ AttemptInv /\ SentInv
    BY DEF ExecutionInv, CallerInv, ValuesInv, AttemptInv, SentInv, Attempting
  <2> QED
    BY <2>1, <2>2 DEF AllInv
<1>2. AllInv /\ IInv' /\ [Next]_vars => AllInv'
  <2> SUFFICES ASSUME AllInv, IInv', [Next]_vars
               PROVE  AllInv'
    OBVIOUS
  <2>1. [PlannerNext]_plannerVars
    BY DEF Next, vars, PlanOn, BeginExecution, ExecuteOn
  <2>2. SealInv'
    BY <2>1, SealingIsSound DEF AllInv
  <2>3. ExecInv'
    BY PlanningKeeps, BeginningKeeps, ExecutionKeeps, StutteringKeeps DEF Next
  <2> QED
    BY <2>2, <2>3 DEF AllInv, ExecInv
<1> QED
  BY <1>1, <1>2, PlannerGoesOn, PTL DEF SpecAll

-------------------------------------------------------------------------------

\* Whatever was sent, to a primary or a fallback, on a first attempt or a later
\* one, crossed no boundary that the plan has no egress proof for.
THEOREM TransfersProved == SpecAll => []EveryTransferIsProved
<1>1. ASSUME AllInv
      PROVE  EveryTransferIsProved
  <2> SUFFICES ASSUME NEW q \in sent, NEW v \in DOMAIN q.data,
                      Whereabouts(v).zone # NoZone, Crosses(Whereabouts(v), q.target)
               PROVE  ProofFor(v, Whereabouts(v), q.stage, q.target) \in proofs
    BY DEF EveryTransferIsProved
  <2>1. /\ q.stage \in Stages /\ q.target \in candidates[q.stage]
        /\ v \in graph.reads[q.stage] /\ v \in Inputs \cup Outputs
        /\ v \in Outputs => source[v] \in candidates[Producer[v]]
    <3>1. planning = "planned"
      BY <1>1 DEF AllInv, ExecutionInv
    <3>2. graph.reads \in [Stages -> SUBSET (Inputs \cup Outputs)]
      BY <1>1, <3>1, SealedFacts DEF AllInv, Values
    <3> QED
      BY <1>1, <3>2 DEF AllInv, SentInv
  <2>2. Whereabouts(v) \in Places(v)
    BY <2>1 DEF Whereabouts, Places
  <2>3. ProofFor(v, Whereabouts(v), q.stage, q.target) \in ProofsInto(q.stage, q.target, v)
    BY <2>2 DEF ProofsInto
  <2>4. ProofFor(v, Whereabouts(v), q.stage, q.target) \in EgressProofs
    BY <2>1, <2>3 DEF EgressProofs
  <2>5. proofs = EgressProofs
    BY <1>1 DEF AllInv, ExecutionInv, SealInv
  <2> QED
    BY <2>4, <2>5
<1> QED
  BY <1>1, AllInvHolds, PTL

\* Under a monotone policy no provider is sent the content of an input its
\* classification keeps from it, through any chain of stages, but for what a
\* verifier has approved.
THEOREM RawDataKept == SpecAll => []RawDataNeverEscapes
<1>1. ASSUME AllInv
      PROVE  RawDataNeverEscapes
  <2> SUFFICES ASSUME Monotone, NEW q \in sent, NEW v \in DOMAIN q.data
               PROVE  /\ \A i \in lineage[v].raw : Admits(graph.class[i], fabric.zone[q.target])
                      /\ lineage[v].declassified => q.data[v] \in Approved
    BY DEF RawDataNeverEscapes
  <2>1. planning = "planned"
    BY <1>1 DEF AllInv, ExecutionInv
  <2>2. /\ q.stage \in Stages /\ q.target \in candidates[q.stage] /\ v \in graph.reads[q.stage]
        /\ v \in Outputs /\ graph.rule[v] # NoClass => q.data[v] \in Approved
    BY <1>1 DEF AllInv, SentInv
  <2>3. v \in Values
    BY <1>1, <2>1, <2>2, SealedFacts DEF AllInv
  <2>4. \A i \in lineage[v].raw : Admits(graph.class[i], fabric.zone[q.target])
    BY <1>1, <2>2, AllowedWherePlaced DEF AllInv
  <2> QED
    BY <1>1, <2>2, <2>3, <2>4 DEF AllInv, SealInv
<1> QED
  BY <1>1, AllInvHolds, PTL

\* The planner's order lets the executor find every input it looks up.
THEOREM InputsFound == SpecAll => []NoMissingInput
<1>1. AllInv => NoMissingInput
  BY DEF AllInv, ExecutionInv, NoMissingInput
<1> QED
  BY <1>1, AllInvHolds, PTL
=================================================================================
