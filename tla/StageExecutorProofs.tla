-------------------------- MODULE StageExecutorProofs --------------------------
(***************************************************************************)
(* Proofs about the executor, for any plans that name no stage twice, any  *)
(* number of guards, targets and contents: what is sent was inspected and  *)
(* is the same everywhere, a stage has one emitter, and its outputs become *)
(* values together and verified.  Then about the retrieval that feeds such *)
(* plans, for any requests, limits and answers: the chain that accounts    *)
(* for what it shows, and the PageIndex adapter with its budgets, timers   *)
(* and whole pages.                                                        *)
(***************************************************************************)
EXTENDS StageExecutor, Retrieval, FiniteSetTheorems, SequenceTheorems, WellFoundedInduction, TLAPS

\* A plan names no stage twice.  (So does the planner's: OrderIsTopological.)
NoStageTwice ==
  \A p \in Plans : \A j, k \in 1..Len(p.order) : p.order[j] = p.order[k] => j = k

Done(s) == \E k \in 1..(at - 1) : plan.order[k] = s

Attempting == phase \in {"guards", "adapter", "verify"}

PlanInv ==
  /\ \A j, k \in 1..Len(plan.order) : plan.order[j] = plan.order[k] => j = k
  /\ phase \in {"idle", "rejected"} =>
       /\ plan = NoPlan /\ at = 1 /\ sent = {} /\ verified = {}
       /\ \A s \in Stages : emitters[s] = {}

\* An output has a value exactly when its stage is behind.
ValuesInv ==
  \A o \in Outputs : values[o] # Missing <=> Done(Producer[o])

\* What an attempt was given, and how far its guards and verifiers are.
AttemptInv ==
  /\ Attempting => \A v \in Reads : staged[v] = values[v]
  /\ phase = "guards" =>
       \A g \in 1..passed : [guard |-> g, request |-> CurrentRequest] \in inspected
  /\ phase = "verify" =>
       /\ \A o \in OutputsOf(Stage) : outputs[o] \in Contents
       /\ \A o \in verified : outputs[o] \in Approved
       /\ target \in emitters[Stage]

SentInv ==
  \A q \in sent : \A v \in DOMAIN q.data : v \in Values /\ q.data[v] = values[v]

\* Only a stage that is behind, or the one under way, has an emitter.
EmitterInv ==
  /\ \A s \in Stages : emitters[s] = {} \/ \E t \in Targets : emitters[s] = {t}
  /\ phase \in {"inputs", "guards", "adapter"} => emitters[Stage] = {}
  /\ \A s \in Stages :
       emitters[s] # {} => \/ Done(s)
                           \/ at \in 1..Len(plan.order) /\ s = Stage

IInv ==
  /\ TypeOK /\ PlanInv /\ ValuesInv /\ AttemptInv /\ SentInv /\ EmitterInv
  /\ SentOnlyWhatGuardsSaw /\ DeclassifiedIsVerified

-------------------------------------------------------------------------------

LEMMA InitStep == Init => IInv
<1> SUFFICES ASSUME Init PROVE IInv
  OBVIOUS
<1> USE DEF Init, NoPlan
<1>1. TypeOK
  <2>1. phase \in {"idle", "completed"} \cup Running \cup Failures
    BY DEF Running, Failures
  <2>2. phase \notin Running
    BY DEF Running
  <2>3. caller \in [Inputs -> Contents \cup {Missing}]
    OBVIOUS
  <2>4. passed \in 0..GuardCount
    BY ExecutorAssumption
  <2>5. QED
    BY <2>1, <2>2, <2>3, <2>4 DEF TypeOK
<1>2. Len(plan.order) = 0 /\ 1..Len(plan.order) = {} /\ 1..(at - 1) = {}
  OBVIOUS
<1>3. PlanInv /\ ValuesInv /\ AttemptInv /\ SentInv
  BY <1>2 DEF PlanInv, ValuesInv, AttemptInv, SentInv, Done, Attempting, Values
<1>4. EmitterInv /\ SentOnlyWhatGuardsSaw /\ DeclassifiedIsVerified
  BY DEF EmitterInv, SentOnlyWhatGuardsSaw, DeclassifiedIsVerified
<1>5. QED
  BY <1>1, <1>3, <1>4 DEF IInv

\* Nothing but the phase changes, or the current stage gets its emitter, and
\* the execution has failed.
LEMMA FailStep ==
  ASSUME IInv, NEW from \in Running, NEW code \in Failures \ {"rejected"}, Fail(from, code),
         \/ UNCHANGED emitters
         \/ from = "adapter" /\ emitters' = Emitted
  PROVE  IInv'
<1> USE DEF Fail
<1>1. /\ phase' \notin Running /\ ~Attempting' /\ phase' \notin {"idle", "rejected"}
      /\ phase' \notin {"inputs", "guards", "adapter", "verify"}
      /\ phase \notin {"idle", "rejected"} /\ phase \in Running
  BY DEF Running, Failures, Attempting
<1>2. plan \in Plan /\ at \in 1..Len(plan.order) /\ Stage \in Stages
      /\ (from = "adapter" => target \in Targets /\ emitters[Stage] = {})
  BY <1>1, ExecutorAssumption DEF IInv, TypeOK, Plan, Stage, EmitterInv
<1>3. emitters' \in [Stages -> SUBSET Targets]
  BY <1>2 DEF IInv, TypeOK, Emitted
<1>4. \A s \in Stages : s # Stage => emitters'[s] = emitters[s]
  BY <1>2 DEF IInv, TypeOK, Emitted
<1>5. emitters[Stage] \subseteq emitters'[Stage]
      /\ \/ emitters'[Stage] = emitters[Stage]
         \/ emitters'[Stage] = {target} /\ target \in Targets
  BY <1>2 DEF IInv, TypeOK, Emitted
<1>6. TypeOK'
  <2>1. phase' \in {"idle", "completed"} \cup Running \cup Failures
    OBVIOUS
  <2>2. plan' \in Plan /\ at' \in 1..(Len(plan'.order) + 1)
    BY <1>1 DEF IInv, TypeOK
  <2>3. QED
    BY <1>1, <1>3, <2>1, <2>2 DEF IInv, TypeOK
<1>7. PlanInv' /\ ValuesInv' /\ AttemptInv' /\ SentInv' /\ SentOnlyWhatGuardsSaw'
  <2>1. PlanInv'
    BY <1>1 DEF IInv, PlanInv
  <2>2. ValuesInv'
    BY DEF IInv, ValuesInv, Done
  <2>3. AttemptInv'
    BY <1>1 DEF AttemptInv
  <2>4. SentInv' /\ SentOnlyWhatGuardsSaw'
    BY DEF IInv, SentInv, SentOnlyWhatGuardsSaw
  <2>5. QED
    BY <2>1, <2>2, <2>3, <2>4
<1>8. EmitterInv'
  BY <1>1, <1>2, <1>4, <1>5 DEF IInv, EmitterInv, Done, Stage
<1>9. DeclassifiedIsVerified'
  <2>1. \A s \in Stages : emitters[s] \subseteq emitters'[s]
    BY <1>4, <1>5
  <2>2. \A o \in plan.declassified : Producer[o] \in Stages
    BY <1>2, ExecutorAssumption DEF Plan
  <2>3. QED
    BY <2>1, <2>2 DEF IInv, DeclassifiedIsVerified
<1>10. QED
  BY <1>6, <1>7, <1>8, <1>9 DEF IInv

LEMMA BeginStep ==
  ASSUME NoStageTwice, IInv, NEW p \in Plans, Begin(p)
  PROVE  IInv'
<1> USE DEF Begin
<1>1. plan = NoPlan /\ at = 1 /\ at' = 1 /\ p \in Plan /\ plan' = p /\ phase' = "inputs"
  BY ExecutorAssumption DEF IInv, PlanInv
<1>2. \A s : ~Done(s) /\ ~Done(s)'
  BY <1>1 DEF Done
<1>3. values' \in [Values -> Contents \cup {Missing}]
  BY DEF IInv, TypeOK, Values
<1>4. 1 \in 1..Len(p.order) /\ 1 \in 1..(Len(p.order) + 1) /\ 1 <= Len(p.order)
  <2>1. p.order \in Seq(Stages) /\ p.order # <<>>
    BY <1>1 DEF Plan
  <2>2. QED
    BY <2>1
<1>5. phase' \in Running /\ phase' \notin {"idle", "rejected"} /\ ~Attempting'
  BY <1>1 DEF Running, Attempting
<1>6. verified = {} /\ sent = {} /\ \A s \in Stages : emitters[s] = {}
  BY <1>1, <1>2 DEF IInv, PlanInv
<1>7. TypeOK'
  BY <1>1, <1>3, <1>4, <1>5, <1>6 DEF IInv, TypeOK, Attempting
<1>8. PlanInv'
  BY <1>1, <1>5 DEF NoStageTwice, PlanInv
<1>9. ValuesInv'
  <2>1. \A o \in Outputs : values'[o] = Missing
    BY ExecutorAssumption DEF Values
  <2>2. QED
    BY <1>2, <2>1 DEF ValuesInv
<1>10. AttemptInv'
  BY <1>5 DEF AttemptInv, Attempting
<1>11. SentInv' /\ SentOnlyWhatGuardsSaw'
  BY <1>6 DEF SentInv, SentOnlyWhatGuardsSaw
<1>12. EmitterInv'
  BY <1>1, <1>4, <1>6, ExecutorAssumption DEF EmitterInv, Stage, Plan
<1>13. DeclassifiedIsVerified'
  <2>1. \A o \in p.declassified : o \in Values /\ o \notin Inputs
    BY <1>1, ExecutorAssumption DEF Plan, Values
  <2>2. \A o \in p.declassified : values'[o] = Missing
    BY <2>1
  <2>3. QED
    BY <1>1, <2>2 DEF DeclassifiedIsVerified
<1>14. QED
  BY <1>7, <1>8, <1>9, <1>10, <1>11, <1>12, <1>13 DEF IInv

\* A set of targets has a first one.
LEMMA FirstIsOne ==
  ASSUME NEW T \in SUBSET Nat, T # {}
  PROVE  First(T) \in T
<1> DEFINE R == OpToRel(<, Nat)
<1>1. \A x, y \in Nat : x < y => <<x, y>> \in R
  BY DEF OpToRel
<1>2. IsWellFoundedOn(R, Nat)
  BY NatLessThanWellFounded
<1>h. HIDE DEF R
<1>3. \E x \in T : \A y \in T : ~ (<<y, x>> \in R)
  BY <1>2, WFMin
<1>4. PICK x \in T : \A y \in T : ~ (<<y, x>> \in R)
  BY <1>3
<1>5. \A y \in T : x <= y
  <2> TAKE y \in T
  <2>1. x \in Nat /\ y \in Nat
    OBVIOUS
  <2>2. ~ (y < x)
    BY <1>1, <1>4, <2>1
  <2>3. QED
    BY <2>1, <2>2
<1>6. QED
  BY <1>5 DEF First

\* What is known while the execution runs.
LEMMA Here ==
  ASSUME IInv, phase \in Running
  PROVE  /\ plan \in Plan /\ at \in 1..Len(plan.order) /\ Len(plan.order) \in Nat
         /\ Stage \in Stages /\ Reads \in SUBSET Values
         /\ plan.candidates[Stage] \in SUBSET Targets
         /\ plan.candidates[Stage] # {} /\ plan.declassified \in SUBSET Outputs
         /\ phase \notin {"idle", "rejected"}
<1>1. phase \notin {"idle", "rejected"}
  BY DEF Running
<1>2. plan \in Plan /\ at \in 1..(Len(plan.order) + 1) /\ at <= Len(plan.order)
  BY <1>1 DEF IInv, TypeOK
<1>3. plan.order \in Seq(Stages) /\ at \in 1..Len(plan.order) /\ Len(plan.order) \in Nat
  BY <1>2 DEF Plan
<1>4. Stage \in Stages
  BY <1>3 DEF Stage
<1>5. Reads \in SUBSET Values
  BY <1>2, <1>4 DEF Plan, Reads
<1>6. plan.candidates[Stage] \in SUBSET Targets /\ plan.candidates[Stage] # {}
  BY <1>2, <1>4 DEF Plan
<1>7. plan.declassified \in SUBSET Outputs
  BY <1>2 DEF Plan
<1>8. QED
  BY <1>1, <1>2, <1>3, <1>4, <1>5, <1>6, <1>7

\* Targets are numbers, so the placements of a stage have a first.
LEMMA FirstPlacement ==
  ASSUME NEW T \in SUBSET Targets, T # {}
  PROVE  First(T) \in T
  BY FirstIsOne, ExecutorAssumption

LEMMA RejectStep ==
  ASSUME IInv, Reject
  PROVE  IInv'
<1> USE DEF Reject, Fail
<1>1. phase = "idle" /\ phase' = "rejected"
      /\ phase' \notin Running /\ ~Attempting' /\ phase' \in Failures
  BY DEF Running, Failures, Attempting
<1>2. TypeOK'
  BY <1>1 DEF IInv, TypeOK
<1>3. PlanInv' /\ ValuesInv'
  BY <1>1 DEF IInv, PlanInv, ValuesInv, Done
<1>4. AttemptInv'
  BY <1>1 DEF AttemptInv
<1>5. SentInv' /\ SentOnlyWhatGuardsSaw' /\ DeclassifiedIsVerified'
  BY DEF IInv, SentInv, SentOnlyWhatGuardsSaw, DeclassifiedIsVerified
<1>6. EmitterInv'
  BY <1>1 DEF IInv, PlanInv, EmitterInv, Done
<1>7. QED
  BY <1>2, <1>3, <1>4, <1>5, <1>6 DEF IInv

LEMMA TakeInputsStep ==
  ASSUME IInv, TakeInputs
  PROVE  IInv'
<1> USE DEF TakeInputs
<1>1. phase \in Running /\ phase' \in Running /\ phase' = "guards"
      /\ phase' \notin {"idle", "rejected"}
  BY DEF Running
<1>2. /\ plan \in Plan /\ at \in 1..Len(plan.order) /\ Stage \in Stages
      /\ Reads \in SUBSET Values /\ plan.candidates[Stage] \in SUBSET Targets
      /\ plan.candidates[Stage] # {} /\ phase \notin {"idle", "rejected"}
  BY <1>1, Here
<1>3. target' \in plan.candidates[Stage]
  BY <1>2, FirstPlacement
<1>4. staged' \in [Reads -> Contents]
  BY <1>2 DEF IInv, TypeOK
<1>5. Stage' = Stage /\ Reads' = Reads /\ passed' \in 0..GuardCount
  BY ExecutorAssumption DEF Stage, Reads
<1>6. TypeOK'
  BY <1>1, <1>2, <1>3, <1>4, <1>5 DEF IInv, TypeOK
<1>7. PlanInv' /\ ValuesInv'
  BY <1>1, <1>2 DEF IInv, PlanInv, ValuesInv, Done
<1>8. AttemptInv'
  BY <1>1, <1>5 DEF AttemptInv
<1>9. SentInv' /\ SentOnlyWhatGuardsSaw' /\ DeclassifiedIsVerified'
  BY DEF IInv, SentInv, SentOnlyWhatGuardsSaw, DeclassifiedIsVerified
<1>10. EmitterInv'
  BY <1>1, <1>5 DEF IInv, EmitterInv, Done
<1>11. QED
  BY <1>6, <1>7, <1>8, <1>9, <1>10 DEF IInv

LEMMA GuardPassesStep ==
  ASSUME IInv, GuardPasses
  PROVE  IInv'
<1> USE DEF GuardPasses
<1>1. phase \in Running /\ phase = "guards" /\ phase' = phase
  BY DEF Running
<1>2. /\ plan \in Plan /\ at \in 1..Len(plan.order) /\ Stage \in Stages
      /\ Reads \in SUBSET Values /\ phase \notin {"idle", "rejected"}
      /\ plan.candidates[Stage] \in SUBSET Targets
  BY <1>1, Here
<1>3. Stage' = Stage /\ Reads' = Reads /\ CurrentRequest' = CurrentRequest
  BY DEF Stage, Reads, CurrentRequest
<1>4. passed \in Nat /\ passed' \in 0..GuardCount /\ passed + 1 \in 1..GuardCount
  BY ExecutorAssumption DEF IInv, TypeOK
<1>5. CurrentRequest \in Request
  BY <1>1, <1>2 DEF IInv, TypeOK, CurrentRequest, Request
<1>6. inspected' \subseteq Inspection /\ inspected \subseteq inspected'
  BY <1>4, <1>5 DEF IInv, TypeOK, Inspection
<1>7. TypeOK'
  BY <1>1, <1>3, <1>4, <1>6 DEF IInv, TypeOK
<1>8. PlanInv' /\ ValuesInv'
  BY <1>1 DEF IInv, PlanInv, ValuesInv, Done
<1>9. AttemptInv'
  <2>1. \A g \in 1..passed' : [guard |-> g, request |-> CurrentRequest] \in inspected'
    <3> TAKE g \in 1..passed'
    <3>1. g \in 1..passed \/ g = passed + 1
      BY <1>4
    <3>2. QED
      BY <1>1, <3>1 DEF IInv, AttemptInv
  <2>2. \A v \in Reads : staged[v] = values[v]
    BY <1>1 DEF IInv, AttemptInv, Attempting
  <2>3. QED
    BY <1>1, <1>3, <2>1, <2>2 DEF AttemptInv
<1>10. SentInv' /\ SentOnlyWhatGuardsSaw' /\ DeclassifiedIsVerified'
  BY <1>6 DEF IInv, SentInv, SentOnlyWhatGuardsSaw, DeclassifiedIsVerified
<1>11. EmitterInv'
  BY <1>1, <1>3 DEF IInv, EmitterInv, Done
<1>12. QED
  BY <1>7, <1>8, <1>9, <1>10, <1>11 DEF IInv

LEMMA CallAdapterStep ==
  ASSUME IInv, CallAdapter
  PROVE  IInv'
<1> USE DEF CallAdapter
<1>1. phase \in Running /\ phase = "guards" /\ phase' = "adapter" /\ phase' \in Running
      /\ phase' \notin {"idle", "rejected"}
  BY DEF Running
<1>2. /\ plan \in Plan /\ at \in 1..Len(plan.order) /\ Stage \in Stages
      /\ Reads \in SUBSET Values /\ phase \notin {"idle", "rejected"}
      /\ plan.candidates[Stage] \in SUBSET Targets
  BY <1>1, Here
<1>3. Stage' = Stage /\ Reads' = Reads
  BY DEF Stage, Reads
<1>4. staged \in [Reads -> Contents] /\ target \in Targets
  BY <1>1, <1>2 DEF IInv, TypeOK
<1>5. CurrentRequest \in Request
  BY <1>2, <1>4 DEF CurrentRequest, Request
<1>6. TypeOK'
  BY <1>1, <1>3, <1>5 DEF IInv, TypeOK
<1>7. PlanInv' /\ ValuesInv'
  BY <1>1, <1>2 DEF IInv, PlanInv, ValuesInv, Done
<1>8. \A v \in Reads : staged[v] = values[v]
  BY <1>1 DEF IInv, AttemptInv, Attempting
<1>9. AttemptInv'
  BY <1>1, <1>3, <1>8 DEF AttemptInv
<1>10. SentInv'
  BY <1>2, <1>4, <1>8 DEF IInv, SentInv, CurrentRequest
<1>11. SentOnlyWhatGuardsSaw'
  BY <1>1 DEF IInv, AttemptInv, SentOnlyWhatGuardsSaw
<1>12. DeclassifiedIsVerified' /\ EmitterInv'
  BY <1>1, <1>3 DEF IInv, DeclassifiedIsVerified, EmitterInv, Done
<1>13. QED
  BY <1>6, <1>7, <1>9, <1>10, <1>11, <1>12 DEF IInv

LEMMA VerifyOutputStep ==
  ASSUME IInv, NEW o \in OutputsOf(Stage), VerifyOutput(o)
  PROVE  IInv'
<1> USE DEF VerifyOutput
<1>1. phase \in Running /\ phase = "verify" /\ phase' = phase
  BY DEF Running
<1>2. Stage' = Stage /\ Reads' = Reads /\ phase \notin {"idle", "rejected"}
      /\ OutputsOf(Stage)' = OutputsOf(Stage)
  BY <1>1 DEF Stage, Reads, OutputsOf
<1>3. TypeOK'
  BY <1>1, <1>2 DEF IInv, TypeOK, Unverified
<1>4. PlanInv' /\ ValuesInv'
  BY <1>1, <1>2 DEF IInv, PlanInv, ValuesInv, Done
<1>5. AttemptInv'
  BY <1>1, <1>2 DEF IInv, AttemptInv, Attempting
<1>6. SentInv' /\ SentOnlyWhatGuardsSaw' /\ DeclassifiedIsVerified'
  BY DEF IInv, SentInv, SentOnlyWhatGuardsSaw, DeclassifiedIsVerified
<1>7. EmitterInv'
  BY <1>1, <1>2 DEF IInv, EmitterInv, Done
<1>8. QED
  BY <1>3, <1>4, <1>5, <1>6, <1>7 DEF IInv

\* The owner of an object changes it: nothing the executor works from does.
LEMMA MutateStep ==
  ASSUME IInv, CallerMutates \/ AdapterMutates
  PROVE  IInv'
<1>1. /\ phase \in Running /\ phase' = phase
      /\ UNCHANGED <<phase, plan, at, target, passed, values, staged, outputs,
                     verified, source, inspected, sent, emitters>>
  BY DEF CallerMutates, AdapterMutates, Running
<1>2. Stage' = Stage /\ Reads' = Reads /\ CurrentRequest' = CurrentRequest
      /\ OutputsOf(Stage)' = OutputsOf(Stage)
  BY <1>1 DEF Stage, Reads, CurrentRequest, OutputsOf
<1>3. caller' \in [Inputs -> Contents \cup {Missing}]
  BY DEF IInv, TypeOK, CallerMutates, AdapterMutates
<1>4. result' \in [Outputs -> Contents \cup {Missing}]
  BY DEF IInv, TypeOK, CallerMutates, AdapterMutates
<1>5. TypeOK'
  BY <1>1, <1>2, <1>3, <1>4 DEF IInv, TypeOK
<1>6. PlanInv' /\ ValuesInv' /\ AttemptInv'
  BY <1>1, <1>2 DEF IInv, PlanInv, ValuesInv, AttemptInv, Done, Attempting
<1>7. SentInv' /\ SentOnlyWhatGuardsSaw' /\ DeclassifiedIsVerified' /\ EmitterInv'
  BY <1>1, <1>2
     DEF IInv, SentInv, SentOnlyWhatGuardsSaw, DeclassifiedIsVerified, EmitterInv, Done
<1>8. QED
  BY <1>5, <1>6, <1>7 DEF IInv

LEMMA AdapterReturnsStep ==
  ASSUME IInv, phase = "adapter", NEW r \in Results, AdapterReturns(r)
  PROVE  IInv'
<1> USE DEF AdapterReturns
<1>1. phase \in Running /\ phase' = "verify" /\ phase' \in Running
      /\ phase' \notin {"idle", "rejected"}
  BY DEF Running
<1>2. /\ plan \in Plan /\ at \in 1..Len(plan.order) /\ Stage \in Stages
      /\ phase \notin {"idle", "rejected"}
      /\ plan.candidates[Stage] \in SUBSET Targets
  BY <1>1, Here
<1>3. Stage' = Stage /\ Reads' = Reads /\ OutputsOf(Stage)' = OutputsOf(Stage)
  BY DEF Stage, Reads, OutputsOf
<1>4. r \in [Outputs -> Contents \cup {Missing}]
      /\ \A o \in OutputsOf(Stage) : r[o] \in Contents
  <2>1. PICK f \in [OutputsOf(Stage) -> Contents] :
          r = [o \in Outputs |-> IF o \in OutputsOf(Stage) THEN f[o] ELSE Missing]
    BY DEF Results
  <2>2. OutputsOf(Stage) \subseteq Outputs
    BY DEF OutputsOf
  <2>3. QED
    BY <2>1, <2>2
<1>5. target \in Targets /\ emitters[Stage] = {}
  BY <1>2 DEF IInv, TypeOK, EmitterInv
<1>6. emitters' = [emitters EXCEPT ![Stage] = {target}]
  BY <1>2, <1>5 DEF IInv, TypeOK, Emitted
<1>7. /\ emitters' \in [Stages -> SUBSET Targets] /\ emitters'[Stage] = {target}
      /\ \A s \in Stages : s # Stage => emitters'[s] = emitters[s]
  BY <1>2, <1>5, <1>6 DEF IInv, TypeOK
<1>8. TypeOK'
  BY <1>1, <1>3, <1>4, <1>7 DEF IInv, TypeOK
<1>9. PlanInv' /\ ValuesInv'
  BY <1>1, <1>2 DEF IInv, PlanInv, ValuesInv, Done
<1>10. AttemptInv'
  <2>1. \A v \in Reads : staged[v] = values[v]
    BY DEF IInv, AttemptInv, Attempting
  <2>2. QED
    BY <1>1, <1>3, <1>4, <1>7, <2>1 DEF AttemptInv
<1>11. SentInv' /\ SentOnlyWhatGuardsSaw'
  BY DEF IInv, SentInv, SentOnlyWhatGuardsSaw
<1>12. DeclassifiedIsVerified'
  <2>1. \A s \in Stages : emitters[s] \subseteq emitters'[s]
    BY <1>5, <1>7
  <2>2. \A o \in plan.declassified : Producer[o] \in Stages
    BY <1>2, ExecutorAssumption DEF Plan
  <2>3. QED
    BY <2>1, <2>2 DEF IInv, DeclassifiedIsVerified
<1>13. EmitterInv'
  BY <1>1, <1>2, <1>3, <1>5, <1>7 DEF IInv, EmitterInv, Done
<1>14. QED
  BY <1>8, <1>9, <1>10, <1>11, <1>12, <1>13 DEF IInv

\* A fallback follows an attempt that emitted nothing: the next placement is
\* attempted with the same inputs, and no guard has passed it.
LEMMA FallbackStep ==
  ASSUME IInv, NEW emitted \in BOOLEAN, NEW retryable \in BOOLEAN,
         Fallback(emitted, retryable)
  PROVE  IInv'
<1> USE DEF Fallback, TryNext
<1>1. phase \in Running /\ phase = "adapter" /\ phase' = "guards" /\ phase' \in Running
      /\ phase' \notin {"idle", "rejected"}
  BY DEF Running
<1>2. /\ plan \in Plan /\ at \in 1..Len(plan.order) /\ Stage \in Stages
      /\ Reads \in SUBSET Values /\ plan.candidates[Stage] \in SUBSET Targets
      /\ phase \notin {"idle", "rejected"}
  BY <1>1, Here
<1>3. emitters' = emitters
  BY DEF CanFallback
<1>4. Later \in SUBSET Targets /\ Later \subseteq plan.candidates[Stage] /\ Later # {}
  BY <1>2 DEF Later
<1>5. target' \in plan.candidates[Stage]
  BY <1>4, FirstPlacement
<1>6. Stage' = Stage /\ Reads' = Reads /\ passed' = 0 /\ passed' \in 0..GuardCount
  BY ExecutorAssumption DEF Stage, Reads
<1>7. TypeOK'
  BY <1>1, <1>2, <1>3, <1>5, <1>6 DEF IInv, TypeOK
<1>8. PlanInv' /\ ValuesInv'
  BY <1>1, <1>2 DEF IInv, PlanInv, ValuesInv, Done
<1>9. AttemptInv'
  <2>1. \A v \in Reads : staged[v] = values[v]
    BY <1>1 DEF IInv, AttemptInv, Attempting
  <2>2. QED
    BY <1>1, <1>6, <2>1 DEF AttemptInv
<1>10. SentInv' /\ SentOnlyWhatGuardsSaw' /\ DeclassifiedIsVerified'
  BY <1>3 DEF IInv, SentInv, SentOnlyWhatGuardsSaw, DeclassifiedIsVerified
<1>11. EmitterInv'
  BY <1>1, <1>3, <1>6 DEF IInv, EmitterInv, Done
<1>12. QED
  BY <1>7, <1>8, <1>9, <1>10, <1>11 DEF IInv

\* The stage is now behind, and no stage is behind twice: no value an attempt
\* has used changes, and the next stage has no emitter.
LEMMA CommitStep ==
  ASSUME IInv, Commit
  PROVE  IInv'
<1> USE DEF Commit, CommitAs
<1>1. phase \in Running /\ phase = "verify" /\ ~Attempting'
      /\ (phase' = "completed" \/ (phase' = "inputs" /\ at # Len(plan.order)))
      /\ phase' \notin {"idle", "rejected", "guards", "adapter", "verify"}
  BY DEF Running, NextPhase, Attempting
<1>2. /\ plan \in Plan /\ at \in 1..Len(plan.order) /\ Len(plan.order) \in Nat
      /\ Stage \in Stages /\ plan.candidates[Stage] \in SUBSET Targets
      /\ plan.declassified \in SUBSET Outputs /\ phase \notin {"idle", "rejected"}
  BY <1>1, Here
<1>3. at' = at + 1 /\ plan' = plan /\ at' \in 1..(Len(plan.order) + 1)
      /\ (phase' = "inputs" => at' \in 1..Len(plan.order))
  BY <1>1, <1>2
<1>4. /\ target \in Targets /\ target \in emitters[Stage]
      /\ \A o \in OutputsOf(Stage) : outputs[o] \in Contents
      /\ \A o \in verified : outputs[o] \in Approved
  BY <1>1, <1>2 DEF IInv, TypeOK, AttemptInv
<1>5. \A s : Done(s)' <=> Done(s) \/ s = Stage
  <2> TAKE s
  <2>1. 1..(at' - 1) = 1..(at - 1) \cup {at}
    BY <1>2, <1>3
  <2>2. Done(s)' <=> \E k \in 1..(at' - 1) : plan.order[k] = s
    BY <1>3 DEF Done
  <2>3. QED
    BY <2>1, <2>2 DEF Done, Stage
<1>6. ~Done(Stage)
  <2> SUFFICES ASSUME NEW k \in 1..(at - 1), plan.order[k] = plan.order[at]
               PROVE  FALSE
    BY DEF Done, Stage
  <2>1. k \in 1..Len(plan.order) /\ k # at
    BY <1>2
  <2>2. QED
    BY <1>2, <2>1 DEF IInv, PlanInv
<1>7. values' \in [Values -> Contents \cup {Missing}]
  BY <1>4 DEF IInv, TypeOK
<1>8. source' \in [Outputs -> Targets \cup {NoTarget}]
  BY <1>4 DEF IInv, TypeOK
<1>9. TypeOK'
  <2>1. phase' \in {"idle", "completed"} \cup Running \cup Failures
    BY <1>1 DEF Running
  <2>2. phase' \in Running => at' <= Len(plan.order)
    BY <1>1, <1>2, <1>3 DEF Running
  <2>3. QED
    BY <1>1, <1>2, <1>3, <1>7, <1>8, <2>1, <2>2 DEF IInv, TypeOK
<1>10. PlanInv'
  BY <1>1, <1>3 DEF IInv, PlanInv
<1>11. \A o \in Outputs :
         values'[o] = IF o \in OutputsOf(Stage) THEN outputs[o] ELSE values[o]
  BY DEF Values
<1>12. ValuesInv'
  <2>1. ASSUME NEW o \in Outputs
        PROVE  values'[o] # Missing <=> Done(Producer[o])'
    <3>1. CASE o \in OutputsOf(Stage)
      <4>1. values'[o] # Missing
        BY <1>4, <1>11, <3>1, ExecutorAssumption
      <4>2. QED
        BY <1>5, <3>1, <4>1 DEF OutputsOf
    <3>2. CASE o \notin OutputsOf(Stage)
      BY <1>5, <1>11, <3>2 DEF IInv, ValuesInv, OutputsOf
    <3>3. QED
      BY <3>1, <3>2
  <2>2. QED
    BY <2>1 DEF ValuesInv
<1>13. AttemptInv'
  BY <1>1 DEF AttemptInv
<1>14. SentInv'
  <2>1. ASSUME NEW q \in sent, NEW v \in DOMAIN q.data
        PROVE  v \in Values /\ q.data[v] = values'[v]
    <3>1. q \in Request /\ v \in Values /\ q.data[v] = values[v]
      BY DEF IInv, TypeOK, SentInv
    <3>2. q.data[v] \in Contents
      <4>1. q.data \in UNION {[V -> Contents] : V \in SUBSET Values}
        BY <3>1 DEF Request
      <4>2. PICK V \in SUBSET Values : q.data \in [V -> Contents]
        BY <4>1
      <4>3. QED
        BY <4>2
    <3>3. v \notin OutputsOf(Stage)
      BY <1>6, <3>1, <3>2, ExecutorAssumption DEF IInv, ValuesInv, OutputsOf
    <3>4. QED
      BY <3>1, <3>3
  <2>2. QED
    BY <2>1 DEF SentInv
<1>15. SentOnlyWhatGuardsSaw'
  BY DEF IInv, SentOnlyWhatGuardsSaw
<1>16. DeclassifiedIsVerified'
  <2>1. ASSUME NEW o \in plan.declassified, values'[o] # Missing
        PROVE  values'[o] \in Approved /\ source'[o] \in emitters[Producer[o]]
    <3>1. o \in Outputs
      BY <1>2
    <3>2. CASE o \in OutputsOf(Stage)
      <4>1. o \in verified
        BY <3>2 DEF Unverified
      <4>2. QED
        BY <1>4, <1>11, <3>1, <3>2, <4>1 DEF OutputsOf
    <3>3. CASE o \notin OutputsOf(Stage)
      BY <1>11, <2>1, <3>1, <3>3 DEF IInv, DeclassifiedIsVerified
    <3>4. QED
      BY <3>2, <3>3
  <2>2. QED
    BY <2>1 DEF DeclassifiedIsVerified
<1>17. EmitterInv'
  <2>1. phase' = "inputs" => emitters[Stage'] = {}
    <3> SUFFICES ASSUME phase' = "inputs", emitters[Stage'] # {} PROVE FALSE
      OBVIOUS
    <3>1. Stage' = plan.order[at + 1] /\ at + 1 \in 1..Len(plan.order)
      BY <1>3 DEF Stage
    <3>2. Stage' \in Stages
      BY <1>2, <3>1 DEF Plan
    <3>3. Done(Stage') \/ Stage' = Stage
      BY <3>2 DEF IInv, EmitterInv
    <3>4. PICK k \in 1..at : plan.order[k] = Stage'
      BY <1>2, <3>3 DEF Done, Stage
    <3>5. k \in 1..Len(plan.order) /\ k # at + 1
      BY <1>2
    <3>6. QED
      BY <3>1, <3>4, <3>5 DEF IInv, PlanInv
  <2>2. \A s \in Stages : emitters[s] # {} => Done(s)'
    BY <1>5 DEF IInv, EmitterInv
  <2>3. \A s \in Stages : emitters[s] = {} \/ \E t \in Targets : emitters[s] = {t}
    BY DEF IInv, EmitterInv
  <2>4. QED
    BY <1>1, <2>1, <2>2, <2>3 DEF EmitterInv
<1>18. QED
  BY <1>9, <1>10, <1>12, <1>13, <1>14, <1>15, <1>16, <1>17 DEF IInv

LEMMA StutterStep ==
  ASSUME IInv, UNCHANGED execVars
  PROVE  IInv'
<1> USE DEF execVars
<1>1. Stage' = Stage /\ Reads' = Reads /\ CurrentRequest' = CurrentRequest
      /\ OutputsOf(Stage)' = OutputsOf(Stage)
  BY DEF Stage, Reads, CurrentRequest, OutputsOf
<1>2. TypeOK'
  BY <1>1 DEF IInv, TypeOK
<1>3. PlanInv' /\ ValuesInv' /\ AttemptInv'
  BY <1>1 DEF IInv, PlanInv, ValuesInv, AttemptInv, Done, Attempting
<1>4. SentInv' /\ SentOnlyWhatGuardsSaw' /\ DeclassifiedIsVerified' /\ EmitterInv'
  BY <1>1
     DEF IInv, SentInv, SentOnlyWhatGuardsSaw, DeclassifiedIsVerified, EmitterInv, Done
<1>5. QED
  BY <1>2, <1>3, <1>4 DEF IInv

LEMMA Invariance ==
  ASSUME NoStageTwice PROVE Spec => []IInv
<1>1. IInv /\ [Next]_execVars => IInv'
  <2> SUFFICES ASSUME IInv, [Next]_execVars PROVE IInv'
    OBVIOUS
  <2>1. CASE \E p \in Plans : Begin(p)
    BY <2>1, BeginStep
  <2>2. CASE Reject
    BY <2>2, RejectStep
  <2>3. CASE Proceed
    <3>1. CASE TakeInputs
      BY <3>1, TakeInputsStep
    <3>2. CASE MissingInput
      BY <3>2, FailStep DEF MissingInput, Running, Failures
    <3>3. CASE AdapterNotRegistered
      BY <3>3, FailStep DEF AdapterNotRegistered, Running, Failures
    <3>4. CASE GuardPasses
      BY <3>4, GuardPassesStep
    <3>5. CASE GuardRejects
      BY <3>5, FailStep DEF GuardRejects, Running, Failures
    <3>6. CASE CallAdapter
      BY <3>6, CallAdapterStep
    <3>7. CASE phase = "adapter" /\ \E r \in Results : AdapterReturns(r)
      BY <3>7, AdapterReturnsStep
    <3>8. CASE InvalidOutputs
      BY <3>8, FailStep DEF InvalidOutputs, Running, Failures
    <3>9. CASE \E emitted, retryable \in BOOLEAN : Fallback(emitted, retryable)
      BY <3>9, FallbackStep
    <3>10. CASE \E emitted, retryable \in BOOLEAN : AdapterFails(emitted, retryable)
      BY <3>10, FailStep DEF AdapterFails, Running, Failures
    <3>11. CASE phase = "verify" /\ \E o \in OutputsOf(Stage) : VerifyOutput(o)
      BY <3>11, VerifyOutputStep
    <3>12. CASE OutputRejected
      BY <3>12, FailStep DEF OutputRejected, Running, Failures
    <3>13. CASE Commit
      BY <3>13, CommitStep
    <3>14. QED
      BY <2>3, <3>1, <3>2, <3>3, <3>4, <3>5, <3>6, <3>7, <3>8, <3>9, <3>10, <3>11,
         <3>12, <3>13 DEF Proceed
  <2>4. CASE CallerMutates \/ AdapterMutates
    BY <2>4, MutateStep
  <2>5. CASE UNCHANGED execVars
    BY <2>5, StutterStep
  <2>6. QED
    BY <2>1, <2>2, <2>3, <2>4, <2>5 DEF Next, Continue
<1>2. QED
  BY <1>1, InitStep, PTL DEF Spec

\* The state of every execution is well typed (executePlan).
THEOREM TypeCorrect ==
  ASSUME NoStageTwice PROVE Spec => []TypeOK
<1>1. IInv => TypeOK
  BY DEF IInv
<1>2. QED
  BY <1>1, Invariance, PTL

\* However many guards, placements and fallbacks there are, a provider is sent
\* only what every guard let through for that placement (executePlan).
THEOREM NothingUninspected ==
  ASSUME NoStageTwice PROVE Spec => []SentOnlyWhatGuardsSaw
<1>1. IInv => SentOnlyWhatGuardsSaw
  BY DEF IInv
<1>2. QED
  BY <1>1, Invariance, PTL

\* Every stage and every attempt of a plan of any length reads the same content
\* of a value, whoever changes objects meanwhile (executePlan).
THEOREM ValuesAreConstant ==
  ASSUME NoStageTwice PROVE Spec => []SameDataEverywhere
<1>1. IInv => SameDataEverywhere
  BY DEF IInv, SentInv, SameDataEverywhere
<1>2. QED
  BY <1>1, Invariance, PTL

\* A stage is never given output by two targets (canFallback).
THEOREM OneEmitter ==
  ASSUME NoStageTwice PROVE Spec => []OneEmitterPerStage
<1>1. IInv => OneEmitterPerStage
  <2> SUFFICES ASSUME IInv, NEW s \in Stages PROVE Cardinality(emitters[s]) <= 1
    BY DEF OneEmitterPerStage
  <2>1. CASE emitters[s] = {}
    BY <2>1, FS_EmptySet
  <2>2. CASE \E t \in Targets : emitters[s] = {t}
    BY <2>2, FS_Singleton
  <2>3. QED
    BY <2>1, <2>2 DEF IInv, EmitterInv
<1>2. QED
  BY <1>1, Invariance, PTL

\* A declassified value has the content a verifier approved, and comes from the
\* target that gave output for its stage (executePlan).
THEOREM DeclassifiedVerified ==
  ASSUME NoStageTwice PROVE Spec => []DeclassifiedIsVerified
<1>1. IInv => DeclassifiedIsVerified
  BY DEF IInv
<1>2. QED
  BY <1>1, Invariance, PTL

\* The outputs of a stage become values together, in the plan's order
\* (executePlan).
THEOREM CommitsAreWhole ==
  ASSUME NoStageTwice PROVE Spec => []StagesCommitWhole
<1>1. IInv => StagesCommitWhole
  <2> SUFFICES ASSUME IInv, NEW k \in 1..Len(plan.order),
                      NEW o \in OutputsOf(plan.order[k])
               PROVE  (values[o] # Missing <=> k < at)
    BY DEF StagesCommitWhole
  <2>1. o \in Outputs /\ Producer[o] = plan.order[k]
    BY DEF OutputsOf
  <2>2. values[o] # Missing <=> Done(plan.order[k])
    BY <2>1 DEF IInv, ValuesInv
  <2>3. phase \notin {"idle", "rejected"}
    BY DEF IInv, PlanInv, NoPlan
  <2>4. plan.order \in Seq(Stages) /\ at \in 1..(Len(plan.order) + 1)
    BY <2>3 DEF IInv, TypeOK, Plan
  <2>5. k \in Nat /\ at \in Nat /\ Len(plan.order) \in Nat
    BY <2>4
  <2>6. ASSUME Done(plan.order[k]) PROVE k < at
    <3>1. PICK j \in 1..(at - 1) : plan.order[j] = plan.order[k]
      BY <2>6 DEF Done
    <3>2. j \in 1..Len(plan.order) /\ j < at
      BY <2>4, <2>5
    <3>3. QED
      BY <3>1, <3>2 DEF IInv, PlanInv
  <2>7. ASSUME k < at PROVE Done(plan.order[k])
    <3>1. k \in 1..(at - 1)
      BY <2>5, <2>7
    <3>2. QED
      BY <3>1 DEF Done
  <2>8. QED
    BY <2>2, <2>6, <2>7
<1>2. QED
  BY <1>1, Invariance, PTL

-------------------------------------------------------------------------------
(* The retrieval. In each of its behaviours one component acts, and the other *)
(* one stays as it began: what each keeps by itself holds of both.            *)

LEMMA RetrievalSteps ==
  /\ [RetrievalNext]_retrievalVars => Chain!Next \/ UNCHANGED chainVars
  /\ [RetrievalNext]_retrievalVars => Pages!Next \/ UNCHANGED pagesVars
BY DEF RetrievalNext, retrievalVars, ChainActs, PagesAct, chainVars, pagesVars

-------------------------------------------------------------------------------
(* The chain.                                                                 *)

\* What was found in order before anything was done.
Admitted ==
  /\ Chain!Fresh(request, evaluatedAt) /\ Chain!Placeable /\ ~(Chain!External /\ placement.local)

\* The artifact is of the request's sources, in a window that all of them share
\* and within the budgets; and it weighs what its evidence does.
ArtifactInv ==
  /\ Chain!EvidenceIsOfRequest /\ Chain!WindowIsCommon /\ Chain!ContextFits
  /\ artifact # Chain!Nothing =>
       artifact.bytes = Chain!ContextBytes(artifact.evidence) /\ artifact.egress = retrieved.egress

\* Nothing is asked without an artifact; the answer keeps to its length; and the
\* receipt is true.
AnswerInv ==
  /\ chainAt \in {"reason", "reasoning", "sealing", "returned"} => artifact # Chain!Nothing
  /\ chainAt \in {"sealing", "returned"} => Chain!Tokens(reasoning.bytes) <= request.maxOutput
  /\ Chain!ReceiptIsTrue

\* Beyond its first checks a call's request was fresh and its placement
\* allowed, and what was made since is in order.
ChainInv ==
  /\ Chain!TypeOK
  /\ chainAt \notin {"idle", "failed"} => Admitted
  /\ chainAt = "assemble" => retrieved.evidence \in Seq(Chain!Piece)
  /\ ArtifactInv /\ AnswerInv

-------------------------------------------------------------------------------

\* A classification's rank is its place in the list.
LEMMA RankIsIndex ==
  ASSUME NEW c \in Chain!Range(Chain!Classifications)
  PROVE  Chain!Rank(c) \in 1..3 /\ Chain!Classifications[Chain!Rank(c)] = c
<1>1. \E i \in 1..3 : Chain!Classifications[i] = c
  BY DEF Chain!Range, Chain!Classifications
<1>2. QED
  BY <1>1 DEF Chain!Rank

\* A set of ranks has a highest.
LEMMA MostOfThree ==
  ASSUME NEW S, S # {}, S \subseteq 1..3
  PROVE  Chain!Max(S) \in S /\ \A x \in S : x <= Chain!Max(S)
<1>1. \E x \in S : \A y \in S : x >= y
  <2>1. CASE 3 \in S
    BY <2>1
  <2>2. CASE 3 \notin S /\ 2 \in S
    BY <2>2
  <2>3. CASE 3 \notin S /\ 2 \notin S
    <3>1. \A y \in S : y = 1
      BY <2>3
    <3>2. PICK x \in S : TRUE
      OBVIOUS
    <3>3. QED
      BY <3>1, <3>2
  <2>4. QED
    BY <2>1, <2>2, <2>3
<1>2. Chain!Max(S) \in S /\ \A y \in S : Chain!Max(S) >= y
  BY <1>1 DEF Chain!Max
<1>3. QED
  BY <1>2

\* What is public as a whole is public in every part.
LEMMA PublicThroughout ==
  ASSUME NEW r \in ChainRequests, Chain!Effective(r) = "public"
  PROVE  r.classification = "public" /\ \A s \in r.sources : s.classification = "public"
<1>1. /\ r.classification \in Chain!Range(Chain!Classifications)
      /\ \A s \in r.sources : s.classification \in Chain!Range(Chain!Classifications)
  BY RetrievalAssumption DEF Chain!ChainAssumption, Chain!WellFormed
<1>. DEFINE S == {Chain!Rank(r.classification)} \cup {Chain!Rank(s.classification) : s \in r.sources}
<1>2. S # {} /\ S \subseteq 1..3
  BY <1>1, RankIsIndex
<1>3. Chain!Max(S) \in S /\ \A x \in S : x <= Chain!Max(S)
  <2>. HIDE DEF S
  <2>1. QED
    BY <1>2, MostOfThree
<1>4. Chain!Classifications[Chain!Max(S)] = "public"
  BY DEF Chain!Effective
<1>5. Chain!Max(S) = 1
  <2>. HIDE DEF S
  <2>1. Chain!Max(S) \in 1..3
    BY <1>2, <1>3
  <2>2. Chain!Classifications[2] # "public" /\ Chain!Classifications[3] # "public"
    BY DEF Chain!Classifications
  <2>3. QED
    BY <1>4, <2>1, <2>2
<1>6. ASSUME NEW c \in Chain!Range(Chain!Classifications), Chain!Rank(c) \in S PROVE c = "public"
  <2>. HIDE DEF S
  <2>1. Chain!Rank(c) \in 1..3 /\ Chain!Rank(c) <= 1
    BY <1>3, <1>5, <1>6, RankIsIndex
  <2>2. Chain!Rank(c) = 1 /\ Chain!Classifications[1] = "public"
    BY <2>1 DEF Chain!Classifications
  <2>3. QED
    BY <2>2, RankIsIndex
<1>7. QED
  BY <1>1, <1>6

\* A set of times has an earliest.
LEMMA LeastOf ==
  ASSUME NEW S, S # {}, S \subseteq Nat
  PROVE  Chain!Min(S) \in S /\ \A x \in S : Chain!Min(S) <= x
<1>. DEFINE R == OpToRel(<, Nat)
<1>1. \A x, y \in Nat : x < y => <<x, y>> \in R
  BY DEF OpToRel
<1>2. IsWellFoundedOn(R, Nat)
  BY NatLessThanWellFounded
<1>. HIDE DEF R
<1>a. PICK x \in S : \A y \in S : ~(<<y, x>> \in R)
  BY <1>2, WFMin
<1>b. \A y \in S : x <= y
  <2> TAKE y \in S
  <2>1. x \in Nat /\ y \in Nat /\ ~(y < x)
    BY <1>1, <1>a
  <2>2. QED
    BY <2>1
<1>3. \E m \in S : \A y \in S : m <= y
  BY <1>b
<1>4. QED
  BY <1>3 DEF Chain!Min

\* The earliest expiry is one of them, and none is before it.
LEMMA EarliestIsFirst ==
  ASSUME NEW r \in ChainRequests
  PROVE  /\ \E s \in r.sources : Chain!Earliest(r) = s.expires
         /\ \A s \in r.sources : Chain!Earliest(r) <= s.expires
<1>. DEFINE S == {s.expires : s \in r.sources}
<1>1. S # {} /\ S \subseteq Nat
  BY RetrievalAssumption DEF Chain!ChainAssumption, Chain!WellFormed
<1>2. Chain!Min(S) \in S /\ \A x \in S : Chain!Min(S) <= x
  <2>. HIDE DEF S
  <2>1. QED
    BY <1>1, LeastOf
<1>3. QED
  BY <1>2 DEF Chain!Earliest

-------------------------------------------------------------------------------

LEMMA ChainInitially == ASSUME Chain!Init PROVE ChainInv
<1>1. Chain!TypeOK
  BY DEF Chain!Init, Chain!TypeOK
<1>2. ArtifactInv
  BY DEF Chain!Init, ArtifactInv, Chain!EvidenceIsOfRequest, Chain!WindowIsCommon, Chain!ContextFits
<1>3. AnswerInv
  BY DEF Chain!Init, AnswerInv, Chain!ReceiptIsTrue
<1>4. QED
  BY <1>1, <1>2, <1>3 DEF ChainInv, Chain!Init

\* While there is no artifact, and while it and its request are the same.
LEMMA NoArtifact == ASSUME artifact' = Chain!Nothing PROVE ArtifactInv'
  BY DEF ArtifactInv, Chain!EvidenceIsOfRequest, Chain!WindowIsCommon, Chain!ContextFits

\* The artifact is in order while it and what it was made of stay.
LEMMA SameArtifact ==
  ASSUME ArtifactInv, UNCHANGED <<request, evaluatedAt, retrieved, artifact>>
  PROVE  ArtifactInv'
  BY DEF ArtifactInv, Chain!EvidenceIsOfRequest, Chain!WindowIsCommon, Chain!ContextFits

\* A call that fails loses nothing that holds of what was made.
LEMMA ChainFailed ==
  ASSUME ChainInv, chainAt # "returned", NEW why, why # "none", Chain!Fail(why), UNCHANGED <<request, placement, evaluation, artifact, reasoning, receipt>>,
         ArtifactInv'
  PROVE  ChainInv'
<1>1. chainAt' = "failed" /\ failure' # "none"
  BY DEF Chain!Fail
<1>2. receipt' = Chain!Nothing
  BY DEF ChainInv, Chain!TypeOK
<1>3. Chain!TypeOK'
  BY <1>1, <1>2 DEF ChainInv, Chain!TypeOK
<1>4. AnswerInv'
  BY <1>1, <1>2 DEF AnswerInv, Chain!ReceiptIsTrue
<1>5. QED
  BY <1>1, <1>3, <1>4 DEF ChainInv

\* One step further, with nothing to show for it yet.
LEMMA ChainGoesOn ==
  ASSUME ChainInv, chainAt' \in {"classify", "retrieve", "assemble", "reason", "reasoning", "sealing"},
         chainAt' \in {"reason", "reasoning", "sealing"} => artifact' # Chain!Nothing,
         chainAt' = "sealing" => Chain!Tokens(reasoning'.bytes) <= request.maxOutput,
         chainAt' = "assemble" => retrieved'.evidence \in Seq(Chain!Piece),
         artifact' # Chain!Nothing => chainAt' \in {"reason", "reasoning", "sealing"},
         reasoning'.citations \in Seq(Nat), chainAt # "returned", chainAt # "failed",
         UNCHANGED <<request, placement, evaluation, receipt, failure>>,
         ArtifactInv', Admitted'
  PROVE  ChainInv'
<1>1. receipt' = Chain!Nothing /\ failure' = "none"
  BY DEF ChainInv, Chain!TypeOK
<1>2. Chain!TypeOK'
  BY <1>1 DEF ChainInv, Chain!TypeOK
<1>3. AnswerInv'
  BY <1>1 DEF AnswerInv, Chain!ReceiptIsTrue
<1>4. QED
  BY <1>2, <1>3 DEF ChainInv

\* What was in order stays so while the request and the placement stay.
LEMMA SameAdmission ==
  ASSUME Admitted, UNCHANGED <<request, placement, evaluatedAt>>
  PROVE  Admitted'
  BY DEF Admitted, Chain!Placeable, Chain!External

-------------------------------------------------------------------------------

LEMMA RunKept == ASSUME ChainInv, Chain!Run PROVE ChainInv'
<1>1. /\ chainAt = "idle" /\ artifact' = artifact /\ artifact = Chain!Nothing /\ evaluatedAt' = evaluation.instant
      /\ UNCHANGED <<request, placement, evaluation, retrieved, artifact, shown, reasoning, receipt>>
  BY DEF Chain!Run, ChainInv, Chain!TypeOK
<1>2. ArtifactInv'
  BY <1>1, NoArtifact
<1>3. ASSUME NEW why, why # "none", Chain!Fail(why) PROVE ChainInv'
  BY <1>1, <1>2, <1>3, ChainFailed
<1>4. CASE /\ Chain!Fresh(request, evaluation.instant) /\ ~(Chain!External /\ placement.local) /\ Chain!Placeable
           /\ chainAt' = "classify" /\ UNCHANGED failure
  <2>1. Chain!Placeable' /\ ~(Chain!External /\ placement.local)'
    BY <1>1, <1>4 DEF Chain!Placeable, Chain!External
  <2>2. Chain!Fresh(request', evaluatedAt')
    BY <1>1, <1>4
  <2>3. Admitted'
    BY <2>1, <2>2 DEF Admitted
  <2>4. QED
    BY <1>1, <1>2, <1>4, <2>3, ChainGoesOn DEF ChainInv, Chain!TypeOK
<1>5. QED
  BY <1>3, <1>4 DEF Chain!Run

LEMMA ClassifyKept == ASSUME ChainInv, Chain!Classify PROVE ChainInv'
<1>1. /\ chainAt = "classify" /\ chainAt' = "retrieve" /\ artifact' = Chain!Nothing
      /\ UNCHANGED <<request, placement, evaluation, evaluatedAt, retrieved, artifact, shown, reasoning, receipt, failure>>
  BY DEF Chain!Classify, ChainInv, Chain!TypeOK
<1>2. ArtifactInv' /\ Admitted'
  BY <1>1, NoArtifact, SameAdmission DEF ChainInv
<1>3. QED
  BY <1>1, <1>2, ChainGoesOn DEF ChainInv, Chain!TypeOK

LEMMA RetrieveKept == ASSUME ChainInv, Chain!RetrieveLocally \/ Chain!RetrieveOutside PROVE ChainInv'
<1>1. /\ chainAt = "retrieve" /\ artifact' = Chain!Nothing
      /\ UNCHANGED <<request, placement, evaluation, evaluatedAt, artifact, shown, reasoning, receipt>>
  BY DEF Chain!RetrieveLocally, Chain!RetrieveOutside, ChainInv, Chain!TypeOK
<1>2. ArtifactInv' /\ Admitted'
  BY <1>1, NoArtifact, SameAdmission DEF ChainInv
<1>3. CASE Chain!Fail("adapter_failure")
  BY <1>1, <1>2, <1>3, ChainFailed
<1>4. ASSUME chainAt' = "assemble", UNCHANGED failure, retrieved'.evidence \in Seq(Chain!Piece) PROVE ChainInv'
  BY <1>1, <1>2, <1>4, ChainGoesOn DEF ChainInv, Chain!TypeOK
<1>5. CASE Chain!RetrieveLocally /\ ~Chain!Fail("adapter_failure")
  <2>1. PICK found \in UNION {[1..n -> Frozen] : n \in 0..MaxSelected} :
          /\ chainAt' = "assemble" /\ UNCHANGED failure
          /\ retrieved' = [evidence |-> found, egress |-> 0, adapter |-> request.adapter]
    BY <1>5 DEF Chain!RetrieveLocally
  <2>2. PICK n \in 0..MaxSelected : found \in [1..n -> Frozen]
    OBVIOUS
  <2>3. Frozen \subseteq Chain!Piece /\ n \in Nat
    BY RetrievalAssumption DEF Chain!ChainAssumption
  <2>4. found \in Seq(Chain!Piece)
    BY <2>2, <2>3
  <2>5. QED
    BY <1>4, <2>1, <2>4
<1>6. CASE Chain!RetrieveOutside /\ ~Chain!Fail("adapter_failure")
  <2>1. retrieved' \in ForeignRetrievals /\ chainAt' = "assemble" /\ UNCHANGED failure
    BY <1>6 DEF Chain!RetrieveOutside
  <2>2. retrieved'.evidence \in Seq(Chain!Piece)
    BY <2>1, RetrievalAssumption DEF Chain!ChainAssumption
  <2>3. QED
    BY <1>4, <2>1, <2>2
<1>7. QED
  BY <1>3, <1>5, <1>6

\* However the evidence is put in order, its pieces are those that were found.
LEMMA OrderedPieces ==
  ASSUME NEW e \in Seq(Chain!Piece), NEW o \in Chain!Orders(e)
  PROVE  \A i \in DOMAIN o : o[i] \in Chain!Piece
<1>1. PICK p \in Chain!Bijection(DOMAIN e, DOMAIN e) : o = [i \in DOMAIN e |-> e[p[i]]]
  BY DEF Chain!Orders
<1>2. p \in [DOMAIN e -> DOMAIN e]
  BY DEF Chain!Bijection, Chain!Injection, Chain!Surjection
<1>3. \A i \in DOMAIN e : e[i] \in Chain!Piece
  <2>1. PICK n \in Nat : n = Len(e) /\ DOMAIN e = 1..n
    OBVIOUS
  <2>2. QED
    BY <2>1, ElementOfSeq
<1>4. QED
  BY <1>1, <1>2, <1>3

LEMMA AssembleKept == ASSUME ChainInv, Chain!Assemble PROVE ChainInv'
<1>1. PICK found \in Chain!Orders(retrieved.evidence) :
        LET tokens == Chain!ContextTokens(found)
            good ==
              /\ retrieved.adapter = request.adapter /\ retrieved.egress <= request.maxEgress
              /\ \A i \in DOMAIN found : Chain!Matches(found[i])
              /\ tokens <= request.maxContext /\ Chain!Tokens(request.query) + tokens <= request.maxTotal
              /\ Chain!Sealable(found)
        IN
        \/ /\ good /\ chainAt' = "reason" /\ UNCHANGED failure
           /\ artifact' = [evidence |-> found, classification |-> Chain!Effective(request),
                           observed |-> evaluatedAt, expires |-> Chain!Expiry,
                           bytes |-> Chain!ContextBytes(found), egress |-> retrieved.egress]
        \/ ~good /\ Chain!Fail("adapter_failure") /\ UNCHANGED artifact
  BY DEF Chain!Assemble
<1>2. /\ chainAt = "assemble" /\ retrieved.evidence \in Seq(Chain!Piece)
      /\ UNCHANGED <<request, placement, evaluation, evaluatedAt, retrieved, shown, reasoning, receipt>>
      /\ Admitted
  BY DEF Chain!Assemble, ChainInv
<1>3. CASE Chain!Fail("adapter_failure") /\ UNCHANGED artifact
  <2>1. ArtifactInv'
    BY <1>2, <1>3, SameArtifact DEF ChainInv
  <2>2. QED
    BY <1>2, <1>3, <2>1, ChainFailed
<1>4. CASE /\ retrieved.egress <= request.maxEgress
           /\ \A i \in DOMAIN found : Chain!Matches(found[i])
           /\ Chain!ContextTokens(found) <= request.maxContext
           /\ Chain!Tokens(request.query) + Chain!ContextTokens(found) <= request.maxTotal
           /\ Chain!Sealable(found)
           /\ chainAt' = "reason" /\ UNCHANGED failure
           /\ artifact' = [evidence |-> found, classification |-> Chain!Effective(request),
                           observed |-> evaluatedAt, expires |-> Chain!Expiry,
                           bytes |-> Chain!ContextBytes(found), egress |-> retrieved.egress]
  <2>1. artifact'.evidence = found /\ artifact'.observed = evaluatedAt /\ artifact'.expires = Chain!Expiry
    BY <1>4
  <2>2. artifact'.bytes = Chain!ContextBytes(found) /\ artifact'.egress = retrieved.egress
    BY <1>4
  <2>3. artifact' # Chain!Nothing
    <3>1. "bytes" \in DOMAIN artifact' /\ "bytes" \notin DOMAIN Chain!Nothing
      BY <1>4 DEF Chain!Nothing
    <3>2. QED
      BY <3>1
  <2>4. Chain!EvidenceIsOfRequest'
    <3>1. \A i \in DOMAIN found : found[i] \in Chain!Piece
      BY <1>2, OrderedPieces
    <3>2. ASSUME NEW i \in DOMAIN found, NEW j \in DOMAIN found, i < j PROVE found[i].locator < found[j].locator
      <4>1. found[i].locator <= found[j].locator
        BY <3>2 DEF Chain!Orders
      <4>2. i # j
        <5>1. DOMAIN found \subseteq Nat
          BY <1>2 DEF Chain!Orders
        <5>2. QED
          BY <3>2, <5>1
      <4>3. found[i].locator # found[j].locator
        BY <1>4, <4>2 DEF Chain!Sealable
      <4>4. found[i].locator \in Nat /\ found[j].locator \in Nat
        BY <3>1 DEF Chain!Piece
      <4>5. QED
        BY <4>1, <4>3, <4>4
    <3>3. \A i \in DOMAIN found : found[i].genuine /\ \E s \in request.sources : s.id = found[i].source
      BY <1>4 DEF Chain!Matches
    <3>4. QED
      BY <1>2, <2>1, <3>2, <3>3 DEF Chain!EvidenceIsOfRequest
  <2>5. Chain!WindowIsCommon'
    <3>1. request \in ChainRequests
      BY DEF ChainInv, Chain!TypeOK
    <3>2. /\ \E s \in request.sources : Chain!Expiry = s.expires
          /\ \A s \in request.sources : Chain!Expiry <= s.expires
      BY <3>1, EarliestIsFirst DEF Chain!Expiry
    <3>3. \A s \in request.sources : s.observed <= evaluatedAt /\ evaluatedAt < s.expires
      BY <1>2 DEF Admitted, Chain!Fresh
    <3>4. evaluatedAt < Chain!Expiry
      BY <3>2, <3>3
    <3>. DEFINE last == Chain!Expiry
    <3>. HIDE DEF last
    <3>5. artifact'.observed = evaluatedAt' /\ evaluatedAt' < artifact'.expires
      BY <1>2, <2>1, <3>4
    <3>6. \A s \in request'.sources : s.observed <= artifact'.observed /\ artifact'.expires <= s.expires
      BY <1>2, <2>1, <3>2, <3>3
    <3>7. QED
      BY <3>5, <3>6 DEF Chain!WindowIsCommon
  <2>6. Chain!ContextFits'
    BY <1>2, <1>4, <2>2 DEF Chain!ContextFits, Chain!ContextTokens
  <2>7. ArtifactInv'
    BY <1>2, <2>1, <2>2, <2>4, <2>5, <2>6 DEF ArtifactInv
  <2>8. Admitted'
    BY <1>2, SameAdmission
  <2>9. QED
    BY <1>2, <1>4, <2>3, <2>7, <2>8, ChainGoesOn DEF ChainInv, Chain!TypeOK
<1>5. QED
  BY <1>1, <1>3, <1>4

LEMMA ReasonKept == ASSUME ChainInv, Chain!Reason \/ Chain!ReasonerChanges PROVE ChainInv'
<1>1. /\ chainAt \in {"reason", "reasoning"} /\ chainAt' = "reasoning"
      /\ UNCHANGED <<request, placement, evaluation, evaluatedAt, retrieved, artifact, reasoning, receipt, failure>>
  BY DEF Chain!Reason, Chain!ReasonerChanges
<1>2. ArtifactInv' /\ Admitted' /\ artifact # Chain!Nothing
  BY <1>1, SameArtifact, SameAdmission DEF ChainInv, AnswerInv
<1>3. QED
  BY <1>1, <1>2, ChainGoesOn DEF ChainInv, Chain!TypeOK

LEMMA AnswerKept == ASSUME ChainInv, Chain!Answer PROVE ChainInv'
<1>1. /\ chainAt = "reasoning"
      /\ UNCHANGED <<request, placement, evaluation, evaluatedAt, retrieved, artifact, shown, receipt>>
  BY DEF Chain!Answer
<1>2. ArtifactInv' /\ Admitted' /\ artifact # Chain!Nothing
  BY <1>1, SameArtifact, SameAdmission DEF ChainInv, AnswerInv
<1>3. PICK answer \in ReasonerAnswers :
        \/ /\ Chain!Tokens(answer.bytes) <= request.maxOutput
           /\ reasoning' = answer /\ chainAt' = "sealing" /\ UNCHANGED failure
        \/ Chain!Fail("adapter_failure") /\ UNCHANGED reasoning
  BY DEF Chain!Answer
<1>4. CASE Chain!Fail("adapter_failure") /\ UNCHANGED reasoning
  BY <1>1, <1>2, <1>4, ChainFailed
<1>5. CASE /\ Chain!Tokens(answer.bytes) <= request.maxOutput
           /\ reasoning' = answer /\ chainAt' = "sealing" /\ UNCHANGED failure
  <2>1. reasoning'.citations \in Seq(Nat)
    BY <1>5, RetrievalAssumption DEF Chain!ChainAssumption
  <2>2. QED
    BY <1>1, <1>2, <1>5, <2>1, ChainGoesOn
<1>6. QED
  BY <1>3, <1>4, <1>5

LEMMA SealKept == ASSUME ChainInv, Chain!Seal PROVE ChainInv'
<1>1. /\ chainAt = "sealing" /\ chainAt' = "returned"
      /\ UNCHANGED <<request, placement, evaluation, evaluatedAt, retrieved, artifact, shown, reasoning, failure>>
      /\ receipt' =
           [artifact |-> artifact, egress |-> artifact.egress, query |-> Chain!Tokens(request.query),
            context |-> Chain!ContextTokens(artifact.evidence),
            input |-> Chain!Tokens(request.query) + Chain!ContextTokens(artifact.evidence),
            output |-> Chain!Tokens(reasoning.bytes)]
  BY DEF Chain!Seal, Chain!Accounted
<1>2. ArtifactInv' /\ Admitted' /\ artifact # Chain!Nothing
  BY <1>1, SameArtifact, SameAdmission DEF ChainInv, AnswerInv
<1>3. artifact.bytes = Chain!ContextBytes(artifact.evidence) /\ artifact.egress = retrieved.egress
  BY <1>2 DEF ChainInv, ArtifactInv
<1>4. Chain!Tokens(reasoning.bytes) <= request.maxOutput
  BY <1>1 DEF ChainInv, AnswerInv
<1>5. receipt' # Chain!Nothing
  <2>1. "output" \in DOMAIN receipt' /\ "output" \notin DOMAIN Chain!Nothing
    BY <1>1 DEF Chain!Nothing
  <2>2. QED
    BY <2>1
<1>6. Chain!ReceiptIsTrue'
  <2>1. receipt'.artifact = artifact /\ receipt'.egress = artifact.egress /\ receipt'.query = Chain!Tokens(request.query)
    BY <1>1
  <2>2. /\ receipt'.context = Chain!ContextTokens(artifact.evidence)
        /\ receipt'.input = Chain!Tokens(request.query) + Chain!ContextTokens(artifact.evidence)
        /\ receipt'.output = Chain!Tokens(reasoning.bytes)
    BY <1>1
  <2>3. Chain!ContextTokens(artifact.evidence) = Chain!Tokens(artifact.bytes)
    BY <1>3 DEF Chain!ContextTokens
  <2>4. QED
    BY <1>1, <1>3, <1>4, <2>1, <2>2, <2>3 DEF Chain!ReceiptIsTrue
<1>7. AnswerInv'
  BY <1>1, <1>2, <1>4, <1>6 DEF AnswerInv
<1>8. Chain!TypeOK'
  BY <1>1, <1>2, <1>5 DEF ChainInv, Chain!TypeOK
<1>9. QED
  BY <1>1, <1>2, <1>7, <1>8 DEF ChainInv

-------------------------------------------------------------------------------

LEMMA ChainKept == ChainInv /\ (Chain!Next \/ UNCHANGED chainVars) => ChainInv'
<1>. SUFFICES ASSUME ChainInv, Chain!Next \/ UNCHANGED chainVars PROVE ChainInv'
  OBVIOUS
<1>1. CASE UNCHANGED chainVars
  <2>1. UNCHANGED <<request, placement, evaluation, chainAt, evaluatedAt, retrieved, artifact, shown, reasoning, receipt, failure>>
    BY <1>1 DEF chainVars
  <2>2. ArtifactInv'
    BY <2>1, SameArtifact DEF ChainInv
  <2>3. Chain!TypeOK'
    BY <2>1 DEF ChainInv, Chain!TypeOK
  <2>4. AnswerInv'
    BY <2>1 DEF ChainInv, AnswerInv, Chain!ReceiptIsTrue
  <2>5. chainAt' \notin {"idle", "failed"} => Admitted'
    BY <2>1, SameAdmission DEF ChainInv
  <2>6. QED
    BY <2>1, <2>2, <2>3, <2>4, <2>5 DEF ChainInv
<1>. HIDE DEF ChainInv
<1>2. QED
  BY <1>1, RunKept, ClassifyKept, RetrieveKept, AssembleKept, ReasonKept, AnswerKept, SealKept DEF Chain!Next

LEMMA ChainIsInOrder == ChainInv => ChainIsAccounted
<1>. SUFFICES ASSUME ChainInv PROVE ChainIsAccounted
  OBVIOUS
<1>1. Chain!OnlyPublicLeaves
  <2>. SUFFICES ASSUME chainAt = "retrieve", Chain!External
                PROVE  /\ request.classification = "public" /\ \A s \in request.sources : s.classification = "public"
                       /\ request.residencies \subseteq placement.residencies /\ ~placement.local
    BY DEF Chain!OnlyPublicLeaves
  <2>1. request \in ChainRequests /\ Chain!Placeable /\ ~placement.local
    BY DEF ChainInv, Chain!TypeOK, Admitted
  <2>2. Chain!Effective(request) = "public" /\ request.residencies \subseteq placement.residencies
    BY <2>1 DEF Chain!Placeable
  <2>3. QED
    BY <2>1, <2>2, PublicThroughout
<1>2. QED
  BY <1>1 DEF ChainInv, ArtifactInv, AnswerInv, ChainIsAccounted

LEMMA ChainAlways == RetrievalSpec => []ChainInv
<1>1. RetrievalInit => ChainInv
  BY ChainInitially DEF RetrievalInit
<1>2. ChainInv /\ [RetrievalNext]_retrievalVars => ChainInv'
  BY RetrievalSteps, ChainKept
<1>3. QED
  BY <1>1, <1>2, PTL DEF RetrievalSpec

\* Whatever an external adapter returns and a reasoner answers, of whatever
\* requests, targets and instants: an external adapter is only given what is
\* public through and through (planStageGraph); an artifact is evidence of the
\* request's sources, each piece once, of a window that all of them share,
\* within the budgets (assembleContextArtifact); and the receipt accounts for
\* just that and for the answer, whatever the reasoner did to the object it was
\* given (createContextReceipt).
THEOREM ChainAccounted == RetrievalSpec => []ChainIsAccounted
BY ChainAlways, ChainIsInOrder, PTL

-------------------------------------------------------------------------------
(* The PageIndex adapter.                                                     *)

Work == [calls : Nat, response : Nat, structure : Nat, text : Nat, pages : Nat]
Cost == [calls : Nat, response : Nat, structure : Nat, pages : Seq(Nat \X Nat)]
Evidence == Seq([source : Nat, page : Nat, bytes : Nat])

\* Whose page each piece is.
Pairs(pieces) == [i \in DOMAIN pieces |-> <<pieces[i].source, pieces[i].page>>]
From(pieces) == {pieces[i].source : i \in DOMAIN pieces}
PairsOf(t, pages) == [i \in DOMAIN pages |-> <<t, pages[i]>>]

\* What the variables hold, beyond Pages!TypeOK.
PagesTypes ==
  /\ now \in Nat /\ timer \in Nat /\ turn \in Nat /\ part \in 0..MaxParts /\ parts \in Nat /\ pageCount \in Nat
  /\ chosen \in Seq(Nat) /\ evidence \in Evidence /\ work \in Work /\ spent \in Cost
  /\ sources \in Seq([bound : BOOLEAN, fresh : BOOLEAN])

\* A budget that is accounted for, and kept.
Sound(w, cost) ==
  /\ w \in Work /\ cost \in Cost
  /\ w.calls = cost.calls /\ cost.calls <= MaxCalls
  /\ w.response = cost.response /\ cost.response <= MaxResponse
  /\ w.structure = cost.structure /\ cost.structure <= MaxStructure
  /\ w.pages = Len(cost.pages) /\ w.pages <= MaxPages
  /\ w.text <= MaxText /\ RequestBytes + w.text <= MaxEgress

\* At a call and at the end, what the adapter counted is what was spent, and is
\* within the limits.
BudgetInv ==
  /\ spent.calls <= MaxCalls
  /\ pagesAt \in Pages!Calls \cup {"returned"} => Sound(work, spent) /\ work.text = Pages!Weight(evidence)
  /\ pagesAt = "idle" =>
       /\ work = [calls |-> 0, response |-> 0, structure |-> 0, text |-> 0, pages |-> 0]
       /\ spent = [calls |-> 0, response |-> 0, structure |-> 0, pages |-> <<>>]
       /\ evidence = <<>> /\ turn = 0 /\ now = 0

\* How far the sources are.
TurnInv ==
  /\ pagesAt \in Pages!Calls =>
       /\ turn \in DOMAIN sources /\ \A i \in 1..turn : sources[i].bound /\ sources[i].fresh
       /\ timer <= TotalTimeout + (Grain - 1)
       /\ From(evidence) = 1..(turn - 1)
  /\ pagesAt \in Pages!Calls \ {"content"} => Pairs(evidence) = spent.pages
  /\ pagesAt = "content" => Pairs(evidence) \o PairsOf(turn, chosen) = spent.pages /\ Len(chosen) >= 1
  /\ pagesAt = "structure" => part \in 1..MaxParts /\ (part > 1 => parts <= MaxParts /\ part <= parts)

\* All of it, and that the evidence is whole.
PagesInv == Pages!TypeOK /\ PagesTypes /\ BudgetInv /\ TurnInv /\ Pages!EvidenceIsWhole

-------------------------------------------------------------------------------

\* A timer is set at most one grain less a millisecond too late.
LEMMA RoundedUp ==
  ASSUME NEW r \in Nat
  PROVE  Grain * ((r + Grain - 1) \div Grain) \in Nat /\ Grain * ((r + Grain - 1) \div Grain) <= r + Grain - 1
<1>1. Grain \in Nat \ {0}
  BY RetrievalAssumption DEF Pages!BudgetAssumption
<1>2. (r + Grain - 1) \div Grain \in Nat
  BY <1>1
<1>3. Grain * ((r + Grain - 1) \div Grain) <= r + Grain - 1
  BY <1>1
<1>4. QED
  BY <1>1, <1>2, <1>3

\* The less of two timeouts is no more than either.
LEMMA LeastOfTwo ==
  ASSUME NEW a \in Nat, NEW b \in Nat
  PROVE  Pages!Min({a, b}) \in {a, b} /\ Pages!Min({a, b}) <= a /\ Pages!Min({a, b}) <= b
<1>1. \E x \in {a, b} : \A y \in {a, b} : x <= y
  OBVIOUS
<1>2. QED
  BY <1>1 DEF Pages!Min

\* A timer runs no longer than a call may take, nor past the deadline but for the grain.
LEMMA TimerIsBounded ==
  ASSUME now \in Nat, now < TotalTimeout
  PROVE  /\ Pages!TimeFor(Pages!Deadline - now) \in Nat
         /\ Pages!TimeFor(Pages!Deadline - now) <= CallTimeout
         /\ now + Pages!TimeFor(Pages!Deadline - now) <= TotalTimeout + (Grain - 1)
<1>1. CallTimeout \in Nat /\ TotalTimeout \in Nat /\ Grain \in Nat \ {0}
  BY RetrievalAssumption DEF Pages!BudgetAssumption
<1>2. TotalTimeout - now \in Nat
  BY <1>1
<1>. DEFINE rounded == Grain * (((TotalTimeout - now) + Grain - 1) \div Grain)
<1>3. rounded \in Nat /\ rounded <= (TotalTimeout - now) + Grain - 1
  BY <1>2, RoundedUp
<1>4. Pages!TimeFor(Pages!Deadline - now) = Pages!Min({CallTimeout, rounded})
  BY DEF Pages!TimeFor, Pages!Deadline
<1>. HIDE DEF rounded
<1>5. Pages!Min({CallTimeout, rounded}) \in {CallTimeout, rounded} /\ Pages!Min({CallTimeout, rounded}) <= CallTimeout /\ Pages!Min({CallTimeout, rounded}) <= rounded
  BY <1>1, <1>3, LeastOfTwo
<1>6. QED
  BY <1>1, <1>3, <1>4, <1>5

-------------------------------------------------------------------------------

\* Where the items of two joined sequences are.
LEMMA JoinedPairs ==
  ASSUME NEW x \in Seq(Nat \X Nat), NEW y \in Seq(Nat \X Nat)
  PROVE  /\ x \o y \in Seq(Nat \X Nat) /\ Len(x \o y) = Len(x) + Len(y)
         /\ \A i \in 1..Len(x) : (x \o y)[i] = x[i]
         /\ \A i \in 1..(Len(x) + Len(y)) : i > Len(x) => (x \o y)[i] = y[i - Len(x)]
<1>1. x \o y \in Seq(Nat \X Nat) /\ Len(x \o y) = Len(x) + Len(y)
  BY ConcatProperties
<1>2. \A i \in 1..(Len(x) + Len(y)) : (x \o y)[i] = IF i <= Len(x) THEN x[i] ELSE y[i - Len(x)]
  BY ConcatProperties
<1>3. QED
  BY <1>1, <1>2

\* What the pieces of one more source add.
LEMMA MorePieces ==
  ASSUME NEW e \in Evidence, NEW p \in Evidence, NEW t \in Nat, NEW b \in Nat,
         \A i \in DOMAIN p : p[i].source = t /\ p[i].bytes = b
  PROVE  /\ e \o p \in Evidence
         /\ Pairs(e \o p) = Pairs(e) \o PairsOf(t, [i \in DOMAIN p |-> p[i].page])
         /\ Len(p) >= 1 => From(e \o p) = From(e) \cup {t}
         /\ Pages!Weight(e \o p) = Pages!Weight(e) + b * Len(p)
<1>. DEFINE n == Len(e)  m == Len(p)  ep == e \o p
<1>1. /\ ep \in Evidence /\ Len(ep) = n + m /\ n \in Nat /\ m \in Nat
      /\ DOMAIN ep = 1..(n + m) /\ DOMAIN e = 1..n /\ DOMAIN p = 1..m
      /\ \A i \in 1..n : ep[i] = e[i]
      /\ \A i \in 1..m : ep[n + i] = p[i]
  BY DEF Evidence
<1>e. ASSUME NEW i \in 1..n PROVE e[i] \in [source : Nat, page : Nat, bytes : Nat]
  BY <1>1, ElementOfSeq DEF Evidence
<1>p. ASSUME NEW i \in 1..m PROVE p[i] \in [source : Nat, page : Nat, bytes : Nat]
  BY <1>1, ElementOfSeq DEF Evidence
<1>2. \A i \in 1..(n + m) : i > n => i - n \in 1..m /\ ep[i] = p[i - n]
  BY <1>1 DEF Evidence
<1>0. \A i \in 1..(n + m) : i <= n => i \in 1..n /\ ep[i] = e[i]
  BY <1>1
<1>3. Pairs(ep) = Pairs(e) \o PairsOf(t, [i \in DOMAIN p |-> p[i].page])
  <2>1. Pairs(e) \in Seq(Nat \X Nat) /\ Len(Pairs(e)) = n
    <3>1. ASSUME NEW i \in 1..n PROVE <<e[i].source, e[i].page>> \in Nat \X Nat
      BY <1>e
    <3>2. Pairs(e) = [i \in 1..n |-> <<e[i].source, e[i].page>>]
      BY <1>1 DEF Pairs
    <3>3. Pairs(e) \in [1..n -> Nat \X Nat]
      BY <3>1, <3>2
    <3>4. QED
      BY <3>3, <1>1
  <2>2. PairsOf(t, [i \in DOMAIN p |-> p[i].page]) \in Seq(Nat \X Nat) /\ Len(PairsOf(t, [i \in DOMAIN p |-> p[i].page])) = m
    <3>. DEFINE q == PairsOf(t, [i \in DOMAIN p |-> p[i].page])
    <3>1. ASSUME NEW i \in 1..m PROVE <<t, p[i].page>> \in Nat \X Nat
      BY <1>p
    <3>2. q = [i \in 1..m |-> <<t, p[i].page>>]
      BY <1>1 DEF PairsOf
    <3>3. q \in [1..m -> Nat \X Nat]
      BY <3>1, <3>2
    <3>4. QED
      BY <3>3, <1>1
  <2>3. Pairs(ep) \in Seq(Nat \X Nat) /\ Len(Pairs(ep)) = n + m
    <3>1. ASSUME NEW i \in 1..(n + m) PROVE ep[i] \in [source : Nat, page : Nat, bytes : Nat]
      BY <1>1, ElementOfSeq DEF Evidence
    <3>2. Pairs(ep) = [i \in 1..(n + m) |-> <<ep[i].source, ep[i].page>>]
      BY <1>1 DEF Pairs
    <3>3. Pairs(ep) \in [1..(n + m) -> Nat \X Nat]
      BY <3>1, <3>2
    <3>4. n + m \in Nat
      BY <1>1
    <3>5. QED
      BY <3>3, <3>4
  <2>. DEFINE x == Pairs(e)  y == PairsOf(t, [i \in DOMAIN p |-> p[i].page])
  <2>4. \A i \in 1..n : x[i] = <<e[i].source, e[i].page>>
    BY <1>1 DEF Pairs
  <2>5. \A i \in 1..m : y[i] = <<t, p[i].page>>
    BY <1>1 DEF PairsOf
  <2>6. \A i \in 1..(n + m) : Pairs(ep)[i] = <<ep[i].source, ep[i].page>>
    BY <1>1 DEF Pairs
  <2>. HIDE DEF x, y
  <2>7. /\ x \o y \in Seq(Nat \X Nat) /\ Len(x \o y) = n + m
        /\ \A i \in 1..n : (x \o y)[i] = x[i]
        /\ \A i \in 1..(n + m) : i > n => (x \o y)[i] = y[i - n]
    <3>1. x \in Seq(Nat \X Nat) /\ Len(x) = n /\ y \in Seq(Nat \X Nat) /\ Len(y) = m /\ n \in Nat /\ m \in Nat
      BY <2>1, <2>2, <1>1 DEF x, y
    <3>. HIDE DEF n, m
    <3>2. /\ x \o y \in Seq(Nat \X Nat) /\ Len(x \o y) = Len(x) + Len(y)
          /\ \A i \in 1..Len(x) : (x \o y)[i] = x[i]
          /\ \A i \in 1..(Len(x) + Len(y)) : i > Len(x) => (x \o y)[i] = y[i - Len(x)]
      BY <3>1, JoinedPairs
    <3>3. QED
      BY <3>1, <3>2
  <2>8. ASSUME NEW i \in 1..(n + m) PROVE Pairs(ep)[i] = (x \o y)[i]
    <3>1. CASE i <= n
      <4>1. i \in 1..n /\ ep[i] = e[i]
        BY <3>1, <1>0
      <4>2. QED
        BY <4>1, <2>4, <2>6, <2>7
    <3>2. CASE i > n
      <4>1. i - n \in 1..m /\ ep[i] = p[i - n]
        BY <3>2, <1>2
      <4>2. p[i - n].source = t
        BY <4>1, <1>1
      <4>3. y[i - n] = <<t, p[i - n].page>>
        BY <4>1, <2>5
      <4>4. QED
        BY <3>2, <4>1, <4>2, <4>3, <2>6, <2>7
    <3>3. QED
      <4>1. i <= n \/ i > n
        BY <1>1
      <4>2. QED
        BY <3>1, <3>2, <4>1
  <2>9. Pairs(ep) = x \o y
    BY <2>3, <2>7, <2>8, SeqEqual
  <2>10. QED
    BY <2>9 DEF x, y
<1>4. ASSUME m >= 1 PROVE From(ep) = From(e) \cup {t}
  <2>1. From(ep) \subseteq From(e) \cup {t}
    <3>1. ASSUME NEW i \in 1..(n + m) PROVE ep[i].source \in From(e) \cup {t}
      <4>1. CASE i <= n
        BY <4>1, <1>1 DEF From
      <4>2. CASE i > n
        <5>1. i - n \in 1..m /\ ep[i] = p[i - n]
          BY <4>2, <1>2
        <5>2. p[i - n].source = t
          BY <5>1, <1>1
        <5>3. QED
          BY <5>1, <5>2
      <4>3. QED
        BY <4>1, <4>2, <1>1
    <3>2. QED
      BY <3>1, <1>1 DEF From
  <2>2. From(e) \subseteq From(ep)
    <3>1. ASSUME NEW i \in 1..n PROVE e[i].source \in From(ep)
      BY <1>1 DEF From
    <3>2. QED
      BY <3>1, <1>1 DEF From
  <2>3. t \in From(ep)
    <3>1. 1 \in 1..m /\ n + 1 \in 1..(n + m) /\ ep[n + 1] = p[1]
      BY <1>1, <1>4
    <3>2. ep[n + 1].source = t
      BY <3>1, <1>1
    <3>3. QED
      BY <3>1, <3>2, <1>1 DEF From
  <2>4. QED
    BY <2>1, <2>2, <2>3
<1>5. Pages!Weight(ep) = Pages!Weight(e) + b * m
  <2>. DEFINE U == UNION {{i} \X (1..e[i].bytes) : i \in 1..n}
              V == (n + 1..n + m) \X (1..b)
  <2>1. Pages!Weight(e) = Cardinality(U)
    BY <1>1 DEF Pages!Weight, Pages!Cardinality, Cardinality, Pages!IsFiniteSet, IsFiniteSet
  <2>2. Pages!Weight(ep) = Cardinality(UNION {{i} \X (1..ep[i].bytes) : i \in 1..(n + m)})
    BY <1>1 DEF Pages!Weight, Pages!Cardinality, Cardinality, Pages!IsFiniteSet, IsFiniteSet
  <2>3. UNION {{i} \X (1..ep[i].bytes) : i \in 1..(n + m)} = U \cup V
    <3>. DEFINE W == UNION {{i} \X (1..ep[i].bytes) : i \in 1..(n + m)}
    <3>1. ASSUME NEW x \in W PROVE x \in U \cup V
      <4>1. PICK i \in 1..(n + m) : x \in {i} \X (1..ep[i].bytes)
        OBVIOUS
      <4>2. CASE i <= n
        BY <4>1, <4>2, <1>1
      <4>3. CASE i > n
        <5>1. ep[i].bytes = b
          <6>1. i - n \in 1..m /\ ep[i] = p[i - n]
            BY <4>3, <1>2
          <6>2. p[i - n].bytes = b
            BY <6>1, <1>1
          <6>3. QED
            BY <6>1, <6>2
        <5>2. i \in n + 1..n + m
          BY <4>3, <1>1
        <5>3. QED
          BY <4>1, <5>1, <5>2
      <4>4. QED
        BY <4>2, <4>3, <1>1
    <3>2. ASSUME NEW x \in U PROVE x \in W
      <4>1. PICK i \in 1..n : x \in {i} \X (1..e[i].bytes)
        OBVIOUS
      <4>2. i \in 1..(n + m) /\ ep[i] = e[i]
        BY <1>1
      <4>3. QED
        BY <4>1, <4>2
    <3>3. ASSUME NEW x \in V PROVE x \in W
      <4>1. PICK i \in n + 1..n + m, k \in 1..b : x = <<i, k>>
        OBVIOUS
      <4>2. i \in 1..(n + m) /\ i > n
        BY <1>1
      <4>3. ep[i].bytes = b
        <5>1. i - n \in 1..m /\ ep[i] = p[i - n]
          BY <4>2, <1>2
        <5>2. p[i - n].bytes = b
          BY <5>1, <1>1
        <5>3. QED
          BY <5>1, <5>2
      <4>4. x \in {i} \X (1..ep[i].bytes)
        BY <4>1, <4>3
      <4>5. QED
        BY <4>2, <4>4
    <3>4. QED
      BY <3>1, <3>2, <3>3
  <2>4. IsFiniteSet(U)
    <3>1. IsFiniteSet(1..n)
      BY <1>1, FS_Interval
    <3>. DEFINE f == [i \in 1..n |-> {i} \X (1..e[i].bytes)]  T == {f[i] : i \in 1..n}
    <3>2. f \in Surjection(1..n, T)
      BY DEF Surjection
    <3>3. IsFiniteSet(T)
      BY <3>1, <3>2, FS_Surjection
    <3>4. ASSUME NEW x \in T PROVE IsFiniteSet(x)
      <4>1. PICK i \in 1..n : x = {i} \X (1..e[i].bytes)
        OBVIOUS
      <4>2. e[i].bytes \in Nat
        BY <1>e
      <4>3. IsFiniteSet({i}) /\ IsFiniteSet(1..e[i].bytes)
        <5>1. IsFiniteSet({i})
          BY FS_Singleton
        <5>2. IsFiniteSet(1..e[i].bytes)
          BY <4>2, 1 \in Int, e[i].bytes \in Int, FS_Interval
        <5>3. QED
          BY <5>1, <5>2
      <4>4. QED
        BY <4>1, <4>3, FS_Product
    <3>5. U = UNION T
      OBVIOUS
    <3>6. QED
      BY <3>3, <3>4, <3>5, FS_UNION
  <2>5. IsFiniteSet(V) /\ Cardinality(V) = b * m
    <3>1. IsFiniteSet(n + 1..n + m) /\ Cardinality(n + 1..n + m) = m
      <4>1. n + 1 \in Int /\ n + m \in Int /\ n + m - (n + 1) + 1 = m
        BY <1>1
      <4>2. IsFiniteSet(n + 1..n + m) /\ Cardinality(n + 1..n + m) = IF n + 1 > n + m THEN 0 ELSE n + m - (n + 1) + 1
        <5>. DEFINE x == n + 1  y == n + m
        <5>1. x \in Int /\ y \in Int
          BY <4>1
        <5>. HIDE DEF x, y
        <5>2. IsFiniteSet(x..y) /\ Cardinality(x..y) = IF x > y THEN 0 ELSE y - x + 1
          BY <5>1, FS_Interval
        <5>3. QED
          BY <5>2 DEF x, y
      <4>3. QED
        BY <1>1, <4>1, <4>2
    <3>2. IsFiniteSet(1..b) /\ Cardinality(1..b) = b
      BY FS_Interval
    <3>3. IsFiniteSet(V) /\ Cardinality(V) = m * b
      <4>1. IsFiniteSet(V) /\ Cardinality(V) = Cardinality(n + 1..n + m) * Cardinality(1..b)
        BY <3>1, <3>2, FS_Product
      <4>2. QED
        BY <4>1, <3>1, <3>2
    <3>4. m * b = b * m
      BY <1>1
    <3>5. QED
      BY <3>3, <3>4
  <2>6. U \cap V = {}
    <3>1. ASSUME NEW x \in U, x \in V PROVE FALSE
      <4>1. PICK i \in 1..n : x \in {i} \X (1..e[i].bytes)
        OBVIOUS
      <4>2. PICK j \in n + 1..n + m, k \in 1..b : x = <<j, k>>
        BY <3>1
      <4>3. i = j
        BY <4>1, <4>2
      <4>4. QED
        BY <4>3, <1>1
    <3>2. QED
      BY <3>1
  <2>. HIDE DEF U, V
  <2>7. Cardinality(U \cup V) = Cardinality(U) + Cardinality(V) - Cardinality(U \cap V)
    BY <2>4, <2>5, FS_Union
  <2>8. Cardinality(U \cap V) = 0 /\ Cardinality(U) \in Nat
    BY <2>4, <2>6, FS_EmptySet, FS_CardinalityType
  <2>9. b * m \in Nat
    BY <1>1
  <2>10. Pages!Weight(ep) = Cardinality(U \cup V)
    BY <2>2, <2>3
  <2>11. Cardinality(U \cup V) = Cardinality(U) + b * m
    BY <2>5, <2>7, <2>8, <2>9
  <2>12. QED
    BY <2>1, <2>10, <2>11
<1>6. QED
  BY <1>1, <1>3, <1>4, <1>5

-------------------------------------------------------------------------------

LEMMA PagesInitially == ASSUME Pages!Init PROVE PagesInv
<1>. USE RetrievalAssumption DEF Pages!Init, Pages!BudgetAssumption
<1>1. PagesTypes
  BY DEF PagesTypes, Work, Cost, Evidence
<1>2. Pages!TypeOK
  BY <1>1 DEF Pages!TypeOK, Pages!Calls, PagesTypes
<1>3. BudgetInv /\ TurnInv /\ Pages!EvidenceIsWhole
  BY DEF BudgetInv, TurnInv, Pages!EvidenceIsWhole, Pages!Calls
<1>4. QED
  BY <1>1, <1>2, <1>3 DEF PagesInv

\* What a failure leaves behind.
Failing ==
  /\ pagesAt' = "failed" /\ pagesCode' # "none"
  /\ work' \in Work /\ spent' \in Cost /\ spent'.calls <= MaxCalls
  /\ work'.calls = spent'.calls \/ work'.calls = spent'.calls + 1

\* What a call that begins finds.
Calling(call) ==
  /\ pagesAt' = call /\ pagesCode' = pagesCode
  /\ Sound(work', spent')
  /\ timer' \in Nat /\ now <= timer' /\ timer' <= now + CallTimeout /\ timer' <= TotalTimeout + (Grain - 1)

\* A call begins on what is left of the budget, or there is none left.
LEMMA CallBegins ==
  ASSUME PagesTypes, NEW call \in Pages!Calls, NEW w, NEW cost, Sound(w, cost), Pages!Begin(call, w, cost)
  PROVE  \/ Failing /\ timer' = timer
         \/ Calling(call) /\ work'.text = w.text /\ spent'.pages = cost.pages
<1>. DEFINE w1 == [w EXCEPT !.calls = @ + 1]
<1>1. w \in Work /\ cost \in Cost /\ w.calls = cost.calls /\ cost.calls <= MaxCalls /\ MaxCalls \in Nat
  BY RetrievalAssumption DEF Sound, Pages!BudgetAssumption
<1>2. /\ w1 \in Work /\ w1.calls = w.calls + 1 /\ w1.response = w.response /\ w1.structure = w.structure
      /\ w1.text = w.text /\ w1.pages = w.pages
  BY <1>1 DEF Work
<1>3. CASE /\ now >= Pages!Deadline \/ w1.calls > MaxCalls
           /\ Pages!Fail(w1, "adapter_failure") /\ spent' = cost
  BY <1>1, <1>2, <1>3 DEF Failing, Pages!Fail
<1>4. CASE /\ now < Pages!Deadline /\ w1.calls <= MaxCalls
           /\ pagesAt' = call /\ timer' = now + Pages!TimeFor(Pages!Deadline - now)
           /\ work' = w1 /\ spent' = [cost EXCEPT !.calls = @ + 1]
           /\ UNCHANGED pagesCode
  <2>1. now \in Nat /\ now < TotalTimeout /\ CallTimeout \in Nat /\ TotalTimeout \in Nat /\ Grain \in Nat
    BY <1>4, RetrievalAssumption DEF PagesTypes, Pages!Deadline, Pages!BudgetAssumption
  <2>2. timer' \in Nat /\ now <= timer' /\ timer' <= now + CallTimeout /\ timer' <= TotalTimeout + (Grain - 1)
    BY <1>4, <2>1, TimerIsBounded
  <2>3. /\ spent' \in Cost /\ spent'.calls = cost.calls + 1 /\ spent'.response = cost.response
        /\ spent'.structure = cost.structure /\ spent'.pages = cost.pages
    <3>1. PICK one \in Nat : one = cost.calls + 1
      BY <1>1 DEF Cost
    <3>2. /\ [cost EXCEPT !.calls = one] \in Cost /\ [cost EXCEPT !.calls = one].calls = one
          /\ [cost EXCEPT !.calls = one].response = cost.response
          /\ [cost EXCEPT !.calls = one].structure = cost.structure
          /\ [cost EXCEPT !.calls = one].pages = cost.pages
      BY <1>1 DEF Cost
    <3>3. spent' = [cost EXCEPT !.calls = one]
      BY <1>4, <3>1
    <3>4. QED
      BY <3>1, <3>2, <3>3
  <2>4. Sound(work', spent')
    BY <1>1, <1>2, <1>4, <2>3 DEF Sound
  <2>5. QED
    BY <1>2, <1>4, <2>2, <2>3, <2>4 DEF Calling
<1>5. QED
  BY <1>3, <1>4 DEF Pages!Begin

\* What the sources that are done with leave behind.
Complete(w, cost, found) ==
  /\ Sound(w, cost) /\ w.text = Pages!Weight(found) /\ Pairs(found) = cost.pages

\* The next source is taken, refused, or the last was behind.
LEMMA SourceIsTaken ==
  ASSUME PagesTypes, NEW i \in Nat, i >= 1, i <= Len(sources) + 1, NEW w, NEW cost, NEW found \in Evidence,
         \A j \in 1..(i - 1) : sources[j].bound /\ sources[j].fresh,
         Complete(w, cost, found), Pages!TakeSource(i, w, cost, found)
  PROVE  \/ Failing /\ timer' = timer /\ turn' \in {turn, i} /\ (turn' = i => i <= Len(sources) \/ turn' = turn)
         \/ /\ Calling("document") /\ turn' = i /\ i <= Len(sources) /\ sources[i].bound /\ sources[i].fresh
            /\ work'.text = w.text /\ spent'.pages = cost.pages
         \/ /\ pagesAt' = "returned" /\ work' = w /\ spent' = cost /\ UNCHANGED <<turn, timer, pagesCode>>
            /\ i = Len(sources) + 1 /\ Len(found) <= MaxEvidence
<1>1. Sound(w, cost) /\ w \in Work /\ cost \in Cost /\ w.calls = cost.calls /\ cost.calls <= MaxCalls
  BY DEF Complete, Sound
<1>2. Len(sources) \in Nat
  BY DEF PagesTypes
<1>3. CASE i <= Len(sources) /\ sources[i].bound /\ sources[i].fresh /\ turn' = i /\ Pages!Begin("document", w, cost)
  <2>1. \/ Failing /\ timer' = timer
        \/ Calling("document") /\ work'.text = w.text /\ spent'.pages = cost.pages
    <3>1. "document" \in Pages!Calls
      BY DEF Pages!Calls
    <3>2. QED
      BY <1>1, <1>3, <3>1, CallBegins
  <2>2. QED
    BY <1>3, <2>1
<1>4. CASE /\ i <= Len(sources) /\ ~(sources[i].bound /\ sources[i].fresh)
           /\ Pages!Fail(w, "adapter_failure") /\ turn' = i /\ spent' = cost
  BY <1>1, <1>4 DEF Failing, Pages!Fail
<1>5. CASE /\ i > Len(sources) /\ Len(found) <= MaxEvidence
           /\ pagesAt' = "returned" /\ work' = w /\ spent' = cost /\ UNCHANGED <<turn, timer, pagesCode>>
  BY <1>2, <1>5
<1>6. CASE /\ i > Len(sources) /\ Len(found) > MaxEvidence
           /\ Pages!Fail(w, "adapter_failure") /\ spent' = cost /\ UNCHANGED turn
  BY <1>1, <1>6 DEF Failing, Pages!Fail
<1>7. QED
  BY <1>3, <1>4, <1>5, <1>6 DEF Pages!TakeSource

-------------------------------------------------------------------------------
\* The types that are left as they are, or changed within their bounds.

Kept == sources' = sources /\ now' = now

\* A retrieval that fails needs no more than its types.
LEMMA PagesFailed ==
  ASSUME PagesInv, Failing, Kept, timer' = timer, turn' \in {turn} \cup DOMAIN sources,
         part' \in 0..MaxParts, parts' \in Nat, pageCount' \in Nat, chosen' \in Seq(Nat),
         evidence' \in Evidence, \A i \in DOMAIN evidence' : evidence'[i].source <= turn'
  PROVE  PagesInv'
<1>1. PagesTypes'
  BY DEF PagesInv, PagesTypes, Failing, Kept
<1>2. Pages!TypeOK'
  BY <1>1 DEF PagesInv, PagesTypes, Pages!TypeOK, Failing, Kept, Pages!Calls
<1>3. BudgetInv' /\ TurnInv' /\ Pages!EvidenceIsWhole'
  BY DEF Failing, BudgetInv, TurnInv, Pages!EvidenceIsWhole, Pages!Calls
<1>4. QED
  BY <1>1, <1>2, <1>3 DEF PagesInv

\* A sum is no less than a part.
LEMMA Slack == ASSUME NEW a \in Nat, NEW b \in Nat, NEW c \in Nat, a <= b PROVE a <= b + c
OBVIOUS

\* What a step that makes the next call must have kept.
LEMMA PagesCalled ==
  ASSUME PagesInv, NEW call \in Pages!Calls, Calling(call), Kept, pagesCode = "none",
         turn' \in DOMAIN sources, \A i \in 1..turn' : sources[i].bound /\ sources[i].fresh,
         part' \in 0..MaxParts, parts' \in Nat, pageCount' \in Nat, chosen' \in Seq(Nat),
         evidence' \in Evidence, \A i \in DOMAIN evidence' : evidence'[i].source <= turn',
         work'.text = Pages!Weight(evidence'), From(evidence') = 1..(turn' - 1),
         call # "content" => Pairs(evidence') = spent'.pages,
         call = "content" => Pairs(evidence') \o PairsOf(turn', chosen') = spent'.pages /\ Len(chosen') >= 1,
         call = "structure" => part' \in 1..MaxParts /\ (part' > 1 => parts' <= MaxParts /\ part' <= parts')
  PROVE  PagesInv'
<1>1. work' \in Work /\ spent' \in Cost /\ spent'.calls <= MaxCalls /\ work'.calls = spent'.calls
  BY DEF Calling, Sound
<1>2. PagesTypes'
  BY <1>1 DEF PagesInv, PagesTypes, Calling, Kept
<1>3. Pages!TypeOK'
  <2>1. now' <= timer' + Lag /\ timer' <= now' + CallTimeout
    <3>1. Lag \in Nat /\ CallTimeout \in Nat /\ now \in Nat /\ timer' \in Nat /\ now <= timer' /\ timer' <= now + CallTimeout /\ now' = now
      BY RetrievalAssumption DEF Pages!BudgetAssumption, Calling, Kept, PagesInv, PagesTypes
    <3>2. now' \in Nat /\ now' <= timer'
      BY <3>1
    <3>3. timer' <= now' + CallTimeout
      BY <3>1
    <3>4. now' <= timer' + Lag
      BY <3>1, <3>2, Slack
    <3>5. QED
      BY <3>3, <3>4
  <2>2. turn' \in 0..Len(sources')
    BY DEF Kept, PagesInv, PagesTypes
  <2>3. pagesAt' \in Pages!Calls /\ pagesAt' # "failed" /\ pagesCode' = "none" /\ sources' \in Listed
    BY DEF Calling, Pages!Calls, Kept, PagesInv, Pages!TypeOK
  <2>4. QED
    BY <1>1, <2>1, <2>2, <2>3 DEF Pages!TypeOK, Kept
<1>4. BudgetInv'
  <2>1. pagesAt' # "idle" /\ Sound(work', spent')
    BY DEF Calling, Pages!Calls
  <2>2. QED
    BY <1>1, <2>1 DEF BudgetInv
<1>5. TurnInv'
  BY DEF TurnInv, Calling, Kept
<1>6. Pages!EvidenceIsWhole'
  BY DEF Calling, Pages!EvidenceIsWhole, Pages!Calls
<1>7. QED
  BY <1>2, <1>3, <1>4, <1>5, <1>6 DEF PagesInv

\* What every call in progress may rely on.
LEMMA AtCall ==
  ASSUME PagesInv, pagesAt \in Pages!Calls
  PROVE  /\ PagesTypes /\ pagesCode = "none" /\ Sound(work, spent) /\ work.text = Pages!Weight(evidence)
         /\ turn \in DOMAIN sources /\ turn >= 1 /\ \A i \in 1..turn : sources[i].bound /\ sources[i].fresh
         /\ From(evidence) = 1..(turn - 1) /\ \A i \in DOMAIN evidence : evidence[i].source <= turn
         /\ timer <= TotalTimeout + (Grain - 1) /\ timer <= now + CallTimeout /\ now <= timer + Lag
<1>1. pagesAt # "failed"
  BY DEF Pages!Calls
<1>2. turn \in DOMAIN sources /\ PagesTypes /\ turn >= 1
  BY DEF PagesInv, Pages!TypeOK, PagesTypes
<1>3. QED
  BY <1>1, <1>2 DEF PagesInv, BudgetInv, TurnInv, Pages!TypeOK

\* No pieces weigh nothing.
LEMMA NoPieces == Pairs(<<>>) = <<>> /\ From(<<>>) = {} /\ Pages!Weight(<<>>) = 0 /\ <<>> \in Evidence
<1>1. Pairs(<<>>) = <<>>
  BY DEF Pairs
<1>2. From(<<>>) = {}
  BY DEF From
<1>3. UNION {{i} \X (1..(<<>>)[i].bytes) : i \in DOMAIN <<>>} = {}
  OBVIOUS
<1>4. Pages!Weight(<<>>) = Cardinality({})
  BY <1>3 DEF Pages!Weight, Pages!Cardinality, Cardinality, Pages!IsFiniteSet, IsFiniteSet
<1>5. QED
  BY <1>1, <1>2, <1>4, FS_EmptySet DEF Evidence

LEMMA ExecuteKept == ASSUME PagesInv, Pages!Execute PROVE PagesInv'
<1>. USE RetrievalAssumption DEF Pages!BudgetAssumption
<1>1. /\ PagesTypes /\ pagesAt = "idle" /\ pagesCode = "none" /\ turn = 0 /\ evidence = <<>> /\ spent.pages = <<>>
      /\ work.text = 0
  BY DEF PagesInv, Pages!Execute, Pages!TypeOK, BudgetInv, Pages!Calls
<1>2. Sound(work, spent)
  <2>1. /\ work = [calls |-> 0, response |-> 0, structure |-> 0, text |-> 0, pages |-> 0]
        /\ spent = [calls |-> 0, response |-> 0, structure |-> 0, pages |-> <<>>] /\ RequestBytes <= MaxEgress
    BY DEF PagesInv, BudgetInv, Pages!Execute
  <2>2. work \in Work /\ spent \in Cost
    BY <1>1 DEF PagesTypes
  <2>3. Len(<<>>) = 0
    OBVIOUS
  <2>4. QED
    BY <2>1, <2>2, <2>3 DEF Sound
<1>3. Complete(work, spent, evidence)
  BY <1>1, <1>2, NoPieces DEF Complete
<1>4. \/ Failing /\ timer' = timer /\ turn' \in {turn, 1} /\ (turn' = 1 => 1 <= Len(sources) \/ turn' = turn)
      \/ /\ Calling("document") /\ turn' = 1 /\ 1 <= Len(sources) /\ sources[1].bound /\ sources[1].fresh
         /\ work'.text = work.text /\ spent'.pages = spent.pages
      \/ /\ pagesAt' = "returned" /\ work' = work /\ spent' = spent /\ UNCHANGED <<turn, timer, pagesCode>>
         /\ 1 = Len(sources) + 1 /\ Len(evidence) <= MaxEvidence
  <2>1. evidence \in Evidence /\ Len(sources) \in Nat
    BY <1>1 DEF PagesTypes
  <2>2. 1 <= Len(sources) + 1 /\ \A j \in 1..(1 - 1) : sources[j].bound /\ sources[j].fresh
    BY <2>1
  <2>. DEFINE first == 1
  <2>3. first \in Nat /\ first >= 1 /\ first <= Len(sources) + 1 /\ first = 1
    BY <2>1
  <2>4. \A j \in 1..(first - 1) : sources[j].bound /\ sources[j].fresh
    BY <2>2
  <2>5. Pages!TakeSource(first, work, spent, evidence)
    BY DEF Pages!Execute
  <2>. HIDE DEF first
  <2>6. \/ Failing /\ timer' = timer /\ turn' \in {turn, first} /\ (turn' = first => first <= Len(sources) \/ turn' = turn)
        \/ /\ Calling("document") /\ turn' = first /\ first <= Len(sources) /\ sources[first].bound /\ sources[first].fresh
           /\ work'.text = work.text /\ spent'.pages = spent.pages
        \/ /\ pagesAt' = "returned" /\ work' = work /\ spent' = spent /\ UNCHANGED <<turn, timer, pagesCode>>
           /\ first = Len(sources) + 1 /\ Len(evidence) <= MaxEvidence
    BY <1>1, <1>3, <2>1, <2>3, <2>4, <2>5, SourceIsTaken
  <2>7. QED
    BY <2>3, <2>6
<1>5. Kept /\ UNCHANGED <<part, parts, pageCount, chosen, evidence>>
  BY DEF Pages!Execute, Kept
<1>6. CASE Failing /\ timer' = timer /\ turn' \in {turn, 1} /\ (turn' = 1 => 1 <= Len(sources) \/ turn' = turn)
  <2>1. turn' \in {turn} \cup DOMAIN sources
    <3>1. DOMAIN sources = 1..Len(sources) /\ Len(sources) \in Nat
      BY <1>1 DEF PagesTypes
    <3>2. 1 <= Len(sources) => 1 \in DOMAIN sources
      BY <3>1
    <3>3. QED
      BY <1>6, <3>2
  <2>2. \A i \in DOMAIN evidence' : evidence'[i].source <= turn'
    BY <1>1, <1>5
  <2>3. QED
    BY <1>1, <1>5, <1>6, <2>1, <2>2, PagesFailed DEF PagesTypes
<1>7. CASE /\ Calling("document") /\ turn' = 1 /\ 1 <= Len(sources) /\ sources[1].bound /\ sources[1].fresh
           /\ work'.text = work.text /\ spent'.pages = spent.pages
  <2>1. "document" \in Pages!Calls
    BY DEF Pages!Calls
  <2>2. turn' \in DOMAIN sources /\ \A i \in 1..turn' : sources[i].bound /\ sources[i].fresh
    <3>1. DOMAIN sources = 1..Len(sources) /\ Len(sources) \in Nat
      BY <1>1 DEF PagesTypes
    <3>2. 1 \in DOMAIN sources /\ 1..1 = {1}
      BY <1>7, <3>1
    <3>3. QED
      BY <1>7, <3>2
  <2>3. work'.text = Pages!Weight(evidence') /\ From(evidence') = 1..(turn' - 1) /\ Pairs(evidence') = spent'.pages
    BY <1>1, <1>5, <1>7, NoPieces
  <2>4. \A i \in DOMAIN evidence' : evidence'[i].source <= turn'
    BY <1>1, <1>5
  <2>5. part' \in 0..MaxParts /\ parts' \in Nat /\ pageCount' \in Nat /\ chosen' \in Seq(Nat) /\ evidence' \in Evidence
    BY <1>1, <1>5 DEF PagesTypes
  <2>6. QED
    BY <1>1, <1>5, <1>7, <2>1, <2>2, <2>3, <2>4, <2>5, PagesCalled
<1>8. CASE /\ pagesAt' = "returned" /\ work' = work /\ spent' = spent /\ UNCHANGED <<turn, timer, pagesCode>>
           /\ 1 = Len(sources) + 1 /\ Len(evidence) <= MaxEvidence
  <2>1. PagesTypes'
    BY <1>1, <1>5, <1>8 DEF PagesTypes, Kept
  <2>2. Pages!TypeOK'
    BY <1>1, <1>5, <1>8 DEF Pages!TypeOK, Kept, PagesInv, Pages!Calls
  <2>3. BudgetInv' /\ TurnInv'
    BY <1>1, <1>2, <1>5, <1>8, NoPieces DEF BudgetInv, TurnInv, Pages!Calls, Sound
  <2>4. Pages!EvidenceIsWhole'
    <3>1. sources = <<>>
      BY <1>1, <1>8 DEF PagesTypes
    <3>2. [i \in DOMAIN evidence' |-> <<evidence'[i].source, evidence'[i].page>>] = spent'.pages
      BY <1>1, <1>5, <1>8
    <3>3. {evidence'[i].source : i \in DOMAIN evidence'} = DOMAIN sources'
      BY <1>1, <1>5, <3>1 DEF Kept
    <3>4. Len(evidence') <= MaxEvidence /\ \A i \in DOMAIN sources' : sources'[i].bound /\ sources'[i].fresh
      BY <1>1, <1>5, <1>8, <3>1 DEF Kept
    <3>5. work'.text = Pages!Weight(evidence') /\ work'.text <= MaxText /\ RequestBytes + work'.text <= MaxEgress
      BY <1>1, <1>2, <1>5, <1>8, NoPieces DEF Sound
    <3>6. QED
      BY <3>2, <3>3, <3>4, <3>5 DEF Pages!EvidenceIsWhole
  <2>5. QED
    BY <2>1, <2>2, <2>3, <2>4 DEF PagesInv
<1>9. QED
  BY <1>4, <1>6, <1>7, <1>8

LEMMA RefuseKept == ASSUME PagesInv, Pages!Refuse PROVE PagesInv'
<1>1. PagesTypes /\ spent.calls <= MaxCalls /\ evidence = <<>> /\ work.calls = spent.calls
  BY DEF PagesInv, BudgetInv, Pages!Refuse, Pages!Calls
<1>2. Failing /\ timer' = timer
  BY <1>1 DEF Pages!Refuse, Pages!Fail, Failing, PagesTypes
<1>3. Kept /\ UNCHANGED <<turn, part, parts, pageCount, chosen, evidence>>
  BY DEF Pages!Refuse, Kept
<1>4. QED
  BY <1>1, <1>2, <1>3, PagesFailed DEF PagesTypes

\* A call fails for its client, its selector or its timer.
LEMMA CallFails ==
  ASSUME PagesInv, pagesAt \in Pages!Calls, NEW c, c # "none", Pages!Fail(work, c),
         UNCHANGED <<sources, now, turn, part, parts, pageCount, chosen, evidence, spent>>
  PROVE  PagesInv'
<1>1. PagesTypes /\ Sound(work, spent) /\ \A i \in DOMAIN evidence : evidence[i].source <= turn
  BY AtCall
<1>2. Failing /\ timer' = timer
  BY <1>1 DEF Pages!Fail, Failing, PagesTypes, Sound
<1>3. QED
  BY <1>1, <1>2, PagesFailed DEF PagesTypes, Kept

LEMMA RejectKept == ASSUME PagesInv, Pages!Reject PROVE PagesInv'
<1>1. PICK c \in Pages!StageCodes : Pages!Fail(work, c)
  BY DEF Pages!Reject
<1>2. c # "none"
  BY DEF Pages!StageCodes
<1>3. QED
  BY <1>1, <1>2, CallFails DEF Pages!Reject

LEMMA TimerKept == ASSUME PagesInv, Pages!Timer PROVE PagesInv'
  BY CallFails DEF Pages!Timer

LEMMA TickKept == ASSUME PagesInv, Pages!Tick PROVE PagesInv'
<1>1. /\ pagesAt \in Pages!Calls /\ now < timer + Lag /\ now' = now + 1
      /\ UNCHANGED <<sources, pagesAt, timer, turn, part, parts, pageCount, chosen, work, evidence, pagesCode, spent>>
  BY DEF Pages!Tick
<1>2. PagesTypes'
  BY <1>1 DEF PagesInv, PagesTypes
<1>3. Pages!TypeOK'
  <2>1. timer <= now' + CallTimeout /\ now' <= timer + Lag
    <3>1. now \in Nat /\ timer \in Nat /\ Lag \in Nat /\ CallTimeout \in Nat
      BY RetrievalAssumption DEF PagesInv, PagesTypes, Pages!BudgetAssumption
    <3>2. timer <= now + CallTimeout
      BY <1>1, AtCall
    <3>3. QED
      BY <1>1, <3>1, <3>2
  <2>2. QED
    BY <1>1, <2>1 DEF PagesInv, Pages!TypeOK
<1>4. BudgetInv'
  BY <1>1 DEF PagesInv, BudgetInv, Sound, Pages!Calls
<1>5. TurnInv'
  BY <1>1 DEF PagesInv, TurnInv
<1>6. Pages!EvidenceIsWhole'
  BY <1>1 DEF Pages!EvidenceIsWhole, Pages!Calls
<1>7. QED
  BY <1>2, <1>3, <1>4, <1>5, <1>6 DEF PagesInv

-------------------------------------------------------------------------------

\* A response that is counted, and is acceptable, keeps the budget; one that is
\* not fails the call.
LEMMA CountedSound ==
  ASSUME PagesInv, pagesAt \in Pages!Calls, NEW size \in Sizes
  PROVE  /\ Pages!Counted(size) \in Work /\ Pages!Charged(size) \in Cost
         /\ Pages!Counted(size) = [work EXCEPT !.response = work.response + size]
         /\ Pages!Charged(size).calls = spent.calls /\ Pages!Charged(size).pages = spent.pages
         /\ Pages!Charged(size).structure = spent.structure
         /\ Pages!Charged(size).response = spent.response + size
         /\ Pages!Acceptable(Pages!Counted(size)) => Sound(Pages!Counted(size), Pages!Charged(size))
<1>1. Sound(work, spent) /\ work \in Work /\ spent \in Cost
  BY AtCall DEF Sound
<1>2. size \in Nat
  BY RetrievalAssumption DEF Pages!BudgetAssumption
<1>3. /\ Pages!Counted(size) \in Work /\ Pages!Charged(size) \in Cost
      /\ Pages!Counted(size) = [work EXCEPT !.response = work.response + size]
      /\ Pages!Charged(size).calls = spent.calls /\ Pages!Charged(size).pages = spent.pages
      /\ Pages!Charged(size).structure = spent.structure
      /\ Pages!Charged(size).response = spent.response + size
  <2>1. Pages!Counted(size) \in Work /\ Pages!Counted(size) = [work EXCEPT !.response = work.response + size]
    BY <1>1, <1>2 DEF Pages!Counted, Work
  <2>2. Pages!Charged(size) = [spent EXCEPT !.response = spent.response + size]
    BY DEF Pages!Charged
  <2>3. Pages!Charged(size) \in Cost /\ Pages!Charged(size).response = spent.response + size
    <3>1. spent.response \in Nat /\ spent.response + size \in Nat
      BY <1>1, <1>2 DEF Cost
    <3>. DEFINE total == spent.response + size
    <3>. HIDE DEF total
    <3>2. [spent EXCEPT !.response = total] \in Cost /\ [spent EXCEPT !.response = total].response = total
      BY <1>1, <3>1 DEF Cost, total
    <3>3. QED
      BY <2>2, <3>2 DEF total
  <2>4. /\ Pages!Charged(size).calls = spent.calls /\ Pages!Charged(size).pages = spent.pages
        /\ Pages!Charged(size).structure = spent.structure
    BY <1>1, <2>2 DEF Cost
  <2>5. QED
    BY <2>1, <2>3, <2>4
<1>4. /\ Pages!Counted(size).response = work.response + size /\ Pages!Counted(size).calls = work.calls
      /\ Pages!Counted(size).structure = work.structure /\ Pages!Counted(size).pages = work.pages
      /\ Pages!Counted(size).text = work.text
  BY <1>1, <1>2 DEF Pages!Counted, Work
<1>5. QED
  BY <1>1, <1>3, <1>4 DEF Sound, Pages!Acceptable

\* What a call does with an answer that is of no use.
LEMMA UnusableFails ==
  ASSUME PagesInv, pagesAt \in Pages!Calls, NEW w \in Work, NEW cost \in Cost,
         w.calls = work.calls, cost.calls = spent.calls, Pages!Unusable(w, cost), Kept, UNCHANGED <<turn, evidence>>,
         part' \in 0..MaxParts, parts' \in Nat, pageCount' \in Nat, chosen' \in Seq(Nat)
  PROVE  PagesInv'
<1>1. PagesTypes /\ Sound(work, spent) /\ \A i \in DOMAIN evidence : evidence[i].source <= turn
  BY AtCall
<1>2. Failing /\ timer' = timer
  BY <1>1 DEF Pages!Unusable, Pages!Fail, Failing, Sound
<1>3. QED
  BY <1>1, <1>2, PagesFailed DEF PagesTypes

LEMMA DocumentKept == ASSUME PagesInv, Pages!Document PROVE PagesInv'
<1>. USE RetrievalAssumption DEF Pages!BudgetAssumption
<1>1. PICK size \in Sizes, fits \in BOOLEAN, pages \in PageCounts :
        /\ pageCount' = pages /\ part' = 1
        /\ \/ Pages!Acceptable(Pages!Counted(size)) /\ fits
              /\ Pages!Begin("structure", Pages!Counted(size), Pages!Charged(size))
           \/ ~(Pages!Acceptable(Pages!Counted(size)) /\ fits)
              /\ Pages!Unusable(Pages!Counted(size), Pages!Charged(size))
  BY DEF Pages!Document
<1>2. pagesAt \in Pages!Calls /\ pagesAt = "document" /\ Kept /\ UNCHANGED <<turn, parts, chosen, evidence>>
  BY DEF Pages!Document, Pages!Calls, Kept
<1>3. /\ PagesTypes /\ pagesCode = "none" /\ Sound(work, spent) /\ work.text = Pages!Weight(evidence)
      /\ turn \in DOMAIN sources /\ \A i \in 1..turn : sources[i].bound /\ sources[i].fresh
      /\ From(evidence) = 1..(turn - 1) /\ \A i \in DOMAIN evidence : evidence[i].source <= turn
  BY <1>2, AtCall
<1>4. part' \in 1..MaxParts /\ part' = 1 /\ parts' \in Nat /\ pageCount' \in Nat /\ chosen' \in Seq(Nat) /\ evidence' \in Evidence
  <2>1. MaxParts \in Nat \ {0} /\ pageCount' \in Nat
    BY <1>1
  <2>2. part' \in 1..MaxParts /\ part' = 1
    BY <1>1, <2>1
  <2>3. parts' \in Nat /\ chosen' \in Seq(Nat) /\ evidence' \in Evidence
    BY <1>2, <1>3 DEF PagesTypes
  <2>4. QED
    BY <2>1, <2>2, <2>3
<1>5. /\ Pages!Counted(size) \in Work /\ Pages!Charged(size) \in Cost
      /\ Pages!Counted(size) = [work EXCEPT !.response = work.response + size]
      /\ Pages!Charged(size).calls = spent.calls /\ Pages!Charged(size).pages = spent.pages
      /\ Pages!Acceptable(Pages!Counted(size)) => Sound(Pages!Counted(size), Pages!Charged(size))
  BY <1>2, CountedSound
<1>6. Pages!Counted(size).calls = work.calls /\ Pages!Counted(size).text = work.text
  BY <1>3, <1>5 DEF PagesTypes, Work
<1>7. CASE Pages!Unusable(Pages!Counted(size), Pages!Charged(size))
  <2>1. part' \in 0..MaxParts /\ UNCHANGED <<turn, evidence>>
    BY <1>2, <1>4
  <2>2. QED
    BY <1>2, <1>4, <1>5, <1>6, <1>7, <2>1, UnusableFails
<1>8. CASE /\ Pages!Acceptable(Pages!Counted(size))
           /\ Pages!Begin("structure", Pages!Counted(size), Pages!Charged(size))
  <2>1. "structure" \in Pages!Calls
    BY DEF Pages!Calls
  <2>2. \/ Failing /\ timer' = timer
        \/ /\ Calling("structure") /\ work'.text = Pages!Counted(size).text
           /\ spent'.pages = Pages!Charged(size).pages
    BY <1>3, <1>5, <1>8, <2>1, CallBegins
  <2>3. CASE Failing /\ timer' = timer
    BY <1>2, <1>3, <1>4, <2>3, PagesFailed
  <2>4. CASE Calling("structure") /\ work'.text = work.text /\ spent'.pages = spent.pages
    <3>1. Pairs(evidence') = spent'.pages
      BY <1>2, <2>4 DEF PagesInv, TurnInv
    <3>2. QED
      BY <1>2, <1>3, <1>4, <2>1, <2>4, <3>1, PagesCalled
  <2>5. QED
    BY <1>5, <1>6, <2>2, <2>3, <2>4
<1>9. QED
  BY <1>1, <1>7, <1>8

LEMMA StructureKept == ASSUME PagesInv, Pages!Structure PROVE PagesInv'
<1>1. PICK size \in Sizes, fits \in BOOLEAN, total \in 1..(MaxParts + 1), bytes \in Sizes :
        LET w == [Pages!Counted(size) EXCEPT !.structure = @ + bytes]
            cost == [Pages!Charged(size) EXCEPT !.structure = @ + bytes]
            good == /\ Pages!Acceptable(w) /\ fits /\ w.structure <= MaxStructure
                    /\ IF part = 1 THEN total <= MaxParts ELSE total = parts
        IN
        /\ parts' = total
        /\ \/ good /\ part < total /\ part' = part + 1 /\ Pages!Begin("structure", w, cost)
           \/ good /\ part = total /\ UNCHANGED part /\ Pages!Begin("select", w, cost)
           \/ ~good /\ Pages!Unusable(w, cost) /\ UNCHANGED part
  BY DEF Pages!Structure
<1>. DEFINE w == [Pages!Counted(size) EXCEPT !.structure = @ + bytes]
            cost == [Pages!Charged(size) EXCEPT !.structure = @ + bytes]
            good == /\ Pages!Acceptable(w) /\ fits /\ w.structure <= MaxStructure
                    /\ IF part = 1 THEN total <= MaxParts ELSE total = parts
<1>2. pagesAt \in Pages!Calls /\ pagesAt = "structure" /\ Kept /\ UNCHANGED <<turn, pageCount, chosen, evidence>>
  BY DEF Pages!Structure, Pages!Calls, Kept
<1>3. /\ PagesTypes /\ pagesCode = "none" /\ Sound(work, spent) /\ work.text = Pages!Weight(evidence)
      /\ turn \in DOMAIN sources /\ \A i \in 1..turn : sources[i].bound /\ sources[i].fresh
      /\ From(evidence) = 1..(turn - 1) /\ \A i \in DOMAIN evidence : evidence[i].source <= turn
  BY <1>2, AtCall
<1>4. MaxParts \in Nat \ {0} /\ bytes \in Nat /\ total \in Nat
  BY RetrievalAssumption DEF Pages!BudgetAssumption
<1>5. parts' \in Nat /\ pageCount' \in Nat /\ chosen' \in Seq(Nat) /\ evidence' \in Evidence /\ parts' = total
  BY <1>1, <1>2, <1>3, <1>4 DEF PagesTypes
<1>6. part \in 1..MaxParts /\ (part > 1 => parts <= MaxParts /\ part <= parts) /\ Pairs(evidence) = spent.pages
  BY <1>2 DEF PagesInv, TurnInv
<1>7. /\ Pages!Counted(size) \in Work /\ Pages!Charged(size) \in Cost
      /\ Pages!Counted(size) = [work EXCEPT !.response = work.response + size]
      /\ Pages!Charged(size).calls = spent.calls /\ Pages!Charged(size).pages = spent.pages
      /\ Pages!Charged(size).structure = spent.structure
      /\ Pages!Acceptable(Pages!Counted(size)) => Sound(Pages!Counted(size), Pages!Charged(size))
  BY <1>2, CountedSound
<1>8. /\ Pages!Counted(size).calls = work.calls /\ Pages!Counted(size).text = work.text
      /\ Pages!Counted(size).structure = work.structure
  BY <1>3, <1>7 DEF PagesTypes, Work
<1>9. /\ w \in Work /\ w.calls = work.calls /\ w.text = work.text /\ w.response = Pages!Counted(size).response
      /\ w.pages = Pages!Counted(size).pages /\ w.structure = work.structure + bytes
  <2>. DEFINE c == Pages!Counted(size)
  <2>1. c \in Work /\ c.structure + bytes \in Nat
    BY <1>4, <1>7 DEF Work
  <2>. HIDE DEF c
  <2>2. /\ [c EXCEPT !.structure = @ + bytes] \in Work /\ [c EXCEPT !.structure = @ + bytes].calls = c.calls
        /\ [c EXCEPT !.structure = @ + bytes].text = c.text /\ [c EXCEPT !.structure = @ + bytes].response = c.response
        /\ [c EXCEPT !.structure = @ + bytes].pages = c.pages
        /\ [c EXCEPT !.structure = @ + bytes].structure = c.structure + bytes
    BY <2>1 DEF Work
  <2>3. QED
    BY <2>2, <1>8 DEF c
<1>10. /\ cost \in Cost /\ cost.calls = spent.calls /\ cost.pages = spent.pages
       /\ cost.structure = spent.structure + bytes /\ cost.response = Pages!Charged(size).response
  <2>. DEFINE c == Pages!Charged(size)
  <2>1. c \in Cost /\ c.structure + bytes \in Nat
    BY <1>4, <1>7 DEF Cost
  <2>. HIDE DEF c
  <2>2. /\ [c EXCEPT !.structure = @ + bytes] \in Cost /\ [c EXCEPT !.structure = @ + bytes].calls = c.calls
        /\ [c EXCEPT !.structure = @ + bytes].response = c.response
        /\ [c EXCEPT !.structure = @ + bytes].pages = c.pages
        /\ [c EXCEPT !.structure = @ + bytes].structure = c.structure + bytes
    BY <2>1 DEF Cost
  <2>3. QED
    BY <2>2, <1>7 DEF c
<1>. HIDE DEF w, cost
<1>11. ASSUME good PROVE Sound(w, cost)
  <2>1. Pages!Acceptable(Pages!Counted(size))
    BY <1>9, <1>11 DEF Pages!Acceptable
  <2>2. Sound(Pages!Counted(size), Pages!Charged(size))
    BY <1>7, <2>1
  <2>3. w.structure = cost.structure /\ cost.structure <= MaxStructure
    BY <1>3, <1>9, <1>10, <1>11 DEF Sound
  <2>4. QED
    BY <1>3, <1>7, <1>8, <1>9, <1>10, <2>2, <2>3 DEF Sound
<1>12. ASSUME NEW call \in {"structure", "select"}, good, Pages!Begin(call, w, cost),
              call = "structure" => part' \in 1..MaxParts /\ (part' > 1 => parts' <= MaxParts /\ part' <= parts'),
              part' \in 0..MaxParts
       PROVE  PagesInv'
  <2>1. call \in Pages!Calls /\ call # "content"
    BY DEF Pages!Calls
  <2>2. \/ Failing /\ timer' = timer
        \/ Calling(call) /\ work'.text = w.text /\ spent'.pages = cost.pages
    BY <1>3, <1>11, <1>12, <2>1, CallBegins
  <2>3. CASE Failing /\ timer' = timer
    BY <1>2, <1>3, <1>5, <1>12, <2>3, PagesFailed
  <2>4. CASE Calling(call) /\ work'.text = w.text /\ spent'.pages = cost.pages
    <3>1. Pairs(evidence') = spent'.pages /\ work'.text = Pages!Weight(evidence')
      BY <1>2, <1>3, <1>6, <1>9, <1>10, <2>4
    <3>2. QED
      BY <1>2, <1>3, <1>5, <1>12, <2>1, <2>4, <3>1, PagesCalled
  <2>5. QED
    BY <2>2, <2>3, <2>4
<1>13. CASE good /\ part < total /\ part' = part + 1 /\ Pages!Begin("structure", w, cost)
  <2>1. total <= MaxParts
    BY <1>4, <1>6, <1>13
  <2>2. part' \in 1..MaxParts /\ parts' <= MaxParts /\ part' <= parts'
    BY <1>4, <1>5, <1>6, <1>13, <2>1
  <2>3. QED
    BY <1>12, <1>13, <2>2
<1>14. CASE good /\ part = total /\ UNCHANGED part /\ Pages!Begin("select", w, cost)
  <2>1. part' \in 0..MaxParts
    BY <1>6, <1>14
  <2>2. QED
    BY <1>12, <1>14, <2>1
<1>15. CASE Pages!Unusable(w, cost) /\ UNCHANGED part
  <2>1. part' \in 0..MaxParts
    BY <1>6, <1>15
  <2>2. QED
    BY <1>2, <1>5, <1>9, <1>10, <1>15, <2>1, UnusableFails
<1>16. QED
  BY <1>1, <1>13, <1>14, <1>15 DEF w, cost

\* The pages of an answer, in some order, added to those that were selected.
LEMMA SequenceOf == ASSUME NEW S, NEW n \in Nat, NEW f \in [1..n -> S] PROVE f \in Seq(S) /\ Len(f) = n
OBVIOUS

\* The pages picked from a source are pairs of it, as many.
LEMMA PickedPages ==
  ASSUME NEW s \in Seq(Nat), NEW t \in Nat
  PROVE  PairsOf(t, s) \in Seq(Nat \X Nat) /\ Len(PairsOf(t, s)) = Len(s)
<1>1. PICK n \in Nat : n = Len(s)
  OBVIOUS
<1>2. DOMAIN s = 1..n /\ \A i \in 1..n : s[i] \in Nat
  BY <1>1, ElementOfSeq
<1>3. PairsOf(t, s) = [i \in 1..n |-> <<t, s[i]>>]
  BY <1>2 DEF PairsOf
<1>4. PairsOf(t, s) \in [1..n -> Nat \X Nat]
  BY <1>2, <1>3
<1>5. QED
  BY <1>1, <1>4

\* Pages put in order are as many.
LEMMA AscendingPages ==
  ASSUME NEW s \in Seq(Nat), NEW o \in Pages!Ascending(s)
  PROVE  o \in Seq(Nat) /\ Len(o) = Len(s)
<1>1. PICK n \in Nat : n = Len(s) /\ DOMAIN s = 1..n
  OBVIOUS
<1>2. \A i \in 1..n : s[i] \in Nat
  BY <1>1, ElementOfSeq
<1>3. Pages!Range(s) \subseteq Nat
  BY <1>1, <1>2 DEF Pages!Range
<1>4. o \in [1..n -> Nat]
  BY <1>1, <1>3 DEF Pages!Ascending
<1>5. QED
  BY <1>1, <1>4

LEMMA SelectKept == ASSUME PagesInv, Pages!Select PROVE PagesInv'
<1>1. PICK pages \in SelectorAnswers :
        LET w == [work EXCEPT !.pages = @ + Len(pages)]
            good == /\ Pages!InTime
                    /\ Len(pages) \in 1..MaxPagesPerSource /\ Pages!IsInjective(pages)
                    /\ Pages!Range(pages) \subseteq 1..pageCount
        IN
        \/ /\ good /\ w.pages <= MaxPages /\ chosen' \in Pages!Ascending(pages)
           /\ Pages!Begin("content", w, Pages!Picked(chosen'))
        \/ good /\ w.pages > MaxPages /\ Pages!Unusable(w, Pages!Picked(pages)) /\ UNCHANGED chosen
        \/ ~good /\ Pages!Unusable(work, spent) /\ UNCHANGED chosen
  BY DEF Pages!Select
<1>. DEFINE w == [work EXCEPT !.pages = @ + Len(pages)]
<1>2. pagesAt \in Pages!Calls /\ pagesAt = "select" /\ Kept /\ UNCHANGED <<turn, part, parts, pageCount, evidence>>
  BY DEF Pages!Select, Pages!Calls, Kept
<1>3. /\ PagesTypes /\ pagesCode = "none" /\ Sound(work, spent) /\ work.text = Pages!Weight(evidence)
      /\ turn \in DOMAIN sources /\ \A i \in 1..turn : sources[i].bound /\ sources[i].fresh
      /\ From(evidence) = 1..(turn - 1) /\ \A i \in DOMAIN evidence : evidence[i].source <= turn
  BY <1>2, AtCall
<1>4. pages \in Seq(Nat) /\ Len(pages) \in Nat
  BY RetrievalAssumption DEF Pages!BudgetAssumption
<1>5. part' \in 0..MaxParts /\ parts' \in Nat /\ pageCount' \in Nat /\ evidence' \in Evidence
  BY <1>2, <1>3 DEF PagesTypes
<1>6. Pairs(evidence) = spent.pages
  BY <1>2 DEF PagesInv, TurnInv
<1>7. work \in Work /\ spent \in Cost /\ turn \in Nat /\ chosen \in Seq(Nat)
  BY <1>3 DEF PagesTypes
<1>8. /\ w \in Work /\ w.calls = work.calls /\ w.text = work.text /\ w.response = work.response
      /\ w.structure = work.structure /\ w.pages = work.pages + Len(pages)
  <2>1. PICK more \in Nat : more = Len(pages)
    BY <1>4
  <2>2. work.pages + more \in Nat
    BY <1>7 DEF Work
  <2>3. /\ [work EXCEPT !.pages = @ + more] \in Work /\ [work EXCEPT !.pages = @ + more].calls = work.calls
        /\ [work EXCEPT !.pages = @ + more].text = work.text
        /\ [work EXCEPT !.pages = @ + more].response = work.response
        /\ [work EXCEPT !.pages = @ + more].structure = work.structure
        /\ [work EXCEPT !.pages = @ + more].pages = work.pages + more
    BY <1>7, <2>2 DEF Work
  <2>4. QED
    BY <2>1, <2>3
<1>9. ASSUME NEW s \in Seq(Nat)
      PROVE  /\ Pages!Picked(s) \in Cost /\ Pages!Picked(s).calls = spent.calls
             /\ Pages!Picked(s).response = spent.response /\ Pages!Picked(s).structure = spent.structure
             /\ Pages!Picked(s).pages = spent.pages \o PairsOf(turn, s)
             /\ Len(Pages!Picked(s).pages) = Len(spent.pages) + Len(s)
  <2>. DEFINE q == spent.pages \o PairsOf(turn, s)
  <2>1. spent.pages \in Seq(Nat \X Nat)
    BY <1>7 DEF Cost
  <2>2. q \in Seq(Nat \X Nat) /\ Len(q) = Len(spent.pages) + Len(s)
    <3>. DEFINE x == PairsOf(turn, s)
    <3>1. x \in Seq(Nat \X Nat) /\ Len(x) = Len(s)
      BY <1>7, PickedPages
    <3>. HIDE DEF x
    <3>2. spent.pages \o x \in Seq(Nat \X Nat) /\ Len(spent.pages \o x) = Len(spent.pages) + Len(x)
      BY <2>1, <3>1, JoinedPairs
    <3>3. QED
      BY <3>1, <3>2 DEF x
  <2>3. Pages!Picked(s) = [spent EXCEPT !.pages = q]
    BY DEF Pages!Picked, PairsOf
  <2>. HIDE DEF q
  <2>4. /\ [spent EXCEPT !.pages = q] \in Cost /\ [spent EXCEPT !.pages = q].calls = spent.calls
        /\ [spent EXCEPT !.pages = q].response = spent.response
        /\ [spent EXCEPT !.pages = q].structure = spent.structure /\ [spent EXCEPT !.pages = q].pages = q
    BY <1>7, <2>2 DEF Cost
  <2>5. QED
    BY <2>2, <2>3, <2>4 DEF q
<1>. HIDE DEF w
<1>10. CASE /\ Len(pages) \in 1..MaxPagesPerSource /\ w.pages <= MaxPages /\ chosen' \in Pages!Ascending(pages)
            /\ Pages!Begin("content", w, Pages!Picked(chosen'))
  <2>1. chosen' \in Seq(Nat) /\ Len(chosen') = Len(pages)
    BY <1>4, <1>10, AscendingPages
  <2>. DEFINE cost == Pages!Picked(chosen')
  <2>2. /\ cost \in Cost /\ cost.calls = spent.calls /\ cost.response = spent.response
        /\ cost.structure = spent.structure /\ cost.pages = spent.pages \o PairsOf(turn, chosen')
        /\ Len(cost.pages) = Len(spent.pages) + Len(pages)
    BY <1>9, <2>1
  <2>. HIDE DEF cost
  <2>3. Sound(w, cost)
    BY <1>3, <1>8, <1>10, <2>2 DEF Sound
  <2>4. "content" \in Pages!Calls
    BY DEF Pages!Calls
  <2>5. \/ Failing /\ timer' = timer
        \/ Calling("content") /\ work'.text = w.text /\ spent'.pages = cost.pages
    BY <1>3, <1>10, <2>3, <2>4, CallBegins DEF cost
  <2>6. CASE Failing /\ timer' = timer
    BY <1>2, <1>3, <1>5, <2>1, <2>6, PagesFailed
  <2>7. CASE Calling("content") /\ work'.text = w.text /\ spent'.pages = cost.pages
    <3>1. Pairs(evidence') \o PairsOf(turn', chosen') = spent'.pages /\ work'.text = Pages!Weight(evidence')
      BY <1>2, <1>3, <1>6, <1>8, <2>2, <2>7
    <3>2. Len(chosen') >= 1
      BY <1>10, <2>1
    <3>3. QED
      BY <1>2, <1>3, <1>5, <2>1, <2>4, <2>7, <3>1, <3>2, PagesCalled
  <2>8. QED
    BY <2>5, <2>6, <2>7
<1>11. CASE Pages!Unusable(w, Pages!Picked(pages)) /\ UNCHANGED chosen
  BY <1>2, <1>4, <1>5, <1>7, <1>8, <1>9, <1>11, UnusableFails
<1>12. CASE Pages!Unusable(work, spent) /\ UNCHANGED chosen
  BY <1>2, <1>5, <1>7, <1>12, UnusableFails
<1>13. QED
  BY <1>1, <1>10, <1>11, <1>12 DEF w

LEMMA ContentKept == ASSUME PagesInv, Pages!Content PROVE PagesInv'
<1>1. PICK returned \in SelectorAnswers, size \in Sizes, bytes \in Sizes, fits \in BOOLEAN :
        LET w == [Pages!Counted(size) EXCEPT !.text = @ + bytes * Len(returned)]
            pieces == [i \in DOMAIN returned |-> [source |-> turn, page |-> returned[i], bytes |-> bytes]]
        IN
        \/ /\ Pages!Acceptable(w) /\ fits /\ Pages!AskedFor(returned)
           /\ w.text <= MaxText /\ RequestBytes + w.text <= MaxEgress
           /\ evidence' = evidence \o pieces
           /\ Pages!TakeSource(turn + 1, w, Pages!Charged(size), evidence')
        \/ /\ ~(/\ Pages!Acceptable(w) /\ fits /\ Pages!AskedFor(returned)
                /\ w.text <= MaxText /\ RequestBytes + w.text <= MaxEgress)
           /\ Pages!Unusable(Pages!Counted(size), Pages!Charged(size)) /\ UNCHANGED <<turn, evidence>>
  BY ZenonT(60) DEF Pages!Content
<1>. DEFINE w == [Pages!Counted(size) EXCEPT !.text = @ + bytes * Len(returned)]
            pieces == [i \in DOMAIN returned |-> [source |-> turn, page |-> returned[i], bytes |-> bytes]]
            cost == Pages!Charged(size)
<1>2. pagesAt \in Pages!Calls /\ pagesAt = "content" /\ Kept /\ UNCHANGED <<part, parts, pageCount, chosen>>
  BY DEF Pages!Content, Pages!Calls, Kept
<1>3. /\ PagesTypes /\ pagesCode = "none" /\ Sound(work, spent) /\ work.text = Pages!Weight(evidence)
      /\ turn \in DOMAIN sources /\ turn >= 1 /\ \A i \in 1..turn : sources[i].bound /\ sources[i].fresh
      /\ From(evidence) = 1..(turn - 1) /\ \A i \in DOMAIN evidence : evidence[i].source <= turn
  BY <1>2, AtCall
<1>4. returned \in Seq(Nat) /\ bytes \in Nat /\ turn \in Nat /\ evidence \in Evidence /\ Len(sources) \in Nat /\ turn <= Len(sources)
  <2>1. returned \in Seq(Nat) /\ bytes \in Nat
    BY RetrievalAssumption DEF Pages!BudgetAssumption
  <2>2. turn \in Nat /\ evidence \in Evidence /\ Len(sources) \in Nat /\ DOMAIN sources = 1..Len(sources)
    BY <1>3 DEF PagesTypes
  <2>3. turn <= Len(sources)
    BY <1>3, <2>2
  <2>4. QED
    BY <2>1, <2>2, <2>3
<1>5. part' \in 0..MaxParts /\ parts' \in Nat /\ pageCount' \in Nat /\ chosen' \in Seq(Nat)
  BY <1>2, <1>3 DEF PagesTypes
<1>6. Pairs(evidence) \o PairsOf(turn, chosen) = spent.pages /\ Len(chosen) >= 1
  BY <1>2 DEF PagesInv, TurnInv
<1>7. /\ Pages!Counted(size) \in Work /\ cost \in Cost
      /\ Pages!Counted(size) = [work EXCEPT !.response = work.response + size]
      /\ cost.calls = spent.calls /\ cost.pages = spent.pages
      /\ Pages!Acceptable(Pages!Counted(size)) => Sound(Pages!Counted(size), cost)
  BY <1>2, CountedSound
<1>8. Pages!Counted(size).calls = work.calls /\ Pages!Counted(size).text = work.text
  BY <1>3, <1>7 DEF PagesTypes, Work
<1>9. /\ w \in Work /\ w.calls = work.calls /\ w.response = Pages!Counted(size).response
      /\ w.pages = Pages!Counted(size).pages /\ w.structure = Pages!Counted(size).structure
      /\ w.text = work.text + bytes * Len(returned)
  <2>. DEFINE c == Pages!Counted(size)
  <2>1. PICK more \in Nat : more = bytes * Len(returned)
    <3>1. Len(returned) \in Nat
      BY <1>4
    <3>2. QED
      BY <1>4, <3>1
  <2>2. c \in Work /\ c.text + more \in Nat
    BY <1>7 DEF Work
  <2>. HIDE DEF c
  <2>3. /\ [c EXCEPT !.text = @ + more] \in Work /\ [c EXCEPT !.text = @ + more].calls = c.calls
        /\ [c EXCEPT !.text = @ + more].response = c.response
        /\ [c EXCEPT !.text = @ + more].pages = c.pages
        /\ [c EXCEPT !.text = @ + more].structure = c.structure
        /\ [c EXCEPT !.text = @ + more].text = c.text + more
    BY <2>2 DEF Work
  <2>4. QED
    BY <2>1, <2>3, <1>8 DEF c
<1>10. /\ pieces \in Evidence /\ Len(pieces) = Len(returned)
       /\ \A i \in DOMAIN pieces : pieces[i].source = turn /\ pieces[i].bytes = bytes
       /\ [i \in DOMAIN pieces |-> pieces[i].page] = returned
  <2>1. PICK n \in Nat : n = Len(returned) /\ DOMAIN returned = 1..n
    BY <1>4
  <2>2. \A i \in 1..n : returned[i] \in Nat
    BY <1>4, <2>1, ElementOfSeq
  <2>3. pieces \in [1..n -> [source : Nat, page : Nat, bytes : Nat]] /\ DOMAIN pieces = 1..n
    BY <1>4, <2>1, <2>2
  <2>4. Len(pieces) = n /\ pieces \in Evidence
    <3>1. Len(pieces) = n
      BY <2>1, <2>3
    <3>. HIDE DEF pieces
    <3>2. pieces \in Seq([source : Nat, page : Nat, bytes : Nat])
      BY <2>1, <2>3, SequenceOf
    <3>3. QED
      BY <3>1, <3>2 DEF Evidence
  <2>5. \A i \in 1..n : pieces[i].source = turn /\ pieces[i].bytes = bytes /\ pieces[i].page = returned[i]
    BY <2>1
  <2>6. [i \in DOMAIN pieces |-> pieces[i].page] = [i \in 1..n |-> returned[i]]
    BY <2>3, <2>5
  <2>7. returned = [i \in 1..n |-> returned[i]]
    BY <1>4, <2>1
  <2>8. QED
    BY <2>1, <2>3, <2>4, <2>5, <2>6, <2>7
<1>. HIDE DEF w, pieces, cost
<1>11. CASE Pages!Unusable(Pages!Counted(size), cost) /\ UNCHANGED <<turn, evidence>>
  BY <1>2, <1>5, <1>7, <1>8, <1>11, UnusableFails
<1>12. CASE /\ Pages!Acceptable(w) /\ Pages!AskedFor(returned)
            /\ w.text <= MaxText /\ RequestBytes + w.text <= MaxEgress
            /\ evidence' = evidence \o pieces
            /\ Pages!TakeSource(turn + 1, w, cost, evidence')
  <2>1. returned = chosen
    BY <1>12 DEF Pages!AskedFor
  <2>2. /\ evidence \o pieces \in Evidence
        /\ Pairs(evidence \o pieces) = Pairs(evidence) \o PairsOf(turn, [i \in DOMAIN pieces |-> pieces[i].page])
        /\ Len(pieces) >= 1 => From(evidence \o pieces) = From(evidence) \cup {turn}
        /\ Pages!Weight(evidence \o pieces) = Pages!Weight(evidence) + bytes * Len(pieces)
    <3>1. /\ evidence \in Evidence /\ pieces \in Evidence /\ turn \in Nat /\ bytes \in Nat
          /\ \A i \in DOMAIN pieces : pieces[i].source = turn /\ pieces[i].bytes = bytes
      BY <1>4, <1>10
    <3>2. QED
      BY <3>1, MorePieces
  <2>3. /\ evidence' \in Evidence /\ Pairs(evidence') = cost.pages /\ w.text = Pages!Weight(evidence')
        /\ From(evidence') = 1..turn
    <3>1. Pairs(evidence') = cost.pages
      BY <1>6, <1>7, <1>10, <1>12, <2>1, <2>2
    <3>2. From(evidence') = 1..turn
      <4>1. From(evidence') = (1..(turn - 1)) \cup {turn}
        BY <1>3, <1>6, <1>10, <1>12, <2>1, <2>2
      <4>2. QED
        BY <1>3, <1>4, <4>1
    <3>3. w.text = Pages!Weight(evidence')
      BY <1>3, <1>9, <1>10, <1>12, <2>2
    <3>4. QED
      BY <1>12, <2>2, <3>1, <3>2, <3>3
  <2>4. \A i \in DOMAIN evidence' : evidence'[i].source \in 1..turn
    BY <2>3 DEF From
  <2>5. Sound(w, cost)
    <3>1. Pages!Acceptable(Pages!Counted(size))
      BY <1>9, <1>12 DEF Pages!Acceptable
    <3>2. QED
      BY <1>7, <1>8, <1>9, <1>12, <3>1 DEF Sound
  <2>6. Complete(w, cost, evidence')
    BY <2>3, <2>5 DEF Complete
  <2>. DEFINE i == turn + 1
  <2>7. i \in Nat /\ i >= 1 /\ i <= Len(sources) + 1 /\ \A j \in 1..(i - 1) : sources[j].bound /\ sources[j].fresh
    BY <1>3, <1>4
  <2>8. Pages!TakeSource(i, w, cost, evidence')
    BY <1>12
  <2>9. i = turn + 1 /\ i # turn
    BY <1>4
  <2>. HIDE DEF i
  <2>10. \/ Failing /\ timer' = timer /\ turn' \in {turn, i} /\ (turn' = i => i <= Len(sources) \/ turn' = turn)
         \/ /\ Calling("document") /\ turn' = i /\ i <= Len(sources) /\ sources[i].bound /\ sources[i].fresh
            /\ work'.text = w.text /\ spent'.pages = cost.pages
         \/ /\ pagesAt' = "returned" /\ work' = w /\ spent' = cost /\ UNCHANGED <<turn, timer, pagesCode>>
            /\ i = Len(sources) + 1 /\ Len(evidence') <= MaxEvidence
    BY <1>3, <2>3, <2>6, <2>7, <2>8, SourceIsTaken
  <2>11. CASE Failing /\ timer' = timer /\ turn' \in {turn, i} /\ (turn' = i => i <= Len(sources) \/ turn' = turn)
    <3>1. turn' \in {turn} \cup DOMAIN sources /\ turn <= turn' /\ turn' \in Nat
      BY <1>4, <2>7, <2>9, <2>11
    <3>2. \A k \in DOMAIN evidence' : evidence'[k].source <= turn'
      BY <1>4, <2>4, <3>1
    <3>3. QED
      BY <1>2, <1>5, <2>3, <2>11, <3>1, <3>2, PagesFailed
  <2>12. CASE /\ Calling("document") /\ turn' = i /\ i <= Len(sources) /\ sources[i].bound /\ sources[i].fresh
              /\ work'.text = w.text /\ spent'.pages = cost.pages
    <3>1. "document" \in Pages!Calls
      BY DEF Pages!Calls
    <3>2. turn' \in DOMAIN sources /\ \A k \in 1..turn' : sources[k].bound /\ sources[k].fresh
      <4>1. turn' \in DOMAIN sources
        BY <1>4, <2>7, <2>12
      <4>2. ASSUME NEW k \in 1..turn' PROVE sources[k].bound /\ sources[k].fresh
        <5>1. k \in 1..turn \/ k = i
          BY <1>4, <2>9, <2>12
        <5>2. QED
          BY <1>3, <2>12, <5>1
      <4>3. QED
        BY <4>1, <4>2
    <3>3. \A k \in DOMAIN evidence' : evidence'[k].source <= turn'
      BY <1>4, <2>4, <2>9, <2>12
    <3>4. From(evidence') = 1..(turn' - 1) /\ work'.text = Pages!Weight(evidence') /\ Pairs(evidence') = spent'.pages
      BY <1>4, <2>3, <2>9, <2>12
    <3>5. QED
      BY <1>2, <1>3, <1>5, <2>3, <2>12, <3>1, <3>2, <3>3, <3>4, PagesCalled
  <2>13. CASE /\ pagesAt' = "returned" /\ work' = w /\ spent' = cost /\ UNCHANGED <<turn, timer, pagesCode>>
              /\ i = Len(sources) + 1 /\ Len(evidence') <= MaxEvidence
    <3>1. turn = Len(sources)
      BY <1>4, <2>9, <2>13
    <3>2. PagesTypes'
      BY <1>2, <1>3, <1>5, <1>7, <1>9, <2>3, <2>13 DEF PagesTypes, Kept
    <3>3. \A k \in DOMAIN evidence' : evidence'[k].source <= turn'
      BY <1>4, <2>4, <2>13
    <3>4. Pages!TypeOK'
      <4>1. pagesAt' = "returned" /\ pagesCode' = "none" /\ work'.calls = spent'.calls /\ turn' \in 0..Len(sources')
        BY <1>2, <1>3, <1>4, <2>5, <2>13 DEF Sound, Kept
      <4>2. QED
        BY <1>2, <1>5, <3>3, <4>1 DEF Pages!TypeOK, Kept, PagesInv, Pages!Calls
    <3>5. BudgetInv'
      BY <2>3, <2>5, <2>13 DEF BudgetInv, Sound
    <3>6. TurnInv'
      BY <2>13 DEF TurnInv, Pages!Calls
    <3>7. Pages!EvidenceIsWhole'
      <4>1. [k \in DOMAIN evidence' |-> <<evidence'[k].source, evidence'[k].page>>] = spent'.pages
        BY <2>3, <2>13 DEF Pairs
      <4>2. {evidence'[k].source : k \in DOMAIN evidence'} = DOMAIN sources'
        BY <1>2, <1>3, <2>3, <3>1 DEF From, Kept, PagesTypes
      <4>3. Len(evidence') <= MaxEvidence /\ \A k \in DOMAIN sources' : sources'[k].bound /\ sources'[k].fresh
        BY <1>2, <1>3, <2>13, <3>1 DEF Kept, PagesTypes
      <4>4. work'.text = Pages!Weight(evidence') /\ work'.text <= MaxText /\ RequestBytes + work'.text <= MaxEgress
        BY <2>3, <2>5, <2>13 DEF Sound
      <4>5. QED
        BY <4>1, <4>2, <4>3, <4>4 DEF Pages!EvidenceIsWhole
    <3>8. QED
      BY <3>2, <3>4, <3>5, <3>6, <3>7 DEF PagesInv
  <2>14. QED
    BY <2>10, <2>11, <2>12, <2>13
<1>13. QED
  BY <1>1, <1>11, <1>12 DEF w, pieces, cost

-------------------------------------------------------------------------------

LEMMA PagesKept == PagesInv /\ (Pages!Next \/ UNCHANGED pagesVars) => PagesInv'
<1>. SUFFICES ASSUME PagesInv, Pages!Next \/ UNCHANGED pagesVars PROVE PagesInv'
  OBVIOUS
<1>1. CASE UNCHANGED pagesVars
  <2>1. PagesTypes'
    BY <1>1 DEF PagesInv, PagesTypes, pagesVars
  <2>2. Pages!TypeOK'
    BY <1>1 DEF PagesInv, Pages!TypeOK, pagesVars
  <2>3. BudgetInv'
    BY <1>1 DEF PagesInv, BudgetInv, pagesVars
  <2>4. TurnInv'
    BY <1>1 DEF PagesInv, TurnInv, pagesVars
  <2>5. Pages!EvidenceIsWhole'
    BY <1>1 DEF PagesInv, Pages!EvidenceIsWhole, pagesVars
  <2>6. QED
    BY <2>1, <2>2, <2>3, <2>4, <2>5 DEF PagesInv
<1>. HIDE DEF PagesInv
<1>2. QED
  BY <1>1, ExecuteKept, RefuseKept, DocumentKept, StructureKept, SelectKept, ContentKept, RejectKept, TimerKept,
     TickKept DEF Pages!Next

LEMMA PagesWhole == PagesInv => RetrievalIsWhole
<1>. SUFFICES ASSUME PagesInv PROVE RetrievalIsWhole
  OBVIOUS
<1>1. PagesTypes /\ Pages!TypeOK /\ BudgetInv /\ TurnInv /\ Pages!EvidenceIsWhole
  BY DEF PagesInv
<1>2. Pages!WorkIsGlobal
  <2>. SUFFICES ASSUME pagesAt # "failed"
                PROVE  spent.response <= MaxResponse /\ spent.structure <= MaxStructure /\ Len(spent.pages) <= MaxPages
    BY <1>1 DEF Pages!WorkIsGlobal, BudgetInv
  <2>1. CASE pagesAt = "idle"
    <3>1. spent = [calls |-> 0, response |-> 0, structure |-> 0, pages |-> <<>>] /\ Len(<<>>) = 0
      BY <1>1, <2>1 DEF BudgetInv
    <3>2. MaxResponse \in Nat /\ MaxStructure \in Nat /\ MaxPages \in Nat
      BY RetrievalAssumption DEF Pages!BudgetAssumption
    <3>3. QED
      BY <3>1, <3>2
  <2>2. CASE pagesAt \in Pages!Calls \cup {"returned"}
    BY <1>1, <2>2 DEF BudgetInv, Sound
  <2>3. QED
    BY <1>1, <2>1, <2>2 DEF Pages!TypeOK
<1>3. Pages!OverInTime
  <2>. SUFFICES ASSUME pagesAt \in Pages!Calls PROVE now <= Pages!Deadline + (Grain - 1) + Lag
    BY DEF Pages!OverInTime
  <2>1. timer <= TotalTimeout + (Grain - 1) /\ now <= timer + Lag
    BY AtCall
  <2>2. timer \in Nat /\ now \in Nat /\ TotalTimeout \in Nat /\ Grain \in Nat /\ Lag \in Nat
    BY <1>1, RetrievalAssumption DEF PagesTypes, Pages!BudgetAssumption
  <2>3. QED
    BY <2>1, <2>2 DEF Pages!Deadline
<1>4. QED
  BY <1>1, <1>2, <1>3 DEF RetrievalIsWhole

LEMMA PagesAlways == RetrievalSpec => []PagesInv
<1>1. RetrievalInit => PagesInv
  BY PagesInitially DEF RetrievalInit
<1>2. PagesInv /\ [RetrievalNext]_retrievalVars => PagesInv'
  BY RetrievalSteps, PagesKept
<1>3. QED
  BY <1>1, <1>2, PTL DEF RetrievalSpec

\* Whatever limits the operator sets, sources the request has and answers come:
\* all calls of one execute() spend one budget; none is waited for past the
\* deadline but for the grain and lag of timers (WorkBudget.call); and a result
\* holds, source by source, exactly the pages that were selected, at the weight
\* that is reported as egress.
THEOREM RetrievalWhole == RetrievalSpec => []RetrievalIsWhole
BY PagesAlways, PagesWhole, PTL

\* What is returned is complete by the deadline itself: only the last content in
\* time, or a request of no sources, ends a retrieval well.
THEOREM CompleteByDeadline == RetrievalSpec => Pages!CompleteInTime
<1>1. ASSUME PagesInv, Pages!Next \/ UNCHANGED pagesVars
      PROVE  (pagesAt' = "returned" => now <= Pages!Deadline) \/ UNCHANGED Pages!vars
  <2>1. CASE UNCHANGED pagesVars
    BY <2>1 DEF pagesVars, Pages!vars
  <2>2. CASE Pages!Execute
    <3>1. now = 0 /\ TotalTimeout \in Nat
      BY <1>1, <2>2, RetrievalAssumption DEF PagesInv, BudgetInv, Pages!Execute, Pages!BudgetAssumption
    <3>2. QED
      BY <3>1 DEF Pages!Deadline
  <2>3. CASE Pages!Content
    <3>1. now <= Pages!Deadline \/ pagesAt' = "failed"
      BY <2>3 DEF Pages!Content, Pages!Acceptable, Pages!InTime, Pages!Unusable, Pages!Fail
    <3>2. QED
      BY <3>1
  <2>4. CASE Pages!Refuse \/ Pages!Reject \/ Pages!Timer
    BY <2>4 DEF Pages!Refuse, Pages!Reject, Pages!Timer, Pages!Fail
  <2>5. CASE Pages!Document
    BY <2>5 DEF Pages!Document, Pages!Begin, Pages!Unusable, Pages!Fail
  <2>6. CASE Pages!Structure
    BY <2>6 DEF Pages!Structure, Pages!Begin, Pages!Unusable, Pages!Fail
  <2>7. CASE Pages!Select
    BY <2>7 DEF Pages!Select, Pages!Begin, Pages!Unusable, Pages!Fail
  <2>8. CASE Pages!Tick
    BY <2>8 DEF Pages!Tick, Pages!Calls
  <2>9. QED
    BY <1>1, <2>1, <2>2, <2>3, <2>4, <2>5, <2>6, <2>7, <2>8 DEF Pages!Next
<1>2. PagesInv /\ [RetrievalNext]_retrievalVars => [pagesAt' = "returned" => now <= Pages!Deadline]_(Pages!vars)
  BY <1>1, RetrievalSteps
<1>3. QED
  BY <1>2, PagesAlways, PTL DEF RetrievalSpec, Pages!CompleteInTime
================================================================================
