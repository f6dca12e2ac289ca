----------------------------- MODULE StageExecutor -----------------------------
(***************************************************************************)
(* The executor (application/executor.ts, executePlan): runs the stages of *)
(* a plan in the plan's order, each on its first placement that answers,   *)
(* through input guards, provider adapters and output verifiers that are   *)
(* code of the deployment: they are awaited, may fail in any way, and keep *)
(* the objects they were handed or returned.                               *)
(*                                                                         *)
(* A value is reduced to its content, one of a small set, of which a sound *)
(* verifier approves some.  The executor works from copies; the objects    *)
(* that others can still change are the caller's inputs and the result of  *)
(* the last adapter.  Targets are numbered in order of preference, so the  *)
(* placements of a stage are a set.                                        *)
(***************************************************************************)
EXTENDS Integers, FiniteSets, Sequences

CONSTANTS
  Inputs, Outputs,    \* the values: graph inputs, stage outputs
  Stages, Producer,   \* the stages, and the one each output is of
  Targets, NoTarget,
  GuardCount,         \* how many input guards are configured
  Contents,           \* what a value may be
  Approved,           \* the contents an output verifier accepts
  Missing,            \* no value
  Plans               \* the plans that may be executed

Values == Inputs \cup Outputs

\* What the executor reads of a plan.
Plan ==
  [order : Seq(Stages) \ {<<>>},
   reads : [Stages -> SUBSET Values],
   candidates : [Stages -> (SUBSET Targets) \ {{}}],
   declassified : SUBSET Outputs]

ASSUME ExecutorAssumption ==
  /\ Inputs \cap Outputs = {}
  /\ Producer \in [Outputs -> Stages]
  /\ Targets \subseteq Nat /\ IsFiniteSet(Targets)
  /\ GuardCount \in Nat
  /\ Approved \subseteq Contents /\ Missing \notin Contents
  /\ Plans \subseteq Plan

VARIABLES
  phase,      \* what the execution is at, or how it ended
  plan,       \* the frozen copy of the plan
  at,         \* the turn of the stage being executed
  target,     \* the placement being attempted
  passed,     \* how many guards have let the attempt through
  caller,     \* the input objects in the caller's hands
  values,     \* the values of the execution
  staged,     \* the snapshot of the current stage's inputs
  result,     \* the output objects in the last adapter's hands
  outputs,    \* the snapshot of them
  verified,   \* the declassified outputs verified in this attempt
  source,     \* the target that produced each value
  inspected,  \* history: the inspections that let an attempt through
  sent,       \* history: the requests sent to adapters
  emitters    \* history: the targets that gave output for each stage

execVars == <<phase, plan, at, target, passed, caller, values, staged, result,
              outputs, verified, source, inspected, sent, emitters>>

Running == {"inputs", "guards", "adapter", "verify"}
Failures == {"rejected", "missing_input", "adapter_not_registered",
             "input_policy_rejected", "adapter_failed", "invalid_outputs",
             "output_policy_rejected"}

Stage == plan.order[at]
Reads == plan.reads[Stage]
OutputsOf(s) == {o \in Outputs : Producer[o] = s}

Request == [stage : Stages, target : Targets, data : UNION {[V -> Contents] : V \in SUBSET Values}]
Inspection == [guard : 1..GuardCount, request : Request]

TypeOK ==
  /\ phase \in {"idle", "completed"} \cup Running \cup Failures
  /\ phase \notin {"idle", "rejected"} => plan \in Plan /\ at \in 1..(Len(plan.order) + 1)
  /\ phase \in Running => at <= Len(plan.order)
  /\ target \in Targets \cup {NoTarget}
  /\ phase \in {"guards", "adapter", "verify"} => target \in plan.candidates[Stage]
  /\ passed \in 0..GuardCount
  /\ caller \in [Inputs -> Contents \cup {Missing}]
  /\ values \in [Values -> Contents \cup {Missing}]
  /\ phase \in {"guards", "adapter", "verify"} => staged \in [Reads -> Contents]
  /\ result \in [Outputs -> Contents \cup {Missing}]
  /\ outputs \in [Outputs -> Contents \cup {Missing}]
  /\ verified \subseteq plan.declassified
  /\ source \in [Outputs -> Targets \cup {NoTarget}]
  /\ inspected \subseteq Inspection
  /\ sent \subseteq Request
  /\ emitters \in [Stages -> SUBSET Targets]

-------------------------------------------------------------------------------

NoPlan == [order |-> <<>>, reads |-> [s \in Stages |-> {}],
           candidates |-> [s \in Stages |-> {}], declassified |-> {}]

Init ==
  /\ phase = "idle"
  /\ plan = NoPlan
  /\ at = 1
  /\ target = NoTarget
  /\ passed = 0
  /\ caller \in [Inputs -> Contents \cup {Missing}]
  /\ values = [v \in Values |-> Missing]
  /\ staged = <<>>
  /\ result = [o \in Outputs |-> Missing]
  /\ outputs = [o \in Outputs |-> Missing]
  /\ verified = {}
  /\ source = [o \in Outputs |-> NoTarget]
  /\ inspected = {}
  /\ sent = {}
  /\ emitters = [s \in Stages |-> {}]

First(T) == CHOOSE t \in T : \A u \in T : t <= u

Fail(from, code) ==
  /\ phase = from
  /\ phase' = code
  /\ UNCHANGED <<plan, at, target, passed, caller, values, staged, result,
                 outputs, verified, source, inspected, sent>>

\* The plan and the inputs are copied before anything is awaited.
Begin(p) ==
  /\ phase = "idle"
  /\ phase' = "inputs"
  /\ plan' = p
  /\ values' = [v \in Values |-> IF v \in Inputs THEN caller[v] ELSE Missing]
  /\ UNCHANGED <<at, target, passed, caller, staged, result, outputs, verified,
                 source, inspected, sent, emitters>>

\* A plan that does not match its digest or the adapters' bindings, inputs
\* that are no plain data, a guard without inspect.
Reject == Fail("idle", "rejected") /\ UNCHANGED emitters

\* Faulty: graph inputs are read from the caller's objects at every stage.
TakeInputsShared ==
  /\ phase = "inputs"
  /\ \A v \in Reads : values[v] # Missing
  /\ phase' = "guards"
  /\ staged' = [v \in Reads |-> IF v \in Inputs THEN caller[v] ELSE values[v]]
  /\ target' = First(plan.candidates[Stage])
  /\ passed' = 0
  /\ UNCHANGED <<plan, at, caller, values, result, outputs, verified, source,
                 inspected, sent, emitters>>

\* stageInputs; the first placement is then attempted.
TakeInputs ==
  /\ phase = "inputs"
  /\ \A v \in Reads : values[v] # Missing
  /\ phase' = "guards"
  /\ staged' = [v \in Reads |-> values[v]]
  /\ target' = First(plan.candidates[Stage])
  /\ passed' = 0
  /\ UNCHANGED <<plan, at, caller, values, result, outputs, verified, source,
                 inspected, sent, emitters>>

MissingInput ==
  /\ Fail("inputs", "missing_input")
  /\ \E v \in Reads : values[v] = Missing
  /\ UNCHANGED emitters

\* No adapter of the placement's kind: the execution fails, whatever other
\* placements are left.
AdapterNotRegistered ==
  /\ passed = 0
  /\ Fail("guards", "adapter_not_registered")
  /\ UNCHANGED emitters

CurrentRequest == [stage |-> Stage, target |-> target, data |-> staged]

\* The guards are asked in turn, on every attempt.
GuardPasses ==
  /\ phase = "guards"
  /\ passed < GuardCount
  /\ passed' = passed + 1
  /\ inspected' = inspected \cup {[guard |-> passed + 1, request |-> CurrentRequest]}
  /\ UNCHANGED <<phase, plan, at, target, caller, values, staged, result, outputs,
                 verified, source, sent, emitters>>

\* A guard throws: no other placement is tried.
GuardRejects ==
  /\ passed < GuardCount
  /\ Fail("guards", "input_policy_rejected")
  /\ UNCHANGED emitters

CallAdapter ==
  /\ phase = "guards"
  /\ passed = GuardCount
  /\ phase' = "adapter"
  /\ sent' = sent \cup {CurrentRequest}
  /\ UNCHANGED <<plan, at, target, passed, caller, values, staged, result, outputs,
                 verified, source, inspected, emitters>>

Emitted == [emitters EXCEPT ![Stage] = @ \cup {target}]

\* The adapter returns all the expected outputs: they are copied at once.
AdapterReturns(r) ==
  /\ phase = "adapter"
  /\ phase' = "verify"
  /\ result' = r
  /\ outputs' = r
  /\ verified' = {}
  /\ emitters' = Emitted
  /\ UNCHANGED <<plan, at, target, passed, caller, values, staged, source,
                 inspected, sent>>

\* It returns something else.
InvalidOutputs == Fail("adapter", "invalid_outputs") /\ emitters' = Emitted

\* Faulty: any error of a retryable status, output or not.
CanFallbackOnStatus(emitted, retryable) == retryable

\* canFallback, of an adapter error: emitted is its outputEmitted, retryable
\* whether its status is 429, 502, 503 or 504.
CanFallback(emitted, retryable) == retryable /\ ~emitted

Later == {t \in plan.candidates[Stage] : t > target}

\* What a fallback does: the placement tried next, and how many guards are taken
\* to have passed it.
TryNext(emitted, retryable, next, asked) ==
  /\ phase = "adapter"
  /\ CanFallback(emitted, retryable) /\ Later # {}
  /\ phase' = "guards"
  /\ target' = next
  /\ passed' = asked
  /\ emitters' = IF emitted THEN Emitted ELSE emitters
  /\ UNCHANGED <<plan, at, caller, values, staged, result, outputs, verified,
                 source, inspected, sent>>

\* Faulty: the guards have seen these inputs before, and are not asked again.
FallbackUnguarded(emitted, retryable) ==
  TryNext(emitted, retryable, First(Later), GuardCount)

\* Faulty: the same placement is tried again.
FallbackToItself(emitted, retryable) == TryNext(emitted, retryable, target, 0)

\* The next placement is attempted, from its guards on.
Fallback(emitted, retryable) == TryNext(emitted, retryable, First(Later), 0)

AdapterFails(emitted, retryable) ==
  /\ Fail("adapter", "adapter_failed")
  /\ ~(CanFallback(emitted, retryable) /\ Later # {})
  /\ emitters' = IF emitted THEN Emitted ELSE emitters

Unverified == (OutputsOf(Stage) \cap plan.declassified) \ verified

\* Faulty: any answer but an error passes.
VerifyOutputLeniently(o) ==
  /\ phase = "verify"
  /\ o \in Unverified
  /\ verified' = verified \cup {o}
  /\ UNCHANGED <<phase, plan, at, target, passed, caller, values, staged, result,
                 outputs, source, inspected, sent, emitters>>

\* Faulty: each output becomes a value as soon as it is verified.
VerifyOutputEagerly(o) ==
  /\ phase = "verify"
  /\ o \in Unverified
  /\ outputs[o] \in Approved
  /\ verified' = verified \cup {o}
  /\ values' = [values EXCEPT ![o] = outputs[o]]
  /\ UNCHANGED <<phase, plan, at, target, passed, caller, staged, result,
                 outputs, source, inspected, sent, emitters>>

\* The verifier is handed a copy of the snapshot's output and answers true.
VerifyOutput(o) ==
  /\ phase = "verify"
  /\ o \in Unverified
  /\ outputs[o] \in Approved
  /\ verified' = verified \cup {o}
  /\ UNCHANGED <<phase, plan, at, target, passed, caller, values, staged, result,
                 outputs, source, inspected, sent, emitters>>

\* There is no verifier, it throws, or it answers anything but true.
OutputRejected ==
  /\ Fail("verify", "output_policy_rejected")
  /\ Unverified # {}
  /\ UNCHANGED emitters

\* What committing does, with the outputs' content and the phase that follows.
CommitAs(content, next) ==
  /\ phase = "verify"
  /\ Unverified = {}
  /\ phase' = next
  /\ at' = at + 1
  /\ values' = [v \in Values |->
                  IF v \in OutputsOf(Stage) THEN content[v] ELSE values[v]]
  /\ source' = [o \in Outputs |->
                  IF o \in OutputsOf(Stage) THEN target ELSE source[o]]
  /\ UNCHANGED <<plan, target, passed, caller, staged, result, outputs, verified,
                 inspected, sent, emitters>>

NextPhase == IF at = Len(plan.order) THEN "completed" ELSE "inputs"

\* Faulty: the adapter's own object becomes the value.
CommitResult == CommitAs(result, NextPhase)

\* Every declassified output is verified: the snapshot becomes the values of
\* the stage, and the next stage begins.
Commit == CommitAs(outputs, NextPhase)

\* The caller changes an input object while the execution awaits.
CallerMutates ==
  /\ phase \in Running
  /\ \E i \in Inputs, c \in Contents : caller' = [caller EXCEPT ![i] = c]
  /\ UNCHANGED <<phase, plan, at, target, passed, values, staged, result, outputs,
                 verified, source, inspected, sent, emitters>>

\* An adapter changes what it returned while the verifier is awaited.
AdapterMutates ==
  /\ phase = "verify"
  /\ \E o \in OutputsOf(Stage), c \in Contents : result' = [result EXCEPT ![o] = c]
  /\ UNCHANGED <<phase, plan, at, target, passed, caller, values, staged, outputs,
                 verified, source, inspected, sent, emitters>>

\* The outputs an adapter may return for the current stage.
Results ==
  {[o \in Outputs |-> IF o \in OutputsOf(Stage) THEN f[o] ELSE Missing] :
     f \in [OutputsOf(Stage) -> Contents]}

Proceed ==
  \/ TakeInputs \/ MissingInput
  \/ AdapterNotRegistered \/ GuardPasses \/ GuardRejects \/ CallAdapter
  \/ phase = "adapter" /\ \E r \in Results : AdapterReturns(r)
  \/ InvalidOutputs
  \/ \E emitted, retryable \in BOOLEAN :
       Fallback(emitted, retryable) \/ AdapterFails(emitted, retryable)
  \/ phase = "verify" /\ \E o \in OutputsOf(Stage) : VerifyOutput(o)
  \/ OutputRejected
  \/ Commit

Continue == Proceed \/ CallerMutates \/ AdapterMutates

Next == (\E p \in Plans : Begin(p)) \/ Reject \/ Continue

Spec == Init /\ [][Next]_execVars

\* Guards, adapters and verifiers settle every promise; the caller need never
\* start.
FairSpec == Spec /\ WF_execVars(Proceed)

-------------------------------------------------------------------------------

\* What reaches a provider is exactly what every guard let through for that
\* stage and that placement, on fallbacks as on first attempts (the guard loop
\* of executePlan).
SentOnlyWhatGuardsSaw ==
  \A q \in sent, g \in 1..GuardCount : [guard |-> g, request |-> q] \in inspected

\* A value is the same for every stage and every attempt that reads it,
\* whatever its owner does to the object meanwhile (immutableExecutionRecordSnapshot).
SameDataEverywhere ==
  \A p, q \in sent : \A v \in DOMAIN p.data \cap DOMAIN q.data :
    p.data[v] = q.data[v]

\* No stage is tried again once a target has given output for it: two targets
\* never produce the same stage (canFallback).
OneEmitterPerStage == \A s \in Stages : Cardinality(emitters[s]) <= 1

\* A declassified value is used only with the content that was verified,
\* whatever became of the adapter's object, and only from the target whose
\* output it is.
DeclassifiedIsVerified ==
  \A o \in plan.declassified :
    values[o] # Missing => values[o] \in Approved /\ source[o] \in emitters[Producer[o]]

\* A stage's outputs appear together or not at all, and only after every stage
\* before it in the plan has produced all of its own.
StagesCommitWhole ==
  \A k \in 1..Len(plan.order) :
    LET O == OutputsOf(plan.order[k])
    IN  IF k < at THEN \A o \in O : values[o] # Missing
                  ELSE \A o \in O : values[o] = Missing

\* Every execution that begins ends, having tried each placement once at most.
EveryExecutionEnds == phase \in Running ~> phase \in {"completed"} \cup Failures
================================================================================
