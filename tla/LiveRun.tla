------------------------------- MODULE LiveRun -------------------------------
(***************************************************************************)
(* The live run (composition/live-runner.ts, runLiveStageGraph): a request *)
(* is checked, every bound target is asked at once which models it serves  *)
(* (adapters/openai-compatible-capability-probe.ts), the answers become a  *)
(* snapshot with dates, the graph is planned on it, and the stages call    *)
(* the providers (adapters/openai-compatible-stage-adapter.ts), a fallback *)
(* after a refusal only.                                                   *)
(*                                                                         *)
(* Providers, the clock, the host's environment variables and the owner of *)
(* the inputs object move at any await.  What Planner and StageExecutor    *)
(* model in full is one step here: `permitted` is what the planner's       *)
(* policy allows, and guards let everything pass.  Stages and targets are  *)
(* numbered in the orders the planner gives them; a stage has one input    *)
(* and one output, as the contracts demand.                                *)
(***************************************************************************)
EXTENDS Naturals, FiniteSets, FiniteSetsExt

CONSTANTS
  Stages, Inputs, Targets, Operations, Capabilities, Models, Variables,
  NoVariable, NoToken,
  Ttl, MaxClock,
  Requests

\* op, needs, reads, permitted: the graph; bound, offers, model, fits, key: the
\* bindings (bound[t] = {}: no binding; fits: operations whose kind, input and
\* output are those of the stages that name them); known, compatible, configured: the fabric;
\* named: the inputs given by name.
Request ==
  [op : [Stages -> Operations], needs : [Stages -> SUBSET Capabilities],
   reads : [Stages -> Inputs \cup Stages], permitted : [Stages -> SUBSET Targets],
   declassifies : SUBSET Stages,
   bound : [Targets -> SUBSET Operations], offers : [Targets -> [Operations -> SUBSET Capabilities]],
   model : [Targets -> [Operations -> Models]], fits : [Targets -> SUBSET Operations],
   key : [Targets -> Variables \cup {NoVariable}],
   known : SUBSET Targets, compatible : SUBSET Targets,
   configured : [Targets -> SUBSET Capabilities],
   intact : BOOLEAN, named : SUBSET Nat]

\* The content of a variable, of an input.
Contents == {"unset", "blank", "usable"}
InputContents == {"absent", "text", "other"}

LiveRunAssumption ==
  /\ Stages \subseteq Nat \ {0} /\ IsFiniteSet(Stages) /\ Stages # {}
  /\ Targets \subseteq Nat /\ IsFiniteSet(Targets)
  /\ Ttl \in Nat \ {0} /\ MaxClock \in Nat
  /\ NoVariable \notin Variables /\ NoToken \notin Contents /\ Inputs \subseteq Nat \ Stages
  /\ Requests \subseteq Request

VARIABLES
  request,
  phase,      \* "idle", "probing", "planned", "calling", "returned", "failed"
  code,       \* what it failed with
  clock,
  environment,\* the content of each environment variable
  given,      \* the inputs object in the caller's hands
  inputs,     \* the executor's copy of it
  observedAt,
  probe,      \* of each bound target: "resolving", "asking", "settled"
  state,      \* the target states found so far
  candidates, \* the plan
  at, target, \* the stage at work, on which target
  seen,       \* history: the models each target reported, and when
  sent,       \* history: every request, with the token it carried
  worked      \* history: the targets that may have done each stage's work

vars == <<request, phase, code, clock, environment, given, inputs, observedAt, probe, state,
          candidates, at, target, seen, sent, worked>>

Bound == {t \in Targets : request.bound[t] # {}}
Ended == phase \in {"returned", "failed"}

Unavailable == [healthy |-> FALSE, operations |-> {}, capabilities |-> {}]

TypeOK ==
  /\ request \in Requests /\ phase \in {"idle", "probing", "planned", "calling", "returned", "failed"}
  /\ (phase = "failed") <=> (code # "none")
  /\ clock \in 0..MaxClock /\ observedAt \in 0..clock
  /\ environment \in [Variables -> Contents] /\ {given, inputs} \subseteq [Inputs -> InputContents]
  /\ DOMAIN probe = DOMAIN state /\ DOMAIN probe \subseteq Targets
  /\ \A t \in DOMAIN state : state[t] # Unavailable => probe[t] = "settled"
  /\ phase \in {"planned", "calling"} =>
       at \in Stages /\ candidates[at] \subseteq Bound /\ target \in candidates[at]

-------------------------------------------------------------------------------
(* The request is checked.                                                   *)

Init ==
  /\ request \in Requests /\ phase = "idle" /\ code = "none" /\ clock = 0 /\ observedAt = 0
  /\ environment \in [Variables -> Contents]
  /\ given \in [Inputs -> {"text", "other"}] /\ inputs = given
  /\ probe = <<>> /\ state = <<>>
  /\ candidates = [s \in Stages |-> {}] /\ at = Min(Stages) /\ target = Min(Targets)
  /\ seen = <<>> /\ sent = {} /\ worked = [s \in Stages |-> {}]

\* validateBindingTarget
BindingsMatch ==
  \A t \in Bound :
    /\ t \in request.known \cap request.compatible
    /\ \A o \in request.bound[t] : request.offers[t][o] \subseteq request.configured[t]

Serving(s) == {t \in Bound : request.op[s] \in request.bound[t]}

\* assertOperationContracts: whatever target may be chosen, the stage has the
\* kind, the input and the output of the operation bound there.
ContractsMatch ==
  \A s \in Stages :
    Serving(s) # {} /\ \A t \in Serving(s) : request.op[s] \in request.fits[t]

\* The first check that refuses.
Flaw ==
  IF ~request.intact THEN "binding_digest_mismatch"
  ELSE IF ~BindingsMatch THEN "binding_mismatch"
  ELSE IF request.declassifies # {} THEN "live_declassification_unsupported"
  ELSE IF ~ContractsMatch THEN "operation_mismatch"
  ELSE IF request.named # Inputs THEN "input_contract_mismatch"
  ELSE "none"

Fail(c) == phase' = "failed" /\ code' = c

Refuse ==
  /\ phase = "idle" /\ Flaw # "none" /\ Fail(Flaw)
  /\ UNCHANGED <<request, clock, environment, given, inputs, observedAt, probe, state, candidates, at, target, seen, sent, worked>>

-------------------------------------------------------------------------------
(* Every bound target is asked.                                              *)

Ask(t, token) == [kind |-> "models", to |-> t, variable |-> request.key[t], token |-> token]
Keyed == {t \in Bound : request.key[t] # NoVariable}

\* The clock is read, then all probes begin: one without a key has its request
\* sent at once.
Observe ==
  /\ phase = "idle" /\ Flaw = "none"
  /\ phase' = "probing" /\ observedAt' = clock
  /\ probe' = [t \in Bound |-> IF t \in Keyed THEN "resolving" ELSE "asking"]
  /\ state' = [t \in Bound |-> Unavailable]
  /\ sent' = {Ask(t, NoToken) : t \in Bound \ Keyed}
  /\ UNCHANGED <<request, code, clock, environment, given, inputs, candidates, at, target, seen, worked>>

\* usableBearerToken, usableApiKey
Usable(value) == value = "usable"

\* The resolver answers with the variable's content, or throws.
Resolve(t) ==
  /\ phase = "probing" /\ probe[t] = "resolving"
  /\ LET token == environment[request.key[t]] IN
     \/ /\ Usable(token)
        /\ probe' = [probe EXCEPT ![t] = "asking"] /\ sent' = sent \cup {Ask(t, token)}
     \/ probe' = [probe EXCEPT ![t] = "settled"] /\ sent' = sent
  /\ UNCHANGED <<request, phase, code, clock, environment, given, inputs, observedAt, state, candidates, at, target, seen, worked>>

\* The operations whose model is in the list.
Present(t, models) == {o \in request.bound[t] : request.model[t][o] \in models}

Report(t, models) ==
  [healthy |-> TRUE,
   operations |-> Present(t, models),
   capabilities |-> UNION {request.offers[t][o] : o \in Present(t, models)}]

\* A usable list of models; else, for any reason within the fetch's timeout,
\* the target is unavailable and nothing more is said.
Settle(t) ==
  /\ phase = "probing" /\ probe[t] = "asking"
  /\ probe' = [probe EXCEPT ![t] = "settled"]
  /\ \/ \E models \in SUBSET Models :
          /\ state' = [state EXCEPT ![t] = Report(t, models)]
          /\ seen' = [x \in DOMAIN seen \cup {t} |->
                        IF x = t THEN [models |-> models, when |-> clock] ELSE seen[x]]
     \/ UNCHANGED <<state, seen>>
  /\ UNCHANGED <<request, phase, code, clock, environment, given, inputs, observedAt, candidates, at, target, sent, worked>>

-------------------------------------------------------------------------------
(* The plan.                                                                 *)

AllSettled == \A t \in Bound : probe[t] = "settled"

\* The observation's time, read before the probes.
Stamp == observedAt

Expired == clock >= Stamp + Ttl

\* evaluateTarget, on a snapshot bound to live bindings.
Eligible(s) ==
  {t \in Bound \cap request.permitted[s] :
     /\ state[t].healthy
     /\ request.needs[s] \subseteq request.configured[t] \cap state[t].capabilities
     /\ request.op[s] \in state[t].operations}

\* The clock is read again, and nothing is awaited before execution begins on
\* a copy of the inputs.
Plan ==
  /\ phase = "probing" /\ AllSettled
  /\ \/ Expired /\ Fail("snapshot_expired") /\ UNCHANGED <<candidates, inputs, target>>
     \/ /\ ~Expired /\ \E s \in Stages : Eligible(s) = {}
        /\ Fail("no_eligible_target") /\ UNCHANGED <<candidates, inputs, target>>
     \/ /\ ~Expired /\ \A s \in Stages : Eligible(s) # {}
        /\ phase' = "planned" /\ candidates' = [s \in Stages |-> Eligible(s)]
        /\ inputs' = given /\ target' = Min(Eligible(at))
        /\ UNCHANGED code
  /\ UNCHANGED <<request, clock, environment, given, observedAt, probe, state, at, seen, sent, worked>>

-------------------------------------------------------------------------------
(* The providers' calls.                                                     *)

Misfit == request.op[at] \notin request.bound[target] \cap request.fits[target]

\* A value that is there: an input of the copy, or what an earlier stage gave.
Read == IF request.reads[at] \in Inputs THEN inputs[request.reads[at]] ELSE "text"

Token == IF request.key[target] = NoVariable THEN NoToken ELSE environment[request.key[target]]

\* The first thing that is wrong with an attempt.
Unfit ==
  IF Read = "absent" THEN "missing_input"
  ELSE IF Misfit THEN "misfit"
  ELSE IF Read = "other" THEN "input_not_text"
  ELSE IF Token # NoToken /\ ~Usable(Token) THEN "key_unusable"
  ELSE "none"

\* One attempt: the adapter looks at its request and at the environment, and
\* calls the provider.
Call ==
  /\ phase = "planned"
  /\ \/ Unfit # "none" /\ Fail(Unfit) /\ UNCHANGED sent
     \/ /\ Unfit = "none" /\ phase' = "calling"
        /\ sent' = sent \cup {[kind |-> "inference", to |-> target, variable |-> request.key[target], token |-> Token]}
        /\ UNCHANGED code
  /\ UNCHANGED <<request, clock, environment, given, inputs, observedAt, probe, state, candidates, at, target, seen, worked>>

\* 429, 502, 503 and 504 refuse the work; all else may have begun it.
Answers == {"output", "refusal", "timeout", "useless"}

\* Faulty: silence is taken for a refusal.
RetryableOnTimeout(answer) == answer \in {"refusal", "timeout"}

\* normalizeProviderError, canFallback
Retryable(answer) == answer = "refusal"

Later == {t \in candidates[at] : t > target}

Continue(answer) ==
  \/ /\ answer = "output" /\ at # Max(Stages)
     /\ phase' = "planned" /\ at' = Min({s \in Stages : s > at}) /\ target' = Min(candidates[at']) /\ UNCHANGED code
  \/ answer = "output" /\ at = Max(Stages) /\ phase' = "returned" /\ UNCHANGED <<at, target, code>>
  \/ /\ Retryable(answer) /\ Later # {}
     /\ phase' = "planned" /\ target' = Min(Later) /\ UNCHANGED <<at, code>>
  \/ answer # "output" /\ ~(Retryable(answer) /\ Later # {}) /\ Fail("adapter_failed") /\ UNCHANGED <<at, target>>

Answer ==
  /\ phase = "calling"
  /\ \E answer \in Answers :
       /\ Continue(answer)
       /\ worked' = IF answer = "refusal" THEN worked ELSE [worked EXCEPT ![at] = @ \cup {target}]
  /\ UNCHANGED <<request, clock, environment, given, inputs, observedAt, probe, state, candidates, seen, sent>>

-------------------------------------------------------------------------------
(* What others do meanwhile.                                                 *)

Others == <<request, phase, code, inputs, observedAt, probe, state, candidates, at, target, seen, sent, worked>>

Tick == ~Ended /\ clock < MaxClock /\ clock' = clock + 1 /\ UNCHANGED <<Others, environment, given>>

EnvironmentChanges ==
  /\ ~Ended /\ \E v \in Variables, c \in Contents : environment' = [environment EXCEPT ![v] = c]
  /\ UNCHANGED <<Others, clock, given>>

CallerChanges ==
  /\ phase = "probing"
  /\ \E i \in Inputs, c \in InputContents : given' = [given EXCEPT ![i] = c]
  /\ UNCHANGED <<Others, clock, environment>>

Advance == Refuse \/ Observe \/ (\E t \in DOMAIN probe : Resolve(t) \/ Settle(t)) \/ Plan \/ Call \/ Answer

Next == Advance \/ Tick \/ EnvironmentChanges \/ CallerChanges

Spec == Init /\ [][Next]_vars /\ WF_vars(Advance)

-------------------------------------------------------------------------------

\* A stage is given to a target, as a fallback too, only if that target
\* itself, in this run, reported the model of this stage's operation, and of
\* operations that have every capability asked for; an answer of another target,
\* of another operation or of a key that was there before counts for nothing
\* (README.md: "models absent from the fresh `/models` observation" are refused).
PlacedOnEvidence ==
  \A s \in Stages : \A t \in candidates[s] :
    /\ t \in DOMAIN seen
    /\ request.op[s] \in request.bound[t] /\ request.model[t][request.op[s]] \in seen[t].models
    /\ \A c \in request.needs[s] :
         \E o \in request.bound[t] : c \in request.offers[t][o] /\ request.model[t][o] \in seen[t].models

\* A plan rests on answers that are not older than the time to live when it
\* is made, however long the slowest probe took: the time of the snapshot is
\* read before the first request and that of the plan after the last answer.
EvidenceIsRecent ==
  [][phase = "probing" /\ phase' = "planned" =>
       \A t \in DOMAIN seen : observedAt <= seen[t].when /\ clock < seen[t].when + Ttl /\ clock < observedAt + Ttl]_vars

\* A target that fails, in whatever way, does not take the others with it: if
\* each stage has one that answered with what it needs, in time, the run is
\* not refused.
FailuresStayAlone ==
  code = "no_eligible_target" =>
    \E s \in Stages : \A t \in request.permitted[s] \cap DOMAIN seen :
      ~(/\ request.op[s] \in request.bound[t]
        /\ request.model[t][request.op[s]] \in seen[t].models
        /\ request.needs[s] \subseteq request.offers[t][request.op[s]])

\* What is sent to a target has a usable token, of that target's own variable,
\* exactly if its binding names one, though variables change between probe and
\* call.
TokensGoHome ==
  \A q \in sent :
    IF request.key[q.to] = NoVariable THEN q.token = NoToken
    ELSE q.variable = request.key[q.to] /\ q.token = "usable"

\* Once the request is accepted, no call fails because of what the graph and
\* the bindings say of each other, on whatever fallback the run ends up.
AcceptedCallsFit == code # "misfit"

\* At most one target may have done a stage's work: a fallback is tried after
\* a refusal, not after silence or a useless answer (README.md: the runner
\* refuses "ambiguous retry"); and a run that returns had all its stages done.
WorkIsDoneOnce ==
  /\ \A s \in Stages : Cardinality(worked[s]) <= 1 /\ worked[s] \subseteq candidates[s]
  /\ phase = "returned" => \A s \in Stages : worked[s] # {}

\* Every run ends.
RunEnds == <>Ended
===============================================================================
