-------------------------- MODULE RuntimeQualification --------------------------
(***************************************************************************)
(* The qualification of configured runtimes (application/runtime-          *)
(* qualification.ts, qualifyRuntimeOperations): workers take the selected  *)
(* targets from a shared index, have the credential of each resolved and   *)
(* its operations qualified, under one deadline, and the results are       *)
(* sealed in one report (domain/runtime-qualification.ts).                 *)
(*                                                                         *)
(* Resolvers and qualifiers are code of the deployment: they may answer    *)
(* anything, throw, or never settle.  A target is its place in the order   *)
(* of target identifiers.  The deadline is a timer: it fires when no       *)
(* worker has a microtask to run ("loop").                                 *)
(***************************************************************************)
EXTENDS Integers, FiniteSets

CONSTANTS
  Targets, Operations,
  Workers,            \* maxConcurrency of them
  Requests,           \* what may be asked for
  Answers             \* what a qualifier may answer: verdicts on operations, asked about or not

Last == Cardinality(Targets)

\* runtimeQualificationReasonCodeSchema, "operation_rejected" standing for the
\* ones that only qualifiers give.  The others are the program's own, but a
\* qualifier may give any of them too.
Reasons == {"qualified", "operation_rejected", "qualifier_unavailable",
            "credential_unavailable", "deadline_exceeded",
            "operation_configuration_unqualified", "qualifier_failure"}

\* What is read of the bindings, the profile and the registry.
Request ==
  [selected : [Targets -> (SUBSET Operations) \ {{}}],
   bound : [Targets -> SUBSET Operations],
   excessive : [Targets -> SUBSET Operations],  \* no token limit, or one too high
   registered : SUBSET Targets,                 \* a qualifier of their kind is
   credentialed : SUBSET Targets,               \* they name a credential
   resolver : BOOLEAN,
   maxOperations : Nat]

QualificationAssumption ==
  /\ IsFiniteSet(Targets) /\ Targets = 1..Last /\ Last > 0
  /\ IsFiniteSet(Workers) /\ Workers # {}
  /\ Requests \subseteq Request
  /\ Answers \subseteq UNION {[O -> Reasons] : O \in SUBSET Operations}

VARIABLES
  phase,      \* "received", "running", "refused", "reported", or "unsealed"
  request,
  next,       \* nextIndex
  worker,     \* what each worker is at
  taken,      \* the target each worker has
  aborted,    \* the deadline's signal
  results,    \* resultsByTarget: the reason code of each operation, once known
  report,     \* the sealed report
  dispatches, \* history: how often each target's qualifier was called
  verdicts    \* history: what the qualifiers answered of each operation

vars == <<phase, request, next, worker, taken, aborted, results, report, dispatches, verdicts>>

NoResult == <<>>
Results(t) == [request.selected[t] -> Reasons]

TypeOK ==
  /\ phase \in {"received", "running", "refused", "reported", "unsealed"}
  /\ request \in Requests
  /\ next \in 1..(Last + Cardinality(Workers) + 1)
  /\ worker \in [Workers -> {"loop", "credential", "qualifier", "ended"}]
  /\ taken \in [Workers -> Targets \cup {0}]
  /\ \A w \in Workers : worker[w] \in {"credential", "qualifier"} => taken[w] \in Targets
  /\ aborted \in BOOLEAN
  /\ DOMAIN results = Targets
  /\ \A t \in Targets : results[t] = NoResult \/ results[t] \in Results(t)
  /\ phase = "reported" => \A t \in Targets : report[t] \in Results(t)
  /\ DOMAIN verdicts = Targets
  /\ dispatches \in [Targets -> Nat]

-------------------------------------------------------------------------------

Init ==
  /\ phase = "received"
  /\ request \in Requests
  /\ next = 1
  /\ worker = [w \in Workers |-> "loop"]
  /\ taken = [w \in Workers |-> 0]
  /\ aborted = FALSE
  /\ results = [t \in Targets |-> NoResult]
  /\ report = [t \in Targets |-> NoResult]
  /\ dispatches = [t \in Targets |-> 0]
  /\ verdicts = [t \in Targets |-> NoResult]

Selection == UNION {{t} \X request.selected[t] : t \in Targets}

\* selectedTargets: every operation is bound, and there are not too many.
Admissible ==
  /\ \A t \in Targets : request.selected[t] \subseteq request.bound[t]
  /\ Cardinality(Selection) <= request.maxOperations

Start ==
  /\ phase = "received"
  /\ phase' = IF Admissible THEN "running" ELSE "refused"
  /\ UNCHANGED <<request, next, worker, taken, aborted, results, report, dispatches, verdicts>>

Excess(t) == request.selected[t] \cap request.excessive[t]
Admitted(t) == request.selected[t] \ Excess(t)

\* The results of a target whose admitted operations all have one reason.
All(t, reason) ==
  [o \in request.selected[t] |->
     IF o \in Excess(t) THEN "operation_configuration_unqualified" ELSE reason]

\* Each worker looks at the signal before it takes another target.
Stop(w) ==
  /\ phase = "running" /\ worker[w] = "loop"
  /\ aborted \/ next \notin Targets
  /\ worker' = [worker EXCEPT ![w] = "ended"]
  /\ next' = IF aborted THEN next ELSE next + 1
  /\ UNCHANGED <<phase, request, taken, aborted, results, report, dispatches, verdicts>>

\* The index is read and incremented in one go.  What follows is as far as the
\* worker gets before it awaits a party of the deployment.
Take(w, t) ==
  /\ phase = "running" /\ worker[w] = "loop" /\ ~aborted
  /\ t = next /\ t \in Targets
  /\ next' = next + 1

Settle(w, t, result) ==
  /\ results' = [results EXCEPT ![t] = result]
  /\ worker' = [worker EXCEPT ![w] = "loop"]

Call(w, t) ==
  /\ worker' = [worker EXCEPT ![w] = "qualifier"]
  /\ dispatches' = [dispatches EXCEPT ![t] = @ + 1]
  /\ UNCHANGED <<results, verdicts>>

\* There is nobody to ask, or nothing to ask about.
TakeUnqualified(w, t) ==
  /\ Take(w, t)
  /\ \/ /\ t \notin request.registered
        /\ Settle(w, t, [o \in request.selected[t] |-> "qualifier_unavailable"])
     \/ /\ t \in request.registered
        /\ \/ Admitted(t) = {}
           \/ t \in request.credentialed /\ ~request.resolver
        /\ Settle(w, t, All(t, "credential_unavailable"))
  /\ UNCHANGED <<phase, request, taken, aborted, report, dispatches, verdicts>>

\* The credential's resolver, or the qualifier, is called.
TakeQualifiable(w, t) ==
  /\ Take(w, t)
  /\ t \in request.registered /\ Admitted(t) # {}
  /\ taken' = [taken EXCEPT ![w] = t]
  /\ \/ /\ t \in request.credentialed /\ request.resolver
        /\ worker' = [worker EXCEPT ![w] = "credential"]
        /\ UNCHANGED <<results, dispatches, verdicts>>
     \/ t \notin request.credentialed /\ Call(w, t)
  /\ UNCHANGED <<phase, request, aborted, report>>

\* The resolver gives a usable credential: the qualifier is called.
Resolve(w) ==
  /\ worker[w] = "credential"
  /\ Call(w, taken[w])
  /\ UNCHANGED <<phase, request, next, taken, aborted, report>>

\* It throws, or gives none that may be used.
ResolveNothing(w) ==
  /\ worker[w] = "credential"
  /\ Settle(w, taken[w], All(taken[w], "credential_unavailable"))
  /\ UNCHANGED <<phase, request, next, taken, aborted, report, dispatches, verdicts>>

\* The answer of a qualifier: one verdict for each operation it was asked about.
Combined(t, answer) ==
  [o \in request.selected[t] |->
     IF o \in Excess(t) THEN "operation_configuration_unqualified" ELSE answer[o]]

\* Faulty: an answer need only cover what was asked.
QualifyCovering(w, answer) ==
  LET t == taken[w]
  IN  /\ worker[w] = "qualifier"
      /\ verdicts' = [verdicts EXCEPT ![t] = answer]
      /\ Settle(w, t, IF Admitted(t) \subseteq DOMAIN answer THEN Combined(t, answer)
                      ELSE All(t, "qualifier_failure"))
      /\ UNCHANGED <<phase, request, next, taken, aborted, report, dispatches>>

\* validatedQualifierResults: any answer but one verdict for each operation it
\* was asked about is a failure of the qualifier.
Qualify(w, answer) ==
  LET t == taken[w]
  IN  /\ worker[w] = "qualifier"
      /\ verdicts' = [verdicts EXCEPT ![t] = answer]
      /\ Settle(w, t, IF DOMAIN answer = Admitted(t) THEN Combined(t, answer)
                      ELSE All(t, "qualifier_failure"))
      /\ UNCHANGED <<phase, request, next, taken, aborted, report, dispatches>>

\* It throws, at once or later, or answers something that is no list of verdicts.
QualifierFails(w) ==
  /\ worker[w] = "qualifier"
  /\ Settle(w, taken[w], All(taken[w], "qualifier_failure"))
  /\ UNCHANGED <<phase, request, next, taken, aborted, report, dispatches, verdicts>>

\* Faulty: workers find out of the deadline when they look for it.
DeadlineUnraced ==
  /\ phase = "running" /\ ~aborted
  /\ \A w \in Workers : worker[w] # "loop"
  /\ aborted' = TRUE
  /\ UNCHANGED <<phase, request, next, worker, taken, results, report, dispatches, verdicts>>

Waiting(t) == \E w \in Workers : worker[w] \in {"credential", "qualifier"} /\ taken[w] = t

\* Every worker that awaits somebody gives up its target; what it awaited may
\* go on, and its answer is dropped.
Deadline ==
  /\ phase = "running" /\ ~aborted
  /\ \A w \in Workers : worker[w] # "loop"
  /\ \E w \in Workers : worker[w] # "ended"
  /\ aborted' = TRUE
  /\ results' = [t \in Targets |->
                   IF Waiting(t) THEN All(t, "deadline_exceeded") ELSE results[t]]
  /\ worker' = [w \in Workers |-> IF worker[w] = "ended" THEN "ended" ELSE "loop"]
  /\ UNCHANGED <<phase, request, next, taken, report, dispatches, verdicts>>

\* What is reported of a target: one that no worker took has the deadline's
\* reason for all its operations.
Reported(t) ==
  IF results[t] # NoResult THEN results[t]
  ELSE [o \in request.selected[t] |->
          IF t \in request.registered THEN "deadline_exceeded" ELSE "qualifier_unavailable"]

\* runtimeQualificationResultSchema: a result names no qualifier exactly when
\* its reason is that there is none.
Sealable ==
  \A t \in Targets : \A o \in request.selected[t] :
    Reported(t)[o] = "qualifier_unavailable" <=> t \notin request.registered

\* All workers have ended: the timer is cleared and the report sealed.
Report ==
  /\ phase = "running"
  /\ \A w \in Workers : worker[w] = "ended"
  /\ phase' = IF Sealable THEN "reported" ELSE "unsealed"
  /\ report' = IF Sealable THEN [t \in Targets |-> Reported(t)] ELSE report
  /\ UNCHANGED <<request, next, worker, taken, aborted, results, dispatches, verdicts>>

Go(w) == Stop(w) \/ \E t \in Targets : TakeUnqualified(w, t) \/ TakeQualifiable(w, t)

Next ==
  \/ Start
  \/ \E w \in Workers : Go(w)
  \/ \E w \in Workers : Resolve(w) \/ ResolveNothing(w) \/ QualifierFails(w)
  \/ \E w \in Workers : \E answer \in Answers : Qualify(w, answer)
  \/ Deadline
  \/ Report

Spec == Init /\ [][Next]_vars

\* Microtasks run and the timer fires; resolvers and qualifiers need never settle.
FairSpec ==
  Spec /\ WF_vars(Start) /\ WF_vars(Deadline) /\ WF_vars(Report) /\ \A w \in Workers : WF_vars(Go(w))

-------------------------------------------------------------------------------

\* However many workers share the index, no target's qualifier is called twice,
\* and no two workers have one target.
EachTargetOnce ==
  /\ \A t \in Targets : dispatches[t] <= 1
  /\ \A v, w \in Workers :
       /\ {worker[v], worker[w]} \subseteq {"credential", "qualifier"}
       /\ taken[v] = taken[w]
       => v = w

\* The qualifier of a target answered, about what it was asked and nothing else.
Answered(t) == verdicts[t] # NoResult /\ DOMAIN verdicts[t] = Admitted(t)

\* An operation is reported as qualified only if its own qualifier was asked
\* about it and said so, in an answer about what it was asked and nothing else.
QualifiedIsEarned ==
  phase = "reported" =>
    \A t \in Targets : \A o \in request.selected[t] :
      report[t][o] = "qualified" =>
        /\ o \notin request.excessive[t]
        /\ Answered(t) /\ verdicts[t][o] = "qualified"

\* Every selected operation is in the report, and is there for its own reason:
\* the deadline is blamed only if it passed, or the operation's own qualifier
\* blames it; and a target whose qualifier answered in time is reported as it
\* answered, whatever became of the others.
ReportIsComplete ==
  phase = "reported" =>
    \A t \in Targets :
      /\ report[t] # NoResult
      /\ DOMAIN report[t] = request.selected[t]
      /\ \A o \in request.selected[t] : report[t][o] = "deadline_exceeded" =>
           aborted \/ (Answered(t) /\ o \in Admitted(t) /\ verdicts[t][o] = "deadline_exceeded")
      /\ Answered(t) => \A o \in Admitted(t) : report[t][o] = verdicts[t][o]

\* A generation without a token limit, or with one above the profile's, of a
\* target that has a qualifier, is reported as just that, whatever becomes of
\* the target.  So docs/adr/0003-runtime-qualification-gate.md has
\* it; the code does not look at a target that no worker took in time.
ExcessIsNamed ==
  phase = "reported" =>
    \A t \in request.registered : \A o \in Excess(t) :
      report[t][o] = "operation_configuration_unqualified"

\* A target whose answer is settled is never given another one, by the deadline
\* or by a worker.
ResultsStand ==
  [][\A t \in Targets : results[t] # NoResult => results'[t] = results[t]]_vars

\* Qualification ends though no resolver and no qualifier ever settles.
QualificationEnds == phase = "received" ~> phase \in {"refused", "reported", "unsealed"}
================================================================================
