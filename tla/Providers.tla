------------------------------- MODULE Providers -------------------------------
(***************************************************************************)
(* What the program does with providers and what it sends them: the        *)
(* qualification of their operations, the shipped qualifier, one bounded   *)
(* fetch, a live run with its probes and calls, the guard of its inputs,   *)
(* and the gate of a browser's outputs. These components share no state,   *)
(* so there is nothing to interleave: in each behaviour one of them acts,  *)
(* and the others stay as they began.                                      *)
(***************************************************************************)
EXTENDS Integers, Sequences, FiniteSets

CONSTANTS
  QualifiedTargets, QualifiedOperations, Workers, Qualifications,       \* RuntimeQualification
  QualifierAnswers,
  RequestedOperations, Models, QualifierRequests,                       \* OperationQualifier
  Configurations, FetchRequests, Responses, MaxResponseBytes, Chunks,   \* BoundedFetch
  Stages, Inputs, Targets, Operations, Capabilities, Variables,         \* LiveRun
  NoVariable, NoToken, Ttl, MaxClock, LiveRequests,
  Nodes, Root, Values, MaxNodes, MaxDepth, Rounds,                      \* InputInspection
  Decisions, Outputs, Receipts                                          \* EgressGate

VARIABLES
  acting,
  \* RuntimeQualification
  phase, request, next, worker, taken, overdue, results, report, dispatches, verdicts,
  \* OperationQualifier
  qualifierAt, qualifierRequest, qualifierAborted, qualifierResults, allowed, listed, observation,
  fetched, tried,
  \* BoundedFetch
  configuration, fetchRequest, outcome, dispatched, work, result, raced, timedOut, callerAborted,
  total, whole, first,
  \* LiveRun
  liveRequest, livePhase, code, clock, environment, given, inputs, observedAt, probe, state,
  candidates, at, target, seen, sent, worked,
  \* InputInspection
  value, path, look, budget, atStart, verdict, round,
  \* EgressGate
  gate, binding, presented, snapshot, subject, permit, reason

Qualification ==
  INSTANCE RuntimeQualification WITH
    Targets <- QualifiedTargets, Operations <- QualifiedOperations, Requests <- Qualifications,
    Answers <- QualifierAnswers, aborted <- overdue

Qualifier ==
  INSTANCE OperationQualifier WITH
    Operations <- RequestedOperations, Requests <- QualifierRequests,
    at <- qualifierAt, request <- qualifierRequest, aborted <- qualifierAborted, results <- qualifierResults

Fetch == INSTANCE BoundedFetch WITH Requests <- FetchRequests, request <- fetchRequest

Live == INSTANCE LiveRun WITH Requests <- LiveRequests, request <- liveRequest, phase <- livePhase

Guard == INSTANCE InputInspection

Gate == INSTANCE EgressGate

ASSUME ProvidersAssumption ==
  /\ Qualification!QualificationAssumption /\ Qualifier!QualifierAssumption /\ Fetch!FetchAssumption
  /\ Live!LiveRunAssumption /\ Guard!InspectionAssumption /\ Gate!GateAssumption

-------------------------------------------------------------------------------

qualificationVars == <<phase, request, next, worker, taken, overdue, results, report, dispatches, verdicts>>
qualifierVars ==
  <<qualifierAt, qualifierRequest, qualifierAborted, qualifierResults, allowed, listed, observation,
    fetched, tried>>
fetchVars ==
  <<configuration, fetchRequest, outcome, dispatched, work, result, raced, timedOut, callerAborted,
    total, whole, first>>
liveVars ==
  <<liveRequest, livePhase, code, clock, environment, given, inputs, observedAt, probe, state,
    candidates, at, target, seen, sent, worked>>
guardVars == <<value, path, look, budget, atStart, verdict, round>>
gateVars == <<gate, binding, presented, snapshot, subject, permit, reason>>
providersVars == <<acting, qualificationVars, qualifierVars, fetchVars, liveVars, guardVars, gateVars>>

\* Each begins as it may, if it is to act, and else in one certain way.
ProvidersInit ==
  /\ acting \in {"qualification", "qualifier", "fetch", "live", "guard", "gate"}
  /\ Qualification!Init /\ (acting # "qualification" => request = CHOOSE q \in Qualifications : TRUE)
  /\ Qualifier!Init /\ (acting # "qualifier" => qualifierRequest = CHOOSE q \in QualifierRequests : TRUE)
  /\ Fetch!Init /\ (acting # "fetch" => /\ configuration = CHOOSE c \in Configurations : TRUE
                                        /\ fetchRequest = CHOOSE r \in FetchRequests : TRUE)
  /\ Live!Init /\ (acting # "live" => /\ liveRequest = CHOOSE r \in LiveRequests : TRUE
                                      /\ given = [i \in Inputs |-> "text"]
                                      /\ environment = [v \in Variables |-> "unset"])
  /\ Guard!Init /\ (acting # "guard" => value = CHOOSE v \in Values : TRUE)
  /\ Gate!GateInit /\ (acting # "gate" => /\ presented = CHOOSE r \in Receipts : TRUE
                                          /\ binding = CHOOSE d \in Decisions : TRUE
                                          /\ subject = CHOOSE o \in Outputs : TRUE)

QualificationActs(A) ==
  acting = "qualification" /\ A /\ UNCHANGED <<acting, qualifierVars, fetchVars, liveVars, guardVars, gateVars>>
QualifierActs(A) ==
  acting = "qualifier" /\ A /\ UNCHANGED <<acting, qualificationVars, fetchVars, liveVars, guardVars, gateVars>>
FetchActs(A) ==
  acting = "fetch" /\ A /\ UNCHANGED <<acting, qualificationVars, qualifierVars, liveVars, guardVars, gateVars>>
LiveActs(A) ==
  acting = "live" /\ A /\ UNCHANGED <<acting, qualificationVars, qualifierVars, fetchVars, guardVars, gateVars>>
GuardActs(A) ==
  acting = "guard" /\ A /\ UNCHANGED <<acting, qualificationVars, qualifierVars, fetchVars, liveVars, gateVars>>
GateActs(A) ==
  acting = "gate" /\ A /\ UNCHANGED <<acting, qualificationVars, qualifierVars, fetchVars, liveVars, guardVars>>

ProvidersNext ==
  \/ QualificationActs(Qualification!Next)
  \/ QualifierActs(Qualifier!Next)
  \/ FetchActs(Fetch!Next)
  \/ LiveActs(Live!Next)
  \/ GuardActs(Guard!Next)
  \/ GateActs(Gate!GateNext)

\* The fairness of each component, as it states it.
ProvidersSpec ==
  /\ ProvidersInit /\ [][ProvidersNext]_providersVars
  /\ WF_providersVars(QualificationActs(Qualification!Start)) /\ WF_providersVars(QualificationActs(Qualification!Deadline))
  /\ WF_providersVars(QualificationActs(Qualification!Report))
  /\ \A w \in Workers : WF_providersVars(QualificationActs(Qualification!Go(w)))
  /\ WF_providersVars(QualifierActs(Qualifier!Proceed))
  /\ WF_providersVars(FetchActs(Fetch!Settle)) /\ WF_providersVars(FetchActs(Fetch!ReadOn)) /\ WF_providersVars(FetchActs(Fetch!Timer))
  /\ WF_providersVars(LiveActs(Live!Advance))

-------------------------------------------------------------------------------

\* An operation is qualified only by an answer of its own qualifier, of the
\* shipped one only by a listed model and an inference that fits; each target
\* and operation is asked about once, and each has its own reason in a report:
\* the deadline's only if it passed or the qualifier itself gave it. What the
\* shipped qualifier says of an excessive one comes before anything else; what
\* the report says of it is in LimitsAreNamed.
QualifiedIsEarned ==
  /\ Qualification!TypeOK /\ Qualification!EachTargetOnce
  /\ Qualification!QualifiedIsEarned /\ Qualification!ReportIsComplete
  /\ Qualifier!TypeOK /\ Qualifier!QualifiedOnBoth /\ Qualifier!ExcessFirst /\ Qualifier!OneRequestEach

\* A generation whose token limit is missing or too high is reported as that
\* (docs/adr/0003-runtime-qualification-gate.md:39-42: "Missing or excessive
\* values become operation_configuration_unqualified before credential
\* resolution or operation I/O").
LimitsAreNamed == Qualification!ExcessIsNamed

\* A stage runs where its target itself has just reported what it needs, with
\* that target's own token, and on one target at most; a target that fails
\* takes no other with it, and no accepted request turns out a misfit.
LiveRunIsSound ==
  /\ Live!TypeOK /\ Live!PlacedOnEvidence /\ Live!FailuresStayAlone
  /\ Live!TokensGoHome /\ Live!AcceptedCallsFit /\ Live!WorkIsDoneOnce

\* What is fetched is what was checked, a response is whole, within its limit
\* and in time, and an error is named for what ended the call first.
FetchIsSound ==
  Fetch!TypeOK /\ Fetch!OnlyWhatWasChecked /\ Fetch!ResponsesAreWhole /\ Fetch!NamedForItsCause

\* What the guard clears was seen whole and has nothing sensitive in it, and
\* what it refuses has the reason it is refused for, in a second inspection
\* too; and what the gate permits is the output it was asked for with a receipt
\* of it that passed every check, whatever becomes of the caller's objects.
GuardsAreTrue ==
  /\ Guard!TypeOK /\ Guard!CleanIsClean /\ Guard!RefusalsAreTrue
  /\ Gate!GateTypeOK /\ Gate!PermitIsExact

\* Answers that come after a deadline, a timeout or an abort change no result,
\* cause no further request and are not read; and a plan rests on no answer
\* older than its time to live, however late the slowest came.
LateAnswersChangeNothing ==
  /\ Qualification!ResultsStand
  /\ Qualifier!NothingSentAfterwards
  /\ Fetch!NothingReadAfterwards
  /\ Live!EvidenceIsRecent

\* Whatever providers, resolvers and qualifiers do, or fail ever to do, every
\* call ends.
EveryCallEnds ==
  /\ acting = "qualification" => Qualification!QualificationEnds
  /\ acting = "qualifier" => Qualifier!CallEnds
  /\ acting = "fetch" => Fetch!CallEnds
  /\ acting = "live" => Live!RunEnds
==============================================================================
