--------------------------- MODULE OperationQualifier ---------------------------
(***************************************************************************)
(* One qualify() of the OpenAI-compatible qualifier (adapters/openai-      *)
(* compatible-runtime-operation-qualifier.ts), the one RuntimeQualification *)
(* takes as foreign code: the provider's models are listed once, then each *)
(* admitted operation is tried once, in the request's order, all under the *)
(* caller's signal.                                                        *)
(*                                                                         *)
(* The provider answers anything; every request to it ends by its timeout  *)
(* (BoundedFetch).  Whether an operation's output fits its kind is one bit.*)
(***************************************************************************)
EXTENDS Naturals, Sequences, SequencesExt

CONSTANTS
  Operations, Models,
  Requests        \* what may be asked for

Suffix(kind) == IF kind = "embedding" THEN "embeddings" ELSE "chat/completions"
Kinds == {"generate-text", "embedding"}

Request ==
  [operations : Seq(Operations),            \* selected by the caller
   bound : SUBSET Operations,               \* those the target binds exactly so
   kind : [Operations -> Kinds],
   model : [Operations -> Models],
   excessive : SUBSET Operations,           \* no token limit, or one too high
   required : BOOLEAN,                      \* the target names a credential
   credential : {"none", "usable", "unusable"}]

NoOperation == "models"

QualifierAssumption ==
  /\ Requests \subseteq Request /\ NoOperation \notin Operations
  /\ \A r \in Requests : \A o \in r.excessive : r.kind[o] = "generate-text"

\* How a request to the provider may fail, of itself or of the bounded fetch.
FetchFailures ==
  {"request_timeout", "upstream_redirect", "response_invalid", "response_too_large", "network_failure"}
DiscoveryFailures == FetchFailures \cup {"provider_rejected"}
OperationFailures == FetchFailures \cup {"operation_rejected", "operation_output_invalid"}
Reasons ==
  DiscoveryFailures \cup OperationFailures \cup
  {"qualified", "request_rejected", "deadline_exceeded", "credential_unavailable", "model_unavailable",
   "operation_configuration_unqualified"}

VARIABLES
  at,          \* "idle", "models", "next", "operation", "returned" or "thrown"
  request,
  aborted,     \* the caller's signal
  allowed,     \* the suffixes the bounded fetch lets through
  listed,      \* the models observed
  observation, \* the reason there are none, or "none"
  results,     \* the reasons so far, in the order of the operations
  fetched,     \* history: the requests that were sent
  tried        \* history: how each operation that was sent ended

vars == <<at, request, aborted, allowed, listed, observation, results, fetched, tried>>

Sent(operation, suffix) == [operation |-> operation, suffix |-> suffix]

TypeOK ==
  /\ at \in {"idle", "models", "next", "operation", "returned", "thrown"}
  /\ request \in Requests
  /\ aborted \in BOOLEAN
  /\ allowed \subseteq {"models", "chat/completions", "embeddings"}
  /\ listed \subseteq Models
  /\ observation \in DiscoveryFailures \cup {"none", "deadline_exceeded"}
  /\ results \in Seq(Reasons)
  /\ Len(results) <= Len(request.operations)
  /\ DOMAIN tried \subseteq Operations

-------------------------------------------------------------------------------

Init ==
  /\ at = "idle"
  /\ request \in Requests
  /\ aborted = FALSE
  /\ allowed = {} /\ listed = {} /\ observation = "none"
  /\ results = <<>>
  /\ fetched = <<>>
  /\ tried = [o \in {} |-> "none"]

\* exactSelectedOperations: every one as it is bound, and none twice.
Exact ==
  /\ request.operations # <<>>
  /\ Range(request.operations) \subseteq request.bound
  /\ IsInjective(request.operations)

\* configurationQualified
Runnable(o) == o \notin request.excessive

CredentialFits ==
  \/ request.required /\ request.credential = "usable"
  \/ ~request.required /\ request.credential = "none"

\* What is rejected before any request is sent.
AllRejected(reason) ==
  [i \in DOMAIN request.operations |->
     IF Runnable(request.operations[i]) THEN reason ELSE "operation_configuration_unqualified"]

SomeRunnable == \E o \in Range(request.operations) : Runnable(o)

Allowed == {"models"} \cup {Suffix(request.kind[o]) : o \in {p \in Range(request.operations) : Runnable(p)}}

\* As far as the first request, which is not sent for an aborted signal.
Qualify ==
  /\ at = "idle"
  /\ \/ /\ ~Exact
        /\ at' = "thrown" /\ UNCHANGED <<allowed, observation, results, fetched>>
     \/ /\ Exact /\ (~SomeRunnable \/ ~CredentialFits)
        /\ at' = "returned" /\ results' = AllRejected("credential_unavailable")
        /\ UNCHANGED <<allowed, observation, fetched>>
     \/ /\ Exact /\ SomeRunnable /\ CredentialFits
        /\ allowed' = Allowed
        /\ IF aborted
           THEN at' = "next" /\ observation' = "deadline_exceeded" /\ UNCHANGED fetched
           ELSE at' = "models" /\ fetched' = <<Sent(NoOperation, "models")>> /\ UNCHANGED observation
        /\ UNCHANGED results
  /\ UNCHANGED <<request, aborted, listed, tried>>

\* observeModels: a list, or a failure of any kind; the abort, if it comes first.
ObserveModels ==
  /\ at = "models" /\ at' = "next"
  /\ \/ listed' \in SUBSET Models /\ UNCHANGED observation
     \/ observation' \in DiscoveryFailures /\ UNCHANGED listed
     \/ aborted /\ observation' = "deadline_exceeded" /\ UNCHANGED listed
  /\ UNCHANGED <<request, aborted, allowed, results, fetched, tried>>

Turn == Len(results) + 1
Operation == request.operations[Turn]
Left == Turn \in DOMAIN request.operations

\* The list's failure first, then the model's absence, then the try.
Reason(reason) ==
  IF observation # "none" THEN observation
  ELSE IF request.model[Operation] \notin listed THEN "model_unavailable"
  ELSE reason

Skip ==
  /\ at = "next" /\ Left /\ ~Runnable(Operation)
  /\ results' = Append(results, "operation_configuration_unqualified")
  /\ UNCHANGED <<at, request, aborted, allowed, listed, observation, fetched, tried>>

\* qualifyOperation, to its request: it is sent whatever the list was like.
Try ==
  /\ at = "next" /\ Left /\ Runnable(Operation)
  /\ \/ /\ ~aborted /\ Suffix(request.kind[Operation]) \in allowed
        /\ at' = "operation"
        /\ fetched' = Append(fetched, Sent(Operation, Suffix(request.kind[Operation])))
        /\ UNCHANGED results
     \/ /\ aborted \/ Suffix(request.kind[Operation]) \notin allowed
        /\ results' = Append(results, Reason(IF aborted THEN "deadline_exceeded" ELSE "request_rejected"))
        /\ UNCHANGED <<at, fetched>>
  /\ UNCHANGED <<request, aborted, allowed, listed, observation, tried>>

\* How a try may end: by the abort, if that comes first.
Outcomes ==
  OperationFailures \cup {"qualified"} \cup (IF aborted THEN {"deadline_exceeded"} ELSE {})

Settle ==
  /\ at = "operation" /\ at' = "next"
  /\ \E outcome \in Outcomes :
       /\ tried' = [o \in DOMAIN tried \cup {Operation} |-> IF o = Operation THEN outcome ELSE tried[o]]
       /\ results' = Append(results, Reason(outcome))
  /\ UNCHANGED <<request, aborted, allowed, listed, observation, fetched>>

Return ==
  /\ at = "next" /\ ~Left /\ at' = "returned"
  /\ UNCHANGED <<request, aborted, allowed, listed, observation, results, fetched, tried>>

\* The deadline of RuntimeQualification.
Abort ==
  /\ ~aborted /\ aborted' = TRUE /\ at \notin {"returned", "thrown"}
  /\ UNCHANGED <<at, request, allowed, listed, observation, results, fetched, tried>>

\* Microtasks run, and every request ends by its timeout.
Proceed == Qualify \/ ObserveModels \/ Skip \/ Try \/ Settle \/ Return

Next == Proceed \/ Abort

Spec == Init /\ [][Next]_vars /\ WF_vars(Proceed)

-------------------------------------------------------------------------------

\* An operation is qualified exactly when its model is in the list of this very
\* call and its own request was answered with an output that fits; neither
\* evidence replaces the other, and no other operation's failure counts
\* (docs/adr/0003-runtime-qualification-gate.md: "GET /models proves that a
\* server advertises an identifier; it does not prove ...").
QualifiedOnBoth ==
  \A i \in DOMAIN results :
    LET o == request.operations[i] IN
    (results[i] = "qualified") <=>
      /\ observation = "none" /\ request.model[o] \in listed
      /\ o \in DOMAIN tried /\ tried[o] = "qualified"

\* Whatever else goes wrong, an operation without a bounded number of tokens is
\* reported as such, and nothing is sent for it.
ExcessFirst ==
  /\ \A i \in DOMAIN results :
       (results[i] = "operation_configuration_unqualified") <=> ~Runnable(request.operations[i])
  /\ \A k \in DOMAIN fetched : fetched[k].operation # NoOperation => Runnable(fetched[k].operation)

\* No request is sent twice, none without the right credential, and if nobody
\* aborts, a call that had any sends exactly the list's and one for every
\* operation that may run (ADR 0003: "exactly one").
OneRequestEach ==
  /\ IsInjective(fetched)
  /\ fetched # <<>> => CredentialFits
  /\ at = "returned" /\ ~aborted /\ fetched # <<>> =>
       Range(fetched) =
         {Sent(NoOperation, "models")} \cup
         {Sent(o, Suffix(request.kind[o])) : o \in {p \in Range(request.operations) : Runnable(p)}}

\* After the deadline nothing more is sent, of however many operations are left.
NothingSentAfterwards == [][aborted => fetched' = fetched]_vars

\* Whatever the provider does, the call ends, with a reason for every operation.
CallEnds ==
  at # "idle" ~> (at = "thrown" \/ (at = "returned" /\ Len(results) = Len(request.operations)))
================================================================================
