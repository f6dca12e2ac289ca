---------------------------- MODULE ProvidersProofs ----------------------------
(***************************************************************************)
(* Proofs about the components that deal with providers, each by an        *)
(* inductive invariant of its own, for any targets, requests, responses,   *)
(* limits and inputs: the gate, one bounded fetch, the shipped qualifier,  *)
(* the qualification, the guard, the live run; and, at the end, the        *)
(* classifier over one pipeline.                                           *)
(***************************************************************************)
EXTENDS Providers, SpanClassifier, FiniteSetTheorems, SequenceTheorems, TLAPS

\* A step of one component leaves the variables of the others alone.
LEMMA Steps ==
  ASSUME [ProvidersNext]_providersVars
  PROVE  /\ Qualification!Next \/ UNCHANGED qualificationVars
         /\ Qualifier!Next \/ UNCHANGED qualifierVars
         /\ Fetch!Next \/ UNCHANGED fetchVars
         /\ Live!Next \/ UNCHANGED liveVars
         /\ Guard!Next \/ UNCHANGED guardVars
         /\ Gate!GateNext \/ UNCHANGED gateVars
<1>1. CASE QualificationActs(Qualification!Next)
  BY <1>1 DEF QualificationActs
<1>2. CASE QualifierActs(Qualifier!Next)
  BY <1>2 DEF QualifierActs
<1>3. CASE FetchActs(Fetch!Next)
  BY <1>3 DEF FetchActs
<1>4. CASE LiveActs(Live!Next)
  BY <1>4 DEF LiveActs
<1>5. CASE GuardActs(Guard!Next)
  BY <1>5 DEF GuardActs
<1>6. CASE GateActs(Gate!GateNext)
  BY <1>6 DEF GateActs
<1>7. CASE UNCHANGED providersVars
  BY <1>7 DEF providersVars
<1> QED
  BY <1>1, <1>2, <1>3, <1>4, <1>5, <1>6, <1>7 DEF ProvidersNext

-------------------------------------------------------------------------------
(* The gate.                                                                 *)

\* What is authorized is the subject as it was snapshotted, with a receipt in
\* order and of its digest.
GateInv ==
  /\ Gate!GateTypeOK
  /\ gate \in {"digesting", "authorized"} => Gate!InOrder(snapshot, binding)
  /\ gate = "authorized" => permit = <<subject, snapshot>> /\ snapshot.digestOf = subject

LEMMA GateBegins == ProvidersInit => GateInv
BY DEF ProvidersInit, GateInv, Gate!GateInit, Gate!GateTypeOK, Gate!NoPermit

LEMMA GateActing == GateInv /\ (Gate!GateNext \/ UNCHANGED gateVars) => GateInv'
<1> SUFFICES ASSUME GateInv, Gate!GateNext \/ UNCHANGED gateVars
             PROVE  GateInv'
  OBVIOUS
<1> USE DEF GateInv, Gate!GateTypeOK, Gate!NoPermit, Gate!InOrder, Gate!Fails, Gate!Denials, Gate!Checks
<1>1. CASE Gate!Present
  BY <1>1 DEF Gate!Present
<1>2. CASE Gate!PresentMalformed
  BY <1>2 DEF Gate!PresentMalformed
<1>3. CASE Gate!Compare
  BY <1>3 DEF Gate!Compare, Gate!Compared
<1>4. CASE Gate!Release
  BY <1>4 DEF Gate!Release
<1>5. CASE Gate!CallerChanges
  BY <1>5 DEF Gate!CallerChanges
<1>6. CASE UNCHANGED gateVars
  BY <1>6 DEF gateVars
<1> QED
  BY <1>1, <1>2, <1>3, <1>4, <1>5, <1>6 DEF Gate!GateNext, Gate!GateStep

LEMMA GateAlways == ProvidersSpec => []GateInv
<1>1. GateInv /\ [ProvidersNext]_providersVars => GateInv'
  BY Steps, GateActing
<1> QED
  BY GateBegins, <1>1, PTL DEF ProvidersSpec

LEMMA PermitsAreExact == GateInv => Gate!GateTypeOK /\ Gate!PermitIsExact
BY DEF GateInv, Gate!GateTypeOK, Gate!NoPermit, Gate!PermitIsExact

-------------------------------------------------------------------------------
(* The fetch.                                                                *)

\* What each stand of the call's work says of its outcome: what was dispatched
\* is what was checked, and the first thing to end the call is what it is named
\* for.
FetchInv ==
  /\ Fetch!TypeOK
  /\ (outcome = "invalid_configuration") <=> ~Fetch!Configured(configuration)
  /\ work = "uncalled" => dispatched = Fetch!NoUrl /\ raced = "none" /\ result = "none" /\ first = "none"
                          /\ ~timedOut /\ outcome \in {"none", "invalid_configuration", "request_rejected", "request_aborted"}
  /\ dispatched # Fetch!NoUrl =>
       dispatched = fetchRequest.url /\ Fetch!Reachable(fetchRequest.url) /\ Fetch!Configured(configuration)
  /\ work # "uncalled" =>
       /\ (raced = "none") => ~timedOut /\ ~callerAborted /\ first = "none" /\ outcome = "none"
       /\ outcome # "invalid_configuration" /\ outcome # "request_rejected"
  /\ work \in {"read", "fetch", "cancel", "chunk", "overflow"} /\ raced # "none" => first # "none"
  /\ work \in {"uncalled", "fetch"} => total = 0
  /\ work = "read" => raced = "none"
  /\ work = "ended" => raced # "none"
  /\ work = "cancel" => result \in Fetch!Failures \ {"request_timeout", "request_aborted", "request_rejected"}
  /\ result \notin {"request_timeout", "request_aborted", "request_rejected", "invalid_configuration"}
  /\ first = "timer" => raced = "request_timeout"
  /\ first = "caller" => raced = "request_aborted"
  /\ first # "none" => Fetch!Aborted
  /\ first = "none" /\ raced # "none" => raced = result
  /\ timedOut => first = "timer"
  /\ raced = "response" => whole /\ total <= MaxResponseBytes
  /\ outcome = "response" => raced = "response"
  /\ outcome # "none" /\ work # "uncalled" =>
       \/ outcome = raced
       \/ raced = "network_failure" /\ callerAborted /\ outcome = "request_aborted"

LEMMA FetchBegins == ProvidersInit => FetchInv
<1> SUFFICES ASSUME ProvidersInit
             PROVE  FetchInv
  OBVIOUS
<1> USE DEF ProvidersInit, Fetch!Init
<1>1. Fetch!TypeOK
  BY ProvidersAssumption DEF ProvidersAssumption, Fetch!FetchAssumption, Fetch!TypeOK, Fetch!NoUrl, Fetch!None, Fetch!Outcomes
<1> QED
  BY <1>1 DEF FetchInv, Fetch!NoUrl, Fetch!None

LEMMA FetchKept == FetchInv /\ (Fetch!Next \/ UNCHANGED fetchVars) => FetchInv'
<1> SUFFICES ASSUME FetchInv, Fetch!Next \/ UNCHANGED fetchVars
             PROVE  FetchInv'
  OBVIOUS
<1>0. MaxResponseBytes \in Nat \ {0} /\ Chunks \subseteq Nat \ {0}
  BY ProvidersAssumption DEF ProvidersAssumption, Fetch!FetchAssumption
<1> USE <1>0 DEF FetchInv, Fetch!TypeOK, Fetch!NoUrl, Fetch!None, Fetch!Outcomes, Fetch!Failures, Fetch!Aborted, Fetch!Reachable
<1>1. CASE Fetch!Call
  BY <1>1 DEF Fetch!Call, Fetch!Refuse, Fetch!Forwarded
<1>2. CASE Fetch!FetchFails
  BY <1>2 DEF Fetch!FetchFails, Fetch!End
<1>3. CASE Fetch!BodyCancelled
  BY <1>3 DEF Fetch!BodyCancelled, Fetch!End
<1>4. CASE Fetch!StreamEnds
  BY <1>4 DEF Fetch!StreamEnds, Fetch!End
<1>13. CASE Fetch!StreamFails
  BY <1>13 DEF Fetch!StreamFails, Fetch!End
<1>5. ASSUME NEW r \in Responses, Fetch!Respond(r)
      PROVE  FetchInv'
  <2>1. Fetch!Refusal(r) \in {"none", "upstream_redirect", "upstream_response_invalid", "upstream_response_too_large"}
    BY DEF Fetch!Refusal
  <2>2. CASE Fetch!Refusal(r) # "none"
    BY <1>5, <2>1, <2>2 DEF Fetch!Respond
  <2>3. CASE Fetch!Refusal(r) = "none" /\ ~r.body
    <3>1. work = "fetch" /\ Fetch!End("response") /\ whole' = TRUE
      BY <1>5, <2>3 DEF Fetch!Respond
    <3>2. UNCHANGED <<configuration, fetchRequest, outcome, dispatched, timedOut, callerAborted, total, first>>
      BY <1>5 DEF Fetch!Respond
    <3> QED
      BY <3>1, <3>2 DEF Fetch!End
  <2>4. CASE Fetch!Refusal(r) = "none" /\ r.body
    BY <1>5, <2>4 DEF Fetch!Respond, Fetch!End
  <2> QED
    BY <2>2, <2>3, <2>4
<1>6. ASSUME NEW n \in Chunks, Fetch!Chunk(n)
      PROVE  FetchInv'
  BY <1>6 DEF Fetch!Chunk
<1>7. ASSUME NEW cancelled \in BOOLEAN, Fetch!OverflowCancelled(cancelled)
      PROVE  FetchInv'
  BY <1>7 DEF Fetch!OverflowCancelled, Fetch!End
<1>8. CASE Fetch!ReadOn
  BY <1>8 DEF Fetch!ReadOn, Fetch!End
<1>9. CASE Fetch!Timer
  BY <1>9 DEF Fetch!Timer, Fetch!Interrupt, Fetch!Running
<1>10. CASE Fetch!CallerAborts
  BY <1>10 DEF Fetch!CallerAborts, Fetch!Interrupt, Fetch!Running
<1>11. CASE Fetch!Settle
  <2>1. outcome' \in {raced} \cup (IF raced = "network_failure" /\ callerAborted THEN {"request_aborted"} ELSE {})
    BY <1>11 DEF Fetch!Settle, Fetch!Running
  <2> QED
    BY <1>11, <2>1 DEF Fetch!Settle, Fetch!Running
<1>12. CASE UNCHANGED fetchVars
  BY <1>12 DEF fetchVars, Fetch!Configured, Fetch!Reachable
<1> HIDE DEF FetchInv
<1> QED
  BY <1>1, <1>2, <1>3, <1>4, <1>5, <1>6, <1>7, <1>8, <1>9, <1>10, <1>11, <1>12, <1>13 DEF Fetch!Next, Fetch!Network

LEMMA FetchAlways == ProvidersSpec => []FetchInv
<1>1. FetchInv /\ [ProvidersNext]_providersVars => FetchInv'
  BY Steps, FetchKept
<1> QED
  BY FetchBegins, <1>1, PTL DEF ProvidersSpec

LEMMA FetchSound == FetchInv => Fetch!TypeOK /\ Fetch!OnlyWhatWasChecked /\ Fetch!ResponsesAreWhole /\ Fetch!NamedForItsCause
<1> SUFFICES ASSUME FetchInv
             PROVE  Fetch!TypeOK /\ Fetch!OnlyWhatWasChecked /\ Fetch!ResponsesAreWhole /\ Fetch!NamedForItsCause
  OBVIOUS
<1>1. Fetch!OnlyWhatWasChecked
  BY DEF FetchInv, Fetch!OnlyWhatWasChecked, Fetch!Reachable, Fetch!Configured
<1>2. Fetch!ResponsesAreWhole
  BY DEF FetchInv, Fetch!TypeOK, Fetch!ResponsesAreWhole, Fetch!None
<1>3. Fetch!NamedForItsCause
  BY DEF FetchInv, Fetch!TypeOK, Fetch!NamedForItsCause, Fetch!None, Fetch!NoUrl, Fetch!Outcomes, Fetch!Failures
<1> QED
  BY <1>1, <1>2, <1>3 DEF FetchInv

\* Nothing is read once the call has its outcome.
LEMMA FetchReads ==
  FetchInv /\ [ProvidersNext]_providersVars => [outcome # "none" => total' = total]_fetchVars
<1> SUFFICES ASSUME FetchInv, Fetch!Next, outcome # "none"
             PROVE  total' = total
  BY Steps
<1>1. \A n : ~Fetch!Chunk(n)
  BY DEF FetchInv, Fetch!Chunk
<1> QED
  BY <1>1 DEF Fetch!Next, Fetch!Network, Fetch!Call, Fetch!FetchFails, Fetch!BodyCancelled, Fetch!StreamEnds, Fetch!StreamFails,
     Fetch!Respond, Fetch!OverflowCancelled, Fetch!ReadOn, Fetch!Timer, Fetch!CallerAborts, Fetch!Settle

LEMMA FetchStops == ProvidersSpec => Fetch!NothingReadAfterwards
<1>1. FetchInv /\ [ProvidersNext]_providersVars => [outcome # "none" => total' = total]_(Fetch!vars)
  BY FetchReads DEF fetchVars, Fetch!vars
<1> QED
  BY FetchAlways, <1>1, PTL DEF ProvidersSpec, Fetch!NothingReadAfterwards, Fetch!None

-------------------------------------------------------------------------------
(* The qualifier.                                                            *)

\* The operations that were dealt with, and the one at work.
Turns == 1..(Len(qualifierResults) + (IF qualifierAt = "operation" THEN 1 ELSE 0))
Op(i) == qualifierRequest.operations[i]
SentFor(i) == Qualifier!Sent(Op(i), Qualifier!Suffix(qualifierRequest.kind[Op(i)]))
ListRequest == Qualifier!Sent("models", "models")
Sending == [operation : RequestedOperations \cup {"models"}, suffix : {"models", "chat/completions", "embeddings"}]

\* Where the call stands, and what it has seen of the provider.
StandingInv ==
  /\ qualifierAt \in {"idle", "thrown", "models"} => qualifierResults = <<>> /\ observation = "none" /\ listed = {}
  /\ qualifierAt \in {"idle", "thrown"} => fetched = <<>>
  /\ qualifierAt \in {"models", "operation"} => fetched # <<>>
  /\ qualifierAt = "operation" =>
       /\ Len(qualifierResults) < Len(qualifierRequest.operations)
       /\ Qualifier!Runnable(Op(Len(qualifierResults) + 1))
  /\ qualifierAt \in {"models", "next", "operation"} =>
       /\ Qualifier!Exact /\ Qualifier!CredentialFits /\ allowed = Qualifier!Allowed
       /\ fetched = <<>> => qualifierAborted
  /\ qualifierAt = "returned" => Len(qualifierResults) = Len(qualifierRequest.operations)
  /\ qualifierResults # <<>> \/ fetched # <<>> => Qualifier!Exact
  /\ fetched # <<>> => Qualifier!CredentialFits

\* What was sent: the list's request, and one for each operation that may run,
\* in their order.
SentInv ==
  /\ fetched \in Seq(Sending)
  /\ fetched # <<>> => fetched[1] = ListRequest
  /\ \A k \in 2..Len(fetched) : \E i \in Turns : fetched[k] = SentFor(i) /\ Qualifier!Runnable(Op(i))
  /\ \A k, m \in 2..Len(fetched) : fetched[k] = fetched[m] => k = m
  /\ fetched # <<>> /\ ~qualifierAborted =>
       \A i \in Turns : Qualifier!Runnable(Op(i)) => \E k \in 2..Len(fetched) : fetched[k] = SentFor(i)

\* A result is what its operation's trial, the list and the configuration make
\* it.
ReasonInv ==
  /\ \A o \in DOMAIN tried : \E i \in 1..Len(qualifierResults) : o = Op(i) /\ Qualifier!Runnable(o)
  /\ \A i \in 1..Len(qualifierResults) :
       /\ (qualifierResults[i] = "operation_configuration_unqualified") <=> ~Qualifier!Runnable(Op(i))
       /\ (qualifierResults[i] = "qualified") <=>
            /\ observation = "none" /\ qualifierRequest.model[Op(i)] \in listed
            /\ Op(i) \in DOMAIN tried /\ tried[Op(i)] = "qualified"

\* All of it.
QualifierInv == Qualifier!TypeOK /\ StandingInv /\ SentInv /\ ReasonInv

\* What a request to the shipped qualifier holds.
LEMMA RequestIs ==
  ASSUME qualifierRequest \in QualifierRequests
  PROVE  /\ qualifierRequest.operations \in Seq(RequestedOperations)
         /\ qualifierRequest.kind \in [RequestedOperations -> {"generate-text", "embedding"}]
         /\ "models" \notin RequestedOperations
         /\ \A i \in 1..Len(qualifierRequest.operations) : Op(i) \in RequestedOperations
<1>1. qualifierRequest \in Qualifier!Request /\ "models" \notin RequestedOperations
  BY ProvidersAssumption DEF ProvidersAssumption, Qualifier!QualifierAssumption, Qualifier!NoOperation
<1>2. qualifierRequest.operations \in Seq(RequestedOperations)
  BY <1>1 DEF Qualifier!Request
<1> QED
  BY <1>1, <1>2 DEF Qualifier!Request, Qualifier!Kinds, Op

\* An exact request names no operation twice.
LEMMA ExactIs ==
  ASSUME qualifierRequest \in QualifierRequests, Qualifier!Exact,
         NEW i \in 1..Len(qualifierRequest.operations), NEW j \in 1..Len(qualifierRequest.operations), Op(i) = Op(j)
  PROVE  i = j
<1>1. DOMAIN qualifierRequest.operations = 1..Len(qualifierRequest.operations)
  BY RequestIs
<1> QED
  BY <1>1 DEF Qualifier!Exact, Qualifier!IsInjective, Op

\* What is sent for an operation is never the list's request.
LEMMA SentForIs ==
  ASSUME qualifierRequest \in QualifierRequests, NEW i \in 1..Len(qualifierRequest.operations)
  PROVE  /\ SentFor(i) \in Sending /\ SentFor(i).operation = Op(i) /\ SentFor(i) # ListRequest
<1>1. Op(i) \in RequestedOperations /\ Op(i) # "models"
  BY RequestIs
<1>2. Qualifier!Suffix(qualifierRequest.kind[Op(i)]) \in {"chat/completions", "embeddings"}
  BY DEF Qualifier!Suffix
<1>3. SentFor(i) = [operation |-> Op(i), suffix |-> Qualifier!Suffix(qualifierRequest.kind[Op(i)])]
  BY DEF SentFor, Qualifier!Sent
<1>4. ListRequest.operation = "models"
  BY DEF ListRequest, Qualifier!Sent
<1> QED
  BY <1>1, <1>2, <1>3, <1>4 DEF Sending

LEMMA QualifierBegins == ProvidersInit => QualifierInv
<1> SUFFICES ASSUME ProvidersInit
             PROVE  QualifierInv
  OBVIOUS
<1> USE DEF ProvidersInit, Qualifier!Init
<1>1. qualifierRequest.operations \in Seq(RequestedOperations)
  BY RequestIs
<1>0. Len(<<>>) = 0 /\ \A S : <<>> \in Seq(S)
  OBVIOUS
<1>2. Qualifier!TypeOK
  <2>1. qualifierResults = <<>> /\ Len(qualifierResults) <= Len(qualifierRequest.operations)
    BY <1>0, <1>1
  <2>2. qualifierResults \in Seq(Qualifier!Reasons)
    BY <1>0, <2>1
  <2> QED
    BY <2>1, <2>2 DEF Qualifier!TypeOK
<1>3. StandingInv
  BY DEF StandingInv
<1>4. SentInv
  BY DEF SentInv
<1>5. ReasonInv
  BY DEF ReasonInv
<1> QED
  BY <1>2, <1>3, <1>4, <1>5 DEF QualifierInv

\* Whatever changes nothing that was sent or said.
LEMMA QualifyKept ==
  ASSUME QualifierInv, Qualifier!Qualify
  PROVE  QualifierInv'
<1> DEFINE N == Len(qualifierRequest.operations)
<1>0. /\ qualifierRequest.operations \in Seq(RequestedOperations) /\ N \in Nat
      /\ DOMAIN qualifierRequest.operations = 1..N
      /\ qualifierRequest' = qualifierRequest /\ qualifierAborted' = qualifierAborted /\ listed' = listed /\ tried' = tried
      /\ qualifierAt = "idle" /\ qualifierResults = <<>> /\ fetched = <<>> /\ observation = "none" /\ listed = {}
  BY RequestIs DEF QualifierInv, Qualifier!TypeOK, Qualifier!Qualify, StandingInv
<1>1. DOMAIN tried = {}
  <2>1. \A o \in DOMAIN tried : \E i \in 1..Len(qualifierResults) : o = Op(i)
    BY DEF QualifierInv, ReasonInv
  <2>2. 1..Len(qualifierResults) = {}
    BY <1>0
  <2> QED
    BY <2>1, <2>2
<1>2. CASE ~Qualifier!Exact
  <2>1. qualifierAt' = "thrown" /\ UNCHANGED <<allowed, observation, qualifierResults, fetched>>
    BY <1>2 DEF Qualifier!Qualify
  <2> QED
    BY <1>0, <1>1, <2>1 DEF QualifierInv, Qualifier!TypeOK, StandingInv, SentInv, ReasonInv, Turns
<1>3. CASE Qualifier!Exact /\ (~Qualifier!SomeRunnable \/ ~Qualifier!CredentialFits)
  <2>1. qualifierAt' = "returned" /\ qualifierResults' = Qualifier!AllRejected("credential_unavailable")
        /\ UNCHANGED <<allowed, observation, fetched>>
    BY <1>3 DEF Qualifier!Qualify
  <2>2. qualifierResults' = [i \in 1..N |-> IF Qualifier!Runnable(Op(i)) THEN "credential_unavailable" ELSE "operation_configuration_unqualified"]
    BY <1>0, <2>1 DEF Qualifier!AllRejected, Op
  <2>3. qualifierResults' \in Seq(Qualifier!Reasons) /\ Len(qualifierResults') = N
    BY <1>0, <2>2 DEF Qualifier!Reasons
  <2>4. Qualifier!TypeOK'
    BY <1>0, <2>1, <2>3 DEF QualifierInv, Qualifier!TypeOK
  <2>5. StandingInv'
    BY <1>0, <1>3, <2>1, <2>3 DEF StandingInv, Qualifier!Exact
  <2>6. SentInv'
    BY <1>0, <2>1 DEF SentInv
  <2>7. ReasonInv'
    BY <1>0, <1>1, <2>2, <2>3 DEF ReasonInv, Op, Qualifier!Runnable
  <2> QED
    BY <2>4, <2>5, <2>6, <2>7 DEF QualifierInv
<1>4. CASE Qualifier!Exact /\ Qualifier!SomeRunnable /\ Qualifier!CredentialFits
  <2>1. allowed' = Qualifier!Allowed /\ qualifierResults' = qualifierResults
    BY <1>4 DEF Qualifier!Qualify
  <2>2. Qualifier!Allowed \subseteq {"models", "chat/completions", "embeddings"}
    BY DEF Qualifier!Allowed, Qualifier!Suffix
  <2>3. CASE qualifierAborted
    <3>1. qualifierAt' = "next" /\ observation' = "deadline_exceeded" /\ fetched' = fetched
      BY <1>4, <2>3 DEF Qualifier!Qualify
    <3> QED
      BY <1>0, <1>1, <1>4, <2>1, <2>2, <2>3, <3>1 DEF QualifierInv, Qualifier!TypeOK, StandingInv, SentInv, ReasonInv, Turns,
        Qualifier!Exact, Qualifier!CredentialFits, Qualifier!Allowed, Qualifier!Runnable
  <2>4. CASE ~qualifierAborted
    <3>1. qualifierAt' = "models" /\ observation' = observation /\ fetched' = <<ListRequest>>
      BY <1>4, <2>4 DEF Qualifier!Qualify, ListRequest, Qualifier!NoOperation
    <3>2. ListRequest \in Sending
      BY DEF ListRequest, Sending, Qualifier!Sent
    <3>3. fetched' \in Seq(Sending) /\ Len(fetched') = 1 /\ fetched'[1] = ListRequest /\ fetched' # <<>>
      BY <3>1, <3>2
    <3>4. Qualifier!TypeOK' /\ StandingInv'
      BY <1>0, <1>4, <2>1, <2>2, <2>4, <3>1 DEF QualifierInv, Qualifier!TypeOK, StandingInv,
        Qualifier!Exact, Qualifier!CredentialFits, Qualifier!Allowed, Qualifier!Runnable
    <3>5. SentInv'
      BY <1>0, <2>1, <3>1, <3>3 DEF SentInv, Turns
    <3>6. ReasonInv'
      BY <1>0, <1>1, <2>1 DEF ReasonInv
    <3> QED
      BY <3>4, <3>5, <3>6 DEF QualifierInv
  <2> QED
    BY <2>3, <2>4
<1> QED
  BY <1>2, <1>3, <1>4

LEMMA ObserveKept ==
  ASSUME QualifierInv, Qualifier!ObserveModels
  PROVE  QualifierInv'
<1>1. /\ qualifierAt = "models" /\ qualifierAt' = "next" /\ qualifierResults = <<>>
      /\ UNCHANGED <<qualifierRequest, qualifierAborted, allowed, qualifierResults, fetched, tried>>
  BY DEF Qualifier!ObserveModels, QualifierInv, StandingInv
<1>2. Len(qualifierResults) = 0
  BY <1>1
<1>3. Qualifier!TypeOK'
  BY <1>1 DEF Qualifier!ObserveModels, QualifierInv, Qualifier!TypeOK
<1>4. StandingInv'
  BY <1>1 DEF QualifierInv, StandingInv, Qualifier!Exact, Qualifier!CredentialFits, Qualifier!Allowed, Qualifier!Runnable
<1>5. SentInv'
  BY <1>1 DEF QualifierInv, SentInv, Turns, Op, SentFor, Qualifier!Runnable
<1>6. ReasonInv'
  BY <1>1, <1>2 DEF QualifierInv, ReasonInv, Op, Qualifier!Runnable
<1> QED
  BY <1>3, <1>4, <1>5, <1>6 DEF QualifierInv

\* One more reason, of an operation that is not the one of any before.
LEMMA Reasoned ==
  ASSUME QualifierInv, Qualifier!Left, qualifierAt \in {"next", "operation"}, NEW said \in Qualifier!Reasons,
         qualifierResults' = Append(qualifierResults, said), UNCHANGED <<qualifierRequest, qualifierAborted, allowed, listed, observation>>
  PROVE  /\ Len(qualifierResults') = Len(qualifierResults) + 1
         /\ Len(qualifierResults') <= Len(qualifierRequest.operations)
         /\ qualifierResults' \in Seq(Qualifier!Reasons)
         /\ \A i \in 1..Len(qualifierResults) : qualifierResults'[i] = qualifierResults[i] /\ Op(i) # Qualifier!Operation
         /\ qualifierResults'[Len(qualifierResults')] = said
         /\ Qualifier!Operation = Op(Len(qualifierResults'))
         /\ Op(Len(qualifierResults')) \in RequestedOperations
         /\ Qualifier!Operation \notin DOMAIN tried
<1>1. /\ qualifierResults \in Seq(Qualifier!Reasons) /\ qualifierRequest \in QualifierRequests
      /\ qualifierRequest.operations \in Seq(RequestedOperations) /\ Qualifier!Exact
  BY RequestIs DEF QualifierInv, Qualifier!TypeOK, StandingInv
<1>2. PICK N \in Nat : Len(qualifierResults) = N
  BY <1>1
<1>3. N + 1 \in 1..Len(qualifierRequest.operations) /\ Qualifier!Operation = Op(N + 1)
  BY <1>1, <1>2 DEF Qualifier!Left, Qualifier!Turn, Qualifier!Operation, Op
<1>4. Len(qualifierResults') = N + 1 /\ qualifierResults' \in Seq(Qualifier!Reasons) /\ qualifierResults'[N + 1] = said
      /\ \A i \in 1..N : qualifierResults'[i] = qualifierResults[i]
  BY <1>1, <1>2
<1>5. \A i \in 1..N : Op(i) # Op(N + 1)
  <2> SUFFICES ASSUME NEW i \in 1..N, Op(i) = Op(N + 1)
               PROVE  FALSE
    OBVIOUS
  <2>1. i \in 1..Len(qualifierRequest.operations)
    BY <1>1, <1>3
  <2> QED
    BY <1>1, <1>3, <2>1, ExactIs
<1>6. Op(N + 1) \in RequestedOperations
  BY <1>1, <1>3, RequestIs
<1>7. Op(N + 1) \notin DOMAIN tried
  BY <1>2, <1>5 DEF QualifierInv, ReasonInv
<1> QED
  BY <1>1, <1>2, <1>3, <1>4, <1>5, <1>6, <1>7

LEMMA SkipKept ==
  ASSUME QualifierInv, Qualifier!Skip
  PROVE  QualifierInv'
<1> DEFINE said == "operation_configuration_unqualified"
<1>1. /\ Qualifier!Left /\ qualifierAt = "next" /\ qualifierAt' = "next" /\ qualifierResults' = Append(qualifierResults, said)
      /\ UNCHANGED <<qualifierRequest, qualifierAborted, allowed, listed, observation, fetched, tried>>
      /\ ~Qualifier!Runnable(Qualifier!Operation)
  BY DEF Qualifier!Skip
<1>2. said \in Qualifier!Reasons
  BY DEF Qualifier!Reasons
<1>3. PICK N \in Nat : Len(qualifierResults) = N
  BY DEF QualifierInv, Qualifier!TypeOK
<1>4. /\ Len(qualifierResults') = N + 1
      /\ Len(qualifierResults') <= Len(qualifierRequest.operations)
      /\ qualifierResults' \in Seq(Qualifier!Reasons)
      /\ \A i \in 1..N : qualifierResults'[i] = qualifierResults[i]
      /\ qualifierResults'[N + 1] = said
      /\ Qualifier!Operation = Op(N + 1)
      /\ Qualifier!Operation \notin DOMAIN tried
  BY <1>1, <1>2, <1>3, Reasoned
<1>5. Qualifier!TypeOK'
  BY <1>1, <1>4 DEF QualifierInv, Qualifier!TypeOK
<1>6. StandingInv'
  BY <1>1 DEF QualifierInv, StandingInv, Qualifier!Exact, Qualifier!CredentialFits, Qualifier!Allowed, Qualifier!Runnable
<1>7. SentInv'
  BY <1>1, <1>3, <1>4 DEF QualifierInv, SentInv, Turns, Op, SentFor, Qualifier!Runnable
<1>8. ReasonInv'
  BY <1>1, <1>3, <1>4 DEF QualifierInv, ReasonInv, Op, Qualifier!Runnable
<1> QED
  BY <1>5, <1>6, <1>7, <1>8 DEF QualifierInv

LEMMA TryKept ==
  ASSUME QualifierInv, Qualifier!Try
  PROVE  QualifierInv'
<1>1. /\ Qualifier!Left /\ qualifierAt = "next"
      /\ UNCHANGED <<qualifierRequest, qualifierAborted, allowed, listed, observation, tried>>
      /\ Qualifier!Runnable(Qualifier!Operation)
  BY DEF Qualifier!Try
<1>2. PICK N \in Nat : Len(qualifierResults) = N
  BY DEF QualifierInv, Qualifier!TypeOK
<1>3. /\ Qualifier!TypeOK /\ Qualifier!Exact /\ allowed = Qualifier!Allowed /\ qualifierRequest \in QualifierRequests
      /\ qualifierRequest.operations \in Seq(RequestedOperations)
      /\ N + 1 \in 1..Len(qualifierRequest.operations) /\ Qualifier!Operation = Op(N + 1)
  BY <1>1, <1>2, RequestIs DEF QualifierInv, Qualifier!TypeOK, StandingInv, Qualifier!Left, Qualifier!Turn, Qualifier!Operation, Op
<1>4. CASE /\ ~qualifierAborted /\ qualifierAt' = "operation" /\ qualifierResults' = qualifierResults
           /\ fetched' = Append(fetched, Qualifier!Sent(Qualifier!Operation, Qualifier!Suffix(qualifierRequest.kind[Qualifier!Operation])))
  <2>1. fetched' = Append(fetched, SentFor(N + 1))
    BY <1>3, <1>4 DEF SentFor
  <2>2. SentFor(N + 1) \in Sending /\ SentFor(N + 1).operation = Op(N + 1) /\ SentFor(N + 1) # ListRequest
    BY <1>3, SentForIs
  <2>3. PICK M \in Nat : Len(fetched) = M /\ M > 0 /\ fetched \in Seq(Sending)
    BY <1>1, <1>4 DEF QualifierInv, StandingInv, SentInv
  <2>4. fetched' \in Seq(Sending) /\ Len(fetched') = M + 1 /\ fetched'[M + 1] = SentFor(N + 1) /\ fetched' # <<>>
        /\ \A k \in 1..M : fetched'[k] = fetched[k]
    BY <2>1, <2>2, <2>3
  <2>5. Turns = 1..N /\ Turns' = 1..(N + 1)
    BY <1>1, <1>2, <1>4 DEF Turns
  <2>6. \A i \in 1..N : SentFor(i) # SentFor(N + 1)
    <3> SUFFICES ASSUME NEW i \in 1..N, SentFor(i) = SentFor(N + 1)
                 PROVE  FALSE
      OBVIOUS
    <3>1. i \in 1..Len(qualifierRequest.operations) /\ i # N + 1
      BY <1>2, <1>3
    <3>2. Op(i) = Op(N + 1)
      BY <1>3, <3>1, <2>2, SentForIs
    <3> QED
      BY <1>3, <3>1, <3>2, ExactIs
  <2>7. Qualifier!TypeOK'
    BY <1>1, <1>3, <1>4 DEF Qualifier!TypeOK
  <2>8. StandingInv'
    <3>1. Len(qualifierResults') < Len(qualifierRequest'.operations) /\ Qualifier!Runnable(Op(Len(qualifierResults) + 1))'
      BY <1>1, <1>2, <1>3, <1>4 DEF Op, Qualifier!Runnable
    <3> QED
      BY <1>1, <1>4, <2>4, <3>1 DEF QualifierInv, StandingInv, Qualifier!Exact, Qualifier!CredentialFits, Qualifier!Allowed, Qualifier!Runnable
  <2>9. SentInv'
    <3> USE DEF SentInv
    <3>0. \A i : SentFor(i)' = SentFor(i) /\ Qualifier!Runnable(Op(i))' = Qualifier!Runnable(Op(i))
      BY <1>1 DEF SentFor, Op, Qualifier!Runnable
    <3>1. \A k \in 2..M : \E i \in 1..N : fetched[k] = SentFor(i) /\ Qualifier!Runnable(Op(i))
      BY <2>3, <2>5 DEF QualifierInv
    <3>2. fetched'[1] = ListRequest
      BY <2>3, <2>4 DEF QualifierInv
    <3>3. \A k \in 2..(M + 1) : \E i \in 1..(N + 1) : fetched'[k] = SentFor(i) /\ Qualifier!Runnable(Op(i))
      <4> SUFFICES ASSUME NEW k \in 2..(M + 1)
                   PROVE  \E i \in 1..(N + 1) : fetched'[k] = SentFor(i) /\ Qualifier!Runnable(Op(i))
        OBVIOUS
      <4>1. CASE k = M + 1
        BY <1>1, <1>3, <2>4, <4>1
      <4>2. CASE k \in 2..M
        BY <3>1, <2>4, <4>2
      <4> QED
        BY <4>1, <4>2, <2>3
    <3>4. \A k, m \in 2..(M + 1) : fetched'[k] = fetched'[m] => k = m
      <4> SUFFICES ASSUME NEW k \in 2..(M + 1), NEW m \in 2..(M + 1), fetched'[k] = fetched'[m]
                   PROVE  k = m
        OBVIOUS
      <4>1. CASE k \in 2..M /\ m \in 2..M
        BY <2>3, <2>4, <4>1 DEF QualifierInv
      <4>2. CASE k = M + 1 /\ m \in 2..M
        BY <3>1, <2>4, <2>6, <4>2
      <4>3. CASE m = M + 1 /\ k \in 2..M
        BY <3>1, <2>4, <2>6, <4>3
      <4> QED
        BY <4>1, <4>2, <4>3, <2>3
    <3>5. \A i \in 1..(N + 1) : Qualifier!Runnable(Op(i)) => \E k \in 2..(M + 1) : fetched'[k] = SentFor(i)
      <4> SUFFICES ASSUME NEW i \in 1..(N + 1), Qualifier!Runnable(Op(i))
                   PROVE  \E k \in 2..(M + 1) : fetched'[k] = SentFor(i)
        OBVIOUS
      <4>1. CASE i = N + 1
        BY <2>3, <2>4, <4>1
      <4>2. CASE i \in 1..N
        <5>1. PICK k \in 2..M : fetched[k] = SentFor(i)
          BY <1>4, <2>3, <2>5, <4>2 DEF QualifierInv
        <5> QED
          BY <2>4, <5>1
      <4> QED
        BY <4>1, <4>2, <1>2
    <3>6. ListRequest' = ListRequest
      BY DEF ListRequest, Qualifier!Sent
    <3> QED
      BY <2>4, <2>5, <3>0, <3>2, <3>3, <3>4, <3>5, <3>6
  <2>10. ReasonInv'
    BY <1>1, <1>4 DEF QualifierInv, ReasonInv, Op, Qualifier!Runnable
  <2> QED
    BY <2>7, <2>8, <2>9, <2>10 DEF QualifierInv
<1>5. CASE /\ qualifierAborted \/ Qualifier!Suffix(qualifierRequest.kind[Qualifier!Operation]) \notin allowed
           /\ qualifierResults' = Append(qualifierResults, Qualifier!Reason(IF qualifierAborted THEN "deadline_exceeded" ELSE "request_rejected"))
           /\ UNCHANGED <<qualifierAt, fetched>>
  <2> DEFINE said == Qualifier!Reason(IF qualifierAborted THEN "deadline_exceeded" ELSE "request_rejected")
  <2>1. qualifierAborted
    <3>1. Op(N + 1) \in {p \in Qualifier!Range(qualifierRequest.operations) : Qualifier!Runnable(p)}
      BY <1>1, <1>3 DEF Qualifier!Range, Op
    <3> QED
      BY <1>3, <1>5, <3>1 DEF Qualifier!Allowed
  <2>2. said \in Qualifier!Reasons \ {"qualified", "operation_configuration_unqualified"}
    BY <1>3, <2>1 DEF Qualifier!Reason, Qualifier!Reasons, Qualifier!TypeOK, Qualifier!DiscoveryFailures, Qualifier!FetchFailures,
       Qualifier!OperationFailures
  <2> HIDE DEF said
  <2>3. qualifierResults' = Append(qualifierResults, said)
    BY <1>5 DEF said
  <2>4. /\ Len(qualifierResults') = N + 1
        /\ Len(qualifierResults') <= Len(qualifierRequest.operations)
        /\ qualifierResults' \in Seq(Qualifier!Reasons)
        /\ \A i \in 1..N : qualifierResults'[i] = qualifierResults[i]
        /\ qualifierResults'[N + 1] = said
        /\ Qualifier!Operation \notin DOMAIN tried
    BY <1>1, <1>2, <2>2, <2>3, Reasoned
  <2>5. Qualifier!TypeOK'
    BY <1>1, <1>3, <1>5, <2>4 DEF QualifierInv, Qualifier!TypeOK
  <2>6. StandingInv'
    BY <1>1, <1>5 DEF QualifierInv, StandingInv, Qualifier!Exact, Qualifier!CredentialFits, Qualifier!Allowed, Qualifier!Runnable
  <2>7. SentInv'
    BY <1>1, <1>2, <1>5, <2>1, <2>4 DEF QualifierInv, SentInv, Turns, Op, SentFor, Qualifier!Runnable
  <2>8. ReasonInv'
    BY <1>1, <1>2, <1>3, <2>2, <2>4 DEF QualifierInv, ReasonInv, Op, Qualifier!Runnable
  <2> QED
    BY <2>5, <2>6, <2>7, <2>8 DEF QualifierInv
<1> QED
  BY <1>4, <1>5 DEF Qualifier!Try

LEMMA SettleKept ==
  ASSUME QualifierInv, Qualifier!Settle
  PROVE  QualifierInv'
<1>1. /\ qualifierAt = "operation" /\ qualifierAt' = "next"
      /\ UNCHANGED <<qualifierRequest, qualifierAborted, allowed, listed, observation, fetched>>
  BY DEF Qualifier!Settle
<1>2. PICK N \in Nat : Len(qualifierResults) = N
  BY DEF QualifierInv, Qualifier!TypeOK
<1>3. /\ Qualifier!TypeOK /\ qualifierRequest \in QualifierRequests
      /\ qualifierRequest.operations \in Seq(RequestedOperations)
      /\ N + 1 \in 1..Len(qualifierRequest.operations) /\ Qualifier!Operation = Op(N + 1) /\ Qualifier!Left
      /\ Qualifier!Runnable(Op(N + 1))
  BY <1>1, <1>2, RequestIs DEF QualifierInv, Qualifier!TypeOK, StandingInv, Qualifier!Left, Qualifier!Turn, Qualifier!Operation, Op
<1>4. PICK ended \in Qualifier!Outcomes :
        /\ tried' = [o \in DOMAIN tried \cup {Op(N + 1)} |-> IF o = Op(N + 1) THEN ended ELSE tried[o]]
        /\ qualifierResults' = Append(qualifierResults, Qualifier!Reason(ended))
  BY <1>3 DEF Qualifier!Settle
<1>5. ended \in Qualifier!OperationFailures \cup {"qualified", "deadline_exceeded"}
  BY DEF Qualifier!Outcomes
<1>6. /\ Qualifier!Reason(ended) \in Qualifier!Reasons \ {"operation_configuration_unqualified"}
      /\ Qualifier!Reason(ended) = "qualified" <=>
           observation = "none" /\ qualifierRequest.model[Op(N + 1)] \in listed /\ ended = "qualified"
  BY <1>3, <1>5 DEF Qualifier!Reason, Qualifier!Reasons, Qualifier!TypeOK, Qualifier!DiscoveryFailures, Qualifier!FetchFailures,
     Qualifier!OperationFailures
<1>7. /\ Len(qualifierResults') = N + 1
      /\ Len(qualifierResults') <= Len(qualifierRequest.operations)
      /\ qualifierResults' \in Seq(Qualifier!Reasons)
      /\ \A i \in 1..N : qualifierResults'[i] = qualifierResults[i] /\ Op(i) # Op(N + 1)
      /\ qualifierResults'[N + 1] = Qualifier!Reason(ended)
      /\ Op(N + 1) \in RequestedOperations
  BY <1>1, <1>2, <1>3, <1>4, <1>6, Reasoned
<1>8. Qualifier!TypeOK'
  BY <1>1, <1>3, <1>4, <1>7 DEF Qualifier!TypeOK
<1>9. StandingInv'
  BY <1>1 DEF QualifierInv, StandingInv, Qualifier!Exact, Qualifier!CredentialFits, Qualifier!Allowed, Qualifier!Runnable
<1>10. SentInv'
  <2>1. Turns' = Turns
    BY <1>1, <1>2, <1>7 DEF Turns
  <2> QED
    BY <1>1, <2>1 DEF QualifierInv, SentInv, Op, SentFor, Qualifier!Runnable
<1>11. ReasonInv'
  <2>1. \A i \in 1..N : Op(i) \in DOMAIN tried' <=> Op(i) \in DOMAIN tried
    BY <1>4, <1>7
  <2>2. \A i \in 1..N : Op(i) \in DOMAIN tried => tried'[Op(i)] = tried[Op(i)]
    BY <1>4, <1>7
  <2>3. Op(N + 1) \in DOMAIN tried' /\ tried'[Op(N + 1)] = ended
    BY <1>4
  <2>4. \A o \in DOMAIN tried' : \E i \in 1..(N + 1) : o = Op(i) /\ Qualifier!Runnable(o)
    BY <1>2, <1>3, <1>4 DEF QualifierInv, ReasonInv
  <2>5. \A i : Op(i)' = Op(i) /\ Qualifier!Runnable(Op(i))' = Qualifier!Runnable(Op(i))
    BY <1>1 DEF Op, Qualifier!Runnable
  <2>6. \A i \in 1..N :
       /\ (qualifierResults'[i] = "operation_configuration_unqualified") <=> ~Qualifier!Runnable(Op(i))
       /\ (qualifierResults'[i] = "qualified") <=>
            /\ observation = "none" /\ qualifierRequest.model[Op(i)] \in listed
            /\ Op(i) \in DOMAIN tried' /\ tried'[Op(i)] = "qualified"
    BY <1>2, <1>7, <2>1, <2>2 DEF QualifierInv, ReasonInv
  <2>7. /\ (qualifierResults'[N + 1] = "operation_configuration_unqualified") <=> ~Qualifier!Runnable(Op(N + 1))
        /\ (qualifierResults'[N + 1] = "qualified") <=>
            /\ observation = "none" /\ qualifierRequest.model[Op(N + 1)] \in listed
            /\ Op(N + 1) \in DOMAIN tried' /\ tried'[Op(N + 1)] = "qualified"
    BY <1>3, <1>6, <1>7, <2>3
  <2>8. \A i \in 1..(N + 1) :
       /\ (qualifierResults'[i] = "operation_configuration_unqualified") <=> ~Qualifier!Runnable(Op(i))
       /\ (qualifierResults'[i] = "qualified") <=>
            /\ observation = "none" /\ qualifierRequest.model[Op(i)] \in listed
            /\ Op(i) \in DOMAIN tried' /\ tried'[Op(i)] = "qualified"
    <3>1. \A i \in 1..(N + 1) : i \in 1..N \/ i = N + 1
      BY <1>2
    <3> QED
      BY <2>6, <2>7, <3>1
  <2> QED
    BY <1>1, <1>7, <2>4, <2>5, <2>8 DEF ReasonInv, Qualifier!Runnable
<1> QED
  BY <1>8, <1>9, <1>10, <1>11 DEF QualifierInv

LEMMA QualifierKept == QualifierInv /\ (Qualifier!Next \/ UNCHANGED qualifierVars) => QualifierInv'
<1> SUFFICES ASSUME QualifierInv, Qualifier!Next \/ UNCHANGED qualifierVars
             PROVE  QualifierInv'
  OBVIOUS
<1>1. CASE Qualifier!Return
  <2>1. /\ qualifierAt = "next" /\ qualifierAt' = "returned" /\ Len(qualifierResults) = Len(qualifierRequest.operations)
        /\ UNCHANGED <<qualifierRequest, qualifierAborted, allowed, listed, observation, qualifierResults, fetched, tried>>
    BY <1>1, RequestIs DEF Qualifier!Return, QualifierInv, Qualifier!TypeOK, Qualifier!Left, Qualifier!Turn
  <2> QED
    BY <2>1 DEF QualifierInv, Qualifier!TypeOK, StandingInv, SentInv, ReasonInv, Turns, Op, SentFor, Qualifier!Exact, Qualifier!CredentialFits, Qualifier!Runnable
<1>2. CASE Qualifier!Abort
  BY <1>2 DEF Qualifier!Abort, QualifierInv, Qualifier!TypeOK, StandingInv, SentInv, ReasonInv, Turns, Op, SentFor, Qualifier!Exact, Qualifier!CredentialFits, Qualifier!Allowed, Qualifier!Runnable
<1>3. CASE UNCHANGED qualifierVars
  BY <1>3 DEF qualifierVars, QualifierInv, Qualifier!TypeOK, StandingInv, SentInv, ReasonInv, Turns, Op, SentFor, Qualifier!Exact, Qualifier!CredentialFits, Qualifier!Allowed, Qualifier!Runnable
<1> QED
  BY <1>1, <1>2, <1>3, QualifyKept, ObserveKept, SkipKept, TryKept, SettleKept DEF Qualifier!Next, Qualifier!Proceed

LEMMA QualifierAlways == ProvidersSpec => []QualifierInv
<1>1. QualifierInv /\ [ProvidersNext]_providersVars => QualifierInv'
  BY Steps, QualifierKept
<1> QED
  BY QualifierBegins, <1>1, PTL DEF ProvidersSpec

LEMMA QualifierSound ==
  ASSUME QualifierInv
  PROVE  Qualifier!TypeOK /\ Qualifier!QualifiedOnBoth /\ Qualifier!ExcessFirst /\ Qualifier!OneRequestEach
<1>1. /\ Qualifier!TypeOK /\ StandingInv /\ SentInv /\ ReasonInv /\ qualifierRequest \in QualifierRequests
      /\ qualifierRequest.operations \in Seq(RequestedOperations) /\ DOMAIN qualifierResults = 1..Len(qualifierResults)
      /\ fetched \in Seq(Sending) /\ DOMAIN fetched = 1..Len(fetched) /\ Len(fetched) \in Nat
      /\ Len(qualifierResults) <= Len(qualifierRequest.operations) /\ Len(qualifierResults) \in Nat
      /\ Turns \subseteq 1..Len(qualifierRequest.operations)
  BY RequestIs DEF QualifierInv, Qualifier!TypeOK, SentInv, StandingInv, Turns
<1>2. Qualifier!QualifiedOnBoth
  BY <1>1 DEF ReasonInv, Qualifier!QualifiedOnBoth, Op
<1>3. \A k \in DOMAIN fetched : \/ k = 1 /\ fetched[k] = ListRequest
                                \/ k \in 2..Len(fetched) /\ \E i \in Turns : fetched[k] = SentFor(i) /\ Qualifier!Runnable(Op(i))
  BY <1>1 DEF SentInv
<1>4. \A i \in Turns : SentFor(i).operation = Op(i) /\ SentFor(i) # ListRequest
  BY <1>1, SentForIs
<1>5. Qualifier!ExcessFirst
  <2>1. ASSUME NEW k \in DOMAIN fetched, fetched[k].operation # "models"
        PROVE  Qualifier!Runnable(fetched[k].operation)
    BY <1>3, <1>4, <2>1 DEF ListRequest, Qualifier!Sent
  <2> QED
    BY <1>1, <2>1 DEF ReasonInv, Qualifier!ExcessFirst, Qualifier!NoOperation, Op
<1>6. Qualifier!IsInjective(fetched)
  <2> SUFFICES ASSUME NEW k \in DOMAIN fetched, NEW m \in DOMAIN fetched, fetched[k] = fetched[m]
               PROVE  k = m
    BY DEF Qualifier!IsInjective
  <2> QED
    BY <1>1, <1>3, <1>4 DEF SentInv
<1>7. ASSUME qualifierAt = "returned", ~qualifierAborted, fetched # <<>>
      PROVE  Qualifier!Range(fetched) =
               {Qualifier!Sent("models", "models")} \cup
               {Qualifier!Sent(o, Qualifier!Suffix(qualifierRequest.kind[o])) :
                  o \in {p \in Qualifier!Range(qualifierRequest.operations) : Qualifier!Runnable(p)}}
  <2> DEFINE R == {p \in Qualifier!Range(qualifierRequest.operations) : Qualifier!Runnable(p)}
             S(o) == Qualifier!Sent(o, Qualifier!Suffix(qualifierRequest.kind[o]))
  <2>1. Turns = 1..Len(qualifierRequest.operations) /\ 1 \in DOMAIN fetched /\ fetched[1] = ListRequest
    BY <1>1, <1>7 DEF Turns, StandingInv, SentInv
  <2>2. \A i \in Turns : Qualifier!Runnable(Op(i)) => Op(i) \in R /\ SentFor(i) = S(Op(i))
    BY <1>1, <2>1 DEF Qualifier!Range, Op, SentFor
  <2>3. \A o \in R : \E i \in Turns : o = Op(i) /\ Qualifier!Runnable(Op(i)) /\ SentFor(i) = S(o)
    BY <1>1, <2>1 DEF Qualifier!Range, Op, SentFor
  <2>4. \A i \in Turns : Qualifier!Runnable(Op(i)) => \E k \in DOMAIN fetched : fetched[k] = SentFor(i)
    <3>1. \A i \in Turns : Qualifier!Runnable(Op(i)) => \E k \in 2..Len(fetched) : fetched[k] = SentFor(i)
      BY <1>1, <1>7 DEF SentInv
    <3>2. DOMAIN fetched = 1..Len(fetched) /\ \A k \in 2..Len(fetched) : k \in 1..Len(fetched)
      BY <1>1 DEF SentInv
    <3> QED
      BY <3>1, <3>2
  <2> HIDE DEF R, S
  <2>5. Qualifier!Range(fetched) = {ListRequest} \cup {S(o) : o \in R}
    <3>1. ASSUME NEW x \in Qualifier!Range(fetched)
          PROVE  x \in {ListRequest} \cup {S(o) : o \in R}
      BY <1>3, <2>2, <3>1 DEF Qualifier!Range
    <3>2. ListRequest \in Qualifier!Range(fetched)
      BY <2>1 DEF Qualifier!Range
    <3>3. ASSUME NEW o \in R
          PROVE  S(o) \in Qualifier!Range(fetched)
      BY <2>3, <2>4, <3>3 DEF Qualifier!Range
    <3> QED
      BY <3>1, <3>2, <3>3
  <2> QED
    BY <2>5 DEF R, S, ListRequest
<1>8. Qualifier!OneRequestEach
  BY <1>1, <1>6, <1>7 DEF Qualifier!OneRequestEach, StandingInv, Qualifier!NoOperation
<1> QED
  BY <1>1, <1>2, <1>5, <1>8

LEMMA QualifierStops == ProvidersSpec => Qualifier!NothingSentAfterwards
<1>1. QualifierInv /\ [ProvidersNext]_providersVars => [qualifierAborted => fetched' = fetched]_(Qualifier!vars)
  <2> SUFFICES ASSUME Qualifier!Next, qualifierAborted
               PROVE  fetched' = fetched
    BY Steps DEF qualifierVars, Qualifier!vars
  <2> QED
    BY DEF Qualifier!Next, Qualifier!Proceed, Qualifier!Qualify, Qualifier!ObserveModels, Qualifier!Skip, Qualifier!Try, Qualifier!Settle,
       Qualifier!Return, Qualifier!Abort
<1> QED
  BY QualifierAlways, <1>1, PTL DEF ProvidersSpec, Qualifier!NothingSentAfterwards

-------------------------------------------------------------------------------
(* The qualification.                                                        *)

Last == Qualification!Last
Selected(t) == request.selected[t]
Awaiting(w) == worker[w] \in {"credential", "qualifier"}
EndedWorkers == {w \in Workers : worker[w] = "ended"}
Known(t) == results[t] # <<>>
\* The qualifier of t answered, about what it was asked.
Answered(t) == verdicts[t] # <<>> /\ DOMAIN verdicts[t] = Qualification!Admitted(t)

\* The index is ahead of the targets by the ended workers at most, and a worker
\* ends when nothing is left or the deadline has come.
WorkersInv ==
  /\ phase \in {"received", "refused"} => \A w \in Workers : worker[w] = "loop"
  /\ phase \in {"reported", "unsealed"} => \A w \in Workers : worker[w] = "ended"
  /\ next <= Last + 1 + Cardinality(EndedWorkers)
  /\ \A w \in Workers : worker[w] = "ended" => overdue \/ next > Last

\* What is behind the index is known or awaited, by one worker and once.
TakenInv ==
  /\ \A t \in QualifiedTargets :
       /\ t < next <=> Known(t) \/ Qualification!Waiting(t)
       /\ dispatches[t] <= 1 /\ (dispatches[t] = 1 => t < next)
       /\ verdicts[t] # <<>> => Known(t)
  /\ \A w \in Workers : Awaiting(w) =>
       /\ taken[w] < next /\ ~Known(taken[w])
       /\ worker[w] = "credential" => dispatches[taken[w]] = 0
       /\ \A v \in Workers : Awaiting(v) /\ taken[v] = taken[w] => v = w

\* A reason that is known is the operation's own: the deadline's is due to the
\* deadline, or to the qualifier that answered so.
Own(t, o) ==
  /\ results[t][o] = "qualified" =>
       o \notin request.excessive[t] /\ Answered(t) /\ verdicts[t][o] = "qualified"
  /\ results[t][o] = "deadline_exceeded" =>
       overdue \/ (Answered(t) /\ o \in Qualification!Admitted(t) /\ verdicts[t][o] = "deadline_exceeded")
  /\ Answered(t) /\ o \in Qualification!Admitted(t) => results[t][o] = verdicts[t][o]

\* Every known result is made of reasons of its own operations.
OwnInv == \A t \in QualifiedTargets : Known(t) => \A o \in Selected(t) : Own(t, o)

\* The report is of the results as they are.
ReportInv == phase = "reported" => report = [t \in QualifiedTargets |-> Qualification!Reported(t)]

\* All of it: each target is taken by one worker, asked about once, and known
\* by what its own qualifier said of it.
QualificationInv == Qualification!TypeOK /\ WorkersInv /\ TakenInv /\ OwnInv /\ ReportInv

\* Targets are numbered from 1, and there is a worker.
LEMMA TargetsAre ==
  /\ Last \in Nat /\ Last > 0 /\ QualifiedTargets = 1..Last
  /\ IsFiniteSet(Workers) /\ Workers # {} /\ Cardinality(Workers) \in Nat
  /\ \A X : Qualification!Cardinality(X) = Cardinality(X)
<1>1. \A X : Qualification!Cardinality(X) = Cardinality(X) /\ (Qualification!IsFiniteSet(X) <=> IsFiniteSet(X))
  BY DEF Qualification!Cardinality, Cardinality, Qualification!IsFiniteSet, IsFiniteSet
<1>2. Qualification!QualificationAssumption
  BY ProvidersAssumption DEF ProvidersAssumption
<1>3. IsFiniteSet(QualifiedTargets) /\ IsFiniteSet(Workers)
  BY <1>1, <1>2 DEF Qualification!QualificationAssumption
<1>4. Cardinality(QualifiedTargets) \in Nat /\ Cardinality(Workers) \in Nat
  BY <1>3, FS_CardinalityType
<1> QED
  BY <1>1, <1>2, <1>3, <1>4 DEF Qualification!QualificationAssumption, Last, Qualification!Last

\* Each target has an operation to be asked about.
LEMMA SelectedAre ==
  ASSUME request \in Qualifications, NEW t \in QualifiedTargets
  PROVE  Selected(t) \subseteq QualifiedOperations /\ Selected(t) # {}
<1>1. request \in Qualification!Request
  BY ProvidersAssumption DEF ProvidersAssumption, Qualification!QualificationAssumption
<1> QED
  BY <1>1 DEF Qualification!Request, Selected

\* A result is never taken for none.
LEMMA ResultIsThere ==
  ASSUME request \in Qualifications, NEW t \in QualifiedTargets, NEW r \in Qualification!Results(t)
  PROVE  r # <<>>
<1>1. DOMAIN r = Selected(t)
  BY DEF Qualification!Results, Selected
<1>2. DOMAIN <<>> = {}
  OBVIOUS
<1> QED
  BY <1>1, <1>2, SelectedAre

\* One reason for all the operations of a target.
LEMMA AllIs ==
  ASSUME NEW t \in QualifiedTargets, NEW r \in Qualification!Reasons \ {"qualified"}
  PROVE  /\ Qualification!All(t, r) \in Qualification!Results(t)
         /\ \A o \in Selected(t) :
              /\ Qualification!All(t, r)[o] # "qualified"
              /\ Qualification!All(t, r)[o] = "deadline_exceeded" => r = "deadline_exceeded"
<1>1. "operation_configuration_unqualified" \in Qualification!Reasons
  BY DEF Qualification!Reasons
<1> QED
  BY <1>1 DEF Qualification!All, Qualification!Results, Selected

LEMMA QualificationBegins == ProvidersInit => QualificationInv
<1> SUFFICES ASSUME ProvidersInit
             PROVE  QualificationInv
  OBVIOUS
<1> USE DEF ProvidersInit, Qualification!Init, Qualification!NoResult
<1>1. Qualification!TypeOK
  <2>1. next \in 1..(Qualification!Last + Qualification!Cardinality(Workers) + 1)
    BY TargetsAre DEF Last
  <2> QED
    BY <2>1, TargetsAre DEF Qualification!TypeOK
<1>2. EndedWorkers = {}
  BY DEF EndedWorkers
<1>3. WorkersInv
  <2>1. Cardinality(EndedWorkers) = 0
    BY <1>2, FS_EmptySet
  <2> QED
    BY <2>1, TargetsAre DEF WorkersInv
<1>4. TakenInv
  BY TargetsAre DEF TakenInv, Known, Awaiting, Qualification!Waiting
<1>5. OwnInv /\ ReportInv
  BY DEF OwnInv, Known, ReportInv
<1> QED
  BY <1>1, <1>3, <1>4, <1>5 DEF QualificationInv

\* No more workers have ended than there are.
LEMMA EndedCount ==
  /\ Cardinality(EndedWorkers) \in Nat
  /\ Cardinality(EndedWorkers) <= Cardinality(Workers)
<1>1. EndedWorkers \subseteq Workers
  BY DEF EndedWorkers
<1> QED
  BY <1>1, TargetsAre, FS_Subset, FS_CardinalityType

LEMMA StartKept ==
  ASSUME QualificationInv, Qualification!Start
  PROVE  QualificationInv'
<1>1. /\ phase = "received" /\ phase' \in {"running", "refused"}
      /\ UNCHANGED <<request, next, worker, taken, overdue, results, report, dispatches, verdicts>>
  BY DEF Qualification!Start
<1> QED
  BY <1>1 DEF QualificationInv, Qualification!TypeOK, WorkersInv, TakenInv, OwnInv, ReportInv, Known, Awaiting, Own, Answered, Selected,
    Qualification!Waiting, EndedWorkers, Qualification!Results, Qualification!Admitted, Qualification!Excess

\* The index passes the last target once for each worker at most.
LEMMA StopKept ==
  ASSUME QualificationInv, NEW w \in Workers, Qualification!Stop(w)
  PROVE  QualificationInv'
<1>1. /\ phase = "running" /\ worker[w] = "loop" /\ worker' = [worker EXCEPT ![w] = "ended"]
      /\ UNCHANGED <<phase, request, taken, overdue, results, report, dispatches, verdicts>>
      /\ \/ overdue /\ next' = next
         \/ next > Last /\ next' = next + 1
      /\ next \in Nat /\ worker \in [Workers -> {"loop", "credential", "qualifier", "ended"}]
  BY TargetsAre DEF Qualification!Stop, QualificationInv, Qualification!TypeOK
<1>2. Cardinality(EndedWorkers') = Cardinality(EndedWorkers) + 1
  <2>1. EndedWorkers' = EndedWorkers \cup {w} /\ w \notin EndedWorkers
    BY <1>1 DEF EndedWorkers
  <2>2. IsFiniteSet(EndedWorkers)
    BY TargetsAre, FS_Subset DEF EndedWorkers
  <2> QED
    BY <2>1, <2>2, FS_AddElement
<1>3. next' <= Last + 1 + Cardinality(EndedWorkers')
  BY <1>1, <1>2, TargetsAre, EndedCount DEF QualificationInv, WorkersInv
<1>4. Cardinality(EndedWorkers') <= Cardinality(Workers) /\ Cardinality(EndedWorkers') \in Nat
  <2>1. EndedWorkers' \subseteq Workers
    BY DEF EndedWorkers
  <2> QED
    BY <2>1, TargetsAre, FS_Subset, FS_CardinalityType
<1>5. next' \in 1..(Last + Cardinality(Workers) + 1)
  BY <1>1, <1>3, <1>4, TargetsAre DEF QualificationInv, Qualification!TypeOK
<1>6. Qualification!TypeOK'
  BY <1>1, <1>5, TargetsAre DEF QualificationInv, Qualification!TypeOK, Qualification!Results, Last
<1>7. WorkersInv'
  BY <1>1, <1>3, TargetsAre DEF QualificationInv, WorkersInv
<1>8. TakenInv'
  <2>1. \A v \in Workers : Awaiting(v)' = Awaiting(v) /\ (Awaiting(v) => worker'[v] = worker[v])
    BY <1>1 DEF Awaiting
  <2>2. \A t \in QualifiedTargets : (t < next' <=> t < next) /\ Qualification!Waiting(t)' = Qualification!Waiting(t)
    BY <1>1, TargetsAre DEF Qualification!Waiting
  <2>3. \A t : Known(t)' = Known(t)
    BY <1>1 DEF Known
  <2>4. \A v \in Workers : Awaiting(v) => taken[v] \in QualifiedTargets
    BY DEF QualificationInv, Qualification!TypeOK, Awaiting
  <2> QED
    BY <1>1, <2>1, <2>2, <2>3, <2>4 DEF QualificationInv, TakenInv
<1>9. OwnInv' /\ ReportInv'
  BY <1>1 DEF QualificationInv, OwnInv, ReportInv, Known, Own, Answered, Selected, Qualification!Admitted, Qualification!Excess
<1> QED
  BY <1>6, <1>7, <1>8, <1>9 DEF QualificationInv

LEMMA SettledKept ==
  ASSUME QualificationInv, NEW w \in Workers, Awaiting(w), NEW r \in Qualification!Results(taken[w]),
         Qualification!Settle(w, taken[w], r),
         UNCHANGED <<phase, request, next, taken, overdue, report, dispatches>>,
         DOMAIN verdicts' = QualifiedTargets, \A t \in QualifiedTargets : t # taken[w] => verdicts'[t] = verdicts[t],
         \A o \in Selected(taken[w]) : Own(taken[w], o)'
  PROVE  QualificationInv'
<1> DEFINE T == taken[w]
<1>0. T \in QualifiedTargets /\ ~Known(T) /\ T < next /\ phase = "running" /\ request \in Qualifications
  BY DEF QualificationInv, TakenInv, Qualification!TypeOK, WorkersInv, Awaiting
<1>1. /\ DOMAIN results' = QualifiedTargets
      /\ results'[T] = r /\ r # <<>>
      /\ \A t \in QualifiedTargets : t # T => results'[t] = results[t]
      /\ worker' = [worker EXCEPT ![w] = "loop"]
      /\ worker \in [Workers -> {"loop", "credential", "qualifier", "ended"}]
  BY <1>0, ResultIsThere DEF Qualification!Settle, QualificationInv, Qualification!TypeOK
<1>2. \A v \in Workers : Awaiting(v)' <=> Awaiting(v) /\ v # w
  BY <1>1 DEF Awaiting
<1>3. \A t \in QualifiedTargets : Known(t)' <=> Known(t) \/ t = T
  BY <1>1 DEF Known
<1>4. Qualification!TypeOK'
  <2>1. \A t \in QualifiedTargets : results'[t] = <<>> \/ results'[t] \in Qualification!Results(t)
    BY <1>1 DEF QualificationInv, Qualification!TypeOK, Qualification!NoResult
  <2>2. \A v \in Workers : worker'[v] \in {"credential", "qualifier"} => taken[v] \in QualifiedTargets
    BY <1>1 DEF QualificationInv, Qualification!TypeOK
  <2> QED
    BY <1>0, <1>1, <2>1, <2>2 DEF QualificationInv, Qualification!TypeOK, Qualification!Results, Qualification!NoResult
<1>5. WorkersInv'
  <2>1. EndedWorkers' = EndedWorkers
    BY <1>1 DEF EndedWorkers, Awaiting
  <2> QED
    BY <1>0, <1>1, <2>1 DEF QualificationInv, WorkersInv
<1>6. TakenInv'
  <2>1. \A t \in QualifiedTargets : Qualification!Waiting(t)' <=> Qualification!Waiting(t) /\ t # T
    <3> SUFFICES ASSUME NEW t \in QualifiedTargets
                 PROVE  Qualification!Waiting(t)' <=> Qualification!Waiting(t) /\ t # T
      OBVIOUS
    <3>1. Qualification!Waiting(t)' <=> \E v \in Workers : Awaiting(v)' /\ taken[v] = t
      BY DEF Qualification!Waiting, Awaiting
    <3>2. Qualification!Waiting(t) <=> \E v \in Workers : Awaiting(v) /\ taken[v] = t
      BY DEF Qualification!Waiting, Awaiting
    <3>3. \A v \in Workers : Awaiting(v) /\ taken[v] = T => v = w
      BY DEF QualificationInv, TakenInv
    <3> QED
      BY <1>2, <3>1, <3>2, <3>3
  <2>2. \A t \in QualifiedTargets : t < next <=> Known(t)' \/ Qualification!Waiting(t)'
    BY <1>0, <1>3, <2>1 DEF QualificationInv, TakenInv
  <2>3. \A t \in QualifiedTargets : verdicts'[t] # <<>> => Known(t)'
    BY <1>3 DEF QualificationInv, TakenInv
  <2>4. \A v \in Workers : Awaiting(v) /\ v # w => ~Known(taken[v])' /\ worker'[v] = worker[v]
    <3> SUFFICES ASSUME NEW v \in Workers, Awaiting(v), v # w
                 PROVE  ~Known(taken[v])' /\ worker'[v] = worker[v]
      OBVIOUS
    <3>1. taken[v] # T /\ ~Known(taken[v])
      BY DEF QualificationInv, TakenInv
    <3>2. taken[v] \in QualifiedTargets
      BY DEF QualificationInv, Qualification!TypeOK, Awaiting
    <3>3. results'[taken[v]] = results[taken[v]]
      BY <1>1, <3>1, <3>2
    <3> QED
      BY <1>1, <3>1, <3>3 DEF Known
  <2> QED
    BY <1>2, <2>2, <2>3, <2>4 DEF QualificationInv, TakenInv
<1>7. OwnInv'
  <2> SUFFICES ASSUME NEW t \in QualifiedTargets, Known(t)', NEW o \in Selected(t)
               PROVE  Own(t, o)'
    BY DEF OwnInv, Selected
  <2>1. CASE t = T
    BY <2>1
  <2>2. CASE t # T
    BY <1>1, <1>3, <2>2 DEF QualificationInv, OwnInv, Own, Answered, Qualification!Admitted, Qualification!Excess
  <2> QED
    BY <2>1, <2>2
<1>8. ReportInv'
  BY <1>0 DEF ReportInv
<1> QED
  BY <1>4, <1>5, <1>6, <1>7, <1>8 DEF QualificationInv

\* A reason for all that is no answer of a qualifier.
LEMMA AllKept ==
  ASSUME QualificationInv, NEW w \in Workers, Awaiting(w), NEW r \in Qualification!Reasons \ {"qualified", "deadline_exceeded"},
         Qualification!Settle(w, taken[w], Qualification!All(taken[w], r)),
         UNCHANGED <<phase, request, next, taken, overdue, report, dispatches, verdicts>>
  PROVE  QualificationInv'
<1>1. taken[w] \in QualifiedTargets /\ ~Known(taken[w]) /\ DOMAIN results = QualifiedTargets
  BY DEF QualificationInv, TakenInv, Qualification!TypeOK, Awaiting
<1>2. results'[taken[w]] = Qualification!All(taken[w], r)
  BY <1>1 DEF Qualification!Settle
<1>3. verdicts'[taken[w]] = <<>>
  BY <1>1 DEF QualificationInv, TakenInv
<1>4. \A o \in Selected(taken[w]) : Own(taken[w], o)'
  BY <1>1, <1>2, <1>3, AllIs DEF Own, Answered
<1> QED
  BY <1>1, <1>4, AllIs, SettledKept DEF QualificationInv, Qualification!TypeOK

LEMMA QualifyAnswerKept ==
  ASSUME QualificationInv, NEW w \in Workers, NEW answer \in QualifierAnswers, Qualification!Qualify(w, answer)
  PROVE  QualificationInv'
<1> DEFINE T == taken[w]
           fits == DOMAIN answer = Qualification!Admitted(T)
           r == IF fits THEN Qualification!Combined(T, answer) ELSE Qualification!All(T, "qualifier_failure")
<1>1. /\ Awaiting(w) /\ worker[w] = "qualifier" /\ Qualification!Settle(w, T, r)
      /\ verdicts' = [verdicts EXCEPT ![T] = answer]
      /\ UNCHANGED <<phase, request, next, taken, overdue, report, dispatches>>
  BY DEF Qualification!Qualify, Awaiting
<1>2. T \in QualifiedTargets /\ ~Known(T) /\ DOMAIN results = QualifiedTargets /\ DOMAIN verdicts = QualifiedTargets
  BY <1>1 DEF QualificationInv, TakenInv, Qualification!TypeOK, Awaiting
<1>3. results'[T] = r /\ verdicts'[T] = answer
  BY <1>1, <1>2 DEF Qualification!Settle
<1>4. \A o \in DOMAIN answer : answer[o] \in Qualification!Reasons
  <2>1. PICK O \in SUBSET QualifiedOperations : answer \in [O -> Qualification!Reasons]
    BY ProvidersAssumption DEF ProvidersAssumption, Qualification!QualificationAssumption
  <2> QED
    BY <2>1
<1>5. r \in Qualification!Results(T) /\ \A o \in Selected(T) : Own(T, o)'
  <2>1. CASE fits
    <3>1. \A o \in Selected(T) : o \in Qualification!Excess(T) \/ o \in DOMAIN answer
      BY <2>1 DEF Qualification!Admitted, Selected
    <3>2. r = [o \in Selected(T) |-> IF o \in Qualification!Excess(T) THEN "operation_configuration_unqualified" ELSE answer[o]]
      BY <2>1 DEF Qualification!Combined, Selected
    <3>3. r \in [Selected(T) -> Qualification!Reasons]
      BY <1>4, <3>1, <3>2 DEF Qualification!Reasons
    <3>4. \A o \in Selected(T) :
            /\ r[o] = "qualified" => o \notin Qualification!Excess(T) /\ answer[o] = "qualified"
            /\ r[o] = "deadline_exceeded" => o \in Qualification!Admitted(T) /\ answer[o] = "deadline_exceeded"
            /\ o \in Qualification!Admitted(T) => r[o] = answer[o]
      BY <3>1, <3>2 DEF Qualification!Admitted, Selected
    <3>5. Qualification!Admitted(T)' = Qualification!Admitted(T) /\ \A o \in Selected(T) : o \notin Qualification!Excess(T) => o \notin request.excessive[T]
      BY <1>1 DEF Qualification!Admitted, Qualification!Excess, Selected
    <3>6. ASSUME NEW o \in Selected(T), r[o] \in {"qualified", "deadline_exceeded"}
          PROVE  answer # <<>>
      <4>1. o \in DOMAIN answer
        BY <3>1, <3>2, <3>6
      <4>2. DOMAIN <<>> = {}
        OBVIOUS
      <4> QED
        BY <4>1, <4>2
    <3> HIDE DEF r
    <3>7. \A o \in Selected(T) : Own(T, o)'
      BY <1>1, <1>3, <2>1, <3>4, <3>5, <3>6 DEF Own, Answered
    <3> QED
      BY <3>3, <3>7 DEF Qualification!Results, Selected
  <2>2. CASE ~fits
    <3>1. r = Qualification!All(T, "qualifier_failure") /\ "qualifier_failure" \in Qualification!Reasons \ {"qualified"}
      BY <2>2 DEF Qualification!Reasons
    <3>2. Qualification!Admitted(T)' = Qualification!Admitted(T)
      BY <1>1 DEF Qualification!Admitted, Qualification!Excess
    <3>3. r \in Qualification!Results(T) /\ \A o \in Selected(T) : r[o] # "qualified" /\ r[o] # "deadline_exceeded"
      BY <1>2, <3>1, AllIs
    <3> HIDE DEF r
    <3>4. ~Answered(T)'
      BY <1>1, <1>3, <2>2, <3>2 DEF Answered
    <3> QED
      BY <1>1, <1>3, <3>3, <3>4 DEF Own
  <2> QED
    BY <2>1, <2>2
<1> HIDE DEF r
<1> QED
  BY <1>1, <1>2, <1>5, SettledKept

\* A target is taken from the index, and its reason known at once or awaited.
LEMMA TakenIs ==
  ASSUME QualificationInv, NEW w \in Workers, NEW t \in QualifiedTargets, Qualification!Take(w, t)
  PROVE  /\ phase = "running" /\ worker[w] = "loop" /\ ~overdue /\ t = next /\ next' = next + 1
         /\ next' \in 1..(Last + Cardinality(Workers) + 1) /\ next' <= Last + 1 + Cardinality(EndedWorkers)
         /\ ~Known(t) /\ ~Qualification!Waiting(t) /\ dispatches[t] = 0 /\ verdicts[t] = <<>>
         /\ DOMAIN results = QualifiedTargets /\ dispatches \in [QualifiedTargets -> Nat]
         /\ worker \in [Workers -> {"loop", "credential", "qualifier", "ended"}]
         /\ \A u \in QualifiedTargets : u < next' <=> u < next \/ u = t
         /\ \A v \in Workers : Awaiting(v) => v # w /\ taken[v] \in QualifiedTargets /\ taken[v] # t
         /\ \A v \in Workers : worker[v] # "ended"
<1>1. phase = "running" /\ worker[w] = "loop" /\ ~overdue /\ t = next /\ next' = next + 1
  BY DEF Qualification!Take
<1>2. t \in 1..Last /\ Last \in Nat
  BY TargetsAre
<1>3. next' \in 1..(Last + Cardinality(Workers) + 1) /\ next' <= Last + 1 + Cardinality(EndedWorkers)
  BY <1>1, <1>2, TargetsAre, EndedCount
<1>4. ~Known(t) /\ ~Qualification!Waiting(t) /\ dispatches[t] = 0 /\ verdicts[t] = <<>> /\ dispatches \in [QualifiedTargets -> Nat]
  <2>1. ~(t < next) /\ dispatches \in [QualifiedTargets -> Nat]
    BY <1>1, <1>2 DEF QualificationInv, Qualification!TypeOK
  <2>2. dispatches[t] <= 1 /\ dispatches[t] # 1 /\ dispatches[t] \in Nat
    BY <2>1 DEF QualificationInv, TakenInv
  <2> QED
    BY <2>1, <2>2 DEF QualificationInv, TakenInv
<1>5. \A v \in Workers : Awaiting(v) => v # w /\ taken[v] \in QualifiedTargets /\ taken[v] # t
  BY <1>1, <1>4 DEF Awaiting, Qualification!Waiting, QualificationInv, Qualification!TypeOK
<1>6. \A v \in Workers : worker[v] # "ended"
  BY <1>1, <1>2 DEF QualificationInv, WorkersInv
<1>7. \A u \in QualifiedTargets : u < next' <=> u < next \/ u = t
  BY <1>1, <1>2, TargetsAre
<1> QED
  BY <1>1, <1>3, <1>4, <1>5, <1>6, <1>7 DEF QualificationInv, Qualification!TypeOK

LEMMA TakeUnqualifiedKept ==
  ASSUME QualificationInv, NEW w \in Workers, NEW t \in QualifiedTargets, Qualification!TakeUnqualified(w, t)
  PROVE  QualificationInv'
<1>1. PICK r \in Qualification!Results(t) : Qualification!Settle(w, t, r) /\ \A o \in Selected(t) : r[o] # "qualified" /\ r[o] # "deadline_exceeded"
  <2>1. CASE Qualification!Settle(w, t, [o \in request.selected[t] |-> "qualifier_unavailable"])
    <3>1. [o \in request.selected[t] |-> "qualifier_unavailable"] \in Qualification!Results(t)
      BY DEF Qualification!Results, Qualification!Reasons
    <3> QED
      BY <2>1, <3>1 DEF Selected
  <2>2. CASE Qualification!Settle(w, t, Qualification!All(t, "credential_unavailable"))
    <3>1. "credential_unavailable" \in Qualification!Reasons \ {"qualified"}
      BY DEF Qualification!Reasons
    <3> QED
      BY <2>2, <3>1, AllIs
  <2> QED
    BY <2>1, <2>2 DEF Qualification!TakeUnqualified
<1>2. Qualification!Take(w, t) /\ UNCHANGED <<phase, request, taken, overdue, report, dispatches, verdicts>>
  BY DEF Qualification!TakeUnqualified
<1>3. /\ phase = "running" /\ worker[w] = "loop" /\ t = next
      /\ next' \in 1..(Last + Cardinality(Workers) + 1) /\ next' <= Last + 1 + Cardinality(EndedWorkers)
      /\ ~Known(t) /\ ~Qualification!Waiting(t) /\ dispatches[t] = 0 /\ verdicts[t] = <<>>
      /\ DOMAIN results = QualifiedTargets
      /\ worker \in [Workers -> {"loop", "credential", "qualifier", "ended"}]
      /\ \A u \in QualifiedTargets : u < next' <=> u < next \/ u = t
      /\ \A v \in Workers : Awaiting(v) => taken[v] \in QualifiedTargets /\ taken[v] # t
      /\ \A v \in Workers : worker[v] # "ended"
  BY <1>2, TakenIs
<1>4. /\ DOMAIN results' = QualifiedTargets /\ results'[t] = r /\ r # <<>>
      /\ \A u \in QualifiedTargets : u # t => results'[u] = results[u]
      /\ worker' = worker
  BY <1>1, <1>3, ResultIsThere DEF Qualification!Settle, QualificationInv, Qualification!TypeOK
<1>5. \A u \in QualifiedTargets : Known(u)' <=> Known(u) \/ u = t
  BY <1>4 DEF Known
<1>6. Qualification!TypeOK'
  <2>1. \A u \in QualifiedTargets : results'[u] = <<>> \/ results'[u] \in Qualification!Results(u)
    BY <1>4 DEF QualificationInv, Qualification!TypeOK, Qualification!NoResult
  <2>2. next' \in 1..(Qualification!Last + Qualification!Cardinality(Workers) + 1)
    BY <1>3, TargetsAre DEF Last
  <2> QED
    BY <1>2, <1>3, <1>4, <2>1, <2>2 DEF QualificationInv, Qualification!TypeOK, Qualification!Results, Qualification!NoResult
<1>7. WorkersInv'
  <2>1. EndedWorkers' = EndedWorkers
    BY <1>4 DEF EndedWorkers
  <2> QED
    BY <1>2, <1>3, <1>4, <2>1 DEF WorkersInv
<1>8. TakenInv'
  <2>1. \A u : Qualification!Waiting(u)' = Qualification!Waiting(u)
    BY <1>2, <1>4 DEF Qualification!Waiting
  <2>2. \A u \in QualifiedTargets : u < next' <=> Known(u)' \/ Qualification!Waiting(u)'
    BY <1>3, <1>5, <2>1 DEF QualificationInv, TakenInv
  <2>3. \A v \in Workers : Awaiting(v)' = Awaiting(v)
    BY <1>4 DEF Awaiting
  <2>4. \A v \in Workers : Awaiting(v) => ~Known(taken[v])' /\ taken[v] < next'
    <3> SUFFICES ASSUME NEW v \in Workers, Awaiting(v)
                 PROVE  ~Known(taken[v])' /\ taken[v] < next'
      OBVIOUS
    <3>1. taken[v] \in QualifiedTargets /\ taken[v] # t /\ ~Known(taken[v]) /\ taken[v] < next
      BY <1>3 DEF QualificationInv, TakenInv
    <3>2. results'[taken[v]] = results[taken[v]]
      BY <1>4, <3>1
    <3> QED
      BY <1>2, <1>3, <3>1, <3>2 DEF Known
  <2>5. \A u \in QualifiedTargets : dispatches[u] <= 1 /\ (dispatches[u] = 1 => u < next') /\ (verdicts[u] # <<>> => Known(u)')
    BY <1>3, <1>5 DEF QualificationInv, TakenInv
  <2> QED
    BY <1>2, <1>4, <2>2, <2>3, <2>4, <2>5 DEF QualificationInv, TakenInv
<1>9. OwnInv'
  <2> SUFFICES ASSUME NEW u \in QualifiedTargets, Known(u)', NEW o \in Selected(u)
               PROVE  Own(u, o)'
    BY <1>2 DEF OwnInv, Selected
  <2>1. CASE u = t
    BY <1>1, <1>2, <1>3, <1>4, <2>1 DEF Own, Answered
  <2>2. CASE u # t
    BY <1>2, <1>4, <1>5, <2>2 DEF QualificationInv, OwnInv, Own, Answered, Qualification!Admitted, Qualification!Excess
  <2> QED
    BY <2>1, <2>2
<1>10. ReportInv'
  BY <1>2, <1>3 DEF ReportInv
<1> QED
  BY <1>6, <1>7, <1>8, <1>9, <1>10 DEF QualificationInv

LEMMA TakeQualifiableKept ==
  ASSUME QualificationInv, NEW w \in Workers, NEW t \in QualifiedTargets, Qualification!TakeQualifiable(w, t)
  PROVE  QualificationInv'
<1>1. /\ Qualification!Take(w, t) /\ taken' = [taken EXCEPT ![w] = t]
      /\ UNCHANGED <<phase, request, overdue, results, report, verdicts>>
  BY DEF Qualification!TakeQualifiable, Qualification!Call
<1>2. /\ phase = "running" /\ worker[w] = "loop" /\ t = next
      /\ next' \in 1..(Last + Cardinality(Workers) + 1) /\ next' <= Last + 1 + Cardinality(EndedWorkers)
      /\ ~Known(t) /\ ~Qualification!Waiting(t) /\ dispatches[t] = 0 /\ verdicts[t] = <<>>
      /\ DOMAIN results = QualifiedTargets /\ dispatches \in [QualifiedTargets -> Nat]
      /\ worker \in [Workers -> {"loop", "credential", "qualifier", "ended"}]
      /\ \A u \in QualifiedTargets : u < next' <=> u < next \/ u = t
      /\ \A v \in Workers : Awaiting(v) => v # w /\ taken[v] \in QualifiedTargets /\ taken[v] # t
      /\ \A v \in Workers : worker[v] # "ended"
  BY <1>1, TakenIs
<1>3. PICK place \in {"credential", "qualifier"} :
        /\ worker' = [worker EXCEPT ![w] = place]
        /\ place = "credential" => dispatches' = dispatches
        /\ place = "qualifier" => dispatches' = [dispatches EXCEPT ![t] = @ + 1]
  BY DEF Qualification!TakeQualifiable, Qualification!Call
<1>4. taken \in [Workers -> QualifiedTargets \cup {0}]
  BY DEF QualificationInv, Qualification!TypeOK
<1>5. \A v \in Workers : /\ Awaiting(v)' <=> Awaiting(v) \/ v = w
                         /\ taken'[v] = IF v = w THEN t ELSE taken[v]
                         /\ v # w => worker'[v] = worker[v]
  BY <1>1, <1>2, <1>3, <1>4 DEF Awaiting
<1>6. /\ dispatches' \in [QualifiedTargets -> Nat]
      /\ \A u \in QualifiedTargets : u # t => dispatches'[u] = dispatches[u]
      /\ dispatches'[t] <= 1 /\ (worker'[w] = "credential" => dispatches'[t] = 0)
  BY <1>2, <1>3
<1>7. Qualification!TypeOK'
  <2>1. next' \in 1..(Qualification!Last + Qualification!Cardinality(Workers) + 1)
    BY <1>2, TargetsAre DEF Last
  <2>2. \A v \in Workers : worker'[v] \in {"credential", "qualifier"} => taken'[v] \in QualifiedTargets
    BY <1>2, <1>5 DEF Awaiting
  <2>3. worker' \in [Workers -> {"loop", "credential", "qualifier", "ended"}] /\ taken' \in [Workers -> QualifiedTargets \cup {0}]
    BY <1>1, <1>2, <1>3, <1>4
  <2> QED
    BY <1>1, <1>6, <2>1, <2>2, <2>3 DEF QualificationInv, Qualification!TypeOK, Qualification!Results, Qualification!NoResult
<1>8. WorkersInv'
  <2>1. EndedWorkers' = EndedWorkers /\ \A v \in Workers : worker'[v] # "ended"
    BY <1>2, <1>3 DEF EndedWorkers
  <2> QED
    BY <1>1, <1>2, <2>1 DEF WorkersInv
<1>9. TakenInv'
  <2>1. \A u \in QualifiedTargets : Qualification!Waiting(u)' <=> Qualification!Waiting(u) \/ u = t
    <3> SUFFICES ASSUME NEW u \in QualifiedTargets
                 PROVE  Qualification!Waiting(u)' <=> Qualification!Waiting(u) \/ u = t
      OBVIOUS
    <3>1. Qualification!Waiting(u)' <=> \E v \in Workers : Awaiting(v)' /\ taken'[v] = u
      BY DEF Qualification!Waiting, Awaiting
    <3>2. Qualification!Waiting(u) <=> \E v \in Workers : Awaiting(v) /\ taken[v] = u
      BY DEF Qualification!Waiting, Awaiting
    <3> QED
      BY <1>2, <1>5, <3>1, <3>2
  <2>2. \A u : Known(u)' = Known(u)
    BY <1>1 DEF Known
  <2>3. \A u \in QualifiedTargets : u < next' <=> Known(u)' \/ Qualification!Waiting(u)'
    BY <1>2, <2>1, <2>2 DEF QualificationInv, TakenInv
  <2>4. \A u \in QualifiedTargets : dispatches'[u] <= 1 /\ (dispatches'[u] = 1 => u < next') /\ (verdicts'[u] # <<>> => Known(u)')
    BY <1>1, <1>2, <1>6, <2>2 DEF QualificationInv, TakenInv
  <2>5. \A v \in Workers : Awaiting(v)' =>
          /\ taken'[v] < next' /\ ~Known(taken'[v])
          /\ worker'[v] = "credential" => dispatches'[taken'[v]] = 0
          /\ \A x \in Workers : Awaiting(x)' /\ taken'[x] = taken'[v] => x = v
    <3> SUFFICES ASSUME NEW v \in Workers, Awaiting(v)'
                 PROVE  /\ taken'[v] < next' /\ ~Known(taken'[v])
                        /\ worker'[v] = "credential" => dispatches'[taken'[v]] = 0
                        /\ \A x \in Workers : Awaiting(x)' /\ taken'[x] = taken'[v] => x = v
      OBVIOUS
    <3>1. CASE v = w
      BY <1>2, <1>5, <1>6, <3>1
    <3>2. CASE v # w
      <4>1. Awaiting(v) /\ taken'[v] = taken[v] /\ worker'[v] = worker[v] /\ taken[v] \in QualifiedTargets /\ taken[v] # t
        BY <1>2, <1>5, <3>2
      <4>2. /\ taken[v] < next /\ ~Known(taken[v])
            /\ worker[v] = "credential" => dispatches[taken[v]] = 0
            /\ \A x \in Workers : Awaiting(x) /\ taken[x] = taken[v] => x = v
        BY <4>1 DEF QualificationInv, TakenInv
      <4> QED
        BY <1>2, <1>5, <1>6, <4>1, <4>2
    <3> QED
      BY <3>1, <3>2
  <2> QED
    BY <2>2, <2>3, <2>4, <2>5 DEF TakenInv, Known
<1>10. OwnInv'
  BY <1>1 DEF QualificationInv, OwnInv, Known, Own, Answered, Selected, Qualification!Admitted, Qualification!Excess
<1>11. ReportInv'
  BY <1>1, <1>2 DEF ReportInv
<1> QED
  BY <1>7, <1>8, <1>9, <1>10, <1>11 DEF QualificationInv

LEMMA ResolveKept ==
  ASSUME QualificationInv, NEW w \in Workers, Qualification!Resolve(w)
  PROVE  QualificationInv'
<1> DEFINE T == taken[w]
<1>1. /\ worker[w] = "credential" /\ Awaiting(w) /\ worker' = [worker EXCEPT ![w] = "qualifier"]
      /\ dispatches' = [dispatches EXCEPT ![T] = @ + 1]
      /\ UNCHANGED <<phase, request, next, taken, overdue, results, report, verdicts>>
      /\ dispatches \in [QualifiedTargets -> Nat] /\ worker \in [Workers -> {"loop", "credential", "qualifier", "ended"}]
      /\ T \in QualifiedTargets /\ dispatches[T] = 0 /\ phase = "running" /\ T < next
  BY DEF Qualification!Resolve, Qualification!Call, QualificationInv, Qualification!TypeOK, TakenInv, WorkersInv, Awaiting
<1>2. /\ dispatches' \in [QualifiedTargets -> Nat] /\ dispatches'[T] = 1
      /\ \A u \in QualifiedTargets : u # T => dispatches'[u] = dispatches[u]
  BY <1>1
<1>3. \A v \in Workers : Awaiting(v)' = Awaiting(v) /\ (v # w => worker'[v] = worker[v])
  BY <1>1 DEF Awaiting
<1>4. Qualification!TypeOK'
  BY <1>1, <1>2 DEF QualificationInv, Qualification!TypeOK, Qualification!Results, Qualification!NoResult
<1>5. WorkersInv'
  <2>1. EndedWorkers' = EndedWorkers
    BY <1>1 DEF EndedWorkers
  <2> QED
    BY <1>1, <2>1 DEF QualificationInv, WorkersInv
<1>6. TakenInv'
  <2>1. \A u : Known(u)' = Known(u)
    BY <1>1 DEF Known
  <2>2. \A u : Qualification!Waiting(u)' = Qualification!Waiting(u)
    <3>1. \A u : Qualification!Waiting(u) <=> \E v \in Workers : Awaiting(v) /\ taken[v] = u
      BY DEF Qualification!Waiting, Awaiting
    <3>2. \A u : Qualification!Waiting(u)' <=> \E v \in Workers : Awaiting(v)' /\ taken[v] = u
      BY <1>1 DEF Qualification!Waiting, Awaiting
    <3> QED
      BY <1>3, <3>1, <3>2
  <2>3. \A u \in QualifiedTargets : dispatches'[u] <= 1 /\ (dispatches'[u] = 1 => u < next)
    BY <1>1, <1>2 DEF QualificationInv, TakenInv
  <2>4. \A v \in Workers : Awaiting(v) /\ worker'[v] = "credential" => dispatches'[taken[v]] = 0
    <3> SUFFICES ASSUME NEW v \in Workers, Awaiting(v), worker'[v] = "credential"
                 PROVE  dispatches'[taken[v]] = 0
      OBVIOUS
    <3>1. v # w
      BY <1>1
    <3>2. worker[v] = "credential" /\ taken[v] # T /\ taken[v] \in QualifiedTargets
      BY <1>1, <1>3, <3>1 DEF QualificationInv, TakenInv, Qualification!TypeOK, Awaiting
    <3> QED
      BY <1>2, <3>2 DEF QualificationInv, TakenInv
  <2> QED
    BY <1>1, <1>3, <2>1, <2>2, <2>3, <2>4 DEF QualificationInv, TakenInv
<1>7. OwnInv'
  BY <1>1 DEF QualificationInv, OwnInv, Known, Own, Answered, Selected, Qualification!Admitted, Qualification!Excess
<1>8. ReportInv'
  BY <1>1 DEF ReportInv
<1> QED
  BY <1>4, <1>5, <1>6, <1>7, <1>8 DEF QualificationInv

LEMMA DeadlineKept ==
  ASSUME QualificationInv, Qualification!Deadline
  PROVE  QualificationInv'
<1> DEFINE late(t) == Qualification!All(t, "deadline_exceeded")
<1>1. /\ phase = "running" /\ overdue' = TRUE
      /\ results' = [t \in QualifiedTargets |-> IF Qualification!Waiting(t) THEN late(t) ELSE results[t]]
      /\ worker' = [w \in Workers |-> IF worker[w] = "ended" THEN "ended" ELSE "loop"]
      /\ UNCHANGED <<phase, request, next, taken, report, dispatches, verdicts>>
      /\ request \in Qualifications
  BY DEF Qualification!Deadline, QualificationInv, Qualification!TypeOK
<1>2. "deadline_exceeded" \in Qualification!Reasons \ {"qualified"}
  BY DEF Qualification!Reasons
<1>3. \A t \in QualifiedTargets : late(t) \in Qualification!Results(t) /\ late(t) # <<>> /\ \A o \in Selected(t) : late(t)[o] # "qualified"
  BY <1>1, <1>2, AllIs, ResultIsThere
<1> HIDE DEF late
<1>4. \A t \in QualifiedTargets : /\ Known(t)' <=> Known(t) \/ Qualification!Waiting(t)
                                  /\ ~Qualification!Waiting(t)' 
  BY <1>1, <1>3 DEF Known, Qualification!Waiting
<1>5. \A v \in Workers : ~Awaiting(v)'
  BY <1>1 DEF Awaiting
<1>6. \A t \in QualifiedTargets : Qualification!Waiting(t) => verdicts[t] = <<>>
  BY DEF QualificationInv, TakenInv, Qualification!Waiting, Awaiting
<1>7. Qualification!TypeOK'
  <2>1. \A t \in QualifiedTargets : results'[t] = <<>> \/ results'[t] \in Qualification!Results(t)
    BY <1>1, <1>3 DEF QualificationInv, Qualification!TypeOK, Qualification!NoResult
  <2>2. worker' \in [Workers -> {"loop", "credential", "qualifier", "ended"}]
    BY <1>1
  <2>3. \A w \in Workers : worker'[w] \in {"credential", "qualifier"} => taken'[w] \in QualifiedTargets
    BY <1>1
  <2> QED
    BY <1>1, <2>1, <2>2, <2>3 DEF QualificationInv, Qualification!TypeOK, Qualification!Results, Qualification!NoResult
<1>8. WorkersInv'
  <2>1. EndedWorkers' = EndedWorkers
    BY <1>1 DEF EndedWorkers
  <2> QED
    BY <1>1, <2>1 DEF QualificationInv, WorkersInv
<1>9. TakenInv'
  BY <1>1, <1>4, <1>5 DEF QualificationInv, TakenInv
<1>10. OwnInv'
  <2> SUFFICES ASSUME NEW t \in QualifiedTargets, Known(t)', NEW o \in Selected(t)
               PROVE  Own(t, o)'
    BY <1>1 DEF OwnInv, Selected
  <2>1. CASE Qualification!Waiting(t)
    BY <1>1, <1>3, <1>6, <2>1 DEF Own, Answered
  <2>2. CASE ~Qualification!Waiting(t)
    BY <1>1, <1>4, <2>2 DEF QualificationInv, OwnInv, Own, Answered, Qualification!Admitted, Qualification!Excess
  <2> QED
    BY <2>1, <2>2
<1>11. ReportInv'
  BY <1>1 DEF ReportInv
<1> QED
  BY <1>7, <1>8, <1>9, <1>10, <1>11 DEF QualificationInv

LEMMA ReportKept ==
  ASSUME QualificationInv, Qualification!Report
  PROVE  QualificationInv'
<1>1. /\ phase = "running" /\ \A w \in Workers : worker[w] = "ended"
      /\ phase' \in {"reported", "unsealed"}
      /\ phase' = "reported" => report' = [t \in QualifiedTargets |-> Qualification!Reported(t)]
      /\ UNCHANGED <<request, next, worker, taken, overdue, results, dispatches, verdicts>>
      /\ request \in Qualifications
  BY DEF Qualification!Report, QualificationInv, Qualification!TypeOK
<1>2. \A t \in QualifiedTargets : Qualification!Reported(t) \in Qualification!Results(t)
  BY DEF QualificationInv, Qualification!TypeOK, Qualification!Reported, Qualification!Results, Qualification!Reasons
<1>3. Qualification!TypeOK'
  BY <1>1, <1>2 DEF QualificationInv, Qualification!TypeOK, Qualification!Results, Qualification!NoResult
<1>4. WorkersInv'
  BY <1>1 DEF QualificationInv, WorkersInv, EndedWorkers
<1>5. TakenInv' /\ OwnInv'
  BY <1>1 DEF QualificationInv, TakenInv, OwnInv, Known, Awaiting, Own, Answered, Selected, Qualification!Waiting,
    Qualification!Admitted, Qualification!Excess
<1>6. ReportInv'
  BY <1>1 DEF ReportInv, Qualification!Reported, Qualification!NoResult
<1> QED
  BY <1>3, <1>4, <1>5, <1>6 DEF QualificationInv

LEMMA QualificationKept == QualificationInv /\ (Qualification!Next \/ UNCHANGED qualificationVars) => QualificationInv'
<1> SUFFICES ASSUME QualificationInv, Qualification!Next \/ UNCHANGED qualificationVars
             PROVE  QualificationInv'
  OBVIOUS
<1>1. ASSUME NEW w \in Workers, Qualification!Go(w)
      PROVE  QualificationInv'
  BY <1>1, StopKept, TakeUnqualifiedKept, TakeQualifiableKept DEF Qualification!Go
<1>2. ASSUME NEW w \in Workers, Qualification!ResolveNothing(w) \/ Qualification!QualifierFails(w)
      PROVE  QualificationInv'
  <2>1. PICK r \in Qualification!Reasons \ {"qualified", "deadline_exceeded"} :
          /\ Awaiting(w) /\ Qualification!Settle(w, taken[w], Qualification!All(taken[w], r))
          /\ UNCHANGED <<phase, request, next, taken, overdue, report, dispatches, verdicts>>
    BY <1>2 DEF Qualification!ResolveNothing, Qualification!QualifierFails, Awaiting, Qualification!Reasons
  <2> QED
    BY <2>1, AllKept
<1>3. CASE UNCHANGED qualificationVars
  BY <1>3 DEF qualificationVars, QualificationInv, Qualification!TypeOK, WorkersInv, TakenInv, OwnInv, ReportInv, Known, Awaiting,
    Own, Answered, Selected, EndedWorkers, Qualification!Waiting, Qualification!Results, Qualification!Admitted, Qualification!Excess,
    Qualification!Reported, Qualification!NoResult
<1> QED
  BY <1>1, <1>2, <1>3, StartKept, ResolveKept, QualifyAnswerKept, DeadlineKept, ReportKept DEF Qualification!Next

LEMMA QualificationAlways == ProvidersSpec => []QualificationInv
<1>1. QualificationInv /\ [ProvidersNext]_providersVars => QualificationInv'
  BY Steps, QualificationKept
<1> QED
  BY QualificationBegins, <1>1, PTL DEF ProvidersSpec

LEMMA QualificationSound ==
  ASSUME QualificationInv
  PROVE  Qualification!TypeOK /\ Qualification!EachTargetOnce /\ Qualification!QualifiedIsEarned /\ Qualification!ReportIsComplete
<1>0. Qualification!TypeOK /\ request \in Qualifications
  BY DEF QualificationInv, Qualification!TypeOK
<1>1. Qualification!EachTargetOnce
  BY DEF QualificationInv, TakenInv, Awaiting, Qualification!EachTargetOnce
<1>2. ASSUME phase = "reported", NEW t \in QualifiedTargets
      PROVE  /\ report[t] = Qualification!Reported(t) /\ report[t] \in Qualification!Results(t)
             /\ results[t] = <<>> => overdue
  <2>1. report[t] = Qualification!Reported(t) /\ report[t] \in Qualification!Results(t)
    BY <1>2 DEF QualificationInv, ReportInv, Qualification!TypeOK
  <2>2. ASSUME results[t] = <<>>
        PROVE  overdue
    <3>1. ~Qualification!Waiting(t)
      BY <1>2 DEF QualificationInv, WorkersInv, Qualification!Waiting
    <3>2. ~(t < next)
      BY <2>2, <3>1 DEF QualificationInv, TakenInv, Known
    <3>3. PICK w \in Workers : worker[w] = "ended"
      BY <1>2, TargetsAre DEF QualificationInv, WorkersInv
    <3>4. overdue \/ next > Last
      BY <3>3 DEF QualificationInv, WorkersInv
    <3> QED
      BY <1>0, <3>2, <3>4, TargetsAre DEF Qualification!TypeOK
  <2> QED
    BY <2>1, <2>2
<1>3. Qualification!QualifiedIsEarned
  <2> SUFFICES ASSUME phase = "reported", NEW t \in QualifiedTargets, NEW o \in Selected(t), report[t][o] = "qualified"
               PROVE  /\ o \notin request.excessive[t]
                      /\ verdicts[t] # <<>> /\ DOMAIN verdicts[t] = Qualification!Admitted(t)
                      /\ verdicts[t][o] = "qualified"
    BY DEF Qualification!QualifiedIsEarned, Qualification!Answered, Qualification!NoResult, Selected
  <2>1. Known(t) /\ results[t][o] = "qualified"
    BY <1>2 DEF Qualification!Reported, Qualification!NoResult, Known, Selected
  <2> QED
    BY <2>1 DEF QualificationInv, OwnInv, Own, Answered
<1>4. Qualification!ReportIsComplete
  <2> SUFFICES ASSUME phase = "reported", NEW t \in QualifiedTargets
               PROVE  /\ report[t] # <<>>
                      /\ DOMAIN report[t] = request.selected[t]
                      /\ \A o \in request.selected[t] : report[t][o] = "deadline_exceeded" =>
                           overdue \/ (/\ Answered(t) /\ o \in Qualification!Admitted(t)
                                       /\ verdicts[t][o] = "deadline_exceeded")
                      /\ Answered(t) => \A o \in Qualification!Admitted(t) : report[t][o] = verdicts[t][o]
    BY DEF Qualification!ReportIsComplete, Qualification!Answered, Answered, Qualification!NoResult
  <2>1. report[t] # <<>> /\ DOMAIN report[t] = request.selected[t]
    BY <1>0, <1>2, ResultIsThere DEF Qualification!Results
  <2>2. ASSUME ~overdue, NEW o \in request.selected[t], report[t][o] = "deadline_exceeded"
        PROVE  Answered(t) /\ o \in Qualification!Admitted(t) /\ verdicts[t][o] = "deadline_exceeded"
    <3>1. Known(t) /\ report[t] = results[t]
      BY <1>2, <2>2 DEF Known, Qualification!Reported, Qualification!NoResult
    <3> QED
      BY <2>2, <3>1 DEF QualificationInv, OwnInv, Own, Selected
  <2>3. ASSUME Answered(t), NEW o \in Qualification!Admitted(t)
        PROVE  report[t][o] = verdicts[t][o]
    <3>1. Known(t)
      BY <2>3 DEF QualificationInv, TakenInv, Answered
    <3>2. report[t] = results[t]
      BY <1>2, <3>1 DEF Known, Qualification!Reported, Qualification!NoResult
    <3>3. o \in Selected(t)
      BY DEF Qualification!Admitted, Selected
    <3> QED
      BY <2>3, <3>1, <3>2, <3>3 DEF QualificationInv, OwnInv, Own
  <2> QED
    BY <2>1, <2>2, <2>3
<1> QED
  BY <1>0, <1>1, <1>3, <1>4

LEMMA QualificationStops == ProvidersSpec => Qualification!ResultsStand
<1>1. QualificationInv /\ [ProvidersNext]_providersVars =>
        [\A t \in QualifiedTargets : results[t] # <<>> => results'[t] = results[t]]_(Qualification!vars)
  <2> SUFFICES ASSUME QualificationInv, Qualification!Next, NEW t \in QualifiedTargets, Known(t)
               PROVE  results'[t] = results[t]
    BY Steps DEF qualificationVars, Qualification!vars, Known
  <2>0. DOMAIN results = QualifiedTargets
    BY DEF QualificationInv, Qualification!TypeOK
  <2>1. \A w \in Workers : Awaiting(w) => taken[w] # t
    BY DEF QualificationInv, TakenInv
  <2>2. CASE Qualification!Start \/ Qualification!Report
    BY <2>2 DEF Qualification!Start, Qualification!Report
  <2>3. ASSUME NEW w \in Workers, Qualification!Stop(w) \/ Qualification!Resolve(w)
        PROVE  results'[t] = results[t]
    BY <2>3 DEF Qualification!Stop, Qualification!Resolve, Qualification!Call
  <2>4. ASSUME NEW w \in Workers, NEW u \in QualifiedTargets, Qualification!TakeUnqualified(w, u) \/ Qualification!TakeQualifiable(w, u)
        PROVE  results'[t] = results[t]
    <3>1. Qualification!Take(w, u)
      BY <2>4 DEF Qualification!TakeUnqualified, Qualification!TakeQualifiable
    <3>2. u # t
      BY <3>1, TakenIs
    <3> QED
      BY <2>0, <2>4, <3>2 DEF Qualification!TakeUnqualified, Qualification!TakeQualifiable, Qualification!Settle, Qualification!Call
  <2>5. ASSUME NEW w \in Workers, NEW answer, Qualification!ResolveNothing(w) \/ Qualification!QualifierFails(w) \/ Qualification!Qualify(w, answer)
        PROVE  results'[t] = results[t]
    <3>1. Awaiting(w)
      BY <2>5 DEF Qualification!ResolveNothing, Qualification!QualifierFails, Qualification!Qualify, Awaiting
    <3>2. taken[w] # t
      BY <2>1, <3>1
    <3>3. PICK r : Qualification!Settle(w, taken[w], r)
      BY <2>5 DEF Qualification!ResolveNothing, Qualification!QualifierFails, Qualification!Qualify
    <3> QED
      BY <2>0, <3>2, <3>3 DEF Qualification!Settle
  <2>6. CASE Qualification!Deadline
    <3>1. ~Qualification!Waiting(t)
      BY <2>1 DEF Qualification!Waiting, Awaiting
    <3> QED
      BY <2>6, <3>1 DEF Qualification!Deadline
  <2> QED
    BY <2>2, <2>3, <2>4, <2>5, <2>6 DEF Qualification!Next, Qualification!Go
<1> QED
  BY QualificationAlways, <1>1, PTL DEF ProvidersSpec, Qualification!ResultsStand, Qualification!NoResult

-------------------------------------------------------------------------------
(* The guard.                                                                *)

Fine(n) == ~value[n].odd /\ n \notin Guard!Leads(n) /\ ~(value[n].text /\ (value[n].matches \/ value[n].long))
\* Nothing is wrong with a node, nor with anything it leads to.
Clear(n) == Fine(n) /\ \A m \in Guard!Leads(n) : Fine(m)
Child(n, j) == value[n].children[j]
Arity(n) == Len(value[n].children)

\* The walk: what is on the path leads to what is below it, and all that was
\* gone through is clear, but for the child each object is at.
Doing(i) == i < Len(path) \/ look # <<>>
WalkInv ==
  /\ \A i \in 1..Len(path) :
       /\ path[i].node \in Guard!Reached /\ ~value[path[i].node].text /\ ~value[path[i].node].odd
       /\ \A j \in 1..(i - 1) : path[i].node \in Guard!Leads(path[j].node)
       /\ \A j \in 1..(path[i].turn - 1) : j # path[i].turn - 1 \/ ~Doing(i) => Clear(Child(path[i].node, j))
       /\ i < Len(path) => path[i].turn > 1 /\ path[i + 1].node = Child(path[i].node, path[i].turn - 1)
       /\ look # <<>> => Head(look) \in Guard!Leads(path[i].node)
  /\ path # <<>> => path[1].node = Root
  /\ look # <<>> /\ path # <<>> =>
       LET here == path[Len(path)] IN here.turn > 1 /\ Head(look) = Child(here.node, here.turn - 1)
  /\ look # <<>> /\ path = <<>> => look = <<Root>>
  /\ look = <<>> /\ path = <<>> => Clear(Root)

\* A clean verdict is of a root with which nothing is wrong, however deep; a
\* refusal has its reason; and until then the walk is where it should be.
GuardInv ==
  /\ Guard!TypeOK
  /\ path \in Seq([node : Nodes, turn : Nat])
  /\ verdict = "none" => budget <= MaxNodes /\ WalkInv
  /\ verdict = "clean" => Clear(Root)
  /\ Guard!RefusalsAreTrue

\* A node's children are nodes, and a text has none.
LEMMA NodesAre ==
  ASSUME value \in Values, NEW n \in Nodes
  PROVE  /\ value[n] \in Guard!Node /\ Arity(n) \in Nat
         /\ \A j \in 1..Arity(n) : Child(n, j) \in Nodes /\ Child(n, j) \in Guard!Range(value[n].children)
         /\ \A m \in Guard!Range(value[n].children) : \E j \in 1..Arity(n) : m = Child(n, j)
         /\ value[n].text => Arity(n) = 0 /\ ~value[n].odd
<1>1. value \in [Nodes -> Guard!Node] /\ (value[n].text => value[n].children = <<>> /\ ~value[n].odd)
  BY ProvidersAssumption DEF ProvidersAssumption, Guard!InspectionAssumption
<1>2. value[n] \in Guard!Node
  BY <1>1
<1>3. value[n].children \in Seq(Nodes)
  BY <1>2 DEF Guard!Node
<1>4. Arity(n) \in Nat /\ DOMAIN value[n].children = 1..Arity(n) /\ \A j \in 1..Arity(n) : Child(n, j) \in Nodes
  BY <1>3 DEF Arity, Child
<1>5. value[n].text => Arity(n) = 0
  BY <1>1 DEF Arity
<1> QED
  BY <1>1, <1>2, <1>4, <1>5 DEF Guard!Range, Child

\* A node leads to its children.
LEMMA ChildrenFollow ==
  ASSUME value \in Values, NEW n \in Nodes, NEW j \in 1..Arity(n)
  PROVE  Child(n, j) \in Guard!Leads(n)
BY NodesAre DEF Guard!Leads

\* What a node leads to leads on for it.
LEMMA FollowersFollow ==
  ASSUME value \in Values, NEW n \in Nodes, NEW k \in Guard!Leads(n), NEW m \in Guard!Leads(k)
  PROVE  m \in Guard!Leads(n)
<1> SUFFICES ASSUME NEW S \in SUBSET Nodes, Guard!Range(value[n].children) \subseteq S,
                    \A x \in S : Guard!Range(value[x].children) \subseteq S
             PROVE  m \in S
  BY DEF Guard!Leads
<1>1. k \in S
  BY DEF Guard!Leads
<1> QED
  BY <1>1 DEF Guard!Leads

\* What a node leads to is a child or below one.
LEMMA FollowThroughChild ==
  ASSUME value \in Values, NEW n \in Nodes, NEW m \in Guard!Leads(n)
  PROVE  \E j \in 1..Arity(n) : m = Child(n, j) \/ m \in Guard!Leads(Child(n, j))
<1> DEFINE S == {x \in Nodes : \E j \in 1..Arity(n) : x = Child(n, j) \/ x \in Guard!Leads(Child(n, j))}
<1>1. Guard!Range(value[n].children) \subseteq S
  BY NodesAre
<1>2. ASSUME NEW x \in S, NEW y \in Guard!Range(value[x].children)
      PROVE  y \in S
  <2>1. PICK j \in 1..Arity(n) : x = Child(n, j) \/ x \in Guard!Leads(Child(n, j))
    OBVIOUS
  <2>2. PICK i \in 1..Arity(x) : y = Child(x, i)
    BY <1>2, NodesAre
  <2>3. y \in Guard!Leads(x) /\ y \in Nodes
    BY <2>2, ChildrenFollow, NodesAre
  <2>4. Child(n, j) \in Nodes
    BY NodesAre
  <2>5. y \in Guard!Leads(Child(n, j))
    BY <2>1, <2>3, <2>4, FollowersFollow
  <2> QED
    BY <2>3, <2>5
<1>3. S \in SUBSET Nodes /\ \A x \in S : Guard!Range(value[x].children) \subseteq S
  BY <1>2
<1> HIDE DEF S
<1>4. m \in S
  BY <1>1, <1>3 DEF Guard!Leads
<1> QED
  BY <1>4 DEF S

\* An object all of whose children are clear does not lead to itself.
LEMMA ClearBelow ==
  ASSUME value \in Values, NEW n \in Nodes, ~value[n].odd, ~(value[n].text /\ (value[n].matches \/ value[n].long)),
         \A j \in 1..Arity(n) : Clear(Child(n, j))
  PROVE  Clear(n)
<1>1. \A m \in Guard!Leads(n) : Fine(m)
  BY FollowThroughChild DEF Clear
<1>2. n \notin Guard!Leads(n)
  BY <1>1 DEF Fine
<1> QED
  BY <1>1, <1>2 DEF Clear, Fine

\* With a text that was looked at there is nothing below to be wrong.
LEMMA ClearText ==
  ASSUME value \in Values, NEW n \in Nodes, value[n].text, ~value[n].matches, ~value[n].long
  PROVE  Clear(n)
<1>1. Arity(n) = 0 /\ ~value[n].odd
  BY NodesAre
<1> QED
  BY <1>1, ClearBelow

\* What is reached leads to what is reached.
LEMMA ReachedOn ==
  ASSUME value \in Values, Root \in Nodes, NEW n \in Guard!Reached, NEW m \in Guard!Leads(n)
  PROVE  m \in Guard!Reached
BY FollowersFollow DEF Guard!Reached

\* What leads where depends on the value only.
LEMMA SameValue ==
  ASSUME value' = value
  PROVE  /\ Guard!Reached' = Guard!Reached
         /\ \A n : Guard!Leads(n)' = Guard!Leads(n)
         /\ \A n : Clear(n)' = Clear(n)
         /\ \A n, j : Child(n, j)' = Child(n, j)
<1>1. \A n : Guard!Leads(n)' = Guard!Leads(n)
  BY DEF Guard!Leads
<1>2. Guard!Reached' = Guard!Reached
  BY <1>1 DEF Guard!Reached
<1>3. \A n : Fine(n)' = Fine(n)
  BY <1>1 DEF Fine
<1>4. \A n : Clear(n)' = Clear(n)
  BY <1>1, <1>3 DEF Clear
<1> QED
  BY <1>1, <1>2, <1>4 DEF Child

LEMMA GuardConstants == Root \in Nodes /\ MaxNodes \in Nat /\ MaxDepth \in Nat /\ Rounds \in Nat \ {0}
BY ProvidersAssumption DEF ProvidersAssumption, Guard!InspectionAssumption

LEMMA GuardBegins == ProvidersInit => GuardInv
<1> SUFFICES ASSUME ProvidersInit
             PROVE  GuardInv
  OBVIOUS
<1> USE GuardConstants DEF ProvidersInit, Guard!Init
<1>1. path = <<>> /\ Len(path) = 0 /\ DOMAIN path = {} /\ path \in Seq([node : Nodes, turn : Nat])
  OBVIOUS
<1>2. look \in {<<n>> : n \in Nodes}
  OBVIOUS
<1>3. 1 \in 1..Rounds
  OBVIOUS
<1>4. Guard!TypeOK
  BY <1>1, <1>2, <1>3 DEF Guard!TypeOK
<1>5. WalkInv
  BY <1>1 DEF WalkInv
<1> QED
  BY <1>1, <1>4, <1>5 DEF GuardInv, Guard!RefusalsAreTrue

\* The walk's own types.
LEMMA Walking ==
  ASSUME GuardInv, verdict = "none"
  PROVE  /\ value \in Values /\ round \in 1..Rounds /\ budget \in 0..MaxNodes
         /\ path \in Seq([node : Nodes, turn : Nat]) /\ Len(path) \in Nat /\ Len(path) <= MaxDepth + 1
         /\ DOMAIN path = 1..Len(path)
         /\ \A i \in 1..Len(path) : path[i].node \in Nodes /\ path[i].turn \in 1..(Arity(path[i].node) + 1)
         /\ path # <<>> <=> Len(path) > 0
         /\ look = <<>> \/ \E n \in Guard!Reached : look = <<n>>
         /\ WalkInv
<1>1. /\ Guard!TypeOK /\ path \in Seq([node : Nodes, turn : Nat]) /\ budget <= MaxNodes /\ WalkInv
  BY DEF GuardInv
<1>2. Len(path) \in Nat /\ DOMAIN path = 1..Len(path) /\ (path # <<>> <=> Len(path) > 0)
  BY <1>1
<1>3. /\ value \in Values /\ round \in 1..Rounds /\ budget \in 0..MaxNodes /\ Len(path) <= MaxDepth + 1
      /\ look \in {<<>>} \cup {<<n>> : n \in Nodes}
      /\ \A i \in 1..Len(path) : path[i].node \in Nodes /\ path[i].turn \in 1..(Arity(path[i].node) + 1)
  BY <1>1, <1>2, GuardConstants DEF Guard!TypeOK, Arity
<1>4. ASSUME look # <<>>
      PROVE  \E n \in Guard!Reached : look = <<n>>
  <2>1. PICK n \in Nodes : look = <<n>>
    BY <1>3, <1>4
  <2>2. Head(look) = n
    BY <2>1
  <2>3. CASE path = <<>>
    BY <1>1, <1>4, <2>3 DEF WalkInv, Guard!Reached
  <2>4. CASE path # <<>>
    BY <1>1, <1>2, <1>4, <2>1, <2>2, <2>4 DEF WalkInv, Guard!Reached
  <2> QED
    BY <2>3, <2>4
<1> QED
  BY <1>1, <1>2, <1>3, <1>4

\* An inspection that is over, for a reason that is there, keeps the invariant.
LEMMA Ruled ==
  ASSUME GuardInv, verdict = "none", NEW v \in Guard!Refusals \cup {"sensitive_data_detected", "clean"}, verdict' = v,
         UNCHANGED <<value, path, round>>,
         look' = look \/ look' = <<>>, budget' = budget \/ budget' = budget + 1, atStart' \in BOOLEAN,
         v = "clean" => Clear(Root),
         v = "sensitive_data_detected" => \E n \in Guard!Reached : value[n].text /\ value[n].matches,
         v = "inspection_cycle_detected" => \E n \in Guard!Reached : n \in Guard!Leads(n),
         v = "inspection_unsafe_value" => \E n \in Guard!Reached : value[n].odd
  PROVE  GuardInv'
<1>1. budget' \in 0..(MaxNodes + 1)
  BY Walking, GuardConstants
<1>2. Guard!TypeOK'
  BY <1>1 DEF GuardInv, Guard!TypeOK
<1>3. v # "none"
  BY DEF Guard!Refusals
<1> QED
  BY <1>2, <1>3, SameValue DEF GuardInv, Guard!RefusalsAreTrue

LEMMA LookKept == GuardInv /\ Guard!Look => GuardInv'
<1> SUFFICES ASSUME GuardInv, Guard!Look
             PROVE  GuardInv'
  OBVIOUS
<1>1. verdict = "none" /\ look # <<>> /\ UNCHANGED <<value, round>> /\ budget' = budget + 1 /\ look' = <<>>
  BY DEF Guard!Look
<1>2. PICK n \in Guard!Reached : look = <<n>>
  BY <1>1, Walking
<1>3. Head(look) = n /\ n \in Nodes /\ Root \in Nodes
  BY <1>2, GuardConstants DEF Guard!Reached, Guard!Leads
<1>4. atStart \in BOOLEAN /\ value \in Values /\ Len(path) \in Nat
  BY <1>1, Walking DEF GuardInv, Guard!TypeOK
<1>5. value[n] \in Guard!Node /\ value[n].text \in BOOLEAN /\ value[n].matches \in BOOLEAN /\ value[n].odd \in BOOLEAN
  BY <1>3, <1>4, NodesAre DEF Guard!Node
<1>6. CASE Guard!TooMuch /\ Guard!Rule("inspection_limit_exceeded") /\ UNCHANGED <<path, atStart>>
  BY <1>1, <1>4, <1>6, Ruled DEF Guard!Rule, Guard!Refusals
<1>7. CASE Guard!Rule("inspection_string_limit_exceeded") /\ UNCHANGED <<path, atStart>>
  BY <1>1, <1>4, <1>7, Ruled DEF Guard!Rule, Guard!Refusals
<1>8. CASE ~Guard!TooMuch /\ value[n].text /\ ~value[n].long /\ atStart' = ~Guard!Found(n) /\ UNCHANGED path
           /\ IF Guard!Found(n) THEN Guard!Rule("sensitive_data_detected") ELSE UNCHANGED verdict
  <2>1. CASE Guard!Found(n)
    BY <1>1, <1>5, <1>8, <2>1, Ruled DEF Guard!Rule, Guard!Found
  <2>2. CASE ~Guard!Found(n)
    <3>1. UNCHANGED <<path, verdict>> /\ budget' <= MaxNodes /\ atStart' \in BOOLEAN
      BY <1>1, <1>8, <2>2, Walking, GuardConstants DEF Guard!TooMuch
    <3>2. Clear(n)
      BY <1>3, <1>4, <1>8, <2>2, ClearText DEF Guard!Found
    <3>3. WalkInv'
      <4>1. PICK L \in Nat : L = Len(path) /\ (path # <<>> <=> L > 0)
        BY <1>1, Walking
      <4>2. ASSUME NEW i \in 1..L
            PROVE  /\ path[i].node \in Guard!Reached /\ ~value[path[i].node].text /\ ~value[path[i].node].odd
                   /\ \A j \in 1..(i - 1) : path[i].node \in Guard!Leads(path[j].node)
                   /\ \A j \in 1..(path[i].turn - 1) : j # path[i].turn - 1 => Clear(Child(path[i].node, j))
                   /\ i < L => path[i].turn > 1 /\ path[i + 1].node = Child(path[i].node, path[i].turn - 1)
        BY <1>1, <4>1, Walking DEF WalkInv
      <4>3. /\ L > 0 => path[1].node = Root /\ Clear(Child(path[L].node, path[L].turn - 1))
            /\ L = 0 => n = Root
        BY <1>1, <1>2, <1>3, <3>2, <4>1, Walking DEF WalkInv
      <4>4. look' = <<>> /\ path' = path
        BY <1>1, <3>1
      <4>5. ASSUME NEW i \in 1..L, NEW j \in 1..(path[i].turn - 1), j # path[i].turn - 1 \/ ~(i < L)
            PROVE  Clear(Child(path[i].node, j))
        <5>1. CASE j # path[i].turn - 1
          BY <4>2, <5>1
        <5>2. CASE j = path[i].turn - 1
          BY <4>1, <4>3, <4>5, <5>2
        <5> QED
          BY <5>1, <5>2
      <4> QED
        BY <1>1, <3>2, <4>1, <4>2, <4>3, <4>4, <4>5, SameValue DEF WalkInv, Doing
    <3>4. Guard!TypeOK'
      BY <1>1, <3>1, Walking, GuardConstants DEF GuardInv, Guard!TypeOK
    <3> QED
      BY <1>1, <3>1, <3>3, <3>4, SameValue DEF GuardInv, Guard!RefusalsAreTrue
  <2> QED
    BY <2>1, <2>2
<1>9. CASE ~value[n].text /\ Guard!OnPath(n) /\ Guard!Rule("inspection_cycle_detected") /\ UNCHANGED <<path, atStart>>
  <2>1. PICK i \in 1..Len(path) : path[i].node = n
    BY <1>1, <1>9, Walking DEF Guard!OnPath
  <2>2. n \in Guard!Leads(n)
    BY <1>1, <1>3, <2>1, Walking DEF WalkInv
  <2> QED
    BY <1>1, <1>4, <1>9, <2>2, Ruled DEF Guard!Rule, Guard!Refusals
<1>10. CASE value[n].odd /\ Guard!Rule("inspection_unsafe_value") /\ UNCHANGED <<path, atStart>>
  BY <1>1, <1>4, <1>10, Ruled DEF Guard!Rule, Guard!Refusals
<1>11. CASE ~Guard!TooMuch /\ ~value[n].text /\ ~value[n].odd /\ Guard!Enter(n) /\ UNCHANGED <<verdict, atStart>>
  <2> DEFINE d == [node |-> n, turn |-> 1]
  <2>1. PICK L \in Nat : L = Len(path)
    BY <1>4
  <2>2. /\ path' = Append(path, d) /\ d \in [node : Nodes, turn : Nat] /\ d.node = n /\ d.turn = 1
        /\ path \in Seq([node : Nodes, turn : Nat]) /\ budget' <= MaxNodes /\ L <= MaxDepth
    BY <1>1, <1>3, <1>11, <2>1, Walking, GuardConstants DEF Guard!Enter, Guard!TooMuch
  <2> HIDE DEF d
  <2>3. /\ path' \in Seq([node : Nodes, turn : Nat]) /\ Len(path') = L + 1 /\ path' # <<>>
        /\ path'[L + 1] = d /\ \A i \in 1..L : path'[i] = path[i]
    BY <2>1, <2>2
  <2>4. DOMAIN path' = 1..(L + 1)
    BY <2>1, <2>3
  <2>5. /\ \A i \in 1..L : path[i].node \in Nodes /\ path[i].turn \in 1..(Arity(path[i].node) + 1)
        /\ Arity(n) \in Nat
    BY <1>1, <1>3, <1>4, <2>1, Walking, NodesAre
  <2>6. Guard!TypeOK'
    <3>1. \A i \in 1..(L + 1) : path'[i].node \in Nodes /\ path'[i].turn \in 1..(Arity(path'[i].node) + 1)
      BY <1>3, <2>2, <2>3, <2>5
    <3>2. budget' \in 0..(MaxNodes + 1) /\ L + 1 <= MaxDepth + 1
      BY <1>1, <2>2, Walking, GuardConstants
    <3> QED
      BY <1>1, <1>11, <2>3, <2>4, <3>1, <3>2 DEF GuardInv, Guard!TypeOK, Arity
  <2>7. WalkInv'
    <3>1. /\ \A i \in 1..L : n \in Guard!Leads(path[i].node)
          /\ L > 0 => path[1].node = Root /\ path[L].turn > 1 /\ n = Child(path[L].node, path[L].turn - 1)
          /\ L = 0 => n = Root
      BY <1>1, <1>2, <1>3, <2>1, Walking DEF WalkInv
    <3>2. ASSUME NEW i \in 1..(L + 1)
          PROVE  /\ path'[i].node \in Guard!Reached /\ ~value[path'[i].node].text /\ ~value[path'[i].node].odd
                 /\ \A j \in 1..(i - 1) : path'[i].node \in Guard!Leads(path'[j].node)
                 /\ \A j \in 1..(path'[i].turn - 1) :
                      j # path'[i].turn - 1 \/ ~(i < L + 1) => Clear(Child(path'[i].node, j))
                 /\ i < L + 1 => path'[i].turn > 1 /\ path'[i + 1].node = Child(path'[i].node, path'[i].turn - 1)
      <4>1. CASE i = L + 1
        <5>1. path'[i].node = n /\ path'[i].turn = 1 /\ n \in Guard!Reached /\ ~(i < L + 1)
          BY <2>1, <2>2, <2>3, <4>1
        <5>2. \A j \in 1..(i - 1) : path'[j] = path[j] /\ n \in Guard!Leads(path[j].node)
          BY <2>1, <2>3, <3>1, <4>1
        <5>3. \A j \in 1..(i - 1) : path'[i].node \in Guard!Leads(path'[j].node)
          BY <5>1, <5>2
        <5> QED
          BY <1>11, <5>1, <5>3
      <4>2. CASE i < L
        <5>1. i \in 1..L /\ i + 1 \in 1..L /\ Doing(i) /\ path'[i] = path[i] /\ path'[i + 1] = path[i + 1]
          BY <2>1, <2>3, <4>2 DEF Doing
        <5>2. /\ path[i].node \in Guard!Reached /\ ~value[path[i].node].text /\ ~value[path[i].node].odd
              /\ \A j \in 1..(i - 1) : path[i].node \in Guard!Leads(path[j].node)
              /\ \A j \in 1..(path[i].turn - 1) : j # path[i].turn - 1 => Clear(Child(path[i].node, j))
              /\ path[i].turn > 1 /\ path[i + 1].node = Child(path[i].node, path[i].turn - 1)
          BY <1>1, <2>1, <4>2, <5>1, Walking DEF WalkInv
        <5>3. \A j \in 1..(i - 1) : path'[j] = path[j]
          BY <2>1, <2>3
        <5> QED
          BY <4>2, <5>1, <5>2, <5>3
      <4>3. CASE i = L
        <5>1. i \in 1..L /\ Doing(i) /\ path'[i] = path[i] /\ path'[i + 1] = d
          BY <1>1, <2>1, <2>3, <4>3 DEF Doing
        <5> QED
          BY <1>1, <2>1, <2>2, <2>3, <3>1, <4>3, <5>1, Walking DEF WalkInv
      <4> QED
        BY <4>1, <4>2, <4>3
    <3>3. path'[1].node = Root
      <4>1. CASE L = 0
        BY <2>2, <2>3, <3>1, <4>1
      <4>2. CASE L > 0
        BY <2>3, <3>1, <4>2
      <4> QED
        BY <2>1, <4>1, <4>2
    <3> QED
      BY <1>1, <2>3, <3>2, <3>3, SameValue DEF WalkInv, Doing
  <2> QED
    BY <1>1, <1>11, <2>2, <2>3, <2>6, <2>7, SameValue DEF GuardInv, Guard!RefusalsAreTrue
<1> QED
  BY <1>3, <1>6, <1>7, <1>8, <1>9, <1>10, <1>11 DEF Guard!Look

LEMMA StepKept == GuardInv /\ Guard!Step => GuardInv'
<1> SUFFICES ASSUME GuardInv, Guard!Step
             PROVE  GuardInv'
  OBVIOUS
<1>1. verdict = "none" /\ look = <<>> /\ UNCHANGED <<value, budget, atStart, round>>
  BY DEF Guard!Step
<1>2. atStart \in BOOLEAN /\ value \in Values /\ Root \in Nodes
  BY <1>1, Walking, GuardConstants DEF GuardInv, Guard!TypeOK
<1>3. CASE path = <<>> /\ Guard!Rule("clean") /\ UNCHANGED <<path, look>>
  <2>1. Clear(Root)
    BY <1>1, <1>3, Walking DEF WalkInv
  <2> QED
    BY <1>1, <1>2, <1>3, <2>1, Ruled DEF Guard!Rule
<1>4. CASE path # <<>>
  <2>1. PICK L \in Nat : L = Len(path) /\ L > 0
    BY <1>1, <1>4, Walking
  <2> DEFINE n == path[L].node
             turn == path[L].turn
  <2>2. /\ n \in Nodes /\ turn \in 1..(Arity(n) + 1) /\ Arity(n) \in Nat /\ n \in Guard!Reached
        /\ ~value[n].text /\ ~value[n].odd
        /\ \A j \in 1..(L - 1) : n \in Guard!Leads(path[j].node)
        /\ \A j \in 1..(turn - 1) : Clear(Child(n, j))
    <3>1. L \in 1..Len(path) /\ ~Doing(L)
      BY <1>1, <2>1 DEF Doing
    <3>2. n \in Nodes /\ turn \in 1..(Arity(n) + 1) /\ Arity(n) \in Nat
      BY <1>1, <1>2, <3>1, Walking, NodesAre
    <3>3. /\ n \in Guard!Reached /\ ~value[n].text /\ ~value[n].odd
          /\ \A j \in 1..(L - 1) : n \in Guard!Leads(path[j].node)
          /\ \A j \in 1..(turn - 1) : Clear(Child(n, j))
      BY <1>1, <3>1, Walking DEF WalkInv
    <3> QED
      BY <3>2, <3>3
  <2>3. Guard!Last(path) = path[L]
    BY <2>1 DEF Guard!Last
  <2>4. CASE turn <= Arity(n) /\ value[Child(n, turn)].odd /\ Guard!Rule("inspection_unsafe_value") /\ UNCHANGED <<path, look>>
    <3>1. Child(n, turn) \in Guard!Reached
      BY <1>2, <2>2, <2>4, ChildrenFollow, ReachedOn
    <3> QED
      BY <1>1, <1>2, <2>4, <3>1, Ruled DEF Guard!Rule, Guard!Refusals
  <2>5. CASE turn <= Arity(n) /\ look' = <<Child(n, turn)>> /\ path' = [path EXCEPT ![Len(path)].turn = @ + 1] /\ UNCHANGED verdict
    <3> DEFINE c == Child(n, turn)
    <3>1. c \in Nodes /\ c \in Guard!Leads(n) /\ turn \in 1..Arity(n)
      BY <1>2, <2>2, <2>5, ChildrenFollow, NodesAre
    <3>2. /\ path \in Seq([node : Nodes, turn : Nat]) /\ budget' <= MaxNodes /\ L <= MaxDepth + 1 /\ budget' \in 0..(MaxNodes + 1)
          /\ path # <<>> /\ path[1].node = Root
      BY <1>1, <2>1, Walking, GuardConstants DEF WalkInv
    <3>3. /\ path' \in Seq([node : Nodes, turn : Nat]) /\ Len(path') = L /\ path' # <<>> /\ DOMAIN path' = 1..L
          /\ path'[L].node = n /\ path'[L].turn = turn + 1
          /\ \A i \in 1..(L - 1) : path'[i] = path[i]
      <4>0. path[L] \in [node : Nodes, turn : Nat]
        <5>1. L \in 1..Len(path) /\ path \in Seq([node : Nodes, turn : Nat])
          BY <2>1, <3>2
        <5> QED
          BY <5>1, ElementOfSeq
      <4>1. /\ [path[L] EXCEPT !.turn = @ + 1] \in [node : Nodes, turn : Nat]
            /\ [path[L] EXCEPT !.turn = @ + 1].node = path[L].node /\ [path[L] EXCEPT !.turn = @ + 1].turn = path[L].turn + 1
        BY <4>0
      <4>2. path' = [path EXCEPT ![L] = [path[L] EXCEPT !.turn = @ + 1]]
        BY <2>1, <2>5
      <4>3. path' \in Seq([node : Nodes, turn : Nat]) /\ Len(path') = L
        BY <2>1, <3>2, <4>1, <4>2
      <4>4. path'[L] = [path[L] EXCEPT !.turn = @ + 1] /\ \A i \in 1..(L - 1) : path'[i] = path[i]
        BY <2>1, <3>2, <4>2
      <4> QED
        BY <2>1, <4>1, <4>3, <4>4
    <3>4. \A i \in 1..L : path[i].node \in Nodes /\ path[i].turn \in 1..(Arity(path[i].node) + 1)
      BY <1>1, <2>1, Walking
    <3>5. Guard!TypeOK'
      <4>1. \A i \in 1..L : path'[i].node \in Nodes /\ path'[i].turn \in 1..(Arity(path'[i].node) + 1)
        <5> TAKE i \in 1..L
        <5>1. CASE i = L
          BY <2>2, <3>1, <3>3, <5>1
        <5>2. CASE i # L
          <6>1. i \in 1..(L - 1)
            BY <2>1, <5>2
          <6> QED
            BY <3>3, <3>4, <6>1
        <5> QED
          BY <5>1, <5>2
      <4>2. look' \in {<<m>> : m \in Nodes}
        BY <2>5, <3>1
      <4> QED
        BY <1>1, <2>5, <3>2, <3>3, <4>1, <4>2 DEF GuardInv, Guard!TypeOK, Arity
    <3>6. look' # <<>> /\ Head(look') = c
      BY <2>5
    <3>7. \A i \in 1..L : path'[i].node = path[i].node
      <4>1. \A i \in 1..L : i = L \/ i \in 1..(L - 1)
        BY <2>1
      <4> QED
        BY <3>3, <4>1
    <3>8. WalkInv'
      <4>1. ASSUME NEW i \in 1..L
            PROVE  /\ path'[i].node \in Guard!Reached /\ ~value[path'[i].node].text /\ ~value[path'[i].node].odd
                   /\ \A j \in 1..(i - 1) : path'[i].node \in Guard!Leads(path'[j].node)
                   /\ \A j \in 1..(path'[i].turn - 1) : j # path'[i].turn - 1 => Clear(Child(path'[i].node, j))
                   /\ i < L => path'[i].turn > 1 /\ path'[i + 1].node = Child(path'[i].node, path'[i].turn - 1)
                   /\ c \in Guard!Leads(path'[i].node)
        <5>1. CASE i = L
          <6>1. \A j \in 1..(i - 1) : path'[i].node \in Guard!Leads(path'[j].node)
            BY <2>1, <2>2, <3>7, <5>1
          <6>2. \A j \in 1..turn : j # turn => Clear(Child(n, j))
            BY <2>2
          <6> QED
            BY <2>2, <3>1, <3>3, <5>1, <6>1, <6>2
        <5>2. CASE i < L
          <6>1. /\ path'[i] = path[i] /\ i \in 1..Len(path) /\ i + 1 \in 1..L /\ Doing(i) /\ i \in 1..(L - 1) /\ i < Len(path)
            BY <2>1, <3>3, <5>2 DEF Doing
          <6>2. /\ path[i].node \in Guard!Reached /\ ~value[path[i].node].text /\ ~value[path[i].node].odd
                /\ \A j \in 1..(i - 1) : path[i].node \in Guard!Leads(path[j].node)
                /\ \A j \in 1..(path[i].turn - 1) : j # path[i].turn - 1 => Clear(Child(path[i].node, j))
                /\ path[i].turn > 1 /\ path[i + 1].node = Child(path[i].node, path[i].turn - 1)
            BY <1>1, <6>1, Walking DEF WalkInv
          <6>3. \A j \in 1..(i - 1) : path'[i].node \in Guard!Leads(path'[j].node)
            BY <2>1, <3>7, <6>2
          <6>4. c \in Guard!Leads(path[i].node)
            BY <1>2, <2>2, <3>1, <3>4, <6>1, FollowersFollow
          <6>5. path'[i + 1].node = path[i + 1].node
            BY <3>7, <6>1
          <6> QED
            BY <6>1, <6>2, <6>3, <6>4, <6>5
        <5> QED
          BY <5>1, <5>2
      <4>2. path'[1].node = Root
        BY <2>1, <3>2, <3>7
      <4>3. path'[L].turn > 1 /\ c = Child(path'[L].node, path'[L].turn - 1)
        BY <2>2, <3>3
      <4> HIDE DEF c
      <4> QED
        BY <1>1, <3>3, <3>6, <4>1, <4>2, <4>3, SameValue DEF WalkInv, Doing
    <3> QED
      BY <1>1, <2>5, <3>2, <3>3, <3>5, <3>8, SameValue DEF GuardInv, Guard!RefusalsAreTrue
  <2>6. CASE turn > Arity(n) /\ path' = Guard!Front(path) /\ UNCHANGED <<look, verdict>>
    <3>1. turn = Arity(n) + 1
      BY <2>2, <2>6
    <3>2. Clear(n)
      <4>1. \A j \in 1..Arity(n) : Clear(Child(n, j))
        BY <2>2, <3>1
      <4> QED
        BY <1>2, <2>2, <4>1, ClearBelow
    <3>3. /\ path \in Seq([node : Nodes, turn : Nat]) /\ budget' <= MaxNodes /\ L <= MaxDepth + 1 /\ budget' \in 0..(MaxNodes + 1)
          /\ path # <<>> /\ path[1].node = Root
      BY <1>1, <2>1, Walking, GuardConstants DEF WalkInv
    <3>4. path' = SubSeq(path, 1, L - 1)
      BY <2>1, <2>6 DEF Guard!Front
    <3>5. /\ path' \in Seq([node : Nodes, turn : Nat]) /\ Len(path') = L - 1 /\ DOMAIN path' = 1..(L - 1)
          /\ \A i \in 1..(L - 1) : path'[i] = path[i]
          /\ path' = <<>> <=> L = 1
      <4>1. 1 \in Int /\ L - 1 \in Int /\ \A i \in 1..(L - 1) : path[i] \in [node : Nodes, turn : Nat]
        <5>1. \A i \in 1..(L - 1) : i \in 1..Len(path)
          BY <2>1
        <5>2. \A i \in 1..(L - 1) : path[i] \in [node : Nodes, turn : Nat]
          BY <3>3, <5>1, ElementOfSeq
        <5> QED
          BY <2>1, <5>2
      <4>2. /\ path' \in Seq([node : Nodes, turn : Nat])
            /\ Len(path') = IF 1 <= L - 1 THEN (L - 1) - 1 + 1 ELSE 0
            /\ \A i \in 1..((L - 1) - 1 + 1) : path'[i] = path[1 + i - 1]
        BY <3>3, <3>4, <4>1, SubSeqProperties
      <4>3. Len(path') = L - 1 /\ \A i \in 1..(L - 1) : path'[i] = path[i]
        BY <2>1, <4>2
      <4> QED
        BY <2>1, <4>2, <4>3
    <3>6. Guard!TypeOK'
      <4>1. \A i \in 1..(L - 1) : path'[i].node \in Nodes /\ path'[i].turn \in 1..(Arity(path'[i].node) + 1)
        <5> TAKE i \in 1..(L - 1)
        <5>1. i \in 1..Len(path) /\ path'[i] = path[i]
          BY <2>1, <3>5
        <5> QED
          BY <1>1, <5>1, Walking
      <4>2. Len(path') <= MaxDepth + 1
        BY <2>1, <3>3, <3>5, GuardConstants
      <4>3. Guard!TypeOK
        BY DEF GuardInv
      <4> QED
        BY <1>1, <2>6, <3>3, <3>5, <4>1, <4>2, <4>3 DEF Guard!TypeOK, Arity
    <3>7. WalkInv'
      <4>1. ASSUME NEW i \in 1..(L - 1)
            PROVE  /\ path'[i].node \in Guard!Reached /\ ~value[path'[i].node].text /\ ~value[path'[i].node].odd
                   /\ \A j \in 1..(i - 1) : path'[i].node \in Guard!Leads(path'[j].node)
                   /\ \A j \in 1..(path'[i].turn - 1) :
                        j # path'[i].turn - 1 \/ ~(i < L - 1) => Clear(Child(path'[i].node, j))
                   /\ i < L - 1 => path'[i].turn > 1 /\ path'[i + 1].node = Child(path'[i].node, path'[i].turn - 1)
        <5>1. /\ path'[i] = path[i] /\ i \in 1..Len(path) /\ Doing(i) /\ i < Len(path)
              /\ i < L - 1 => path'[i + 1] = path[i + 1]
          BY <2>1, <3>5 DEF Doing
        <5>2. /\ path[i].node \in Guard!Reached /\ ~value[path[i].node].text /\ ~value[path[i].node].odd
              /\ \A j \in 1..(i - 1) : path[i].node \in Guard!Leads(path[j].node)
              /\ \A j \in 1..(path[i].turn - 1) : j # path[i].turn - 1 => Clear(Child(path[i].node, j))
              /\ path[i].turn > 1 /\ path[i + 1].node = Child(path[i].node, path[i].turn - 1)
          BY <1>1, <5>1, Walking DEF WalkInv
        <5>3. \A j \in 1..(i - 1) : path'[j] = path[j]
          BY <2>1, <3>5
        <5>4. ~(i < L - 1) => Clear(Child(path[i].node, path[i].turn - 1))
          BY <2>1, <3>2, <5>2
        <5> QED
          BY <5>1, <5>2, <5>3, <5>4
      <4>2. L > 1 => path'[1].node = Root
        BY <2>1, <3>3, <3>5
      <4>3. L = 1 => Clear(Root)
        BY <3>2, <3>3
      <4>4. L - 1 > 0 <=> path' # <<>>
        BY <2>1, <3>5
      <4>5. look' = <<>> /\ ~(look' # <<>>)
        BY <1>1, <2>6
      <4> QED
        BY <1>1, <2>1, <3>5, <4>1, <4>2, <4>3, <4>4, <4>5, SameValue DEF WalkInv, Doing
    <3> QED
      BY <1>1, <2>6, <3>3, <3>5, <3>6, <3>7, SameValue DEF GuardInv, Guard!RefusalsAreTrue
  <2>7. \/ turn <= Arity(n) /\ value[Child(n, turn)].odd /\ Guard!Rule("inspection_unsafe_value") /\ UNCHANGED <<path, look>>
        \/ turn <= Arity(n) /\ look' = <<Child(n, turn)>> /\ path' = [path EXCEPT ![Len(path)].turn = @ + 1] /\ UNCHANGED verdict
        \/ turn > Arity(n) /\ path' = Guard!Front(path) /\ UNCHANGED <<look, verdict>>
    BY <1>4, <2>3 DEF Guard!Step, Child, Arity
  <2> QED
    BY <2>4, <2>5, <2>6, <2>7
<1> QED
  BY <1>3, <1>4 DEF Guard!Step

LEMMA AgainKept == GuardInv /\ Guard!Again => GuardInv'
<1> SUFFICES ASSUME GuardInv, Guard!Again
             PROVE  GuardInv'
  OBVIOUS
<1>1. /\ value' \in Values /\ path' = <<>> /\ look' = <<Root>> /\ budget' = 0 /\ verdict' = "none"
      /\ round' \in 1..Rounds /\ atStart' \in BOOLEAN
  BY GuardConstants DEF Guard!Again, GuardInv, Guard!TypeOK
<1>2. /\ path' \in Seq([node : Nodes, turn : Nat]) /\ Len(path') = 0 /\ DOMAIN path' = {} /\ look' \in {<<n>> : n \in Nodes}
      /\ look' # <<>> /\ budget' <= MaxNodes /\ budget' \in 0..(MaxNodes + 1)
  BY <1>1, GuardConstants
<1>3. Guard!TypeOK'
  BY <1>1, <1>2, GuardConstants DEF Guard!TypeOK
<1>4. WalkInv'
  BY <1>1, <1>2 DEF WalkInv
<1> QED
  BY <1>1, <1>2, <1>3, <1>4 DEF GuardInv, Guard!RefusalsAreTrue

LEMMA GuardKept == GuardInv /\ (Guard!Next \/ UNCHANGED guardVars) => GuardInv'
<1> SUFFICES ASSUME GuardInv, UNCHANGED guardVars
             PROVE  GuardInv'
  BY LookKept, StepKept, AgainKept DEF Guard!Next
<1>1. UNCHANGED <<value, path, look, budget, atStart, verdict, round>>
  BY DEF guardVars
<1>2. value \in Values /\ (Guard!TypeOK <=> Guard!TypeOK')
  BY <1>1 DEF GuardInv, Guard!TypeOK
<1>3. WalkInv <=> WalkInv'
  BY <1>1, SameValue DEF WalkInv, Doing
<1> QED
  BY <1>1, <1>2, <1>3, SameValue DEF GuardInv, Guard!RefusalsAreTrue

LEMMA GuardAlways == ProvidersSpec => []GuardInv
<1>1. GuardInv /\ [ProvidersNext]_providersVars => GuardInv'
  BY Steps, GuardKept
<1> QED
  BY GuardBegins, <1>1, PTL DEF ProvidersSpec

LEMMA GuardSound == GuardInv => Guard!TypeOK /\ Guard!CleanIsClean /\ Guard!RefusalsAreTrue
BY DEF GuardInv, Guard!CleanIsClean, Guard!Reached, Clear, Fine

-------------------------------------------------------------------------------
(* The live run.                                                             *)

Accepted == livePhase \in {"probing", "planned", "calling", "returned"}
Running == livePhase \in {"planned", "calling"}

\* What is known of a target is what it reported when it was asked, or that it
\* is unavailable.
AskedInv ==
  /\ livePhase = "idle" => DOMAIN probe = {} /\ DOMAIN seen = {} /\ sent = {}
  /\ Accepted \/ code = "no_eligible_target" => Live!Flaw = "none" /\ DOMAIN probe = Live!Bound
  /\ DOMAIN seen \subseteq DOMAIN probe
  /\ \A t \in DOMAIN probe :
       /\ t \in Live!Bound /\ probe[t] \in {"resolving", "asking", "settled"}
       /\ probe[t] = "resolving" => t \in Live!Keyed
       /\ t \in DOMAIN seen => probe[t] = "settled" /\ state[t] = Live!Report(t, seen[t].models)
                               /\ seen[t].when \in observedAt..clock
       /\ t \notin DOMAIN seen => state[t] = Live!Unavailable

\* A stage's candidates are the targets eligible for it, and a plan has some
\* for every stage.
PlanInv ==
  /\ livePhase \in {"idle", "probing"} => at = Live!Min(Stages) /\ \A s \in Stages : candidates[s] = {} /\ worked[s] = {}
  /\ \A s \in Stages : candidates[s] # {} => candidates[s] = Live!Eligible(s) /\ DOMAIN probe = Live!Bound
  /\ Running \/ livePhase = "returned" => \A s \in Stages : candidates[s] # {}
  /\ code # "misfit"
  /\ code = "no_eligible_target" => \E s \in Stages : Live!Eligible(s) = {}

\* Stages do their work in order, each on one of its candidates.
WorkInv ==
  /\ Running => \A s \in Stages : (s < at => worked[s] # {}) /\ (s >= at => worked[s] = {})
  /\ \A s \in Stages : worked[s] \subseteq candidates[s] /\ (worked[s] = {} \/ \E t \in Targets : worked[s] = {t})
  /\ livePhase = "returned" => \A s \in Stages : worked[s] # {}

\* All of it, with the tokens' whereabouts.
LiveInv ==
  /\ Live!TypeOK /\ at \in Stages
  /\ candidates \in [Stages -> SUBSET Targets] /\ worked \in [Stages -> SUBSET Targets]
  /\ AskedInv /\ PlanInv /\ WorkInv /\ Live!TokensGoHome

LEMMA LiveConstants ==
  /\ Stages \subseteq Nat /\ Stages # {} /\ Targets \subseteq Nat /\ IsFiniteSet(Stages) /\ Ttl \in Nat /\ Ttl > 0
  /\ MaxClock \in Nat /\ NoToken \notin Live!Contents /\ LiveRequests \subseteq Live!Request /\ Inputs \cap Stages = {}
<1>1. Live!LiveRunAssumption
  BY ProvidersAssumption DEF ProvidersAssumption
<1>2. IsFiniteSet(Stages)
  BY <1>1 DEF Live!LiveRunAssumption, Live!IsFiniteSet, IsFiniteSet
<1> QED
  BY <1>1, <1>2 DEF Live!LiveRunAssumption

\* A nonempty set of numbers has a least one.
LEMMA Least ==
  ASSUME NEW S \in SUBSET Nat, S # {}
  PROVE  Live!Min(S) \in S /\ \A y \in S : Live!Min(S) <= y
<1> DEFINE R == OpToRel(<, Nat)
<1>1. \A x, y \in Nat : x < y => <<x, y>> \in R
  BY DEF OpToRel
<1>2. IsWellFoundedOn(R, Nat)
  BY NatLessThanWellFounded
<1> HIDE DEF R
<1>3. PICK x \in S : \A y \in S : ~(<<y, x>> \in R)
  BY <1>2, WFMin
<1>4. \A y \in S : x <= y
  <2> TAKE y \in S
  <2>1. x \in Nat /\ y \in Nat /\ ~(y < x)
    BY <1>1, <1>3
  <2> QED
    BY <2>1
<1> QED
  BY <1>4 DEF Live!Min

\* A nonempty finite set of numbers has a greatest one.
LEMMA Greatest ==
  ASSUME NEW S \in SUBSET Nat, S # {}, IsFiniteSet(S)
  PROVE  Live!Max(S) \in S /\ \A y \in S : Live!Max(S) >= y
<1> DEFINE Less == StrictSubsetOrdering(S)
           Above(x) == {y \in S : y > x}
           Ups == {Above(x) : x \in S}
<1>1. IsWellFoundedOn(Less, SUBSET S)
  BY FS_StrictSubsetOrderingWellFounded, FS_FiniteSubsetsOfFinite
<1>2. Ups \subseteq SUBSET S /\ Ups # {}
  OBVIOUS
<1>3. \A U, V \in SUBSET S : V \subseteq U /\ V # U => <<V, U>> \in Less
  BY DEF StrictSubsetOrdering
<1>4. PICK U \in Ups : \A V \in Ups : ~(<<V, U>> \in Less)
  <2> HIDE DEF Ups, Less
  <2> QED
    BY <1>1, <1>2, WFMin
<1>5. PICK x \in S : U = Above(x)
  BY <1>4
<1>6. ASSUME NEW y \in S
      PROVE  x >= y
  <2>1. x \in Nat /\ y \in Nat
    OBVIOUS
  <2>2. SUFFICES ASSUME y > x
                 PROVE  FALSE
    BY <2>1
  <2>3. Above(y) \subseteq Above(x) /\ y \in Above(x) /\ y \notin Above(y)
    <3>1. \A z \in S : z > y => z > x
      BY <2>1, <2>2
    <3>2. ~(y > y)
      BY <2>1
    <3> QED
      BY <2>2, <3>1, <3>2
  <2>4. <<Above(y), U>> \in Less
    BY <1>2, <1>3, <1>5, <2>3
  <2> QED
    BY <1>4, <2>4
<1> QED
  BY <1>6 DEF Live!Max

\* A request without a flaw passes every check.
LEMMA FlawIsNone ==
  Live!Flaw = "none" <=>
    /\ liveRequest.intact /\ Live!BindingsMatch /\ liveRequest.declassifies = {} /\ Live!ContractsMatch
    /\ liveRequest.named = Inputs
BY DEF Live!Flaw

LEMMA FlawIsOther == Live!Flaw \notin {"misfit", "no_eligible_target"}
BY DEF Live!Flaw

\* What is bound, keyed and reported depends on the request only.
LEMMA SameRequest ==
  ASSUME liveRequest' = liveRequest
  PROVE  /\ Live!Bound' = Live!Bound /\ Live!Keyed' = Live!Keyed /\ Live!Flaw' = Live!Flaw
         /\ \A t, m : Live!Report(t, m)' = Live!Report(t, m)
<1>1. Live!Bound' = Live!Bound
  BY DEF Live!Bound
<1>2. Live!Keyed' = Live!Keyed
  BY <1>1 DEF Live!Keyed
<1>3. Live!BindingsMatch' = Live!BindingsMatch
  BY <1>1 DEF Live!BindingsMatch
<1>4. \A s : Live!Serving(s)' = Live!Serving(s)
  BY <1>1 DEF Live!Serving
<1>5. Live!ContractsMatch' = Live!ContractsMatch
  BY <1>4 DEF Live!ContractsMatch
<1>6. Live!Flaw' = Live!Flaw
  BY <1>3, <1>5 DEF Live!Flaw
<1>7. \A t, m : Live!Present(t, m)' = Live!Present(t, m)
  BY DEF Live!Present
<1>8. \A t, m : Live!Report(t, m)' = Live!Report(t, m)
  BY <1>7 DEF Live!Report
<1> QED
  BY <1>1, <1>2, <1>6, <1>8

\* Who is eligible depends on the request and the states only.
LEMMA SameState ==
  ASSUME UNCHANGED <<liveRequest, state>>
  PROVE  \A s : Live!Eligible(s)' = Live!Eligible(s)
BY SameRequest DEF Live!Eligible

\* What a request to the live run holds.
LEMMA LiveRequestIs ==
  ASSUME Live!TypeOK
  PROVE  /\ liveRequest \in LiveRequests /\ liveRequest \in Live!Request
         /\ liveRequest.op \in [Stages -> Operations] /\ liveRequest.reads \in [Stages -> Inputs \cup Stages]
         /\ liveRequest.bound \in [Targets -> SUBSET Operations]
         /\ liveRequest.key \in [Targets -> Variables \cup {NoVariable}]
<1>1. liveRequest \in Live!Request
  BY LiveConstants DEF Live!TypeOK
<1> QED
  BY <1>1 DEF Live!TypeOK, Live!Request

LEMMA LiveBegins == ProvidersInit => LiveInv
<1> SUFFICES ASSUME ProvidersInit
             PROVE  LiveInv
  OBVIOUS
<1>1. /\ liveRequest \in LiveRequests /\ livePhase = "idle" /\ code = "none" /\ clock = 0 /\ observedAt = 0
      /\ environment \in [Variables -> Live!Contents]
      /\ given \in [Inputs -> {"text", "other"}] /\ inputs = given
      /\ probe = <<>> /\ state = <<>> /\ seen = <<>> /\ sent = {}
      /\ candidates = [s \in Stages |-> {}] /\ at = Live!Min(Stages) /\ worked = [s \in Stages |-> {}]
  BY DEF ProvidersInit, Live!Init
<1>2. DOMAIN probe = {} /\ DOMAIN state = {} /\ DOMAIN seen = {}
  BY <1>1
<1>3. at \in Stages
  BY <1>1, LiveConstants, Least
<1>4. given \in [Inputs -> Live!InputContents] /\ clock \in 0..MaxClock /\ observedAt \in 0..clock
  BY <1>1, LiveConstants DEF Live!InputContents
<1>5. Live!TypeOK
  BY <1>1, <1>2, <1>4 DEF Live!TypeOK
<1>6. AskedInv
  BY <1>1, <1>2 DEF AskedInv, Accepted
<1>7. PlanInv /\ WorkInv
  BY <1>1, <1>3 DEF PlanInv, WorkInv, Running
<1> QED
  BY <1>1, <1>3, <1>5, <1>6, <1>7 DEF LiveInv, Live!TokensGoHome

LEMMA RefuseKept == LiveInv /\ Live!Refuse => LiveInv'
<1> SUFFICES ASSUME LiveInv, Live!Refuse
             PROVE  LiveInv'
  OBVIOUS
<1>1. /\ livePhase = "idle" /\ Live!Flaw # "none" /\ livePhase' = "failed" /\ code' = Live!Flaw
      /\ UNCHANGED <<liveRequest, clock, environment, given, inputs, observedAt, probe, state, candidates, at, target, seen, sent, worked>>
  BY DEF Live!Refuse, Live!Fail
<1>2. Live!TypeOK'
  BY <1>1 DEF LiveInv, Live!TypeOK
<1>3. AskedInv'
  BY <1>1, FlawIsOther DEF LiveInv, AskedInv, Accepted
<1>4. PlanInv' /\ WorkInv'
  BY <1>1, FlawIsOther, SameState DEF LiveInv, PlanInv, WorkInv, Running
<1> QED
  BY <1>1, <1>2, <1>3, <1>4 DEF LiveInv, Live!TokensGoHome

LEMMA LiveObserveKept == LiveInv /\ Live!Observe => LiveInv'
<1> SUFFICES ASSUME LiveInv, Live!Observe
             PROVE  LiveInv'
  OBVIOUS
<1>1. /\ livePhase = "idle" /\ Live!Flaw = "none" /\ livePhase' = "probing" /\ observedAt' = clock
      /\ probe' = [t \in Live!Bound |-> IF t \in Live!Keyed THEN "resolving" ELSE "asking"]
      /\ state' = [t \in Live!Bound |-> Live!Unavailable]
      /\ sent' = {Live!Ask(t, NoToken) : t \in Live!Bound \ Live!Keyed}
      /\ UNCHANGED <<liveRequest, code, clock, environment, given, inputs, candidates, at, target, seen, worked>>
  BY DEF Live!Observe
<1>2. Live!Bound \subseteq Targets /\ DOMAIN probe' = Live!Bound /\ DOMAIN state' = Live!Bound
  BY <1>1 DEF Live!Bound
<1>3. DOMAIN seen = {} /\ code = "none"
  BY <1>1 DEF LiveInv, AskedInv, Live!TypeOK
<1>4. Live!TypeOK'
  <2>1. clock \in 0..clock
    BY LiveConstants DEF LiveInv, Live!TypeOK
  <2>2. \A t \in DOMAIN state' : state'[t] = Live!Unavailable
    BY <1>1, <1>2
  <2>3. Live!Unavailable' = Live!Unavailable
    BY DEF Live!Unavailable
  <2> QED
    BY <1>1, <1>2, <2>1, <2>2, <2>3 DEF LiveInv, Live!TypeOK
<1>5. AskedInv'
  <2>1. \A t \in DOMAIN probe' :
          /\ t \in Live!Bound /\ probe'[t] \in {"resolving", "asking", "settled"}
          /\ probe'[t] = "resolving" => t \in Live!Keyed
          /\ state'[t] = Live!Unavailable /\ t \notin DOMAIN seen'
    BY <1>1, <1>2, <1>3
  <2>2. Live!Unavailable' = Live!Unavailable
    BY DEF Live!Unavailable
  <2> QED
    BY <1>1, <1>2, <1>3, <2>1, <2>2, SameRequest DEF AskedInv, Accepted
<1>6. PlanInv' /\ WorkInv'
  BY <1>1, <1>3 DEF LiveInv, PlanInv, WorkInv, Running
<1>7. Live!TokensGoHome'
  BY <1>1 DEF Live!TokensGoHome, Live!Ask, Live!Keyed
<1> QED
  BY <1>1, <1>4, <1>5, <1>6, <1>7 DEF LiveInv

LEMMA LiveResolveKept == ASSUME LiveInv, NEW t \in DOMAIN probe, Live!Resolve(t) PROVE LiveInv'
<1>1. /\ livePhase = "probing" /\ probe[t] = "resolving"
      /\ UNCHANGED <<liveRequest, livePhase, code, clock, environment, given, inputs, observedAt, state, candidates, at, target, seen, worked>>
  BY DEF Live!Resolve
<1>2. PICK now \in {"asking", "settled"} : probe' = [probe EXCEPT ![t] = now]
  BY DEF Live!Resolve
<1>3. DOMAIN probe' = DOMAIN probe /\ probe'[t] = now /\ \A u \in DOMAIN probe : u # t => probe'[u] = probe[u]
  BY <1>2
<1>4. t \notin DOMAIN seen /\ state[t] = Live!Unavailable /\ t \in Live!Keyed
  BY <1>1 DEF LiveInv, AskedInv
<1>5. Live!Unavailable' = Live!Unavailable
  BY DEF Live!Unavailable
<1>6. Live!TypeOK'
  <2>1. \A u \in DOMAIN state : state[u] # Live!Unavailable => probe'[u] = "settled"
    BY <1>3, <1>4 DEF LiveInv, Live!TypeOK
  <2>2. Live!Bound' = Live!Bound
    BY <1>1, SameRequest
  <2> QED
    BY <1>1, <1>3, <1>5, <2>1, <2>2 DEF LiveInv, Live!TypeOK
<1>7. AskedInv'
  <2>1. \A u \in DOMAIN probe :
          /\ u \in Live!Bound /\ probe'[u] \in {"resolving", "asking", "settled"}
          /\ probe'[u] = "resolving" => u \in Live!Keyed
          /\ u \in DOMAIN seen => probe'[u] = "settled" /\ state[u] = Live!Report(u, seen[u].models)
                                  /\ seen[u].when \in observedAt..clock
          /\ u \notin DOMAIN seen => state[u] = Live!Unavailable
    BY <1>3, <1>4 DEF LiveInv, AskedInv
  <2> QED
    BY <1>1, <1>3, <1>5, <2>1, SameRequest DEF LiveInv, AskedInv, Accepted
<1>8. PlanInv' /\ WorkInv'
  BY <1>1, SameState DEF LiveInv, PlanInv, WorkInv, Running
<1>9. Live!TokensGoHome'
  <2>1. sent' = sent \/ sent' = sent \cup {Live!Ask(t, "usable")}
    BY DEF Live!Resolve, Live!Usable
  <2>2. liveRequest.key[t] # NoVariable
    BY <1>4 DEF Live!Keyed
  <2> QED
    BY <1>1, <2>1, <2>2 DEF LiveInv, Live!TokensGoHome, Live!Ask
<1> QED
  BY <1>1, <1>6, <1>7, <1>8, <1>9 DEF LiveInv

LEMMA LiveSettleKept == ASSUME LiveInv, NEW t \in DOMAIN probe, Live!Settle(t) PROVE LiveInv'
<1>1. /\ livePhase = "probing" /\ probe[t] = "asking" /\ probe' = [probe EXCEPT ![t] = "settled"]
      /\ UNCHANGED <<liveRequest, livePhase, code, clock, environment, given, inputs, observedAt, candidates, at, target, sent, worked>>
  BY DEF Live!Settle
<1>2. DOMAIN probe' = DOMAIN probe /\ probe'[t] = "settled" /\ \A u \in DOMAIN probe : u # t => probe'[u] = probe[u]
  BY <1>1
<1>3. DOMAIN state = DOMAIN probe /\ code = "none"
  BY <1>1 DEF LiveInv, Live!TypeOK
<1>4. /\ \A u \in DOMAIN probe \ {t} : state'[u] = state[u]
      /\ \A u \in DOMAIN seen \ {t} : seen'[u] = seen[u]
      /\ DOMAIN state' = DOMAIN state
      /\ \/ UNCHANGED <<state, seen>>
         \/ /\ DOMAIN seen' = DOMAIN seen \cup {t} /\ state'[t] = Live!Report(t, seen'[t].models)
            /\ seen'[t].when = clock
  <2>1. CASE UNCHANGED <<state, seen>>
    BY <2>1
  <2>2. CASE ~UNCHANGED <<state, seen>>
    <3>1. PICK models \in SUBSET Models :
            /\ state' = [state EXCEPT ![t] = Live!Report(t, models)]
            /\ seen' = [x \in DOMAIN seen \cup {t} |-> IF x = t THEN [models |-> models, when |-> clock] ELSE seen[x]]
      BY <2>2 DEF Live!Settle
    <3>2. state'[t] = Live!Report(t, models) /\ DOMAIN state' = DOMAIN state /\ \A u \in DOMAIN probe \ {t} : state'[u] = state[u]
      BY <1>3, <3>1
    <3>3. DOMAIN seen' = DOMAIN seen \cup {t} /\ seen'[t] = [models |-> models, when |-> clock] /\ \A u \in DOMAIN seen \ {t} : seen'[u] = seen[u]
      BY <3>1
    <3> QED
      BY <3>2, <3>3
  <2> QED
    BY <2>1, <2>2
<1>5. /\ \A u \in DOMAIN probe :
          /\ u \in Live!Bound /\ probe[u] \in {"resolving", "asking", "settled"}
          /\ probe[u] = "resolving" => u \in Live!Keyed
          /\ u \in DOMAIN seen => probe[u] = "settled" /\ state[u] = Live!Report(u, seen[u].models)
                                  /\ seen[u].when \in observedAt..clock
          /\ u \notin DOMAIN seen => state[u] = Live!Unavailable
      /\ DOMAIN seen \subseteq DOMAIN probe
  BY DEF LiveInv, AskedInv
<1>6. t \notin DOMAIN seen /\ state[t] = Live!Unavailable
  BY <1>1, <1>5
<1>7. Live!Unavailable' = Live!Unavailable
  BY DEF Live!Unavailable
<1>8. Live!TypeOK'
  <2>1. \A u \in DOMAIN state' : state'[u] # Live!Unavailable => probe'[u] = "settled"
    BY <1>2, <1>3, <1>4 DEF LiveInv, Live!TypeOK
  <2> QED
    BY <1>1, <1>2, <1>4, <1>7, <2>1 DEF LiveInv, Live!TypeOK
<1>9. AskedInv'
  <2>1. clock \in observedAt..clock
    BY LiveConstants DEF LiveInv, Live!TypeOK
  <2>2. ASSUME NEW u \in DOMAIN probe
        PROVE  /\ probe'[u] \in {"resolving", "asking", "settled"}
               /\ probe'[u] = "resolving" => u \in Live!Keyed
               /\ u \in DOMAIN seen' => probe'[u] = "settled" /\ state'[u] = Live!Report(u, seen'[u].models)
                                        /\ seen'[u].when \in observedAt..clock
               /\ u \notin DOMAIN seen' => state'[u] = Live!Unavailable
    <3>1. CASE u = t
      BY <1>2, <1>4, <1>6, <2>1, <3>1
    <3>2. CASE u # t
      BY <1>2, <1>4, <1>5, <3>2
    <3> QED
      BY <3>1, <3>2
  <2>3. DOMAIN seen' \subseteq DOMAIN probe
    BY <1>4, <1>5
  <2>4. \A u \in DOMAIN probe' :
          /\ u \in Live!Bound' /\ probe'[u] \in {"resolving", "asking", "settled"}
          /\ probe'[u] = "resolving" => u \in Live!Keyed'
          /\ u \in DOMAIN seen' => probe'[u] = "settled" /\ state'[u] = Live!Report(u, seen[u].models)'
                                   /\ seen'[u].when \in (observedAt')..(clock')
          /\ u \notin DOMAIN seen' => state'[u] = Live!Unavailable'
    <3>1. \A u, m : Live!Report(u, m)' = Live!Report(u, m)
      BY <1>1, SameRequest
    <3>2. \A u : Live!Report(u, seen[u].models)' = Live!Report(u, seen'[u].models)
      BY <1>1 DEF Live!Report, Live!Present
    <3> QED
      BY <1>1, <1>2, <1>5, <1>7, <2>2, <3>2, SameRequest
  <2> QED
    BY <1>1, <1>2, <1>3, <2>3, <2>4, SameRequest DEF LiveInv, AskedInv, Accepted
<1>10. PlanInv' /\ WorkInv'
  BY <1>1, <1>3 DEF LiveInv, PlanInv, WorkInv, Running
<1> QED
  BY <1>1, <1>8, <1>9, <1>10 DEF LiveInv, Live!TokensGoHome

\* What is eligible has answered, and its state is its answer.
LEMMA EligibleAnswered ==
  ASSUME LiveInv, DOMAIN probe = Live!Bound, NEW s \in Stages, NEW t \in Live!Eligible(s)
  PROVE  /\ t \in DOMAIN seen /\ state[t] = Live!Report(t, seen[t].models) /\ t \in Live!Bound
         /\ liveRequest.op[s] \in liveRequest.bound[t] /\ liveRequest.model[t][liveRequest.op[s]] \in seen[t].models
<1>1. t \in Live!Bound /\ state[t].healthy /\ liveRequest.op[s] \in state[t].operations
  BY DEF Live!Eligible
<1>2. t \in DOMAIN seen
  BY <1>1 DEF LiveInv, AskedInv, Live!Unavailable
<1>3. state[t] = Live!Report(t, seen[t].models)
  BY <1>1, <1>2 DEF LiveInv, AskedInv
<1> QED
  BY <1>1, <1>2, <1>3 DEF Live!Report, Live!Present

LEMMA PlanKept == LiveInv /\ Live!Plan => LiveInv'
<1> SUFFICES ASSUME LiveInv, Live!Plan
             PROVE  LiveInv'
  OBVIOUS
<1>1. /\ livePhase = "probing"
      /\ UNCHANGED <<liveRequest, clock, environment, given, observedAt, probe, state, at, seen, sent, worked>>
  BY DEF Live!Plan
<1>2. DOMAIN probe = Live!Bound /\ Live!Flaw = "none" /\ code = "none"
  BY <1>1 DEF LiveInv, AskedInv, Accepted, Live!TypeOK
<1>3. CASE livePhase' = "failed" /\ code' = "snapshot_expired" /\ UNCHANGED <<candidates, inputs, target>>
  <2>1. Live!TypeOK'
    BY <1>1, <1>3 DEF LiveInv, Live!TypeOK
  <2>2. AskedInv' /\ PlanInv' /\ WorkInv'
    BY <1>1, <1>3, SameRequest, SameState DEF LiveInv, AskedInv, PlanInv, WorkInv, Accepted, Running, Live!Unavailable
  <2> QED
    BY <1>1, <1>3, <2>1, <2>2 DEF LiveInv, Live!TokensGoHome
<1>4. CASE (\E s \in Stages : Live!Eligible(s) = {}) /\ livePhase' = "failed" /\ code' = "no_eligible_target" /\ UNCHANGED <<candidates, inputs, target>>
  <2>1. Live!TypeOK'
    BY <1>1, <1>4 DEF LiveInv, Live!TypeOK
  <2>2. AskedInv'
    BY <1>1, <1>2, <1>4, SameRequest DEF LiveInv, AskedInv, Accepted, Live!Unavailable
  <2>3. PlanInv' /\ WorkInv'
    BY <1>1, <1>4, SameRequest, SameState DEF LiveInv, PlanInv, WorkInv, Running
  <2> QED
    BY <1>1, <1>4, <2>1, <2>2, <2>3 DEF LiveInv, Live!TokensGoHome
<1>5. CASE /\ \A s \in Stages : Live!Eligible(s) # {}
           /\ livePhase' = "planned" /\ candidates' = [s \in Stages |-> Live!Eligible(s)]
           /\ inputs' = given /\ target' = Live!Min(Live!Eligible(at))
           /\ UNCHANGED code
  <2>1. \A s \in Stages : Live!Eligible(s) \subseteq Live!Bound /\ Live!Eligible(s) \subseteq Targets
    BY DEF Live!Eligible, Live!Bound
  <2>2. at \in Stages /\ target' \in Live!Eligible(at) /\ candidates' \in [Stages -> SUBSET Targets]
    BY <1>5, <2>1, Least, LiveConstants DEF LiveInv
  <2>3. Live!TypeOK'
    <3>1. Live!Bound' = Live!Bound /\ candidates'[at] \subseteq Live!Bound /\ target' \in candidates'[at]
      BY <1>1, <1>5, <2>1, <2>2, SameRequest
    <3> QED
      BY <1>1, <1>2, <1>5, <2>2, <3>1 DEF LiveInv, Live!TypeOK
  <2>4. AskedInv'
    BY <1>1, <1>2, <1>5, SameRequest DEF LiveInv, AskedInv, Accepted, Live!Unavailable
  <2>5. PlanInv'
    BY <1>1, <1>2, <1>5, SameRequest, SameState DEF LiveInv, PlanInv, Running
  <2>6. at = Live!Min(Stages) /\ \A s \in Stages : worked[s] = {} /\ ~(s < at)
    BY <1>1, Least, LiveConstants DEF LiveInv, PlanInv
  <2>7. WorkInv'
    BY <1>1, <1>5, <2>6 DEF WorkInv, Running
  <2> QED
    BY <1>1, <1>5, <2>2, <2>3, <2>4, <2>5, <2>7 DEF LiveInv, Live!TokensGoHome
<1> QED
  BY <1>3, <1>4, <1>5 DEF Live!Plan, Live!Fail

\* The target of an attempt is one its stage was planned for.
LEMMA Planned ==
  ASSUME LiveInv, Running
  PROVE  /\ at \in Stages /\ target \in candidates[at] /\ target \in Targets /\ candidates[at] = Live!Eligible(at)
         /\ DOMAIN probe = Live!Bound /\ Live!Flaw = "none" /\ code = "none" /\ ~Live!Misfit
<1>1. /\ at \in Stages /\ target \in candidates[at] /\ target \in Targets
      /\ DOMAIN probe = Live!Bound /\ Live!Flaw = "none" /\ code = "none"
  BY DEF LiveInv, Running, Live!TypeOK, AskedInv, Accepted
<1>2. candidates[at] = Live!Eligible(at)
  BY <1>1 DEF LiveInv, PlanInv
<1>3. target \in Live!Bound /\ liveRequest.op[at] \in liveRequest.bound[target]
  BY <1>1, <1>2, EligibleAnswered
<1>4. liveRequest.op[at] \in liveRequest.fits[target]
  BY <1>1, <1>3, FlawIsNone DEF Live!ContractsMatch, Live!Serving
<1> QED
  BY <1>1, <1>2, <1>3, <1>4 DEF Live!Misfit

LEMMA CallKept == LiveInv /\ Live!Call => LiveInv'
<1> SUFFICES ASSUME LiveInv, Live!Call
             PROVE  LiveInv'
  OBVIOUS
<1>1. /\ livePhase = "planned" /\ Running
      /\ UNCHANGED <<liveRequest, clock, environment, given, inputs, observedAt, probe, state, candidates, at, target, seen, worked>>
  BY DEF Live!Call, Running
<1>2. /\ target \in Targets /\ DOMAIN probe = Live!Bound /\ Live!Flaw = "none" /\ code = "none" /\ ~Live!Misfit
  BY <1>1, Planned
<1>3. CASE livePhase' = "failed" /\ code' = Live!Unfit /\ Live!Unfit # "none" /\ UNCHANGED sent
  <2>1. Live!Unfit \notin {"misfit", "no_eligible_target", "none"}
    BY <1>2, <1>3 DEF Live!Unfit
  <2>2. Live!TypeOK'
    BY <1>1, <1>3, <2>1 DEF LiveInv, Live!TypeOK
  <2>3. AskedInv'
    BY <1>1, <1>3, <2>1, SameRequest DEF LiveInv, AskedInv, Accepted, Live!Unavailable
  <2>4. PlanInv' /\ WorkInv'
    BY <1>1, <1>3, <2>1, SameRequest, SameState DEF LiveInv, PlanInv, WorkInv, Running
  <2> QED
    BY <1>1, <1>3, <2>2, <2>3, <2>4 DEF LiveInv, Live!TokensGoHome
<1>4. CASE /\ Live!Unfit = "none" /\ livePhase' = "calling" /\ UNCHANGED code
           /\ sent' = sent \cup {[kind |-> "inference", to |-> target, variable |-> liveRequest.key[target], token |-> Live!Token]}
  <2>1. IF liveRequest.key[target] = NoVariable THEN Live!Token = NoToken ELSE Live!Token = "usable"
    <3>1. liveRequest.key[target] \in Variables \cup {NoVariable} /\ environment \in [Variables -> Live!Contents]
      BY <1>2, LiveRequestIs DEF LiveInv, Live!TypeOK
    <3>2. Live!Token # NoToken => Live!Token = "usable"
      BY <1>4 DEF Live!Unfit, Live!Usable
    <3> QED
      BY <3>1, <3>2, LiveConstants DEF Live!Token
  <2>2. Live!TokensGoHome'
    BY <1>1, <1>4, <2>1 DEF LiveInv, Live!TokensGoHome
  <2>3. Live!TypeOK'
    <3>1. Live!Bound' = Live!Bound
      BY <1>1, SameRequest
    <3> QED
      BY <1>1, <1>2, <1>4, <3>1 DEF LiveInv, Live!TypeOK
  <2>4. AskedInv'
    BY <1>1, <1>2, <1>4, SameRequest DEF LiveInv, AskedInv, Accepted, Live!Unavailable
  <2>5. PlanInv' /\ WorkInv'
    BY <1>1, <1>4, SameRequest, SameState DEF LiveInv, PlanInv, WorkInv, Running
  <2> QED
    BY <1>1, <2>2, <2>3, <2>4, <2>5 DEF LiveInv
<1> QED
  BY <1>3, <1>4 DEF Live!Call, Live!Fail

LEMMA AnswerKept == LiveInv /\ Live!Answer => LiveInv'
<1> SUFFICES ASSUME LiveInv, Live!Answer
             PROVE  LiveInv'
  OBVIOUS
<1>1. /\ livePhase = "calling" /\ Running
      /\ UNCHANGED <<liveRequest, clock, environment, given, inputs, observedAt, probe, state, candidates, seen, sent>>
  BY DEF Live!Answer, Running
<1>2. /\ at \in Stages /\ target \in candidates[at] /\ target \in Targets /\ DOMAIN probe = Live!Bound
      /\ Live!Flaw = "none" /\ code = "none" /\ at \in Nat /\ Stages \subseteq Nat /\ Targets \subseteq Nat
      /\ candidates \in [Stages -> SUBSET Targets] /\ worked \in [Stages -> SUBSET Targets]
  BY <1>1, Planned, LiveConstants DEF LiveInv
<1>3. /\ \A s \in Stages : (s < at => worked[s] # {}) /\ (s >= at => worked[s] = {})
      /\ \A s \in Stages : worked[s] \subseteq candidates[s] /\ (worked[s] = {} \/ \E t \in Targets : worked[s] = {t})
  BY <1>1 DEF LiveInv, WorkInv
<1>4. PICK answer \in Live!Answers :
        /\ Live!Continue(answer)
        /\ worked' = IF answer = "refusal" THEN worked ELSE [worked EXCEPT ![at] = @ \cup {target}]
  BY DEF Live!Answer
<1>5. /\ worked' \in [Stages -> SUBSET Targets]
      /\ \A s \in Stages : s # at => worked'[s] = worked[s]
      /\ worked'[at] = IF answer = "refusal" THEN {} ELSE {target}
  <2>1. worked[at] = {}
    BY <1>2, <1>3
  <2> QED
    BY <1>2, <1>4, <2>1
<1>6. \A s \in Stages : worked'[s] \subseteq candidates[s] /\ (worked'[s] = {} \/ \E t \in Targets : worked'[s] = {t})
  BY <1>2, <1>3, <1>5
<1>7. /\ Live!Bound' = Live!Bound /\ Live!Flaw' = Live!Flaw
      /\ \A s : Live!Eligible(s)' = Live!Eligible(s)
  BY <1>1, SameRequest, SameState
<1>8. /\ \A s \in Stages : candidates[s] = Live!Eligible(s) /\ candidates[s] # {} /\ candidates[s] \subseteq Live!Bound
  <2>1. \A s \in Stages : Live!Eligible(s) \subseteq Live!Bound
    BY DEF Live!Eligible
  <2> QED
    BY <1>1, <2>1 DEF LiveInv, PlanInv
<1>9. ASSUME livePhase' = "planned", UNCHANGED code, at' \in Stages, target' \in candidates[at'],
             \A s \in Stages : (s < at' => worked'[s] # {}) /\ (s >= at' => worked'[s] = {})
      PROVE  LiveInv'
  <2>1. Live!TypeOK'
    BY <1>1, <1>2, <1>7, <1>8, <1>9 DEF LiveInv, Live!TypeOK
  <2>2. AskedInv'
    BY <1>1, <1>2, <1>9, SameRequest DEF LiveInv, AskedInv, Accepted, Live!Unavailable
  <2>3. PlanInv'
    BY <1>1, <1>2, <1>7, <1>8, <1>9 DEF PlanInv, Running
  <2>4. WorkInv'
    BY <1>1, <1>6, <1>9 DEF WorkInv, Running
  <2> QED
    BY <1>1, <1>2, <1>5, <1>9, <2>1, <2>2, <2>3, <2>4 DEF LiveInv, Live!TokensGoHome
<1>10. CASE answer = "output" /\ at # Live!Max(Stages)
            /\ livePhase' = "planned" /\ at' = Live!Min({s \in Stages : s > at}) /\ target' = Live!Min(candidates[at']) /\ UNCHANGED code
  <2> DEFINE Rest == {s \in Stages : s > at}
  <2>1. Rest # {}
    <3>1. Live!Max(Stages) \in Stages /\ Live!Max(Stages) >= at
      BY <1>2, LiveConstants, Greatest
    <3>2. Live!Max(Stages) > at
      <4>1. PICK m \in Nat : m = Live!Max(Stages)
        BY <1>2, <3>1
      <4>2. m >= at /\ m # at
        BY <1>10, <3>1, <4>1
      <4>3. m > at
        BY <1>2, <4>2
      <4> QED
        BY <4>1, <4>3
    <3>3. Live!Max(Stages) \in Rest
      BY <3>1, <3>2
    <3> QED
      BY <3>3
  <2>2. Rest \in SUBSET Nat
    BY <1>2
  <2>3. at' = Live!Min(Rest)
    BY <1>10
  <2>4. at' \in Rest /\ \A s \in Rest : at' <= s
    <3> HIDE DEF Rest
    <3> QED
      BY <2>1, <2>2, <2>3, Least
  <2>5. at' \in Stages /\ candidates[at'] # {} /\ candidates[at'] \in SUBSET Nat
    BY <1>2, <1>8, <2>4
  <2>6. target' \in candidates[at']
    BY <1>10, <2>5, Least
  <2>7. \A s \in Stages : (s < at' => worked'[s] # {}) /\ (s >= at' => worked'[s] = {})
    <3> TAKE s \in Stages
    <3>1. s \in Nat /\ at' \in Nat /\ at' > at
      BY <1>2, <2>4
    <3>2. CASE s = at
      BY <1>5, <1>10, <3>1, <3>2
    <3>3. CASE s < at
      BY <1>2, <1>3, <1>5, <3>1, <3>3
    <3>4. CASE s > at
      <4>1. at' <= s
        BY <2>4, <3>4
      <4> QED
        BY <1>2, <1>3, <1>5, <3>1, <3>4, <4>1
    <3> QED
      BY <1>2, <3>1, <3>2, <3>3, <3>4
  <2> QED
    BY <1>9, <1>10, <2>5, <2>6, <2>7
<1>11. CASE answer = "output" /\ at = Live!Max(Stages) /\ livePhase' = "returned" /\ UNCHANGED <<at, target, code>>
  <2>1. \A s \in Stages : s <= at
    BY <1>2, <1>11, LiveConstants, Greatest
  <2>2. \A s \in Stages : worked'[s] # {}
    BY <1>2, <1>3, <1>5, <1>11, <2>1
  <2>3. Live!TypeOK'
    BY <1>1, <1>2, <1>11 DEF LiveInv, Live!TypeOK
  <2>4. AskedInv'
    BY <1>1, <1>2, <1>11, SameRequest DEF LiveInv, AskedInv, Accepted, Live!Unavailable
  <2>5. PlanInv' /\ WorkInv'
    BY <1>1, <1>2, <1>6, <1>7, <1>8, <1>11, <2>2 DEF PlanInv, WorkInv, Running
  <2> QED
    BY <1>1, <1>2, <1>5, <1>11, <2>3, <2>4, <2>5 DEF LiveInv, Live!TokensGoHome
<1>12. CASE Live!Retryable(answer) /\ Live!Later # {}
            /\ livePhase' = "planned" /\ target' = Live!Min(Live!Later) /\ UNCHANGED <<at, code>>
  <2>1. Live!Later \in SUBSET Nat /\ Live!Later \subseteq candidates[at]
    BY <1>2 DEF Live!Later
  <2>2. target' \in candidates[at']
    BY <1>12, <2>1, Least
  <2>3. answer = "refusal"
    BY <1>12 DEF Live!Retryable
  <2>4. \A s \in Stages : worked'[s] = worked[s]
    BY <1>4, <2>3
  <2> QED
    BY <1>2, <1>3, <1>9, <1>12, <2>2, <2>4
<1>13. CASE livePhase' = "failed" /\ code' = "adapter_failed" /\ UNCHANGED <<at, target>>
  <2>1. Live!TypeOK'
    BY <1>1, <1>2, <1>13 DEF LiveInv, Live!TypeOK
  <2>2. AskedInv'
    BY <1>1, <1>2, <1>13, SameRequest DEF LiveInv, AskedInv, Accepted, Live!Unavailable
  <2>3. PlanInv' /\ WorkInv'
    BY <1>1, <1>2, <1>6, <1>7, <1>8, <1>13 DEF PlanInv, WorkInv, Running
  <2> QED
    BY <1>1, <1>2, <1>5, <1>13, <2>1, <2>2, <2>3 DEF LiveInv, Live!TokensGoHome
<1> QED
  BY <1>4, <1>10, <1>11, <1>12, <1>13 DEF Live!Continue, Live!Fail

\* Time passing and the changes of others leave the run as it is.
LEMMA OthersKept ==
  LiveInv /\ (Live!Tick \/ Live!EnvironmentChanges \/ Live!CallerChanges \/ UNCHANGED liveVars) => LiveInv'
<1> SUFFICES ASSUME LiveInv, Live!Tick \/ Live!EnvironmentChanges \/ Live!CallerChanges \/ UNCHANGED liveVars
             PROVE  LiveInv'
  OBVIOUS
<1>1. UNCHANGED <<liveRequest, livePhase, code, inputs, observedAt, probe, state, candidates, at, target, seen, sent, worked>>
  BY DEF Live!Tick, Live!EnvironmentChanges, Live!CallerChanges, liveVars, Live!Others
<1>2. clock' \in 0..MaxClock /\ clock <= clock' /\ clock \in Nat
  BY LiveConstants DEF LiveInv, Live!TypeOK, Live!Tick, Live!EnvironmentChanges, Live!CallerChanges, liveVars
<1>3. environment' \in [Variables -> Live!Contents] /\ given' \in [Inputs -> Live!InputContents]
  BY DEF LiveInv, Live!TypeOK, Live!Tick, Live!EnvironmentChanges, Live!CallerChanges, liveVars
<1>4. observedAt \in 0..clock /\ observedAt \in 0..clock' /\ \A n \in observedAt..clock : n \in observedAt..clock'
  BY <1>2 DEF LiveInv, Live!TypeOK
<1>5. Live!TypeOK'
  <2>1. Live!Bound' = Live!Bound /\ Live!Unavailable' = Live!Unavailable
    BY <1>1, SameRequest DEF Live!Unavailable
  <2> QED
    BY <1>1, <1>2, <1>3, <1>4, <2>1 DEF LiveInv, Live!TypeOK
<1>6. AskedInv'
  BY <1>1, <1>4, SameRequest DEF LiveInv, AskedInv, Accepted, Live!Unavailable
<1>7. PlanInv' /\ WorkInv'
  BY <1>1, SameRequest, SameState DEF LiveInv, PlanInv, WorkInv, Running
<1> QED
  BY <1>1, <1>5, <1>6, <1>7 DEF LiveInv, Live!TokensGoHome

LEMMA LiveKept == LiveInv /\ (Live!Next \/ UNCHANGED liveVars) => LiveInv'
BY RefuseKept, LiveObserveKept, LiveResolveKept, LiveSettleKept, PlanKept, CallKept, AnswerKept, OthersKept
DEF Live!Next, Live!Advance

LEMMA LiveAlways == ProvidersSpec => []LiveInv
<1>1. LiveInv /\ [ProvidersNext]_providersVars => LiveInv'
  BY Steps, LiveKept
<1> QED
  BY LiveBegins, <1>1, PTL DEF ProvidersSpec

LEMMA LiveSound ==
  ASSUME LiveInv
  PROVE  /\ Live!TypeOK /\ Live!PlacedOnEvidence /\ Live!FailuresStayAlone
         /\ Live!TokensGoHome /\ Live!AcceptedCallsFit /\ Live!WorkIsDoneOnce
<1>1. Live!PlacedOnEvidence
  <2> SUFFICES ASSUME NEW s \in Stages, NEW t \in candidates[s]
               PROVE  /\ t \in DOMAIN seen
                      /\ liveRequest.op[s] \in liveRequest.bound[t] /\ liveRequest.model[t][liveRequest.op[s]] \in seen[t].models
                      /\ \A c \in liveRequest.needs[s] :
                           \E o \in liveRequest.bound[t] : c \in liveRequest.offers[t][o] /\ liveRequest.model[t][o] \in seen[t].models
    BY DEF Live!PlacedOnEvidence
  <2>1. t \in Live!Eligible(s) /\ DOMAIN probe = Live!Bound
    BY DEF LiveInv, PlanInv
  <2>2. /\ t \in DOMAIN seen /\ state[t] = Live!Report(t, seen[t].models)
        /\ liveRequest.op[s] \in liveRequest.bound[t] /\ liveRequest.model[t][liveRequest.op[s]] \in seen[t].models
    BY <2>1, EligibleAnswered
  <2>3. liveRequest.needs[s] \subseteq state[t].capabilities
    BY <2>1 DEF Live!Eligible
  <2> QED
    BY <2>2, <2>3 DEF Live!Report, Live!Present
<1>2. Live!FailuresStayAlone
  <2> SUFFICES ASSUME code = "no_eligible_target"
               PROVE  \E s \in Stages : \A t \in liveRequest.permitted[s] \cap DOMAIN seen :
                        ~(/\ liveRequest.op[s] \in liveRequest.bound[t]
                          /\ liveRequest.model[t][liveRequest.op[s]] \in seen[t].models
                          /\ liveRequest.needs[s] \subseteq liveRequest.offers[t][liveRequest.op[s]])
    BY DEF Live!FailuresStayAlone
  <2>1. DOMAIN probe = Live!Bound /\ Live!BindingsMatch
    BY FlawIsNone DEF LiveInv, AskedInv
  <2>2. PICK s \in Stages : Live!Eligible(s) = {}
    BY DEF LiveInv, PlanInv
  <2>3. ASSUME NEW t \in liveRequest.permitted[s] \cap DOMAIN seen,
               liveRequest.op[s] \in liveRequest.bound[t],
               liveRequest.model[t][liveRequest.op[s]] \in seen[t].models,
               liveRequest.needs[s] \subseteq liveRequest.offers[t][liveRequest.op[s]]
        PROVE  FALSE
    <3> DEFINE o == liveRequest.op[s]
    <3>1. t \in Live!Bound /\ state[t] = Live!Report(t, seen[t].models)
      BY DEF LiveInv, AskedInv
    <3>2. o \in Live!Present(t, seen[t].models)
      BY <2>3 DEF Live!Present
    <3>3. state[t].healthy /\ o \in state[t].operations /\ liveRequest.needs[s] \subseteq state[t].capabilities
      BY <2>3, <3>1, <3>2 DEF Live!Report
    <3>4. liveRequest.needs[s] \subseteq liveRequest.configured[t]
      BY <2>1, <2>3, <3>1 DEF Live!BindingsMatch
    <3>5. t \in Live!Eligible(s)
      BY <3>1, <3>3, <3>4 DEF Live!Eligible
    <3> QED
      BY <2>2, <3>5
  <2> QED
    BY <2>3
<1>3. Live!AcceptedCallsFit
  BY DEF LiveInv, PlanInv, Live!AcceptedCallsFit
<1>4. Live!WorkIsDoneOnce
  <2>1. \A X : Live!Cardinality(X) = Cardinality(X)
    BY DEF Live!Cardinality, Cardinality, Live!IsFiniteSet, IsFiniteSet
  <2>2. ASSUME NEW s \in Stages
        PROVE  Live!Cardinality(worked[s]) <= 1 /\ worked[s] \subseteq candidates[s]
    <3>1. worked[s] \subseteq candidates[s] /\ (worked[s] = {} \/ \E t \in Targets : worked[s] = {t})
      BY DEF LiveInv, WorkInv
    <3>2. Cardinality({}) = 0 /\ \A t \in Targets : Cardinality({t}) = 1
      BY FS_EmptySet, FS_Singleton
    <3>3. Cardinality(worked[s]) <= 1
      BY <3>1, <3>2
    <3> QED
      BY <2>1, <3>1, <3>3
  <2> QED
    BY <2>2 DEF LiveInv, WorkInv, Live!WorkIsDoneOnce
<1> QED
  BY <1>1, <1>2, <1>3, <1>4 DEF LiveInv

LEMMA LiveEvidence == ProvidersSpec => Live!EvidenceIsRecent
<1>1. ASSUME LiveInv, Live!Next \/ UNCHANGED liveVars, livePhase = "probing", livePhase' = "planned"
      PROVE  \A t \in DOMAIN seen : observedAt <= seen[t].when /\ clock < seen[t].when + Ttl /\ clock < observedAt + Ttl
  <2>1. Live!Plan
    BY <1>1 DEF Live!Next, Live!Advance, Live!Refuse, Live!Fail, Live!Observe, Live!Resolve, Live!Settle, Live!Call,
                Live!Answer, Live!Tick, Live!EnvironmentChanges, Live!CallerChanges, Live!Others, liveVars
  <2>2. ~(clock >= observedAt + Ttl)
    BY <1>1, <2>1 DEF Live!Plan, Live!Fail, Live!Expired, Live!Stamp
  <2>3. clock \in Nat /\ observedAt \in Nat /\ Ttl \in Nat
    BY <1>1, LiveConstants DEF LiveInv, Live!TypeOK
  <2>4. \A t \in DOMAIN seen : seen[t].when \in observedAt..clock
    BY <1>1 DEF LiveInv, AskedInv
  <2> QED
    BY <2>2, <2>3, <2>4
<1>2. LiveInv /\ [ProvidersNext]_providersVars =>
        [livePhase = "probing" /\ livePhase' = "planned" =>
           \A t \in DOMAIN seen : observedAt <= seen[t].when /\ clock < seen[t].when + Ttl /\ clock < observedAt + Ttl]_Live!vars
  BY Steps, <1>1
<1> QED
  BY LiveAlways, <1>2, PTL DEF ProvidersSpec, Live!EvidenceIsRecent

-------------------------------------------------------------------------------
(* The components together.                                                  *)

\* An operation is qualified only by an answer of its own qualifier that fits,
\* whatever the order in which workers, timers and resolvers act; each target
\* and operation is asked about once (runRuntimeQualification and the
\* qualify() of the shipped qualifier).
THEOREM QualifiedEarned == ProvidersSpec => []QualifiedIsEarned
<1>1. QualificationInv /\ QualifierInv => QualifiedIsEarned
  BY QualificationSound, QualifierSound DEF QualifiedIsEarned
<1> QED
  BY QualificationAlways, QualifierAlways, <1>1, PTL

\* A stage of a live run is placed on what its target itself reported, its token
\* goes to the one it is for, and one target at most does its work
\* (runLiveStageGraph).
THEOREM LiveRunSound == ProvidersSpec => []LiveRunIsSound
<1>1. LiveInv => LiveRunIsSound
  BY LiveSound DEF LiveRunIsSound
<1> QED
  BY LiveAlways, <1>1, PTL

\* A response of the bounded fetch is of the URL that was checked, whole and
\* within its limit, and an error is named for what ended the call first
\* (boundedFetch).
THEOREM FetchesSound == ProvidersSpec => []FetchIsSound
<1>1. FetchInv => FetchIsSound
  BY FetchSound DEF FetchIsSound
<1> QED
  BY FetchAlways, <1>1, PTL

\* What the guard clears was seen whole, for any values, cyclic and shared ones
\* too, and what it refuses has the reason; and the gate permits exactly the
\* output whose receipt it checked (SensitiveDataGuard, BrowserEgressGate).
THEOREM GuardsTrue == ProvidersSpec => []GuardsAreTrue
<1>1. GuardInv /\ GateInv => GuardsAreTrue
  BY GuardSound, PermitsAreExact DEF GuardsAreTrue
<1> QED
  BY GuardAlways, GateAlways, <1>1, PTL

\* What comes after a deadline, a timeout or an abort changes no result, sends
\* nothing and is not read, and no plan is made on an observation that is older
\* than its time to live.
THEOREM LateAnswers == ProvidersSpec => LateAnswersChangeNothing
BY QualificationStops, QualifierStops, FetchStops, LiveEvidence DEF LateAnswersChangeNothing

-------------------------------------------------------------------------------
(* The classifier over one pipeline.                                         *)

\* There is a pipeline, loading or not, once the factory was called, and then
\* it is not called again.
LoadInv == loads <= 1 /\ (pipeline = "none" => loads = 0)

\* dispose() goes past the loading only when the loading has settled, waits for
\* all that is running then, and leaves that wait with nothing running.
DisposalInv ==
  /\ disposed /\ pipeline = "loading" => disposal = "loading"
  /\ disposal = "waiting" => running \subseteq awaited
  /\ FreedWhenIdle

IInv == TypeOK /\ LoadInv /\ DisposalInv

-------------------------------------------------------------------------------

LEMMA InitIsGood == Init => IInv
<1> SUFFICES ASSUME Init
             PROVE  IInv
  OBVIOUS
<1>1. TypeOK
  BY DEF Init, TypeOK, Answers, Outcomes
<1>2. LoadInv /\ DisposalInv
  BY DEF Init, LoadInv, DisposalInv, FreedWhenIdle
<1> QED
  BY <1>1, <1>2 DEF IInv

LEMMA TypeIsKept == TypeOK /\ [Next]_vars => TypeOK'
<1> SUFFICES ASSUME TypeOK, [Next]_vars
             PROVE  TypeOK'
  OBVIOUS
<1> USE DEF TypeOK, Answers, Outcomes, End
<1>1. ASSUME NEW c \in Calls, Classify(c)
      PROVE  TypeOK'
  BY <1>1 DEF Classify, Load, NeedsPipeline
<1>2. CASE LoadSettles
  BY <1>2 DEF LoadSettles
<1>3. ASSUME NEW c \in Calls, Resume(c)
      PROVE  TypeOK'
  BY <1>3 DEF Resume
<1>4. ASSUME NEW c \in Calls, InferenceSettles(c)
      PROVE  TypeOK'
  BY <1>4 DEF InferenceSettles
<1>5. ASSUME NEW c \in Calls, Finish(c)
      PROVE  TypeOK'
  BY <1>5 DEF Finish, OutcomeOf
<1>6. ASSUME NEW c \in Calls, Abort(c)
      PROVE  TypeOK'
  BY <1>6 DEF Abort
<1>7. CASE Dispose
  BY <1>7 DEF Dispose
<1>8. CASE DisposeLoaded
  BY <1>8 DEF DisposeLoaded, Pending
<1>9. CASE Free \/ Freed
  BY <1>9 DEF Free, Freed
<1>10. CASE UNCHANGED vars
  BY <1>10 DEF vars
<1> QED
  BY <1>1, <1>2, <1>3, <1>4, <1>5, <1>6, <1>7, <1>8, <1>9, <1>10 DEF Next, Advance

\* Only Classify calls the factory, and only where there is no pipeline yet.
LEMMA LoadingIsOnce == TypeOK /\ LoadInv /\ [Next]_vars => LoadInv'
<1> SUFFICES ASSUME TypeOK, LoadInv, [Next]_vars
             PROVE  LoadInv'
  OBVIOUS
<1> USE DEF TypeOK, LoadInv
<1>1. ASSUME NEW c \in Calls, Classify(c)
      PROVE  LoadInv'
  BY <1>1 DEF Classify, Load, NeedsPipeline
<1>2. CASE LoadSettles
  BY <1>2 DEF LoadSettles
<1>3. ASSUME NEW c \in Calls, Resume(c) \/ InferenceSettles(c) \/ Finish(c) \/ Abort(c)
      PROVE  LoadInv'
  BY <1>3 DEF Resume, InferenceSettles, Finish, Abort
<1>4. CASE Dispose \/ DisposeLoaded \/ Free \/ Freed
  BY <1>4 DEF Dispose, DisposeLoaded, Free, Freed
<1>5. CASE UNCHANGED vars
  BY <1>5 DEF vars
<1> QED
  BY <1>1, <1>2, <1>3, <1>4, <1>5 DEF Next, Advance

LEMMA DisposalIsInOrder == IInv /\ [Next]_vars => DisposalInv'
<1> SUFFICES ASSUME IInv, [Next]_vars
             PROVE  DisposalInv'
  OBVIOUS
<1> USE DEF IInv, TypeOK, DisposalInv, FreedWhenIdle
<1>1. ASSUME NEW c \in Calls, Classify(c)
      PROVE  DisposalInv'
  BY <1>1 DEF Classify, Load, NeedsPipeline
<1>2. CASE LoadSettles
  BY <1>2 DEF LoadSettles
<1>3. ASSUME NEW c \in Calls, Resume(c)
      PROVE  DisposalInv'
  BY <1>3 DEF Resume
<1>4. ASSUME NEW c \in Calls, InferenceSettles(c)
      PROVE  DisposalInv'
  BY <1>4 DEF InferenceSettles
<1>5. ASSUME NEW c \in Calls, Finish(c) \/ Abort(c)
      PROVE  DisposalInv'
  BY <1>5 DEF Finish, Abort
<1>6. CASE Dispose
  BY <1>6 DEF Dispose
<1>7. CASE DisposeLoaded
  BY <1>7 DEF DisposeLoaded, Pending
<1>8. CASE Free \/ Freed
  BY <1>8 DEF Free, Freed
<1>9. CASE UNCHANGED vars
  BY <1>9 DEF vars
<1> QED
  BY <1>1, <1>2, <1>3, <1>4, <1>5, <1>6, <1>7, <1>8, <1>9 DEF Next, Advance

LEMMA IInvHolds == Spec => []IInv
<1>1. IInv /\ [Next]_vars => IInv'
  BY TypeIsKept, LoadingIsOnce, DisposalIsInOrder DEF IInv
<1> QED
  BY InitIsGood, <1>1, PTL DEF Spec

-------------------------------------------------------------------------------

\* Every variable keeps its type; a call that infers has its inference in a
\* loaded pipeline.
THEOREM TypeCorrect == Spec => []TypeOK
<1>1. IInv => TypeOK
  BY DEF IInv
<1> QED
  BY IInvHolds, <1>1, PTL

\* #getPipeline calls the factory once, however many calls come first.
THEOREM LoadedOnce == Spec => []OneLoad
<1>1. IInv => OneLoad
  BY DEF IInv, LoadInv, OneLoad
<1> QED
  BY IInvHolds, <1>1, PTL

\* #disposePipeline frees a pipeline in which nothing is running, not even the
\* inferences of calls aborted long ago.
THEOREM FreedIdle == Spec => []FreedWhenIdle
<1>1. IInv => FreedWhenIdle
  BY DEF IInv, DisposalInv
<1> QED
  BY IInvHolds, <1>1, PTL

\* After dispose() no inference begins and no model is loaded: classify() looks
\* again once it has the pipeline.
THEOREM NothingBegins == Spec => NothingBeginsAfterwards
<1>1. [Next]_vars => [disposed => running' \subseteq running /\ loads' = loads]_vars
  <2> SUFFICES ASSUME Next, disposed
               PROVE  running' \subseteq running /\ loads' = loads
    OBVIOUS
  <2>1. ASSUME NEW c \in Calls, Classify(c)
        PROVE  running' \subseteq running /\ loads' = loads
    BY <2>1 DEF Classify
  <2>2. ASSUME NEW c \in Calls, Resume(c) \/ InferenceSettles(c) \/ Finish(c) \/ Abort(c)
        PROVE  running' \subseteq running /\ loads' = loads
    BY <2>2 DEF Resume, InferenceSettles, Finish, Abort
  <2>3. CASE LoadSettles \/ Dispose \/ DisposeLoaded \/ Free \/ Freed
    BY <2>3 DEF LoadSettles, Dispose, DisposeLoaded, Free, Freed
  <2> QED
    BY <2>1, <2>2, <2>3 DEF Next, Advance
<1> QED
  BY <1>1, PTL DEF Spec, NothingBeginsAfterwards

\* A call whose signal is aborted under way is not answered with spans: the
\* signal is looked at before the answer is.
THEOREM AbortedUnanswered == Spec => AbortedIsNotAnswered
<1> DEFINE Unanswered == \A c \in Calls : call'[c] = "spans" /\ call[c] # "spans" => c \notin aborted
<1>1. TypeOK /\ [Next]_vars => [Unanswered]_vars
  <2> SUFFICES ASSUME TypeOK, Next, NEW c \in Calls, call'[c] = "spans", call[c] # "spans"
               PROVE  c \notin aborted
    OBVIOUS
  <2> USE DEF TypeOK, End
  <2>1. ASSUME NEW d \in Calls, Classify(d)
        PROVE  c \notin aborted
    BY <2>1 DEF Classify
  <2>2. ASSUME NEW d \in Calls, Finish(d)
        PROVE  c \notin aborted
    BY <2>2 DEF Finish
  <2>3. ASSUME NEW d \in Calls, Resume(d) \/ InferenceSettles(d) \/ Abort(d)
        PROVE  c \notin aborted
    BY <2>3 DEF Resume, InferenceSettles, Abort, Answers
  <2>4. CASE LoadSettles \/ Dispose \/ DisposeLoaded \/ Free \/ Freed
    BY <2>4 DEF LoadSettles, Dispose, DisposeLoaded, Free, Freed
  <2> QED
    BY <2>1, <2>2, <2>3, <2>4 DEF Next, Advance
<1> QED
  BY TypeCorrect, <1>1, PTL DEF Spec, AbortedIsNotAnswered
===============================================================================
