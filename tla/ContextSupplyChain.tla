------------------------- MODULE ContextSupplyChain -------------------------
(***************************************************************************)
(* One runContextSupplyChain() (composition/context-supply-chain.ts over   *)
(* domain/context-supply-chain.ts): a sealed request is evaluated at one   *)
(* instant, planned over a local target and perhaps an external one for    *)
(* its retrieval, and executed in four stages: classify, retrieve,         *)
(* assemble and reason; a receipt accounts for all of it.                  *)
(*                                                                         *)
(* Planner and StageExecutor say what placement and execution guarantee.   *)
(* Here the plan is what the planner makes of this one graph, and every    *)
(* stage reads the values the executor keeps. Retrieval and reasoner are   *)
(* foreign code.                                                           *)
(***************************************************************************)
EXTENDS Integers, Sequences, SequencesExt, FiniteSetsExt

CONSTANTS
  Requests, Placements, Evaluations,
  Retrievals,     \* what an external adapter may return
  Answers,        \* what a reasoner may answer
  Corpus,         \* the frozen evidence
  FrozenSources, MaxSelected, Skew, Header, Joint

Classifications == <<"public", "internal", "restricted">>
Rank(c) == CHOOSE i \in 1..3 : Classifications[i] = c
MinTrust == [public |-> 0, internal |-> 2, restricted |-> 3]

\* What a request's schema accepts.
WellFormed(r) ==
  /\ r.sources # {} /\ \A s, t \in r.sources : s.id = t.id => s = t
  /\ \A s \in r.sources : s.observed <= r.requestedAt /\ r.requestedAt < s.expires
  /\ \A s \in r.sources : s.expires \in Nat /\ s.classification \in Range(Classifications)
  /\ r.classification \in Range(Classifications)
  /\ r.maxContext < r.maxTotal

\* Genuine: with the digests, classification and date of its source.
Piece == [locator : Nat, source : Nat, bytes : Nat, genuine : BOOLEAN]

ChainAssumption ==
  /\ {Header, Joint, Skew} \subseteq Nat /\ MaxSelected \in Nat \ {0}
  /\ Corpus \subseteq Piece /\ \A e, f \in Corpus : e.locator = f.locator => e = f
  /\ \A r \in Retrievals : r.evidence \in Seq(Piece)
  /\ \A a \in Answers : a.citations \in Seq(Nat)
  /\ \A r \in Requests : WellFormed(r)

VARIABLES
  request, placement, evaluation,   \* the options of the call
  at,            \* the stage at work, or "idle", "returned", "failed"
  evaluatedAt,   \* the instant of the run
  retrieved,     \* the value of the retrieve stage
  artifact,      \* the value of the assemble stage
  shown,         \* the object the reasoner was given, which it may change
  reasoning,     \* the value of the reason stage
  receipt,
  failure

vars == <<request, placement, evaluation, at, evaluatedAt, retrieved, artifact, shown, reasoning, receipt, failure>>

Nothing == [evidence |-> <<>>]

TypeOK ==
  /\ request \in Requests /\ placement \in Placements /\ evaluation \in Evaluations
  /\ at \in {"idle", "classify", "retrieve", "assemble", "reason", "reasoning", "sealing", "returned", "failed"}
  /\ (failure # "none") <=> (at = "failed")
  /\ artifact # Nothing => at \in {"reason", "reasoning", "sealing", "returned", "failed"}
  /\ (receipt # Nothing) <=> (at = "returned")
  /\ reasoning.citations \in Seq(Nat)

-------------------------------------------------------------------------------

Tokens(bytes) == Max({1, (bytes + 3) \div 4})
Total(numbers) == FoldLeft(LAMBDA a, b : a + b, 0, numbers)

\* "[E1] locator" and the content, for each piece, with a blank line between.
ContextBytes(evidence) ==
  Total([i \in DOMAIN evidence |-> Header + evidence[i].bytes]) + Joint * (Len(evidence) - 1)

Effective(r) ==
  Classifications[Max({Rank(r.classification)} \cup {Rank(s.classification) : s \in r.sources})]

Earliest(r) == Min({s.expires : s \in r.sources})
Fresh(r, instant) == \A s \in r.sources : s.observed <= instant /\ instant < s.expires

External == placement.external

\* What the planner makes of the graph: only context-local may hold what is
\* not public, and the retrieval's zone must have all of the residencies.
Placeable ==
  External =>
    /\ Effective(request) = "public" /\ placement.trust >= MinTrust[Effective(request)]
    /\ request.residencies \subseteq placement.residencies

-------------------------------------------------------------------------------

Init ==
  /\ request \in Requests /\ placement \in Placements /\ evaluation \in Evaluations
  /\ at = "idle" /\ evaluatedAt = 0 /\ failure = "none"
  /\ retrieved = Nothing /\ artifact = Nothing /\ shown = Nothing /\ receipt = Nothing
  /\ reasoning = [citations |-> <<>>, bytes |-> 0]

Fail(why) == at' = "failed" /\ failure' = why

Invalid == evaluation.given \notin SUBSET {"evaluatedAt"} \cup SUBSET {"clock"} \/ ~evaluation.valid
FromFuture == request.requestedAt > evaluation.instant + Skew

\* Parsing, the instant of the run, and the plan.
Run ==
  /\ at = "idle"
  /\ \/ ~request.sealed /\ Fail("context_request_digest_mismatch")
     \/ request.sealed /\ Invalid /\ Fail("context_evaluated_at_invalid")
     \/ request.sealed /\ ~Invalid /\ FromFuture /\ Fail("context_request_from_future")
     \/ /\ request.sealed /\ ~Invalid /\ ~FromFuture /\ ~Fresh(request, evaluation.instant)
        /\ Fail("context_source_not_fresh")
     \/ /\ request.sealed /\ ~Invalid /\ ~FromFuture /\ Fresh(request, evaluation.instant)
        /\ \/ External /\ placement.local /\ Fail("context_retrieval_placement_invalid")
           \/ ~(External /\ placement.local) /\ ~Placeable /\ Fail("no_eligible_target")
           \/ ~(External /\ placement.local) /\ Placeable /\ at' = "classify" /\ UNCHANGED failure
  /\ evaluatedAt' = evaluation.instant
  /\ UNCHANGED <<request, placement, evaluation, retrieved, artifact, shown, reasoning, receipt>>

\* The stage validates the request it is given: the executor's copy of the one
\* that was planned.
Classify ==
  /\ at = "classify" /\ at' = "retrieve"
  /\ UNCHANGED <<request, placement, evaluation, evaluatedAt, retrieved, artifact, shown, reasoning, receipt, failure>>

\* The frozen evidence goes by score, then locator.
Score(e) == request.scores[e.locator]
Before(e, f) == Score(e) > Score(f) \/ (Score(e) = Score(f) /\ e.locator < f.locator)
Enough(e) == Score(e) >= 2 /\ \A f \in Corpus : Score(e) >= Score(f) - 1

Spent(pieces) == MapThenSumSet(LAMBDA e : Tokens(e.bytes), pieces)

\* Each piece in its turn is taken if it scores near the best, and its content's
\* tokens still fit with those of the ones taken before.
Selected(found) ==
  /\ \A i, j \in DOMAIN found : i < j => Before(found[i], found[j])
  /\ \A e \in Corpus :
       LET ahead == {f \in Range(found) : Before(f, e)} IN
       e \in Range(found) <=>
         /\ Enough(e) /\ Cardinality(ahead) < MaxSelected
         /\ Spent(ahead) + Tokens(e.bytes) <= request.maxContext

RetrieveLocally ==
  /\ at = "retrieve" /\ ~External
  /\ \E found \in UNION {[1..n -> Corpus] : n \in 0..MaxSelected} :
       /\ Selected(found)
       /\ \/ /\ request.adapter = "deterministic" /\ request.sources = FrozenSources /\ found # <<>>
             /\ at' = "assemble" /\ UNCHANGED failure
             /\ retrieved' = [evidence |-> found, egress |-> 0, adapter |-> request.adapter]
          \/ /\ request.adapter # "deterministic" \/ request.sources # FrozenSources \/ found = <<>>
             /\ Fail("adapter_failure") /\ UNCHANGED retrieved
  /\ UNCHANGED <<request, placement, evaluation, evaluatedAt, artifact, shown, reasoning, receipt>>

RetrieveOutside ==
  /\ at = "retrieve" /\ External
  /\ \/ retrieved' \in Retrievals /\ at' = "assemble" /\ UNCHANGED failure
     \/ Fail("adapter_failure") /\ UNCHANGED retrieved
  /\ UNCHANGED <<request, placement, evaluation, evaluatedAt, artifact, shown, reasoning, receipt>>

\* A piece is of a requested source, as it was sealed into the request.
Matches(e) == e.genuine /\ \E s \in request.sources : s.id = e.source

\* What sorting by locator may make of the evidence.
Orders(evidence) ==
  {o \in {[i \in DOMAIN evidence |-> evidence[p[i]]] : p \in Bijection(DOMAIN evidence, DOMAIN evidence)} :
     \A i, j \in DOMAIN o : i < j => o[i].locator <= o[j].locator}

ContextTokens(evidence) == Tokens(ContextBytes(evidence))

Expiry == Earliest(request)

\* What an artifact's schema accepts: no locator twice, no piece of later date.
Sealable(evidence) ==
  /\ \A i, j \in DOMAIN evidence : i # j => evidence[i].locator # evidence[j].locator
  /\ \A i \in DOMAIN evidence, s \in request.sources :
       s.id = evidence[i].source => s.observed <= evaluatedAt /\ s.observed < Expiry

Assemble ==
  /\ at = "assemble"
  /\ \E evidence \in Orders(retrieved.evidence) :
     LET tokens == ContextTokens(evidence)
         good ==
           /\ retrieved.adapter = request.adapter /\ retrieved.egress <= request.maxEgress
           /\ \A i \in DOMAIN evidence : Matches(evidence[i])
           /\ tokens <= request.maxContext /\ Tokens(request.query) + tokens <= request.maxTotal
           /\ Sealable(evidence)
     IN
     \/ /\ good /\ at' = "reason" /\ UNCHANGED failure
        /\ artifact' = [evidence |-> evidence, classification |-> Effective(request),
                        observed |-> evaluatedAt, expires |-> Expiry,
                        bytes |-> ContextBytes(evidence), egress |-> retrieved.egress]
     \/ ~good /\ Fail("adapter_failure") /\ UNCHANGED artifact
  /\ UNCHANGED <<request, placement, evaluation, evaluatedAt, retrieved, shown, reasoning, receipt>>

\* The artifact is parsed and verified; the reasoner is called with the parsed
\* object.
Reason ==
  /\ at = "reason" /\ at' = "reasoning"
  /\ shown' = artifact
  /\ UNCHANGED <<request, placement, evaluation, evaluatedAt, retrieved, artifact, reasoning, receipt, failure>>

\* The object is the reasoner's as well, until its answer is looked at.
ReasonerChanges ==
  /\ at = "reasoning"
  /\ \E e \in Corpus : shown' = [shown EXCEPT !.evidence = Append(@, e)] /\ Len(shown.evidence) < 3
  /\ UNCHANGED <<request, placement, evaluation, at, evaluatedAt, retrieved, artifact, reasoning, receipt, failure>>

Locators(a) == {a.evidence[i].locator : i \in DOMAIN a.evidence}

Cites(answer) == IsInjective(answer.citations) /\ Range(answer.citations) \subseteq Locators(shown)

Answer ==
  /\ at = "reasoning"
  /\ \E answer \in Answers :
       \/ /\ answer.bytes > 0 /\ Cites(answer) /\ Tokens(answer.bytes) <= request.maxOutput
          /\ reasoning' = answer /\ at' = "sealing" /\ UNCHANGED failure
       \/ /\ answer.bytes = 0 \/ ~Cites(answer) \/ Tokens(answer.bytes) > request.maxOutput
          /\ Fail("adapter_failure") /\ UNCHANGED reasoning
  /\ UNCHANGED <<request, placement, evaluation, evaluatedAt, retrieved, artifact, shown, receipt>>

\* Faulty: the receipt is of what the reasoner was working on.
AccountedShown == shown

Accounted == artifact

\* The execution is over: its artifact is verified and the receipt sealed.
Seal ==
  /\ at = "sealing" /\ at' = "returned"
  /\ LET context == ContextTokens(Accounted.evidence) IN
     receipt' =
       [artifact |-> Accounted, egress |-> Accounted.egress,
        query |-> Tokens(request.query), context |-> context, input |-> Tokens(request.query) + context,
        output |-> Tokens(reasoning.bytes)]
  /\ UNCHANGED <<request, placement, evaluation, evaluatedAt, retrieved, artifact, shown, reasoning, failure>>

Next ==
  \/ Run \/ Classify \/ RetrieveLocally \/ RetrieveOutside \/ Assemble
  \/ Reason \/ ReasonerChanges \/ Answer \/ Seal

Spec == Init /\ [][Next]_vars

-------------------------------------------------------------------------------

\* An external adapter is given the request only when neither the query nor any
\* requested source is more than public, and its zone has every residency.
OnlyPublicLeaves ==
  at = "retrieve" /\ External =>
    /\ request.classification = "public" /\ \A s \in request.sources : s.classification = "public"
    /\ request.residencies \subseteq placement.residencies /\ ~placement.local

\* An artifact holds, once each and in order, only evidence of the request's
\* sources as they were sealed into it.
EvidenceIsOfRequest ==
  artifact # Nothing =>
    /\ \A i, j \in DOMAIN artifact.evidence :
         i < j => artifact.evidence[i].locator < artifact.evidence[j].locator
    /\ \A i \in DOMAIN artifact.evidence :
         artifact.evidence[i].genuine /\ \E s \in request.sources : s.id = artifact.evidence[i].source

\* An artifact's window holds the instant of the run and lies within the window
\* of every source of the request.
WindowIsCommon ==
  artifact # Nothing =>
    /\ artifact.observed = evaluatedAt /\ evaluatedAt < artifact.expires
    /\ \A s \in request.sources : s.observed <= artifact.observed /\ artifact.expires <= s.expires

\* The context as it is assembled, headers and all, keeps the request's budgets.
ContextFits ==
  artifact # Nothing =>
    LET tokens == Tokens(artifact.bytes) IN
    /\ tokens <= request.maxContext /\ Tokens(request.query) + tokens <= request.maxTotal
    /\ artifact.egress <= request.maxEgress

\* A receipt accounts for the artifact that is returned with it and the answer
\* made of it, whatever the reasoner did to the object it was given.
ReceiptIsTrue ==
  receipt # Nothing =>
    /\ receipt.artifact = artifact /\ receipt.egress = retrieved.egress
    /\ receipt.context = Tokens(artifact.bytes) /\ receipt.input = receipt.query + receipt.context
    /\ receipt.output = Tokens(reasoning.bytes) /\ receipt.output <= request.maxOutput

\* What docs/threat-model.md:77 says of the reason stage, that it accepts only
\* unique locators present in the verified artifact, and
\* docs/adr/0006-context-supply-chain.md:70-72, by which a citation outside the
\* artifact fails. The code looks citations up in the object the reasoner holds.
CitationsAreOfArtifact ==
  at = "returned" =>
    IsInjective(reasoning.citations) /\ Range(reasoning.citations) \subseteq Locators(artifact)
=============================================================================
