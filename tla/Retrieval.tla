------------------------------- MODULE Retrieval -------------------------------
(***************************************************************************)
(* The context supply chain, whose retrieval is any foreign code, and the  *)
(* PageIndex adapter, which is one such code seen from inside. What the    *)
(* chain sees of an adapter is its answer, so there is nothing to          *)
(* interleave: in each behaviour one of them acts, and the other stays as  *)
(* it began.                                                               *)
(***************************************************************************)
EXTENDS Integers, Sequences, FiniteSets

CONSTANTS
  ChainRequests, ChainPlacements, ChainEvaluations, ForeignRetrievals,           \* ContextSupplyChain
  ReasonerAnswers, Frozen, FrozenSources, MaxSelected, Skew, Header, Joint,
  Listed, SelectorAnswers, Sizes, PageCounts, CallTimeout, TotalTimeout, Grain,  \* PageIndexRetrieval
  Lag, Horizon, MaxCalls, MaxResponse, MaxParts, MaxStructure, MaxPagesPerSource,
  MaxPages, MaxText, MaxEgress, MaxEvidence, RequestBytes

VARIABLES
  acting,
  \* ContextSupplyChain
  request, placement, evaluation, chainAt, evaluatedAt, retrieved, artifact, shown, reasoning, receipt,
  failure,
  \* PageIndexRetrieval
  sources, pagesAt, now, timer, turn, part, parts, pageCount, chosen, work, evidence, pagesCode, spent

Chain ==
  INSTANCE ContextSupplyChain WITH
    Requests <- ChainRequests, Placements <- ChainPlacements, Evaluations <- ChainEvaluations,
    Retrievals <- ForeignRetrievals, Answers <- ReasonerAnswers, Corpus <- Frozen, at <- chainAt

Pages ==
  INSTANCE PageIndexRetrieval WITH
    SourceLists <- Listed, Selections <- SelectorAnswers, at <- pagesAt, code <- pagesCode

ASSUME RetrievalAssumption == Chain!ChainAssumption /\ Pages!BudgetAssumption

-------------------------------------------------------------------------------

chainVars ==
  <<request, placement, evaluation, chainAt, evaluatedAt, retrieved, artifact, shown, reasoning, receipt,
    failure>>
pagesVars ==
  <<sources, pagesAt, now, timer, turn, part, parts, pageCount, chosen, work, evidence, pagesCode, spent>>
retrievalVars == <<acting, chainVars, pagesVars>>

\* Each begins as it may, if it is to act, and else in one certain way.
RetrievalInit ==
  /\ acting \in {"chain", "pages"}
  /\ Chain!Init /\ (acting # "chain" => /\ request = CHOOSE r \in ChainRequests : TRUE
                                        /\ placement = CHOOSE p \in ChainPlacements : TRUE
                                        /\ evaluation = CHOOSE e \in ChainEvaluations : TRUE)
  /\ Pages!Init /\ (acting # "pages" => sources = CHOOSE l \in Listed : TRUE)

ChainActs(A) == acting = "chain" /\ A /\ UNCHANGED <<acting, pagesVars>>
PagesAct(A) == acting = "pages" /\ A /\ UNCHANGED <<acting, chainVars>>

RetrievalNext == ChainActs(Chain!Next) \/ PagesAct(Pages!Next)

\* The adapter's fairness, as it states it: time goes on and timers are served.
RetrievalSpec ==
  /\ RetrievalInit /\ [][RetrievalNext]_retrievalVars
  /\ WF_retrievalVars(PagesAct(Pages!Execute)) /\ WF_retrievalVars(PagesAct(Pages!Tick))
  /\ WF_retrievalVars(PagesAct(Pages!Timer))

-------------------------------------------------------------------------------

\* Only what is public leaves; an artifact is evidence of the request's own
\* sources, of a window they all share, within the request's budgets; and the
\* receipt accounts for just that, whatever retrieval and reasoner do.
ChainIsAccounted ==
  /\ Chain!TypeOK /\ Chain!OnlyPublicLeaves /\ Chain!EvidenceIsOfRequest
  /\ Chain!WindowIsCommon /\ Chain!ContextFits /\ Chain!ReceiptIsTrue

\* What the threat model says of an answer (docs/threat-model.md:77): it cites
\* only what is in the verified artifact. The reason stage compares with the
\* object it lent to the reasoner, which may have written to it.
CitationsAreEvidence == Chain!CitationsAreOfArtifact

\* All calls of all sources spend one budget; a call is waited for no longer
\* than the deadline, but for the grain and lag of timers; and a result holds
\* exactly the pages selected, source by source, none missing.
RetrievalIsWhole ==
  Pages!TypeOK /\ Pages!WorkIsGlobal /\ Pages!OverInTime /\ Pages!EvidenceIsWhole

\* A retrieval is over when its deadline is, whoever never answers; and what it
\* returns is complete by the deadline itself.
RetrievalEndsInTime == Pages!CompleteInTime /\ (acting = "pages" => Pages!RetrievalEnds)
==============================================================================
