CONSTANTS
  MaxSelected = 2
  Skew = 1
  Header = 1
  Joint = 1
  Sizes = {1, 2}
  PageCounts = {1, 2}
  CallTimeout = 4
  TotalTimeout = 5
  Grain = 2
  Lag = 1
  Horizon = 9
  MaxCalls = 9
  MaxResponse = 9
  MaxParts = 2
  MaxStructure = 4
  MaxPagesPerSource = 2
  MaxPages = 3
  MaxText = 4
  MaxEgress = 6
  MaxEvidence = 2
  RequestBytes = 3
  ChainRequests <- MCRequests
  ChainPlacements <- MCPlacements
  ChainEvaluations <- MCEvaluations
  ForeignRetrievals <- MCRetrievals
  ReasonerAnswers <- MCAnswers
  Frozen <- MCFrozen
  FrozenSources <- MCFrozenSources
  Listed <- MCListed
  SelectorAnswers <- MCSelections
SPECIFICATION RetrievalSpec
INVARIANTS
  CitationsAreEvidence
CHECK_DEADLOCK FALSE
