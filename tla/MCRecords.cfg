CONSTANTS
  Targets = {"x", "y"}
  Operations = {"embed", "rewrite"}
  Kinds = {"embedding", "generate-text"}
  EvidenceSets <- MCEvidenceSets
  MaxExchanges = 2
  MaxTime = 9
  StageIds = {"a", "b", "c"}
  RunPlans <- MCRunPlans
  MaxEdits = 2
  MaxPlacements = 2
  MaxAttempts = 2
  MaxTrace = 4
  keeper = keeper
  asker = asker
  Keepers <- MCKeepers
  Askers <- MCAskers
  Foreign = foreign
  Vacant = vacant
  MaxMeddling = 1
  c1 = c1
  c2 = c2
  Calls <- MCCalls
  Texts <- MCTexts
  Policies <- MCPolicies
  Categories <- MCCategories
  Answers <- MCAnswers
SYMMETRY Symmetric
SPECIFICATION MCSpec
INVARIANTS
  AttestationIsSound
  SealedIsARun
  RedactionIsExact
  VouchedForByRescan
PROPERTIES
  CreatedIsOwn
CHECK_DEADLOCK FALSE
