CONSTANTS
  w1 = w1
  w2 = w2
  QualifiedTargets <- Three
  QualifiedOperations <- Both
  Workers <- MCWorkers
  QualifierAnswers <- MCQualifierAnswers
  Qualifications <- MCQualifications
  RequestedOperations = {"rewrite", "embed", "answer"}
  QualifierRequests <- MCQualifierRequests
  Configurations <- MCConfigurations
  FetchRequests <- MCFetchRequests
  Responses <- MCResponses
  Targets = {1, 2}
  Operations <- Both
  LiveRequests <- MCLiveRequests
  Values <- MCValues
  Receipts <- MCReceipts
  Models = {"large", "small"}
  Stages = {1, 2}
  Inputs = {0}
  Capabilities = {"fast"}
  Variables = {"KEY"}
  NoVariable = "no variable"
  NoToken = "no token"
  Ttl = 2
  MaxClock = 3
  MaxResponseBytes = 2
  Chunks = {1, 2}
  Nodes = {1, 2, 3, 4}
  Root = 1
  MaxNodes = 7
  MaxDepth = 2
  Rounds = 2
  Decisions = {"d1", "d2"}
  Outputs = {"o1", "o2"}
SPECIFICATION ProvidersSpec
INVARIANTS
  LimitsAreNamed
CHECK_DEADLOCK FALSE
