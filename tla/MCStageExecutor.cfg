CONSTANTS
  in = in
  o1 = o1
  p1 = p1
  o2 = o2
  s1 = s1
  s2 = s2
  clean = clean
  raw = raw
  Inputs <- MCInputs
  Outputs <- MCOutputs
  Stages <- MCStages
  Producer <- MCProducer
  Targets = {1, 2}
  NoTarget = 0
  GuardCount = 2
  Contents = {clean, raw}
  Approved = {clean}
  Missing = Missing
  Plans <- MCPlans
SPECIFICATION FairSpec
INVARIANTS
  SentOnlyWhatGuardsSaw
  SameDataEverywhere
  OneEmitterPerStage
  DeclassifiedIsVerified
  StagesCommitWhole
PROPERTIES
  EveryExecutionEnds
CHECK_DEADLOCK FALSE
