CONSTANTS
  sec = sec
  reg = reg
  o1 = o1
  o2 = o2
  o3 = o3
  eu = eu
  us = us
  edge = edge
  public = public
  regional = regional
  secret = secret
  gdpr = gdpr
  run = run
  redact = redact
  NoClass = NoClass
  NoZone = NoZone
  NoTarget = 0
  Inputs <- MCInputs
  Outputs <- MCOutputs
  Stages <- MCStages
  Producer <- MCProducer
  Targets <- MCTargets
  Zones <- MCZones
  Classes <- MCClasses
  Residencies = {gdpr}
  Capabilities = {run, redact}
  Requests <- MCRequests
SPECIFICATION Spec
INVARIANTS
  EgressProofsAreTrue
CHECK_DEADLOCK FALSE
