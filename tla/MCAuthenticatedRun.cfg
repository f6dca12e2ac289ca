CONSTANTS
  r1 = r1
  r2 = r2
  late = late
  p1 = p1
  ch1 = ch1
  ch2 = ch2
  Runs <- MCRuns
  PlanOnly = {p1}
  Challenges <- MCChallenges
  Evidence <- MCEvidence
  EvidenceOf <- MCEvidenceOf
  Targets <- MCTargets
  Skew = 1
  MaxAge = 1
  MaxTtl = 3
  DirectoryFsync = TRUE
  PowerLossPossible = TRUE
  MaxTime = 3
SPECIFICATION MCSpec
INVARIANTS
  ExecutedAtTheFence
  BurnedBehindTheFence
  BurnedNotInVain
PROPERTIES
  ExecutionsSpec
CHECK_DEADLOCK FALSE
