CONSTANTS
  c1 = c1
  c2 = c2
  c3 = c3
  c4 = c4
  ch1 = ch1
  ch2 = ch2
  Consumers <- MCConsumers
  Challenges <- MCChallenges
  ChallengeOf <- MCChallengeOf
  DirectoryFsync = TRUE
  PowerLossPossible = TRUE
SPECIFICATION MCSpec
INVARIANTS
  AdmissionIsDurable
  FreedWhenIdle
PROPERTIES
  PortSpec
  NeverLostToNobody
  AbortsAndDisposalEnd
CHECK_DEADLOCK FALSE
