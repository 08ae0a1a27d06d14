SPECIFICATION Spec
CONSTANTS
  v1 = v1
  v2 = v2
  v3 = v3
  q1 = q1
  q2 = q2
  Null = Null
  Challenges <- MCChallenges
  Requests <- MCRequests
  MaxAttempts = 2
  MaxResends = 1
  Indexed = TRUE
SYMMETRY Symmetry
INVARIANTS
  OpenHasAttempts
  EnvelopesFollow
PROPERTIES
  CooldownHolds
  ImplementsChallenge
