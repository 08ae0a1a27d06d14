SPECIFICATION FairSpec
CONSTANTS
  t1 = t1
  t2 = t2
  Tabs <- MCTabs
  MaxTokens = 3
  MaxFaults = 1
  MaxCalls = 2
  None = None
INVARIANTS
  RememberFollowsLogin
  TokensAreShown
PROPERTIES
  SessionsAreCarried
  LoadingEnds

