SPECIFICATION Spec
CONSTANTS
  s1 = s1
  s2 = s2
  s3 = s3
  s4 = s4
  u1 = u1
  u2 = u2
  r1 = r1
  r2 = r2
  k1 = k1
  Null = Null
  Sessions <- MCSessionIds
  Users <- TwoUsers
  Refreshes <- MCRefreshes
  Sweeps <- MCSweeps
PROPERTY ReuseEndsFamily
