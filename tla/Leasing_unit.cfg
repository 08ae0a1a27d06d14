SPECIFICATION Spec
CONSTANTS
  l1 = l1
  l2 = l2
  q1 = q1
  q2 = q2
  Null = Null
  BaseYear = 2027
  Leases <- MCLeases
  StartsAt <- MCStartsAt
  Prior <- MCPrior
  Asks <- MCAsks
  Requests <- MCRequests
  MaxRequests = 3
INVARIANTS
  OneActiveLease
  PeriodsTile
  PeriodsFollowCalendar
PROPERTIES
  EndMovesBackOnlyInRace
  OccupancyIsExact
CHECK_DEADLOCK FALSE
