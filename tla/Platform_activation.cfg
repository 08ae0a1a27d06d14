SPECIFICATION Spec
CONSTANTS
  q1 = q1
  q2 = q2
  q3 = q3
  e1 = e1
  e2 = e2
  m1 = m1
  m2 = m2
  r1 = r1
  r2 = r2
  p1 = p1
  p2 = p2
  a1 = a1
  s1 = s1
  s2 = s2
  LOW = LOW
  HIGH = HIGH
  System = System
  Null = Null
  Nothing = Nothing
  Absent = Absent
  Idle = Idle
  Requests <- MCRequests
  MaxVersion = 4
  Editors <- MCEditors
  Values <- MCValues
  MaxEdits = 4
  Members <- MCMembers
  Roles <- MCRoles
  Properties <- MCProperties
  Owned <- MCOwned
  Prior <- MCPrior
  Asks <- MCAsks
  Callers <- MCCallers
  MaxRequests = 3
  Addresses <- MCAddresses
  Subjects <- MCSubjects
  Clients <- MCClients
  AddressLimit = 2
  SubjectLimit = 1
  MaxCount = 3
INVARIANT ActivationIsApproved
CHECK_DEADLOCK FALSE
