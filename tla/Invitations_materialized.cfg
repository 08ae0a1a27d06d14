SPECIFICATION Spec
CONSTANTS
  i1 = i1
  i2 = i2
  a = a
  b = b
  q1 = q1
  q2 = q2
  Null = Null
  Ids <- MCIds
  Emails <- MCEmails
  Requests <- MCRequests
INVARIANT AcceptedIsMaterialized
