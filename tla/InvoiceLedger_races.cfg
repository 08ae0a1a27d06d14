SPECIFICATION Spec
CONSTANTS
  i1 = i1
  i2 = i2
  p1 = p1
  p2 = p2
  c1 = c1
  Null = Null
  Invoices <- TwoInvoices
  Payments <- TwoPayments
  Clerks <- OneClerk
  Totals <- MCTotals
  MaxAmount = 2
SYMMETRY Symmetry
INVARIANTS
  NoOverpayment
  BalanceIsRemainder
  PaidIsSettled
  AllocationsMatch
PROPERTIES
  BalanceOnlyRepaired
  ImplementsAccount
