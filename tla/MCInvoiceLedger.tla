-------------------------- MODULE MCInvoiceLedger --------------------------
(* Instances of InvoiceLedger for TLC. *)
EXTENDS InvoiceLedger, TLC

CONSTANTS i1, i2, p1, p2, c1

TwoInvoices == {i1, i2}
TwoPayments == {p1, p2}
OneClerk == {c1}
MCTotals == {0, 2}

(* Nothing tells one invoice, payment or clerk from another. *)
Symmetry ==
  Permutations(Invoices) \cup Permutations(Payments) \cup Permutations(Clerks)

=============================================================================
