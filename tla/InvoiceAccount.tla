--------------------------- MODULE InvoiceAccount ---------------------------
(***************************************************************************)
(* What the ledger promises about the money of an invoice, with statuses,  *)
(* stored balances, archives and concurrent clerks left out.               *)
(***************************************************************************)
EXTENDS Integers

CONSTANTS Invoices, Totals

VARIABLES
  total,     \* what was billed
  credited,  \* by credit notes
  received   \* by payments

vars == <<total, credited, received>>

Left(i) == total[i] - credited[i] - received[i]

Init ==
  /\ total = [i \in Invoices |-> 0]
  /\ credited = [i \in Invoices |-> 0]
  /\ received = [i \in Invoices |-> 0]

(* An account is billed once, before anything else happens to it. *)
Bill(i, t) ==
  /\ total[i] = 0 /\ credited[i] = 0 /\ received[i] = 0
  /\ total' = [total EXCEPT ![i] = t]
  /\ UNCHANGED <<credited, received>>

Credit(i, n) ==
  /\ n <= Left(i)
  /\ credited' = [credited EXCEPT ![i] = @ + n]
  /\ UNCHANGED <<total, received>>

(* One payment is received on one or several accounts, on each within what is left. *)
Receive ==
  /\ received' = [i \in Invoices |-> received'[i]]
  /\ \A i \in Invoices : received[i] <= received'[i] /\ received'[i] - received[i] <= Left(i)
  /\ UNCHANGED <<total, credited>>

(* Credit amounts are at most what is left: the bound leaves none out. *)
Next ==
  \/ \E i \in Invoices, t \in Totals : Bill(i, t)
  \/ \E i \in Invoices : \E n \in 1..Left(i) : Credit(i, n)
  \/ Receive

Spec == Init /\ [][Next]_vars

=============================================================================
