---------------------------- MODULE InvoiceLedger ----------------------------
(***************************************************************************)
(* Invoices, credit notes, payments, advances and refund reservations      *)
(* (apps/api/src/finance).                                                 *)
(*                                                                         *)
(* PaymentService runs every operation in one SERIALIZABLE transaction     *)
(* that updates the rows it decided on: it takes effect at one instant or  *)
(* fails with P2034, so each operation is one action.  InvoiceService      *)
(* reads the invoice and checks it BEFORE its READ COMMITTED transaction,  *)
(* which then writes by id alone: its operations are a Read* step by a     *)
(* clerk and a later Write, between which anything may happen.             *)
(*                                                                         *)
(* Amounts are whole cents.  Left out: invoice, payment and credit-note    *)
(* numbers, receipts, due dates, notes, currencies, DRAFT credit notes     *)
(* (they move no balance) and the authorization of the caller.             *)
(***************************************************************************)
EXTENDS Integers, FiniteSets, Functions

CONSTANTS
  Invoices,   \* rent schedules: the unique index gives each at most one invoice
  Payments,   \* identifiers of payments
  Clerks,     \* requests to InvoiceService in flight
  Null,       \* no archivedFromStatus, no payment, no request in flight
  Totals,     \* the totals an invoice may be created with
  MaxAmount   \* bound: the largest payment entered

ASSUME AmountAssumption ==
  /\ Totals \subseteq Nat
  /\ MaxAmount \in Nat

Statuses ==
  {"DRAFT", "ISSUED", "PARTIALLY_PAID", "PAID", "OVERDUE", "VOID", "ARCHIVED"}
Payable == {"ISSUED", "PARTIALLY_PAID", "OVERDUE"}
Purposes == {"INVOICE", "ADVANCE"}
Amounts == 1..MaxAmount

(* The tables are finite, so that their columns have a total. *)
ASSUME FiniteAssumption == IsFiniteSet(Invoices) /\ IsFiniteSet(Payments)

ASSUME NullAssumption ==
  Null \notin Statuses /\ Null \notin {"ABSENT", "update", "credit", "archive", "restore"}

VARIABLES
  invoice,  \* the table "Invoice", with applied: the sum of its allocation rows
  payment,  \* the table "Payment"
  pending   \* what each clerk has read and is about to write

vars == <<invoice, payment, pending>>

InvoiceRow ==
  [status : Statuses \cup {"ABSENT"}, archivedFrom : Statuses \cup {Null}, deleted : BOOLEAN,
   total : Nat, credit : Nat, outstanding : Nat, applied : Nat]

Absent ==
  [status |-> "ABSENT", archivedFrom |-> Null, deleted |-> FALSE,
   total |-> 0, credit |-> 0, outstanding |-> 0, applied |-> 0]

PaymentRow ==
  [purpose : Purposes, amount : Nat, allocated : Nat, unapplied : Nat, reserved : Nat]

(* A request to InvoiceService past its checks: the status it will write, or has *)
(* seen and will save.                                                           *)
Requests ==
  [op : {"update", "credit", "archive", "restore"}, invoice : Invoices,
   status : Statuses, amount : Nat]

ASSUME PaymentAssumption == Null \notin PaymentRow

-----------------------------------------------------------------------------
(* Helpers *)

Live(r) == r.status # "ABSENT" /\ ~r.deleted

(* What total, credit notes and completed allocations leave to pay. *)
Remaining(r) == r.total - r.credit - r.applied

(* The CHECK constraint Invoice_amounts_check. *)
RowAllowed(r) == r.outstanding >= 0 /\ r.credit <= r.total /\ r.outstanding <= r.total

(* allowedTransition, and writing a status over itself. *)
AllowedTransition(from, to) ==
  \/ from = to
  \/ from = "DRAFT" /\ to \in {"ISSUED", "VOID"}
  \/ from = "ISSUED" /\ to \in {"OVERDUE", "VOID"}
  \/ from = "OVERDUE" /\ to = "VOID"

(* Mutants: the conditional update without its balance condition; the two statuses *)
(* swapped.                                                                        *)
CanPayAnyAmount(r, n) == Live(r) /\ r.status \in Payable

PayMarksPaid(r, n) ==
  [r EXCEPT !.outstanding = @ - n,
            !.applied = @ + n,
            !.status = IF r.outstanding = n THEN "PARTIALLY_PAID" ELSE "PAID"]

(* The allocation of n to an invoice: conditional decrement, then the status. *)
CanPay(r, n) == Live(r) /\ r.status \in Payable /\ n <= r.outstanding

Pay(r, n) ==
  [r EXCEPT !.outstanding = @ - n,
            !.applied = @ + n,
            !.status = IF r.outstanding = n THEN "PAID" ELSE "PARTIALLY_PAID"]

Total(f) == FoldFunction(+, 0, f)

Ask(c, op, i, s, n) ==
  /\ pending[c] = Null
  /\ pending' = [pending EXCEPT ![c] = [op |-> op, invoice |-> i, status |-> s, amount |-> n]]
  /\ UNCHANGED <<invoice, payment>>

-----------------------------------------------------------------------------
(* InvoiceService *)

(* create: the unique index on rentScheduleId makes a second invoice fail. *)
Create(i, t, s) ==
  /\ invoice[i].status = "ABSENT"
  /\ invoice' = [invoice EXCEPT ![i] =
                   [Absent EXCEPT !.status = s, !.total = t, !.outstanding = t]]
  /\ UNCHANGED <<payment, pending>>

ReadUpdate(c, i, s) ==
  /\ Live(invoice[i])
  /\ s \in {"DRAFT", "ISSUED", "OVERDUE", "VOID"}
  /\ AllowedTransition(invoice[i].status, s)
  /\ Ask(c, "update", i, s, 0)

(* An ISSUED credit note of n. *)
ReadCredit(c, i, n) ==
  /\ Live(invoice[i])
  /\ invoice[i].status \in {"ISSUED", "OVERDUE"}
  /\ n <= invoice[i].outstanding
  /\ Ask(c, "credit", i, invoice[i].status, n)

ReadArchive(c, i) ==
  /\ Live(invoice[i])
  /\ Ask(c, "archive", i, invoice[i].status, 0)

ReadRestore(c, i) ==
  /\ invoice[i].deleted
  /\ LET from == invoice[i].archivedFrom IN
       Ask(c, "restore", i, IF from = Null THEN "DRAFT" ELSE from, 0)

(* Mutants: the credit note raises creditTotal only; it is added to the balance. *)
WrittenCreditOnly(q, r) ==
  CASE q.op = "update" ->
         [r EXCEPT !.status = q.status,
                   !.outstanding = IF q.status = "VOID" THEN 0 ELSE @]
    [] q.op = "credit" -> [r EXCEPT !.credit = @ + q.amount]
    [] q.op = "archive" ->
         [r EXCEPT !.archivedFrom = q.status, !.status = "ARCHIVED", !.deleted = TRUE]
    [] OTHER ->
         [r EXCEPT !.status = q.status, !.archivedFrom = Null, !.deleted = FALSE]

WrittenCreditAdded(q, r) ==
  IF q.op = "credit"
    THEN [r EXCEPT !.credit = @ + q.amount, !.outstanding = @ + q.amount]
    ELSE WrittenCreditOnly(q, r)

(* What the transaction of the request q makes of the row it finds. *)
Written(q, r) ==
  CASE q.op = "update" ->
         [r EXCEPT !.status = q.status,
                   !.outstanding = IF q.status = "VOID" THEN 0 ELSE @]
    [] q.op = "credit" ->
         [r EXCEPT !.credit = @ + q.amount, !.outstanding = @ - q.amount]
    [] q.op = "archive" ->
         [r EXCEPT !.archivedFrom = q.status, !.status = "ARCHIVED", !.deleted = TRUE]
    [] OTHER ->
         [r EXCEPT !.status = q.status, !.archivedFrom = Null, !.deleted = FALSE]

(* The transaction: by id, whatever the row has become; it fails on the CHECK. *)
Write(c) ==
  /\ pending[c] # Null
  /\ LET q == pending[c]
         r == Written(q, invoice[q.invoice]) IN
       invoice' = IF RowAllowed(r) THEN [invoice EXCEPT ![q.invoice] = r] ELSE invoice
  /\ pending' = [pending EXCEPT ![c] = Null]
  /\ UNCHANGED payment

-----------------------------------------------------------------------------
(* PaymentService *)

(* Mutant: the whole amount is booked as allocated. *)
CreatePaymentAllAllocated(p, purpose, S, f, amount, allocated) ==
  /\ payment[p] = Null
  /\ S # {}
  /\ allocated = Total(f)
  /\ allocated <= amount
  /\ purpose # "ADVANCE" => allocated = amount
  /\ \A i \in S : CanPay(invoice[i], f[i])
  /\ invoice' = [i \in Invoices |-> IF i \in S THEN Pay(invoice[i], f[i]) ELSE invoice[i]]
  /\ payment' = [payment EXCEPT ![p] =
                   [purpose |-> purpose, amount |-> amount, allocated |-> amount,
                    unapplied |-> 0, reserved |-> 0]]
  /\ UNCHANGED pending

(* create: allocate f to the invoices S; only an advance may exceed its allocations. *)
CreatePayment(p, purpose, S, f, amount, allocated) ==
  /\ payment[p] = Null
  /\ S # {}
  /\ allocated = Total(f)
  /\ allocated <= amount
  /\ purpose # "ADVANCE" => allocated = amount
  /\ \A i \in S : CanPay(invoice[i], f[i])
  /\ invoice' = [i \in Invoices |-> IF i \in S THEN Pay(invoice[i], f[i]) ELSE invoice[i]]
  /\ payment' = [payment EXCEPT ![p] =
                   [purpose |-> purpose, amount |-> amount, allocated |-> allocated,
                    unapplied |-> amount - allocated, reserved |-> 0]]
  /\ UNCHANGED pending

(* requestRefund: refundedAmount is written nowhere, so it stays 0. *)
RequestRefund(p, n) ==
  /\ payment[p] # Null
  /\ n <= payment[p].amount - payment[p].reserved
  /\ payment' = [payment EXCEPT ![p].reserved = @ + n]
  /\ UNCHANGED <<invoice, pending>>

AllocateAdvance(p, i, n) ==
  /\ payment[p] # Null
  /\ payment[p].purpose = "ADVANCE"
  /\ n <= payment[p].unapplied
  /\ CanPay(invoice[i], n)
  /\ invoice' = [invoice EXCEPT ![i] = Pay(invoice[i], n)]
  /\ payment' = [payment EXCEPT ![p].allocated = @ + n, ![p].unapplied = @ - n]
  /\ UNCHANGED pending

RecalculatedStatus(r) ==
  CASE Remaining(r) = 0       -> "PAID"
    [] r.applied > 0          -> "PARTIALLY_PAID"
    [] r.status = "OVERDUE"   -> "OVERDUE"
    [] OTHER                  -> "ISSUED"

(* Mutant: the credit notes are forgotten. *)
RecalculateGross(i) ==
  /\ Live(invoice[i])
  /\ invoice[i].status \notin {"DRAFT", "VOID", "ARCHIVED"}
  /\ LET r == invoice[i] IN
       invoice' = [invoice EXCEPT ![i] =
                     [r EXCEPT !.outstanding = r.total - r.applied, !.status = RecalculatedStatus(r)]]
  /\ UNCHANGED <<payment, pending>>

(* recalculateInvoice: rebuild the balance from the allocation rows. *)
Recalculate(i) ==
  /\ Live(invoice[i])
  /\ invoice[i].status \notin {"DRAFT", "VOID", "ARCHIVED"}
  /\ Remaining(invoice[i]) >= 0
  /\ LET r == invoice[i] IN
       invoice' = [invoice EXCEPT ![i] =
                     [r EXCEPT !.outstanding = Remaining(r), !.status = RecalculatedStatus(r)]]
  /\ UNCHANGED <<payment, pending>>

-----------------------------------------------------------------------------
Init ==
  /\ invoice = [i \in Invoices |-> Absent]
  /\ payment = [p \in Payments |-> Null]
  /\ pending = [c \in Clerks |-> Null]

InvoiceRequest(i) ==
  \/ \E t \in Totals, s \in {"DRAFT", "ISSUED"} : Create(i, t, s)
  \/ \E c \in Clerks, s \in Statuses : ReadUpdate(c, i, s)
  \/ \E c \in Clerks, n \in Amounts : ReadCredit(c, i, n)
  \/ \E c \in Clerks : ReadArchive(c, i) \/ ReadRestore(c, i)
  \/ Recalculate(i)

PaymentRequest(p) ==
  \/ \E purpose \in Purposes, S \in SUBSET Invoices, amount \in Amounts :
       \E f \in [S -> Amounts], allocated \in Amounts :
         CreatePayment(p, purpose, S, f, amount, allocated)
  \/ \E n \in Amounts : RequestRefund(p, n)
  \/ \E i \in Invoices, n \in Amounts : AllocateAdvance(p, i, n)

Next ==
  \/ \E i \in Invoices : InvoiceRequest(i)
  \/ \E c \in Clerks : Write(c)
  \/ \E p \in Payments : PaymentRequest(p)

Spec == Init /\ [][Next]_vars

-----------------------------------------------------------------------------
(* Properties *)

(* Every row and every request has its type. *)
TypeOK ==
  /\ invoice \in [Invoices -> InvoiceRow]
  /\ payment \in [Payments -> PaymentRow \cup {Null}]
  /\ pending \in [Clerks -> Requests \cup {Null}]

(* "Conditional invoice updates and serializable transactions prevent concurrent   *)
(* overpayment": payments and credit notes together never exceed the invoice,      *)
(* whatever the clerks write from stale reads in between.                          *)
NoOverpayment == \A i \in Invoices : Remaining(invoice[i]) >= 0

(* The stored balance is what is left to pay; voiding, and only voiding, zeroes it. *)
BalanceIsRemainder ==
  \A i \in Invoices : invoice[i].outstanding \in {0, Remaining(invoice[i])}

(* PAID is never shown for an invoice that is not fully paid or credited, not even  *)
(* after a void, an archive or a restore that worked from a stale read.             *)
PaidIsSettled ==
  \A i \in Invoices : invoice[i].status = "PAID" => Remaining(invoice[i]) = 0

(* A payment's columns balance, and pending refunds never exceed its amount.        *)
PaymentBalances ==
  \A p \in Payments : payment[p] # Null =>
    /\ payment[p].allocated + payment[p].unapplied = payment[p].amount
    /\ payment[p].unapplied > 0 => payment[p].purpose = "ADVANCE"
    /\ payment[p].reserved <= payment[p].amount

(* No cent is invented or lost: what the payments allocated is what the invoices     *)
(* received.                                                                        *)
AllocationsMatch ==
  Total([p \in Payments |-> IF payment[p] = Null THEN 0 ELSE payment[p].allocated])
    = Total([i \in Invoices |-> invoice[i].applied])

(* A balance only falls, until a recalculation repairs one that was zeroed: no       *)
(* restore or late update brings back money that was paid.                          *)
BalanceOnlyRepaired ==
  [][\A i \in Invoices :
       invoice[i].status # "ABSENT" /\ invoice'[i].outstanding > invoice[i].outstanding =>
         invoice[i].outstanding = 0 /\ invoice'[i].outstanding = Remaining(invoice[i])]_vars

-----------------------------------------------------------------------------
(* The inductive invariant *)

(* PAID is settled wherever it is remembered: in the row, in archivedFromStatus, or *)
(* in a request that is about to write it back.                                     *)
PaidRemembered ==
  /\ \A i \in Invoices :
       "PAID" \in {invoice[i].status, invoice[i].archivedFrom} => Remaining(invoice[i]) = 0
  /\ \A c \in Clerks :
       pending[c] # Null /\ pending[c].status = "PAID" =>
         Remaining(invoice[pending[c].invoice]) = 0

(* A row that does not exist yet has no money in it and no request on it. *)
AbsentUntouched ==
  /\ \A i \in Invoices : invoice[i].status = "ABSENT" => invoice[i] = Absent
  /\ \A c \in Clerks : pending[c] # Null => invoice[pending[c].invoice].status # "ABSENT"

IInv ==
  /\ NoOverpayment
  /\ BalanceIsRemainder
  /\ PaidRemembered
  /\ AbsentUntouched
  /\ PaymentBalances

-----------------------------------------------------------------------------
(* Refinement *)

Account == INSTANCE InvoiceAccount WITH
  total <- [i \in Invoices |-> invoice[i].total],
  credited <- [i \in Invoices |-> invoice[i].credit],
  received <- [i \in Invoices |-> invoice[i].applied]

(* Statuses, balances, archives and stale clerks implement plain accounts that are   *)
(* credited and paid within what is left of them.                                   *)
ImplementsAccount == Account!Spec

=============================================================================
