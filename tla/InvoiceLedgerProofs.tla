------------------------- MODULE InvoiceLedgerProofs -------------------------
(***************************************************************************)
(* Proofs about InvoiceLedger, for any invoices, payments, clerks, totals  *)
(* and amounts.                                                            *)
(***************************************************************************)
EXTENDS InvoiceLedger, FiniteSetTheorems, WellFoundedInduction, TLAPS

(* What holds of one invoice row. *)
Sound(r) ==
  /\ Remaining(r) >= 0
  /\ r.outstanding \in {0, Remaining(r)}
  /\ "PAID" \in {r.status, r.archivedFrom} => Remaining(r) = 0
  /\ r.status = "ABSENT" => r = Absent

(* What one step may make of an existing row: it stays sound, and what remains to be *)
(* paid never grows, so an invoice once settled stays settled; a balance that rises  *)
(* is one that is recalculated.                                                      *)
Onward(r, s) ==
  /\ s \in InvoiceRow
  /\ Sound(s)
  /\ s.status # "ABSENT"
  /\ Remaining(s) <= Remaining(r)
  /\ s.outstanding > r.outstanding => Remaining(s) = Remaining(r)

(* No archived status, and no absent row, is a status of an invoice. *)
LEMMA NullIsNoStatus == Null \notin Statuses /\ "PAID" # Null /\ "ABSENT" \notin Statuses
BY NullAssumption DEF Statuses

(* The amounts of a row are numbers. *)
LEMMA RemainingType ==
  ASSUME NEW r \in InvoiceRow
  PROVE  Remaining(r) \in Int /\ r.outstanding \in Nat /\ r.total \in Nat
         /\ r.credit \in Nat /\ r.applied \in Nat
BY DEF InvoiceRow, Remaining

(* An invoice not yet created is sound. *)
LEMMA AbsentIsSound == Absent \in InvoiceRow /\ Sound(Absent)
BY NullAssumption DEF Absent, InvoiceRow, Sound, Remaining, Statuses

(* A row that stays is a row taken onward. *)
LEMMA SameIsOnward ==
  ASSUME NEW r \in InvoiceRow, Sound(r), r.status # "ABSENT"
  PROVE  Onward(r, r)
BY RemainingType DEF Onward

(* An allocation takes the same amount from the balance and from what remains. *)
LEMMA PayIsOnward ==
  ASSUME NEW r \in InvoiceRow, Sound(r), NEW n \in Nat \ {0}, CanPay(r, n)
  PROVE  Onward(r, Pay(r, n)) /\ Pay(r, n).applied = r.applied + n
         /\ Pay(r, n).total = r.total /\ Pay(r, n).credit = r.credit
         /\ n <= Remaining(r)
<1> DEFINE s == Pay(r, n)
<1>1. r.outstanding \in Nat /\ r.outstanding >= n /\ r.outstanding = Remaining(r)
  BY RemainingType DEF CanPay, Sound
<1>2. /\ s.outstanding = r.outstanding - n /\ s.applied = r.applied + n
      /\ s.total = r.total /\ s.credit = r.credit
      /\ s.archivedFrom = r.archivedFrom /\ s.deleted = r.deleted
      /\ s.status = IF r.outstanding = n THEN "PAID" ELSE "PARTIALLY_PAID"
  BY DEF Pay, InvoiceRow
<1>3. s \in InvoiceRow
  <2>1. r.outstanding - n \in Nat /\ r.applied + n \in Nat
    BY <1>1, RemainingType
  <2>2. {"PAID", "PARTIALLY_PAID"} \subseteq Statuses
    BY DEF Statuses
  <2>3. QED
    BY <2>1, <2>2 DEF Pay, InvoiceRow
<1>4. Remaining(s) = Remaining(r) - n
  BY <1>2, RemainingType DEF Remaining
<1>5. r.archivedFrom # "PAID"
  BY <1>1 DEF Sound
<1>6. QED
  BY <1>1, <1>2, <1>3, <1>4, <1>5, RemainingType DEF Sound, Onward

(* A transaction of InvoiceService that passes the CHECK constraint. *)
LEMMA WrittenIsOnward ==
  ASSUME NEW r \in InvoiceRow, Sound(r), r.status # "ABSENT", NEW q \in Requests,
         q.status = "PAID" => Remaining(r) = 0,
         RowAllowed(Written(q, r))
  PROVE  Onward(r, Written(q, r))
<1> DEFINE s == Written(q, r)
<1>1. CASE q.op = "update"
  <2>1. s = [r EXCEPT !.status = q.status, !.outstanding = IF q.status = "VOID" THEN 0 ELSE @]
    BY <1>1 DEF Written
  <2>2. s \in InvoiceRow /\ s.status = q.status /\ s.archivedFrom = r.archivedFrom
        /\ s.outstanding \in {0, r.outstanding} /\ Remaining(s) = Remaining(r)
    <3> DEFINE b == IF q.status = "VOID" THEN 0 ELSE r.outstanding
    <3>1. q.status \in Statuses /\ b \in Nat /\ b \in {0, r.outstanding}
      BY RemainingType DEF Requests
    <3>2. s = [r EXCEPT !.status = q.status, !.outstanding = b]
      BY <2>1
    <3> HIDE DEF b
    <3>3. s \in InvoiceRow /\ s.status = q.status /\ s.archivedFrom = r.archivedFrom
          /\ s.outstanding = b
      BY <3>1, <3>2 DEF InvoiceRow
    <3>4. Remaining(s) = Remaining(r)
      BY <3>2 DEF InvoiceRow, Remaining
    <3>5. QED
      BY <3>1, <3>3, <3>4
  <2>3. QED
    BY <2>2, NullIsNoStatus, RemainingType DEF Onward, Sound, Requests
<1>2. CASE q.op = "credit"
  <2>1. s = [r EXCEPT !.credit = @ + q.amount, !.outstanding = @ - q.amount]
    BY <1>2 DEF Written
  <2>2. q.amount \in Nat /\ r.outstanding \in Nat /\ r.credit \in Nat /\ r.total \in Nat
        /\ r.applied \in Nat
    BY RemainingType DEF Requests
  <2>3. s.outstanding = r.outstanding - q.amount /\ s.credit = r.credit + q.amount
        /\ s.status = r.status /\ s.archivedFrom = r.archivedFrom
        /\ s.total = r.total /\ s.applied = r.applied
    BY <2>1 DEF InvoiceRow
  <2>4. r.outstanding - q.amount >= 0
    BY <2>3 DEF RowAllowed
  <2>5. s \in InvoiceRow
    <3>1. r.outstanding - q.amount \in Nat /\ r.credit + q.amount \in Nat
      BY <2>2, <2>4
    <3>2. QED
      BY <2>1, <3>1 DEF InvoiceRow
  <2>6. Remaining(s) = Remaining(r) - q.amount
    BY <2>2, <2>3 DEF Remaining
  <2>7. q.amount = 0 \/ r.outstanding = Remaining(r)
    BY <2>2, <2>4 DEF Sound
  <2>8. Remaining(s) >= 0 /\ s.outstanding \in {0, Remaining(s)} /\ Remaining(s) <= Remaining(r)
    BY <2>2, <2>3, <2>4, <2>6, <2>7, RemainingType DEF Sound
  <2>9. Remaining(s) = 0 \/ "PAID" \notin {s.status, s.archivedFrom}
    <3>1. Remaining(s) \in Int /\ Remaining(r) \in Int
      BY <2>5, RemainingType
    <3>2. "PAID" \in {r.status, r.archivedFrom} => Remaining(r) = 0
      BY DEF Sound
    <3>3. QED
      BY <2>3, <2>8, <3>1, <3>2
  <2>10. ~(s.outstanding > r.outstanding)
    BY <2>2, <2>3
  <2>11. QED
    BY <2>3, <2>5, <2>8, <2>9, <2>10 DEF Onward, Sound
<1>3. CASE q.op = "archive"
  <2>1. s = [r EXCEPT !.archivedFrom = q.status, !.status = "ARCHIVED", !.deleted = TRUE]
    BY <1>3 DEF Written
  <2>2. s \in InvoiceRow /\ s.status = "ARCHIVED" /\ s.archivedFrom = q.status
        /\ s.outstanding = r.outstanding /\ Remaining(s) = Remaining(r)
    BY <2>1 DEF InvoiceRow, Requests, Remaining, Statuses
  <2>3. QED
    BY <2>2, RemainingType DEF Onward, Sound
<1>4. CASE q.op = "restore"
  <2>1. s = [r EXCEPT !.status = q.status, !.archivedFrom = Null, !.deleted = FALSE]
    BY <1>4 DEF Written
  <2>2. s \in InvoiceRow /\ s.status = q.status /\ s.archivedFrom = Null
        /\ s.outstanding = r.outstanding /\ Remaining(s) = Remaining(r)
    BY <2>1 DEF InvoiceRow, Requests, Remaining
  <2>3. QED
    BY <2>2, NullIsNoStatus, RemainingType DEF Onward, Sound, Requests
<1>5. QED
  BY <1>1, <1>2, <1>3, <1>4 DEF Requests

(* A recalculation takes a sound row onward. *)
LEMMA RecalculatedIsOnward ==
  ASSUME NEW r \in InvoiceRow, Sound(r), r.status # "ABSENT"
  PROVE  Onward(r, [r EXCEPT !.outstanding = Remaining(r), !.status = RecalculatedStatus(r)])
<1> DEFINE s == [r EXCEPT !.outstanding = Remaining(r), !.status = RecalculatedStatus(r)]
<1>1. Remaining(r) \in Nat
  BY RemainingType DEF Sound
<1>2. RecalculatedStatus(r) \in Statuses /\ (RecalculatedStatus(r) = "PAID" => Remaining(r) = 0)
  BY DEF RecalculatedStatus, Statuses
<1>3. s \in InvoiceRow /\ s.outstanding = Remaining(r) /\ s.status = RecalculatedStatus(r)
      /\ s.archivedFrom = r.archivedFrom /\ Remaining(s) = Remaining(r)
  BY <1>1, <1>2 DEF InvoiceRow, Remaining
<1>4. QED
  BY <1>1, <1>2, <1>3, NullIsNoStatus, RemainingType DEF Onward, Sound

-----------------------------------------------------------------------------
(* The steps. *)

(* What holds of one payment. *)
Balanced(p) ==
  payment[p] # Null =>
    /\ payment[p].allocated + payment[p].unapplied = payment[p].amount
    /\ payment[p].unapplied > 0 => payment[p].purpose = "ADVANCE"
    /\ payment[p].reserved <= payment[p].amount

RowsSound == \A i \in Invoices : Sound(invoice[i])

(* The inductive invariant, row by row and request by request. *)
LEMMA RowsOfIInv ==
  IInv <=> /\ RowsSound
           /\ PaymentBalances
           /\ \A c \in Clerks : pending[c] # Null =>
                /\ invoice[pending[c].invoice].status # "ABSENT"
                /\ pending[c].status = "PAID" => Remaining(invoice[pending[c].invoice]) = 0
BY DEF IInv, RowsSound, Sound, NoOverpayment, BalanceIsRemainder, PaidRemembered,
       AbsentUntouched

(* Every step leaves a row alone, creates it, or takes it onward. *)
RowStep(i) ==
  \/ invoice'[i] = invoice[i]
  \/ invoice[i].status = "ABSENT" /\ invoice'[i] \in InvoiceRow /\ Sound(invoice'[i])
  \/ invoice[i].status # "ABSENT" /\ Onward(invoice[i], invoice'[i])

(* Every step leaves a request alone, drops it, or takes one whose status was read. *)
RequestStep(c) ==
  \/ pending'[c] \in {pending[c], Null}
  \/ /\ pending'[c] \in Requests
     /\ LET r == invoice[pending'[c].invoice] IN
          /\ r.status # "ABSENT"
          /\ pending'[c].status = "PAID" => "PAID" \in {r.status, r.archivedFrom}
          /\ invoice' = invoice

(* What every step does to one invoice. *)
LEMMA RowSteps ==
  ASSUME TypeOK, IInv, [Next]_vars
  PROVE  /\ invoice' = [i \in Invoices |-> invoice'[i]]
         /\ \A i \in Invoices : RowStep(i)
<1> DEFINE Goal == /\ invoice' = [i \in Invoices |-> invoice'[i]]
                   /\ \A i \in Invoices : RowStep(i)
<1>1. \A i \in Invoices : invoice[i] \in InvoiceRow /\ Sound(invoice[i])
  BY RowsOfIInv DEF TypeOK, RowsSound
<1>2. CASE UNCHANGED invoice
  BY <1>2 DEF RowStep, TypeOK
<1>3. ASSUME NEW i \in Invoices, NEW s, invoice' = [invoice EXCEPT ![i] = s],
             \/ invoice[i].status = "ABSENT" /\ s \in InvoiceRow /\ Sound(s)
             \/ invoice[i].status # "ABSENT" /\ Onward(invoice[i], s)
      PROVE  Goal
  BY <1>3 DEF RowStep, TypeOK
<1>4. ASSUME NEW i \in Invoices, NEW t \in Totals, NEW s \in {"DRAFT", "ISSUED"}, Create(i, t, s)
      PROVE  Goal
  <2> DEFINE r == [Absent EXCEPT !.status = s, !.total = t, !.outstanding = t]
  <2>1. r \in InvoiceRow /\ Sound(r)
    <3>1. t \in Nat /\ s \in Statuses /\ s # "PAID"
      BY AmountAssumption DEF Statuses
    <3>2. r.status = s /\ r.archivedFrom = Null /\ r.total = t /\ r.credit = 0
          /\ r.outstanding = t /\ r.applied = 0
      BY DEF Absent
    <3>3. r \in InvoiceRow
      BY <3>1, AbsentIsSound DEF InvoiceRow
    <3> HIDE DEF r
    <3>4. Remaining(r) = t
      BY <3>1, <3>2 DEF Remaining
    <3>5. QED
      BY <3>1, <3>2, <3>3, <3>4, NullIsNoStatus DEF Sound
  <2>2. QED
    BY <1>3, <1>4, <2>1 DEF Create
<1>5. ASSUME NEW c \in Clerks, Write(c) PROVE Goal
  <2> DEFINE q == pending[c]
  <2>1. q \in Requests /\ q.invoice \in Invoices /\ invoice[q.invoice].status # "ABSENT"
        /\ (q.status = "PAID" => Remaining(invoice[q.invoice]) = 0)
    BY <1>5, RowsOfIInv DEF Write, TypeOK, Requests
  <2>2. CASE RowAllowed(Written(q, invoice[q.invoice]))
    BY <1>1, <1>3, <1>5, <2>1, <2>2, WrittenIsOnward DEF Write
  <2>3. QED
    BY <1>2, <1>5, <2>2 DEF Write
<1>6. ASSUME NEW p \in Payments, NEW purpose \in Purposes, NEW S \in SUBSET Invoices,
             NEW f \in [S -> Amounts], NEW amount \in Amounts, NEW allocated \in Amounts,
             CreatePayment(p, purpose, S, f, amount, allocated)
      PROVE  Goal
  <2>1. \A i \in S : Onward(invoice[i], Pay(invoice[i], f[i])) /\ invoice[i].status # "ABSENT"
    BY <1>1, <1>6, PayIsOnward, AmountAssumption DEF CreatePayment, CanPay, Live, Amounts
  <2>2. QED
    BY <1>6, <2>1 DEF CreatePayment, RowStep
<1>7. ASSUME NEW p \in Payments, NEW i \in Invoices, NEW n \in Amounts, AllocateAdvance(p, i, n)
      PROVE  Goal
  <2>1. Onward(invoice[i], Pay(invoice[i], n)) /\ invoice[i].status # "ABSENT"
    BY <1>1, <1>7, PayIsOnward, AmountAssumption DEF AllocateAdvance, CanPay, Live, Amounts
  <2>2. QED
    BY <1>3, <1>7, <2>1 DEF AllocateAdvance
<1>8. ASSUME NEW i \in Invoices, Recalculate(i) PROVE Goal
  BY <1>1, <1>3, <1>8, RecalculatedIsOnward DEF Recalculate, Live
<1>9. ASSUME NEW i \in Invoices, InvoiceRequest(i) PROVE Goal
  <2>1. CASE \/ \E c \in Clerks, s \in Statuses : ReadUpdate(c, i, s)
             \/ \E c \in Clerks, n \in Amounts : ReadCredit(c, i, n)
             \/ \E c \in Clerks : ReadArchive(c, i) \/ ReadRestore(c, i)
    BY <1>2, <2>1 DEF ReadUpdate, ReadCredit, ReadArchive, ReadRestore, Ask
  <2>2. QED
    BY <1>4, <1>8, <1>9, <2>1 DEF InvoiceRequest
<1>10. ASSUME NEW p \in Payments, PaymentRequest(p) PROVE Goal
  <2>1. CASE \E n \in Amounts : RequestRefund(p, n)
    BY <1>2, <2>1 DEF RequestRefund
  <2>2. QED
    BY <1>6, <1>7, <1>10, <2>1 DEF PaymentRequest
<1>11. Goal
  BY <1>2, <1>5, <1>9, <1>10 DEF Next, vars
<1>12. QED
  BY <1>11

(* What every step does to the request of one clerk. *)
LEMMA RequestSteps ==
  ASSUME TypeOK, IInv, [Next]_vars
  PROVE  /\ pending' = [c \in Clerks |-> pending'[c]]
         /\ \A c \in Clerks : RequestStep(c)
<1> DEFINE Goal == /\ pending' = [c \in Clerks |-> pending'[c]]
                   /\ \A c \in Clerks : RequestStep(c)
<1>1. CASE UNCHANGED pending
  BY <1>1 DEF RequestStep, TypeOK
<1>2. ASSUME NEW c \in Clerks, NEW op \in {"update", "credit", "archive", "restore"},
             NEW i \in Invoices, NEW s \in Statuses, NEW n \in Nat, Ask(c, op, i, s, n),
             invoice[i].status # "ABSENT",
             s = "PAID" => "PAID" \in {invoice[i].status, invoice[i].archivedFrom}
      PROVE  Goal
  <2>1. [op |-> op, invoice |-> i, status |-> s, amount |-> n] \in Requests
    BY DEF Requests
  <2>2. QED
    BY <1>2, <2>1 DEF Ask, RequestStep, TypeOK
<1>3. ASSUME NEW c \in Clerks, Write(c) PROVE Goal
  BY <1>3 DEF Write, RequestStep, TypeOK
<1>4. ASSUME NEW i \in Invoices, NEW c \in Clerks, NEW s \in Statuses, ReadUpdate(c, i, s)
      PROVE  Goal
  BY <1>2, <1>4 DEF ReadUpdate, Live
<1>5. ASSUME NEW i \in Invoices, NEW c \in Clerks, NEW n \in Amounts, ReadCredit(c, i, n)
      PROVE  Goal
  <2>1. invoice[i].status \in Statuses /\ n \in Nat
    BY <1>5, AmountAssumption DEF ReadCredit, Statuses, Amounts
  <2>2. QED
    BY <1>2, <1>5, <2>1 DEF ReadCredit, Live
<1>6. ASSUME NEW i \in Invoices, NEW c \in Clerks, ReadArchive(c, i) PROVE Goal
  <2>1. invoice[i].status \in Statuses
    BY <1>6 DEF ReadArchive, Live, TypeOK, InvoiceRow
  <2>2. QED
    BY <1>2, <1>6, <2>1 DEF ReadArchive, Live
<1>7. ASSUME NEW i \in Invoices, NEW c \in Clerks, ReadRestore(c, i) PROVE Goal
  <2> DEFINE s == IF invoice[i].archivedFrom = Null THEN "DRAFT" ELSE invoice[i].archivedFrom
  <2>1. invoice[i].status # "ABSENT"
    BY <1>7 DEF ReadRestore, IInv, AbsentUntouched, Absent
  <2>2. s \in Statuses /\ (s = "PAID" => "PAID" = invoice[i].archivedFrom)
    BY DEF TypeOK, InvoiceRow, Statuses
  <2>3. Ask(c, "restore", i, s, 0)
    BY <1>7 DEF ReadRestore
  <2>4. QED
    BY <1>2, <2>1, <2>2, <2>3
<1>8. ASSUME NEW i \in Invoices, InvoiceRequest(i) PROVE Goal
  <2>1. CASE \/ \E t \in Totals, s \in {"DRAFT", "ISSUED"} : Create(i, t, s)
             \/ Recalculate(i)
    BY <1>1, <2>1 DEF Create, Recalculate
  <2>2. QED
    BY <1>4, <1>5, <1>6, <1>7, <1>8, <2>1 DEF InvoiceRequest
<1>9. ASSUME NEW p \in Payments, PaymentRequest(p) PROVE Goal
  <2>1. UNCHANGED pending
    BY <1>9 DEF PaymentRequest, CreatePayment, RequestRefund, AllocateAdvance
  <2>2. QED
    BY <1>1, <2>1
<1>10. QED
  BY <1>1, <1>3, <1>8, <1>9 DEF Next, vars

(* Every step keeps the columns of the payments balanced. *)
LEMMA PaymentSteps ==
  ASSUME TypeOK, PaymentBalances, [Next]_vars
  PROVE  /\ payment' \in [Payments -> PaymentRow \cup {Null}]
         /\ PaymentBalances'
<1> DEFINE Booked(row) == /\ row \in PaymentRow
                          /\ row.allocated + row.unapplied = row.amount
                          /\ row.unapplied > 0 => row.purpose = "ADVANCE"
                          /\ row.reserved <= row.amount
           Goal == /\ payment' \in [Payments -> PaymentRow \cup {Null}]
                   /\ PaymentBalances'
<1>1. CASE UNCHANGED payment
  BY <1>1 DEF TypeOK, PaymentBalances
<1>2. ASSUME NEW p \in Payments, NEW row, Booked(row), payment' = [payment EXCEPT ![p] = row]
      PROVE  Goal
  <2>1. payment' \in [Payments -> PaymentRow \cup {Null}]
    BY <1>2 DEF TypeOK
  <2>2. \A q \in Payments : payment'[q] = IF q = p THEN row ELSE payment[q]
    BY <1>2 DEF TypeOK
  <2>3. PaymentBalances'
    BY <1>2, <2>2 DEF PaymentBalances
  <2>4. QED
    BY <2>1, <2>3
<1>3. ASSUME NEW p \in Payments, payment[p] # Null PROVE Booked(payment[p])
  BY <1>3 DEF TypeOK, PaymentBalances
<1>4. ASSUME NEW p \in Payments, NEW purpose \in Purposes, NEW S \in SUBSET Invoices,
             NEW f \in [S -> Amounts], NEW amount \in Amounts, NEW allocated \in Amounts,
             CreatePayment(p, purpose, S, f, amount, allocated)
      PROVE  Goal
  <2> DEFINE row == [purpose |-> purpose, amount |-> amount, allocated |-> allocated,
                     unapplied |-> amount - allocated, reserved |-> 0]
  <2>1. amount \in Nat /\ allocated \in Nat /\ amount - allocated \in Nat
        /\ (purpose # "ADVANCE" => allocated = amount)
    BY <1>4, AmountAssumption DEF CreatePayment, Amounts
  <2>2. Booked(row)
    BY <2>1 DEF PaymentRow
  <2>3. QED
    BY <1>2, <1>4, <2>2 DEF CreatePayment
<1>5. ASSUME NEW p \in Payments, NEW n \in Amounts, RequestRefund(p, n) PROVE Goal
  <2> DEFINE row == [payment[p] EXCEPT !.reserved = @ + n]
  <2>1. Booked(payment[p]) /\ n \in Nat /\ n <= payment[p].amount - payment[p].reserved
    BY <1>3, <1>5, AmountAssumption DEF RequestRefund, Amounts
  <2>2. Booked(row)
    <3>1. payment[p].reserved + n \in Nat /\ payment[p].reserved + n <= payment[p].amount
      BY <2>1 DEF PaymentRow
    <3>2. QED
      BY <2>1, <3>1 DEF PaymentRow
  <2>3. payment' = [payment EXCEPT ![p] = row]
    BY <1>5 DEF RequestRefund
  <2>4. QED
    BY <1>2, <2>2, <2>3
<1>6. ASSUME NEW p \in Payments, NEW i \in Invoices, NEW n \in Amounts, AllocateAdvance(p, i, n)
      PROVE  Goal
  <2> DEFINE row == [payment[p] EXCEPT !.allocated = @ + n, !.unapplied = @ - n]
  <2>1. Booked(payment[p]) /\ n \in Nat /\ n <= payment[p].unapplied
        /\ payment[p].purpose = "ADVANCE"
    BY <1>3, <1>6, AmountAssumption DEF AllocateAdvance, Amounts
  <2>2. Booked(row)
    <3>1. payment[p].allocated + n \in Nat /\ payment[p].unapplied - n \in Nat
          /\ (payment[p].allocated + n) + (payment[p].unapplied - n) = payment[p].amount
      BY <2>1 DEF PaymentRow
    <3>2. QED
      BY <2>1, <3>1 DEF PaymentRow
  <2>3. payment' = [payment EXCEPT ![p] = row]
    BY <1>6 DEF AllocateAdvance
  <2>4. QED
    BY <1>2, <2>2, <2>3
<1>7. ASSUME NEW p \in Payments, PaymentRequest(p) PROVE Goal
  BY <1>4, <1>5, <1>6, <1>7 DEF PaymentRequest
<1>8. ASSUME NEW i \in Invoices, InvoiceRequest(i) PROVE UNCHANGED payment
  BY <1>8
  DEF InvoiceRequest, ReadUpdate, ReadCredit, ReadArchive, ReadRestore, Ask, Create, Recalculate
<1>9. QED
  BY <1>1, <1>7, <1>8 DEF Next, Write, vars

-----------------------------------------------------------------------------
(* The invariants. *)

(* The invariant holds at first. *)
LEMMA InitHolds == Init => TypeOK /\ IInv
<1> SUFFICES ASSUME Init PROVE TypeOK /\ IInv
  OBVIOUS
<1>1. TypeOK
  BY AbsentIsSound DEF Init, TypeOK
<1>2. RowsSound
  BY AbsentIsSound DEF Init, RowsSound
<1>3. PaymentBalances /\ \A c \in Clerks : pending[c] = Null
  BY DEF Init, PaymentBalances
<1>4. QED
  BY <1>1, <1>2, <1>3, RowsOfIInv

(* The invariant is inductive. *)
LEMMA StepHolds == TypeOK /\ IInv /\ [Next]_vars => TypeOK' /\ IInv'
<1> SUFFICES ASSUME TypeOK, IInv, [Next]_vars PROVE TypeOK' /\ IInv'
  OBVIOUS
<1>1. \A i \in Invoices : invoice[i] \in InvoiceRow /\ Sound(invoice[i])
  BY RowsOfIInv DEF TypeOK, RowsSound
<1>2. \A i \in Invoices : invoice'[i] \in InvoiceRow /\ Sound(invoice'[i])
  BY <1>1, RowSteps DEF RowStep, Onward
<1>3. \A i \in Invoices : invoice[i].status # "ABSENT" =>
        invoice'[i].status # "ABSENT" /\ Remaining(invoice'[i]) <= Remaining(invoice[i])
  BY <1>1, RowSteps, RemainingType DEF RowStep, Onward
<1>4. payment' \in [Payments -> PaymentRow \cup {Null}] /\ PaymentBalances'
  BY PaymentSteps, RowsOfIInv
<1>5. \A c \in Clerks : RequestStep(c)
  BY RequestSteps
<1>6. \A c \in Clerks : pending'[c] \in Requests \cup {Null}
  BY <1>5 DEF RequestStep, TypeOK
<1>7. TypeOK'
  <2>1. invoice' \in [Invoices -> InvoiceRow]
    BY <1>2, RowSteps
  <2>2. pending' \in [Clerks -> Requests \cup {Null}]
    BY <1>6, RequestSteps
  <2>3. QED
    BY <1>4, <2>1, <2>2 DEF TypeOK
<1>8. ASSUME NEW c \in Clerks, pending'[c] # Null
      PROVE  /\ invoice'[pending'[c].invoice].status # "ABSENT"
             /\ pending'[c].status = "PAID" => Remaining(invoice'[pending'[c].invoice]) = 0
  <2> DEFINE i == pending'[c].invoice
  <2>1. i \in Invoices
    BY <1>6, <1>8 DEF Requests
  <2>2. invoice[i].status # "ABSENT"
        /\ (pending'[c].status = "PAID" => Remaining(invoice[i]) = 0)
    <3>1. CASE pending'[c] = pending[c]
      BY <1>8, <3>1, RowsOfIInv
    <3>2. CASE pending'[c] # pending[c]
      BY <1>1, <1>5, <1>8, <2>1, <3>2 DEF RequestStep, Sound
    <3>3. QED
      BY <3>1, <3>2
  <2>3. Remaining(invoice[i]) \in Int /\ Remaining(invoice'[i]) \in Int
        /\ Remaining(invoice'[i]) >= 0
    BY <1>1, <1>2, <2>1, RemainingType DEF Sound
  <2>4. QED
    BY <1>3, <2>1, <2>2, <2>3
<1>9. IInv'
  <2>1. RowsSound'
    BY <1>2 DEF RowsSound
  <2>2. NoOverpayment' /\ BalanceIsRemainder'
    BY <1>2 DEF NoOverpayment, BalanceIsRemainder, Sound
  <2>3. PaidRemembered'
    BY <1>2, <1>8 DEF PaidRemembered, Sound
  <2>4. AbsentUntouched'
    BY <1>2, <1>8 DEF AbsentUntouched, Sound
  <2>5. QED
    BY <1>4, <2>2, <2>3, <2>4 DEF IInv
<1>10. QED
  BY <1>7, <1>9

(* Every row and every request keeps its type. *)
THEOREM TypeCorrect == Spec => []TypeOK
BY InitHolds, StepHolds, PTL DEF Spec

(* The inductive invariant: PAID is settled wherever it is remembered, and stale   *)
(* requests only name rows that exist.                                             *)
THEOREM Inductive == Spec => []IInv
BY InitHolds, StepHolds, PTL DEF Spec

(* Payments and credit notes together never exceed the invoice. *)
THEOREM NeverOverpaid == Spec => []NoOverpayment
<1>1. IInv => NoOverpayment
  BY DEF IInv
<1>2. QED
  BY <1>1, Inductive, PTL

(* The stored balance is what is left to pay, or zero. *)
THEOREM BalanceRight == Spec => []BalanceIsRemainder
<1>1. IInv => BalanceIsRemainder
  BY DEF IInv
<1>2. QED
  BY <1>1, Inductive, PTL

(* An invoice shown as PAID is settled. *)
THEOREM PaidMeansSettled == Spec => []PaidIsSettled
<1>1. IInv => PaidIsSettled
  BY DEF IInv, PaidRemembered, PaidIsSettled
<1>2. QED
  BY <1>1, Inductive, PTL

(* A payment's columns balance, and refunds never reserve more than it brought. *)
THEOREM PaymentsBalance == Spec => []PaymentBalances
<1>1. IInv => PaymentBalances
  BY DEF IInv
<1>2. QED
  BY <1>1, Inductive, PTL

(* A balance rises only when a recalculation repairs one that was zeroed. *)
THEOREM NoMoneyBroughtBack == Spec => BalanceOnlyRepaired
<1> DEFINE A == \A i \in Invoices :
       invoice[i].status # "ABSENT" /\ invoice'[i].outstanding > invoice[i].outstanding =>
         invoice[i].outstanding = 0 /\ invoice'[i].outstanding = Remaining(invoice[i])
<1>1. TypeOK /\ IInv /\ [Next]_vars => A
  <2> SUFFICES ASSUME TypeOK, IInv, [Next]_vars, NEW i \in Invoices,
                      invoice[i].status # "ABSENT",
                      invoice'[i].outstanding > invoice[i].outstanding
               PROVE  /\ invoice[i].outstanding = 0
                      /\ invoice'[i].outstanding = Remaining(invoice[i])
    OBVIOUS
  <2>1. invoice[i] \in InvoiceRow /\ Sound(invoice[i])
    BY RowsOfIInv DEF TypeOK, RowsSound
  <2>2. Onward(invoice[i], invoice'[i])
    BY RowSteps, <2>1, RemainingType DEF RowStep
  <2>3. QED
    BY <2>1, <2>2, RemainingType DEF Onward, Sound
<1>2. QED
  BY <1>1, TypeCorrect, Inductive, PTL DEF Spec, BalanceOnlyRepaired

-----------------------------------------------------------------------------
(* Sums *)

(* Every set of natural numbers has a least one. *)
LEMMA Least ==
  ASSUME NEW T \in SUBSET Nat, T # {}
  PROVE  \E n \in T : \A m \in T : n <= m
<1> DEFINE R == {ss \in Nat \X Nat : ss[1] < ss[2]}
<1>1. IsWellFoundedOn(R, Nat)
  BY NatLessThanWellFounded DEF OpToRel
<1> HIDE DEF R
<1>2. PICK x \in T : \A y \in T : ~ (<<y, x>> \in R)
  BY <1>1, WFMin
<1>3. \A y \in T : ~(y < x)
  BY <1>2 DEF R
<1>4. QED
  BY <1>3

(* Among the subsets of a finite set, some have no smaller one beside them. *)
LEMMA Minimal ==
  ASSUME NEW D, IsFiniteSet(D), NEW B \in SUBSET SUBSET D, B # {}
  PROVE  \E s \in B : \A t \in B : t \subseteq s => t = s
<1> DEFINE R == StrictSubsetOrdering(D)
<1>1. IsWellFoundedOn(R, SUBSET D)
  BY FS_StrictSubsetOrderingWellFounded, FS_FiniteSubsetsOfFinite
<1> HIDE DEF R
<1>2. PICK s \in B : \A t \in B : ~ (<<t, s>> \in R)
  BY <1>1, WFMin
<1>3. QED
  BY <1>2 DEF R, StrictSubsetOrdering

(* The element a fold takes next. *)
Pick(s) == CHOOSE x \in s : TRUE

(* A non-empty set has one. *)
LEMMA PickIn == ASSUME NEW s, s # {} PROVE Pick(s) \in s
BY DEF Pick

(* One step of the fold of f, over the sums g of the smaller sets. *)
Fold(f, g) ==
  [s \in SUBSET DOMAIN f |-> IF s = {} THEN 0 ELSE f[Pick(s)] + g[s \ {Pick(s)}]]

(* The sums of f over the subsets of its domain. *)
Sums(f) == CHOOSE g : g = Fold(f, g)

(* A total is the sum over the whole domain. *)
LEMMA TotalIsSum == ASSUME NEW f PROVE Total(f) = Sums(f)[DOMAIN f]
BY DEF Total, FoldFunction, FoldFunctionOnSet, MapThenFoldSet, Sums, Fold, Pick

(* Over a finite domain the sums exist. *)
LEMMA SumsExist ==
  ASSUME NEW D, IsFiniteSet(D), NEW f \in [D -> Nat]
  PROVE  Sums(f) = Fold(f, Sums(f))
<1> DEFINE Upto(n) == {s \in SUBSET D : Cardinality(s) <= n}
           Good(n) == \E g : \A s \in Upto(n) : g[s] = Fold(f, g)[s]
           T == {n \in Nat : ~Good(n)}
<1>1. \A s \in SUBSET D : IsFiniteSet(s) /\ Cardinality(s) \in Nat
                          /\ Cardinality(s) <= Cardinality(D)
  BY FS_Subset, FS_CardinalityType
<1>2. \A s \in SUBSET D : s # {} => /\ Pick(s) \in s /\ s \ {Pick(s)} \in SUBSET D
                                    /\ Cardinality(s \ {Pick(s)}) = Cardinality(s) - 1
  BY <1>1, PickIn, FS_RemoveElement
<1>3. \A g : \A s \in SUBSET D :
        Fold(f, g)[s] = IF s = {} THEN 0 ELSE f[Pick(s)] + g[s \ {Pick(s)}]
  BY DEF Fold
<1>4. ASSUME NEW n \in T PROVE FALSE
  <2>1. PICK k \in T : \A m \in T : k <= m
    BY <1>4, Least
  <2>2. ASSUME NEW g, NEW m \in Nat, \A s \in Upto(m) : g[s] = Fold(f, g)[s]
        PROVE  Good(m + 1)
    <3> DEFINE h == Fold(f, g)
    <3>1. ASSUME NEW s \in Upto(m + 1) PROVE h[s] = Fold(f, h)[s]
      <4>1. CASE s = {}
        BY <1>3, <4>1
      <4>2. CASE s # {}
        <5>1. s \ {Pick(s)} \in Upto(m)
          BY <1>1, <1>2, <4>2
        <5>2. g[s \ {Pick(s)}] = h[s \ {Pick(s)}]
          BY <2>2, <5>1
        <5>3. QED
          BY <1>3, <4>2, <5>2
      <4>3. QED
        BY <4>1, <4>2
    <3> HIDE DEF h
    <3>2. QED
      BY <3>1
  <2>3. Good(0)
    <3> DEFINE h == [s \in SUBSET D |-> 0]
    <3>1. \A s \in Upto(0) : s = {}
      BY <1>1, FS_EmptySet
    <3>2. \A s \in Upto(0) : h[s] = Fold(f, h)[s]
      BY <1>3, <3>1
    <3> HIDE DEF h
    <3>3. QED
      BY <3>2
  <2>4. k # 0 /\ k \in Nat /\ ~Good(k)
    BY <2>1, <2>3
  <2>5. k - 1 \in Nat /\ Good(k - 1)
    BY <2>1, <2>4
  <2>6. Good((k - 1) + 1) /\ (k - 1) + 1 = k
    BY <2>2, <2>4, <2>5
  <2>7. QED
    BY <2>4, <2>6
<1>5. Cardinality(D) \in Nat
  BY FS_CardinalityType
<1>6. Good(Cardinality(D))
  BY <1>4, <1>5
<1>7. PICK g : \A s \in SUBSET D : g[s] = Fold(f, g)[s]
  BY <1>1, <1>6
<1> DEFINE h == Fold(f, g)
<1>8. h = Fold(f, h)
  <2>1. \A s \in SUBSET D : s # {} => g[s \ {Pick(s)}] = h[s \ {Pick(s)}]
    BY <1>2, <1>7
  <2>2. ASSUME NEW s \in SUBSET D PROVE h[s] = Fold(f, h)[s]
    <3>1. CASE s = {}
      BY <1>3, <3>1
    <3>2. CASE s # {}
      <4>1. h[s] = f[Pick(s)] + g[s \ {Pick(s)}]
        BY <1>3, <3>2
      <4>2. Fold(f, h)[s] = f[Pick(s)] + h[s \ {Pick(s)}]
        BY <1>3, <3>2
      <4>3. g[s \ {Pick(s)}] = h[s \ {Pick(s)}]
        BY <2>1, <3>2
      <4>4. QED
        BY <4>1, <4>2, <4>3
    <3>3. QED
      BY <3>1, <3>2
  <2>3. DOMAIN f = D
    OBVIOUS
  <2>4. h = [s \in SUBSET D |-> h[s]] /\ Fold(f, h) = [s \in SUBSET D |-> Fold(f, h)[s]]
    BY <2>3 DEF Fold
  <2>5. QED
    BY <2>2, <2>4
<1> HIDE DEF h
<1>9. QED
  BY <1>8 DEF Sums

(* The sum over no element is zero. *)
LEMMA SumOfNone ==
  ASSUME NEW D, IsFiniteSet(D), NEW f \in [D -> Nat]
  PROVE  Sums(f)[{}] = 0
<1>1. Sums(f)[{}] = Fold(f, Sums(f))[{}]
  BY SumsExist
<1>2. QED
  BY <1>1 DEF Fold

(* The fold takes one element after the other. *)
LEMMA SumUnfolds ==
  ASSUME NEW D, IsFiniteSet(D), NEW f \in [D -> Nat], NEW s \in SUBSET D, s # {}
  PROVE  /\ Pick(s) \in s
         /\ Sums(f)[s] = f[Pick(s)] + Sums(f)[s \ {Pick(s)}]
<1>1. Sums(f)[s] = Fold(f, Sums(f))[s]
  BY SumsExist
<1>2. QED
  BY <1>1, PickIn DEF Fold

(* A sum is a natural number. *)
LEMMA SumType ==
  ASSUME NEW D, IsFiniteSet(D), NEW f \in [D -> Nat], NEW s \in SUBSET D
  PROVE  Sums(f)[s] \in Nat
<1> DEFINE B == {t \in SUBSET D : Sums(f)[t] \notin Nat}
<1>1. SUFFICES ASSUME B # {} PROVE FALSE
  OBVIOUS
<1>2. PICK t \in B : \A u \in B : u \subseteq t => u = t
  <2>1. B \in SUBSET SUBSET D
    OBVIOUS
  <2> HIDE DEF B
  <2>2. QED
    BY <1>1, <2>1, Minimal
<1>3. t # {} /\ t \in SUBSET D
  <2>1. Sums(f)[t] \notin Nat /\ t \in SUBSET D
    BY <1>2
  <2>2. Sums(f)[{}] = 0
    BY SumOfNone
  <2> HIDE DEF B
  <2>3. QED
    BY <2>1, <2>2
<1>4. Pick(t) \in t /\ Sums(f)[t] = f[Pick(t)] + Sums(f)[t \ {Pick(t)}]
  BY <1>3, SumUnfolds
<1>5. Sums(f)[t \ {Pick(t)}] \in Nat
  BY <1>2, <1>4
<1>6. QED
  BY <1>2, <1>4, <1>5

(* Any element may be taken out of a sum. *)
LEMMA SumWithout ==
  ASSUME NEW D, IsFiniteSet(D), NEW f \in [D -> Nat], NEW s \in SUBSET D, NEW x \in s
  PROVE  Sums(f)[s] = f[x] + Sums(f)[s \ {x}]
<1> DEFINE G == Sums(f)
           Right(t) == \A y \in t : G[t] = f[y] + G[t \ {y}]
           B == {t \in SUBSET D : ~Right(t)}
<1>1. \A t \in SUBSET D : G[t] \in Nat
  BY SumType
<1>2. \A t \in SUBSET D : t # {} => Pick(t) \in t /\ G[t] = f[Pick(t)] + G[t \ {Pick(t)}]
  BY SumUnfolds
<1> HIDE DEF G
<1>3. ASSUME B # {} PROVE FALSE
  <2>1. PICK t \in B : \A u \in B : u \subseteq t => u = t
    <3>1. B \in SUBSET SUBSET D
      OBVIOUS
    <3> HIDE DEF B
    <3>2. QED
      BY <1>3, <3>1, Minimal
  <2>2. PICK y \in t : G[t] # f[y] + G[t \ {y}]
    BY <2>1
  <2> DEFINE p == Pick(t)
  <2>3. p \in t /\ G[t] = f[p] + G[t \ {p}]
    BY <1>2, <2>1
  <2>4. p # y
    BY <2>2, <2>3
  <2>5. t \ {p} \notin B /\ t \ {y} \notin B /\ t \ {p} \in SUBSET D /\ t \ {y} \in SUBSET D
    BY <2>1, <2>2, <2>3
  <2>6. Right(t \ {p}) /\ Right(t \ {y})
    BY <2>5
  <2>7. G[t \ {p}] = f[y] + G[(t \ {p}) \ {y}] /\ G[t \ {y}] = f[p] + G[(t \ {y}) \ {p}]
    BY <2>2, <2>3, <2>4, <2>6
  <2>8. (t \ {p}) \ {y} = (t \ {y}) \ {p} /\ (t \ {p}) \ {y} \in SUBSET D
    BY <2>1
  <2>9. f[p] \in Nat /\ f[y] \in Nat /\ G[(t \ {p}) \ {y}] \in Nat
    BY <1>1, <2>1, <2>2, <2>3, <2>8
  <2>10. QED
    <3>1. G[t] = f[p] + (f[y] + G[(t \ {p}) \ {y}])
      BY <2>3, <2>7
    <3>2. f[y] + G[t \ {y}] = f[y] + (f[p] + G[(t \ {p}) \ {y}])
      BY <2>7, <2>8
    <3> HIDE DEF p
    <3>3. QED
      BY <2>2, <2>9, <3>1, <3>2
<1>4. QED
  BY <1>3 DEF G

(* The function h is f, raised by g on the set T. *)
Raised(D, f, T, g, h) ==
  /\ f \in [D -> Nat] /\ h \in [D -> Nat] /\ T \in SUBSET D /\ g \in [T -> Nat]
  /\ \A x \in D : h[x] = IF x \in T THEN f[x] + g[x] ELSE f[x]

(* It has the total of both. *)
LEMMA SumAdds ==
  ASSUME NEW D, IsFiniteSet(D), NEW f, NEW T, NEW g, NEW h, Raised(D, f, T, g, h)
  PROVE  Total(h) = Total(f) + Total(g)
<1> USE DEF Raised
<1> DEFINE F == Sums(f)
           G == Sums(g)
           H == Sums(h)
           Right(s) == H[s] = F[s] + G[s \cap T]
           B == {s \in SUBSET D : ~Right(s)}
<1>0. IsFiniteSet(T)
  BY FS_Subset
<1>1. \A s \in SUBSET D : F[s] \in Nat /\ H[s] \in Nat
  BY SumType
<1>2. \A s \in SUBSET T : G[s] \in Nat
  BY <1>0, SumType
<1>3. F[{}] = 0 /\ G[{}] = 0 /\ H[{}] = 0
  BY <1>0, SumOfNone
<1>4. ASSUME NEW s \in SUBSET D, NEW x \in s
      PROVE  F[s] = f[x] + F[s \ {x}] /\ H[s] = h[x] + H[s \ {x}]
  BY SumWithout
<1>5. ASSUME NEW s \in SUBSET T, NEW x \in s
      PROVE  G[s] = g[x] + G[s \ {x}]
  BY <1>0, SumWithout
<1>6. Total(f) = F[D] /\ Total(g) = G[T] /\ Total(h) = H[D]
  BY TotalIsSum
<1> HIDE DEF F, G, H
<1>7. ASSUME B # {} PROVE FALSE
  <2>1. PICK s \in B : \A u \in B : u \subseteq s => u = s
    <3>1. B \in SUBSET SUBSET D
      OBVIOUS
    <3> HIDE DEF B
    <3>2. QED
      BY <1>7, <3>1, Minimal
  <2>2. s # {}
    <3>1. {} \cap T = {} /\ Right({})
      BY <1>3
    <3>2. QED
      BY <2>1, <3>1
  <2>3. PICK x \in s : x \in D
    BY <2>1, <2>2
  <2> DEFINE u == s \ {x}
  <2>4. u \in SUBSET D /\ u \notin B
    BY <2>1, <2>3
  <2>5. H[u] = F[u] + G[u \cap T]
    BY <2>4
  <2>6. F[s] = f[x] + F[u] /\ H[s] = h[x] + H[u]
    BY <1>4, <2>1, <2>3
  <2>7. F[u] \in Nat /\ G[u \cap T] \in Nat /\ f[x] \in Nat
    BY <1>1, <1>2, <2>3, <2>4
  <2>8. CASE x \in T
    <3>1. s \cap T \in SUBSET T /\ x \in s \cap T /\ (s \cap T) \ {x} = u \cap T
      BY <2>3, <2>8
    <3>2. G[s \cap T] = g[x] + G[u \cap T]
      BY <1>5, <3>1
    <3>3. h[x] = f[x] + g[x] /\ g[x] \in Nat
      BY <2>3, <2>8
    <3>4. H[s] = F[s] + G[s \cap T]
      BY <2>5, <2>6, <2>7, <3>2, <3>3
    <3>5. QED
      BY <2>1, <3>4
  <2>9. CASE x \notin T
    <3>1. s \cap T = u \cap T
      BY <2>9
    <3>2. h[x] = f[x]
      BY <2>3, <2>9
    <3>3. H[s] = F[s] + G[s \cap T]
      BY <2>5, <2>6, <2>7, <3>1, <3>2
    <3>4. QED
      BY <2>1, <3>3
  <2>10. QED
    BY <2>8, <2>9
<1>8. D \cap T = T
  OBVIOUS
<1>9. Right(D)
  BY <1>7
<1>10. QED
  BY <1>6, <1>8, <1>9

(* The total of one number is that number. *)
LEMMA TotalOfOne ==
  ASSUME NEW x, NEW n \in Nat
  PROVE  Total([y \in {x} |-> n]) = n
<1> DEFINE g == [y \in {x} |-> n]
<1>1. g \in [{x} -> Nat] /\ DOMAIN g = {x} /\ g[x] = n
  OBVIOUS
<1>2. IsFiniteSet({x})
  BY FS_Singleton
<1>3. {x} \ {x} = {} /\ {x} \in SUBSET {x} /\ {} \in SUBSET {x} /\ x \in {x}
  OBVIOUS
<1>4. Total(g) = Sums(g)[{x}]
  BY <1>1, TotalIsSum
<1> HIDE DEF g
<1>5. Sums(g)[{x}] = g[x] + Sums(g)[{x} \ {x}]
  BY <1>1, <1>2, <1>3, SumWithout
<1>6. Sums(g)[{}] = 0
  BY <1>1, <1>2, SumOfNone
<1>7. Total(g) = n
  BY <1>1, <1>3, <1>4, <1>5, <1>6
<1>8. QED
  BY <1>7 DEF g

(* The total of nothing but zeros is zero. *)
LEMMA TotalOfZeros ==
  ASSUME NEW D, IsFiniteSet(D)
  PROVE  Total([x \in D |-> 0]) = 0
<1> DEFINE f == [x \in D |-> 0]
<1>1. f \in [D -> Nat] /\ DOMAIN f = D /\ \A x \in D : f[x] = 0
  OBVIOUS
<1>2. Total(f) = Sums(f)[D]
  BY <1>1, TotalIsSum
<1> HIDE DEF f
<1> DEFINE B == {s \in SUBSET D : Sums(f)[s] # 0}
<1>3. ASSUME B # {} PROVE FALSE
  <2>1. PICK s \in B : \A u \in B : u \subseteq s => u = s
    <3>1. B \in SUBSET SUBSET D
      OBVIOUS
    <3> HIDE DEF B
    <3>2. QED
      BY <1>3, <3>1, Minimal
  <2>2. s # {} /\ s \in SUBSET D
    BY <1>1, <2>1, SumOfNone
  <2>3. Pick(s) \in s /\ Sums(f)[s] = f[Pick(s)] + Sums(f)[s \ {Pick(s)}]
    <3> HIDE DEF B
    <3>1. f \in [D -> Nat]
      BY <1>1
    <3>2. QED
      BY <2>2, <3>1, SumUnfolds
  <2>4. Sums(f)[s \ {Pick(s)}] = 0 /\ f[Pick(s)] = 0
    BY <1>1, <2>1, <2>3
  <2>5. QED
    BY <2>1, <2>3, <2>4
<1>4. QED
  BY <1>2, <1>3 DEF f

-----------------------------------------------------------------------------
(* No cent is invented or lost. *)

(* What the payments allocated, and what the invoices received. *)
Allocated == [p \in Payments |-> IF payment[p] = Null THEN 0 ELSE payment[p].allocated]
Received == [i \in Invoices |-> invoice[i].applied]

(* Both columns hold natural numbers. *)
LEMMA ColumnTypes ==
  ASSUME TypeOK
  PROVE  Allocated \in [Payments -> Nat] /\ Received \in [Invoices -> Nat]
<1>1. \A p \in Payments : payment[p] # Null => payment[p].allocated \in Nat
  BY DEF TypeOK, PaymentRow
<1>2. \A i \in Invoices : invoice[i].applied \in Nat
  BY DEF TypeOK, InvoiceRow
<1>3. QED
  BY <1>1, <1>2 DEF Allocated, Received

(* So they do after a step that keeps the types. *)
LEMMA ColumnTypesNext ==
  ASSUME TypeOK'
  PROVE  Allocated' \in [Payments -> Nat] /\ Received' \in [Invoices -> Nat]
<1>1. \A p \in Payments : payment'[p] # Null => payment'[p].allocated \in Nat
  BY DEF TypeOK, PaymentRow
<1>2. \A i \in Invoices : invoice'[i].applied \in Nat
  BY DEF TypeOK, InvoiceRow
<1>3. QED
  BY <1>1, <1>2 DEF Allocated, Received

(* No request to InvoiceService touches the allocation rows. *)
LEMMA WrittenKeepsApplied ==
  ASSUME NEW r \in InvoiceRow, NEW q \in Requests
  PROVE  Written(q, r).applied = r.applied
<1>1. CASE q.op = "update"
  <2> DEFINE b == IF q.status = "VOID" THEN 0 ELSE r.outstanding
  <2>1. Written(q, r) = [r EXCEPT !.status = q.status, !.outstanding = b]
    BY <1>1 DEF Written
  <2> HIDE DEF b
  <2>2. QED
    BY <2>1 DEF InvoiceRow
<1>2. CASE q.op = "credit"
  <2>1. Written(q, r) = [r EXCEPT !.credit = @ + q.amount, !.outstanding = @ - q.amount]
    BY <1>2 DEF Written
  <2>2. QED
    BY <2>1 DEF InvoiceRow
<1>3. CASE q.op = "archive"
  <2>1. Written(q, r) =
          [r EXCEPT !.archivedFrom = q.status, !.status = "ARCHIVED", !.deleted = TRUE]
    BY <1>3 DEF Written
  <2>2. QED
    BY <2>1 DEF InvoiceRow
<1>4. CASE q.op = "restore"
  <2>1. Written(q, r) =
          [r EXCEPT !.status = q.status, !.archivedFrom = Null, !.deleted = FALSE]
    BY <1>4 DEF Written
  <2>2. QED
    BY <2>1 DEF InvoiceRow
<1>5. QED
  BY <1>1, <1>2, <1>3, <1>4 DEF Requests

(* Every step moves no money, or adds the same amount on both sides. *)
MoneyMoves ==
  \/ Allocated' = Allocated /\ Received' = Received
  \/ \E n \in Nat :
       /\ Total(Allocated') = Total(Allocated) + n
       /\ Total(Received') = Total(Received) + n

(* A request to InvoiceService moves no money. *)
LEMMA InvoicesMoveNothing ==
  ASSUME TypeOK, IInv,
         \/ \E i \in Invoices : InvoiceRequest(i)
         \/ \E c \in Clerks : Write(c)
         \/ UNCHANGED vars
  PROVE  Allocated' = Allocated /\ Received' = Received
<1>1. UNCHANGED payment
  BY DEF InvoiceRequest, ReadUpdate, ReadCredit, ReadArchive, ReadRestore, Ask, Create,
         Recalculate, Write, vars
<1>2. SUFFICES \A j \in Invoices : invoice'[j].applied = invoice[j].applied
  BY <1>1 DEF Allocated, Received
<1>3. CASE UNCHANGED invoice
  BY <1>3
<1>4. ASSUME NEW i \in Invoices, NEW s, s.applied = invoice[i].applied,
             invoice' = [invoice EXCEPT ![i] = s]
      PROVE  \A j \in Invoices : invoice'[j].applied = invoice[j].applied
  BY <1>4 DEF TypeOK
<1>5. ASSUME NEW i \in Invoices, NEW t \in Totals, NEW s \in {"DRAFT", "ISSUED"}, Create(i, t, s)
      PROVE  \A j \in Invoices : invoice'[j].applied = invoice[j].applied
  <2> DEFINE r == [Absent EXCEPT !.status = s, !.total = t, !.outstanding = t]
  <2>1. r.applied = 0 /\ invoice[i].applied = 0
    BY <1>5 DEF Create, IInv, AbsentUntouched, Absent
  <2>2. invoice' = [invoice EXCEPT ![i] = r]
    BY <1>5 DEF Create
  <2> HIDE DEF r
  <2>3. QED
    BY <1>4, <2>1, <2>2
<1>6. ASSUME NEW i \in Invoices, Recalculate(i)
      PROVE  \A j \in Invoices : invoice'[j].applied = invoice[j].applied
  <2> DEFINE r == [invoice[i] EXCEPT !.outstanding = Remaining(invoice[i]),
                                     !.status = RecalculatedStatus(invoice[i])]
  <2>1. r.applied = invoice[i].applied
    BY DEF TypeOK, InvoiceRow
  <2>2. invoice' = [invoice EXCEPT ![i] = r]
    BY <1>6 DEF Recalculate
  <2> HIDE DEF r
  <2>3. QED
    BY <1>4, <2>1, <2>2
<1>7. ASSUME NEW c \in Clerks, Write(c)
      PROVE  \A j \in Invoices : invoice'[j].applied = invoice[j].applied
  <2> DEFINE q == pending[c]
             r == Written(q, invoice[q.invoice])
  <2>1. q \in Requests /\ q.invoice \in Invoices /\ invoice[q.invoice] \in InvoiceRow
    BY <1>7 DEF Write, TypeOK, Requests
  <2>2. r.applied = invoice[q.invoice].applied
    BY <2>1, WrittenKeepsApplied
  <2>3. invoice' = [invoice EXCEPT ![q.invoice] = r] \/ invoice' = invoice
    BY <1>7 DEF Write
  <2> HIDE DEF q, r
  <2>4. QED
    BY <1>4, <2>1, <2>2, <2>3
<1>8. ASSUME NEW i \in Invoices, InvoiceRequest(i)
      PROVE  \A j \in Invoices : invoice'[j].applied = invoice[j].applied
  <2>1. CASE \/ \E c \in Clerks, s \in Statuses : ReadUpdate(c, i, s)
             \/ \E c \in Clerks, n \in Amounts : ReadCredit(c, i, n)
             \/ \E c \in Clerks : ReadArchive(c, i) \/ ReadRestore(c, i)
    BY <1>3, <2>1 DEF ReadUpdate, ReadCredit, ReadArchive, ReadRestore, Ask
  <2>2. QED
    BY <1>5, <1>6, <1>8, <2>1 DEF InvoiceRequest
<1>9. QED
  BY <1>3, <1>7, <1>8 DEF vars

(* The payment p now has n more allocated. *)
LEMMA AllocatedGrows ==
  ASSUME TypeOK, TypeOK', NEW p \in Payments, NEW n \in Nat,
         \A x \in Payments \ {p} : payment'[x] = payment[x],
         payment'[p] # Null, payment'[p].allocated = Allocated[p] + n
  PROVE  Total(Allocated') = Total(Allocated) + n
<1> DEFINE g == [y \in {p} |-> n]
           h == Allocated'
<1>1. Allocated \in [Payments -> Nat] /\ h \in [Payments -> Nat]
  BY ColumnTypes, ColumnTypesNext
<1>2. \A x \in Payments : h[x] = IF x \in {p} THEN Allocated[x] + g[x] ELSE Allocated[x]
  BY DEF Allocated
<1>3. g \in [{p} -> Nat] /\ {p} \in SUBSET Payments /\ Total(g) = n
  BY TotalOfOne
<1> HIDE DEF g, h
<1>4. Total(h) = Total(Allocated) + Total(g)
  <2>1. Raised(Payments, Allocated, {p}, g, h)
    BY <1>1, <1>2, <1>3 DEF Raised
  <2>2. QED
    BY <2>1, SumAdds, FiniteAssumption
<1>5. QED
  BY <1>3, <1>4 DEF h

(* The invoices of T received what g allots them. *)
LEMMA ReceivedGrows ==
  ASSUME TypeOK, TypeOK', NEW T \in SUBSET Invoices, NEW g \in [T -> Nat],
         \A i \in Invoices : invoice'[i].applied =
           IF i \in T THEN invoice[i].applied + g[i] ELSE invoice[i].applied
  PROVE  Total(Received') = Total(Received) + Total(g)
<1> DEFINE h == Received'
<1>1. Received \in [Invoices -> Nat] /\ h \in [Invoices -> Nat]
  BY ColumnTypes, ColumnTypesNext
<1>2. \A i \in Invoices : h[i] = IF i \in T THEN Received[i] + g[i] ELSE Received[i]
  BY DEF Received
<1> HIDE DEF h
<1>3. Total(h) = Total(Received) + Total(g)
  <2>1. Raised(Invoices, Received, T, g, h)
    BY <1>1, <1>2 DEF Raised
  <2>2. QED
    BY <2>1, SumAdds, FiniteAssumption
<1>4. QED
  BY <1>3 DEF h

(* Every step moves money evenly. *)
LEMMA MoneyStep == TypeOK /\ IInv /\ [Next]_vars => MoneyMoves
<1> SUFFICES ASSUME TypeOK, IInv, [Next]_vars PROVE MoneyMoves
  OBVIOUS
<1>1. TypeOK'
  BY StepHolds
<1>2. \A i \in Invoices : invoice[i] \in InvoiceRow /\ Sound(invoice[i])
  BY RowsOfIInv DEF TypeOK, RowsSound
<1>3. ASSUME NEW p \in Payments, NEW purpose \in Purposes, NEW S \in SUBSET Invoices,
             NEW f \in [S -> Amounts], NEW amount \in Amounts, NEW allocated \in Amounts,
             CreatePayment(p, purpose, S, f, amount, allocated)
      PROVE  MoneyMoves
  <2>1. allocated \in Nat /\ f \in [S -> Nat] /\ Total(f) = allocated
    BY <1>3, AmountAssumption DEF CreatePayment, Amounts
  <2>2. \A i \in S : Pay(invoice[i], f[i]).applied = invoice[i].applied + f[i]
    BY <1>2, <1>3, PayIsOnward, AmountAssumption DEF CreatePayment, Amounts
  <2>3. Total(Received') = Total(Received) + allocated
    <3>1. \A i \in Invoices : invoice'[i].applied =
            IF i \in S THEN invoice[i].applied + f[i] ELSE invoice[i].applied
      BY <1>3, <2>2 DEF CreatePayment
    <3>2. QED
      BY <1>1, <2>1, <3>1, ReceivedGrows
  <2>4. Total(Allocated') = Total(Allocated) + allocated
    <3> DEFINE row == [purpose |-> purpose, amount |-> amount, allocated |-> allocated,
                       unapplied |-> amount - allocated, reserved |-> 0]
    <3>1. payment[p] = Null /\ payment' = [payment EXCEPT ![p] = row]
      BY <1>3 DEF CreatePayment
    <3>2. row.allocated = allocated
      OBVIOUS
    <3> HIDE DEF row
    <3>3. \A x \in Payments : payment'[x] = IF x = p THEN row ELSE payment[x]
      BY <3>1 DEF TypeOK
    <3>4. payment'[p] # Null
      <4>1. amount - allocated \in Nat /\ amount \in Nat
        BY <1>3, AmountAssumption DEF CreatePayment, Amounts
      <4>2. row \in PaymentRow
        BY <2>1, <4>1 DEF PaymentRow, row
      <4>3. QED
        BY <3>3, <4>2, PaymentAssumption
    <3>5. Allocated[p] = 0
      BY <3>1 DEF Allocated
    <3>6. QED
      BY <1>1, <2>1, <3>2, <3>3, <3>4, <3>5, AllocatedGrows
  <2>5. QED
    BY <2>1, <2>3, <2>4 DEF MoneyMoves
<1>4. ASSUME NEW p \in Payments, NEW n \in Amounts, RequestRefund(p, n) PROVE MoneyMoves
  <2> DEFINE row == [payment[p] EXCEPT !.reserved = @ + n]
  <2>1. payment[p] # Null /\ payment[p] \in PaymentRow
    BY <1>4 DEF RequestRefund, TypeOK
  <2>2. row \in PaymentRow /\ row.allocated = payment[p].allocated
    <3>1. payment[p].reserved + n \in Nat
      BY <2>1, AmountAssumption DEF PaymentRow, Amounts
    <3>2. QED
      BY <2>1, <3>1 DEF PaymentRow
  <2>3. payment' = [payment EXCEPT ![p] = row] /\ UNCHANGED invoice
    BY <1>4 DEF RequestRefund
  <2> HIDE DEF row
  <2>4. \A x \in Payments : payment'[x] = IF x = p THEN row ELSE payment[x]
    BY <2>3 DEF TypeOK
  <2>5. payment'[p] # Null
    BY <2>2, <2>4, PaymentAssumption
  <2>6. Allocated' = Allocated
    BY <2>1, <2>2, <2>4, <2>5 DEF Allocated
  <2>7. Received' = Received
    BY <2>3 DEF Received
  <2>8. QED
    BY <2>6, <2>7 DEF MoneyMoves
<1>5. ASSUME NEW p \in Payments, NEW i \in Invoices, NEW n \in Amounts, AllocateAdvance(p, i, n)
      PROVE  MoneyMoves
  <2> DEFINE row == [payment[p] EXCEPT !.allocated = @ + n, !.unapplied = @ - n]
             g == [y \in {i} |-> n]
  <2>1. /\ payment[p] # Null /\ payment[p] \in PaymentRow /\ n \in Nat
        /\ payment[p].allocated \in Nat /\ n <= payment[p].unapplied
    BY <1>5, AmountAssumption DEF AllocateAdvance, TypeOK, PaymentRow, Amounts
  <2>2. row.allocated = payment[p].allocated + n /\ row \in PaymentRow
    <3>1. payment[p].allocated + n \in Nat /\ payment[p].unapplied - n \in Nat
      BY <2>1 DEF PaymentRow
    <3>2. QED
      BY <2>1, <3>1 DEF PaymentRow
  <2>3. payment' = [payment EXCEPT ![p] = row]
        /\ invoice' = [invoice EXCEPT ![i] = Pay(invoice[i], n)]
    BY <1>5 DEF AllocateAdvance
  <2>4. g \in [{i} -> Nat] /\ Total(g) = n /\ g[i] = n
    BY <2>1, TotalOfOne
  <2> HIDE DEF row, g
  <2>5. \A x \in Payments : payment'[x] = IF x = p THEN row ELSE payment[x]
    BY <2>3 DEF TypeOK
  <2>6. row # Null
    BY <2>2, PaymentAssumption
  <2>7. Allocated[p] = payment[p].allocated
    BY <2>1 DEF Allocated
  <2>8. Total(Allocated') = Total(Allocated) + n
    BY <1>1, <2>1, <2>2, <2>5, <2>6, <2>7, AllocatedGrows
  <2>9. Pay(invoice[i], n).applied = invoice[i].applied + n
    BY <1>2, <1>5, PayIsOnward, AmountAssumption DEF AllocateAdvance, Amounts
  <2>10. \A j \in Invoices : invoice'[j].applied =
           IF j \in {i} THEN invoice[j].applied + g[j] ELSE invoice[j].applied
    BY <2>3, <2>4, <2>9 DEF TypeOK
  <2>11. Total(Received') = Total(Received) + n
    BY <1>1, <2>4, <2>10, ReceivedGrows
  <2>12. QED
    BY <2>1, <2>8, <2>11 DEF MoneyMoves
<1>6. ASSUME NEW p \in Payments, PaymentRequest(p) PROVE MoneyMoves
  BY <1>3, <1>4, <1>5, <1>6 DEF PaymentRequest
<1>7. QED
  BY <1>6, InvoicesMoveNothing DEF Next, MoneyMoves

(* No cent is invented or lost: through every interleaving of payments, advances,  *)
(* refunds and clerks, what the payments allocated is what the invoices received.  *)
THEOREM NoCentLost == Spec => []AllocationsMatch
<1>1. AllocationsMatch <=> Total(Allocated) = Total(Received)
  BY DEF AllocationsMatch, Allocated, Received
<1>2. Init => AllocationsMatch
  <2> SUFFICES ASSUME Init PROVE Total(Allocated) = Total(Received)
    BY <1>1
  <2>1. Allocated = [p \in Payments |-> 0] /\ Received = [i \in Invoices |-> 0]
    BY DEF Init, Allocated, Received, Absent
  <2>2. QED
    BY <2>1, TotalOfZeros, FiniteAssumption
<1>3. TypeOK /\ IInv /\ AllocationsMatch /\ [Next]_vars => AllocationsMatch'
  <2> SUFFICES ASSUME TypeOK, IInv, Total(Allocated) = Total(Received), [Next]_vars
               PROVE  Total(Allocated') = Total(Received')
    BY DEF AllocationsMatch, Allocated, Received
  <2>1. MoneyMoves
    BY MoneyStep
  <2>2. QED
    BY <2>1 DEF MoneyMoves
<1>4. QED
  BY <1>2, <1>3, TypeCorrect, Inductive, PTL DEF Spec

-----------------------------------------------------------------------------
(* Refinement. *)

(* Every step of the ledger is a step of the accounts, or none. *)
LEMMA AccountStep == TypeOK /\ IInv /\ [Next]_vars => [Account!Next]_Account!vars
<1> SUFFICES ASSUME TypeOK, IInv, [Next]_vars PROVE [Account!Next]_Account!vars
  OBVIOUS
<1> DEFINE T == [i \in Invoices |-> invoice[i].total]
           C == [i \in Invoices |-> invoice[i].credit]
           R == [i \in Invoices |-> invoice[i].applied]
<1>1. \A i \in Invoices : /\ invoice[i] \in InvoiceRow
                          /\ Sound(invoice[i])
                          /\ Remaining(invoice[i]) = T[i] - C[i] - R[i]
  BY RowsOfIInv DEF TypeOK, RowsSound, Remaining
<1>2. CASE UNCHANGED invoice
  BY <1>2 DEF Account!vars
<1>3. ASSUME NEW i \in Invoices, NEW s, invoice' = [invoice EXCEPT ![i] = s],
             s.total = invoice[i].total, s.credit = invoice[i].credit,
             s.applied = invoice[i].applied
      PROVE  UNCHANGED Account!vars
  <2>1. T' = T /\ C' = C /\ R' = R
    BY <1>3 DEF TypeOK
  <2>2. QED
    BY <2>1 DEF Account!vars
<1>4. ASSUME T' = T, C' = C,
             \A i \in Invoices : R[i] <= R'[i] /\ R'[i] - R[i] <= Remaining(invoice[i])
      PROVE  Account!Next
  <2>1. R' = [i \in Invoices |-> R'[i]]
    OBVIOUS
  <2>2. Account!Receive
    BY <1>1, <1>4, <2>1 DEF Account!Receive, Account!Left
  <2>3. QED
    BY <2>2 DEF Account!Next
<1>5. ASSUME NEW i \in Invoices, NEW n \in Nat \ {0}, n <= T[i] - C[i] - R[i],
              T' = T, R' = R, C' = [C EXCEPT ![i] = @ + n]
       PROVE  Account!Next
  <2>1. n \in 1..Account!Left(i)
    <3>1. T[i] - C[i] - R[i] \in Int
      BY <1>1, RemainingType
    <3>2. QED
      BY <1>5, <3>1 DEF Account!Left
  <2>2. Account!Credit(i, n)
    BY <1>5 DEF Account!Credit, Account!Left
  <2>3. QED
    BY <2>1, <2>2 DEF Account!Next
<1>6. ASSUME NEW i \in Invoices, NEW t \in Totals, NEW s \in {"DRAFT", "ISSUED"}, Create(i, t, s)
      PROVE  Account!Next
  <2>1. T[i] = 0 /\ C[i] = 0 /\ R[i] = 0
    BY <1>6 DEF Create, IInv, AbsentUntouched, Absent
  <2>2. T' = [T EXCEPT ![i] = t] /\ C' = C /\ R' = R
    BY <1>6, <2>1 DEF Create, Absent, TypeOK
  <2>3. Account!Bill(i, t)
    BY <2>1, <2>2 DEF Account!Bill
  <2>4. QED
    BY <2>3 DEF Account!Next
<1>7. ASSUME NEW c \in Clerks, Write(c) PROVE [Account!Next]_Account!vars
  <2> DEFINE q == pending[c]
             i == q.invoice
             r == invoice[i]
  <2>1. q \in Requests /\ i \in Invoices /\ q.amount \in Nat
    BY <1>7 DEF Write, TypeOK, Requests
  <2>2. r \in InvoiceRow /\ Sound(r)
    BY <1>1, <2>1
  <2>3. ASSUME RowAllowed(Written(q, r)), q.op = "credit" PROVE [Account!Next]_Account!vars
    <3>1. invoice' = [invoice EXCEPT ![i] =
                        [r EXCEPT !.credit = @ + q.amount, !.outstanding = @ - q.amount]]
      BY <1>7, <2>3 DEF Write, Written
    <3>2. T' = T /\ R' = R /\ C' = [C EXCEPT ![i] = @ + q.amount]
      <4> DEFINE s == [r EXCEPT !.credit = @ + q.amount, !.outstanding = @ - q.amount]
      <4>1. s.total = r.total /\ s.applied = r.applied /\ s.credit = r.credit + q.amount
        BY <2>2 DEF InvoiceRow
      <4>2. invoice' = [invoice EXCEPT ![i] = s]
        BY <3>1
      <4> HIDE DEF s
      <4>3. QED
        BY <2>1, <4>1, <4>2 DEF TypeOK
    <3>3. q.amount <= r.outstanding
      <4>1. Written(q, r).outstanding = r.outstanding - q.amount
        BY <2>2, <2>3 DEF Written, InvoiceRow
      <4>2. QED
        BY <2>1, <2>2, <2>3, <4>1, RemainingType DEF RowAllowed
    <3>4. CASE q.amount = 0
      <4>1. C' = C
        BY <2>2, <3>2, <3>4, RemainingType
      <4>2. QED
        BY <3>2, <4>1 DEF Account!vars
    <3>5. CASE q.amount # 0
      <4>1. q.amount <= T[i] - C[i] - R[i]
        BY <1>1, <2>1, <2>2, <3>3, <3>5, RemainingType DEF Sound
      <4>2. QED
        BY <1>5, <2>1, <3>2, <3>5, <4>1
    <3>6. QED
      BY <3>4, <3>5
  <2>4. ASSUME q.op # "credit" PROVE UNCHANGED Account!vars
    <3>1. /\ Written(q, r).total = r.total /\ Written(q, r).credit = r.credit
          /\ Written(q, r).applied = r.applied
      BY <2>1, <2>2, <2>4 DEF Written, InvoiceRow, Requests
    <3>2. QED
      BY <1>2, <1>3, <1>7, <2>1, <3>1 DEF Write, Account!vars
  <2>5. QED
    BY <1>2, <1>7, <2>3, <2>4 DEF Write
<1>8. ASSUME NEW p \in Payments, NEW purpose \in Purposes, NEW S \in SUBSET Invoices,
             NEW f \in [S -> Amounts], NEW amount \in Amounts, NEW allocated \in Amounts,
             CreatePayment(p, purpose, S, f, amount, allocated)
      PROVE  Account!Next
  <2>1. \A i \in S : /\ f[i] \in Nat \ {0}
                     /\ Pay(invoice[i], f[i]).applied = invoice[i].applied + f[i]
                     /\ Pay(invoice[i], f[i]).total = invoice[i].total
                     /\ Pay(invoice[i], f[i]).credit = invoice[i].credit
                     /\ f[i] <= Remaining(invoice[i])
    BY <1>1, <1>8, PayIsOnward, AmountAssumption DEF CreatePayment, Amounts
  <2>2. \A i \in Invoices :
          invoice'[i] = IF i \in S THEN Pay(invoice[i], f[i]) ELSE invoice[i]
    BY <1>8 DEF CreatePayment
  <2>3. T' = T /\ C' = C
    BY <2>1, <2>2
  <2>4. ASSUME NEW i \in Invoices
        PROVE  R[i] <= R'[i] /\ R'[i] - R[i] <= Remaining(invoice[i])
    <3>1. R[i] \in Nat /\ Remaining(invoice[i]) \in Nat
      BY <1>1, RemainingType DEF Sound
    <3>2. R'[i] = R[i] \/ \E n \in Nat \ {0} : R'[i] = R[i] + n /\ n <= Remaining(invoice[i])
      BY <2>1, <2>2
    <3>3. QED
      BY <3>1, <3>2
  <2>5. QED
    BY <1>4, <2>3, <2>4
<1>9. ASSUME NEW p \in Payments, NEW j \in Invoices, NEW n \in Amounts, AllocateAdvance(p, j, n)
      PROVE  Account!Next
  <2> DEFINE s == Pay(invoice[j], n)
  <2>1. n \in Nat \ {0} /\ s.applied = invoice[j].applied + n /\ n <= Remaining(invoice[j])
        /\ s.total = invoice[j].total /\ s.credit = invoice[j].credit
    BY <1>1, <1>9, PayIsOnward, AmountAssumption DEF AllocateAdvance, Amounts
  <2>2. invoice' = [invoice EXCEPT ![j] = s]
    BY <1>9 DEF AllocateAdvance
  <2> HIDE DEF s
  <2>3. T' = T /\ C' = C /\ \A i \in Invoices : R'[i] = IF i = j THEN R[i] + n ELSE R[i]
    BY <2>1, <2>2 DEF TypeOK
  <2>4. ASSUME NEW i \in Invoices
        PROVE  R[i] <= R'[i] /\ R'[i] - R[i] <= Remaining(invoice[i])
    <3>1. R[i] \in Nat /\ Remaining(invoice[i]) \in Nat
      BY <1>1, RemainingType DEF Sound
    <3>2. R'[i] = IF i = j THEN R[i] + n ELSE R[i]
      BY <2>3
    <3> HIDE DEF R
    <3>3. QED
      BY <2>1, <3>1, <3>2
  <2>5. QED
    BY <1>4, <2>3, <2>4
<1>10. ASSUME NEW i \in Invoices, Recalculate(i) PROVE UNCHANGED Account!vars
  <2> DEFINE s == [invoice[i] EXCEPT !.outstanding = Remaining(invoice[i]),
                                     !.status = RecalculatedStatus(invoice[i])]
  <2>1. s.total = invoice[i].total /\ s.credit = invoice[i].credit
        /\ s.applied = invoice[i].applied
    BY <1>1 DEF InvoiceRow
  <2>2. invoice' = [invoice EXCEPT ![i] = s]
    BY <1>10 DEF Recalculate
  <2>3. QED
    BY <1>3, <2>1, <2>2
<1>11. ASSUME NEW i \in Invoices, InvoiceRequest(i) PROVE [Account!Next]_Account!vars
  <2>1. CASE \/ \E c \in Clerks, s \in Statuses : ReadUpdate(c, i, s)
             \/ \E c \in Clerks, n \in Amounts : ReadCredit(c, i, n)
             \/ \E c \in Clerks : ReadArchive(c, i) \/ ReadRestore(c, i)
    BY <1>2, <2>1 DEF ReadUpdate, ReadCredit, ReadArchive, ReadRestore, Ask
  <2>2. QED
    BY <1>6, <1>10, <1>11, <2>1 DEF InvoiceRequest
<1>12. ASSUME NEW p \in Payments, PaymentRequest(p) PROVE [Account!Next]_Account!vars
  <2>1. CASE \E n \in Amounts : RequestRefund(p, n)
    BY <1>2, <2>1 DEF RequestRefund
  <2>2. QED
    BY <1>8, <1>9, <1>12, <2>1 DEF PaymentRequest
<1>13. QED
  BY <1>2, <1>7, <1>11, <1>12 DEF Next, vars

(* The ledger implements plain accounts: billed once, credited and paid within what *)
(* is left.                                                                         *)
THEOREM Refinement == Spec => ImplementsAccount
<1>1. Init => Account!Init
  BY DEF Init, Absent, Account!Init
<1>2. QED
  BY <1>1, AccountStep, TypeCorrect, Inductive, PTL DEF Spec, ImplementsAccount, Account!Spec

=============================================================================
