------------------------------- MODULE Leasing -------------------------------
(***************************************************************************)
(* The leases of one unit (apps/api/src/rental/lease.service.ts), their    *)
(* billing calendars and rent schedules (billing.service.ts) and the       *)
(* occupancy of the unit (apps/api/src/property/property.service.ts).      *)
(*                                                                         *)
(* A request reads the lease, and what else it decides on, before its      *)
(* transaction, which then writes by id: other requests run in between.    *)
(* The rows keep the database's constraints; a transaction that violates   *)
(* one is refused.  Who may act is in Portfolio; parties, documents, terms,*)
(* deposits, amounts and audit events are left out.                        *)
(***************************************************************************)
EXTENDS RentCalendar, FiniteSets

CONSTANTS
  Leases,
  StartsAt,      \* the first day of each lease, given at creation and never changed
  Asks,          \* what requests may ask for: see AllAsks
  Prior,         \* what earlier requests may have left: lease, calendar
  Requests,      \* requests in flight
  MaxRequests,   \* bound: the requests of a behaviour
  Null           \* no lease, no calendar, no watermark, no request

LeaseStatuses == {"DRAFT", "ACTIVE", "NOTICE_TERMINATED", "EXPIRED", "ARCHIVED"}
OccupancyStatuses == {"VACANT", "OCCUPIED", "RESERVED"}
Days == Nat

Lease == [status : LeaseStatuses, deleted : BOOLEAN, ends : Days]
Calendar == [cycle : Cycles, customDays : Nat, archived : BOOLEAN]

LeaseAsks ==
  [op : {"create", "renew"}, lease : Leases, ends : Days]
    \cup [op : {"update"}, lease : Leases, status : LeaseStatuses]
    \cup [op : {"terminate", "archive", "restore"}, lease : Leases]
BillingAsks ==
  [op : {"createBilling"}, lease : Leases, calendar : Calendar]
    \cup [op : {"updateBilling"}, lease : Leases, archived : BOOLEAN]
    \cup [op : {"generate"}, lease : Leases, through : Days]
OccupancyAsks == [op : {"occupy"}, status : OccupancyStatuses]
AllAsks == LeaseAsks \cup BillingAsks \cup OccupancyAsks

(* validateCycle: without an interval, customDays is 0 here. *)
ValidCycle(c) == c.cycle = "CUSTOM" <=> c.customDays > 0

(* What requests have read, and keep until their transaction. *)
Row == [sequence : Nat, starts : Days, ends : Days, cut : BOOLEAN]
Seen ==
  {Null} \cup Days \cup [ends : Days, calendar : Calendar]
    \cup (SUBSET Row) \cup (SUBSET (Nat \X OccupancyStatuses))
InFlight == [ask : Asks, phase : {"read", "ready"}, seen : Seen, number : Nat]

ASSUME LeasingAssumption ==
  /\ Asks \subseteq AllAsks
  /\ IsFiniteSet(Leases)
  /\ StartsAt \in [Leases -> Days]
  /\ MaxRequests \in Nat

ASSUME NullAssumption == Null \notin Lease \cup Calendar \cup Days \cup InFlight

ASSUME PriorAssumption ==
  \A s \in Prior :
    /\ s.lease \in [Leases -> Lease \cup {Null}]
    /\ s.calendar \in [Leases -> Calendar \cup {Null}]
    /\ \A l \in Leases : s.calendar[l] # Null => ValidCycle(s.calendar[l])

VARIABLES
  lease,      \* the rows of "Lease"
  calendar,   \* "LeaseBillingCalendar"
  schedule,   \* "LeaseRentSchedule" of each lease
  through,    \* schedulesGeneratedThrough
  unit,       \* occupancyStatus of the unit
  open,       \* "UnitOccupancy" that have not ended: <<number, status>>
  request,
  begun,      \* how many requests have begun; numbers the occupancies too
  raced       \* history: what happened beside each request, see Observe

rental == <<lease, calendar, schedule, through>>
occupancy == <<unit, open>>
vars == <<rental, occupancy, request, begun, raced>>

TypeOK ==
  /\ lease \in [Leases -> Lease \cup {Null}]
  /\ calendar \in [Leases -> Calendar \cup {Null}]
  /\ schedule \in [Leases -> SUBSET Row]
  /\ through \in [Leases -> Days \cup {Null}]
  /\ unit \in OccupancyStatuses
  /\ open \subseteq Nat \X OccupancyStatuses
  /\ request \in [Requests -> InFlight \cup {Null}]
  /\ begun \in 0..MaxRequests

-----------------------------------------------------------------------------
(* Helpers *)

Live(l) == lease[l] # Null /\ ~lease[l].deleted
Holds(row) == row # Null /\ ~row.deleted /\ row.status \in {"ACTIVE", "NOTICE_TERMINATED"}

(* activeLeaseForUnit *)
HeldByAnother(l) == \E x \in Leases \ {l} : Holds(lease[x])

(* Mutant: no unique index. *)
HeldByAnyNumber(rows) == TRUE

(* The index Lease_one_active_per_unit_key. *)
HeldOnce(rows) == Cardinality({l \in Leases : Holds(rows[l])}) <= 1

(* Mutant: no unique indexes. *)
FitsAnyway(rows, more) == TRUE

(* The unique indexes of LeaseRentSchedule. *)
Fits(rows, more) ==
  \A r \in rows, x \in more : r.sequence # x.sequence /\ r.starts # x.starts

Last(rows) == CHOOSE r \in rows : \A x \in rows : x.sequence <= r.sequence

Asked(q, op, phase) == request[q] # Null /\ request[q].ask.op = op /\ request[q].phase = phase
Begin(q, ask, phase, seen) ==
  /\ request[q] = Null
  /\ begun < MaxRequests
  /\ begun' = begun + 1
  /\ request' = [request EXCEPT ![q] =
       [ask |-> ask, phase |-> phase, seen |-> seen, number |-> begun + 1]]
Continue(q, seen) ==
  /\ request' = [request EXCEPT ![q].phase = "ready", ![q].seen = seen]
  /\ UNCHANGED begun
End(q) == request' = [request EXCEPT ![q] = Null] /\ UNCHANGED begun

(* The transaction writes one lease, or is refused by the index. *)
SaveLease(q, row) ==
  LET rows == [lease EXCEPT ![request[q].ask.lease] = row] IN
  /\ HeldOnce(rows)
  /\ lease' = rows
  /\ End(q)
  /\ UNCHANGED <<calendar, schedule, through, occupancy>>

-----------------------------------------------------------------------------
(* Leases *)

(* create: assertDateRange; the unit is there. *)
BeginCreate(q, ask) ==
  /\ ask.op = "create" /\ StartsAt[ask.lease] < ask.ends
  /\ Begin(q, ask, "ready", Null)
  /\ UNCHANGED <<rental, occupancy>>

(* The code of the lease is unique. *)
CreateLease(q) ==
  /\ Asked(q, "create", "ready")
  /\ lease[request[q].ask.lease] = Null
  /\ SaveLease(q, [status |-> "DRAFT", deleted |-> FALSE, ends |-> request[q].ask.ends])

BeginUpdate(q, ask) ==
  /\ ask.op = "update" /\ Live(ask.lease)
  /\ ask.status = "ACTIVE" /\ lease[ask.lease].status # "ACTIVE" => ~HeldByAnother(ask.lease)
  /\ Begin(q, ask, "ready", Null)
  /\ UNCHANGED <<rental, occupancy>>

UpdateLease(q) ==
  /\ Asked(q, "update", "ready")
  /\ SaveLease(q, [lease[request[q].ask.lease] EXCEPT !.status = request[q].ask.status])

(* Mutant: any end date is a renewal. *)
BeginRenewAnyhow(q, ask) ==
  /\ ask.op = "renew" /\ Live(ask.lease)
  /\ Begin(q, ask, "ready", lease[ask.lease].ends)
  /\ UNCHANGED <<rental, occupancy>>

BeginRenew(q, ask) ==
  /\ ask.op = "renew" /\ Live(ask.lease)
  /\ ask.ends > lease[ask.lease].ends
  /\ Begin(q, ask, "ready", lease[ask.lease].ends)
  /\ UNCHANGED <<rental, occupancy>>

(* The renewal is filed with the end that was read: LeaseRenewal_dates_check holds. *)
RenewLease(q) ==
  /\ Asked(q, "renew", "ready")
  /\ SaveLease(q, [lease[request[q].ask.lease] EXCEPT !.status = "ACTIVE", !.ends = request[q].ask.ends])

(* restore finds the lease deleted or not. *)
BeginEnd(q, ask) ==
  /\ ask.op \in {"terminate", "archive", "restore"}
  /\ IF ask.op = "restore" THEN lease[ask.lease] # Null ELSE Live(ask.lease)
  /\ Begin(q, ask, "ready", Null)
  /\ UNCHANGED <<rental, occupancy>>

TerminateLease(q) ==
  /\ Asked(q, "terminate", "ready")
  /\ SaveLease(q, [lease[request[q].ask.lease] EXCEPT !.status = "NOTICE_TERMINATED"])

ArchiveLease(q) ==
  /\ Asked(q, "archive", "ready")
  /\ SaveLease(q, [lease[request[q].ask.lease] EXCEPT !.status = "ARCHIVED", !.deleted = TRUE])

RestoreLease(q) ==
  /\ Asked(q, "restore", "ready")
  /\ SaveLease(q, [lease[request[q].ask.lease] EXCEPT !.status = "DRAFT", !.deleted = FALSE])

-----------------------------------------------------------------------------
(* Billing *)

(* The lease has no calendar yet. *)
BeginCreateBilling(q, ask) ==
  /\ ask.op = "createBilling" /\ Live(ask.lease)
  /\ calendar[ask.lease] = Null
  /\ ValidCycle(ask.calendar)
  /\ Begin(q, ask, "ready", Null)
  /\ UNCHANGED <<rental, occupancy>>

(* The index LeaseBillingCalendar_leaseId_key. *)
CreateBilling(q) ==
  /\ Asked(q, "createBilling", "ready")
  /\ calendar[request[q].ask.lease] = Null
  /\ calendar' = [calendar EXCEPT ![request[q].ask.lease] = request[q].ask.calendar]
  /\ End(q)
  /\ UNCHANGED <<lease, schedule, through, occupancy>>

BeginUpdateBilling(q, ask) ==
  /\ ask.op = "updateBilling" /\ Live(ask.lease)
  /\ calendar[ask.lease] # Null
  /\ Begin(q, ask, "ready", Null)
  /\ UNCHANGED <<rental, occupancy>>

UpdateBilling(q) ==
  /\ Asked(q, "updateBilling", "ready")
  /\ calendar' = [calendar EXCEPT ![request[q].ask.lease].archived = request[q].ask.archived]
  /\ End(q)
  /\ UNCHANGED <<lease, schedule, through, occupancy>>

(* generateSchedules: the lease with its calendar, *)
BeginGenerate(q, ask) ==
  /\ ask.op = "generate" /\ Live(ask.lease)
  /\ calendar[ask.lease] # Null
  /\ ~calendar[ask.lease].archived
  /\ ask.through > StartsAt[ask.lease]
  /\ Begin(q, ask, "read", [ends |-> lease[ask.lease].ends, calendar |-> calendar[ask.lease]])
  /\ UNCHANGED <<rental, occupancy>>

Earlier(a, b) == IF a < b THEN a ELSE b

(* then the last schedule, from which the rows are built. *)
ReadLastSchedule(q) ==
  /\ Asked(q, "generate", "read")
  /\ LET ask == request[q].ask  seen == request[q].seen  rows == schedule[ask.lease] IN
       Continue(q, BuildSchedules(seen.calendar,
         IF rows = {} THEN StartsAt[ask.lease] ELSE Last(rows).ends,
         IF rows = {} THEN 1 ELSE Last(rows).sequence + 1,
         Earlier(ask.through, seen.ends)))
  /\ UNCHANGED <<rental, occupancy>>

GenerateSchedules(q) ==
  /\ Asked(q, "generate", "ready")
  /\ LET ask == request[q].ask  rows == request[q].seen IN
       /\ rows # {}
       /\ Fits(schedule[ask.lease], rows)
       /\ schedule' = [schedule EXCEPT ![ask.lease] = @ \cup rows]
       /\ through' = [through EXCEPT ![ask.lease] = Last(rows).ends]
  /\ End(q)
  /\ UNCHANGED <<lease, calendar, occupancy>>

-----------------------------------------------------------------------------
(* Occupancy *)

BeginOccupy(q, ask) ==
  /\ ask.op = "occupy"
  /\ Begin(q, ask, "read", {})
  /\ UNCHANGED <<rental, occupancy>>

(* Mutant: the occupancy before is left open. *)
CloseNone(q) ==
  /\ Asked(q, "occupy", "read")
  /\ Continue(q, {})
  /\ UNCHANGED <<rental, occupancy>>

(* The statement ends the occupancies that are open as it begins; the row locks only    *)
(* decide which of two transactions commits first.                                       *)
CloseOccupancies(q) ==
  /\ Asked(q, "occupy", "read")
  /\ Continue(q, open)
  /\ UNCHANGED <<rental, occupancy>>

Occupy(q) ==
  /\ Asked(q, "occupy", "ready")
  /\ LET status == request[q].ask.status IN
       /\ open' = (open \ request[q].seen) \cup {<<request[q].number, status>>}
       /\ unit' = status
  /\ End(q)
  /\ UNCHANGED rental

(* A request is refused, finds nothing to do, or fails. *)
Refuse(q) ==
  /\ request[q] # Null
  /\ End(q)
  /\ UNCHANGED <<rental, occupancy>>

-----------------------------------------------------------------------------

(* While a request is in flight: the ends its lease has had, and the occupancies that    *)
(* were opened since it closed the others.                                               *)
Observe ==
  raced' = [q \in Requests |->
    CASE request'[q] = Null -> {}
      [] request'[q].ask.op = "renew" ->
           raced[q] \cup (LET l == request'[q].ask.lease IN
                          IF request[q] # Null /\ lease'[l] # lease[l] THEN {lease'[l].ends} ELSE {})
      [] Asked(q, "occupy", "ready") -> raced[q] \cup (open' \ open)
      [] OTHER -> {}]

Init ==
  /\ \E s \in Prior : lease = s.lease /\ calendar = s.calendar /\ HeldOnce(s.lease)
  /\ schedule = [l \in Leases |-> {}]
  /\ through = [l \in Leases |-> Null]
  /\ unit = "VACANT" /\ open = {}
  /\ request = [q \in Requests |-> Null]
  /\ begun = 0
  /\ raced = [q \in Requests |-> {}]

Step(q) ==
  \/ \E ask \in Asks :
       \/ BeginCreate(q, ask) \/ BeginUpdate(q, ask) \/ BeginRenew(q, ask) \/ BeginEnd(q, ask)
       \/ BeginCreateBilling(q, ask) \/ BeginUpdateBilling(q, ask) \/ BeginGenerate(q, ask)
       \/ BeginOccupy(q, ask)
  \/ CreateLease(q) \/ UpdateLease(q) \/ RenewLease(q)
  \/ TerminateLease(q) \/ ArchiveLease(q) \/ RestoreLease(q)
  \/ CreateBilling(q) \/ UpdateBilling(q) \/ ReadLastSchedule(q) \/ GenerateSchedules(q)
  \/ CloseOccupancies(q) \/ Occupy(q)
  \/ Refuse(q)

Next == (\E q \in Requests : Step(q)) /\ Observe

Spec == Init /\ [][Next]_vars

-----------------------------------------------------------------------------
(* Properties *)

(* "The unit already has an active lease": whatever activates a lease, be it an update   *)
(* that looked before another one wrote, a renewal, a notice or a restore, the unit is   *)
(* never held by two leases.                                                             *)
OneActiveLease == \A l, x \in Leases : Holds(lease[l]) /\ Holds(lease[x]) => l = x

(* A lease ends earlier than it did only when the renewal that says so was decided on    *)
(* before another renewal of the lease came in between.                                  *)
EndMovesBackOnlyInRace ==
  [][\A l \in Leases : lease[l] # Null /\ lease'[l].ends < lease[l].ends =>
       \E q \in Requests : Asked(q, "renew", "ready") /\ request[q].ask.lease = l
                           /\ request'[q] = Null /\ lease[l].ends \in raced[q]]_vars

(* The periods of a lease are billed once each: the rows are numbered from one without a *)
(* gap, each begins where the one before it ends, the first with the lease, and the      *)
(* watermark is the end of the last one; however often, through whatever day and beside  *)
(* whatever renewal schedules are generated.                                             *)
PeriodsTile ==
  \A l \in Leases :
    LET rows == schedule[l] IN
    /\ \A r \in rows : r.sequence \in 1..Cardinality(rows) /\ r.starts < r.ends
    /\ \A r, x \in rows : r.sequence = x.sequence => r = x
    /\ \A r \in rows : IF r.sequence = 1 THEN r.starts = StartsAt[l]
                       ELSE \E x \in rows : x.sequence = r.sequence - 1 /\ x.ends = r.starts
    /\ through[l] = IF rows = {} THEN Null ELSE Last(rows).ends

(* Whole periods of a lease that is billed by the month follow the calendar: the next    *)
(* one begins a month (three, six, twelve) later, on the same day; where that month has  *)
(* no such day, in the first days of the month after, and February has no period.        *)
PeriodsFollowCalendar ==
  \A l \in Leases : calendar[l] # Null /\ Months(calendar[l].cycle) > 0 =>
    \A r \in schedule[l] :
      LET month == MonthOf(r.starts) + Months(calendar[l].cycle)  short == MonthLength(month) IN
      \/ r.cut
      \/ MonthOf(r.ends) = month /\ DayOf(r.ends) = DayOf(r.starts)
      \/ MonthOf(r.ends) = month + 1 /\ DayOf(r.starts) >= short /\ DayOf(r.ends) = DayOf(r.starts) - short

(* When an occupancy begins, those before it have ended: beside it only what other       *)
(* updates opened since it ended the others is left, and the unit has its status.        *)
OccupancyIsExact ==
  [][\A q \in Requests : Asked(q, "occupy", "ready") /\ open' # open /\ request'[q] = Null =>
       open' \subseteq {<<request[q].number, unit'>>} \cup raced[q]]_vars

=============================================================================
