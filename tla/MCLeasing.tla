------------------------------ MODULE MCLeasing ------------------------------
(* An instance of Leasing for TLC: a unit with two leases that begin on 31 December 2027, *)
(* before the end of a year and the February of a leap year.                              *)
EXTENDS Leasing, TLC

CONSTANTS l1, l2, q1, q2

MCLeases == {l1, l2}
MCRequests == {q1, q2}
Day(n) == 334 + n  \* counted from 1 December 2027
MCStartsAt == [l \in MCLeases |-> Day(30)]

Billing(cycle) ==
  [cycle |-> cycle, customDays |-> IF cycle = "CUSTOM" THEN 40 ELSE 0, archived |-> FALSE]
LeaseRow(status) == [status |-> status, deleted |-> FALSE, ends |-> Day(150)]

MCPrior ==
  [lease : {[l \in MCLeases |-> IF l = l1 THEN LeaseRow(status) ELSE other] :
              status \in {"DRAFT", "ACTIVE"}, other \in {LeaseRow("DRAFT"), Null}},
   calendar : {[l \in MCLeases |-> IF l = l1 THEN Billing(cycle) ELSE Null] :
                 cycle \in {"MONTHLY", "QUARTERLY", "CUSTOM"}}]

MCAsks ==
  [op : {"create"}, lease : {l2}, ends : {Day(150)}]
    \cup [op : {"renew"}, lease : {l1}, ends : {Day(160), Day(200)}]
    \cup [op : {"renew"}, lease : {l2}, ends : {Day(200)}]
    \cup [op : {"update"}, lease : MCLeases, status : {"ACTIVE"}]
    \cup [op : {"terminate", "archive", "restore"}, lease : {l1}]
    \cup [op : {"createBilling"}, lease : {l2}, calendar : {Billing("WEEKLY")}]
    \cup [op : {"updateBilling"}, lease : {l1}, archived : BOOLEAN]
    \cup [op : {"generate"}, lease : {l1}, through : {Day(100), Day(130), Day(250)}]
    \cup [op : {"occupy"}, status : {"VACANT", "OCCUPIED"}]

=============================================================================
