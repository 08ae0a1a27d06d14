------------------------------ MODULE MCPlatform ------------------------------
(***************************************************************************)
(* An instance for TLC of five parts that share nothing: the lifecycle of  *)
(* an organization, its settings and compliance records, its roles and     *)
(* portfolios, the throttles and the worker's runtime.  A behaviour picks  *)
(* one of them at the start and takes its steps alone, so that the parts'  *)
(* states add up instead of multiplying.                                   *)
(***************************************************************************)
EXTENDS OrganizationLifecycle, OrganizationRecords, Portfolio, RequestThrottle, WorkerRuntime, TLC

CONSTANTS q1, q2, q3, e1, e2, m1, m2, r1, r2, p1, p2, a1, s1, s2, LOW, HIGH

MCRequests == {q1, q2, q3}
MCEditors == {e1, e2}
MCValues == {LOW, HIGH}
MCClients == {q1, q2}
MCAddresses == {a1}
MCSubjects == {s1, s2}

(* An administrator and a property manager with a custom role, one property and another *)
(* that can be created.                                                                 *)
MCMembers == {m1, m2}
MCRoles == {r1, r2}
MCProperties == {p1, p2}
MCCallers == {q1, q2}
MCOwned == {}

Plain(default) == [permissions |-> {"manage"}, default |-> default, deleted |-> FALSE]
MCPrior ==
  [role : {[r \in MCRoles |-> IF r = r1 THEN Plain(default) ELSE Absent] : default \in BOOLEAN},
   holds : {{<<m1, System>>, <<m2, r1>>}},
   assigned : {{}, {<<m2, p1>>}},
   property : {[p \in MCProperties |-> IF p = p1 THEN "active" ELSE "absent"]}]

MCAsks ==
  [op : {"create"}, role : {r2}, default : {TRUE}]
    \cup [op : {"update"}, role : {r1, r2}, default : {TRUE}]
    \cup [op : {"delete"}, role : {r1}]
    \cup [op : {"permit"}, role : {r1}, permissions : {{"all"}, {"roles"}}, replace : BOOLEAN]
    \cup [op : {"assign"}, role : {r2}, member : {m2}]
    \cup [op : {"remove"}, role : {r1, System}, member : {m1, m2}]
    \cup [op : {"replace"}, member : {m2}, properties : SUBSET MCProperties]
    \cup [op : {"createProperty", "archive", "restore", "touch"}, property : MCProperties]

-----------------------------------------------------------------------------

VARIABLE focus  \* the part whose steps are taken

Init ==
  /\ focus \in {"lifecycle", "records", "portfolio", "throttle", "worker"}
  /\ OrgInit /\ RecordsInit /\ PortfolioInit /\ ThrottleInit /\ WorkerInit
  /\ focus # "lifecycle" => approval = Null
  /\ focus # "records" => row["compliance"].value = LOW
  /\ focus # "portfolio" => assigned = {} /\ ~role[r1].default
  /\ focus # "worker" => up = {}

Rest(f) ==
  /\ f # "lifecycle" => UNCHANGED orgVars
  /\ f # "records" => UNCHANGED recordVars
  /\ f # "portfolio" => UNCHANGED portfolioVars
  /\ f # "throttle" => UNCHANGED throttleVars
  /\ f # "worker" => UNCHANGED workerVars

Next ==
  /\ UNCHANGED focus
  /\ Rest(focus)
  /\ \/ focus = "lifecycle" /\ OrgNext
     \/ focus = "records" /\ RecordsNext
     \/ focus = "portfolio" /\ PortfolioNext
     \/ focus = "throttle" /\ ThrottleNext
     \/ focus = "worker" /\ WorkerNext

Spec == Init /\ [][Next]_<<focus, orgVars, recordVars, portfolioVars, throttleVars, workerVars>>

=============================================================================
