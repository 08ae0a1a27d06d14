------------------------------ MODULE Portfolio ------------------------------
(***************************************************************************)
(* Who may do what in an organization: its roles and their permissions     *)
(* (apps/api/src/organization/role.service.ts), the properties assigned to *)
(* its members (portfolio-assignment.service.ts), and the requests that    *)
(* act on a property or on what belongs to one                             *)
(* (identity/authorization/portfolio-access.service.ts).                   *)
(*                                                                         *)
(* Every request decides on rows it has read before: the queries of a      *)
(* scope, and the check and the writes of a READ COMMITTED transaction,    *)
(* are steps, and the other requests run in between.  The members stay     *)
(* active; a unit, lease, schedule, invoice or payment is named by its     *)
(* property, which no operation changes.  Names, audit events and outbox   *)
(* rows are left out, and a request that is refused ends.                  *)
(***************************************************************************)
EXTENDS FiniteSets, Naturals

CONSTANTS
  Members,
  Roles,           \* custom roles; beside them there is the system role System
  System,
  Properties,
  Owned,           \* PropertyOwnership, which no operation of the API writes
  Asks,            \* what requests may ask for: see AllAsks
  Prior,           \* what earlier requests may have left: role, holds, assigned, property
  Callers,         \* requests in flight
  MaxRequests,     \* bound: the requests of a behaviour
  Absent           \* no role, no request

Permissions == {"manage", "all", "members", "roles"}
PropertyStatuses == {"absent", "active", "archived"}

RoleAsks ==
  [op : {"create", "update"}, role : Roles, default : BOOLEAN]
    \cup [op : {"delete"}, role : Roles]
    \cup [op : {"permit"}, role : Roles, permissions : SUBSET Permissions, replace : BOOLEAN]
    \cup [op : {"assign", "remove"}, role : Roles \cup {System}, member : Members]
ReplaceAsks == [op : {"replace"}, member : Members, properties : SUBSET Properties]
PropertyAsks == [op : {"createProperty", "archive", "restore", "touch"}, property : Properties]
AllAsks == RoleAsks \cup ReplaceAsks \cup PropertyAsks

ASSUME AskAssumption ==
  /\ Asks \subseteq AllAsks
  /\ Owned \subseteq Members \X Properties
  /\ System \notin Roles /\ IsFiniteSet(Roles) /\ MaxRequests \in Nat

Role == [permissions : SUBSET Permissions, default : BOOLEAN, deleted : BOOLEAN]

(* found: the permissions of the role, the other default roles, the assignments to revoke, *)
(* or the properties of the scope.                                                        *)
InFlight ==
  [actor : Members, ask : Asks, phase : {"checked", "narrow", "scoped", "ready"},
   found : SUBSET (Permissions \cup Roles \cup Properties), wide : BOOLEAN]

ASSUME PriorAssumption ==
  /\ Absent \notin Role
  /\ \A s \in Prior :
       /\ s.role \in [Roles -> Role \cup {Absent}]
       /\ s.holds \subseteq Members \X (Roles \cup {System})
       /\ s.assigned \subseteq Members \X Properties
       /\ s.property \in [Properties -> PropertyStatuses]

VARIABLES
  role,      \* the rows of "Role" with their "RolePermission"
  holds,     \* "MembershipRole"
  assigned,  \* "PropertyPortfolioAssignment" that are not revoked
  property,  \* what became of each property
  inflight,
  begun,     \* how many requests have begun
  seen       \* history: what the actor of each request could do since it began

portfolioVars == <<role, holds, assigned, property, inflight, begun, seen>>

-----------------------------------------------------------------------------
(* Helpers *)

(* Mutant: a deleted role goes on granting its permissions. *)
PermissionCodesOfAll(m) ==
  (UNION {role[r].permissions : r \in {x \in Roles : <<m, x>> \in holds /\ role[x] # Absent}})
    \cup (IF <<m, System>> \in holds THEN Permissions ELSE {})

LiveRole(r) == role[r] # Absent /\ ~role[r].deleted

PermissionCodes(m) ==
  (UNION {role[r].permissions : r \in {x \in Roles : <<m, x>> \in holds /\ LiveRole(x)}})
    \cup (IF <<m, System>> \in holds THEN Permissions ELSE {})

Portfolio(m) == {p \in Properties : property[p] = "active" /\ <<m, p>> \in assigned \cup Owned}

OtherDefaults(r) == {x \in Roles \ {r} : LiveRole(x) /\ role[x].default}

Free(q) == inflight[q] = Absent /\ begun < MaxRequests
Phase(q, phase) == inflight[q] # Absent /\ inflight[q].phase = phase
Ready(q, op) == Phase(q, "ready") /\ inflight[q].ask.op = op
ForRole(q) == inflight[q].ask \in RoleAsks
Begin(q, m, ask, phase, found, wide) ==
  /\ begun' = begun + 1
  /\ inflight' = [inflight EXCEPT ![q] =
       [actor |-> m, ask |-> ask, phase |-> phase, found |-> found, wide |-> wide]]
Continue(q, phase, found) ==
  /\ inflight' = [inflight EXCEPT ![q] = [@ EXCEPT !.phase = phase, !.found = found]]
  /\ UNCHANGED begun
End(q) == inflight' = [inflight EXCEPT ![q] = Absent] /\ UNCHANGED begun

-----------------------------------------------------------------------------
(* Roles: a transaction checks the actor and the role, then writes by id *)

BeginRole(q, m, ask) ==
  /\ ask \in RoleAsks
  /\ "roles" \in PermissionCodes(m)
  /\ CASE ask.op = "create" -> role[ask.role] = Absent
       [] ask.op \in {"assign", "remove"} -> ask.role # System => LiveRole(ask.role)
       [] OTHER -> LiveRole(ask.role)
  /\ Begin(q, m, ask, "ready",
       CASE ask.op \in {"create", "update"} -> IF ask.default THEN OtherDefaults(ask.role) ELSE {}
         [] ask.op = "permit" -> role[ask.role].permissions
         [] OTHER -> {}, FALSE)
  /\ UNCHANGED <<role, holds, assigned, property>>

(* The defaults that clearDefault found are cleared. *)
Cleared(found) ==
  [r \in Roles |-> IF r \in found THEN [role[r] EXCEPT !.default = FALSE] ELSE role[r]]

(* The index Role_one_default_per_organization. *)
DefaultAllowed(rows) ==
  Cardinality({r \in Roles : rows[r] # Absent /\ ~rows[r].deleted /\ rows[r].default}) <= 1

SaveDefault(q, row) ==
  LET rows == [Cleared(inflight[q].found) EXCEPT ![inflight[q].ask.role] = row] IN
  /\ role' = IF DefaultAllowed(rows) THEN rows ELSE role
  /\ End(q)
  /\ UNCHANGED <<holds, assigned, property>>

(* The row has an id of its own. *)
CreateRole(q) ==
  /\ Ready(q, "create")
  /\ role[inflight[q].ask.role] = Absent
  /\ SaveDefault(q, [permissions |-> {}, default |-> inflight[q].ask.default, deleted |-> FALSE])

UpdateRole(q) ==
  /\ Ready(q, "update")
  /\ SaveDefault(q, [role[inflight[q].ask.role] EXCEPT !.default = inflight[q].ask.default])

DeleteRole(q) ==
  /\ Ready(q, "delete")
  /\ role' = [role EXCEPT ![inflight[q].ask.role] = [@ EXCEPT !.deleted = TRUE, !.default = FALSE]]
  /\ End(q)
  /\ UNCHANGED <<holds, assigned, property>>

(* What was missing is granted, what was there and is not wanted is revoked. *)
SetPermissions(q) ==
  /\ Ready(q, "permit")
  /\ LET ask == inflight[q].ask  current == inflight[q].found IN
       role' = [role EXCEPT ![ask.role].permissions =
         (@ \cup (ask.permissions \ current)) \ (IF ask.replace THEN current \ ask.permissions ELSE {})]
  /\ End(q)
  /\ UNCHANGED <<holds, assigned, property>>

AssignRole(q) ==
  /\ Ready(q, "assign") \/ Ready(q, "remove")
  /\ LET ask == inflight[q].ask IN
       holds' = IF ask.op = "assign" THEN holds \cup {<<ask.member, ask.role>>}
                                     ELSE holds \ {<<ask.member, ask.role>>}
  /\ End(q)
  /\ UNCHANGED <<role, assigned, property>>

-----------------------------------------------------------------------------
(* Assignments *)

(* assertOrganizationWide, before the transaction. *)
BeginReplace(q, m, ask) ==
  /\ ask \in ReplaceAsks
  /\ {"manage", "members", "all"} \subseteq PermissionCodes(m)
  /\ Begin(q, m, ask, "checked", {}, TRUE)
  /\ UNCHANGED <<role, holds, assigned, property>>

(* targetMembership and properties: memberships stay active *)
Assignable(properties) == \A p \in properties : property[p] = "active"

(* Mutant: every assignment is expected to be wanted again. *)
RevokeNone(q) ==
  /\ Phase(q, "checked")
  /\ Assignable(inflight[q].ask.properties)
  /\ Continue(q, "ready", {})
  /\ UNCHANGED <<role, holds, assigned, property>>

(* The transaction checks the properties and revokes the assignments it sees outside of *)
(* them; its row locks only decide which of two requests commits first.                 *)
RevokeOthers(q) ==
  /\ Phase(q, "checked")
  /\ LET ask == inflight[q].ask IN
       /\ Assignable(ask.properties)
       /\ Continue(q, "ready",
            {p \in Properties \ ask.properties : <<ask.member, p>> \in assigned})
  /\ UNCHANGED <<role, holds, assigned, property>>

Replace(q) ==
  /\ Ready(q, "replace")
  /\ LET ask == inflight[q].ask IN
       assigned' = (assigned \ ({ask.member} \X inflight[q].found)) \cup ({ask.member} \X ask.properties)
  /\ End(q)
  /\ UNCHANGED <<role, holds, property>>

-----------------------------------------------------------------------------
(* Acting on a property *)

(* scope, first query: membership, roles and permissions. *)
BeginScope(q, m, ask) ==
  /\ ask \in PropertyAsks
  /\ "manage" \in PermissionCodes(m)
  /\ LET wide == "all" \in PermissionCodes(m) IN
       Begin(q, m, ask, IF wide THEN "scoped" ELSE "narrow", {}, wide)
  /\ UNCHANGED <<role, holds, assigned, property>>

(* The assignments, and the ownerships. *)
ReadPortfolio(q) ==
  /\ Phase(q, "narrow")
  /\ Continue(q, "scoped", Portfolio(inflight[q].actor))
  /\ UNCHANGED <<role, holds, assigned, property>>

InScope(q) == inflight[q].wide \/ inflight[q].ask.property \in inflight[q].found

(* assertProperty and get, findAny or the assertion of the row's own kind. *)
AssertTarget(q) ==
  /\ Phase(q, "scoped")
  /\ LET ask == inflight[q].ask  status == property[ask.property] IN
       CASE ask.op = "createProperty" -> status = "absent"
         [] ask.op = "archive" -> InScope(q) /\ status = "active"
         [] OTHER -> InScope(q) /\ status # "absent"
  /\ Continue(q, "ready", {})
  /\ UNCHANGED <<role, holds, assigned, property>>

(* A creator who is not organization-wide is assigned the property. *)
CreateProperty(q) ==
  /\ Ready(q, "createProperty")
  /\ LET p == inflight[q].ask.property IN
       /\ property[p] = "absent"
       /\ property' = [property EXCEPT ![p] = "active"]
       /\ assigned' = IF inflight[q].wide THEN assigned ELSE assigned \cup {<<inflight[q].actor, p>>}
  /\ End(q)
  /\ UNCHANGED <<role, holds>>

ArchiveOrRestore(q) ==
  /\ Ready(q, "archive") \/ Ready(q, "restore")
  /\ property' = [property EXCEPT ![inflight[q].ask.property] =
       IF inflight[q].ask.op = "archive" THEN "archived" ELSE "active"]
  /\ End(q)
  /\ UNCHANGED <<role, holds, assigned>>

(* Every other operation on the property and what belongs to it; and every request that *)
(* is refused on its way, or whose role transaction fails.                               *)
Finish(q) ==
  /\ inflight[q] # Absent
  /\ Ready(q, "touch") \/ ~Phase(q, "ready") \/ ForRole(q)
  /\ End(q)
  /\ UNCHANGED <<role, holds, assigned, property>>

-----------------------------------------------------------------------------
(* What a member may do, by what the documents say a role and an assignment are worth. *)
Rights(m) == UNION {Permissions \cap (IF r = System THEN Permissions
                                      ELSE IF role[r] = Absent \/ role[r].deleted THEN {}
                                      ELSE role[r].permissions) :
                    r \in {x \in Roles \cup {System} : <<m, x>> \in holds}}
Reach(m) == {p \in Properties : <<m, p>> \in assigned \/ <<m, p>> \in Owned}

(* seen grows while a request is in flight; late are the properties that others assigned *)
(* since it is ready to write.                                                           *)
NothingSeen == [rights |-> {}, reach |-> {}, late |-> {}]
Acting(m, q) == inflight[q] # Absent /\ inflight[q].actor = m
Observe ==
  seen' = [q \in Callers |->
    LET A == {m \in Members : Acting(m, q)'} IN
    [rights |-> UNION {seen[q].rights \cup Rights(m)' : m \in A},
     reach |-> UNION {seen[q].reach \cup Reach(m)' : m \in A},
     late |-> IF Phase(q, "ready") /\ Phase(q, "ready")'
                THEN seen[q].late \cup {p \in Properties : \E m \in Members : <<m, p>> \in assigned' \ assigned}
                ELSE {}]]

PortfolioInit ==
  /\ \E s \in Prior :
       /\ role = s.role /\ DefaultAllowed(s.role)
       /\ holds = s.holds /\ assigned = s.assigned /\ property = s.property
  /\ inflight = [q \in Callers |-> Absent]
  /\ begun = 0
  /\ seen = [q \in Callers |-> NothingSeen]

PortfolioStep(q) ==
  \/ /\ Free(q)
     /\ \E m \in Members, ask \in Asks :
          BeginRole(q, m, ask) \/ BeginReplace(q, m, ask) \/ BeginScope(q, m, ask)
  \/ CreateRole(q) \/ UpdateRole(q) \/ DeleteRole(q) \/ SetPermissions(q) \/ AssignRole(q)
  \/ RevokeOthers(q) \/ Replace(q)
  \/ ReadPortfolio(q) \/ AssertTarget(q) \/ CreateProperty(q) \/ ArchiveOrRestore(q) \/ Finish(q)

PortfolioNext == (\E q \in Callers : PortfolioStep(q)) /\ Observe

PortfolioSpec == PortfolioInit /\ [][PortfolioNext]_portfolioVars

-----------------------------------------------------------------------------
(* Properties *)

PortfolioTypeOK ==
  /\ role \in [Roles -> Role \cup {Absent}]
  /\ holds \subseteq Members \X (Roles \cup {System})
  /\ assigned \subseteq Members \X Properties
  /\ property \in [Properties -> PropertyStatuses]
  /\ inflight \in [Callers -> InFlight \cup {Absent}]
  /\ begun \in 0..MaxRequests
  /\ seen \in [Callers -> [rights : SUBSET Permissions, reach : SUBSET Properties,
                         late : SUBSET Properties]]

(* A request that is about to write rests on rights its actor had while it ran: the     *)
(* permission it needs, and the property in its portfolio unless it sees them all.  The *)
(* queries may have seen different moments, but none before the request began, so what  *)
(* was revoked or deleted before is worth nothing.                                      *)
Entitled(q) ==
  LET ask == inflight[q].ask  rights == seen[q].rights IN
  CASE ask \in RoleAsks -> "roles" \in rights
    [] ask \in ReplaceAsks -> {"manage", "members", "all"} \subseteq rights
    [] ask.op = "createProperty" -> "manage" \in rights
    [] OTHER -> "manage" \in rights /\ ("all" \in rights \/ ask.property \in seen[q].reach)
ActsWithinRights == \A q \in Callers : Phase(q, "ready") => Entitled(q)

(* "A partial default-role index permits one active custom default role per             *)
(* organization", whatever creations, updates and deletions of roles interleave.        *)
OneDefaultRole ==
  \A r, x \in Roles : LiveRole(r) /\ LiveRole(x) /\ role[r].default /\ role[x].default => r = x

(* Replacing the assignments of a member leaves all the wanted ones, and beside them    *)
(* only what other requests assigned since the replacement revoked the others.          *)
ReplaceIsExact ==
  [][\A q \in Callers :
       Ready(q, "replace") /\ inflight'[q] = Absent =>
         LET ask == inflight[q].ask
             left == {p \in Properties : <<ask.member, p>> \in assigned'} IN
         ask.properties \subseteq left /\ left \subseteq ask.properties \cup seen[q].late]_portfolioVars

=============================================================================
