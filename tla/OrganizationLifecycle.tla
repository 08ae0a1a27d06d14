------------------------ MODULE OrganizationLifecycle ------------------------
(***************************************************************************)
(* The status of an organization and its administrative approval           *)
(* (apps/api/src/organization/lifecycle.service.ts, approval.service.ts).  *)
(*                                                                         *)
(* Each operation is a READ COMMITTED transaction that reads and checks    *)
(* the rows and then updates them on condition that the status, or the     *)
(* version, is still the one read.  Reading and the rest are two steps; a  *)
(* request that is refused on what it read changes nothing and is left out,*)
(* and so are the callers' rights, audit events and outbox rows.           *)
(***************************************************************************)
EXTENDS Naturals

CONSTANTS
  Requests,    \* transactions in flight
  MaxVersion,  \* a bound on the versions of the approval
  Null         \* no approval, no request

ASSUME VersionAssumption == MaxVersion \in Nat \ {0}

VARIABLES
  organization,  \* Organization.status; deletedAt is set exactly while ARCHIVED
  approval,      \* the row of "OrganizationApproval", which only landlords have
  request        \* what each transaction has read

orgVars == <<organization, approval, request>>

Statuses == {"PENDING", "ACTIVE", "SUSPENDED", "ARCHIVED"}
Approval == [status : {"PENDING", "APPROVED", "REJECTED"}, version : 1..MaxVersion]

Transitions == {"activate", "suspend", "archive", "restore"}
Reviews == {"approve", "reject", "reopen"}

(* The status a transition starts from, the version a review rests on. *)
Request ==
  [kind : Transitions, from : Statuses, version : {0}]
    \cup [kind : Reviews, from : {"PENDING"}, version : 1..MaxVersion]

ASSUME NullAssumption == Null \notin Approval /\ Null \notin Request

-----------------------------------------------------------------------------
(* Helpers *)

(* validateTransition *)
Allowed ==
  {<<"PENDING", "ACTIVE">>, <<"ACTIVE", "SUSPENDED">>, <<"ACTIVE", "ARCHIVED">>,
   <<"SUSPENDED", "ACTIVE">>, <<"ARCHIVED", "ACTIVE">>}

Target(kind) ==
  CASE kind = "suspend" -> "SUSPENDED"
    [] kind = "archive" -> "ARCHIVED"
    [] OTHER -> "ACTIVE"

Doing(q, kinds) == request[q] # Null /\ request[q].kind \in kinds
EndRequest(q) == request' = [request EXCEPT ![q] = Null]

(* The where clause of a review: the status it applies to and the version it rests on. *)
Reviewed(kind) == IF kind = "reopen" THEN "REJECTED" ELSE "PENDING"
Current(q) == approval.status = Reviewed(request[q].kind) /\ approval.version = request[q].version

-----------------------------------------------------------------------------
(* Actions *)

(* activate, suspend, archive, restore: only activate asks for more than a legal step. *)
ReadTransition(q, kind) ==
  /\ request[q] = Null
  /\ kind = "activate" => organization # "PENDING"
  /\ <<organization, Target(kind)>> \in Allowed
  /\ request' = [request EXCEPT ![q] = [kind |-> kind, from |-> organization, version |-> 0]]
  /\ UNCHANGED <<organization, approval>>

(* Mutant: the status is written by id alone. *)
WriteTransitionById(q) ==
  /\ Doing(q, Transitions)
  /\ organization' = Target(request[q].kind)
  /\ EndRequest(q)
  /\ UNCHANGED approval

(* A status that has changed since makes it a conflict. *)
WriteTransition(q) ==
  /\ Doing(q, Transitions)
  /\ organization' = IF organization = request[q].from THEN Target(request[q].kind) ELSE organization
  /\ EndRequest(q)
  /\ UNCHANGED approval

(* approve, reject and reopen check the approval, its organization and expectedVersion. *)
ReadReview(q, kind) ==
  /\ request[q] = Null
  /\ approval # Null
  /\ approval.status = Reviewed(kind)
  /\ approval.version < MaxVersion
  /\ organization = "PENDING"
  /\ request' = [request EXCEPT ![q] =
       [kind |-> kind, from |-> "PENDING", version |-> approval.version]]
  /\ UNCHANGED <<organization, approval>>

(* Mutants: the version is not in the where clause; an approval does not activate. *)
ApproveUnversioned(q) ==
  /\ Doing(q, {"approve"})
  /\ IF approval.status = "PENDING" /\ <<organization, "ACTIVE">> \in Allowed
       THEN /\ approval' = [status |-> "APPROVED", version |-> approval.version + 1]
            /\ organization' = "ACTIVE"
       ELSE UNCHANGED <<organization, approval>>
  /\ EndRequest(q)

ApproveOnly(q) ==
  /\ Doing(q, {"approve"})
  /\ IF Current(q)
       THEN approval' = [status |-> "APPROVED", version |-> approval.version + 1]
       ELSE UNCHANGED approval
  /\ EndRequest(q)
  /\ UNCHANGED organization

(* approve, with activateAfterApproval in its transaction: both happen or neither. *)
Approve(q) ==
  /\ Doing(q, {"approve"})
  /\ IF Current(q) /\ <<organization, "ACTIVE">> \in Allowed
       THEN /\ approval' = [status |-> "APPROVED", version |-> approval.version + 1]
            /\ organization' = "ACTIVE"
       ELSE UNCHANGED <<organization, approval>>
  /\ EndRequest(q)

(* reject and reopen do not look at the organization again. *)
RejectOrReopen(q) ==
  /\ Doing(q, {"reject", "reopen"})
  /\ approval' = IF Current(q)
       THEN [status |-> IF request[q].kind = "reject" THEN "REJECTED" ELSE "PENDING",
             version |-> approval.version + 1]
       ELSE approval
  /\ EndRequest(q)
  /\ UNCHANGED organization

(* The transaction fails. *)
AbortRequest(q) ==
  /\ request[q] # Null
  /\ EndRequest(q)
  /\ UNCHANGED <<organization, approval>>

-----------------------------------------------------------------------------
(* create and registration insert both rows in one transaction. *)
OrgInit ==
  /\ organization = "PENDING"
  /\ approval \in {Null, [status |-> "PENDING", version |-> 1]}
  /\ request = [q \in Requests |-> Null]

Lifecycle(q) ==
  \/ \E kind \in Transitions : ReadTransition(q, kind)
  \/ \E kind \in Reviews : ReadReview(q, kind)
  \/ WriteTransition(q)
  \/ Approve(q)
  \/ RejectOrReopen(q)
  \/ AbortRequest(q)

OrgNext == \E q \in Requests : Lifecycle(q)

OrgSpec == OrgInit /\ [][OrgNext]_orgVars

-----------------------------------------------------------------------------
(* Properties *)

OrgTypeOK ==
  /\ organization \in Statuses
  /\ approval \in Approval \cup {Null}
  /\ request \in [Requests -> Request \cup {Null}]

(* "The repository uses an expected-current-status update, so concurrent transitions  *)
(* that observe stale state fail rather than overriding the newer lifecycle state":   *)
(* whatever interleaves, the two tables only move along the documented arrows.        *)
LegalTransitions ==
  [][/\ organization' # organization => <<organization, organization'>> \in Allowed
     /\ approval' # approval =>
          /\ approval # Null /\ approval' # Null
          /\ <<approval.status, approval'.status>> \in
               {<<"PENDING", "APPROVED">>, <<"PENDING", "REJECTED">>, <<"REJECTED", "PENDING">>}]_orgVars

(* Approval and activation are atomic: an approved organization is not left pending. *)
ApprovedIsActivated ==
  approval # Null /\ approval.status = "APPROVED" => organization # "PENDING"

(* "Pending activation is owned exclusively by OrganizationApprovalService": an       *)
(* organization under review does not become active by another way.                   *)
ActivationIsApproved ==
  approval # Null /\ organization # "PENDING" => approval.status = "APPROVED"

(* The inductive invariant: requests are legal, and rest on versions that were there. *)
OrgIInv ==
  /\ ApprovedIsActivated
  /\ \A q \in Requests :
       /\ Doing(q, Transitions) => <<request[q].from, Target(request[q].kind)>> \in Allowed
       /\ Doing(q, Reviews) =>
            /\ approval # Null
            /\ request[q].version < MaxVersion
            /\ request[q].version <= approval.version

Review == INSTANCE VersionedRecord WITH
  Writers <- Requests,
  None    <- Null,
  version <- IF approval = Null THEN 1 ELSE approval.version,
  based   <- [q \in Requests |-> IF Doing(q, Reviews) THEN request[q].version ELSE Null]

(* "Exactly one of two stale [...] approval [...] mutations succeeds": reviews are      *)
(* edits of a versioned record.                                                         *)
ImplementsReview == Review!Spec

=============================================================================
