----------------------------- MODULE Invitations -----------------------------
(***************************************************************************)
(* Invitations into an organization, registration and memberships          *)
(* (apps/api/src/organization/invitation.service.ts and                    *)
(* apps/api/src/identity/registration/public-registration.service.ts).     *)
(*                                                                         *)
(* accept and decline run as the callback of VerificationEngine.verify, in *)
(* its transaction: here a challenge is OPEN, USED or CLOSED.  An accept   *)
(* reads the organization, the user and the lease party, and commits       *)
(* later; so do an invite and a registration.  The rows they update on     *)
(* condition stay locked from the update to the commit, so the condition   *)
(* is tested at the commit.                                                *)
(*                                                                         *)
(* Left out: versions (an invitation's changes only when it is answered),  *)
(* roles' contents, rights of callers, users that are locked or suspended, *)
(* audit and outbox rows.                                                  *)
(***************************************************************************)
EXTENDS Naturals

CONSTANTS
  Requests,  \* transactions in flight
  Ids,       \* ids of invitations
  Emails,    \* addresses; a user is named by the address it registers with
  Null       \* no row, no request, nobody

VARIABLES
  organization,  \* whether its status is ACTIVE or another (OrganizationLifecycle)
  invitation,    \* the table "OrganizationInvitation", each row with its challenge
  users,         \* the addresses that have a user
  granted,       \* the invitations that each user's membership and roles rest on
  party,         \* the person the lease party is linked to
  dealing        \* what each transaction on these tables has read

vars == <<organization, invitation, users, granted, party, dealing>>

Row ==
  [email : Emails, status : {"PENDING", "ACCEPTED", "DECLINED", "REVOKED", "EXPIRED"},
   challenge : {"OPEN", "USED", "CLOSED"}, lapsed : BOOLEAN, party : BOOLEAN]

(* registered: the accept found a user; found: the accepted invitations a registration saw. *)
Dealing ==
  [kind : {"invite"}, email : Emails, party : BOOLEAN]
    \cup [kind : {"accept"}, id : Ids, registered : BOOLEAN]
    \cup [kind : {"register"}, email : Emails, found : SUBSET Ids]

ASSUME NullAssumption == Null \notin Row /\ Null \notin Dealing /\ Null \notin Emails

-----------------------------------------------------------------------------
(* Helpers *)

Exists(i) == invitation[i] # Null
Has(i, status) == Exists(i) /\ invitation[i].status = status
Open(i) == Exists(i) /\ invitation[i].challenge = "OPEN" /\ ~invitation[i].lapsed
To(i, e) == Exists(i) /\ invitation[i].email = e

Is(q, kind) == dealing[q] # Null /\ dealing[q].kind = kind
Idle(q) == dealing[q] = Null
Begin(q, d) == dealing' = [dealing EXCEPT ![q] = d]
End(q) == Begin(q, Null)

(* linkLeaseParty: only while it is linked to nobody else. *)
CanLink(e) == party \in {Null, e}

(* findMembership, createMembership or activateMembership, assignRole *)
Granted(e, ids) == [granted EXCEPT ![e] = @ \cup ids]

-----------------------------------------------------------------------------
(* Actions *)

(* invite: the organization is active, the lease party is not linked. *)
InviteRead(q, e, p) ==
  /\ Idle(q)
  /\ organization = "ACTIVE"
  /\ p => party = Null
  /\ Begin(q, [kind |-> "invite", email |-> e, party |-> p])
  /\ UNCHANGED <<organization, invitation, users, granted, party>>

(* expirePending; another pending invitation is a conflict (findPending, or the unique *)
(* index); then the challenge and the invitation are inserted.                         *)
InviteWrite(q, i) ==
  /\ Is(q, "invite")
  /\ ~Exists(i)
  /\ LET e == dealing[q].email IN
       /\ \A j \in Ids : Has(j, "PENDING") /\ To(j, e) => invitation[j].lapsed
       /\ invitation' = [j \in Ids |->
            IF j = i THEN [email |-> e, status |-> "PENDING", challenge |-> "OPEN",
                           lapsed |-> FALSE, party |-> dealing[q].party]
            ELSE IF Has(j, "PENDING") /\ To(j, e) THEN [invitation[j] EXCEPT !.status = "EXPIRED"]
            ELSE invitation[j]]
  /\ End(q)
  /\ UNCHANGED <<organization, users, granted, party>>

(* accept: verify consumes the challenge, then the callback reads. *)
AcceptRead(q, i) ==
  /\ Idle(q)
  /\ Open(i)
  /\ organization = "ACTIVE"
  /\ Begin(q, [kind |-> "accept", id |-> i, registered |-> invitation[i].email \in users])
  /\ UNCHANGED <<organization, invitation, users, granted, party>>

(* Mutant: the challenge is consumed, the status of the invitation not looked at. *)
AcceptUnconditionally(q) ==
  /\ Is(q, "accept")
  /\ LET i == dealing[q].id IN
       invitation' = [invitation EXCEPT ![i].status = "ACCEPTED", ![i].challenge = "USED"]
  /\ End(q)
  /\ UNCHANGED <<organization, users, granted, party>>

(* Mutant: the lease party is linked whoever it belongs to. *)
AcceptLinkingAnyway(q) ==
  /\ Is(q, "accept")
  /\ LET i == dealing[q].id
         e == invitation[i].email IN
       /\ Open(i) /\ Has(i, "PENDING")
       /\ invitation' = [invitation EXCEPT ![i].status = "ACCEPTED", ![i].challenge = "USED"]
       /\ IF dealing[q].registered
            THEN /\ granted' = Granted(e, {i})
                 /\ party' = IF invitation[i].party THEN e ELSE party
            ELSE UNCHANGED <<granted, party>>
  /\ End(q)
  /\ UNCHANGED <<organization, users>>

(* Mutant: the lease party is linked before the user is looked for. *)
AcceptLinkingFirst(q) ==
  /\ Is(q, "accept")
  /\ LET i == dealing[q].id
         e == invitation[i].email IN
       /\ Open(i) /\ Has(i, "PENDING")
       /\ invitation[i].party => CanLink(e)
       /\ invitation' = [invitation EXCEPT ![i].status = "ACCEPTED", ![i].challenge = "USED"]
       /\ granted' = IF dealing[q].registered THEN Granted(e, {i}) ELSE granted
       /\ party' = IF invitation[i].party THEN e ELSE party
  /\ End(q)
  /\ UNCHANGED <<organization, users>>

(* A challenge or an invitation no longer open, or a party linked to another person, *)
(* rolls everything back.                                                            *)
AcceptWrite(q) ==
  /\ Is(q, "accept")
  /\ LET i == dealing[q].id
         e == invitation[i].email IN
       /\ Open(i) /\ Has(i, "PENDING")
       /\ invitation' = [invitation EXCEPT ![i].status = "ACCEPTED", ![i].challenge = "USED"]
       /\ IF dealing[q].registered
            THEN /\ invitation[i].party => CanLink(e)
                 /\ granted' = Granted(e, {i})
                 /\ party' = IF invitation[i].party THEN e ELSE party
            ELSE UNCHANGED <<granted, party>>
  /\ End(q)
  /\ UNCHANGED <<organization, users>>

(* decline: all it reads is tested again by its updates. *)
Decline(i) ==
  /\ Open(i) /\ Has(i, "PENDING")
  /\ invitation' = [invitation EXCEPT ![i].status = "DECLINED", ![i].challenge = "USED"]
  /\ UNCHANGED <<organization, users, granted, party, dealing>>

(* Mutant: the challenge is not revoked. *)
RevokeInvitationOnly(i) ==
  /\ Has(i, "PENDING")
  /\ invitation' = [invitation EXCEPT ![i].status = "REVOKED"]
  /\ UNCHANGED <<organization, users, granted, party, dealing>>

(* revoke, with VerificationEngine.revoke in its transaction. *)
Revoke(i) ==
  /\ Has(i, "PENDING")
  /\ invitation' = [invitation EXCEPT
       ![i].status = "REVOKED", ![i].challenge = IF @ = "OPEN" THEN "CLOSED" ELSE @]
  /\ UNCHANGED <<organization, users, granted, party, dealing>>

(* verify with a last wrong code, or too late, closes the challenge and commits. *)
CloseChallenge(i) ==
  /\ Exists(i) /\ invitation[i].challenge = "OPEN"
  /\ invitation' = [invitation EXCEPT ![i].challenge = "CLOSED"]
  /\ UNCHANGED <<organization, users, granted, party, dealing>>

(* expireIfNeeded, a statement of its own after verify has refused a code, perhaps *)
(* one that was only wrong and came just in time.                                  *)
ExpireIfNeeded(i) ==
  /\ Has(i, "PENDING") /\ invitation[i].lapsed
  /\ invitation' = [invitation EXCEPT ![i].status = "EXPIRED"]
  /\ UNCHANGED <<organization, users, granted, party, dealing>>

(* Time passes expiresAt, which the invitation shares with its challenge. *)
Lapse(i) ==
  /\ Exists(i) /\ ~invitation[i].lapsed
  /\ invitation' = [invitation EXCEPT ![i].lapsed = TRUE]
  /\ UNCHANGED <<organization, users, granted, party, dealing>>

(* register: no user has the address; findAcceptedOrganizationInvitations. *)
RegisterRead(q, e) ==
  /\ Idle(q)
  /\ e \notin users
  /\ Begin(q, [kind |-> "register", email |-> e,
               found |-> {i \in Ids : To(i, e) /\ Has(i, "ACCEPTED")}])
  /\ UNCHANGED <<organization, invitation, users, granted, party>>

(* The user and its memberships, unless the address is taken (the unique index) or a *)
(* lease party cannot be linked.                                                     *)
RegisterWrite(q) ==
  /\ Is(q, "register")
  /\ LET e == dealing[q].email
         links == \E i \in dealing[q].found : invitation[i].party IN
       /\ e \notin users
       /\ links => CanLink(e)
       /\ users' = users \cup {e}
       /\ granted' = Granted(e, dealing[q].found)
       /\ party' = IF links THEN e ELSE party
  /\ End(q)
  /\ UNCHANGED <<organization, invitation>>

(* The lifecycle suspends, archives or activates the organization. *)
ChangeLifecycle ==
  /\ organization' = IF organization = "ACTIVE" THEN "INACTIVE" ELSE "ACTIVE"
  /\ UNCHANGED <<invitation, users, granted, party, dealing>>

(* The transaction fails, or is the victim of a deadlock (accept and revoke lock the *)
(* invitation and its challenge in opposite orders).                                 *)
Abort(q) ==
  /\ dealing[q] # Null
  /\ End(q)
  /\ UNCHANGED <<organization, invitation, users, granted, party>>

-----------------------------------------------------------------------------
Init ==
  /\ organization = "INACTIVE"
  /\ invitation = [i \in Ids |-> Null]
  /\ users = {}
  /\ granted = [e \in Emails |-> {}]
  /\ party = Null
  /\ dealing = [q \in Requests |-> Null]

Invite(q) ==
  \/ \E e \in Emails, p \in BOOLEAN : InviteRead(q, e, p)
  \/ \E i \in Ids : InviteWrite(q, i)

Accept(q) == (\E i \in Ids : AcceptRead(q, i)) \/ AcceptWrite(q)
Register(q) == (\E e \in Emails : RegisterRead(q, e)) \/ RegisterWrite(q)

Next ==
  \/ \E q \in Requests : Invite(q) \/ Accept(q) \/ Register(q) \/ Abort(q)
  \/ \E i \in Ids :
       Decline(i) \/ Revoke(i) \/ CloseChallenge(i) \/ ExpireIfNeeded(i) \/ Lapse(i)
  \/ ChangeLifecycle

Spec == Init /\ [][Next]_vars

-----------------------------------------------------------------------------
(* Properties *)

TypeOK ==
  /\ organization \in {"ACTIVE", "INACTIVE"}
  /\ invitation \in [Ids -> Row \cup {Null}]
  /\ users \in SUBSET Emails
  /\ granted \in [Emails -> SUBSET Ids]
  /\ party \in Emails \cup {Null}
  /\ dealing \in [Requests -> Dealing \cup {Null}]

(* Two tables, one outcome: a challenge is used exactly when its invitation has been *)
(* answered, and an invitation that ended otherwise can no longer be answered.       *)
OneOutcome ==
  \A i \in Ids :
    Exists(i) =>
      /\ invitation[i].challenge = "USED" <=> invitation[i].status \in {"ACCEPTED", "DECLINED"}
      /\ invitation[i].status \in {"REVOKED", "EXPIRED"} => ~Open(i)

(* A membership and its roles rest on invitations that the person accepted. *)
GrantsAreAccepted ==
  \A e \in Emails : \A i \in granted[e] : e \in users /\ To(i, e) /\ Has(i, "ACCEPTED")

(* The lease party belongs to one person, by an invitation that person accepted. *)
PartyByInvitation ==
  party # Null => \E i \in granted[party] : Exists(i) /\ invitation[i].party

(* No step ends, replaces or revives what has been settled: an answered or ended     *)
(* invitation, a membership, the person of the lease party.                          *)
SettledStays ==
  [][/\ \A i \in Ids :
          Exists(i) /\ ~Has(i, "PENDING") =>
            invitation'[i] # Null /\ invitation'[i].status = invitation[i].status
     /\ \A e \in Emails : granted[e] \subseteq granted'[e]
     /\ party # Null => party' = party]_vars

(* "[...] atomically materializes all accepted invitation memberships": a user has   *)
(* the membership of every invitation it accepted, before or after it registered.    *)
AcceptedIsMaterialized ==
  \A e \in users : \A i \in Ids : To(i, e) /\ Has(i, "ACCEPTED") => i \in granted[e]

(* The inductive invariant *)
IInv ==
  /\ OneOutcome
  /\ GrantsAreAccepted
  /\ PartyByInvitation
  /\ \A q \in Requests :
       /\ Is(q, "accept") =>
            /\ Exists(dealing[q].id)
            /\ dealing[q].registered => invitation[dealing[q].id].email \in users
       /\ Is(q, "register") =>
            \A i \in dealing[q].found : To(i, dealing[q].email) /\ Has(i, "ACCEPTED")

Challenge == INSTANCE OneTimeChallenge WITH
  Challenges <- Ids,
  issued     <- {i \in Ids : Exists(i)},
  open       <- {i \in Ids : Open(i)},
  uses       <- [i \in Ids |-> IF Exists(i) /\ invitation[i].challenge = "USED" THEN 1 ELSE 0]

(* An answer uses its challenge as the verification engine promises, once. *)
ImplementsChallenge == Challenge!Spec

=============================================================================
