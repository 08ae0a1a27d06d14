--------------------------- MODULE InvitationsProofs ---------------------------
(***************************************************************************)
(* Theorems about Invitations, for any number of invitations, addresses    *)
(* and transactions.  Every action is first reduced to what it does to one *)
(* invitation (RowSteps); the invariants speak of invitations one by one.  *)
(***************************************************************************)
EXTENDS Invitations, TLAPS

USE NullAssumption

-----------------------------------------------------------------------------
(* What may happen to one invitation r, that becomes s. *)

Fresh(s) == s \in Row /\ s.status = "PENDING" /\ s.challenge = "OPEN" /\ ~s.lapsed

Answered(r, s) ==
  /\ r.status = "PENDING" /\ r.challenge = "OPEN" /\ ~r.lapsed
  /\ \E answer \in {"ACCEPTED", "DECLINED"} : s = [r EXCEPT !.status = answer, !.challenge = "USED"]

Ended(r, s) ==
  /\ r.status = "PENDING"
  /\ \/ r.lapsed /\ s = [r EXCEPT !.status = "EXPIRED"]
     \/ s = [r EXCEPT !.status = "REVOKED",
                      !.challenge = IF r.challenge = "OPEN" THEN "CLOSED" ELSE r.challenge]

Faded(r, s) ==
  \/ r.challenge = "OPEN" /\ s = [r EXCEPT !.challenge = "CLOSED"]
  \/ ~r.lapsed /\ s = [r EXCEPT !.lapsed = TRUE]

RowStep(r, s) ==
  \/ s = r
  \/ r = Null /\ Fresh(s)
  \/ r \in Row /\ (Answered(r, s) \/ Ended(r, s) \/ Faded(r, s))

(* An invitation that is revoked, refused or expires is not answered. *)
LEMMA QuietSteps ==
  ASSUME TypeOK, NEW i \in Ids, NEW j \in Ids,
         Revoke(i) \/ CloseChallenge(i) \/ ExpireIfNeeded(i) \/ Lapse(i)
  PROVE  \/ invitation'[j] = invitation[j]
         \/ /\ invitation[j] \in Row
            /\ Ended(invitation[j], invitation'[j]) \/ Faded(invitation[j], invitation'[j])
<1>0. invitation \in [Ids -> Row \cup {Null}]
  BY DEF TypeOK
<1>1. CASE j # i
  BY <1>0, <1>1 DEF Revoke, CloseChallenge, ExpireIfNeeded, Lapse
<1>2. CASE j = i
  <2>0. invitation[j] \in Row
    BY <1>0, <1>2 DEF Revoke, CloseChallenge, ExpireIfNeeded, Lapse, Has, Exists
  <2>1. CASE Revoke(i)
    <3>1. invitation'[j] = [invitation[j] EXCEPT !.status = "REVOKED",
            !.challenge = IF invitation[j].challenge = "OPEN" THEN "CLOSED" ELSE invitation[j].challenge]
      BY <1>0, <1>2, <2>0, <2>1 DEF Revoke, Row
    <3> QED
      BY <1>2, <2>0, <2>1, <3>1 DEF Revoke, Has, Ended
  <2>2. CASE CloseChallenge(i)
    BY <1>0, <1>2, <2>0, <2>2 DEF CloseChallenge, Faded
  <2>3. CASE ExpireIfNeeded(i)
    BY <1>0, <1>2, <2>0, <2>3 DEF ExpireIfNeeded, Has, Ended
  <2>4. CASE Lapse(i)
    BY <1>0, <1>2, <2>0, <2>4 DEF Lapse, Faded
  <2> QED
    BY <2>1, <2>2, <2>3, <2>4
<1> QED
  BY <1>1, <1>2

(* Each action takes every invitation a RowStep. *)
LEMMA RowSteps ==
  TypeOK /\ [Next]_vars => \A i \in Ids : RowStep(invitation[i], invitation'[i])
<1> SUFFICES ASSUME TypeOK, [Next]_vars, NEW j \in Ids
             PROVE  RowStep(invitation[j], invitation'[j])
  OBVIOUS
<1>0. invitation \in [Ids -> Row \cup {Null}] /\ dealing \in [Requests -> Dealing \cup {Null}]
  BY DEF TypeOK
<1>1. CASE invitation' = invitation
  BY <1>1 DEF RowStep
<1>2. ASSUME NEW q \in Requests, NEW i \in Ids, InviteWrite(q, i)
      PROVE  RowStep(invitation[j], invitation'[j])
  <2>1. dealing[q].email \in Emails /\ dealing[q].party \in BOOLEAN
    BY <1>0, <1>2 DEF InviteWrite, Is, Dealing
  <2>2. CASE j = i
    <3>1. invitation'[j] = [email |-> dealing[q].email, status |-> "PENDING", challenge |-> "OPEN",
                            lapsed |-> FALSE, party |-> dealing[q].party]
      BY <1>2, <2>2 DEF InviteWrite
    <3>2. Fresh(invitation'[j])
      BY <2>1, <3>1 DEF Fresh, Row
    <3> QED
      BY <1>2, <2>2, <3>2 DEF InviteWrite, Exists, RowStep
  <2>3. CASE j # i /\ Has(j, "PENDING") /\ To(j, dealing[q].email)
    <3>1. invitation[j] \in Row /\ invitation[j].lapsed /\ invitation[j].status = "PENDING"
      BY <1>0, <1>2, <2>3 DEF InviteWrite, Has, Exists
    <3>2. invitation'[j] = [invitation[j] EXCEPT !.status = "EXPIRED"]
      BY <1>2, <2>3 DEF InviteWrite
    <3> QED
      BY <3>1, <3>2 DEF RowStep, Ended
  <2>4. CASE j # i /\ ~(Has(j, "PENDING") /\ To(j, dealing[q].email))
    BY <1>2, <2>4 DEF InviteWrite, RowStep
  <2> QED
    BY <2>2, <2>3, <2>4
<1>3. ASSUME NEW i \in Ids, Open(i), Has(i, "PENDING"), NEW answer \in {"ACCEPTED", "DECLINED"},
             invitation' = [invitation EXCEPT ![i].status = answer, ![i].challenge = "USED"]
      PROVE  RowStep(invitation[j], invitation'[j])
  <2>1. CASE j = i
    <3>1. invitation[j] \in Row
      BY <1>0, <1>3, <2>1 DEF Has, Exists
    <3>2. invitation'[j] = [invitation[j] EXCEPT !.status = answer, !.challenge = "USED"]
      BY <1>0, <1>3, <2>1
    <3> QED
      BY <1>3, <2>1, <3>1, <3>2 DEF RowStep, Answered, Open, Has
  <2>2. CASE j # i
    BY <1>0, <1>3, <2>2 DEF RowStep
  <2> QED
    BY <2>1, <2>2
<1>4. ASSUME NEW q \in Requests, AcceptWrite(q)
      PROVE  RowStep(invitation[j], invitation'[j])
  <2>1. dealing[q].id \in Ids
    BY <1>0, <1>4 DEF AcceptWrite, Granted, Is, Dealing
  <2> QED
    BY <1>3, <1>4, <2>1 DEF AcceptWrite, Granted
<1>5. ASSUME NEW i \in Ids, Decline(i)
      PROVE  RowStep(invitation[j], invitation'[j])
  BY <1>3, <1>5 DEF Decline
<1>6. ASSUME NEW i \in Ids, Revoke(i) \/ CloseChallenge(i) \/ ExpireIfNeeded(i) \/ Lapse(i)
      PROVE  RowStep(invitation[j], invitation'[j])
  BY <1>6, QuietSteps DEF RowStep
<1> QED
  BY <1>1, <1>2, <1>4, <1>5, <1>6
  DEF Next, vars, Invite, Accept, Register, InviteRead, AcceptRead, RegisterRead, RegisterWrite, Granted,
      ChangeLifecycle, Abort

(* An invitation is never deleted, keeps its address and lease party, and keeps its *)
(* status once it is not pending.                                                   *)
LEMMA RowsLast ==
  ASSUME NEW r \in Row, NEW s, RowStep(r, s)
  PROVE  /\ s \in Row
         /\ s.email = r.email /\ s.party = r.party
         /\ r.status # "PENDING" => s.status = r.status
<1>1. CASE s = r
  BY <1>1
<1>2. CASE Answered(r, s)
  BY <1>2 DEF Answered, Row
<1>3. CASE Ended(r, s)
  <2>1. CASE s = [r EXCEPT !.status = "EXPIRED"]
    BY <1>3, <2>1 DEF Ended, Row
  <2>2. CASE s = [r EXCEPT !.status = "REVOKED",
                      !.challenge = IF r.challenge = "OPEN" THEN "CLOSED" ELSE r.challenge]
    BY <1>3, <2>2 DEF Ended, Row
  <2> QED
    BY <1>3, <2>1, <2>2 DEF Ended
<1>4. CASE Faded(r, s)
  <2>1. CASE s = [r EXCEPT !.challenge = "CLOSED"]
    BY <2>1 DEF Row
  <2>2. CASE s = [r EXCEPT !.lapsed = TRUE]
    BY <2>2 DEF Row
  <2> QED
    BY <1>4, <2>1, <2>2 DEF Faded
<1> QED
  BY <1>1, <1>2, <1>3, <1>4 DEF RowStep

-----------------------------------------------------------------------------
(* Types *)

(* No step leaves the types. *)
LEMMA StepTypes == TypeOK /\ [Next]_vars => TypeOK'
<1> SUFFICES ASSUME TypeOK, [Next]_vars PROVE TypeOK'
  OBVIOUS
<1>0. /\ invitation \in [Ids -> Row \cup {Null}]
      /\ granted \in [Emails -> SUBSET Ids]
      /\ dealing \in [Requests -> Dealing \cup {Null}]
  BY DEF TypeOK
<1>1. invitation' \in [Ids -> Row \cup {Null}]
  <2>1. \A i \in Ids : invitation'[i] \in Row \cup {Null}
    BY <1>0, RowSteps, RowsLast DEF RowStep, Fresh
  <2>2. CASE invitation' = invitation
    BY <1>0, <2>2
  <2>3. ASSUME NEW q \in Requests, NEW i \in Ids, InviteWrite(q, i)
        PROVE  invitation' \in [Ids -> Row \cup {Null}]
    <3> DEFINE row(j) ==
          IF j = i THEN [email |-> dealing[q].email, status |-> "PENDING", challenge |-> "OPEN",
                         lapsed |-> FALSE, party |-> dealing[q].party]
          ELSE IF Has(j, "PENDING") /\ To(j, dealing[q].email)
            THEN [invitation[j] EXCEPT !.status = "EXPIRED"]
            ELSE invitation[j]
    <3>1. invitation' = [j \in Ids |-> row(j)]
      BY <2>3 DEF InviteWrite
    <3> HIDE DEF row
    <3> QED
      BY <2>1, <3>1
  <2>4. ASSUME NEW i, NEW a, NEW b,
               invitation' = [invitation EXCEPT ![i].status = a, ![i].challenge = b]
        PROVE  invitation' \in [Ids -> Row \cup {Null}]
    BY <1>0, <2>1, <2>4
  <2>5. ASSUME NEW i \in Ids,
               CloseChallenge(i) \/ ExpireIfNeeded(i) \/ Lapse(i)
        PROVE  invitation' \in [Ids -> Row \cup {Null}]
    BY <1>0, <2>1, <2>5 DEF CloseChallenge, ExpireIfNeeded, Lapse
  <2>6. ASSUME NEW i \in Ids, Revoke(i)
        PROVE  invitation' \in [Ids -> Row \cup {Null}]
    BY <1>0, <2>1, <2>6 DEF Revoke
  <2>7. ASSUME NEW q \in Requests, AcceptWrite(q)
        PROVE  invitation' \in [Ids -> Row \cup {Null}]
    BY <2>4, <2>7 DEF AcceptWrite, Granted
  <2>8. ASSUME NEW i \in Ids, Decline(i)
        PROVE  invitation' \in [Ids -> Row \cup {Null}]
    BY <2>4, <2>8 DEF Decline
  <2> QED
    BY <2>2, <2>3, <2>5, <2>6, <2>7, <2>8
    DEF vars, Next, Invite, Accept, Register, InviteRead, AcceptRead, RegisterRead, RegisterWrite, Granted,
        ChangeLifecycle, Abort
<1>2. dealing' \in [Requests -> Dealing \cup {Null}]
  <2>1. ASSUME NEW q \in Requests, NEW d \in Dealing \cup {Null}, Begin(q, d)
        PROVE  dealing' \in [Requests -> Dealing \cup {Null}]
    BY <1>0, <2>1 DEF Begin
  <2>2. ASSUME NEW q \in Requests, NEW e \in Emails, NEW p \in BOOLEAN, InviteRead(q, e, p)
        PROVE  dealing' \in [Requests -> Dealing \cup {Null}]
    <3>1. [kind |-> "invite", email |-> e, party |-> p] \in Dealing
      BY DEF Dealing
    <3> QED
      BY <2>1, <2>2, <3>1 DEF InviteRead
  <2>3. ASSUME NEW q \in Requests, NEW i \in Ids, AcceptRead(q, i)
        PROVE  dealing' \in [Requests -> Dealing \cup {Null}]
    <3>1. [kind |-> "accept", id |-> i, registered |-> invitation[i].email \in users] \in Dealing
      BY DEF Dealing
    <3> QED
      BY <2>1, <2>3, <3>1 DEF AcceptRead
  <2>4. ASSUME NEW q \in Requests, NEW e \in Emails, RegisterRead(q, e)
        PROVE  dealing' \in [Requests -> Dealing \cup {Null}]
    <3>1. [kind |-> "register", email |-> e,
           found |-> {i \in Ids : To(i, e) /\ Has(i, "ACCEPTED")}] \in Dealing
      BY DEF Dealing
    <3> QED
      BY <2>1, <2>4, <3>1 DEF RegisterRead
  <2>5. ASSUME NEW q \in Requests, End(q)
        PROVE  dealing' \in [Requests -> Dealing \cup {Null}]
    BY <2>1, <2>5 DEF End
  <2>6. CASE dealing' = dealing
    BY <1>0, <2>6
  <2> QED
    BY <2>2, <2>3, <2>4, <2>5, <2>6
    DEF vars, Next, Invite, Accept, Register, InviteWrite, AcceptWrite, Granted, Decline, Revoke,
        CloseChallenge, ExpireIfNeeded, Lapse, RegisterWrite, Granted, ChangeLifecycle, Abort
(* Only an accept and a registration change the rest. *)
<1>3. organization' \in {"ACTIVE", "INACTIVE"}
  BY DEF TypeOK, vars, Next, Invite, Accept, Register, InviteRead, InviteWrite, AcceptRead,
         AcceptWrite, Granted, Decline, Revoke, CloseChallenge, ExpireIfNeeded, Lapse, RegisterRead,
         RegisterWrite, Granted, ChangeLifecycle, Abort
<1>4. users' \in SUBSET Emails /\ granted' \in [Emails -> SUBSET Ids] /\ party' \in Emails \cup {Null}
  <2>1. CASE UNCHANGED <<users, granted, party>>
    BY <2>1 DEF TypeOK
  <2>2. ASSUME NEW q \in Requests, AcceptWrite(q)
        PROVE  users' \in SUBSET Emails /\ granted' \in [Emails -> SUBSET Ids] /\ party' \in Emails \cup {Null}
    <3>1. dealing[q].id \in Ids /\ invitation[dealing[q].id] \in Row
      BY <1>0, <2>2 DEF AcceptWrite, Granted, Is, Dealing, Has, Exists
    <3>2. invitation[dealing[q].id].email \in Emails
      BY <3>1 DEF Row
    <3> QED
      BY <1>0, <2>2, <3>1, <3>2 DEF AcceptWrite, Granted, TypeOK
  <2>3. ASSUME NEW q \in Requests, RegisterWrite(q)
        PROVE  users' \in SUBSET Emails /\ granted' \in [Emails -> SUBSET Ids] /\ party' \in Emails \cup {Null}
    <3>1. dealing[q].email \in Emails /\ dealing[q].found \in SUBSET Ids
      BY <1>0, <2>3 DEF RegisterWrite, Granted, Is, Dealing
    <3> QED
      BY <1>0, <2>3, <3>1 DEF RegisterWrite, Granted, TypeOK
  <2> QED
    BY <2>1, <2>2, <2>3
    DEF vars, Next, Invite, Accept, Register, InviteRead, InviteWrite, AcceptRead, Decline, Revoke,
        CloseChallenge, ExpireIfNeeded, Lapse, RegisterRead, ChangeLifecycle, Abort
<1> QED
  BY <1>1, <1>2, <1>3, <1>4 DEF TypeOK

(* Rows, requests and memberships keep their types. *)
THEOREM TypeCorrect == Spec => []TypeOK
<1>1. Init => TypeOK
  BY DEF Init, TypeOK
<1> QED
  BY <1>1, StepTypes, PTL DEF Spec

-----------------------------------------------------------------------------
(* The inductive invariant *)

Consistent(r) ==
  /\ r.challenge = "USED" <=> r.status \in {"ACCEPTED", "DECLINED"}
  /\ r.status \in {"REVOKED", "EXPIRED"} => r.challenge # "OPEN" \/ r.lapsed

(* The two tables agree on one invitation before and after any step. *)
LEMMA RowsConsistent ==
  ASSUME NEW r \in Row, Consistent(r), NEW s, RowStep(r, s)
  PROVE  Consistent(s)
<1>1. CASE s = r
  BY <1>1
<1>2. CASE Answered(r, s)
  BY <1>2 DEF Answered, Row, Consistent
<1>3. CASE Ended(r, s)
  <2>1. CASE r.lapsed /\ s = [r EXCEPT !.status = "EXPIRED"]
    BY <1>3, <2>1 DEF Ended, Row, Consistent
  <2>2. CASE s = [r EXCEPT !.status = "REVOKED",
                      !.challenge = IF r.challenge = "OPEN" THEN "CLOSED" ELSE r.challenge]
    BY <1>3, <2>2 DEF Ended, Row, Consistent
  <2> QED
    BY <1>3, <2>1, <2>2 DEF Ended
<1>4. CASE Faded(r, s)
  <2>1. CASE r.challenge = "OPEN" /\ s = [r EXCEPT !.challenge = "CLOSED"]
    BY <2>1 DEF Row, Consistent
  <2>2. CASE s = [r EXCEPT !.lapsed = TRUE]
    BY <2>2 DEF Row, Consistent
  <2> QED
    BY <1>4, <2>1, <2>2 DEF Faded
<1> QED
  BY <1>1, <1>2, <1>3, <1>4 DEF RowStep

(* The two tables agree after every step if they did before. *)
LEMMA StepOutcome == TypeOK /\ OneOutcome /\ [Next]_vars => OneOutcome'
<1> SUFFICES ASSUME TypeOK, OneOutcome, [Next]_vars, NEW i \in Ids, invitation'[i] # Null
             PROVE  Consistent(invitation'[i])
  BY DEF OneOutcome, Exists, Open, Consistent
<1>1. CASE invitation[i] = Null
  BY <1>1, RowSteps DEF RowStep, Fresh, Consistent
<1>2. CASE invitation[i] # Null
  <2>1. invitation[i] \in Row /\ Consistent(invitation[i])
    BY <1>2 DEF TypeOK, OneOutcome, Exists, Open, Consistent
  <2> QED
    BY <2>1, RowSteps, RowsConsistent
<1> QED
  BY <1>1, <1>2

(* What a step leaves as it is: an existing invitation's address and lease party, the *)
(* status of one that is not pending; and users stay.                                 *)
LEMMA Lasting ==
  ASSUME TypeOK, [Next]_vars, NEW i \in Ids, Exists(i)
  PROVE  /\ Exists(i)'
         /\ invitation'[i].email = invitation[i].email
         /\ invitation'[i].party = invitation[i].party
         /\ invitation[i].status # "PENDING" => invitation'[i].status = invitation[i].status
BY RowSteps, RowsLast DEF TypeOK, Exists

(* Nobody is unregistered. *)
LEMMA UsersStay == TypeOK /\ [Next]_vars => users \subseteq users'
BY DEF vars, Next, Invite, Accept, Register, InviteRead, InviteWrite, AcceptRead, AcceptWrite, Granted,
       Decline, Revoke, CloseChallenge, ExpireIfNeeded, Lapse, RegisterRead, RegisterWrite, Granted,
       ChangeLifecycle, Abort

(* Memberships and the lease party change by an accept or a registration alone. *)
LEMMA GrantSteps ==
  [Next]_vars =>
    \/ granted' = granted /\ party' = party
    \/ \E q \in Requests : AcceptWrite(q) \/ RegisterWrite(q)
BY DEF vars, Next, Invite, Accept, Register, InviteRead, InviteWrite, AcceptRead,
       Decline, Revoke, CloseChallenge, ExpireIfNeeded, Lapse, RegisterRead,
       ChangeLifecycle, Abort

(* What an accept grants, to a user that exists. *)
LEMMA AcceptGrants ==
  ASSUME TypeOK, IInv, NEW q \in Requests, AcceptWrite(q)
  PROVE  \E i \in Ids, e \in Emails :
           /\ invitation[i] \in Row /\ e = invitation[i].email
           /\ invitation'[i].status = "ACCEPTED"
           /\ \/ granted' = granted /\ party' = party
              \/ /\ e \in users
                 /\ granted' = [granted EXCEPT ![e] = @ \cup {i}]
                 /\ \/ party' = party
                    \/ invitation[i].party /\ party' = e /\ party \in {Null, e}
<1> DEFINE i == dealing[q].id
           e == invitation[i].email
<1>1. i \in Ids
  BY DEF AcceptWrite, Granted, Is, TypeOK, Dealing
<1>2. invitation[i] \in Row
  BY <1>1 DEF AcceptWrite, Granted, TypeOK, Has, Exists
<1>3. e \in Emails
  BY <1>2 DEF Row
<1>4. dealing[q].registered => e \in users
  BY DEF AcceptWrite, Granted, IInv
<1>5. invitation'[i].status = "ACCEPTED"
  BY <1>1, <1>2 DEF AcceptWrite, Granted, TypeOK, Row
<1>6. \/ granted' = granted /\ party' = party
      \/ /\ dealing[q].registered
         /\ granted' = [granted EXCEPT ![e] = @ \cup {i}]
         /\ \/ party' = party
            \/ invitation[i].party /\ party' = e /\ party \in {Null, e}
  BY DEF AcceptWrite, Granted, CanLink
<1> HIDE DEF i, e
<1>7. WITNESS i \in Ids, e \in Emails
<1> QED
  BY <1>2, <1>4, <1>5, <1>6 DEF e

(* What a registration grants: invitations that its person accepted. *)
LEMMA RegisterGrants ==
  ASSUME TypeOK, IInv, NEW q \in Requests, RegisterWrite(q)
  PROVE  \E e \in Emails : \E found \in SUBSET Ids :
           /\ \A i \in found : To(i, e) /\ Has(i, "ACCEPTED")
           /\ e \in users'
           /\ granted' = [granted EXCEPT ![e] = @ \cup found]
           /\ \/ party' = party
              \/ /\ party' = e /\ party \in {Null, e}
                 /\ \E i \in found : invitation[i].party
<1>1. dealing[q].email \in Emails /\ dealing[q].found \in SUBSET Ids
  BY DEF RegisterWrite, Granted, Is, TypeOK, Dealing
<1>2. \A i \in dealing[q].found : To(i, dealing[q].email) /\ Has(i, "ACCEPTED")
  BY DEF RegisterWrite, Granted, IInv
<1>3. /\ dealing[q].email \in users'
      /\ granted' = [granted EXCEPT ![dealing[q].email] = @ \cup dealing[q].found]
      /\ \/ party' = party
         \/ /\ party' = dealing[q].email /\ party \in {Null, dealing[q].email}
            /\ \E i \in dealing[q].found : invitation[i].party
  BY DEF RegisterWrite, Granted, CanLink
<1> QED
  BY <1>1, <1>2, <1>3

(* Every step keeps memberships resting on accepted invitations. *)
LEMMA StepGrants == TypeOK /\ IInv /\ [Next]_vars => GrantsAreAccepted'
<1> SUFFICES ASSUME TypeOK, IInv, [Next]_vars, NEW f \in Emails, NEW j \in granted'[f]
             PROVE  f \in users' /\ To(j, f)' /\ Has(j, "ACCEPTED")'
  BY DEF GrantsAreAccepted
<1>0. granted \in [Emails -> SUBSET Ids] /\ GrantsAreAccepted
  BY DEF TypeOK, IInv
<1>1. ASSUME j \in Ids, To(j, f), Has(j, "ACCEPTED")
      PROVE  To(j, f)' /\ Has(j, "ACCEPTED")'
  BY <1>1, Lasting DEF To, Has, Exists
<1>2. CASE j \in granted[f]
  BY <1>0, <1>1, <1>2, UsersStay DEF GrantsAreAccepted
<1>3. ASSUME NEW q \in Requests, AcceptWrite(q), j \notin granted[f]
      PROVE  f \in users' /\ To(j, f)' /\ Has(j, "ACCEPTED")'
  <2>1. PICK i \in Ids, e \in Emails :
          /\ invitation[i] \in Row /\ e = invitation[i].email
          /\ invitation'[i].status = "ACCEPTED"
          /\ e \in users
          /\ granted' = [granted EXCEPT ![e] = @ \cup {i}]
    BY <1>3, AcceptGrants
  <2>2. j = i /\ f = e
    BY <1>0, <1>3, <2>1
  <2>3. Exists(j)
    BY <2>1, <2>2 DEF Exists
  <2> QED
    BY <2>1, <2>2, <2>3, Lasting, UsersStay DEF To, Has, Exists
<1>4. ASSUME NEW q \in Requests, RegisterWrite(q), j \notin granted[f]
      PROVE  f \in users' /\ To(j, f)' /\ Has(j, "ACCEPTED")'
  <2>1. PICK e \in Emails, found \in SUBSET Ids :
          /\ \A i \in found : To(i, e) /\ Has(i, "ACCEPTED")
          /\ e \in users'
          /\ granted' = [granted EXCEPT ![e] = @ \cup found]
    BY <1>4, RegisterGrants
  <2>2. j \in found /\ f = e
    BY <1>0, <1>4, <2>1
  <2> QED
    BY <1>1, <2>1, <2>2
<1> QED
  BY <1>0, <1>2, <1>3, <1>4, GrantSteps

(* Every step keeps the lease party with a person that accepted it. *)
LEMMA StepParty == TypeOK /\ IInv /\ [Next]_vars => PartyByInvitation'
<1> SUFFICES ASSUME TypeOK, IInv, [Next]_vars, party' # Null
             PROVE  \E i \in granted'[party'] : Exists(i)' /\ invitation'[i].party
  BY DEF PartyByInvitation
<1>0. /\ granted \in [Emails -> SUBSET Ids] /\ party \in Emails \cup {Null}
      /\ party # Null => \E i \in granted[party] : Exists(i) /\ invitation[i].party
  BY DEF TypeOK, IInv, PartyByInvitation
<1>1. ASSUME NEW i \in Ids, Exists(i), invitation[i].party
      PROVE  Exists(i)' /\ invitation'[i].party
  BY <1>1, Lasting
<1>2. ASSUME party' = party, granted[party] \subseteq granted'[party]
      PROVE  \E i \in granted'[party'] : Exists(i)' /\ invitation'[i].party
  <2>1. PICK i \in granted[party] : Exists(i) /\ invitation[i].party
    BY <1>0, <1>2
  <2>2. i \in Ids
    BY <1>0, <1>2
  <2> QED
    BY <1>1, <1>2, <2>1, <2>2
<1>3. ASSUME NEW q \in Requests, AcceptWrite(q)
      PROVE  \E i \in granted'[party'] : Exists(i)' /\ invitation'[i].party
  <2>1. PICK i \in Ids, e \in Emails :
          /\ invitation[i] \in Row
          /\ \/ granted' = granted /\ party' = party
             \/ /\ granted' = [granted EXCEPT ![e] = @ \cup {i}]
                /\ \/ party' = party
                   \/ invitation[i].party /\ party' = e
    BY <1>3, AcceptGrants
  <2>2. CASE party' = party
    <3>1. granted[party] \subseteq granted'[party]
      BY <1>0, <2>1, <2>2
    <3> QED
      BY <1>2, <2>2, <3>1
  <2>3. CASE party' # party
    <3>1. i \in granted'[party'] /\ invitation[i].party /\ Exists(i)
      BY <1>0, <2>1, <2>3 DEF Exists
    <3> QED
      BY <1>1, <3>1
  <2> QED
    BY <2>2, <2>3
<1>4. ASSUME NEW q \in Requests, RegisterWrite(q)
      PROVE  \E i \in granted'[party'] : Exists(i)' /\ invitation'[i].party
  <2>1. PICK e \in Emails, found \in SUBSET Ids :
          /\ \A i \in found : To(i, e) /\ Has(i, "ACCEPTED")
          /\ granted' = [granted EXCEPT ![e] = @ \cup found]
          /\ \/ party' = party
             \/ party' = e /\ \E i \in found : invitation[i].party
    BY <1>4, RegisterGrants
  <2>2. CASE party' = party
    <3>1. granted[party] \subseteq granted'[party]
      BY <1>0, <2>1, <2>2
    <3> QED
      BY <1>2, <2>2, <3>1
  <2>3. CASE party' # party
    <3>1. PICK i \in found : invitation[i].party
      BY <2>1, <2>3
    <3>2. i \in Ids /\ i \in granted'[party'] /\ Exists(i)
      BY <1>0, <2>1, <2>3, <3>1 DEF To
    <3> QED
      BY <1>1, <3>1, <3>2
  <2> QED
    BY <2>2, <2>3
<1> QED
  BY <1>0, <1>2, <1>3, <1>4, GrantSteps

(* What the transactions in flight have read stays true. *)
LEMMA StepRequests ==
  TypeOK /\ IInv /\ [Next]_vars =>
    (\A q \in Requests :
       /\ Is(q, "accept") =>
            /\ Exists(dealing[q].id)
            /\ dealing[q].registered => invitation[dealing[q].id].email \in users
       /\ Is(q, "register") =>
            \A i \in dealing[q].found : To(i, dealing[q].email) /\ Has(i, "ACCEPTED"))'
<1> SUFFICES ASSUME TypeOK, IInv, [Next]_vars, NEW q \in Requests, dealing'[q] # Null
             PROVE  /\ dealing'[q].kind = "accept" =>
                         /\ invitation'[dealing'[q].id] # Null
                         /\ dealing'[q].registered => invitation'[dealing'[q].id].email \in users'
                    /\ dealing'[q].kind = "register" =>
                         \A i \in dealing'[q].found :
                           /\ invitation'[i] # Null
                           /\ invitation'[i].email = dealing'[q].email
                           /\ invitation'[i].status = "ACCEPTED"
  BY DEF Is, To, Has, Exists
<1>0. dealing \in [Requests -> Dealing \cup {Null}]
  BY DEF TypeOK
<1>1. CASE dealing'[q] = dealing[q]
  <2>1. ASSUME dealing[q].kind = "accept"
        PROVE  /\ invitation'[dealing[q].id] # Null
               /\ dealing[q].registered => invitation'[dealing[q].id].email \in users'
    <3>1. dealing[q].id \in Ids
      BY <1>0, <1>1, <2>1 DEF Dealing
    <3>2. /\ Exists(dealing[q].id)
          /\ dealing[q].registered => invitation[dealing[q].id].email \in users
      BY <1>1, <2>1 DEF IInv, Is
    <3> QED
      BY <3>1, <3>2, Lasting, UsersStay DEF Exists
  <2>2. ASSUME dealing[q].kind = "register", NEW i \in dealing[q].found
        PROVE  /\ invitation'[i] # Null
               /\ invitation'[i].email = dealing[q].email
               /\ invitation'[i].status = "ACCEPTED"
    <3>1. i \in Ids
      BY <1>0, <1>1, <2>2 DEF Dealing
    <3>2. To(i, dealing[q].email) /\ Has(i, "ACCEPTED")
      BY <1>1, <2>2 DEF IInv, Is
    <3> QED
      BY <1>1, <3>1, <3>2, Lasting DEF To, Has, Exists
  <2> QED
    BY <1>1, <2>1, <2>2
<1>2. ASSUME NEW i \in Ids, AcceptRead(q, i)
      PROVE  /\ dealing'[q].kind = "accept"
             /\ invitation'[dealing'[q].id] # Null
             /\ dealing'[q].registered => invitation'[dealing'[q].id].email \in users'
  BY <1>0, <1>2 DEF AcceptRead, Begin, Open, Exists
<1>3. ASSUME NEW e \in Emails, RegisterRead(q, e)
      PROVE  /\ dealing'[q].kind = "register"
             /\ \A i \in dealing'[q].found :
                  /\ invitation'[i] # Null
                  /\ invitation'[i].email = dealing'[q].email
                  /\ invitation'[i].status = "ACCEPTED"
  BY <1>0, <1>3 DEF RegisterRead, Begin, To, Has, Exists
<1>4. ASSUME NEW e \in Emails, NEW p \in BOOLEAN, InviteRead(q, e, p)
      PROVE  dealing'[q].kind = "invite"
  BY <1>0, <1>4 DEF InviteRead, Begin
<1>5. \/ dealing'[q] = dealing[q]
      \/ \E i \in Ids : AcceptRead(q, i)
      \/ \E e \in Emails : RegisterRead(q, e)
      \/ \E e \in Emails, p \in BOOLEAN : InviteRead(q, e, p)
  <2>1. ASSUME NEW p \in Requests, NEW d, Begin(p, d)
        PROVE  dealing'[q] = IF q = p THEN d ELSE dealing[q]
    BY <1>0, <2>1 DEF Begin
  <2>2. CASE \E p \in Requests : End(p)
    BY <2>1, <2>2 DEF End
  <2>3. CASE dealing' = dealing
    BY <2>3
  <2>4. CASE \E p \in Requests, i \in Ids : AcceptRead(p, i)
    BY <2>1, <2>4 DEF AcceptRead
  <2>5. CASE \E p \in Requests, e \in Emails : RegisterRead(p, e)
    BY <2>1, <2>5 DEF RegisterRead
  <2>6. CASE \E p \in Requests, e \in Emails, b \in BOOLEAN : InviteRead(p, e, b)
    BY <2>1, <2>6 DEF InviteRead
  <2> QED
    BY <2>2, <2>3, <2>4, <2>5, <2>6
    DEF vars, Next, Invite, Accept, Register, InviteWrite, AcceptWrite, Granted, Decline, Revoke,
        CloseChallenge, ExpireIfNeeded, Lapse, RegisterWrite, Granted, ChangeLifecycle, Abort
<1> QED
  BY <1>1, <1>2, <1>3, <1>4, <1>5

(* The invariant is inductive. *)
LEMMA StepInvariant == TypeOK /\ IInv /\ [Next]_vars => IInv'
BY StepOutcome, StepGrants, StepParty, StepRequests DEF IInv

(* Types and invariant, for every number of invitations, addresses and transactions. *)
THEOREM Invariance == Spec => [](TypeOK /\ IInv)
<1>1. Init => TypeOK /\ IInv
  BY DEF Init, TypeOK, IInv, OneOutcome, GrantsAreAccepted, PartyByInvitation, Exists, Is
<1> QED
  BY <1>1, StepTypes, StepInvariant, PTL DEF Spec

(* Invitation and challenge end together, whichever answer, revocation or expiry wins. *)
THEOREM OutcomeUnique == Spec => []OneOutcome
<1>1. IInv => OneOutcome
  BY DEF IInv
<1> QED
  BY Invariance, <1>1, PTL

(* Nobody becomes a member by an invitation of another, or one not accepted. *)
THEOREM MembershipsAccepted == Spec => []GrantsAreAccepted
<1>1. IInv => GrantsAreAccepted
  BY DEF IInv
<1> QED
  BY Invariance, <1>1, PTL

(* The lease party is linked to a person that accepted an invitation for it. *)
THEOREM PartyInvited == Spec => []PartyByInvitation
<1>1. IInv => PartyByInvitation
  BY DEF IInv
<1> QED
  BY Invariance, <1>1, PTL

-----------------------------------------------------------------------------
(* What is settled stays: no answer is taken back, no membership lost, and the lease *)
(* party is never handed to another person.                                          *)
THEOREM Settled == Spec => SettledStays
<1> DEFINE Kept ==
      /\ \A i \in Ids :
           Exists(i) /\ ~Has(i, "PENDING") =>
             invitation'[i] # Null /\ invitation'[i].status = invitation[i].status
      /\ \A e \in Emails : granted[e] \subseteq granted'[e]
      /\ party # Null => party' = party
<1>1. TypeOK /\ IInv /\ [Next]_vars => [Kept]_vars
  <2> SUFFICES ASSUME TypeOK, IInv, [Next]_vars PROVE Kept
    OBVIOUS
  <2>1. \A i \in Ids :
          Exists(i) /\ ~Has(i, "PENDING") =>
            invitation'[i] # Null /\ invitation'[i].status = invitation[i].status
    BY Lasting DEF Has, Exists
  <2>2. (\A e \in Emails : granted[e] \subseteq granted'[e]) /\ (party # Null => party' = party)
    <3>0. granted \in [Emails -> SUBSET Ids]
      BY DEF TypeOK
    <3>1. ASSUME NEW q \in Requests, AcceptWrite(q)
          PROVE  (\A e \in Emails : granted[e] \subseteq granted'[e]) /\ (party # Null => party' = party)
      BY <3>0, <3>1, AcceptGrants
    <3>2. ASSUME NEW q \in Requests, RegisterWrite(q)
          PROVE  (\A e \in Emails : granted[e] \subseteq granted'[e]) /\ (party # Null => party' = party)
      BY <3>0, <3>2, RegisterGrants
    <3> QED
      BY <3>1, <3>2, GrantSteps
  <2> QED
    BY <2>1, <2>2
<1> QED
  BY Invariance, <1>1, PTL DEF Spec, SettledStays

-----------------------------------------------------------------------------
(* Accepting and declining use a challenge of the verification engine once, while it is *)
(* open; all else closes challenges or leaves them alone.                               *)
THEOREM Refinement == Spec => ImplementsChallenge
<1> DEFINE issued == {i \in Ids : Exists(i)}
           open == {i \in Ids : Open(i)}
           uses == [i \in Ids |-> IF Exists(i) /\ invitation[i].challenge = "USED" THEN 1 ELSE 0]
<1>1. Init => Challenge!Init
  BY DEF Init, Challenge!Init, Exists, Open
<1>2. TypeOK /\ IInv /\ [Next]_vars => [Challenge!Next]_(Challenge!vars)
  <2> SUFFICES ASSUME TypeOK, IInv, [Next]_vars
               PROVE  Challenge!Next \/ (issued' = issued /\ open' = open /\ uses' = uses)
    BY DEF Challenge!vars
  <2>0. invitation \in [Ids -> Row \cup {Null}]
    BY DEF TypeOK
  <2>1. CASE invitation' = invitation
    BY <2>1 DEF Exists, Open
  (* A new invitation; those it replaces were open no longer. *)
  <2>2. ASSUME NEW q \in Requests, NEW i \in Ids, InviteWrite(q, i)
        PROVE  Challenge!Issue(i, {})
    <3>1. ~Exists(i) /\ Exists(i)' /\ Open(i)' /\ invitation'[i].challenge = "OPEN"
      <4>1. invitation'[i] = [email |-> dealing[q].email, status |-> "PENDING", challenge |-> "OPEN",
                              lapsed |-> FALSE, party |-> dealing[q].party]
        BY <2>2 DEF InviteWrite
      <4>2. invitation'[i] # Null
        <5>1. dealing[q].email \in Emails /\ dealing[q].party \in BOOLEAN
          BY <2>2 DEF InviteWrite, Is, TypeOK, Dealing
        <5>2. invitation'[i] \in Row
          BY <4>1, <5>1 DEF Row
        <5> QED
          BY <5>2
      <4> QED
        BY <2>2, <4>1, <4>2 DEF InviteWrite, Exists, Open
    <3>2. ASSUME NEW j \in Ids, j # i
          PROVE  /\ Exists(j)' <=> Exists(j)
                 /\ Open(j)' <=> Open(j)
                 /\ Exists(j) => invitation'[j].challenge = invitation[j].challenge
      <4>1. CASE Has(j, "PENDING") /\ To(j, dealing[q].email)
        <5>1. invitation[j] \in Row /\ invitation[j].lapsed
          BY <2>0, <2>2, <4>1 DEF InviteWrite, Has, Exists
        <5>2. invitation'[j] = [invitation[j] EXCEPT !.status = "EXPIRED"]
          BY <2>2, <3>2, <4>1 DEF InviteWrite
        <5>3. /\ invitation'[j] \in Row /\ invitation'[j].lapsed
              /\ invitation'[j].challenge = invitation[j].challenge
          BY <5>1, <5>2 DEF Row
        <5> QED
          BY <5>1, <5>3 DEF Exists, Open
      <4>2. CASE ~(Has(j, "PENDING") /\ To(j, dealing[q].email))
        <5>1. invitation'[j] = invitation[j]
          BY <2>2, <3>2, <4>2 DEF InviteWrite
        <5> QED
          BY <5>1 DEF Exists, Open
      <4> QED
        BY <4>1, <4>2
    <3>3. issued' = issued \cup {i} /\ open' = open \cup {i} /\ uses' = uses
      BY <3>1, <3>2
    <3> QED
      BY <3>1, <3>3 DEF Challenge!Issue
  (* The first answer uses it. *)
  <2>3. ASSUME NEW i \in Ids, Open(i), Has(i, "PENDING"), NEW answer \in {"ACCEPTED", "DECLINED"},
               invitation' = [invitation EXCEPT ![i].status = answer, ![i].challenge = "USED"]
        PROVE  Challenge!Use(i)
    <3>1. invitation[i] \in Row
      BY <2>0, <2>3 DEF Has, Exists
    <3>2. invitation'[i] = [invitation[i] EXCEPT !.status = answer, !.challenge = "USED"]
      BY <2>0, <2>3
    <3>3. invitation'[i] \in Row /\ invitation'[i].challenge = "USED"
      BY <3>1, <3>2 DEF Row
    <3>4. \A j \in Ids : j # i => invitation'[j] = invitation[j]
      BY <2>0, <2>3
    <3>5. issued' = issued /\ open' = open \ {i}
      BY <3>1, <3>3, <3>4 DEF Exists, Open
    <3>6. uses' = [uses EXCEPT ![i] = @ + 1]
      <4>1. uses[i] = 0 /\ uses'[i] = 1
        BY <2>3, <3>1, <3>3 DEF Open, Exists
      <4>2. \A j \in Ids : uses'[j] = IF j = i THEN 1 ELSE uses[j]
        BY <3>4, <4>1 DEF Exists
      <4>3. uses' = [uses EXCEPT ![i] = 1]
        BY <4>2
      <4> HIDE DEF uses
      <4>4. uses[i] + 1 = 1
        BY <4>1
      <4> QED
        BY <4>3, <4>4
    <3> QED
      BY <2>3, <3>5, <3>6 DEF Challenge!Use
  (* Revocation and expiry close it. *)
  <2>4. ASSUME NEW i \in Ids, Revoke(i) \/ CloseChallenge(i) \/ ExpireIfNeeded(i) \/ Lapse(i)
        PROVE  Challenge!Close(open \ open')
    <3>1. ASSUME NEW r \in Row, NEW s, Ended(r, s) \/ Faded(r, s)
          PROVE  /\ s \in Row
                 /\ s.challenge = "OPEN" /\ ~s.lapsed => r.challenge = "OPEN" /\ ~r.lapsed
                 /\ s.challenge = "USED" <=> r.challenge = "USED"
      <4>1. CASE s = [r EXCEPT !.status = "EXPIRED"]
        BY <4>1 DEF Row
      <4>2. CASE s = [r EXCEPT !.status = "REVOKED",
                          !.challenge = IF r.challenge = "OPEN" THEN "CLOSED" ELSE r.challenge]
        BY <4>2 DEF Row
      <4>3. CASE r.challenge = "OPEN" /\ s = [r EXCEPT !.challenge = "CLOSED"]
        BY <4>3 DEF Row
      <4>4. CASE s = [r EXCEPT !.lapsed = TRUE]
        BY <4>4 DEF Row
      <4> QED
        BY <3>1, <4>1, <4>2, <4>3, <4>4 DEF Ended, Faded
    <3>2. ASSUME NEW j \in Ids
          PROVE  /\ Exists(j)' <=> Exists(j)
                 /\ Open(j)' => Open(j)
                 /\ Exists(j)' /\ invitation'[j].challenge = "USED" <=>
                      Exists(j) /\ invitation[j].challenge = "USED"
      <4>1. CASE invitation'[j] = invitation[j]
        BY <4>1 DEF Exists, Open
      <4>2. CASE invitation'[j] # invitation[j]
        BY <2>4, <3>1, <4>2, QuietSteps DEF Exists, Open
      <4> QED
        BY <4>1, <4>2
    <3>3. issued' = issued /\ open' \subseteq open /\ uses' = uses
      BY <3>2
    <3>4. open' = open \ (open \ open')
      BY <3>3
    <3> QED
      BY <3>3, <3>4 DEF Challenge!Close
  <2>5. ASSUME NEW q \in Requests, AcceptWrite(q)
        PROVE  \E i \in Ids : Challenge!Use(i)
    <3>1. dealing[q].id \in Ids
      BY <2>5 DEF AcceptWrite, Granted, Is, TypeOK, Dealing
    <3> QED
      BY <2>3, <2>5, <3>1 DEF AcceptWrite, Granted
  <2>6. ASSUME NEW i \in Ids, Decline(i)
        PROVE  Challenge!Use(i)
    BY <2>3, <2>6 DEF Decline
  <2>7. open \ open' \subseteq Ids
    OBVIOUS
  <2> HIDE DEF issued, open, uses
  <2>8. CASE \E i \in Ids : Revoke(i) \/ CloseChallenge(i) \/ ExpireIfNeeded(i) \/ Lapse(i)
    BY <2>4, <2>7, <2>8 DEF Challenge!Next
  <2>9. CASE \E q \in Requests, i \in Ids : InviteWrite(q, i)
    BY <2>2, <2>9 DEF Challenge!Next
  <2> QED
    BY <2>1, <2>5, <2>6, <2>8, <2>9
    DEF vars, Next, Invite, Accept, Register, InviteRead, AcceptRead, RegisterRead, RegisterWrite, Granted,
        ChangeLifecycle, Abort, Challenge!Next
<1> QED
  BY Invariance, <1>1, <1>2, PTL DEF Spec, ImplementsChallenge, Challenge!Spec

=============================================================================
