------------------------- MODULE VerificationEngine -------------------------
(***************************************************************************)
(* The verification engine                                                 *)
(* (apps/api/src/identity/verification-engine/verification-engine.service) *)
(* for one subject, channel and purpose.                                   *)
(*                                                                         *)
(* Each operation is one READ COMMITTED transaction: it reads, decides,    *)
(* and then updates rows, most of the time with a condition.  A reading    *)
(* step and the rest of the transaction are two steps here; in the second  *)
(* the first update locks the row, so what follows it is one step.         *)
(*                                                                         *)
(* Left out: secrets and hashes (a request presents the right code or a    *)
(* wrong one), audit and outbox rows, encryption of the envelope.          *)
(***************************************************************************)
EXTENDS Naturals

CONSTANTS
  Challenges,   \* ids of rows of "Verification" of this subject, channel and purpose
  Requests,     \* transactions in flight
  MaxAttempts,  \* settings.maximumAttempts
  MaxResends,   \* settings.maximumResends
  Indexed,      \* the index Verification_one_active_email_per_user covers the purpose
  Null          \* no row, no request

VARIABLES
  row,      \* the table "Verification", each row with its delivery envelope
  request,  \* what each transaction has read
  applied   \* how often afterVerified has taken effect for each challenge

vars == <<row, request, applied>>

ASSUME LimitAssumption == MaxAttempts \in Nat \ {0} /\ MaxResends \in Nat /\ Indexed \in BOOLEAN

(* age: inside the resend cooldown, past it, past expiresAt. *)
Row ==
  [status   : {"PENDING", "VERIFIED", "EXPIRED", "REVOKED", "ATTEMPTS_EXCEEDED"},
   attempts : 0..MaxAttempts, resends : 0..MaxResends,
   age      : {"new", "ready", "expired"},
   envelope : {"PENDING", "DESTROYED", "EXPIRED"}]

(* right, wrong, late: verify; then resendVerification and expire.  target is the row    *)
(* read, found the rows seen expired, seen all rows there were.                          *)
Request ==
  [kind : {"right", "wrong", "late", "resend", "expire"}, target : Challenges \cup {Null},
   found : SUBSET Challenges, seen : SUBSET Challenges]

ASSUME NullAssumption == Null \notin Challenges /\ Null \notin Row /\ Null \notin Request

-----------------------------------------------------------------------------
(* Helpers *)

Exists(v) == row[v] # Null
Pending(v) == Exists(v) /\ row[v].status = "PENDING"
Old(v) == Exists(v) /\ row[v].age = "expired"
Open(v) == Pending(v) /\ ~Old(v)
Lapsed(v) == Pending(v) /\ Old(v)

AllRows == {v \in Challenges : Exists(v)}
Is(q, kind) == request[q] # Null /\ request[q].kind = kind
Done(q) == request' = [request EXCEPT ![q] = Null]

New(resends) ==
  [status |-> "PENDING", attempts |-> 0, resends |-> resends, age |-> "new", envelope |-> "PENDING"]

(* destroyVerificationDeliveryEnvelope *)
Destroyed(r) == IF r.envelope = "PENDING" THEN [r EXCEPT !.envelope = "DESTROYED"] ELSE r

(* expirePendingVerificationsBySubject, on one row *)
Lapse(v) == IF Lapsed(v) THEN [row[v] EXCEPT !.status = "EXPIRED"] ELSE row[v]

(* the same and expireVerificationDeliveryEnvelopesBySubject, on an expired row *)
LapseBoth(r) ==
  [r EXCEPT !.status = IF @ = "PENDING" THEN "EXPIRED" ELSE @,
            !.envelope = IF @ = "PENDING" THEN "EXPIRED" ELSE @]

(* revokeVerification and destroyVerificationDeliveryEnvelope *)
Revoked(r) == Destroyed([r EXCEPT !.status = IF @ = "PENDING" THEN "REVOKED" ELSE @])

(* recordVerificationFailure *)
Counted(v) ==
  IF Open(v) /\ row[v].attempts < MaxAttempts THEN [row[v] EXCEPT !.attempts = @ + 1] ELSE row[v]

(* verifyVerification, on an open row *)
Consumed(v) == [row[v] EXCEPT !.status = "VERIFIED", !.attempts = @ + 1]

-----------------------------------------------------------------------------
(* Actions *)

(* createVerification: the first challenge of a subject that a registration or an *)
(* invitation creates in the same transaction, unknown to any other request.      *)
Create(n) ==
  /\ AllRows = {} /\ \A q \in Requests : request[q] = Null
  /\ row' = [row EXCEPT ![n] = New(0)]
  /\ UNCHANGED <<request, applied>>

(* verify reads the row.  Found closed it is a replay, which changes nothing. *)
VerifyRead(q, v, right) ==
  /\ request[q] = Null
  /\ Pending(v)
  /\ request' = [request EXCEPT ![q] =
       [kind |-> IF Old(v) THEN "late" ELSE IF right THEN "right" ELSE "wrong",
        target |-> v, found |-> {}, seen |-> AllRows]]
  /\ UNCHANGED <<row, applied>>

(* verify, past expiresAt: expires the subject's rows and destroys this envelope. *)
VerifyLate(q) ==
  /\ Is(q, "late")
  /\ row' = [v \in Challenges |-> IF v = request[q].target THEN Destroyed(Lapse(v)) ELSE Lapse(v)]
  /\ Done(q)
  /\ UNCHANGED applied

(* Mutant: the limit is checked one too late. *)
VerifyWrongOneLate(q) ==
  /\ Is(q, "wrong")
  /\ LET v == request[q].target  counted == Counted(v) IN
       row' = [row EXCEPT ![v] =
                 IF counted.attempts > MaxAttempts
                   THEN Destroyed([counted EXCEPT !.status = "ATTEMPTS_EXCEEDED"]) ELSE counted]
  /\ Done(q)
  /\ UNCHANGED applied

(* verify with a wrong code: recordVerificationFailure is conditional, the status written *)
(* when the row has no attempts left is not.                                              *)
VerifyWrong(q) ==
  /\ Is(q, "wrong")
  /\ LET v == request[q].target  counted == Counted(v) IN
       row' = [row EXCEPT ![v] =
                 IF counted.attempts >= MaxAttempts
                   THEN Destroyed([counted EXCEPT !.status = "ATTEMPTS_EXCEEDED"]) ELSE counted]
  /\ Done(q)
  /\ UNCHANGED applied

(* Mutant: the code is consumed by id alone. *)
VerifyRightById(q) ==
  /\ Is(q, "right")
  /\ LET v == request[q].target IN
       /\ row' = [row EXCEPT ![v] = Destroyed([row[v] EXCEPT !.status = "VERIFIED"])]
       /\ applied' = [applied EXCEPT ![v] = @ + 1]
  /\ Done(q)

(* verify with the right code: verifyVerification, the envelope, the callback.  A row no  *)
(* longer open makes it a replay.                                                         *)
VerifyRight(q) ==
  /\ Is(q, "right")
  /\ LET v == request[q].target IN
       IF Open(v)
         THEN /\ row[v].attempts < MaxAttempts  \* CHECK Verification_attempt_bounds_check
              /\ row' = [row EXCEPT ![v] = Destroyed(Consumed(v))]
              /\ applied' = [applied EXCEPT ![v] = @ + 1]
         ELSE UNCHANGED <<row, applied>>
  /\ Done(q)

(* Mutant: the cooldown is not looked at. *)
ResendReadEager(q) ==
  /\ request[q] = Null
  /\ \E a \in Challenges \cup {Null} :
       /\ IF a = Null THEN \A v \in Challenges : ~Open(v)
                      ELSE Open(a) /\ row[a].resends < MaxResends
       /\ request' = [request EXCEPT ![q] =
            [kind |-> "resend", target |-> a, found |-> {v \in Challenges : Old(v)}, seen |-> AllRows]]
  /\ UNCHANGED <<row, applied>>

(* resendVerification expires what is old and reads the newest open row; of rows created *)
(* by concurrent transactions either may be the newest.                                  *)
ResendRead(q) ==
  /\ request[q] = Null
  /\ \E a \in Challenges \cup {Null} :
       /\ IF a = Null THEN \A v \in Challenges : ~Open(v)
                      ELSE Open(a) /\ row[a].age # "new" /\ row[a].resends < MaxResends
       /\ request' = [request EXCEPT ![q] =
            [kind |-> "resend", target |-> a, found |-> {v \in Challenges : Old(v)}, seen |-> AllRows]]
  /\ UNCHANGED <<row, applied>>

(* It comes too soon or too often: only the expired rows are written. *)
ResendRefused ==
  /\ \E a \in Challenges : Open(a) /\ (row[a].age = "new" \/ row[a].resends >= MaxResends)
  /\ row' = [v \in Challenges |-> IF Old(v) THEN LapseBoth(row[v]) ELSE row[v]]
  /\ UNCHANGED <<request, applied>>

(* Mutant: the envelope of the replaced challenge is kept. *)
ClearedKeepingEnvelope(r) ==
  [v \in Challenges |->
     IF v \in r.found THEN LapseBoth(row[v])
     ELSE IF v = r.target THEN [row[v] EXCEPT !.status = IF @ = "PENDING" THEN "REVOKED" ELSE @]
     ELSE row[v]]

(* The rows a resend leaves before it inserts the new one. *)
Cleared(r) ==
  [v \in Challenges |->
     IF v \in r.found THEN LapseBoth(row[v])
     ELSE IF v = r.target THEN Revoked(row[v]) ELSE row[v]]

(* The new row takes the place of the one read, whatever has become of that one. *)
ResendWrite(q, n) ==
  /\ Is(q, "resend")
  /\ ~Exists(n)
  /\ LET r == request[q]
         cleared == Cleared(r) IN
       /\ Indexed => \A v \in Challenges : cleared[v] # Null => cleared[v].status # "PENDING"
       /\ row' = [cleared EXCEPT ![n] = New(IF r.target = Null THEN 0 ELSE row[r.target].resends + 1)]
  /\ Done(q)
  /\ UNCHANGED applied

(* revoke, when an invitation is revoked *)
Revoke(v) ==
  /\ Exists(v)
  /\ row' = [row EXCEPT ![v] = Revoked(row[v])]
  /\ UNCHANGED <<request, applied>>

(* expire finds the expired rows, then expires whatever is expired and destroys the *)
(* envelopes of the rows it found.                                                  *)
ExpireRead(q) ==
  /\ request[q] = Null
  /\ \E v \in Challenges : Lapsed(v)
  /\ request' = [request EXCEPT ![q] =
       [kind |-> "expire", target |-> Null, found |-> {v \in Challenges : Lapsed(v)}, seen |-> AllRows]]
  /\ UNCHANGED <<row, applied>>

ExpireWrite(q) ==
  /\ Is(q, "expire")
  /\ row' = [v \in Challenges |-> IF v \in request[q].found THEN Destroyed(Lapse(v)) ELSE Lapse(v)]
  /\ Done(q)
  /\ UNCHANGED applied

(* cleanup *)
Cleanup ==
  /\ row' = [v \in Challenges |->
       IF Old(v) /\ row[v].envelope = "PENDING" THEN [row[v] EXCEPT !.envelope = "EXPIRED"] ELSE row[v]]
  /\ UNCHANGED <<request, applied>>

(* The transaction fails: an error, afterVerified throwing, the index, a crash. *)
Abort(q) ==
  /\ request[q] # Null
  /\ Done(q)
  /\ UNCHANGED <<row, applied>>

(* Time passes.  A transaction ends within 5 s (Prisma's timeout), far less than a    *)
(* cooldown or a challenge lasts: none outlives a challenge created after it started. *)
GrowOlder(v) ==
  /\ Exists(v)
  /\ \A q \in Requests : request[q] # Null => v \in request[q].seen
  /\ \/ row[v].age = "new" /\ row' = [row EXCEPT ![v].age = "ready"]
     \/ row[v].age # "expired" /\ row' = [row EXCEPT ![v].age = "expired"]
  /\ UNCHANGED <<request, applied>>

-----------------------------------------------------------------------------
Init ==
  /\ row = [v \in Challenges |-> Null]
  /\ request = [q \in Requests |-> Null]
  /\ applied = [v \in Challenges |-> 0]

Verify(q) ==
  \/ \E v \in Challenges, right \in BOOLEAN : VerifyRead(q, v, right)
  \/ VerifyLate(q) \/ VerifyWrong(q) \/ VerifyRight(q)

Resend(q) == ResendRead(q) \/ (\E n \in Challenges : ResendWrite(q, n))
Expire(q) == ExpireRead(q) \/ ExpireWrite(q)

Next ==
  \/ \E q \in Requests : Verify(q) \/ Resend(q) \/ Expire(q) \/ Abort(q)
  \/ \E v \in Challenges : Create(v) \/ Revoke(v) \/ GrowOlder(v)
  \/ ResendRefused
  \/ Cleanup

Spec == Init /\ [][Next]_vars

-----------------------------------------------------------------------------
(* Properties *)

(* Every row, request and counter has its type. *)
TypeOK ==
  /\ row \in [Challenges -> Row \cup {Null}]
  /\ request \in [Requests -> Request \cup {Null}]
  /\ applied \in [Challenges -> Nat]

(* Concurrent wrong codes are all counted: what is still pending has attempts left. *)
OpenHasAttempts == \A v \in Challenges : Pending(v) => row[v].attempts < MaxAttempts

(* "Resend, expiry, revocation, attempt exhaustion, and successful confirmation destroy *)
(* the envelope": no closed challenge can still be delivered.                           *)
EnvelopesFollow == \A v \in Challenges : Exists(v) /\ ~Pending(v) => row[v].envelope # "PENDING"

(* The cooldown holds against concurrent requests: no challenge is issued beside one *)
(* that is open and was issued within the cooldown.                                  *)
CooldownHolds ==
  [][\A n, v \in Challenges :
       ~Exists(n) /\ row'[n] # Null => ~(Open(v) /\ row[v].age = "new")]_vars

(* "Successful verification is single-use [...]; replay, expiry, and attempt-limit       *)
(* outcomes are audited": once it succeeded, a challenge is not recorded as a failed one. *)
VerifiedIsFinal ==
  [][\A v \in Challenges :
       Exists(v) /\ row[v].status = "VERIFIED" => row'[v].status = "VERIFIED"]_vars

-----------------------------------------------------------------------------
(* The inductive invariant *)

(* The effect has been applied once where the row says so, and never for another row. *)
AppliedOnce ==
  \A v \in Challenges :
    /\ applied[v] \in {0, 1}
    /\ applied[v] = 1 => Exists(v) /\ row[v].status \in {"VERIFIED", "ATTEMPTS_EXCEEDED"}

(* Requests name rows that exist; a late or expire request knows every row that may lapse. *)
RequestsKnow ==
  \A q \in Requests :
    request[q] # Null =>
      /\ request[q].target # Null => Exists(request[q].target)
      /\ \A v \in request[q].seen : Exists(v)
      /\ \A v \in request[q].found : Old(v)
      /\ \A v \in Challenges : Old(v) => v \in request[q].seen
      /\ request[q].kind \in {"right", "wrong", "late"} => request[q].target # Null
      /\ request[q].kind = "resend" /\ request[q].target # Null =>
           row[request[q].target].resends < MaxResends /\ row[request[q].target].age # "new"

(* Under the unique index one row at most is pending, and only the row a request found *)
(* expired can lapse by its hand.                                                      *)
OnePending ==
  Indexed =>
    /\ \A v, w \in Challenges : Pending(v) /\ Pending(w) => v = w
    /\ \A q \in Requests, v \in Challenges :
         /\ Is(q, "late") /\ v \in request[q].seen /\ Pending(v) => v = request[q].target
         /\ Is(q, "expire") /\ v \in request[q].seen /\ Pending(v) => v \in request[q].found

IInv ==
  /\ OpenHasAttempts
  /\ AppliedOnce
  /\ RequestsKnow
  /\ OnePending
  /\ Indexed => EnvelopesFollow

-----------------------------------------------------------------------------
(* Refinement *)

Challenge == INSTANCE OneTimeChallenge WITH
  issued <- AllRows,
  open   <- {v \in Challenges : Open(v)},
  uses   <- applied

(* The engine implements one-time challenges, whatever its transactions interleave. *)
ImplementsChallenge == Challenge!Spec

=============================================================================
