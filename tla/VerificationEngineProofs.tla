---------------------- MODULE VerificationEngineProofs ----------------------
(***************************************************************************)
(* Proofs about VerificationEngine, for any number of challenges and       *)
(* transactions, any limits, with the unique index or without.             *)
(***************************************************************************)
EXTENDS VerificationEngine, TLAPS

(* What the helpers do to a row. *)

(* A new challenge is pending, with attempts left. *)
LEMMA NewFacts ==
  ASSUME NEW k \in 0..MaxResends
  PROVE  /\ New(k) \in Row /\ New(k) # Null
         /\ New(k).status = "PENDING" /\ New(k).attempts < MaxAttempts /\ New(k).resends = k
         /\ New(k).age = "new" /\ New(k).envelope = "PENDING"
BY LimitAssumption, NullAssumption DEF New, Row

(* Destroying an envelope changes nothing else. *)
LEMMA DestroyedFacts ==
  ASSUME NEW r \in Row
  PROVE  /\ Destroyed(r) \in Row
         /\ Destroyed(r).status = r.status /\ Destroyed(r).attempts = r.attempts
         /\ Destroyed(r).resends = r.resends /\ Destroyed(r).age = r.age
         /\ Destroyed(r).envelope # "PENDING"
BY DEF Destroyed, Row

(* Expiring a challenge with its envelope closes both. *)
LEMMA LapseBothFacts ==
  ASSUME NEW r \in Row
  PROVE  /\ LapseBoth(r) \in Row
         /\ LapseBoth(r).status = IF r.status = "PENDING" THEN "EXPIRED" ELSE r.status
         /\ LapseBoth(r).attempts = r.attempts /\ LapseBoth(r).resends = r.resends
         /\ LapseBoth(r).age = r.age /\ LapseBoth(r).envelope # "PENDING"
BY DEF LapseBoth, Row

(* Revoking a challenge closes it and its envelope. *)
LEMMA RevokedFacts ==
  ASSUME NEW r \in Row
  PROVE  /\ Revoked(r) \in Row
         /\ Revoked(r).status = IF r.status = "PENDING" THEN "REVOKED" ELSE r.status
         /\ Revoked(r).attempts = r.attempts /\ Revoked(r).resends = r.resends
         /\ Revoked(r).age = r.age /\ Revoked(r).envelope # "PENDING"
<1> DEFINE s == [r EXCEPT !.status = IF @ = "PENDING" THEN "REVOKED" ELSE @]
<1>1. /\ s \in Row /\ s.attempts = r.attempts /\ s.resends = r.resends /\ s.age = r.age
      /\ s.status = IF r.status = "PENDING" THEN "REVOKED" ELSE r.status
  BY DEF Row
<1>2. Revoked(r) = Destroyed(s)
  BY DEF Revoked
<1> HIDE DEF s
<1>3. QED
  BY <1>1, <1>2, DestroyedFacts

(* The expiry of challenges alone leaves their envelopes. *)
LEMMA LapseFacts ==
  ASSUME NEW v \in Challenges, row[v] \in Row
  PROVE  /\ Lapse(v) \in Row
         /\ Lapse(v).status = IF Lapsed(v) THEN "EXPIRED" ELSE row[v].status
         /\ Lapse(v).attempts = row[v].attempts /\ Lapse(v).resends = row[v].resends
         /\ Lapse(v).age = row[v].age /\ Lapse(v).envelope = row[v].envelope
BY DEF Lapse, Row

(* A challenge that exists is a row. *)
LEMMA RowType ==
  ASSUME TypeOK, NEW v \in Challenges
  PROVE  Exists(v) <=> row[v] \in Row
BY NullAssumption DEF TypeOK, Exists

(* A transaction in flight names challenges. *)
LEMMA RequestType ==
  ASSUME TypeOK, NEW q \in Requests, request[q] # Null
  PROVE  /\ request[q] \in Request /\ request[q].target \in Challenges \cup {Null}
         /\ request[q].found \subseteq Challenges /\ request[q].seen \subseteq Challenges
BY DEF TypeOK, Request

-----------------------------------------------------------------------------
(* The three things a step does to the table. *)

Final == {"VERIFIED", "ATTEMPTS_EXCEEDED"}

(* The row keeps its past: it does not come back to PENDING nor succeed here. *)
Onward(v) ==
  \/ row[v] = Null /\ row'[v] = Null
  \/ /\ row[v] # Null /\ row'[v] \in Row
     /\ row'[v].resends = row[v].resends
     /\ row[v].age = "expired" => row'[v].age = "expired"
     /\ row'[v].age = "new" => row[v].age = "new"
     /\ row'[v].status = "PENDING" => row[v].status = "PENDING" /\ row'[v].attempts < MaxAttempts
     /\ row'[v].status = "VERIFIED" => row[v].status = "VERIFIED"
     /\ row[v].status \in Final => row'[v].status \in Final
     /\ row'[v].envelope = "PENDING" => row[v].envelope = "PENDING"

Quiet == applied' = applied /\ \A v \in Challenges : Onward(v)

Creates(n) ==
  /\ n \in Challenges /\ row[n] = Null
  /\ \E k \in 0..MaxResends : row'[n] = New(k)
  /\ \A v \in Challenges : v # n => Onward(v)
  /\ Indexed => \A v \in Challenges : v # n /\ row'[v] # Null => row'[v].status # "PENDING"
  /\ applied' = applied

Uses(u) ==
  /\ u \in Challenges /\ Open(u)
  /\ row'[u] \in Row /\ row'[u].status = "VERIFIED" /\ row'[u].resends = row[u].resends
  /\ row'[u].age = row[u].age /\ row'[u].envelope # "PENDING"
  /\ \A v \in Challenges : v # u => row'[v] = row[v]
  /\ applied' = [applied EXCEPT ![u] = @ + 1]

TableStep ==
  \/ Quiet
  \/ \E n \in Challenges : Creates(n)
  \/ \E u \in Challenges : Uses(u)

(* A row that stays is a row taken onward. *)
LEMMA SameRow ==
  ASSUME TypeOK, OpenHasAttempts, NEW v \in Challenges, row'[v] = row[v]
  PROVE  Onward(v)
BY RowType DEF Onward, OpenHasAttempts, Pending, Exists, Final

(* Expiring takes a row onward. *)
LEMMA LapsedRow ==
  ASSUME TypeOK, OpenHasAttempts, NEW v \in Challenges, Old(v), row'[v] = LapseBoth(row[v])
  PROVE  Onward(v)
BY RowType, LapseBothFacts DEF Onward, OpenHasAttempts, Old, Pending, Exists, Final

(* Revoking takes a row onward. *)
LEMMA RevokedRow ==
  ASSUME TypeOK, OpenHasAttempts, NEW v \in Challenges, Exists(v), row'[v] = Revoked(row[v])
  PROVE  Onward(v)
BY RowType, RevokedFacts DEF Onward, Pending, Exists, Final

(* Lapse and Destroyed in any combination. *)
LEMMA LapseRow ==
  ASSUME TypeOK, OpenHasAttempts, NEW v \in Challenges,
         row'[v] = Lapse(v) \/ (Exists(v) /\ row'[v] = Destroyed(Lapse(v)))
  PROVE  Onward(v)
<1>1. CASE ~Exists(v)
  BY <1>1 DEF Onward, Lapse, Lapsed, Pending, Exists
<1>2. CASE Exists(v)
  <2>1. row[v] \in Row /\ Lapse(v) \in Row
    BY <1>2, RowType, LapseFacts
  <2>2. /\ row'[v] \in Row /\ row'[v].status = Lapse(v).status
        /\ row'[v].attempts = Lapse(v).attempts /\ row'[v].resends = Lapse(v).resends
        /\ row'[v].age = Lapse(v).age
        /\ row'[v].envelope = "PENDING" => Lapse(v).envelope = "PENDING"
    BY <2>1, DestroyedFacts
  <2>3. QED
    BY <1>2, <2>1, <2>2, LapseFacts DEF Onward, OpenHasAttempts, Lapsed, Pending, Exists, Final
<1>3. QED
  BY <1>1, <1>2

(* A wrong code issues and uses nothing. *)
LEMMA WrongStep ==
  ASSUME TypeOK, IInv, NEW q \in Requests, VerifyWrong(q)
  PROVE  Quiet
<1>1. PICK v \in Challenges : v = request[q].target /\ row[v] \in Row /\ Exists(v)
  BY RequestType, RowType DEF VerifyWrong, Counted, Is, IInv, RequestsKnow
<1> DEFINE counts == Open(v) /\ row[v].attempts < MaxAttempts
           counted == IF counts THEN [row[v] EXCEPT !.attempts = @ + 1] ELSE row[v]
           new == IF counted.attempts >= MaxAttempts
                    THEN Destroyed([counted EXCEPT !.status = "ATTEMPTS_EXCEEDED"]) ELSE counted
<1>2. /\ counted \in Row /\ counted.status = row[v].status /\ counted.resends = row[v].resends
      /\ counted.age = row[v].age /\ counted.envelope = row[v].envelope
  BY <1>1, LimitAssumption DEF Row
<1>3. row' = [row EXCEPT ![v] = new] /\ applied' = applied
  BY <1>1 DEF VerifyWrong, Counted
<1> HIDE DEF counted
<1>4. CASE counted.attempts >= MaxAttempts
  <2> DEFINE over == [counted EXCEPT !.status = "ATTEMPTS_EXCEEDED"]
  <2>1. /\ over \in Row /\ over.status = "ATTEMPTS_EXCEEDED" /\ over.resends = row[v].resends
        /\ over.age = row[v].age
    BY <1>2 DEF Row
  <2>2. new = Destroyed(over)
    BY <1>4
  <2> HIDE DEF over, new
  <2>3. row'[v] = Destroyed(over)
    BY <1>3, <2>2 DEF TypeOK
  <2>4. Onward(v)
    BY <1>1, <2>1, <2>3, DestroyedFacts DEF Onward, Exists, Final
  <2>5. QED
    BY <1>3, <2>4, SameRow DEF Quiet, TypeOK, IInv
<1>5. CASE ~(counted.attempts >= MaxAttempts)
  <2>1. new = counted /\ counted.attempts < MaxAttempts
    BY <1>2, <1>5, LimitAssumption DEF Row
  <2> HIDE DEF new
  <2>2. row'[v] = counted
    BY <1>3, <2>1 DEF TypeOK
  <2>3. Onward(v)
    BY <1>1, <1>2, <2>1, <2>2 DEF Onward, Exists, Final
  <2>4. QED
    BY <1>3, <2>3, SameRow DEF Quiet, TypeOK, IInv
<1>6. QED
  BY <1>4, <1>5

(* A right code uses its challenge, or changes nothing. *)
LEMMA RightStep ==
  ASSUME TypeOK, IInv, NEW q \in Requests, VerifyRight(q)
  PROVE  UNCHANGED <<row, applied>> \/ \E u \in Challenges : Uses(u)
<1>1. PICK v \in Challenges : v = request[q].target
  BY RequestType DEF VerifyRight, Consumed, Is, IInv, RequestsKnow
<1>2. CASE Open(v)
  <2> DEFINE won == [row[v] EXCEPT !.status = "VERIFIED", !.attempts = @ + 1]
  <2>1. row[v] \in Row /\ row[v].attempts < MaxAttempts
    BY <1>1, <1>2, RowType DEF VerifyRight, Consumed, Open, Pending
  <2>2. row[v].attempts + 1 \in 0..MaxAttempts
    BY <2>1, LimitAssumption DEF Row
  <2>3. /\ won \in Row /\ won.status = "VERIFIED" /\ won.resends = row[v].resends
        /\ won.age = row[v].age
    BY <2>1, <2>2 DEF Row
  <2>4. /\ row' = [row EXCEPT ![v] = Destroyed(won)]
        /\ applied' = [applied EXCEPT ![v] = @ + 1]
    BY <1>1, <1>2 DEF VerifyRight, Consumed
  <2> HIDE DEF won
  <2>5. Uses(v)
    BY <1>2, <2>3, <2>4, DestroyedFacts DEF Uses, TypeOK
  <2>6. QED
    BY <2>5
<1>3. CASE ~Open(v)
  BY <1>1, <1>3 DEF VerifyRight, Consumed
<1>4. QED
  BY <1>2, <1>3

(* What a resend does to the older challenges takes them onward. *)
LEMMA ClearedRow ==
  ASSUME TypeOK, IInv, NEW q \in Requests, request[q] # Null, NEW v \in Challenges,
         row'[v] = Cleared(request[q])[v]
  PROVE  Onward(v)
<1>1. CASE v \in request[q].found
  <2>1. Old(v) /\ row'[v] = LapseBoth(row[v])
    BY <1>1 DEF Cleared, IInv, RequestsKnow
  <2>2. QED
    BY <2>1, LapsedRow DEF IInv
<1>2. CASE v \notin request[q].found /\ v = request[q].target
  <2>1. Exists(v) /\ row'[v] = Revoked(row[v])
    BY <1>2, NullAssumption DEF Cleared, IInv, RequestsKnow
  <2>2. QED
    BY <2>1, RevokedRow DEF IInv
<1>3. CASE v \notin request[q].found /\ v # request[q].target
  BY <1>3, SameRow DEF Cleared, IInv
<1>4. QED
  BY <1>1, <1>2, <1>3

(* A resend issues one challenge. *)
LEMMA ResendStep ==
  ASSUME TypeOK, IInv, NEW q \in Requests, NEW n \in Challenges, ResendWrite(q, n)
  PROVE  Creates(n)
<1> DEFINE k == IF request[q].target = Null THEN 0 ELSE row[request[q].target].resends + 1
           cleared == Cleared(request[q])
<1>1. request[q] # Null /\ request[q].kind = "resend" /\ row[n] = Null
  BY DEF ResendWrite, Is, Exists
<1>2. k \in 0..MaxResends
  <2>1. CASE request[q].target = Null
    BY <2>1, LimitAssumption
  <2>2. CASE request[q].target # Null
    <3>1. /\ row[request[q].target] \in Row
          /\ row[request[q].target].resends < MaxResends
      BY <1>1, <2>2, RequestType, RowType DEF IInv, RequestsKnow
    <3>2. QED
      BY <2>2, <3>1, LimitAssumption DEF Row
  <2>3. QED
    BY <2>1, <2>2
<1>3. /\ row' = [cleared EXCEPT ![n] = New(k)]
      /\ Indexed => \A v \in Challenges : cleared[v] # Null => cleared[v].status # "PENDING"
      /\ applied' = applied
  BY DEF ResendWrite
<1>4. row'[n] = New(k) /\ \A v \in Challenges : v # n => row'[v] = cleared[v]
  BY <1>3 DEF Cleared
<1> HIDE DEF k, cleared
<1>5. \A v \in Challenges : v # n => Onward(v)
  BY <1>1, <1>4, ClearedRow DEF cleared
<1>6. QED
  BY <1>1, <1>2, <1>3, <1>4, <1>5 DEF Creates

(* Every step is quiet, issues one challenge, or uses one. *)
LEMMA Steps ==
  ASSUME TypeOK, IInv, [Next]_vars
  PROVE  TableStep
<1> USE DEF IInv
<1>1. ASSUME NEW n \in Challenges, Create(n) PROVE Creates(n)
  <2>1. /\ row[n] = Null /\ row'[n] = New(0) /\ 0 \in 0..MaxResends /\ applied' = applied
        /\ \A v \in Challenges : row[v] = Null /\ (v # n => row'[v] = Null)
    BY <1>1, LimitAssumption DEF Create, AllRows, Exists, TypeOK
  <2>2. QED
    BY <2>1 DEF Creates, Onward
<1>2. ASSUME NEW q \in Requests, VerifyLate(q) PROVE Quiet
  <2>1. Exists(request[q].target) /\ applied' = applied
    BY <1>2 DEF VerifyLate, Is, RequestsKnow
  <2>2. \A v \in Challenges :
          row'[v] = IF v = request[q].target THEN Destroyed(Lapse(v)) ELSE Lapse(v)
    BY <1>2 DEF VerifyLate
  <2>3. QED
    BY <2>1, <2>2, LapseRow DEF Quiet
<1>3. ASSUME NEW q \in Requests, ExpireWrite(q) PROVE Quiet
  <2>1. (\A v \in request[q].found : Exists(v)) /\ applied' = applied
    BY <1>3 DEF ExpireWrite, Is, RequestsKnow, Old
  <2>2. \A v \in Challenges :
          row'[v] = IF v \in request[q].found THEN Destroyed(Lapse(v)) ELSE Lapse(v)
    BY <1>3 DEF ExpireWrite
  <2>3. QED
    BY <2>1, <2>2, LapseRow DEF Quiet
<1>4. ASSUME ResendRefused PROVE Quiet
  BY <1>4, SameRow, LapsedRow DEF ResendRefused, Quiet
<1>5. ASSUME NEW v \in Challenges, Revoke(v) PROVE Quiet
  BY <1>5, SameRow, RevokedRow DEF Revoke, Quiet, TypeOK
<1>6. ASSUME Cleanup PROVE Quiet
  <2>1. ASSUME NEW v \in Challenges, Old(v), row'[v] = [row[v] EXCEPT !.envelope = "EXPIRED"]
        PROVE  Onward(v)
    BY <2>1, RowType DEF Onward, OpenHasAttempts, Row, Old, Pending, Exists, Final
  <2>2. QED
    BY <1>6, <2>1, SameRow DEF Cleanup, Quiet
<1>7. ASSUME NEW v \in Challenges, GrowOlder(v) PROVE Quiet
  <2>1. row[v] \in Row /\ Exists(v)
    BY <1>7, RowType DEF GrowOlder
  <2>2. \/ row'[v] = [row[v] EXCEPT !.age = "ready"] /\ row[v].age = "new"
        \/ row'[v] = [row[v] EXCEPT !.age = "expired"]
    BY <1>7 DEF GrowOlder, TypeOK
  <2>3. Onward(v)
    BY <2>1, <2>2 DEF Onward, OpenHasAttempts, Row, Pending, Exists, Final
  <2>4. QED
    BY <1>7, <2>3, SameRow DEF GrowOlder, Quiet, TypeOK
<1>8. CASE UNCHANGED <<row, applied>>
  <2>1. applied' = applied /\ \A v \in Challenges : row'[v] = row[v]
    BY <1>8
  <2>2. \A v \in Challenges : Onward(v)
    BY <2>1, SameRow
  <2>3. QED
    BY <2>1, <2>2 DEF Quiet, TableStep
<1>9. ASSUME NEW q \in Requests, Verify(q) \/ Resend(q) \/ Expire(q) \/ Abort(q) PROVE TableStep
  <2>1. \/ VerifyLate(q) \/ VerifyWrong(q) \/ VerifyRight(q) \/ ExpireWrite(q)
        \/ \E n \in Challenges : ResendWrite(q, n)
        \/ UNCHANGED <<row, applied>>
    BY <1>9 DEF Verify, Resend, Expire, Abort, VerifyRead, ResendRead, ExpireRead
  <2>2. QED
    BY <1>2, <1>3, <1>8, <2>1, WrongStep, RightStep, ResendStep DEF TableStep
<1>10. QED
  BY <1>1, <1>4, <1>5, <1>6, <1>7, <1>8, <1>9 DEF Next, TableStep, vars

-----------------------------------------------------------------------------
(* What a step does to a transaction. *)

(* It reads, and the table stays as it is. *)
Reads(q) ==
  /\ request[q] = Null /\ row' = row
  /\ \E r \in Request :
       /\ request' = [request EXCEPT ![q] = r]
       /\ r.seen = AllRows
       /\ r.target # Null => Exists(r.target)
       /\ \A v \in r.found : Old(v)
       /\ r.kind \in {"right", "wrong", "late"} => r.target # Null
       /\ r.kind = "resend" /\ r.target # Null =>
            row[r.target].resends < MaxResends /\ row[r.target].age # "new"
       /\ r.kind = "late" => Pending(r.target)
       /\ r.kind = "expire" => r.found = {v \in Challenges : Lapsed(v)} /\ r.found # {}

(* Rows grow old only while every transaction in flight knows them. *)
AgesKnown ==
  \A v \in Challenges :
    row[v] # Null /\ row'[v] # Null /\ row'[v].age = "expired" =>
      row[v].age = "expired" \/ \A q \in Requests : request[q] # Null => v \in request[q].seen

(* Every step begins a transaction, ends one, or neither. *)
LEMMA RequestSteps ==
  ASSUME TypeOK, IInv, [Next]_vars
  PROVE  \/ \E q \in Requests : Reads(q)
         \/ \E q \in Requests : request' = [request EXCEPT ![q] = Null]
         \/ request' = request
<1>1. ASSUME NEW q \in Requests, NEW v \in Challenges, NEW right \in BOOLEAN, VerifyRead(q, v, right)
      PROVE  Reads(q)
  <2> DEFINE r == [kind |-> IF Old(v) THEN "late" ELSE IF right THEN "right" ELSE "wrong",
                   target |-> v, found |-> {}, seen |-> AllRows]
  <2>1. /\ r \in Request /\ r.seen = AllRows /\ r.target = v /\ r.found = {}
        /\ r.kind \in {"right", "wrong", "late"}
    BY DEF Request, AllRows
  <2>2. /\ request[q] = Null /\ row' = row /\ request' = [request EXCEPT ![q] = r]
        /\ Pending(v) /\ Exists(v) /\ v # Null
    BY <1>1, NullAssumption DEF VerifyRead, Pending
  <2> HIDE DEF r
  <2>3. QED
    BY <2>1, <2>2 DEF Reads
<1>2. ASSUME NEW q \in Requests, ResendRead(q) PROVE Reads(q)
  <2>1. PICK a \in Challenges \cup {Null} :
          /\ a # Null => Open(a) /\ row[a].age # "new" /\ row[a].resends < MaxResends
          /\ request' = [request EXCEPT ![q] =
               [kind |-> "resend", target |-> a, found |-> {v \in Challenges : Old(v)}, seen |-> AllRows]]
    BY <1>2 DEF ResendRead
  <2> DEFINE r == [kind |-> "resend", target |-> a, found |-> {v \in Challenges : Old(v)}, seen |-> AllRows]
  <2>2. /\ r \in Request /\ r.seen = AllRows /\ r.target = a /\ r.kind = "resend"
        /\ r.found = {v \in Challenges : Old(v)}
    BY DEF Request, AllRows
  <2>3. request[q] = Null /\ row' = row /\ request' = [request EXCEPT ![q] = r]
    BY <1>2, <2>1 DEF ResendRead
  <2> HIDE DEF r
  <2>4. QED
    BY <2>1, <2>2, <2>3 DEF Reads, Open, Pending
<1>3. ASSUME NEW q \in Requests, ExpireRead(q) PROVE Reads(q)
  <2> DEFINE r == [kind |-> "expire", target |-> Null, found |-> {v \in Challenges : Lapsed(v)}, seen |-> AllRows]
  <2>1. /\ r \in Request /\ r.seen = AllRows /\ r.target = Null /\ r.kind = "expire"
        /\ r.found = {v \in Challenges : Lapsed(v)}
    BY DEF Request, AllRows
  <2>2. /\ request[q] = Null /\ row' = row /\ request' = [request EXCEPT ![q] = r]
        /\ \E v \in Challenges : Lapsed(v)
    BY <1>3 DEF ExpireRead
  <2> HIDE DEF r
  <2>3. QED
    BY <2>1, <2>2 DEF Reads, Lapsed
<1>4. ASSUME NEW q \in Requests, Verify(q) \/ Resend(q) \/ Expire(q) \/ Abort(q)
      PROVE  Reads(q) \/ request' = [request EXCEPT ![q] = Null]
  BY <1>1, <1>2, <1>3, <1>4
  DEF Verify, Resend, Expire, Abort, VerifyLate, VerifyWrong, Counted, VerifyRight,
      Consumed, ResendWrite, ExpireWrite, Done
<1>5. QED
  BY <1>4 DEF Next, Create, Revoke, GrowOlder, ResendRefused, Cleanup, vars

(* A row's age changes in GrowOlder alone. *)
LEMMA Ages == TypeOK /\ IInv /\ [Next]_vars => AgesKnown
<1> SUFFICES ASSUME TypeOK, IInv, [Next]_vars,
                    NEW v \in Challenges, row[v] # Null, row'[v] # Null
             PROVE  \/ row'[v].age = row[v].age
                    \/ \A q \in Requests : request[q] # Null => v \in request[q].seen
  BY DEF AgesKnown
<1>1. row[v] \in Row
  BY RowType DEF Exists
<1>2. Lapse(v).age = row[v].age /\ Destroyed(Lapse(v)).age = row[v].age
      /\ LapseBoth(row[v]).age = row[v].age /\ Revoked(row[v]).age = row[v].age
  BY <1>1, LapseFacts, DestroyedFacts, LapseBothFacts, RevokedFacts
<1>3. ASSUME NEW q \in Requests, VerifyWrong(q) PROVE row'[v].age = row[v].age
  <2> DEFINE counts == Open(v) /\ row[v].attempts < MaxAttempts
             counted == IF counts THEN [row[v] EXCEPT !.attempts = @ + 1] ELSE row[v]
             over == [counted EXCEPT !.status = "ATTEMPTS_EXCEEDED"]
  <2>1. counted \in Row /\ over \in Row /\ counted.age = row[v].age /\ over.age = row[v].age
    BY <1>1, LimitAssumption DEF Row
  <2>2. row'[v] = row[v] \/ row'[v] = counted \/ row'[v] = Destroyed(over)
    BY <1>3 DEF VerifyWrong, Counted, TypeOK
  <2> HIDE DEF counted, over
  <2>3. QED
    BY <2>1, <2>2, DestroyedFacts
<1>4. ASSUME NEW q \in Requests, VerifyRight(q) PROVE row'[v].age = row[v].age
  <2> DEFINE won == [row[v] EXCEPT !.status = "VERIFIED", !.attempts = @ + 1]
  <2>1. CASE row'[v] = row[v]
    BY <2>1
  <2>2. CASE row'[v] # row[v]
    <3>1. row'[v] = Destroyed(won) /\ row[v].attempts < MaxAttempts
      BY <1>4, <2>2 DEF VerifyRight, Consumed, TypeOK
    <3>2. row[v].attempts + 1 \in 0..MaxAttempts
      BY <1>1, <3>1, LimitAssumption DEF Row
    <3>3. won \in Row /\ won.age = row[v].age
      BY <1>1, <3>2 DEF Row
    <3> HIDE DEF won
    <3>4. QED
      BY <3>1, <3>3, DestroyedFacts
  <2>3. QED
    BY <2>1, <2>2
<1>5. ASSUME NEW q \in Requests, NEW n \in Challenges, ResendWrite(q, n)
      PROVE  row'[v].age = row[v].age
  <2>1. row'[v] = Cleared(request[q])[v]
    BY <1>5 DEF ResendWrite, Exists, Cleared
  <2>2. QED
    BY <1>2, <2>1 DEF Cleared
<1>6. ASSUME NEW n \in Challenges, Create(n) PROVE row'[v].age = row[v].age
  BY <1>6 DEF Create, AllRows, Exists
<1>7. ASSUME NEW w \in Challenges, Revoke(w) PROVE row'[v].age = row[v].age
  BY <1>2, <1>7 DEF Revoke, TypeOK
<1>8. ASSUME NEW w \in Challenges, GrowOlder(w), w # v PROVE row'[v].age = row[v].age
  BY <1>8 DEF GrowOlder, TypeOK
<1>9. ASSUME Cleanup PROVE row'[v].age = row[v].age
  BY <1>1, <1>9 DEF Cleanup, Row
<1>10. ASSUME NEW q \in Requests, VerifyLate(q) \/ ExpireWrite(q) PROVE row'[v].age = row[v].age
  BY <1>2, <1>10 DEF VerifyLate, ExpireWrite
<1>11. ASSUME ResendRefused PROVE row'[v].age = row[v].age
  BY <1>2, <1>11 DEF ResendRefused
<1>12. CASE row' = row
  BY <1>12
<1>13. ASSUME NEW q \in Requests, Verify(q) \/ Resend(q) \/ Expire(q) \/ Abort(q)
       PROVE  row'[v].age = row[v].age
  BY <1>3, <1>4, <1>5, <1>10, <1>12, <1>13
  DEF Verify, Resend, Expire, Abort, VerifyRead, ResendRead, ExpireRead
<1>14. ASSUME NEW w \in Challenges, GrowOlder(w)
       PROVE  row'[v].age = row[v].age \/ \A q \in Requests : request[q] # Null => v \in request[q].seen
  BY <1>8, <1>14 DEF GrowOlder
<1>15. QED
  BY <1>6, <1>7, <1>9, <1>11, <1>12, <1>13, <1>14 DEF Next, vars

-----------------------------------------------------------------------------
(* Type correctness and the invariant. *)

(* What no step takes from a challenge. *)
LEMMA RowStays ==
  ASSUME TypeOK, TableStep, NEW v \in Challenges, row[v] # Null
  PROVE  /\ row'[v] \in Row /\ row'[v] # Null /\ row'[v].resends = row[v].resends
         /\ row[v].age = "expired" => row'[v].age = "expired"
         /\ row'[v].age = "new" => row[v].age = "new"
         /\ row'[v].status = "PENDING" => row[v].status = "PENDING"
         /\ row[v].status \in Final => row'[v].status \in Final
<1>1. row[v] \in Row
  BY RowType DEF Exists
<1>2. ASSUME NEW n \in Challenges, Creates(n) PROVE v # n /\ Onward(v)
  BY <1>2 DEF Creates
<1>3. ASSUME NEW u \in Challenges, Uses(u), v # u PROVE row'[v] = row[v]
  BY <1>3 DEF Uses
<1>4. CASE Onward(v)
  BY <1>4, NullAssumption DEF Onward
<1>5. CASE Uses(v)
  BY <1>5, NullAssumption DEF Uses, Open, Pending, Final
<1>6. QED
  BY <1>1, <1>2, <1>3, <1>4, <1>5, NullAssumption DEF TableStep, Quiet

(* No step leaves the types. *)
LEMMA TypeStep == TypeOK /\ IInv /\ [Next]_vars => TypeOK'
<1> SUFFICES ASSUME TypeOK, IInv, [Next]_vars PROVE TypeOK'
  OBVIOUS
<1>1. DOMAIN row' = Challenges /\ row' = [v \in Challenges |-> row'[v]]
  BY DEF Next, Verify, Resend, Expire, Abort, VerifyRead, VerifyLate, VerifyWrong, Counted,
         VerifyRight, Consumed,
         ResendRead, ResendWrite, ExpireRead, ExpireWrite, Create, Revoke, GrowOlder,
         ResendRefused, Cleanup, Cleared, vars, TypeOK
<1>2. \A v \in Challenges : row[v] = Null => row'[v] \in Row \cup {Null}
  BY Steps, NewFacts DEF TableStep, Quiet, Creates, Uses, Open, Pending, Exists, Onward
<1>3. \A v \in Challenges : row[v] # Null => row'[v] \in Row
  BY Steps, RowStays
<1>4. row' \in [Challenges -> Row \cup {Null}]
  BY <1>1, <1>2, <1>3
<1>5. request' \in [Requests -> Request \cup {Null}]
  BY RequestSteps DEF Reads, TypeOK
<1>6. applied' \in [Challenges -> Nat]
  BY Steps DEF TableStep, Quiet, Creates, Uses, TypeOK
<1>7. QED
  BY <1>4, <1>5, <1>6 DEF TypeOK

(* Every step leaves open challenges an attempt. *)
LEMMA AttemptsStep ==
  ASSUME TypeOK, IInv, TableStep
  PROVE  OpenHasAttempts'
<1> SUFFICES ASSUME NEW v \in Challenges, row'[v] # Null, row'[v].status = "PENDING"
             PROVE  row'[v].attempts < MaxAttempts
  BY DEF OpenHasAttempts, Pending, Exists
<1>1. CASE Onward(v)
  BY <1>1 DEF Onward
<1>2. CASE Creates(v)
  BY <1>2, NewFacts DEF Creates
<1>3. ASSUME NEW u \in Challenges, Uses(u) PROVE row'[v].attempts < MaxAttempts
  BY <1>3 DEF Uses, IInv, OpenHasAttempts, Pending, Exists
<1>4. QED
  BY <1>1, <1>2, <1>3 DEF TableStep, Quiet, Creates

(* Every step keeps effects single. *)
LEMMA AppliedStep ==
  ASSUME TypeOK, IInv, TableStep
  PROVE  AppliedOnce'
<1> SUFFICES ASSUME NEW v \in Challenges
             PROVE  /\ applied'[v] \in {0, 1}
                    /\ applied'[v] = 1 => row'[v] # Null /\ row'[v].status \in Final
  BY DEF AppliedOnce, Exists, Final
<1>1. applied[v] \in {0, 1} /\ (applied[v] = 1 => row[v] # Null /\ row[v].status \in Final)
  BY DEF IInv, AppliedOnce, Exists, Final
<1>2. row[v] # Null /\ row[v].status \in Final => row'[v] # Null /\ row'[v].status \in Final
  BY RowStays
<1>3. CASE applied'[v] = applied[v]
  BY <1>1, <1>2, <1>3
<1>4. CASE Uses(v)
  <2>1. applied[v] = 0
    BY <1>1, <1>4 DEF Uses, Open, Pending, Final
  <2>2. applied'[v] = 1
    BY <1>4, <2>1 DEF Uses, TypeOK
  <2>3. QED
    BY <1>4, <2>2, NullAssumption DEF Uses, Final
<1>5. QED
  BY <1>3, <1>4 DEF TableStep, Quiet, Creates, Uses, TypeOK

(* A row that has just been created is not old. *)
LEMMA NewIsYoung ==
  ASSUME TypeOK, IInv, TableStep, NEW v \in Challenges, row[v] = Null, row'[v] # Null
  PROVE  row'[v].age = "new" /\ Creates(v)
<1>1. ~Onward(v) /\ ~Open(v)
  BY DEF Onward, Open, Pending, Exists
<1>2. Creates(v)
  BY <1>1 DEF TableStep, Quiet, Creates, Uses
<1>3. QED
  BY <1>2, NewFacts DEF Creates

(* What transactions in flight have read stays true. *)
LEMMA KnowStep ==
  ASSUME TypeOK, IInv, [Next]_vars, TableStep
  PROVE  RequestsKnow'
<1> SUFFICES ASSUME NEW q \in Requests, request'[q] # Null
             PROVE  /\ request'[q].target # Null => row'[request'[q].target] # Null
                    /\ \A v \in request'[q].seen : row'[v] # Null
                    /\ \A v \in request'[q].found : row'[v] # Null /\ row'[v].age = "expired"
                    /\ \A v \in Challenges :
                         row'[v] # Null /\ row'[v].age = "expired" => v \in request'[q].seen
                    /\ request'[q].kind \in {"right", "wrong", "late"} => request'[q].target # Null
                    /\ request'[q].kind = "resend" /\ request'[q].target # Null =>
                         /\ row'[request'[q].target].resends < MaxResends
                         /\ row'[request'[q].target].age # "new"
  BY DEF RequestsKnow, Exists, Old
<1>1. CASE request'[q] = request[q]
  <2>1. /\ request[q].target \in Challenges \cup {Null} /\ request[q].found \subseteq Challenges
        /\ request[q].seen \subseteq Challenges
    BY <1>1, RequestType
  <2>2. /\ request[q].target # Null => row[request[q].target] # Null
        /\ \A v \in request[q].seen : row[v] # Null
        /\ \A v \in request[q].found : row[v] # Null /\ row[v].age = "expired"
        /\ \A v \in Challenges : row[v] # Null /\ row[v].age = "expired" => v \in request[q].seen
        /\ request[q].kind \in {"right", "wrong", "late"} => request[q].target # Null
        /\ request[q].kind = "resend" /\ request[q].target # Null =>
             row[request[q].target].resends < MaxResends /\ row[request[q].target].age # "new"
    BY <1>1 DEF IInv, RequestsKnow, Exists, Old
  <2>3. \A v \in Challenges : row'[v] # Null /\ row'[v].age = "expired" => v \in request[q].seen
    BY <1>1, <2>2, Ages, NewIsYoung DEF AgesKnown
  <2>4. \A v \in request[q].found : row'[v] # Null /\ row'[v].age = "expired"
    BY <2>1, <2>2, RowStays
  <2>5. \A v \in request[q].seen : row'[v] # Null
    BY <2>1, <2>2, RowStays
  <2>6. request[q].target # Null =>
          /\ row'[request[q].target] # Null
          /\ row'[request[q].target].resends = row[request[q].target].resends
          /\ row'[request[q].target].age = "new" => row[request[q].target].age = "new"
    BY <2>1, <2>2, RowStays
  <2>7. QED
    BY <1>1, <2>2, <2>3, <2>4, <2>5, <2>6
<1>2. CASE request'[q] # request[q]
  <2>1. Reads(q)
    BY <1>2, RequestSteps DEF TypeOK, Reads
  <2>2. PICK r \in Request :
          /\ request'[q] = r /\ r.seen = AllRows /\ row' = row
          /\ r.target # Null => Exists(r.target)
          /\ \A v \in r.found : Old(v)
          /\ r.kind \in {"right", "wrong", "late"} => r.target # Null
          /\ r.kind = "resend" /\ r.target # Null =>
               row[r.target].resends < MaxResends /\ row[r.target].age # "new"
    BY <2>1 DEF Reads, TypeOK
  <2>3. QED
    BY <2>2 DEF AllRows, Exists, Old
<1>3. QED
  BY <1>1, <1>2

(* Under the index every step keeps one pending challenge at most. *)
LEMMA OnePendingStep ==
  ASSUME TypeOK, IInv, [Next]_vars, TableStep, Indexed
  PROVE  OnePending'
<1>1. ASSUME NEW v \in Challenges, row'[v] # Null, row'[v].status = "PENDING"
      PROVE  \/ Pending(v)
             \/ row[v] = Null /\ \A w \in Challenges : w # v /\ row'[w] # Null => row'[w].status # "PENDING"
  <2>1. CASE row[v] # Null
    BY <1>1, <2>1, RowStays DEF Pending, Exists
  <2>2. CASE row[v] = Null
    BY <1>1, <2>2, NewIsYoung DEF Creates
  <2>3. QED
    BY <2>1, <2>2
<1>2. \A v, w \in Challenges : Pending(v) /\ Pending(w) => v = w
  BY DEF IInv, OnePending
<1>3. ASSUME NEW v \in Challenges, NEW w \in Challenges,
             row'[v] # Null, row'[v].status = "PENDING", row'[w] # Null, row'[w].status = "PENDING"
      PROVE  v = w
  BY <1>1, <1>2, <1>3
<1>4. ASSUME NEW q \in Requests, NEW v \in Challenges, request'[q] # Null, v \in request'[q].seen,
             row'[v] # Null, row'[v].status = "PENDING"
      PROVE  /\ request'[q].kind = "late" => v = request'[q].target
             /\ request'[q].kind = "expire" => v \in request'[q].found
  <2>1. CASE request'[q] = request[q]
    <3>1. row[v] # Null
      BY <1>4, <2>1 DEF IInv, RequestsKnow, Exists
    <3>2. Pending(v)
      BY <1>1, <1>4, <3>1
    <3>3. QED
      BY <1>4, <2>1, <3>2 DEF IInv, OnePending, Is
  <2>2. CASE request'[q] # request[q]
    <3>1. Reads(q)
      BY <1>4, <2>2, RequestSteps DEF TypeOK, Reads
    <3>2. PICK r \in Request :
            /\ request'[q] = r /\ row' = row
            /\ r.kind = "late" => r.target # Null /\ Pending(r.target)
            /\ r.kind = "expire" => r.found = {w \in Challenges : Lapsed(w)} /\ r.found # {}
            /\ r.target \in Challenges \cup {Null}
      BY <3>1 DEF Reads, TypeOK, Request
    <3>3. Pending(v)
      BY <1>4, <3>2 DEF Pending, Exists
    <3>4. r.kind = "late" => v = r.target
      BY <1>2, <3>2, <3>3
    <3>5. r.kind = "expire" => v \in r.found
      BY <1>2, <3>2, <3>3 DEF Lapsed
    <3>6. QED
      BY <3>2, <3>4, <3>5
  <2>3. QED
    BY <2>1, <2>2
<1>5. QED
  BY <1>3, <1>4 DEF OnePending, Is, Pending, Exists

(* Under the index every step keeps closed challenges without envelopes. *)
LEMMA EnvelopesStep ==
  ASSUME TypeOK, IInv, [Next]_vars, TableStep, Indexed
  PROVE  EnvelopesFollow'
<1> SUFFICES ASSUME NEW v \in Challenges, row'[v] # Null, row'[v].status # "PENDING"
             PROVE  row'[v].envelope # "PENDING"
  BY DEF EnvelopesFollow, Pending, Exists
<1>1. row[v] # Null /\ row[v] \in Row
  <2>1. row[v] = Null => Creates(v)
    BY NewIsYoung
  <2>2. ~Creates(v)
    BY NewFacts DEF Creates
  <2>3. QED
    BY <2>1, <2>2, RowType DEF Exists
<1>2. CASE row[v].status # "PENDING"
  <2>1. row[v].envelope # "PENDING"
    BY <1>1, <1>2 DEF IInv, EnvelopesFollow, Pending, Exists
  <2>2. CASE Onward(v)
    BY <1>1, <2>1, <2>2 DEF Onward
  <2>3. ASSUME NEW u \in Challenges, Uses(u) PROVE row'[v].envelope # "PENDING"
    BY <1>1, <2>1, <2>3 DEF Uses
  <2>4. QED
    BY <1>1, <2>2, <2>3 DEF TableStep, Quiet, Creates
<1>3. CASE row[v].status = "PENDING"
  <2>1. Pending(v) /\ row'[v] # row[v]
    BY <1>1, <1>3 DEF Pending, Exists
  <2>2. ASSUME NEW q \in Requests, VerifyWrong(q) PROVE row'[v].envelope # "PENDING"
    <3> DEFINE counts == Open(v) /\ row[v].attempts < MaxAttempts
               counted == IF counts THEN [row[v] EXCEPT !.attempts = @ + 1] ELSE row[v]
               over == [counted EXCEPT !.status = "ATTEMPTS_EXCEEDED"]
    <3>1. counted \in Row /\ over \in Row /\ counted.status = "PENDING"
      BY <1>1, <1>3, LimitAssumption DEF Row
    <3>2. row'[v] = counted \/ row'[v] = Destroyed(over)
      BY <2>1, <2>2 DEF VerifyWrong, Counted, TypeOK
    <3> HIDE DEF counted, over
    <3>3. QED
      BY <3>1, <3>2, DestroyedFacts
  <2>3. ASSUME NEW q \in Requests, VerifyRight(q) PROVE row'[v].envelope # "PENDING"
    <3>1. PICK u \in Challenges : Uses(u)
      BY <2>1, <2>3, RightStep
    <3>2. QED
      BY <2>1, <3>1 DEF Uses
  <2>4. ASSUME NEW q \in Requests, VerifyLate(q) PROVE row'[v].envelope # "PENDING"
    <3>1. Old(v) => v = request[q].target
      BY <2>1, <2>4 DEF VerifyLate, Is, IInv, RequestsKnow, OnePending
    <3>2. row'[v] = IF v = request[q].target THEN Destroyed(Lapse(v)) ELSE Lapse(v)
      BY <2>4 DEF VerifyLate
    <3>3. v # request[q].target => row'[v] = row[v]
      BY <3>1, <3>2 DEF Lapse, Lapsed
    <3>4. QED
      BY <1>1, <2>1, <3>2, <3>3, LapseFacts, DestroyedFacts
  <2>5. ASSUME NEW q \in Requests, ExpireWrite(q) PROVE row'[v].envelope # "PENDING"
    <3>1. Old(v) => v \in request[q].found
      BY <2>1, <2>5 DEF ExpireWrite, Is, IInv, RequestsKnow, OnePending
    <3>2. row'[v] = IF v \in request[q].found THEN Destroyed(Lapse(v)) ELSE Lapse(v)
      BY <2>5 DEF ExpireWrite
    <3>3. v \notin request[q].found => row'[v] = row[v]
      BY <3>1, <3>2 DEF Lapse, Lapsed
    <3>4. QED
      BY <1>1, <2>1, <3>2, <3>3, LapseFacts, DestroyedFacts
  <2>6. ASSUME NEW q \in Requests, NEW n \in Challenges, ResendWrite(q, n)
        PROVE  row'[v].envelope # "PENDING"
    <3>1. row'[v] = Cleared(request[q])[v]
      BY <1>1, <2>6 DEF ResendWrite, Exists, Cleared
    <3>2. row'[v] = LapseBoth(row[v]) \/ row'[v] = Revoked(row[v])
      BY <2>1, <3>1 DEF Cleared
    <3>3. QED
      BY <1>1, <3>2, LapseBothFacts, RevokedFacts
  <2>7. ASSUME NEW w \in Challenges, Create(w) \/ GrowOlder(w) PROVE row'[v].status = "PENDING"
    BY <1>1, <1>3, <2>7 DEF Create, GrowOlder, AllRows, Exists, TypeOK, Row
  <2>8. ASSUME NEW w \in Challenges, Revoke(w) PROVE row'[v].envelope # "PENDING"
    BY <1>1, <2>1, <2>8, RevokedFacts DEF Revoke, TypeOK
  <2>9. ASSUME ResendRefused PROVE row'[v].envelope # "PENDING"
    BY <1>1, <2>1, <2>9, LapseBothFacts DEF ResendRefused
  <2>10. ASSUME Cleanup PROVE row'[v].status = "PENDING"
    BY <1>1, <1>3, <2>10 DEF Cleanup, Row
  <2>11. ASSUME NEW q \in Requests, Verify(q) \/ Resend(q) \/ Expire(q) \/ Abort(q)
         PROVE  row'[v].envelope # "PENDING"
    BY <2>1, <2>2, <2>3, <2>4, <2>5, <2>6, <2>11
    DEF Verify, Resend, Expire, Abort, VerifyRead, ResendRead, ExpireRead
  <2>12. QED
    BY <2>1, <2>7, <2>8, <2>9, <2>10, <2>11 DEF Next, vars
<1>4. QED
  BY <1>2, <1>3

(* The invariant holds at first. *)
LEMMA InitHolds == Init => TypeOK /\ IInv
BY LimitAssumption
DEF Init, TypeOK, IInv, OpenHasAttempts, AppliedOnce, RequestsKnow, OnePending, EnvelopesFollow,
    Pending, Exists, Is

(* The invariant is inductive. *)
LEMMA StepHolds == TypeOK /\ IInv /\ [Next]_vars => IInv'
<1> SUFFICES ASSUME TypeOK, IInv, [Next]_vars PROVE IInv'
  OBVIOUS
<1>1. TableStep
  BY Steps
<1>2. OpenHasAttempts' /\ AppliedOnce' /\ RequestsKnow'
  BY <1>1, AttemptsStep, AppliedStep, KnowStep
<1>3. OnePending'
  BY <1>1, OnePendingStep DEF OnePending
<1>4. Indexed => EnvelopesFollow'
  BY <1>1, EnvelopesStep
<1>5. QED
  BY <1>2, <1>3, <1>4 DEF IInv

(* The tables keep their types and the inductive invariant holds at every moment. *)
THEOREM Invariance == Spec => [](TypeOK /\ IInv)
BY InitHolds, TypeStep, StepHolds, PTL DEF Spec

(* Every row, request and counter has its type at every moment. *)
THEOREM TypeCorrect == Spec => []TypeOK
BY Invariance, PTL

(* Every wrong code is counted: a challenge that is still pending has attempts left. *)
THEOREM AttemptsLeft == Spec => []OpenHasAttempts
BY Invariance, PTL DEF IInv

(* Where the unique index covers the purpose, no closed challenge can still be delivered. *)
THEOREM EnvelopesClosed == Indexed => (Spec => []EnvelopesFollow)
<1> SUFFICES ASSUME Indexed PROVE Spec => []EnvelopesFollow
  OBVIOUS
<1>1. TypeOK /\ IInv => EnvelopesFollow
  BY DEF IInv
<1>2. QED
  BY <1>1, Invariance, PTL

-----------------------------------------------------------------------------
(* The cooldown. *)

(* Under the index a challenge is issued only past the cooldown of the open one. *)
LEMMA CooldownStep ==
  ASSUME Indexed, TypeOK, IInv, [Next]_vars, NEW n \in Challenges, NEW v \in Challenges,
         row[n] = Null, row'[n] # Null, Open(v)
  PROVE  row[v].age # "new"
<1>1. Creates(n) /\ v # n /\ row[v] \in Row /\ row[v] # Null
  BY Steps, NewIsYoung, RowType DEF Open, Pending, Exists
<1>2. row'[v] # Null /\ row'[v] # row[v]
  BY <1>1, Steps, RowStays DEF Creates, Open, Pending
<1>3. ASSUME NEW m \in Challenges, Create(m) PROVE FALSE
  BY <1>1, <1>3 DEF Create, AllRows, Exists
<1>4. ASSUME NEW q \in Requests, NEW m \in Challenges, ResendWrite(q, m)
      PROVE  row[v].age # "new"
  <2>1. row'[v] = Cleared(request[q])[v]
    BY <1>1, <1>4 DEF ResendWrite, Exists, Cleared
  <2>2. v \in request[q].found \/ v = request[q].target
    BY <1>2, <2>1 DEF Cleared
  <2>3. QED
    BY <1>4, <2>2, NullAssumption DEF ResendWrite, Is, IInv, RequestsKnow, Old
<1>5. ASSUME NEW q \in Requests, Verify(q) \/ Expire(q) \/ Abort(q) \/ ResendRead(q)
      PROVE  row'[n] = Null
  <2>1. ~Exists(n) /\ Lapse(n) = Null
    BY DEF Exists, Lapse, Lapsed, Pending
  <2>2. ASSUME request[q] # Null /\ request[q].kind \in {"late", "wrong", "right"}
        PROVE  request[q].target \in Challenges /\ request[q].target # n
    BY <2>1, <2>2, RequestType DEF IInv, RequestsKnow
  <2>3. ASSUME request[q] # Null PROVE n \notin request[q].found
    BY <2>1, <2>3 DEF IInv, RequestsKnow, Old
  <2>4. VerifyLate(q) \/ ExpireWrite(q) => row'[n] = Null
    BY <2>1, <2>2, <2>3 DEF VerifyLate, ExpireWrite, Is
  <2>5. VerifyWrong(q) \/ VerifyRight(q) => row'[n] = Null
    BY <2>2 DEF VerifyWrong, Counted, VerifyRight, Consumed, Is, TypeOK
  <2>6. QED
    BY <1>5, <2>4, <2>5 DEF Verify, Expire, Abort, VerifyRead, ResendRead, ExpireRead
<1>6. ASSUME \/ ResendRefused \/ Cleanup \/ row' = row
             \/ \E w \in Challenges : Revoke(w) \/ GrowOlder(w)
      PROVE  row'[n] = Null
  BY <1>6 DEF ResendRefused, Cleanup, Revoke, GrowOlder, Old, Exists, TypeOK
<1>7. QED
  BY <1>3, <1>4, <1>5, <1>6 DEF Next, Resend, vars

(* Where the unique index covers the purpose, no challenge is issued beside an open one *)
(* that was issued within the cooldown.                                                 *)
THEOREM CooldownKept == Indexed => (Spec => CooldownHolds)
<1> SUFFICES ASSUME Indexed PROVE Spec => CooldownHolds
  OBVIOUS
<1>1. TypeOK /\ IInv /\ [Next]_vars =>
        [\A n, v \in Challenges :
           ~Exists(n) /\ row'[n] # Null => ~(Open(v) /\ row[v].age = "new")]_vars
  BY CooldownStep DEF Exists
<1>2. QED
  BY <1>1, Invariance, PTL DEF Spec, CooldownHolds

-----------------------------------------------------------------------------
(* The refinement. *)

open == {v \in Challenges : Open(v)}

(* Creating a challenge issues it. *)
LEMMA IssueStep ==
  ASSUME TypeOK, IInv, NEW n \in Challenges, Creates(n)
  PROVE  \E S \in SUBSET Challenges : Challenge!Issue(n, S)
<1> DEFINE S == {v \in Challenges : v # n /\ ~Open(v)'}
<1>1. row'[n] # Null /\ Open(n)' /\ applied' = applied /\ row[n] = Null
  BY NewFacts DEF Creates, Open, Pending, Old, Exists
<1>2. \A v \in Challenges : v # n => (row'[v] # Null <=> row[v] # Null) /\ (Open(v)' => Open(v))
  BY NullAssumption DEF Creates, Onward, Open, Pending, Old, Exists
<1>3. n \notin AllRows /\ AllRows' = AllRows \cup {n}
  BY <1>1, <1>2 DEF AllRows, Exists
<1>4. open' = (open \ S) \cup {n}
  BY <1>1, <1>2 DEF open
<1>5. S \in SUBSET Challenges
  OBVIOUS
<1> HIDE DEF S
<1>6. Challenge!Issue(n, S)
  BY <1>1, <1>3, <1>4 DEF Challenge!Issue, open
<1>7. QED
  BY <1>5, <1>6

(* A right code uses its challenge. *)
LEMMA UseStep ==
  ASSUME TypeOK, IInv, NEW u \in Challenges, Uses(u)
  PROVE  Challenge!Use(u)
<1>1. /\ Open(u) /\ row[u] # Null /\ row'[u] # Null /\ row'[u].status = "VERIFIED"
      /\ \A v \in Challenges : v # u => row'[v] = row[v]
  BY NullAssumption DEF Uses, Open, Pending, Exists
<1>2. AllRows' = AllRows
  BY <1>1 DEF AllRows, Exists
<1>3. open' = open \ {u}
  BY <1>1 DEF open, Open, Pending, Old, Exists
<1>4. QED
  BY <1>1, <1>2, <1>3 DEF Challenge!Use, Uses, open

(* A quiet step closes challenges, or none. *)
LEMMA CloseStep ==
  ASSUME TypeOK, IInv, Quiet
  PROVE  \E S \in SUBSET Challenges : Challenge!Close(S)
<1> DEFINE S == {v \in Challenges : ~Open(v)'}
<1>1. \A v \in Challenges : (row'[v] # Null <=> row[v] # Null) /\ (Open(v)' => Open(v))
  BY NullAssumption DEF Quiet, Onward, Open, Pending, Old, Exists
<1>2. AllRows' = AllRows
  BY <1>1 DEF AllRows, Exists
<1>3. open' = open \ S
  BY <1>1 DEF open
<1>4. S \in SUBSET Challenges
  OBVIOUS
<1> HIDE DEF S
<1>5. Challenge!Close(S)
  BY <1>2, <1>3 DEF Challenge!Close, Quiet, open
<1>6. QED
  BY <1>4, <1>5

(* The engine implements one-time challenges: used at most once, and only while open. *)
THEOREM Refinement == Spec => ImplementsChallenge
<1>1. Init => Challenge!Init
  BY DEF Init, Challenge!Init, AllRows, Open, Pending, Exists
<1>2. TypeOK /\ IInv /\ [Next]_vars => [Challenge!Next]_(Challenge!vars)
  <2> SUFFICES ASSUME TypeOK, IInv, [Next]_vars PROVE Challenge!Next
    OBVIOUS
  <2>1. QED
    BY Steps, IssueStep, UseStep, CloseStep DEF TableStep, Challenge!Next
<1>3. QED
  BY <1>1, <1>2, Invariance, PTL DEF Spec, ImplementsChallenge, Challenge!Spec

=============================================================================
