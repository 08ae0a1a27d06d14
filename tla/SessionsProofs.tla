--------------------------- MODULE SessionsProofs ---------------------------
(***************************************************************************)
(* Proofs about Sessions, for any number of sessions, users and requests.  *)
(***************************************************************************)
EXTENDS Sessions, TLAPS

(* A new session has the type of a row. *)
LEMMA FreshType ==
  ASSUME NEW u \in Users, NEW f \in Sessions, NEW p \in Sessions \cup {Null}
  PROVE  Fresh(u, f, p) \in Row
BY DEF Fresh, Row

(* An existing session is a row. *)
LEMMA SessionType ==
  ASSUME TypeOK, NEW s \in Sessions, Exists(s)
  PROVE  session[s] \in Row
BY DEF TypeOK, Exists

(* A refresh in flight names a session. *)
LEMMA RefreshType ==
  ASSUME TypeOK, NEW r \in Refreshes, refresh[r] # Null
  PROVE  refresh[r] \in Requests /\ refresh[r].session \in Sessions
BY DEF TypeOK, Requests

-----------------------------------------------------------------------------
(* The four things a step does to the table. *)

(* It inserts a first session. *)
LoggedIn(n) ==
  /\ n \in Sessions /\ ~Exists(n)
  /\ \E u \in Users : session' = [session EXCEPT ![n] = Fresh(u, n, Null)]
  /\ refresh' = refresh

(* It commits the rotation of a session. *)
Rotated(r, n) ==
  /\ r \in Refreshes /\ n \in Sessions /\ ~Exists(n) /\ At(r, "rotated")
  /\ LET s == refresh[r].session IN
       session' = [session EXCEPT ![s].revoked = "ROTATED",
                                  ![n] = Fresh(session[s].user, session[s].family, s)]
  /\ refresh' = [refresh EXCEPT ![r] = Null]

(* It ends or ages rows that no refresh holds. *)
Marked ==
  /\ session' \in [Sessions -> Row \cup {Null}]
  /\ \A s \in Sessions :
       /\ session'[s] = Null <=> session[s] = Null
       /\ Exists(s) =>
            /\ session'[s].family = session[s].family
            /\ session'[s].parent = session[s].parent
            /\ \/ session'[s].revoked = session[s].revoked
               \/ Active(s) /\ ~Locked(s) /\ session'[s].revoked = "ENDED"
  /\ refresh' = refresh

(* It moves one refresh request, which rotates only a session that no other holds. *)
Moved(r) ==
  /\ r \in Refreshes
  /\ session' = session
  /\ \E q \in Requests \cup {Null} :
       /\ refresh' = [refresh EXCEPT ![r] = q]
       /\ q # Null => /\ Exists(q.session)
                      /\ q.phase = "rotated" => Active(q.session) /\ ~Locked(q.session)

TableStep ==
  \/ \E n \in Sessions : LoggedIn(n)
  \/ \E r \in Refreshes, n \in Sessions : Rotated(r, n)
  \/ Marked
  \/ \E r \in Refreshes : Moved(r)

(* Writing one row as the updates of the code do only ends or keeps it. *)
LEMMA MarkedOne ==
  ASSUME TypeOK, NEW s \in Sessions, Exists(s), NEW row \in Row,
         session' = [session EXCEPT ![s] = row], refresh' = refresh,
         row.family = session[s].family, row.parent = session[s].parent,
         \/ row.revoked = session[s].revoked
         \/ Active(s) /\ ~Locked(s) /\ row.revoked = "ENDED"
  PROVE  Marked
BY NullAssumption DEF Marked, TypeOK, Exists

(* Every step logs in, rotates, marks rows, or moves a refresh. *)
LEMMA Steps ==
  ASSUME TypeOK, IInv, [Next]_vars
  PROVE  TableStep
<1>1. ASSUME NEW u \in Users, NEW n \in Sessions, Login(u, n) PROVE TableStep
  BY <1>1 DEF Login, TableStep, LoggedIn
<1>2. ASSUME NEW u \in Users, NEW s \in Sessions, Revoke(u, s) PROVE TableStep
  <2> DEFINE row == [session[s] EXCEPT !.revoked = "ENDED"]
  <2>1. /\ session' = [session EXCEPT ![s] = row] /\ refresh' = refresh
        /\ Active(s) /\ Exists(s) /\ ~Locked(s)
    BY <1>2 DEF Revoke, Active
  <2>2. /\ row \in Row /\ row.family = session[s].family
        /\ row.parent = session[s].parent /\ row.revoked = "ENDED"
    BY <2>1, SessionType DEF Row
  <2>3. Marked
    BY <2>1, <2>2, MarkedOne
  <2>4. QED
    BY <2>3 DEF TableStep
<1>3. ASSUME NEW k \in Sweeps, SweepFinish(k) PROVE TableStep
  <2>1. \A s \in Sessions :
          session'[s] = IF s \in sweep[k].targets /\ Active(s)
                          THEN [session[s] EXCEPT !.revoked = "ENDED"] ELSE session[s]
    BY <1>3 DEF SweepFinish
  <2>2. \A s \in Sessions : Active(s) => session[s] \in Row /\ session[s] # Null
    BY SessionType DEF Active, Exists
  <2>3. \A s \in sweep[k].targets : ~Locked(s)
    BY <1>3 DEF SweepFinish
  <2>4. ASSUME NEW s \in Sessions
        PROVE  /\ session'[s] \in Row \cup {Null}
               /\ session'[s] = Null <=> session[s] = Null
               /\ Exists(s) =>
                    /\ session'[s].family = session[s].family
                    /\ session'[s].parent = session[s].parent
                    /\ \/ session'[s].revoked = session[s].revoked
                       \/ Active(s) /\ ~Locked(s) /\ session'[s].revoked = "ENDED"
    <3>1. CASE s \in sweep[k].targets /\ Active(s)
      <4>1. session'[s] = [session[s] EXCEPT !.revoked = "ENDED"]
        BY <2>1, <3>1
      <4>2. session'[s] \in Row
        BY <2>2, <3>1, <4>1 DEF Row
      <4>3. /\ session'[s].family = session[s].family
            /\ session'[s].parent = session[s].parent
            /\ session'[s].revoked = "ENDED"
        BY <2>2, <3>1, <4>1 DEF Row
      <4>4. QED
        BY <2>2, <2>3, <3>1, <4>2, <4>3, NullAssumption
    <3>2. CASE ~(s \in sweep[k].targets /\ Active(s))
      BY <2>1, <3>2 DEF TypeOK
    <3>3. QED
      BY <3>1, <3>2
  <2>5. Marked
    <3>1. session' \in [Sessions -> Row \cup {Null}]
      BY <1>3, <2>4 DEF SweepFinish
    <3>2. refresh' = refresh
      BY <1>3 DEF SweepFinish
    <3>3. QED
      BY <2>4, <3>1, <3>2 DEF Marked
  <2>6. QED
    BY <2>5 DEF TableStep
<1>4. ASSUME NEW s \in Sessions, Expire(s) PROVE TableStep
  <2> DEFINE row == [session[s] EXCEPT !.expired = TRUE]
  <2>1. session' = [session EXCEPT ![s] = row] /\ refresh' = refresh /\ Exists(s)
    BY <1>4 DEF Expire
  <2>2. /\ row \in Row /\ row.family = session[s].family
        /\ row.parent = session[s].parent /\ row.revoked = session[s].revoked
    BY <2>1, SessionType DEF Row
  <2>3. Marked
    BY <2>1, <2>2, MarkedOne
  <2>4. QED
    BY <2>3 DEF TableStep
<1>5. ASSUME NEW r \in Refreshes, Refresh(r) PROVE TableStep
  <2>1. ASSUME NEW n \in Sessions, RefreshCommit(r, n) PROVE TableStep
    BY <2>1 DEF RefreshCommit, TableStep, Rotated
  <2>2. ASSUME NEW s \in Sessions, RefreshRead(r, s) PROVE Moved(r)
    <3> DEFINE q == [session |-> s, phase |-> IF Active(s) THEN "read" ELSE "reuse"]
    <3>1. q \in Requests /\ q.session = s /\ q.phase # "rotated"
      BY DEF Requests
    <3>2. refresh' = [refresh EXCEPT ![r] = q] /\ Exists(s) /\ session' = session
      BY <2>2 DEF RefreshRead
    <3> HIDE DEF q
    <3>3. QED
      BY <3>1, <3>2 DEF Moved
  <2>3. ASSUME RefreshRotate(r) PROVE Moved(r)
    <3> DEFINE s == refresh[r].session
               won == Active(s) /\ ~session[s].expired
               q == [refresh[r] EXCEPT !.phase = IF won THEN "rotated" ELSE "reuse"]
    <3>1. refresh[r] \in Requests /\ ~Locked(s) /\ session' = session /\ Exists(s)
          /\ refresh' = [refresh EXCEPT ![r] = q]
      BY <2>3, RefreshType DEF RefreshRotate, At, IInv, RotatedIsHeld
    <3>2. q \in Requests /\ q.session = s /\ (q.phase = "rotated" => Active(s))
      BY <3>1 DEF Requests
    <3> HIDE DEF q, s
    <3>3. QED
      BY <3>1, <3>2 DEF Moved
  <2>4. ASSUME RefreshReuse(r) \/ RefreshAbort(r) PROVE Moved(r)
    BY <2>4 DEF RefreshReuse, RefreshAbort, Moved
  <2>5. QED
    BY <1>5, <2>1, <2>2, <2>3, <2>4 DEF Refresh, TableStep
<1>6. CASE session' = session /\ refresh' = refresh
  <2>1. Marked
    BY <1>6 DEF Marked, TypeOK
  <2>2. QED
    BY <2>1 DEF TableStep
<1>7. QED
  BY <1>1, <1>2, <1>3, <1>4, <1>5, <1>6 DEF Next, SweepStart, vars

-----------------------------------------------------------------------------
(* Type correctness. *)

(* No step leaves the types. *)
LEMMA TypeStep == TypeOK /\ IInv /\ [Next]_vars => TypeOK'
<1> SUFFICES ASSUME TypeOK, IInv, [Next]_vars PROVE TypeOK'
  OBVIOUS
<1>1. session' \in [Sessions -> Row \cup {Null}]
  <2>1. ASSUME NEW n \in Sessions, LoggedIn(n)
        PROVE  session' \in [Sessions -> Row \cup {Null}]
    BY <2>1, FreshType DEF LoggedIn, TypeOK
  <2>2. ASSUME NEW r \in Refreshes, NEW n \in Sessions, Rotated(r, n)
        PROVE  session' \in [Sessions -> Row \cup {Null}]
    <3> DEFINE s == refresh[r].session
    <3>1. s \in Sessions /\ Exists(s)
      BY <2>2, RefreshType DEF Rotated, At, IInv, RotatedIsHeld
    <3>2. session[s] \in Row
      BY <3>1, SessionType
    <3>3. [session[s] EXCEPT !.revoked = "ROTATED"] \in Row
      BY <3>2 DEF Row
    <3>4. Fresh(session[s].user, session[s].family, s) \in Row
      BY <3>1, <3>2, FreshType DEF Row
    <3>5. session' = [[session EXCEPT ![s] = [session[s] EXCEPT !.revoked = "ROTATED"]]
                        EXCEPT ![n] = Fresh(session[s].user, session[s].family, s)]
      BY <2>2 DEF Rotated
    <3>6. QED
      BY <3>3, <3>4, <3>5 DEF TypeOK
  <2>3. CASE Marked
    BY <2>3 DEF Marked
  <2>4. ASSUME NEW r \in Refreshes, Moved(r)
        PROVE  session' \in [Sessions -> Row \cup {Null}]
    BY <2>4 DEF Moved, TypeOK
  <2>5. QED
    BY <2>1, <2>2, <2>3, <2>4, Steps DEF TableStep
<1>2. refresh' \in [Refreshes -> Requests \cup {Null}]
  BY Steps DEF TableStep, LoggedIn, Rotated, Marked, Moved, TypeOK
<1>3. sweep' \in [Sweeps -> Found \cup {Null}]
  <2>1. ASSUME NEW k \in Sweeps, NEW u \in Users, SweepStart(k, u)
        PROVE  sweep' \in [Sweeps -> Found \cup {Null}]
    BY <2>1 DEF SweepStart, TypeOK, Found
  <2>2. ASSUME NEW k \in Sweeps, SweepFinish(k)
        PROVE  sweep' \in [Sweeps -> Found \cup {Null}]
    BY <2>2 DEF SweepFinish, TypeOK
  <2>3. CASE UNCHANGED sweep
    BY <2>3 DEF TypeOK
  <2>4. QED
    BY <2>1, <2>2, <2>3
    DEF Next, Login, Revoke, Expire, Refresh, RefreshRead, RefreshRotate, RefreshCommit,
        RefreshReuse, RefreshAbort, vars
<1>4. QED
  BY <1>1, <1>2, <1>3 DEF TypeOK

-----------------------------------------------------------------------------
(* The invariant, one kind of step at a time. *)

Table == OneActivePerFamily /\ OneSuccessor /\ FamilyExists /\ ParentRotated

(* The rows after a first session is inserted. *)
LEMMA LoginRows ==
  ASSUME TypeOK, IInv, NEW n \in Sessions, LoggedIn(n)
  PROVE  /\ \A s \in Sessions : s # n => session'[s] = session[s]
         /\ session'[n] # Null /\ session'[n].family = n /\ session'[n].parent = Null
         /\ session'[n].revoked = "NO"
         /\ session[n] = Null /\ refresh' = refresh
         /\ \A s \in Sessions : Exists(s) => session[s].family # n /\ session[s].parent # n
<1>1. PICK u \in Users : session' = [session EXCEPT ![n] = Fresh(u, n, Null)]
  BY DEF LoggedIn
<1>2. /\ \A s \in Sessions : s # n => session'[s] = session[s]
      /\ session'[n] # Null /\ session'[n].family = n /\ session'[n].parent = Null
      /\ session'[n].revoked = "NO"
      /\ session[n] = Null /\ refresh' = refresh
  BY <1>1, FreshType, NullAssumption DEF LoggedIn, Exists, TypeOK, Fresh
<1>3. \A s \in Sessions : Exists(s) => session[s].family # n /\ session[s].parent # n
  BY <1>2, NullAssumption DEF IInv, FamilyExists, ParentRotated, SameFamily, Exists
<1>4. QED
  BY <1>2, <1>3

(* A login keeps the table invariant. *)
LEMMA LoginKeeps ==
  ASSUME TypeOK, IInv, NEW n \in Sessions, LoggedIn(n)
  PROVE  Table' /\ RotatedIsHeld'
<1>1. /\ \A s \in Sessions : s # n => session'[s] = session[s]
      /\ session'[n] # Null /\ session'[n].family = n /\ session'[n].parent = Null
      /\ session'[n].revoked = "NO"
      /\ session[n] = Null /\ refresh' = refresh
  BY LoginRows
<1>2. \A s \in Sessions : Exists(s) => session[s].family # n /\ session[s].parent # n
  BY LoginRows
<1>3. OneActivePerFamily'
  BY <1>1, <1>2 DEF IInv, OneActivePerFamily, SameFamily, Active, Exists
<1>4. OneSuccessor'
  BY <1>1, <1>2, NullAssumption DEF IInv, OneSuccessor, Exists
<1>5. \A s \in Sessions : session[s] # Null =>
        session[s].family \in Sessions /\ session[s].parent \in Sessions \cup {Null}
  BY SessionType DEF Exists, Row
<1>6. FamilyExists'
  BY <1>1, <1>2, <1>5 DEF IInv, FamilyExists, Exists
<1>7. ParentRotated'
  <2> SUFFICES ASSUME NEW s \in Sessions, session'[s] # Null, session'[s].parent # Null
               PROVE  /\ session'[session'[s].parent] # Null
                      /\ session'[session'[s].parent].family = session'[s].family
                      /\ session'[session'[s].parent].revoked = "ROTATED"
    BY DEF ParentRotated, SameFamily, Exists
  <2>1. s # n /\ session'[s] = session[s] /\ session[s].parent # n
    BY <1>1, <1>2 DEF Exists
  <2>2. session'[session[s].parent] = session[session[s].parent]
    BY <1>1, <1>5, <2>1
  <2>3. QED
    BY <2>1, <2>2 DEF IInv, ParentRotated, SameFamily, Exists
<1>8. RotatedIsHeld'
  BY <1>1, RefreshType DEF IInv, RotatedIsHeld, At, Active, Exists
<1>9. QED
  BY <1>3, <1>4, <1>6, <1>7, <1>8 DEF Table

(* Ending sessions keeps the table invariant. *)
LEMMA MarkKeeps ==
  ASSUME TypeOK, IInv, Marked
  PROVE  Table' /\ RotatedIsHeld'
<1>1. \A s \in Sessions :
        /\ session'[s] = Null <=> session[s] = Null
        /\ session[s] # Null =>
             /\ session'[s].family = session[s].family
             /\ session'[s].parent = session[s].parent
             /\ session'[s].revoked = "NO" => session[s].revoked = "NO"
             /\ session'[s].revoked = "ROTATED" <=> session[s].revoked = "ROTATED"
             /\ Locked(s) /\ session[s].revoked = "NO" => session'[s].revoked = "NO"
  BY DEF Marked, Exists, Active
<1>2. \A s \in Sessions : session[s] # Null =>
        session[s].family \in Sessions /\ session[s].parent \in Sessions \cup {Null}
  BY SessionType DEF Exists, Row
<1>3. OneActivePerFamily'
  BY <1>1 DEF IInv, OneActivePerFamily, SameFamily, Active, Exists
<1>4. OneSuccessor'
  BY <1>1 DEF IInv, OneSuccessor, Exists
<1>5. FamilyExists'
  BY <1>1, <1>2 DEF IInv, FamilyExists, Exists
<1>6. ParentRotated'
  BY <1>1, <1>2 DEF IInv, ParentRotated, SameFamily, Exists
<1>7. RotatedIsHeld'
  <2>1. refresh' = refresh
    BY DEF Marked
  <2>2. \A r \in Refreshes : At(r, "rotated") => Locked(refresh[r].session)
    BY DEF At, Locked
  <2>3. \A r \in Refreshes : refresh[r] # Null => refresh[r].session \in Sessions
    BY RefreshType
  <2>4. \A r \in Refreshes : At(r, "rotated") => Active(refresh[r].session)'
    BY <1>1, <2>1, <2>2, <2>3 DEF IInv, RotatedIsHeld, At, Active, Exists
  <2>5. \A r \in Refreshes : refresh[r] # Null => session'[refresh[r].session] # Null
    BY <1>1, <2>3 DEF IInv, RotatedIsHeld, Exists
  <2>6. QED
    BY <2>1, <2>4, <2>5 DEF IInv, RotatedIsHeld, At, Exists
<1>8. QED
  BY <1>3, <1>4, <1>5, <1>6, <1>7 DEF Table

(* The rows after a session s is rotated and n succeeds it. *)
LEMMA RotatedRows ==
  ASSUME TypeOK, IInv, NEW r \in Refreshes, NEW n \in Sessions, Rotated(r, n),
         NEW s, s = refresh[r].session
  PROVE  /\ s \in Sessions /\ s # n /\ session[s] \in Row
         /\ \A t \in Sessions : t # n /\ t # s => session'[t] = session[t]
         /\ session[s] # Null /\ session'[s] # Null /\ session[s].revoked = "NO"
         /\ session'[s].family = session[s].family /\ session'[s].parent = session[s].parent
         /\ session'[s].revoked = "ROTATED"
         /\ session[n] = Null /\ session'[n] # Null
         /\ session'[n].family = session[s].family /\ session'[n].parent = s
         /\ session'[n].revoked = "NO"
<1>1. s \in Sessions /\ Active(s) /\ Exists(s) /\ session[s] \in Row /\ s # n /\ At(r, "rotated")
  BY RefreshType, SessionType DEF Rotated, At, IInv, RotatedIsHeld, Active
<1>2. session' = [[session EXCEPT ![s] = [session[s] EXCEPT !.revoked = "ROTATED"]]
                    EXCEPT ![n] = Fresh(session[s].user, session[s].family, s)]
  BY DEF Rotated
<1>3. Fresh(session[s].user, session[s].family, s) \in Row
      /\ [session[s] EXCEPT !.revoked = "ROTATED"] \in Row
  BY <1>1, FreshType DEF Row
<1>4. /\ \A t \in Sessions : t # n /\ t # s => session'[t] = session[t]
      /\ session[s] # Null /\ session'[s] # Null /\ session[s].revoked = "NO"
      /\ session'[s].family = session[s].family /\ session'[s].parent = session[s].parent
      /\ session'[s].revoked = "ROTATED"
      /\ session[n] = Null /\ session'[n] # Null
      /\ session'[n].family = session[s].family /\ session'[n].parent = s
      /\ session'[n].revoked = "NO"
  <2>1. session'[s] = [session[s] EXCEPT !.revoked = "ROTATED"]
        /\ session'[n] = Fresh(session[s].user, session[s].family, s)
        /\ \A t \in Sessions : t # n /\ t # s => session'[t] = session[t]
    BY <1>1, <1>2 DEF TypeOK
  <2>2. session[s] # Null /\ session[s].revoked = "NO" /\ session[n] = Null
    BY <1>1 DEF Rotated, Exists, Active
  <2>3. /\ session'[s].family = session[s].family /\ session'[s].parent = session[s].parent
        /\ session'[s].revoked = "ROTATED"
    BY <1>1, <2>1 DEF Row
  <2>4. /\ session'[n].family = session[s].family /\ session'[n].parent = s
        /\ session'[n].revoked = "NO"
    BY <2>1 DEF Fresh
  <2>5. session'[s] # Null /\ session'[n] # Null
    BY <1>3, <2>1, NullAssumption
  <2>6. QED
    BY <2>1, <2>2, <2>3, <2>4, <2>5
<1>5. QED
  BY <1>1, <1>4

(* A committed rotation keeps the table invariant. *)
LEMMA RotationKeeps ==
  ASSUME TypeOK, IInv, NEW r \in Refreshes, NEW n \in Sessions, Rotated(r, n)
  PROVE  Table' /\ RotatedIsHeld'
<1> DEFINE s == refresh[r].session
<1>1. s \in Sessions /\ s # n /\ session[s] \in Row /\ At(r, "rotated")
  BY RotatedRows DEF Rotated
<1>2. /\ \A t \in Sessions : t # n /\ t # s => session'[t] = session[t]
      /\ session[s] # Null /\ session'[s] # Null /\ session[s].revoked = "NO"
      /\ session'[s].family = session[s].family /\ session'[s].parent = session[s].parent
      /\ session'[s].revoked = "ROTATED"
      /\ session[n] = Null /\ session'[n] # Null
      /\ session'[n].family = session[s].family /\ session'[n].parent = s
      /\ session'[n].revoked = "NO"
  BY RotatedRows
<1>3. /\ refresh'[r] = Null
      /\ \A q \in Refreshes : q # r => refresh'[q] = refresh[q]
  BY DEF Rotated, TypeOK
<1> HIDE DEF s
<1>4. \A t \in Sessions : session[t] # Null =>
        /\ session[t].family # n /\ session[t].parent # n
        /\ session[t].parent # s
        /\ session[t].family \in Sessions /\ session[t].parent \in Sessions \cup {Null}
  <2>1. \A t \in Sessions : session[t] # Null => session[t].family # n /\ session[t].parent # n
    BY <1>2, NullAssumption DEF IInv, FamilyExists, ParentRotated, SameFamily, Exists
  <2>2. \A t \in Sessions : session[t] # Null => session[t].parent # s
    BY <1>1, <1>2 DEF IInv, OneSuccessor, Exists
  <2>3. QED
    BY <2>1, <2>2, SessionType DEF Exists, Row
<1>5. OneActivePerFamily'
  <2> SUFFICES ASSUME NEW x \in Sessions, NEW y \in Sessions, x # y,
                      session'[x] # Null, session'[y] # Null,
                      session'[x].family = session'[y].family, session'[x].revoked = "NO"
               PROVE  session'[y].revoked = "ROTATED"
    BY DEF OneActivePerFamily, SameFamily, Active, Exists
  <2>1. CASE x = n
    BY <1>1, <1>2, <2>1 DEF IInv, OneActivePerFamily, SameFamily, Active, Exists
  <2>2. CASE x # n
    BY <1>1, <1>2, <2>2 DEF IInv, OneActivePerFamily, SameFamily, Active, Exists
  <2>3. QED
    BY <2>1, <2>2
<1>6. OneSuccessor'
  <2>1. ASSUME NEW x \in Sessions, session'[x] # Null
        PROVE  session'[x].revoked = "ROTATED" <=>
                 \E t \in Sessions : session'[t] # Null /\ session'[t].parent = x
    <3>1. CASE x = s
      BY <1>1, <1>2, <3>1
    <3>2. CASE x = n
      BY <1>1, <1>2, <1>4, <3>2
    <3>3. CASE x # s /\ x # n
      BY <1>1, <1>2, <1>4, <2>1, <3>3 DEF IInv, OneSuccessor, Exists
    <3>4. QED
      BY <3>1, <3>2, <3>3
  <2>2. ASSUME NEW x \in Sessions, NEW y \in Sessions, session'[x] # Null, session'[y] # Null,
               session'[x].parent # Null, session'[x].parent = session'[y].parent
        PROVE  x = y
    BY <1>1, <1>2, <1>4, <2>2 DEF IInv, OneSuccessor, Exists
  <2>3. QED
    BY <2>1, <2>2 DEF OneSuccessor, Exists
<1>7. FamilyExists'
  BY <1>1, <1>2, <1>4 DEF IInv, FamilyExists, Exists
<1>8. ParentRotated'
  BY <1>1, <1>2, <1>4, NullAssumption DEF IInv, ParentRotated, SameFamily, Exists
<1>9. RotatedIsHeld'
  <2>1. \A q \in Refreshes : q # r /\ At(q, "rotated") => refresh[q].session # s
    BY <1>1 DEF IInv, RotatedIsHeld, s
  <2>2. \A q \in Refreshes : refresh[q] # Null =>
          refresh[q].session \in Sessions /\ session[refresh[q].session] # Null
    BY RefreshType DEF IInv, RotatedIsHeld, Exists
  <2>3. \A q \in Refreshes : refresh'[q] # Null =>
          /\ refresh'[q] = refresh[q] /\ q # r
          /\ session'[refresh[q].session] # Null
    BY <1>2, <1>3, <2>2
  <2>4. \A q \in Refreshes : refresh'[q] # Null /\ refresh'[q].phase = "rotated" =>
          session'[refresh[q].session].revoked = "NO"
    BY <1>2, <2>1, <2>2, <2>3 DEF IInv, RotatedIsHeld, At, Active, Exists
  <2>5. QED
    BY <2>3, <2>4 DEF IInv, RotatedIsHeld, At, Active, Exists
<1>10. QED
  BY <1>5, <1>6, <1>7, <1>8, <1>9 DEF Table

(* A refresh that has not committed keeps the table invariant. *)
LEMMA MoveKeeps ==
  ASSUME TypeOK, IInv, NEW r \in Refreshes, Moved(r)
  PROVE  Table' /\ RotatedIsHeld'
<1>1. Table'
  BY DEF Moved, IInv, Table, OneActivePerFamily, OneSuccessor, FamilyExists, ParentRotated,
         SameFamily, Active, Exists
<1>2. RotatedIsHeld'
  <2>1. PICK q \in Requests \cup {Null} :
          /\ refresh' = [refresh EXCEPT ![r] = q]
          /\ q # Null => /\ Exists(q.session)
                         /\ q.phase = "rotated" => Active(q.session) /\ ~Locked(q.session)
    BY DEF Moved
  <2>2. refresh'[r] = q /\ \A p \in Refreshes : p # r => refresh'[p] = refresh[p]
    BY <2>1 DEF TypeOK
  <2>3. session' = session
    BY DEF Moved
  <2>4. QED
    BY <2>1, <2>2, <2>3 DEF IInv, RotatedIsHeld, At, Active, Exists, Locked
<1>3. QED
  BY <1>1, <1>2

(* No row is ever deleted. *)
LEMMA RowsStay ==
  ASSUME TypeOK, IInv, [Next]_vars, NEW s \in Sessions, session[s] # Null
  PROVE  session'[s] # Null
<1>1. ASSUME NEW n \in Sessions, LoggedIn(n) PROVE session'[s] # Null
  BY <1>1 DEF LoggedIn, Exists, TypeOK
<1>2. ASSUME NEW r \in Refreshes, NEW n \in Sessions, Rotated(r, n) PROVE session'[s] # Null
  <2> DEFINE h == refresh[r].session
  <2>1. h \in Sessions /\ session[h] \in Row /\ h # n /\ s # n
    BY <1>2, RefreshType, SessionType DEF Rotated, At, IInv, RotatedIsHeld, Active, Exists
  <2>2. [session[h] EXCEPT !.revoked = "ROTATED"] \in Row
    BY <2>1 DEF Row
  <2>3. session' = [[session EXCEPT ![h] = [session[h] EXCEPT !.revoked = "ROTATED"]]
                      EXCEPT ![n] = Fresh(session[h].user, session[h].family, h)]
    BY <1>2 DEF Rotated
  <2>4. session'[s] = session[s] \/ session'[s] = [session[h] EXCEPT !.revoked = "ROTATED"]
    BY <2>1, <2>3 DEF TypeOK
  <2>5. QED
    BY <2>2, <2>4, NullAssumption
<1>3. CASE Marked
  BY <1>3 DEF Marked
<1>4. ASSUME NEW r \in Refreshes, Moved(r) PROVE session'[s] # Null
  BY <1>4 DEF Moved
<1>5. QED
  BY <1>1, <1>2, <1>3, <1>4, Steps DEF TableStep

(* A sweep only ever holds sessions that exist. *)
LEMMA FoundStep == TypeOK /\ IInv /\ [Next]_vars => FoundExists'
<1> SUFFICES ASSUME TypeOK, IInv, [Next]_vars PROVE FoundExists'
  OBVIOUS
<1>1. \A s \in Sessions : Exists(s) => session'[s] # Null
  BY RowsStay DEF Exists
<1>2. \A k \in Sweeps : sweep[k] # Null => \A s \in sweep[k].targets : s \in Sessions /\ Exists(s)
  BY DEF TypeOK, Found, IInv, FoundExists
<1>3. ASSUME NEW k \in Sweeps, NEW u \in Users, SweepStart(k, u) PROVE FoundExists'
  <2> DEFINE found == [user |-> u, targets |-> {s \in Sessions : Active(s) /\ session[s].user = u}]
  <2>1. /\ sweep'[k] = found /\ \A j \in Sweeps : j # k => sweep'[j] = sweep[j]
        /\ session' = session
    BY <1>3 DEF SweepStart, TypeOK
  <2>2. \A s \in found.targets : Exists(s)
    BY DEF Active
  <2> HIDE DEF found
  <2>3. QED
    BY <1>2, <2>1, <2>2 DEF FoundExists, Exists
<1>4. ASSUME NEW k \in Sweeps, SweepFinish(k) PROVE FoundExists'
  <2>1. sweep'[k] = Null /\ \A j \in Sweeps : j # k => sweep'[j] = sweep[j]
    BY <1>4 DEF SweepFinish, TypeOK
  <2>2. QED
    BY <1>1, <1>2, <2>1 DEF FoundExists, Exists
<1>5. CASE UNCHANGED sweep
  BY <1>1, <1>2, <1>5 DEF FoundExists, Exists
<1>6. QED
  BY <1>3, <1>4, <1>5
  DEF Next, Login, Revoke, Expire, Refresh, RefreshRead, RefreshRotate, RefreshCommit,
      RefreshReuse, RefreshAbort, vars

(* The invariant holds at first. *)
LEMMA InitHolds == Init => TypeOK /\ IInv
BY DEF Init, TypeOK, IInv, OneActivePerFamily, OneSuccessor, FamilyExists, ParentRotated,
       RotatedIsHeld, FoundExists, SameFamily, Active, Exists, At

(* The invariant is inductive. *)
LEMMA StepHolds == TypeOK /\ IInv /\ [Next]_vars => IInv'
<1> SUFFICES ASSUME TypeOK, IInv, [Next]_vars PROVE IInv'
  OBVIOUS
<1>1. Table' /\ RotatedIsHeld'
  BY Steps, LoginKeeps, RotationKeeps, MarkKeeps, MoveKeeps DEF TableStep
<1>2. FoundExists'
  BY FoundStep
<1>3. QED
  BY <1>1, <1>2 DEF IInv, Table

-----------------------------------------------------------------------------
(* The theorems. *)

(* The tables keep their types and the inductive invariant holds at every moment. *)
THEOREM Invariance == Spec => [](TypeOK /\ IInv)
BY InitHolds, TypeStep, StepHolds, PTL DEF Spec

(* Every row and request has its type at every moment. *)
THEOREM TypeCorrect == Spec => []TypeOK
BY Invariance, PTL

(* However refreshes, logouts and sweeps interleave, a family never has two usable *)
(* sessions, nor one next to a session that was ended.                             *)
THEOREM OneActive == Spec => []OneActivePerFamily
BY Invariance, PTL DEF IInv

(* A session is rotated exactly when it has a successor, and it has one at most. *)
THEOREM SuccessorUnique == Spec => []OneSuccessor
BY Invariance, PTL DEF IInv

-----------------------------------------------------------------------------
(* What one step may not do. *)

(* A session that is not active keeps its revocation. *)
LEMMA FinalStep ==
  ASSUME TypeOK, IInv, [Next]_vars, NEW s \in Sessions, Exists(s), ~Active(s)
  PROVE  session'[s] # Null /\ session'[s].revoked = session[s].revoked
<1>1. ASSUME NEW n \in Sessions, LoggedIn(n) PROVE session'[s] = session[s]
  BY <1>1, LoginRows DEF Exists
<1>2. ASSUME NEW r \in Refreshes, NEW n \in Sessions, Rotated(r, n)
      PROVE  session'[s] = session[s]
  BY <1>2, RotatedRows DEF Exists, Active
<1>3. CASE Marked
  BY <1>3 DEF Marked, Exists, Active
<1>4. ASSUME NEW r \in Refreshes, Moved(r) PROVE session'[s] = session[s]
  BY <1>4 DEF Moved
<1>5. QED
  BY <1>1, <1>2, <1>3, <1>4, Steps DEF TableStep, Exists

(* No step revives a revoked session or gives its revocation another reason. *)
THEOREM RevocationFinal == Spec => RevocationIsFinal
<1>1. TypeOK /\ IInv /\ [Next]_vars =>
        [\A s \in Sessions :
           Exists(s) /\ ~Active(s) =>
             session'[s] # Null /\ session'[s].revoked = session[s].revoked]_vars
  BY FinalStep
<1>2. QED
  BY <1>1, Invariance, PTL DEF Spec, RevocationIsFinal

-----------------------------------------------------------------------------
(* The refinement: what the table says of each family. *)

Usable(s, f) == Active(s) /\ session[s].family = f

(* The current session of a family is its usable one. *)
LEMMA CurrentIs ==
  OneActivePerFamily =>
    \A f \in Sessions :
      /\ \A s \in Sessions : Usable(s, f) => Current(f) = s
      /\ (\A s \in Sessions : ~Usable(s, f)) => Current(f) = Null
<1> SUFFICES ASSUME OneActivePerFamily, NEW f \in Sessions
             PROVE  /\ \A s \in Sessions : Usable(s, f) => Current(f) = s
                    /\ (\A s \in Sessions : ~Usable(s, f)) => Current(f) = Null
  OBVIOUS
<1>1. ASSUME NEW s \in Sessions, Usable(s, f) PROVE Current(f) = s
  <2>1. \A t \in Sessions : Usable(t, f) => t = s
    BY <1>1 DEF OneActivePerFamily, SameFamily, Active, Usable
  <2>2. {t \in Sessions : Active(t) /\ session[t].family = f} = {s}
    BY <1>1, <2>1 DEF Usable
  <2>3. QED
    BY <2>2 DEF Current
<1>2. ASSUME \A s \in Sessions : ~Usable(s, f) PROVE Current(f) = Null
  BY <1>2 DEF Current, Usable
<1>3. QED
  BY <1>1, <1>2

(* The same in the next state. *)
LEMMA CurrentIsNext ==
  ASSUME OneActivePerFamily'
  PROVE  \A f \in Sessions :
           /\ \A s \in Sessions : Usable(s, f)' => Current(f)' = s
           /\ (\A s \in Sessions : ~Usable(s, f)') => Current(f)' = Null
<1>1. (OneActivePerFamily =>
        \A f \in Sessions :
          /\ \A s \in Sessions : Usable(s, f) => Current(f) = s
          /\ (\A s \in Sessions : ~Usable(s, f)) => Current(f) = Null)'
  BY CurrentIs, PTL
<1>2. QED
  BY <1>1

(* A family whose usable sessions stay the same keeps its good token. *)
LEMMA CurrentStays ==
  ASSUME OneActivePerFamily, OneActivePerFamily', NEW f \in Sessions,
         \A s \in Sessions : Usable(s, f)' <=> Usable(s, f)
  PROVE  Current(f)' = Current(f)
BY CurrentIs, CurrentIsNext

good == [f \in Sessions |-> Current(f)]
issued == {s \in Sessions : Exists(s)}

(* A login begins a family. *)
LEMMA BeginStep ==
  ASSUME TypeOK, IInv, OneActivePerFamily', NEW n \in Sessions, LoggedIn(n)
  PROVE  Family!Begin(n)
<1>1. /\ \A s \in Sessions : s # n => session'[s] = session[s]
      /\ session'[n] # Null /\ session'[n].family = n /\ session'[n].revoked = "NO"
      /\ session[n] = Null
      /\ \A s \in Sessions : session[s] # Null => session[s].family # n
  BY LoginRows DEF Exists
<1>2. Current(n)' = n
  BY <1>1, CurrentIsNext DEF Usable, Active, Exists
<1>3. \A f \in Sessions : f # n => Current(f)' = Current(f)
  BY <1>1, CurrentStays DEF IInv, Usable, Active, Exists
<1>4. good' = [good EXCEPT ![n] = n]
  BY <1>2, <1>3 DEF good
<1>5. n \notin issued /\ issued' = issued \cup {n}
  BY <1>1 DEF issued, Exists
<1>6. QED
  BY <1>4, <1>5 DEF Family!Begin, Family!Issue, good, issued

(* A committed rotation replaces the session of a family. *)
LEMMA ReplaceStep ==
  ASSUME TypeOK, IInv, OneActivePerFamily',
         NEW r \in Refreshes, NEW n \in Sessions, Rotated(r, n)
  PROVE  \E f \in Sessions : Family!Replace(f, n)
<1>1. PICK s \in Sessions, f \in Sessions : s = refresh[r].session /\ f = session[s].family
  BY RefreshType, SessionType DEF Rotated, At, IInv, RotatedIsHeld, Row
<1>2. /\ s \in Sessions /\ s # n /\ f \in Sessions
      /\ \A t \in Sessions : t # n /\ t # s => session'[t] = session[t]
      /\ session[s] # Null /\ session'[s] # Null /\ session[s].revoked = "NO"
      /\ session'[s].family = f /\ session'[s].revoked = "ROTATED"
      /\ session[n] = Null /\ session'[n] # Null
      /\ session'[n].family = f /\ session'[n].revoked = "NO"
  BY <1>1, RotatedRows
<1>3. session[s].family = f
  BY <1>1
<1>4. Current(f) = s /\ Current(f)' = n
  BY <1>2, <1>3, CurrentIs, CurrentIsNext DEF IInv, Usable, Active, Exists
<1>5. \A g \in Sessions : g # f => Current(g)' = Current(g)
  BY <1>2, <1>3, CurrentStays DEF IInv, Usable, Active, Exists
<1>6. good' = [good EXCEPT ![f] = n] /\ good[f] # Null
  BY <1>2, <1>4, <1>5, NullAssumption DEF good
<1>7. n \notin issued /\ issued' = issued \cup {n}
  BY <1>2 DEF issued, Exists
<1>8. Family!Replace(f, n)
  BY <1>6, <1>7 DEF Family!Replace, Family!Issue, good, issued
<1>9. QED
  BY <1>2, <1>8

(* Logouts, sweeps and expiry end families. *)
LEMMA EndStep ==
  ASSUME TypeOK, IInv, OneActivePerFamily', Marked
  PROVE  \E F \in SUBSET Sessions : Family!End(F)
<1> DEFINE F == {f \in Sessions : \A s \in Sessions : ~Usable(s, f)'}
<1>1. \A f \in F : Current(f)' = Null
  BY CurrentIsNext
<1>2. ASSUME NEW f \in Sessions, f \notin F PROVE Current(f)' = Current(f)
  <2>1. PICK s \in Sessions : Usable(s, f)'
    BY <1>2
  <2>2. Usable(s, f)
    BY <2>1 DEF Marked, Usable, Active, Exists
  <2>3. QED
    BY <2>1, <2>2, CurrentIs, CurrentIsNext DEF IInv
<1>3. issued' = issued
  BY DEF Marked, issued, Exists
<1> HIDE DEF F
<1>4. good' = [f \in Sessions |-> IF f \in F THEN Null ELSE good[f]]
  BY <1>1, <1>2 DEF good
<1>5. Family!End(F)
  BY <1>3, <1>4 DEF Family!End, good, issued
<1>6. F \in SUBSET Sessions
  BY DEF F
<1>7. QED
  BY <1>5, <1>6

(* Every step is one of the families, or none. *)
LEMMA FamilyStep ==
  TypeOK /\ IInv /\ IInv' /\ [Next]_vars => [Family!Next]_(Family!vars)
<1> SUFFICES ASSUME TypeOK, IInv, IInv', [Next]_vars
             PROVE  Family!Next \/ Family!vars' = Family!vars
  OBVIOUS
<1>1. OneActivePerFamily'
  BY DEF IInv
<1>2. ASSUME NEW n \in Sessions, LoggedIn(n) PROVE Family!Next
  BY <1>1, <1>2, BeginStep DEF Family!Next
<1>3. ASSUME NEW r \in Refreshes, NEW n \in Sessions, Rotated(r, n) PROVE Family!Next
  BY <1>1, <1>3, ReplaceStep DEF Family!Next
<1>4. CASE Marked
  BY <1>1, <1>4, EndStep DEF Family!Next
<1>5. ASSUME NEW r \in Refreshes, Moved(r) PROVE Family!vars' = Family!vars
  <2>1. session' = session
    BY <1>5 DEF Moved
  <2>2. QED
    BY <2>1 DEF Family!vars, Current, Active, Exists
<1>6. QED
  BY <1>2, <1>3, <1>4, <1>5, Steps DEF TableStep

(* At first there is no family. *)
LEMMA FamilyInit == Init => Family!Init
BY DEF Init, Family!Init, Current, Active, Exists

(* The Session table, under concurrent refreshes, logouts and sweeps, implements token *)
(* families of which one token at most is good.                                        *)
THEOREM Refinement == Spec => ImplementsFamilies
BY FamilyInit, FamilyStep, Invariance, PTL DEF Spec, ImplementsFamilies, Family!Spec

=============================================================================
