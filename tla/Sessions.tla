------------------------------ MODULE Sessions ------------------------------
(***************************************************************************)
(* Sessions and the rotation of refresh tokens                             *)
(* (apps/api/src/identity/services/identity.service.ts).                   *)
(*                                                                         *)
(* A refresh runs in one READ COMMITTED transaction: it reads the session, *)
(* verifies the token's hash, revokes the session with an update           *)
(* conditional on revokedAt IS NULL (which locks the row until the         *)
(* transaction ends, and waits for such a lock) and inserts the successor. *)
(* Nothing of it is visible before it commits.  Revoking every session of  *)
(* a user is one statement: it acts on the rows that match in the snapshot *)
(* it starts with, waits for locked ones and checks each again.            *)
(*                                                                         *)
(* The refresh token of a session is named by the session.  Left out:      *)
(* password checks, token signatures and hashes (a request presents the    *)
(* token of a session of its own user), metadata, audit events, and which  *)
(* of LOGOUT, SESSION_REVOKED, LOGOUT_ALL, PASSWORD_RESET ended a session. *)
(***************************************************************************)
CONSTANTS
  Sessions,   \* session ids, fresh UUIDs; a familyId is named by its first session
  Users,
  Refreshes,  \* refresh requests in flight
  Sweeps,     \* requests in flight that revoke all sessions of a user
  Null        \* no row, no parent, no request

VARIABLES
  session,  \* the committed table "Session"
  refresh,  \* where each refresh transaction stands
  sweep     \* the rows each sweep has found

vars == <<session, refresh, sweep>>

(* revokedAt and revokedReason: not revoked, rotated, or ended for another reason. *)
Row ==
  [user : Users, family : Sessions, parent : Sessions \cup {Null},
   revoked : {"NO", "ROTATED", "ENDED"}, expired : BOOLEAN]

Requests == [session : Sessions, phase : {"read", "rotated", "reuse"}]
Found == [user : Users, targets : SUBSET Sessions]

ASSUME NullAssumption ==
  Null \notin Sessions /\ Null \notin Row /\ Null \notin Requests /\ Null \notin Found

-----------------------------------------------------------------------------
(* Helpers *)

Exists(s) == session[s] # Null
Active(s) == Exists(s) /\ session[s].revoked = "NO"
SameFamily(s, t) == Exists(s) /\ Exists(t) /\ session[s].family = session[t].family

(* The row is locked by a refresh that has revoked it and not committed yet. *)
Locked(s) ==
  \E r \in Refreshes : refresh[r] # Null /\ refresh[r].phase = "rotated" /\ refresh[r].session = s

Fresh(user, family, parent) ==
  [user |-> user, family |-> family, parent |-> parent, revoked |-> "NO", expired |-> FALSE]

At(r, phase) == refresh[r] # Null /\ refresh[r].phase = phase

-----------------------------------------------------------------------------
(* Actions *)

(* login: issueTokens inserts the first session of a family. *)
Login(u, n) ==
  /\ ~Exists(n)
  /\ session' = [session EXCEPT ![n] = Fresh(u, n, Null)]
  /\ UNCHANGED <<refresh, sweep>>

(* findSession and the checks on it; a token already revoked is a reuse. *)
RefreshRead(r, s) ==
  /\ refresh[r] = Null
  /\ Exists(s)
  /\ ~session[s].expired
  /\ refresh' = [refresh EXCEPT ![r] =
                   [session |-> s, phase |-> IF Active(s) THEN "read" ELSE "reuse"]]
  /\ UNCHANGED <<session, sweep>>

(* Mutant: the update commits before the insert. *)
RefreshRotateCommitted(r) ==
  /\ At(r, "read")
  /\ LET s == refresh[r].session IN
       /\ Active(s)
       /\ ~session[s].expired
       /\ refresh' = [refresh EXCEPT ![r].phase = "rotated"]
       /\ session' = [session EXCEPT ![s].revoked = "ROTATED"]
  /\ UNCHANGED sweep

(* revokeActiveSession: conditional on the row as it is now; losing the race is a reuse. *)
RefreshRotate(r) ==
  /\ At(r, "read")
  /\ LET s == refresh[r].session
         won == Active(s) /\ ~session[s].expired IN
       /\ ~Locked(s)
       /\ refresh' = [refresh EXCEPT ![r].phase = IF won THEN "rotated" ELSE "reuse"]
  /\ UNCHANGED <<session, sweep>>

(* Mutant: familyId is not handed on to the successor. *)
RefreshCommitNewFamily(r, n) ==
  /\ At(r, "rotated")
  /\ ~Exists(n)
  /\ LET s == refresh[r].session IN
       session' = [session EXCEPT ![s].revoked = "ROTATED",
                                  ![n] = Fresh(session[s].user, n, s)]
  /\ refresh' = [refresh EXCEPT ![r] = Null]
  /\ UNCHANGED sweep

(* issueTokens inserts the successor; the transaction commits. *)
RefreshCommit(r, n) ==
  /\ At(r, "rotated")
  /\ ~Exists(n)
  /\ LET s == refresh[r].session IN
       session' = [session EXCEPT ![s].revoked = "ROTATED",
                                  ![n] = Fresh(session[s].user, session[s].family, s)]
  /\ refresh' = [refresh EXCEPT ![r] = Null]
  /\ UNCHANGED sweep

(* revokeSessionFamily has run in the transaction and the callback throws: $transaction *)
(* rolls back what it wrote.                                                            *)
RefreshReuse(r) ==
  /\ At(r, "reuse")
  /\ refresh' = [refresh EXCEPT ![r] = Null]
  /\ UNCHANGED <<session, sweep>>

(* The transaction fails, times out, or dies with its process. *)
RefreshAbort(r) ==
  /\ At(r, "read") \/ At(r, "rotated")
  /\ refresh' = [refresh EXCEPT ![r] = Null]
  /\ UNCHANGED <<session, sweep>>

(* logout and revokeSession: one session of the caller, if not revoked yet. *)
Revoke(u, s) ==
  /\ Active(s)
  /\ session[s].user = u
  /\ ~Locked(s)
  /\ session' = [session EXCEPT ![s].revoked = "ENDED"]
  /\ UNCHANGED <<refresh, sweep>>

(* logoutAll and the password reset start to revoke the user's active sessions.  One *)
(* that fails changes nothing, like one that never finishes.                         *)
SweepStart(k, u) ==
  /\ sweep[k] = Null
  /\ sweep' = [sweep EXCEPT ![k] =
                 [user |-> u, targets |-> {s \in Sessions : Active(s) /\ session[s].user = u}]]
  /\ UNCHANGED <<session, refresh>>

SweepFinish(k) ==
  /\ sweep[k] # Null
  /\ \A s \in sweep[k].targets : ~Locked(s)
  /\ session' = [s \in Sessions |->
       IF s \in sweep[k].targets /\ Active(s)
         THEN [session[s] EXCEPT !.revoked = "ENDED"]
         ELSE session[s]]
  /\ sweep' = [sweep EXCEPT ![k] = Null]
  /\ UNCHANGED refresh

(* Time passes expiresAt. *)
Expire(s) ==
  /\ Exists(s)
  /\ ~session[s].expired
  /\ session' = [session EXCEPT ![s].expired = TRUE]
  /\ UNCHANGED <<refresh, sweep>>

-----------------------------------------------------------------------------
Init ==
  /\ session = [s \in Sessions |-> Null]
  /\ refresh = [r \in Refreshes |-> Null]
  /\ sweep = [k \in Sweeps |-> Null]

Refresh(r) ==
  \/ \E s \in Sessions : RefreshRead(r, s) \/ RefreshCommit(r, s)
  \/ RefreshRotate(r)
  \/ RefreshReuse(r)
  \/ RefreshAbort(r)

Next ==
  \/ \E u \in Users, s \in Sessions : Login(u, s) \/ Revoke(u, s)
  \/ \E r \in Refreshes : Refresh(r)
  \/ \E k \in Sweeps, u \in Users : SweepStart(k, u)
  \/ \E k \in Sweeps : SweepFinish(k)
  \/ \E s \in Sessions : Expire(s)

Spec == Init /\ [][Next]_vars

-----------------------------------------------------------------------------
(* Properties *)

(* Every row and request has its type. *)
TypeOK ==
  /\ session \in [Sessions -> Row \cup {Null}]
  /\ refresh \in [Refreshes -> Requests \cup {Null}]
  /\ sweep \in [Sweeps -> Found \cup {Null}]

(* Two refreshes of one token, logouts and sweeps never leave two usable sessions in *)
(* a family, nor a usable one in a family that a logout or a sweep has ended: next   *)
(* to an active session, every other of its family was rotated.                      *)
OneActivePerFamily ==
  \A s, t \in Sessions :
    s # t /\ SameFamily(s, t) /\ Active(s) => session[t].revoked = "ROTATED"

(* "Create exactly one successor session": a session is rotated exactly when it has a *)
(* successor, and it never has two; no failure burns a token without replacing it.    *)
OneSuccessor ==
  /\ \A s \in Sessions :
       Exists(s) => (session[s].revoked = "ROTATED" <=>
                       \E t \in Sessions : Exists(t) /\ session[t].parent = s)
  /\ \A s, t \in Sessions :
       Exists(s) /\ Exists(t) /\ session[s].parent # Null /\ session[s].parent = session[t].parent
         => s = t

(* A revocation is final, and its reason is the first one given. *)
RevocationIsFinal ==
  [][\A s \in Sessions :
       Exists(s) /\ ~Active(s) => session'[s] # Null /\ session'[s].revoked = session[s].revoked]_vars

(* "If a matching revoked token is presented, or the conditional transition loses a   *)
(* race, revoke every active session in that family".                                 *)
ReuseEndsFamily ==
  [][\A r \in Refreshes :
       At(r, "reuse") /\ ~Active(refresh[r].session) /\ refresh'[r] = Null =>
         \A s \in Sessions :
           session'[s] # Null /\ session'[s].family = session[refresh[r].session].family
             => session'[s].revoked # "NO"]_vars

-----------------------------------------------------------------------------
(* The inductive invariant *)

(* A row names a family whose first session exists. *)
FamilyExists == \A s \in Sessions : Exists(s) => Exists(session[s].family)

(* A parent is a rotated session of the same family. *)
ParentRotated ==
  \A s \in Sessions :
    Exists(s) /\ session[s].parent # Null =>
      /\ SameFamily(session[s].parent, s)
      /\ session[session[s].parent].revoked = "ROTATED"

(* A refresh that has revoked its session holds it alone, still active in the table. *)
RotatedIsHeld ==
  /\ \A r \in Refreshes : refresh[r] # Null => Exists(refresh[r].session)
  /\ \A r \in Refreshes : At(r, "rotated") => Active(refresh[r].session)
  /\ \A r, q \in Refreshes :
       At(r, "rotated") /\ At(q, "rotated") /\ refresh[r].session = refresh[q].session => r = q

FoundExists == \A k \in Sweeps : sweep[k] # Null => \A s \in sweep[k].targets : Exists(s)

IInv ==
  /\ OneActivePerFamily
  /\ OneSuccessor
  /\ FamilyExists
  /\ ParentRotated
  /\ RotatedIsHeld
  /\ FoundExists

-----------------------------------------------------------------------------
(* Refinement *)

Current(f) ==
  LET usable == {s \in Sessions : Active(s) /\ session[s].family = f} IN
    IF usable = {} THEN Null ELSE CHOOSE s \in usable : TRUE

Family == INSTANCE TokenFamilies WITH
  Tokens <- Sessions,
  None   <- Null,
  good   <- [f \in Sessions |-> Current(f)],
  issued <- {s \in Sessions : Exists(s)}

(* The table, its concurrent rotations, logouts and sweeps implement token families. *)
ImplementsFamilies == Family!Spec

=============================================================================
