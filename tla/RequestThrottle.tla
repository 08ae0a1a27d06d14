--------------------------- MODULE RequestThrottle ---------------------------
(***************************************************************************)
(* The fixed-window limits that registration, verification and             *)
(* authentication requests meet before anything else                       *)
(* (apps/api/src/identity/registration/registration-throttle.service.ts,   *)
(* verification/email-verification-throttle.service.ts and                 *)
(* security/authentication-throttle.service.ts, which do the same).        *)
(*                                                                         *)
(* A request increments the counter of its address and that of its subject *)
(* in Redis, in any order, and is admitted if both are within their limit. *)
(* The script that increments a counter gives a new one its expiry: the    *)
(* two cannot come apart.                                                  *)
(***************************************************************************)
EXTENDS Naturals, FiniteSets

CONSTANTS
  Addresses, Subjects,
  Clients,       \* requests in flight
  AddressLimit, SubjectLimit,
  MaxCount,      \* bound: the requests of a window
  Idle           \* no request

ASSUME ThrottleAssumption ==
  /\ AddressLimit \in Nat \ {0} /\ SubjectLimit \in Nat \ {0}
  /\ MaxCount \in Nat

Keys == Addresses \cup Subjects
Limit(k) == IF k \in Addresses THEN AddressLimit ELSE SubjectLimit

VARIABLES
  count,     \* the counter of each key in Redis; 0 is no key
  call,      \* each request: its keys, what the increments answered, and
             \* (history) the keys that counted it in the window they still are in
  admitted   \* history: how many requests each key admitted in its window

throttleVars == <<count, call, admitted>>

-----------------------------------------------------------------------------

Asked(c) == DOMAIN call[c].counts

(* enforce: both increments are sent. *)
Enforce(c, a, s) ==
  /\ call[c] = Idle
  /\ call' = [call EXCEPT ![c] = [counts |-> [k \in {a, s} |-> 0], live |-> {}]]
  /\ UNCHANGED <<count, admitted>>

(* increment *)
Increment(c, k) ==
  /\ call[c] # Idle
  /\ k \in Asked(c) /\ call[c].counts[k] = 0
  /\ count[k] < MaxCount
  /\ count' = [count EXCEPT ![k] = @ + 1]
  /\ call' = [call EXCEPT ![c] =
       [counts |-> [@.counts EXCEPT ![k] = count[k] + 1], live |-> @.live \cup {k}]]
  /\ UNCHANGED admitted

Within(c, k) == call[c].counts[k] <= Limit(k)
Counted(c) == call[c] # Idle /\ \A k \in Asked(c) : call[c].counts[k] > 0

(* Mutant: one limit is enough. *)
AdmitEither(c) ==
  /\ Counted(c)
  /\ \E k \in Asked(c) : Within(c, k)
  /\ admitted' = [k \in Keys |-> IF k \in call[c].live THEN admitted[k] + 1 ELSE admitted[k]]
  /\ call' = [call EXCEPT ![c] = Idle]
  /\ UNCHANGED count

(* The request goes on to its service. *)
Admit(c) ==
  /\ Counted(c)
  /\ \A k \in Asked(c) : Within(c, k)
  /\ admitted' = [k \in Keys |-> IF k \in call[c].live THEN admitted[k] + 1 ELSE admitted[k]]
  /\ call' = [call EXCEPT ![c] = Idle]
  /\ UNCHANGED count

(* Too many requests; or Redis does not answer, and the request is refused as well. *)
Refuse(c) ==
  /\ call[c] # Idle
  /\ Counted(c) => \E k \in Asked(c) : ~Within(c, k)
  /\ call' = [call EXCEPT ![c] = Idle]
  /\ UNCHANGED <<count, admitted>>

(* External: Redis drops a key whose time has come. *)
Expire(k) ==
  /\ count[k] > 0
  /\ count' = [count EXCEPT ![k] = 0]
  /\ call' = [c \in Clients |->
       IF call[c] = Idle THEN Idle ELSE [counts |-> call[c].counts, live |-> call[c].live \ {k}]]
  /\ admitted' = [admitted EXCEPT ![k] = 0]

ThrottleInit ==
  /\ count = [k \in Keys |-> 0]
  /\ call = [c \in Clients |-> Idle]
  /\ admitted = [k \in Keys |-> 0]

ThrottleNext ==
  \/ \E c \in Clients :
       \/ \E a \in Addresses, s \in Subjects : Enforce(c, a, s)
       \/ \E k \in Keys : Increment(c, k)
       \/ Admit(c)
       \/ Refuse(c)
  \/ \E k \in Keys : Expire(k)

ThrottleSpec == ThrottleInit /\ [][ThrottleNext]_throttleVars

-----------------------------------------------------------------------------
(* Properties *)

(* No address and no subject has more requests admitted in one window of its key than    *)
(* its limit, whichever of the two counters a request increments first, whatever windows *)
(* close in between and whoever shares the other counter with it.                        *)
WindowLimit == \A k \in Keys : admitted[k] <= Limit(k)

=============================================================================
