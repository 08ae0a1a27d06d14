-------------------------- MODULE OneTimeChallenge --------------------------
(***************************************************************************)
(* What the verification engine promises: a challenge is issued once, may  *)
(* be used while it is open, is used at most once, and never opens again.  *)
(***************************************************************************)
EXTENDS Naturals

CONSTANT Challenges

VARIABLES
  issued,  \* the challenges issued so far
  open,    \* those whose code would still be accepted
  uses     \* how often the effect of each has been applied

vars == <<issued, open, uses>>

Init ==
  /\ issued = {}
  /\ open = {}
  /\ uses = [v \in Challenges |-> 0]

(* A new challenge may replace others. *)
Issue(n, S) ==
  /\ n \notin issued
  /\ issued' = issued \cup {n}
  /\ open' = (open \ S) \cup {n}
  /\ UNCHANGED uses

Use(v) ==
  /\ v \in open
  /\ open' = open \ {v}
  /\ uses' = [uses EXCEPT ![v] = @ + 1]
  /\ UNCHANGED issued

Close(S) ==
  /\ open' = open \ S
  /\ UNCHANGED <<issued, uses>>

Next ==
  \/ \E n \in Challenges, S \in SUBSET Challenges : Issue(n, S)
  \/ \E v \in Challenges : Use(v)
  \/ \E S \in SUBSET Challenges : Close(S)

Spec == Init /\ [][Next]_vars

=============================================================================
