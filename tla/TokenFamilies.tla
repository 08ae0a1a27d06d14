--------------------------- MODULE TokenFamilies ---------------------------
(***************************************************************************)
(* What session rotation promises: a login begins a family of refresh      *)
(* tokens of which at most one is good at any time; a refresh replaces it  *)
(* by a token never issued before; a family that has ended stays ended.    *)
(***************************************************************************)
CONSTANTS
  Tokens,  \* identifiers of tokens; a family is named by its first token
  None     \* no token of the family is good

VARIABLES
  good,    \* the good token of each family
  issued   \* the tokens issued so far

vars == <<good, issued>>

Init ==
  /\ good = [f \in Tokens |-> None]
  /\ issued = {}

Issue(f, n) ==
  /\ n \notin issued
  /\ good' = [good EXCEPT ![f] = n]
  /\ issued' = issued \cup {n}

Begin(n) == Issue(n, n)

Replace(f, n) == good[f] # None /\ Issue(f, n)

End(F) ==
  /\ good' = [f \in Tokens |-> IF f \in F THEN None ELSE good[f]]
  /\ UNCHANGED issued

Next ==
  \/ \E n \in Tokens : Begin(n)
  \/ \E f, n \in Tokens : Replace(f, n)
  \/ \E F \in SUBSET Tokens : End(F)

Spec == Init /\ [][Next]_vars

=============================================================================
