---------------------------- MODULE MCInvitations ----------------------------
(* Instances of Invitations for TLC. *)
EXTENDS Invitations, TLC

CONSTANTS i1, i2, a, b, q1, q2

MCIds == {i1, i2}
MCEmails == {a, b}
MCRequests == {q1, q2}

(* Nothing tells one id, address or transaction from another. *)
Symmetry == Permutations(Ids) \cup Permutations(Emails) \cup Permutations(Requests)

=============================================================================
