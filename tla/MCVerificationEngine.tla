------------------------ MODULE MCVerificationEngine ------------------------
(* Instances of VerificationEngine for TLC. *)
EXTENDS VerificationEngine, TLC

CONSTANTS v1, v2, v3, q1, q2

MCChallenges == {v1, v2, v3}
TwoChallenges == {v1, v2}
MCRequests == {q1, q2}

(* Nothing tells one id or transaction from another. *)
Symmetry == Permutations(Challenges) \cup Permutations(Requests)

=============================================================================
