----------------------------- MODULE MCSessions -----------------------------
(* Instances of Sessions for TLC. *)
EXTENDS Sessions, TLC

CONSTANTS s1, s2, s3, s4, u1, u2, r1, r2, k1

MCSessionIds == {s1, s2, s3, s4}
OneUser == {u1}
TwoUsers == {u1, u2}
MCRefreshes == {r1, r2}
MCSweeps == {k1}

(* Nothing tells one id, user or request from another. *)
Symmetry == Permutations(Sessions) \cup Permutations(Users) \cup Permutations(Refreshes)

=============================================================================
