------------------------------ MODULE MCOutbox ------------------------------
(* Instances of Outbox for TLC. *)
EXTENDS Outbox, TLC

CONSTANTS e1, e2, w1, w2

MCEvents == {e1, e2}
MCHandled == {e1}
MCWorkers == {w1, w2}

(* The two workers run the same code. *)
WorkerSymmetry == Permutations(MCWorkers)

=============================================================================
