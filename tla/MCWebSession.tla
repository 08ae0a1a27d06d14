---------------------------- MODULE MCWebSession ----------------------------
(* An instance of WebSession for TLC. *)
EXTENDS WebSession, TLC

CONSTANTS t1, t2

MCTabs == {t1, t2}

=============================================================================
