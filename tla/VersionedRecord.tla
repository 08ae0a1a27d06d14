--------------------------- MODULE VersionedRecord ---------------------------
(***************************************************************************)
(* A record edited under optimistic locking: a writer names the version it *)
(* has read, and wins only while that is still the record's version.  So   *)
(* of two writers that rest on one version, one at most wins.              *)
(***************************************************************************)
EXTENDS Naturals

CONSTANTS Writers, None

VARIABLES
  version,  \* of the record
  based     \* the version each writer rests on

vars == <<version, based>>

Init ==
  /\ version = 1
  /\ based = [w \in Writers |-> None]

Start(w) ==
  /\ based[w] = None
  /\ based' = [based EXCEPT ![w] = version]
  /\ UNCHANGED version

Win(w) ==
  /\ based[w] = version
  /\ version' = version + 1
  /\ based' = [based EXCEPT ![w] = None]

Lose(w) ==
  /\ based[w] # None
  /\ based' = [based EXCEPT ![w] = None]
  /\ UNCHANGED version

Next == \E w \in Writers : Start(w) \/ Win(w) \/ Lose(w)

Spec == Init /\ [][Next]_vars

=============================================================================
