------------------------- MODULE OrganizationRecords -------------------------
(***************************************************************************)
(* The settings and the compliance record of an organization               *)
(* (apps/api/src/organization/settings.service.ts, compliance.service.ts). *)
(*                                                                         *)
(* An editor is shown a record with its version and sends back what it     *)
(* wants with that version as expectedVersion.  The READ COMMITTED         *)
(* transaction reads the row and checks the version, and writes on         *)
(* condition that it is still the row's: two steps.  Access, the other     *)
(* fields and the outbox rows are left out; the organization exists.       *)
(***************************************************************************)
EXTENDS Sequences, Naturals

CONSTANTS
  Editors,
  Values,      \* of the field that matters: riskLevel, brandName
  MaxEdits,    \* bound: the versions of a record
  Nothing      \* no row, no version shown, no edit

Records == {"settings", "compliance"}
Row == [value : Values, version : Nat]

ASSUME RecordsAssumption == MaxEdits \in Nat /\ Nothing \notin Row

VARIABLES
  row,    \* "OrganizationSettings", "OrganizationCompliance": value and version
  shown,  \* the version of each record each editor was shown last
  edit,   \* the transaction each editor has in flight
  trail   \* the organization.risk.changed rows of the audit trail: from and to

recordVars == <<row, shown, edit, trail>>

-----------------------------------------------------------------------------

(* findOrCreateDefaults: the settings of an organization are created when they are first *)
(* asked for, by whoever comes first; its compliance record came with it.                 *)
Found(r, value) == IF row[r] = Nothing THEN [value |-> value, version |-> 1] ELSE row[r]

(* Only the settings are ever missing. *)
Get(e, r) ==
  /\ edit[e] = Nothing
  /\ \E value \in Values :
       /\ row' = [row EXCEPT ![r] = Found(r, value)]
       /\ shown' = [shown EXCEPT ![e][r] = row'[r].version]
  /\ UNCHANGED <<edit, trail>>

(* update, to the check of expectedVersion, which refuses what is stale already. *)
BeginEdit(e, r, value) ==
  /\ edit[e] = Nothing
  /\ row[r] # Nothing /\ shown[e][r] = row[r].version
  /\ row[r].version < MaxEdits
  /\ edit' = [edit EXCEPT ![e] =
       [record |-> r, version |-> shown[e][r], from |-> row[r].value, to |-> value]]
  /\ UNCHANGED <<row, shown, trail>>

(* The rows of the audit trail: the risk level is compared with the row that was read. *)
Trailed(x) ==
  IF x.record = "compliance" /\ x.to # x.from
    THEN Append(trail, [from |-> x.from, to |-> x.to]) ELSE trail

(* Mutant: the version is not in the where clause. *)
SaveEditById(e) ==
  /\ edit[e] # Nothing
  /\ LET x == edit[e] IN
       /\ row' = [row EXCEPT ![x.record] = [value |-> x.to, version |-> @.version + 1]]
       /\ trail' = Trailed(x)
       /\ shown' \in {shown, [shown EXCEPT ![e][x.record] = row'[x.record].version]}
  /\ edit' = [edit EXCEPT ![e] = Nothing]

(* Mutant: the where clause of the settings has the organization alone. *)
SaveSettingsById(e) ==
  /\ edit[e] # Nothing
  /\ LET x == edit[e] IN
       /\ x.record = "compliance" => row[x.record].version = x.version
       /\ row' = [row EXCEPT ![x.record] = [value |-> x.to, version |-> @.version + 1]]
       /\ trail' = Trailed(x)
       /\ shown' \in {shown, [shown EXCEPT ![e][x.record] = row'[x.record].version]}
  /\ edit' = [edit EXCEPT ![e] = Nothing]

(* The response shows the editor the new version, unless it is lost on its way. *)
SaveEdit(e) ==
  /\ edit[e] # Nothing
  /\ LET x == edit[e] IN
       /\ row[x.record].version = x.version
       /\ row' = [row EXCEPT ![x.record] = [value |-> x.to, version |-> x.version + 1]]
       /\ trail' = Trailed(x)
       /\ shown' \in {shown, [shown EXCEPT ![e][x.record] = x.version + 1]}
  /\ edit' = [edit EXCEPT ![e] = Nothing]

(* Changed concurrently, or the transaction fails. *)
RefuseEdit(e) ==
  /\ edit[e] # Nothing
  /\ edit' = [edit EXCEPT ![e] = Nothing]
  /\ UNCHANGED <<row, shown, trail>>

RecordsInit ==
  /\ \E value \in Values :
       row = [r \in Records |-> IF r = "compliance" THEN [value |-> value, version |-> 1] ELSE Nothing]
  /\ shown = [e \in Editors |-> [r \in Records |-> Nothing]]
  /\ edit = [e \in Editors |-> Nothing]
  /\ trail = <<>>

RecordsNext ==
  \E e \in Editors :
    \/ \E r \in Records : Get(e, r)
    \/ \E r \in Records, value \in Values : BeginEdit(e, r, value)
    \/ SaveEdit(e)
    \/ RefuseEdit(e)

RecordsSpec == RecordsInit /\ [][RecordsNext]_recordVars

-----------------------------------------------------------------------------
(* Properties *)

(* The audit trail of the risk level tells its whole history: each change starts from    *)
(* what the one before it left, and the last one left what the record holds, although    *)
(* "from" was read before the write and other editors write in between.                  *)
RiskTrailConnects ==
  /\ \A k \in 2..Len(trail) : trail[k].from = trail[k - 1].to
  /\ trail # <<>> => trail[Len(trail)].to = row["compliance"].value

(* The version of a record, 1 before there is a row, and that on which its editors rest. *)
VersionOf(r) == IF row[r] = Nothing THEN 1 ELSE row[r].version
BasedOn(r) ==
  [e \in Editors |-> IF edit[e] # Nothing /\ edit[e].record = r THEN edit[e].version ELSE Nothing]

Settings == INSTANCE VersionedRecord WITH
  Writers <- Editors, None <- Nothing, version <- VersionOf("settings"), based <- BasedOn("settings")
Compliance == INSTANCE VersionedRecord WITH
  Writers <- Editors, None <- Nothing, version <- VersionOf("compliance"), based <- BasedOn("compliance")

(* "expectedVersion" keeps its promise for each of the two records: of the editors whose *)
(* transactions rest on one version, one at most saves, although all of them passed the  *)
(* check, edit the other record meanwhile, or find the settings created under them.      *)
ImplementsRecords == Settings!Spec /\ Compliance!Spec

=============================================================================
