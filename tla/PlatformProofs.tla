---------------------------- MODULE PlatformProofs ----------------------------
(***************************************************************************)
(* Proofs about the parts that share nothing with each other: the settings *)
(* and compliance records, the throttles, the worker's runtime, the roles  *)
(* and portfolios, and the lifecycle of an organization.                   *)
(***************************************************************************)
EXTENDS OrganizationLifecycle, OrganizationRecords, Portfolio, RequestThrottle, WorkerRuntime,
        SequenceTheorems, FiniteSetTheorems, TLAPS

-----------------------------------------------------------------------------
(* Settings and compliance *)

Edit == [record : Records, version : Nat, from : Values, to : Values]
Change == [from : Values, to : Values]

(* Types: the compliance record is always there, and what is edited exists. *)
RecordsType ==
  /\ row \in [Records -> Row \cup {Nothing}] /\ row["compliance"] # Nothing
  /\ edit \in [Editors -> Edit \cup {Nothing}]
  /\ trail \in Seq(Change)
  /\ \A e \in Editors : edit[e] # Nothing => row[edit[e].record] # Nothing

(* An edit rests on a version that was; while it still is, the value it read is the *)
(* record's: only then can it be saved.                                             *)
EditsKnow ==
  \A e \in Editors : edit[e] # Nothing =>
    LET r == row[edit[e].record] IN
    /\ edit[e].version <= r.version
    /\ edit[e].version = r.version => edit[e].from = r.value

RecordsInv == RecordsType /\ EditsKnow /\ RiskTrailConnects

(* One more change that starts where the trail ended, or none, keeps it connected. *)
LEMMA TrailGrows ==
  ASSUME NEW t \in Seq(Change), NEW x \in Change,
         \A k \in 2..Len(t) : t[k].from = t[k - 1].to,
         t # <<>> => t[Len(t)].to = x.from
  PROVE  LET u == Append(t, x) IN
         /\ u \in Seq(Change) /\ u # <<>> /\ u[Len(u)] = x
         /\ \A k \in 2..Len(u) : u[k].from = u[k - 1].to
<1> DEFINE u == Append(t, x)
<1>1. u \in Seq(Change) /\ Len(u) = Len(t) + 1 /\ Len(t) \in Nat /\ u[Len(u)] = x
  BY AppendProperties, LenProperties
<1>2. \A k \in 1..Len(t) : u[k] = t[k]
  BY AppendProperties
<1>3. ASSUME NEW k \in 2..Len(u) PROVE u[k].from = u[k - 1].to
  <2>1. CASE k \in 2..Len(t)
    BY <2>1, <1>1, <1>2
  <2>2. CASE k = Len(u)
    <3>1. t # <<>> /\ k - 1 = Len(t) /\ Len(t) \in 1..Len(t)
      BY <2>2, <1>1, EmptySeq
    <3>. QED BY <3>1, <2>2, <1>1, <1>2
  <2>. QED BY <2>1, <2>2, <1>1
<1>4. u # <<>>
  BY <1>1, EmptySeq
<1>. QED BY <1>1, <1>3, <1>4

(* At first there is no trail, and nothing is shown or edited. *)
LEMMA RecordsStart == RecordsInit => RecordsInv
<1> SUFFICES ASSUME RecordsInit PROVE RecordsInv
  OBVIOUS
<1>1. row["compliance"] \in Row /\ row \in [Records -> Row \cup {Nothing}]
  BY DEF RecordsInit, Row, Records
<1>2. row["compliance"] # Nothing
  BY <1>1, RecordsAssumption
<1>3. trail = <<>> /\ Len(trail) = 0 /\ trail \in Seq(Change)
  BY DEF RecordsInit
<1>. QED BY <1>1, <1>2, <1>3 DEF RecordsInit, RecordsInv, RecordsType, EditsKnow, RiskTrailConnects

(* A record is read, and created where there was none: the compliance record is there. *)
LEMMA GetKeeps ==
  ASSUME RecordsInv, NEW e \in Editors, NEW r \in Records, Get(e, r)
  PROVE  RecordsInv'
<1>1. PICK value \in Values : row' = [row EXCEPT ![r] = Found(r, value)]
  BY DEF Get
<1>2. Found(r, value) \in Row /\ Found(r, value) # Nothing
  BY RecordsAssumption DEF Found, RecordsInv, RecordsType, Row
<1>3. row' \in [Records -> Row \cup {Nothing}]
  BY <1>1, <1>2 DEF RecordsInv, RecordsType
<1>4. \A x \in Records : row[x] # Nothing => row'[x] = row[x]
  BY <1>1 DEF Found, RecordsInv, RecordsType
<1>5. UNCHANGED <<edit, trail>>
  BY DEF Get
<1>6. \A x \in Editors : edit[x] # Nothing => edit[x].record \in Records
  BY DEF RecordsInv, RecordsType, Edit
<1>7. "compliance" \in Records
  BY DEF Records
<1>8. RecordsType'
  BY <1>3, <1>4, <1>5, <1>6, <1>7 DEF RecordsInv, RecordsType
<1>9. EditsKnow'
  BY <1>4, <1>5, <1>6 DEF RecordsInv, RecordsType, EditsKnow
<1>10. RiskTrailConnects'
  BY <1>4, <1>5, <1>7 DEF RecordsInv, RecordsType, RiskTrailConnects
<1>. QED BY <1>8, <1>9, <1>10 DEF RecordsInv

(* An edit begins with the version and the value the record has. *)
LEMMA BeginEditKeeps ==
  ASSUME RecordsInv, NEW e \in Editors, NEW r \in Records, NEW value \in Values, BeginEdit(e, r, value)
  PROVE  RecordsInv'
<1> DEFINE x == [record |-> r, version |-> shown[e][r], from |-> row[r].value, to |-> value]
<1>1. edit' = [edit EXCEPT ![e] = x] /\ UNCHANGED <<row, trail>>
  BY DEF BeginEdit
<1>2. row[r] # Nothing /\ row[r] \in Row /\ shown[e][r] = row[r].version
  BY DEF BeginEdit, RecordsInv, RecordsType
<1>3. x \in Edit /\ row[r].version \in Nat
  BY <1>2 DEF Edit, Row
<1>4. RecordsType'
  BY <1>1, <1>2, <1>3 DEF RecordsInv, RecordsType
<1>5. EditsKnow'
  BY <1>1, <1>2, <1>3 DEF RecordsInv, RecordsType, EditsKnow
<1>6. RiskTrailConnects'
  BY <1>1 DEF RecordsInv, RiskTrailConnects
<1>. QED BY <1>4, <1>5, <1>6 DEF RecordsInv

(* What is saved was read in the version it replaces; no other edit rests on the new one. *)
LEMMA SaveEditKeeps ==
  ASSUME RecordsInv, NEW e \in Editors, SaveEdit(e)
  PROVE  RecordsInv'
<1> DEFINE x == edit[e]
           r == x.record
           new == [value |-> x.to, version |-> x.version + 1]
<1>1. x \in Edit /\ row[r] # Nothing /\ row[r] \in Row /\ r \in Records
  BY DEF SaveEdit, RecordsInv, RecordsType, Edit
<1>2. /\ row[r].version = x.version
      /\ row' = [row EXCEPT ![r] = new]
      /\ trail' = Trailed(x)
      /\ edit' = [edit EXCEPT ![e] = Nothing]
  BY DEF SaveEdit
<1>3. row[r].value = x.from /\ x.version \in Nat /\ row[r].version \in Nat
  BY <1>1, <1>2 DEF SaveEdit, RecordsInv, EditsKnow, Edit, Row
<1>4. new \in Row /\ new # Nothing
  BY <1>1, <1>3, RecordsAssumption DEF Row, Edit
<1>5. /\ row' \in [Records -> Row \cup {Nothing}] /\ row'[r] = new
      /\ \A s \in Records \ {r} : row'[s] = row[s]
  BY <1>1, <1>2, <1>4 DEF RecordsInv, RecordsType
<1>6. \A y \in Editors : edit'[y] # Nothing =>
        /\ edit'[y] = edit[y] /\ edit[y] \in Edit /\ edit[y].record \in Records
        /\ edit[y].version \in Nat /\ row[edit[y].record] # Nothing
  BY <1>2 DEF RecordsInv, RecordsType, Edit
<1>7. EditsKnow'
  <2> SUFFICES ASSUME NEW y \in Editors, edit'[y] # Nothing
               PROVE  /\ edit'[y].version <= row'[edit'[y].record].version
                      /\ edit'[y].version = row'[edit'[y].record].version
                           => edit'[y].from = row'[edit'[y].record].value
    BY DEF EditsKnow
  <2>1. CASE edit[y].record = r
    <3>1. edit[y].version <= x.version
      BY <2>1, <1>2, <1>6 DEF RecordsInv, EditsKnow
    <3>2. edit[y].version < row'[r].version
      BY <3>1, <1>3, <1>5, <1>6
    <3>. QED BY <3>2, <2>1, <1>3, <1>5, <1>6
  <2>2. CASE edit[y].record # r
    BY <2>2, <1>5, <1>6 DEF RecordsInv, EditsKnow
  <2>. QED BY <2>1, <2>2
<1>8. trail' \in Seq(Change) /\ RiskTrailConnects'
  <2>1. CASE r = "compliance" /\ x.to # x.from
    <3> DEFINE c == [from |-> x.from, to |-> x.to]
    <3>1. trail' = Append(trail, c) /\ c \in Change
      BY <2>1, <1>1, <1>2 DEF Trailed, Change, Edit
    <3>2. trail # <<>> => trail[Len(trail)].to = c.from
      BY <2>1, <1>3 DEF RecordsInv, RiskTrailConnects
    <3>3. /\ trail' \in Seq(Change) /\ trail'[Len(trail')] = c
          /\ \A k \in 2..Len(trail') : trail'[k].from = trail'[k - 1].to
      BY <3>1, <3>2, TrailGrows DEF RecordsInv, RecordsType, RiskTrailConnects
    <3>. QED BY <3>3, <2>1, <1>5 DEF RiskTrailConnects
  <2>2. CASE ~(r = "compliance" /\ x.to # x.from)
    <3>1. trail' = trail
      BY <2>2, <1>2 DEF Trailed
    <3>2. row'["compliance"].value = row["compliance"].value
      BY <2>2, <1>3, <1>5 DEF Records
    <3>. QED BY <3>1, <3>2 DEF RecordsInv, RecordsType, RiskTrailConnects
  <2>. QED BY <2>1, <2>2
<1>9. RecordsType'
  <2>1. edit' \in [Editors -> Edit \cup {Nothing}]
    BY <1>2 DEF RecordsInv, RecordsType
  <2>2. row'["compliance"] # Nothing
    BY <1>4, <1>5 DEF RecordsInv, RecordsType, Records
  <2>3. \A y \in Editors : edit'[y] # Nothing => row'[edit'[y].record] # Nothing
    BY <1>4, <1>5, <1>6
  <2>. QED BY <2>1, <2>2, <2>3, <1>5, <1>8 DEF RecordsType
<1>. QED BY <1>7, <1>8, <1>9 DEF RecordsInv

(* Every step of an editor keeps the invariant. *)
LEMMA RecordsStep == RecordsInv /\ [RecordsNext]_recordVars => RecordsInv'
<1> SUFFICES ASSUME RecordsInv, [RecordsNext]_recordVars PROVE RecordsInv'
  OBVIOUS
<1>1. ASSUME NEW e \in Editors, RefuseEdit(e) PROVE RecordsInv'
  BY <1>1 DEF RefuseEdit, RecordsInv, RecordsType, EditsKnow, RiskTrailConnects
<1>2. CASE UNCHANGED recordVars
  BY <1>2 DEF recordVars, RecordsInv, RecordsType, EditsKnow, RiskTrailConnects
<1>. QED BY <1>1, <1>2, GetKeeps, BeginEditKeeps, SaveEditKeeps DEF RecordsNext

(* The audit trail of the risk level is connected, for any editors and values. *)
THEOREM TrailConnects == RecordsSpec => []RiskTrailConnects
<1>1. RecordsInv => RiskTrailConnects
  BY DEF RecordsInv
<1>. QED BY <1>1, RecordsStart, RecordsStep, PTL DEF RecordsSpec

(* What a step is to one record, seen as a record under optimistic locking. *)
Locking(r) ==
  \/ VersionOf(r)' = VersionOf(r) /\ BasedOn(r)' = BasedOn(r)
  \/ \E e \in Editors :
       \/ /\ BasedOn(r)[e] = Nothing
          /\ BasedOn(r)' = [BasedOn(r) EXCEPT ![e] = VersionOf(r)]
          /\ VersionOf(r)' = VersionOf(r)
       \/ /\ BasedOn(r)[e] = VersionOf(r)
          /\ VersionOf(r)' = VersionOf(r) + 1
          /\ BasedOn(r)' = [BasedOn(r) EXCEPT ![e] = Nothing]
       \/ /\ BasedOn(r)[e] # Nothing
          /\ BasedOn(r)' = [BasedOn(r) EXCEPT ![e] = Nothing]
          /\ VersionOf(r)' = VersionOf(r)

(* A record that is created is in version 1, which is what it was in before. *)
LEMMA GetLocks ==
  ASSUME RecordsInv, NEW r \in Records, NEW e \in Editors, NEW s \in Records, Get(e, s)
  PROVE  Locking(r)
<1>1. PICK value \in Values : row' = [row EXCEPT ![s] = Found(s, value)]
  BY DEF Get
<1>2. Found(s, value) # Nothing /\ VersionOf(s) = Found(s, value).version
  BY RecordsAssumption DEF Found, VersionOf, RecordsInv, RecordsType, Row
<1>3. VersionOf(r)' = VersionOf(r)
  BY <1>1, <1>2 DEF VersionOf, RecordsInv, RecordsType
<1>4. BasedOn(r)' = BasedOn(r)
  BY DEF Get, BasedOn
<1>. QED BY <1>3, <1>4 DEF Locking

(* An edit that begins rests on the version of now. *)
LEMMA BeginLocks ==
  ASSUME RecordsInv, NEW r \in Records, NEW e \in Editors, NEW s \in Records, NEW value \in Values,
         BeginEdit(e, s, value)
  PROVE  Locking(r)
<1> DEFINE new == [record |-> s, version |-> row[s].version, from |-> row[s].value, to |-> value]
<1>1. /\ edit[e] = Nothing /\ row[s] # Nothing /\ row' = row
      /\ \A y \in Editors : edit'[y] = IF y = e THEN new ELSE edit[y]
  BY DEF BeginEdit, RecordsInv, RecordsType
<1>2. VersionOf(r)' = VersionOf(r) /\ BasedOn(r)[e] = Nothing
  BY <1>1 DEF VersionOf, BasedOn
<1>3. CASE s = r /\ new # Nothing
  <2>1. \A y \in Editors : BasedOn(r)'[y] = IF y = e THEN VersionOf(r) ELSE BasedOn(r)[y]
    BY <1>1, <1>3 DEF BasedOn, VersionOf
  <2>2. BasedOn(r)' = [BasedOn(r) EXCEPT ![e] = VersionOf(r)]
    BY <2>1 DEF BasedOn
  <2>. QED BY <1>2, <2>2 DEF Locking
<1>4. CASE ~(s = r /\ new # Nothing)
  <2>1. \A y \in Editors : BasedOn(r)'[y] = BasedOn(r)[y]
    BY <1>1, <1>4 DEF BasedOn
  <2>2. BasedOn(r)' = BasedOn(r)
    BY <2>1 DEF BasedOn
  <2>. QED BY <1>2, <2>2 DEF Locking
<1>. QED BY <1>3, <1>4

(* An edit that ends no longer rests on anything. *)
LEMMA EndLocks ==
  ASSUME RecordsInv, NEW r \in Records, NEW e \in Editors, edit' = [edit EXCEPT ![e] = Nothing]
  PROVE  BasedOn(r)' = [BasedOn(r) EXCEPT ![e] = Nothing]
<1>1. \A y \in Editors : edit'[y] = IF y = e THEN Nothing ELSE edit[y]
  BY DEF RecordsInv, RecordsType
<1>2. \A y \in Editors : BasedOn(r)'[y] = IF y = e THEN Nothing ELSE BasedOn(r)[y]
  BY <1>1 DEF BasedOn
<1>. QED BY <1>2 DEF BasedOn

(* An edit that is saved rests on the version it replaces. *)
LEMMA SaveLocks ==
  ASSUME RecordsInv, NEW r \in Records, NEW e \in Editors, SaveEdit(e)
  PROVE  Locking(r)
<1> DEFINE x == edit[e]
           new == [value |-> x.to, version |-> x.version + 1]
<1>1. x # Nothing /\ x \in Edit /\ x.record \in Records /\ row[x.record] # Nothing
  BY DEF SaveEdit, RecordsInv, RecordsType, Edit
<1>2. /\ row[x.record].version = x.version
      /\ row' = [row EXCEPT ![x.record] = new]
      /\ edit' = [edit EXCEPT ![e] = Nothing]
  BY DEF SaveEdit
<1>3. new \in Row /\ new # Nothing
  BY <1>1, RecordsAssumption DEF Row, Edit
<1>4. BasedOn(r)' = [BasedOn(r) EXCEPT ![e] = Nothing]
  BY <1>2, EndLocks
<1>5. CASE x.record = r
  <2>1. BasedOn(r)[e] = VersionOf(r) /\ VersionOf(r) = x.version
    BY <1>1, <1>2, <1>5 DEF BasedOn, VersionOf
  <2>2. row'[r] = new
    BY <1>1, <1>2, <1>5 DEF RecordsInv, RecordsType
  <2>3. VersionOf(r)' = VersionOf(r) + 1
    BY <2>1, <2>2, <1>3 DEF VersionOf
  <2>. QED BY <2>1, <2>3, <1>4 DEF Locking
<1>6. CASE x.record # r
  <2>1. row'[r] = row[r]
    BY <1>2, <1>6 DEF RecordsInv, RecordsType
  <2>2. VersionOf(r)' = VersionOf(r) /\ BasedOn(r)[e] = Nothing
    BY <2>1, <1>6 DEF VersionOf, BasedOn
  <2>3. BasedOn(r)' = BasedOn(r)
    BY <1>4, <2>2 DEF BasedOn
  <2>. QED BY <2>2, <2>3 DEF Locking
<1>. QED BY <1>5, <1>6

(* Every step is one of optimistic locking to each of the records, or none. *)
LEMMA RecordsLock ==
  ASSUME RecordsInv, [RecordsNext]_recordVars, NEW r \in Records
  PROVE  Locking(r)
<1>1. ASSUME NEW e \in Editors, RefuseEdit(e) PROVE Locking(r)
  <2>1. BasedOn(r)' = [BasedOn(r) EXCEPT ![e] = Nothing] /\ VersionOf(r)' = VersionOf(r)
    BY <1>1, EndLocks DEF RefuseEdit, VersionOf
  <2>2. CASE BasedOn(r)[e] # Nothing
    BY <2>1, <2>2 DEF Locking
  <2>3. CASE BasedOn(r)[e] = Nothing
    <3>1. BasedOn(r)' = BasedOn(r)
      BY <2>1, <2>3 DEF BasedOn
    <3>. QED BY <2>1, <3>1 DEF Locking
  <2>. QED BY <2>2, <2>3
<1>2. CASE UNCHANGED recordVars
  BY <1>2 DEF recordVars, Locking, VersionOf, BasedOn
<1>. QED BY <1>1, <1>2, GetLocks, BeginLocks, SaveLocks DEF RecordsNext

(* Both records implement optimistic locking: of two editors that rest on one version of *)
(* the settings, or of the compliance record, at most one saves.                         *)
THEOREM RecordsRefine == RecordsSpec => ImplementsRecords
<1>1. RecordsInit => Settings!Init /\ Compliance!Init
  <2> SUFFICES ASSUME RecordsInit PROVE Settings!Init /\ Compliance!Init
    OBVIOUS
  <2>1. \A r \in Records : BasedOn(r) = [e \in Editors |-> Nothing]
    BY DEF RecordsInit, BasedOn
  <2>2. \A r \in Records : VersionOf(r) = 1
    BY DEF RecordsInit, VersionOf, Records
  <2>. QED BY <2>1, <2>2 DEF Settings!Init, Compliance!Init, Records
<1>2. RecordsInv /\ [RecordsNext]_recordVars => [Settings!Next]_(Settings!vars)
  <2> SUFFICES ASSUME RecordsInv, [RecordsNext]_recordVars PROVE [Settings!Next]_(Settings!vars)
    OBVIOUS
  <2>1. Locking("settings")
    BY RecordsLock DEF Records
  <2>. QED BY <2>1
       DEF Locking, Settings!Next, Settings!Start, Settings!Win, Settings!Lose, Settings!vars
<1>3. RecordsInv /\ [RecordsNext]_recordVars => [Compliance!Next]_(Compliance!vars)
  <2> SUFFICES ASSUME RecordsInv, [RecordsNext]_recordVars PROVE [Compliance!Next]_(Compliance!vars)
    OBVIOUS
  <2>1. Locking("compliance")
    BY RecordsLock DEF Records
  <2>. QED BY <2>1
       DEF Locking, Compliance!Next, Compliance!Start, Compliance!Win, Compliance!Lose, Compliance!vars
<1>. QED
  BY <1>1, <1>2, <1>3, RecordsStart, RecordsStep, PTL
  DEF RecordsSpec, ImplementsRecords, Settings!Spec, Compliance!Spec

-----------------------------------------------------------------------------
(* The throttles *)

(* Requests that key k counted in the window it is in, and that it will let through. *)
Holding(k) == {c \in Clients : call[c] # Idle /\ k \in call[c].live /\ call[c].counts[k] <= Limit(k)}

(* How many of those the window has had or can have so far. *)
Room(k) == IF count[k] <= Limit(k) THEN count[k] ELSE Limit(k)

(* What is answered are numbers, and only a key that has counted a request holds it. *)
CallsType ==
  /\ DOMAIN call = Clients
  /\ \A c \in Clients : call[c] # Idle =>
       \E K \in SUBSET Keys :
         /\ call[c] \in [counts : [K -> Nat], live : SUBSET K]
         /\ \A k \in call[c].live : call[c].counts[k] > 0

(* A window has admitted and holds no more requests than it has room for. *)
WindowsBound ==
  /\ count \in [Keys -> Nat] /\ admitted \in [Keys -> Nat]
  /\ \A k \in Keys : IsFiniteSet(Holding(k)) /\ admitted[k] + Cardinality(Holding(k)) <= Room(k)

ThrottleInv == CallsType /\ WindowsBound

(* Limits and rooms are numbers. *)
LEMMA LimitType ==
  ASSUME NEW k \in Keys
  PROVE  Limit(k) \in Nat \ {0}
BY ThrottleAssumption DEF Limit

(* No window is open at first. *)
LEMMA ThrottleStart == ThrottleInit => ThrottleInv
<1> SUFFICES ASSUME ThrottleInit PROVE ThrottleInv
  OBVIOUS
<1>1. CallsType
  BY DEF ThrottleInit, CallsType
<1>2. ASSUME NEW k \in Keys PROVE Holding(k) = {}
  BY DEF ThrottleInit, Holding
<1>3. WindowsBound
  BY <1>2, LimitType, FS_EmptySet DEF ThrottleInit, WindowsBound, Room
<1>. QED BY <1>1, <1>3 DEF ThrottleInv

(* If no key comes to hold more than before, and its count and admissions stay, the *)
(* windows stay within their bounds.                                                *)
LEMMA HoldingLess ==
  ASSUME ThrottleInv, UNCHANGED <<count, admitted>>,
         \A k \in Keys : Holding(k)' \subseteq Holding(k)
  PROVE  WindowsBound'
<1> SUFFICES ASSUME NEW k \in Keys
             PROVE  IsFiniteSet(Holding(k)') /\ admitted[k] + Cardinality(Holding(k)') <= Room(k)
  BY DEF ThrottleInv, WindowsBound, Room
<1>1. /\ IsFiniteSet(Holding(k)') /\ Cardinality(Holding(k)') <= Cardinality(Holding(k))
  BY FS_Subset DEF ThrottleInv, WindowsBound
<1>2. Cardinality(Holding(k)') \in Nat /\ Cardinality(Holding(k)) \in Nat
  BY <1>1, FS_CardinalityType DEF ThrottleInv, WindowsBound
<1>3. Room(k) \in Nat /\ admitted[k] \in Nat /\ admitted[k] + Cardinality(Holding(k)) <= Room(k)
  BY LimitType DEF ThrottleInv, WindowsBound, Room
<1>. QED BY <1>1, <1>2, <1>3

(* A request that begins or ends, whatever ends it, leaves the others as they are. *)
LEMMA EnforceKeeps ==
  ASSUME ThrottleInv, NEW c \in Clients, NEW a \in Addresses, NEW s \in Subjects, Enforce(c, a, s)
  PROVE  ThrottleInv'
<1> DEFINE new == [counts |-> [k \in {a, s} |-> 0], live |-> {}]
<1>1. call' = [call EXCEPT ![c] = new] /\ UNCHANGED <<count, admitted>>
  BY DEF Enforce
<1>2. call'[c] = new /\ \A x \in Clients \ {c} : call'[x] = call[x]
  BY <1>1 DEF ThrottleInv, CallsType
<1>3. CallsType'
  <2>1. /\ {a, s} \subseteq Keys
        /\ new \in [counts : [{a, s} -> Nat], live : SUBSET {a, s}]
        /\ \A k \in new.live : new.counts[k] > 0
    BY DEF Keys
  <2>. QED BY <2>1, <1>1, <1>2 DEF ThrottleInv, CallsType
<1>4. \A k \in Keys : Holding(k)' \subseteq Holding(k)
  BY <1>2 DEF Holding, Limit
<1>. QED BY <1>1, <1>3, <1>4, HoldingLess DEF ThrottleInv

(* A refusal frees the places its request held. *)
LEMMA RefuseKeeps ==
  ASSUME ThrottleInv, NEW c \in Clients, Refuse(c)
  PROVE  ThrottleInv'
<1>1. call' = [call EXCEPT ![c] = Idle] /\ UNCHANGED <<count, admitted>>
  BY DEF Refuse
<1>2. call'[c] = Idle /\ \A x \in Clients \ {c} : call'[x] = call[x]
  BY <1>1 DEF ThrottleInv, CallsType
<1>3. CallsType'
  BY <1>1, <1>2 DEF ThrottleInv, CallsType, Asked
<1>4. \A k \in Keys : Holding(k)' \subseteq Holding(k)
  BY <1>2 DEF Holding, Limit
<1>. QED BY <1>1, <1>3, <1>4, HoldingLess DEF ThrottleInv

(* A key that counts one request more holds one more at most, and has room for it, or *)
(* the request is beyond its limit and not held.                                      *)
LEMMA IncrementKeeps ==
  ASSUME ThrottleInv, NEW c \in Clients, NEW k \in Keys, Increment(c, k)
  PROVE  ThrottleInv'
<1> DEFINE n == count[k] + 1
           new == [counts |-> [call[c].counts EXCEPT ![k] = n], live |-> call[c].live \cup {k}]
<1>1. /\ call[c] # Idle /\ k \in Asked(c)
      /\ count' = [count EXCEPT ![k] = n]
      /\ call' = [call EXCEPT ![c] = new]
      /\ UNCHANGED admitted
  BY DEF Increment
<1>2. count[k] \in Nat /\ n \in Nat /\ n > 0
  BY DEF ThrottleInv, WindowsBound
<1>3. call'[c] = new /\ DOMAIN call' = Clients /\ \A x \in Clients \ {c} : call'[x] = call[x]
  BY <1>1 DEF ThrottleInv, CallsType
<1>K. PICK K \in SUBSET Keys :
        /\ call[c] \in [counts : [K -> Nat], live : SUBSET K]
        /\ \A x \in call[c].live : call[c].counts[x] > 0
  BY <1>1 DEF ThrottleInv, CallsType
<1>N. /\ k \in K
      /\ new \in [counts : [K -> Nat], live : SUBSET K]
      /\ new.live = call[c].live \cup {k} /\ new.counts[k] = n
      /\ \A x \in K \ {k} : new.counts[x] = call[c].counts[x]
      /\ \A x \in new.live : new.counts[x] > 0
  BY <1>1, <1>2, <1>K DEF Asked
<1>4. CallsType'
  BY <1>3, <1>N DEF ThrottleInv, CallsType
<1>5. ASSUME NEW j \in Keys \ {k} PROVE Holding(j)' \subseteq Holding(j)
  <2>1. \A x \in Clients \ {c} : x \in Holding(j)' <=> x \in Holding(j)
    BY <1>3 DEF Holding, Limit
  <2>2. j \in new.live => j \in K /\ new.counts[j] = call[c].counts[j]
    BY <1>K, <1>N
  <2>3. c \in Holding(j)' => c \in Holding(j)
    BY <2>2, <1>1, <1>3, <1>N DEF Holding, Limit
  <2>. QED BY <2>1, <2>3 DEF Holding
<1>6. Holding(k)' \subseteq Holding(k) \cup {c}
  BY <1>3 DEF Holding, Limit
<1>7. n > Limit(k) => Holding(k)' \subseteq Holding(k)
  BY <1>2, <1>3, <1>N, LimitType DEF Holding, Limit
<1>8. IsFiniteSet(Holding(k)) /\ Cardinality(Holding(k)) \in Nat /\ admitted[k] \in Nat
      /\ admitted[k] + Cardinality(Holding(k)) <= Room(k)
  BY FS_CardinalityType DEF ThrottleInv, WindowsBound
<1>9. /\ IsFiniteSet(Holding(k)') /\ Cardinality(Holding(k)') \in Nat
      /\ Cardinality(Holding(k)') <= Cardinality(Holding(k)) + 1
  <2> DEFINE H == Holding(k)
  <2>0. /\ IsFiniteSet(H \cup {c})
        /\ Cardinality(H \cup {c}) = IF c \in H THEN Cardinality(H) ELSE Cardinality(H) + 1
    <3> HIDE DEF H
    <3>. QED BY <1>8, FS_AddElement DEF H
  <2>1. /\ IsFiniteSet(Holding(k) \cup {c})
        /\ Cardinality(Holding(k) \cup {c}) <= Cardinality(Holding(k)) + 1
        /\ Cardinality(Holding(k) \cup {c}) \in Nat
    BY <1>8, <2>0
  <2>2. /\ IsFiniteSet(Holding(k)')
        /\ Cardinality(Holding(k)') <= Cardinality(Holding(k) \cup {c})
    BY <2>1, <1>6, FS_Subset
  <2>3. Cardinality(Holding(k)') \in Nat
    BY <2>2, FS_CardinalityType
  <2>. QED BY <2>1, <2>2, <2>3, <1>8
<1>10. n > Limit(k) => Cardinality(Holding(k)') <= Cardinality(Holding(k))
  BY <1>7, <1>8, FS_Subset
<1>11. admitted[k] + Cardinality(Holding(k)') <= Room(k)'
  <2>1. count'[k] = n /\ Limit(k) \in Nat
    BY <1>1, LimitType DEF ThrottleInv, WindowsBound
  <2>2. Room(k)' = IF n <= Limit(k) THEN n ELSE Limit(k)
    BY <2>1 DEF Room, Limit
  <2>. QED BY <2>1, <2>2, <1>2, <1>8, <1>9, <1>10 DEF Room
<1>12. count' \in [Keys -> Nat] /\ \A j \in Keys \ {k} : Room(j)' = Room(j)
  BY <1>1, <1>2 DEF ThrottleInv, WindowsBound, Room, Limit
<1>13. WindowsBound'
  <2>1. ASSUME NEW j \in Keys \ {k}
        PROVE  IsFiniteSet(Holding(j)') /\ admitted[j] + Cardinality(Holding(j)') <= Room(j)'
    <3>1. /\ IsFiniteSet(Holding(j)) /\ Cardinality(Holding(j)) \in Nat /\ admitted[j] \in Nat
          /\ admitted[j] + Cardinality(Holding(j)) <= Room(j)
      BY FS_CardinalityType DEF ThrottleInv, WindowsBound
    <3>2. IsFiniteSet(Holding(j)') /\ Cardinality(Holding(j)') <= Cardinality(Holding(j))
      BY <3>1, <1>5, FS_Subset
    <3>3. Cardinality(Holding(j)') \in Nat /\ Room(j) \in Nat
      BY <3>2, FS_CardinalityType, LimitType DEF ThrottleInv, WindowsBound, Room
    <3>. QED BY <3>1, <3>2, <3>3, <1>12
  <2>. QED BY <2>1, <1>1, <1>9, <1>11, <1>12 DEF ThrottleInv, WindowsBound
<1>. QED BY <1>4, <1>13 DEF ThrottleInv

(* What a key admits is what it holds. *)
LEMMA AdmitKeeps ==
  ASSUME ThrottleInv, NEW c \in Clients, Admit(c)
  PROVE  ThrottleInv'
<1>1. /\ call[c] # Idle /\ \A k \in Asked(c) : call[c].counts[k] <= Limit(k)
      /\ admitted' = [k \in Keys |-> IF k \in call[c].live THEN admitted[k] + 1 ELSE admitted[k]]
      /\ call' = [call EXCEPT ![c] = Idle]
      /\ UNCHANGED count
  BY DEF Admit, Counted, Within
<1>2. call'[c] = Idle /\ \A x \in Clients \ {c} : call'[x] = call[x]
  BY <1>1 DEF ThrottleInv, CallsType
<1>3. CallsType'
  BY <1>1, <1>2 DEF ThrottleInv, CallsType, Asked
<1>4. admitted' \in [Keys -> Nat]
  BY <1>1 DEF ThrottleInv, WindowsBound
<1>5. ASSUME NEW k \in Keys
      PROVE  IsFiniteSet(Holding(k)') /\ admitted'[k] + Cardinality(Holding(k)') <= Room(k)'
  <2>1. Holding(k)' = Holding(k) \ {c} /\ Room(k)' = Room(k)
    BY <1>1, <1>2 DEF Holding, Room, Limit
  <2>2. /\ IsFiniteSet(Holding(k)) /\ Cardinality(Holding(k)) \in Nat /\ admitted[k] \in Nat
        /\ admitted[k] + Cardinality(Holding(k)) <= Room(k)
    BY FS_CardinalityType DEF ThrottleInv, WindowsBound
  <2>3. Room(k) \in Nat
    BY LimitType DEF ThrottleInv, WindowsBound, Room
  <2>4. /\ IsFiniteSet(Holding(k) \ {c})
        /\ Cardinality(Holding(k) \ {c}) =
             IF c \in Holding(k) THEN Cardinality(Holding(k)) - 1 ELSE Cardinality(Holding(k))
    BY <2>2, FS_RemoveElement
  <2>5. k \in call[c].live => c \in Holding(k)
    BY <1>1 DEF ThrottleInv, CallsType, Asked, Holding
  <2>6. c \in Holding(k) => k \in call[c].live
    BY DEF Holding
  <2>7. admitted'[k] = IF k \in call[c].live THEN admitted[k] + 1 ELSE admitted[k]
    BY <1>1
  <2>. QED BY <2>1, <2>2, <2>3, <2>4, <2>5, <2>6, <2>7
<1>6. WindowsBound'
  BY <1>1, <1>4, <1>5 DEF ThrottleInv, WindowsBound
<1>. QED BY <1>3, <1>6 DEF ThrottleInv

(* A new window of a key holds nothing yet; the other keys go on. *)
LEMMA ExpireKeeps ==
  ASSUME ThrottleInv, NEW k \in Keys, Expire(k)
  PROVE  ThrottleInv'
<1>1. /\ count' = [count EXCEPT ![k] = 0] /\ admitted' = [admitted EXCEPT ![k] = 0]
      /\ call' = [c \in Clients |->
           IF call[c] = Idle THEN Idle ELSE [counts |-> call[c].counts, live |-> call[c].live \ {k}]]
  BY DEF Expire
<1>2. \A c \in Clients : call'[c] # Idle =>
        /\ call[c] # Idle
        /\ call'[c].counts = call[c].counts /\ call'[c].live = call[c].live \ {k}
  BY <1>1
<1>3. CallsType'
  BY <1>1, <1>2 DEF ThrottleInv, CallsType, Asked
<1>4. Holding(k)' = {}
  <2> SUFFICES ASSUME NEW c \in Holding(k)' PROVE FALSE
    OBVIOUS
  <2>1. c \in Clients /\ call'[c] # Idle /\ k \in call'[c].live
    BY DEF Holding
  <2>. QED BY <2>1, <1>2
<1>5. \A j \in Keys : Holding(j)' \subseteq Holding(j)
  BY <1>2 DEF Holding, Limit
<1>6. count' \in [Keys -> Nat] /\ admitted' \in [Keys -> Nat]
  BY <1>1 DEF ThrottleInv, WindowsBound
<1>7. ASSUME NEW j \in Keys
      PROVE  IsFiniteSet(Holding(j)') /\ admitted'[j] + Cardinality(Holding(j)') <= Room(j)'
  <2>1. CASE j = k
    <3>1. admitted'[k] = 0 /\ count'[k] = 0
      BY <1>1 DEF ThrottleInv, WindowsBound
    <3>2. Room(k)' = 0
      BY <3>1, LimitType DEF Room, Limit
    <3>. QED BY <2>1, <3>1, <3>2, <1>4, FS_EmptySet
  <2>2. CASE j # k
    <3>1. admitted'[j] = admitted[j] /\ Room(j)' = Room(j)
      BY <2>2, <1>1 DEF ThrottleInv, WindowsBound, Room, Limit
    <3>2. /\ IsFiniteSet(Holding(j)) /\ Cardinality(Holding(j)) \in Nat /\ admitted[j] \in Nat
          /\ admitted[j] + Cardinality(Holding(j)) <= Room(j)
      BY FS_CardinalityType DEF ThrottleInv, WindowsBound
    <3>3. IsFiniteSet(Holding(j)') /\ Cardinality(Holding(j)') <= Cardinality(Holding(j))
      BY <3>2, <1>5, FS_Subset
    <3>4. Cardinality(Holding(j)') \in Nat /\ Room(j) \in Nat
      BY <3>3, FS_CardinalityType, LimitType DEF ThrottleInv, WindowsBound, Room
    <3>. QED BY <3>1, <3>2, <3>3, <3>4
  <2>. QED BY <2>1, <2>2
<1>8. WindowsBound'
  BY <1>6, <1>7 DEF WindowsBound
<1>. QED BY <1>3, <1>8 DEF ThrottleInv

(* Every step of a request, and the end of a window, keeps the invariant. *)
LEMMA ThrottleStep == ThrottleInv /\ [ThrottleNext]_throttleVars => ThrottleInv'
<1> SUFFICES ASSUME ThrottleInv, [ThrottleNext]_throttleVars PROVE ThrottleInv'
  OBVIOUS
<1>1. CASE UNCHANGED throttleVars
  BY <1>1 DEF throttleVars, ThrottleInv, CallsType, Asked, WindowsBound, Holding, Room, Limit
<1>. QED
  BY <1>1, EnforceKeeps, IncrementKeeps, AdmitKeeps, RefuseKeeps, ExpireKeeps DEF ThrottleNext

(* Every address and subject stays within its limit in each window, for any limits and *)
(* any number of requests.                                                             *)
THEOREM WindowsLimited == ThrottleSpec => []WindowLimit
<1>1. ASSUME ThrottleInv PROVE WindowLimit
  <2> SUFFICES ASSUME NEW k \in Keys PROVE admitted[k] <= Limit(k)
    BY DEF WindowLimit
  <2>1. /\ Cardinality(Holding(k)) \in Nat /\ admitted[k] \in Nat
        /\ admitted[k] + Cardinality(Holding(k)) <= Room(k)
    BY <1>1, FS_CardinalityType DEF ThrottleInv, WindowsBound
  <2>2. Room(k) <= Limit(k) /\ Room(k) \in Nat /\ Limit(k) \in Nat
    BY <1>1, LimitType DEF ThrottleInv, WindowsBound, Room
  <2>. QED BY <2>1, <2>2
<1>. QED BY <1>1, ThrottleStart, ThrottleStep, PTL DEF ThrottleSpec

-----------------------------------------------------------------------------
(* The worker's runtime *)

(* Once stop() was called, the runtime is not running and does not get to listening, *)
(* unless start() was past Redis when the signal came.                               *)
QuitQuietly == Quit => signalled \in {"redis", "listen"} \/ (~running /\ starting # "listen")

(* Every step of the worker keeps the invariant. *)
LEMMA WorkerStep == QuitQuietly /\ [WorkerNext]_workerVars => QuitQuietly'
<1> SUFFICES ASSUME QuitQuietly, [WorkerNext]_workerVars PROVE QuitQuietly'
  OBVIOUS
<1> USE DEF QuitQuietly, Quit, Alive, Stopped, Off
<1>1. CASE StartupFails
  BY <1>1 DEF StartupFails
<1>2. CASE DatabaseProbed
  BY <1>2 DEF DatabaseProbed
<1>3. CASE RedisProbed
  BY <1>3 DEF RedisProbed
<1>4. CASE Listening
  BY <1>4 DEF Listening
<1>5. CASE Tick \/ PollEnds
  BY <1>5 DEF Tick, PollEnds
<1>6. CASE AskHealth \/ AnswerHealth
  BY <1>6 DEF AskHealth, AnswerHealth
<1>7. CASE Stop
  BY <1>7 DEF Stop
<1>8. CASE Exit
  BY <1>8 DEF Exit
<1>9. ASSUME NEW d \in Dependencies, Turn(d) PROVE QuitQuietly'
  BY <1>9 DEF Turn
<1>10. ASSUME NEW x \in {"server"} \cup Dependencies, Closed(x) PROVE QuitQuietly'
  BY <1>10 DEF Closed
<1>11. CASE UNCHANGED workerVars
  BY <1>11 DEF workerVars
<1>. QED
  BY <1>1, <1>2, <1>3, <1>4, <1>5, <1>6, <1>7, <1>8, <1>9, <1>10, <1>11 DEF WorkerNext

(* No poll begins after the signal, with the one exception. *)
THEOREM NoLatePoll == WorkerSpec => NoPollAfterStop
<1>1. WorkerInit => QuitQuietly
  BY DEF WorkerInit, QuitQuietly, Quit, Stopped
<1>2. ASSUME QuitQuietly, [WorkerNext]_workerVars
      PROVE  ~polling /\ polling' /\ Stopped => signalled \in {"redis", "listen"}
  <2> SUFFICES ASSUME ~polling, polling', Stopped PROVE signalled \in {"redis", "listen"}
    OBVIOUS
  <2>1. Listening \/ Tick
    BY <1>2 DEF WorkerNext, StartupFails, DatabaseProbed, RedisProbed, PollEnds, AskHealth,
      AnswerHealth, Stop, Exit, Turn, Closed, workerVars
  <2>. QED BY <2>1, <1>2 DEF Listening, Tick, QuitQuietly, Quit
<1>3. QuitQuietly /\ [WorkerNext]_workerVars
        => [~polling /\ polling' /\ Stopped => signalled \in {"redis", "listen"}]_workerVars
  BY <1>2
<1>. QED BY <1>1, <1>3, WorkerStep, PTL DEF WorkerSpec, NoPollAfterStop

-----------------------------------------------------------------------------
(* Roles and portfolios *)

(* What a request asks for tells which operation it is of. *)
LEMMA AskOps ==
  ASSUME NEW ask \in Asks
  PROVE  /\ ask \in RoleAsks <=> ask.op \in {"create", "update", "delete", "permit", "assign", "remove"}
         /\ ask \in ReplaceAsks <=> ask.op = "replace"
         /\ ask \in PropertyAsks <=> ask.op \in {"createProperty", "archive", "restore", "touch"}
         /\ ask.op \in {"create", "update", "delete", "permit"} => ask.role \in Roles
         /\ ask.op \in {"create", "update"} => ask.default \in BOOLEAN
         /\ ask.op = "permit" => ask.permissions \subseteq Permissions
         /\ ask.op \in {"assign", "remove"} => ask.role \in Roles \cup {System} /\ ask.member \in Members
         /\ ask.op = "replace" => ask.member \in Members /\ ask.properties \subseteq Properties
         /\ ask \in PropertyAsks => ask.property \in Properties
<1>1. ask \in RoleAsks \cup ReplaceAsks \cup PropertyAsks
  BY AskAssumption DEF AllAsks
<1>. QED BY <1>1 DEF RoleAsks, ReplaceAsks, PropertyAsks

(* Types of the tables a request writes, and of the requests. *)
TablesType ==
  /\ role \in [Roles -> Role \cup {Absent}]
  /\ holds \subseteq Members \X (Roles \cup {System})
  /\ assigned \subseteq Members \X Properties
  /\ property \in [Properties -> PropertyStatuses]
  /\ inflight \in [Callers -> InFlight \cup {Absent}]

(* Only live roles count, so what the code computes is among a member's rights. *)
LEMMA CodesAreRights ==
  ASSUME TablesType, NEW m \in Members
  PROVE  PermissionCodes(m) \subseteq Rights(m)
<1> SUFFICES ASSUME NEW x \in PermissionCodes(m) PROVE x \in Rights(m)
  OBVIOUS
<1> DEFINE Worth(r) == Permissions \cap (IF r = System THEN Permissions
                                         ELSE IF role[r] = Absent \/ role[r].deleted THEN {}
                                         ELSE role[r].permissions)
           Held == {y \in Roles \cup {System} : <<m, y>> \in holds}
<1>1. Rights(m) = UNION {Worth(r) : r \in Held}
  BY DEF Rights
<1>2. CASE x \in (IF <<m, System>> \in holds THEN Permissions ELSE {})
  <2>1. System \in Held /\ x \in Worth(System)
    BY <1>2
  <2>. QED BY <2>1, <1>1
<1>3. CASE x \in UNION {role[r].permissions : r \in {y \in Roles : <<m, y>> \in holds /\ LiveRole(y)}}
  <2>1. PICK r \in Roles : <<m, r>> \in holds /\ LiveRole(r) /\ x \in role[r].permissions
    BY <1>3
  <2>2. role[r] \in Role /\ r # System
    BY <2>1, AskAssumption DEF TablesType, LiveRole
  <2>3. r \in Held /\ x \in Worth(r)
    BY <2>1, <2>2 DEF LiveRole, Role
  <2>. QED BY <2>3, <1>1
<1>. QED BY <1>2, <1>3 DEF PermissionCodes

(* A portfolio is within what its member is assigned or owns. *)
LEMMA PortfolioReached ==
  ASSUME NEW m \in Members
  PROVE  Portfolio(m) \subseteq Reach(m)
BY DEF Portfolio, Reach

-----------------------------------------------------------------------------
(* Types are kept *)

(* What earlier requests left is typed. *)
LEMMA TablesStart == PortfolioInit => TablesType
BY PriorAssumption DEF PortfolioInit, TablesType

(* A request that begins is typed. *)
LEMMA BeginType ==
  ASSUME TablesType, NEW q \in Callers, NEW m \in Members, NEW ask \in Asks,
         NEW phase \in {"checked", "narrow", "scoped", "ready"},
         NEW found \in SUBSET (Permissions \cup Roles \cup Properties), NEW wide \in BOOLEAN,
         Begin(q, m, ask, phase, found, wide)
  PROVE  inflight' \in [Callers -> InFlight \cup {Absent}]
BY DEF Begin, TablesType, InFlight

(* A request that reads on is typed. *)
LEMMA ContinueType ==
  ASSUME TablesType, NEW q \in Callers, inflight[q] # Absent,
         NEW phase \in {"scoped", "ready"},
         NEW found \in SUBSET (Permissions \cup Roles \cup Properties),
         Continue(q, phase, found)
  PROVE  inflight' \in [Callers -> InFlight \cup {Absent}]
BY DEF Continue, TablesType, InFlight

(* A request that ends leaves its place empty. *)
LEMMA EndType ==
  ASSUME TablesType, NEW q \in Callers, End(q)
  PROVE  inflight' \in [Callers -> InFlight \cup {Absent}]
BY DEF End, TablesType

-----------------------------------------------------------------------------
(* Roles *)

(* The roles a transaction found are there; roles stay. *)
RolesFound(q) ==
  /\ \A op \in {"update", "delete", "permit"} : Ready(q, op) => role[inflight[q].ask.role] # Absent
  /\ \A op \in {"create", "update"} : Ready(q, op) =>
       \A r \in inflight[q].found : r \in Roles /\ role[r] # Absent
RolesKnown == \A q \in Callers : RolesFound(q)

Defaults(rows) == {r \in Roles : rows[r] # Absent /\ ~rows[r].deleted /\ rows[r].default}

(* Only replacements wait for their transaction, and only they and requests on properties *)
(* read on.                                                                               *)
KindsKnown ==
  \A q \in Callers :
    /\ Phase(q, "checked") => inflight[q].ask.op = "replace"
    /\ Phase(q, "narrow") \/ Phase(q, "scoped") => inflight[q].ask \in PropertyAsks

RolesInv == TablesType /\ RolesKnown /\ KindsKnown /\ OneDefaultRole

(* What the index allows is at most one default. *)
LEMMA IndexAllowsOne ==
  ASSUME NEW rows, DefaultAllowed(rows)
  PROVE  \A r, x \in Defaults(rows) : r = x
<1> SUFFICES ASSUME NEW r \in Defaults(rows), NEW x \in Defaults(rows), r # x
             PROVE  FALSE
  OBVIOUS
<1> DEFINE D == Defaults(rows)
<1>1. IsFiniteSet(D) /\ Cardinality(D) \in Nat
  BY AskAssumption, FS_Subset, FS_CardinalityType DEF Defaults
<1>2. Cardinality(D) <= 1
  BY DEF DefaultAllowed, Defaults
<1>3. {r} \in SUBSET D /\ {r} # D /\ IsFiniteSet({r}) /\ Cardinality({r}) = 1
  BY FS_Singleton
<1>4. Cardinality({r}) <= Cardinality(D) /\ (Cardinality(D) = Cardinality({r}) => D = {r})
  BY <1>1, <1>3, FS_Subset
<1>. QED BY <1>1, <1>2, <1>3, <1>4

(* The property, by the set of defaults. *)
LEMMA OneDefaultIsOne == OneDefaultRole <=> \A r, x \in Defaults(role) : r = x
BY DEF OneDefaultRole, LiveRole, Defaults

(* What a step may do to the roles: they stay, and no default is added that the index *)
(* does not allow.                                                                     *)
RolesOnward ==
  /\ role' \in [Roles -> Role \cup {Absent}]
  /\ \A r \in Roles : role[r] # Absent => role'[r] # Absent
  /\ Defaults(role') \subseteq Defaults(role) \/ DefaultAllowed(role')

(* A step that leaves the roles alone goes onward. *)
LEMMA RolesAsBefore ==
  ASSUME TablesType, UNCHANGED role
  PROVE  RolesOnward
BY DEF TablesType, RolesOnward

(* Saving a row with its default is allowed by the index, or changes nothing. *)
LEMMA SaveDefaultOnward ==
  ASSUME RolesInv, NEW q \in Callers, NEW saved \in Role, Ready(q, "create") \/ Ready(q, "update"),
         SaveDefault(q, saved)
  PROVE  RolesOnward
<1> DEFINE r == inflight[q].ask.role
           found == inflight[q].found
           rows == [Cleared(found) EXCEPT ![r] = saved]
<1>1. role' = IF DefaultAllowed(rows) THEN rows ELSE role
  BY DEF SaveDefault
<1>2. \A x \in Roles : x \in found => role[x] \in Role
  BY DEF RolesInv, RolesKnown, RolesFound, TablesType
<1>3. Cleared(found) \in [Roles -> Role \cup {Absent}]
  BY <1>2 DEF Cleared, RolesInv, TablesType, Role
<1>4. \A x \in Roles : role[x] # Absent => Cleared(found)[x] # Absent
  BY <1>2, PriorAssumption DEF Cleared, Role
<1>5. rows \in [Roles -> Role \cup {Absent}] /\ \A x \in Roles : role[x] # Absent => rows[x] # Absent
  BY <1>3, <1>4, PriorAssumption
<1>6. CASE DefaultAllowed(rows)
  BY <1>1, <1>5, <1>6 DEF RolesOnward
<1>7. CASE ~DefaultAllowed(rows)
  BY <1>1, <1>7, RolesAsBefore DEF RolesInv
<1>. QED BY <1>6, <1>7

(* Creating a role. *)
LEMMA CreateRoleOnward ==
  ASSUME RolesInv, NEW q \in Callers, CreateRole(q)
  PROVE  RolesOnward
<1>1. inflight[q].ask \in Asks /\ inflight[q].ask.op = "create"
  BY DEF CreateRole, Ready, Phase, RolesInv, TablesType, InFlight
<1>2. [permissions |-> {}, default |-> inflight[q].ask.default, deleted |-> FALSE] \in Role
  BY <1>1, AskOps DEF Role
<1>. QED BY <1>2, SaveDefaultOnward DEF CreateRole

(* Updating a role. *)
LEMMA UpdateRoleOnward ==
  ASSUME RolesInv, NEW q \in Callers, UpdateRole(q)
  PROVE  RolesOnward
<1> DEFINE ask == inflight[q].ask
<1>1. ask \in Asks /\ ask.op = "update" /\ Ready(q, "update")
  BY DEF UpdateRole, Ready, Phase, RolesInv, TablesType, InFlight
<1>2. ask.role \in Roles /\ role[ask.role] # Absent /\ ask.default \in BOOLEAN
  BY <1>1, AskOps DEF RolesInv, RolesKnown, RolesFound
<1>3. [role[ask.role] EXCEPT !.default = ask.default] \in Role
  BY <1>2 DEF RolesInv, TablesType, Role
<1>. QED BY <1>1, <1>3, SaveDefaultOnward DEF UpdateRole

(* A deleted role is no default. *)
LEMMA DeleteRoleOnward ==
  ASSUME RolesInv, NEW q \in Callers, DeleteRole(q)
  PROVE  RolesOnward
<1> DEFINE r == inflight[q].ask.role
<1>1. inflight[q].ask \in Asks /\ inflight[q].ask.op = "delete" /\ Ready(q, "delete")
  BY DEF DeleteRole, Ready, Phase, RolesInv, TablesType, InFlight
<1>2. r \in Roles /\ role[r] \in Role
  BY <1>1, AskOps DEF RolesInv, RolesKnown, RolesFound, TablesType
<1> DEFINE new == [role[r] EXCEPT !.deleted = TRUE, !.default = FALSE]
<1>3. new \in Role /\ new.deleted /\ new # Absent
  BY <1>2, PriorAssumption DEF Role
<1>4. role' = [role EXCEPT ![r] = new]
  BY DEF DeleteRole
<1>5. /\ role' \in [Roles -> Role \cup {Absent}] /\ role'[r] = new
      /\ \A x \in Roles \ {r} : role'[x] = role[x]
  BY <1>2, <1>3, <1>4 DEF RolesInv, TablesType
<1>. QED BY <1>3, <1>5 DEF RolesOnward, Defaults

(* Permissions do not touch the defaults. *)
LEMMA SetPermissionsOnward ==
  ASSUME RolesInv, NEW q \in Callers, SetPermissions(q)
  PROVE  RolesOnward
<1> DEFINE ask == inflight[q].ask
           r == ask.role
           current == inflight[q].found
           new == [role[r] EXCEPT !.permissions =
                     (@ \cup (ask.permissions \ current)) \ (IF ask.replace THEN current \ ask.permissions ELSE {})]
<1>1. ask \in Asks /\ ask.op = "permit" /\ Ready(q, "permit")
  BY DEF SetPermissions, Ready, Phase, RolesInv, TablesType, InFlight
<1>2. r \in Roles /\ role[r] \in Role /\ ask.permissions \subseteq Permissions
  BY <1>1, AskOps DEF RolesInv, RolesKnown, RolesFound, TablesType
<1>3. new \in Role /\ new.deleted = role[r].deleted /\ new.default = role[r].default /\ new # Absent
  BY <1>2, PriorAssumption DEF Role
<1>4. role' = [role EXCEPT ![r] = new]
  BY DEF SetPermissions
<1>5. /\ role' \in [Roles -> Role \cup {Absent}] /\ role'[r] = new
      /\ \A x \in Roles \ {r} : role'[x] = role[x]
  BY <1>2, <1>3, <1>4 DEF RolesInv, TablesType
<1>6. role[r] # Absent
  BY <1>2, PriorAssumption
<1>. QED BY <1>3, <1>5, <1>6 DEF RolesOnward, Defaults

(* Every step takes the roles onward. *)
LEMMA RolesStep ==
  ASSUME RolesInv, NEW q \in Callers, PortfolioStep(q)
  PROVE  RolesOnward
<1>1. CASE CreateRole(q) \/ UpdateRole(q) \/ DeleteRole(q) \/ SetPermissions(q)
  BY <1>1, CreateRoleOnward, UpdateRoleOnward, DeleteRoleOnward, SetPermissionsOnward
<1>2. CASE ~(CreateRole(q) \/ UpdateRole(q) \/ DeleteRole(q) \/ SetPermissions(q))
  <2>1. UNCHANGED role
    BY <1>2 DEF PortfolioStep, BeginRole, BeginReplace, BeginScope, AssignRole, RevokeOthers, Replace,
      ReadPortfolio, AssertTarget, CreateProperty, ArchiveOrRestore, Finish
  <2>. QED BY <2>1, RolesAsBefore DEF RolesInv
<1>. QED BY <1>1, <1>2

-----------------------------------------------------------------------------
(* Requests *)

(* What has been found so far is of the right kind, by the operation of the request. *)
LEMMA BeginRoleFound ==
  ASSUME RolesInv, NEW q \in Callers, NEW m \in Members, NEW ask \in Asks, BeginRole(q, m, ask)
  PROVE  \E found \in SUBSET (Permissions \cup Roles) :
           /\ Begin(q, m, ask, "ready", found, FALSE)
           /\ ask.op \in {"create", "update"} => \A r \in found : r \in Roles /\ role[r] # Absent
           /\ ask.op \in {"update", "delete", "permit"} => ask.role \in Roles /\ role[ask.role] # Absent
<1> DEFINE found == CASE ask.op \in {"create", "update"} -> IF ask.default THEN OtherDefaults(ask.role) ELSE {}
                      [] ask.op = "permit" -> role[ask.role].permissions
                      [] OTHER -> {}
<1>1. Begin(q, m, ask, "ready", found, FALSE) /\ ask \in RoleAsks
  BY DEF BeginRole
<1>2. ask.op \in {"update", "delete", "permit"} => ask.role \in Roles /\ role[ask.role] # Absent
  <2>1. ask.op \in {"update", "delete", "permit"} => LiveRole(ask.role)
    BY DEF BeginRole
  <2>. QED BY <2>1, AskOps DEF LiveRole
<1>3. CASE ask.op \in {"create", "update"}
  <2>1. found \subseteq OtherDefaults(ask.role)
    BY <1>3
  <2>2. \A r \in found : r \in Roles /\ role[r] # Absent
    BY <2>1 DEF OtherDefaults, LiveRole
  <2>. QED BY <1>1, <1>2, <2>2
<1>4. CASE ask.op = "permit"
  <2>1. found = role[ask.role].permissions /\ role[ask.role] \in Role
    BY <1>2, <1>4 DEF RolesInv, TablesType
  <2>2. found \subseteq Permissions
    BY <2>1 DEF Role
  <2>. QED BY <1>1, <1>2, <1>4, <2>2
<1>5. CASE ask.op \notin {"create", "update", "permit"}
  <2>1. found = {}
    BY <1>5
  <2>. QED BY <1>1, <1>2, <1>5, <2>1
<1>. QED BY <1>3, <1>4, <1>5

(* A step changes the request it belongs to, and keeps its type. *)
FlightType == inflight' \in [Callers -> InFlight \cup {Absent}]
OthersStay(q) == \A p \in Callers \ {q} : inflight'[p] = inflight[p]

(* A request that begins, by what is in flight then. *)
LEMMA BeginFlies ==
  ASSUME TablesType, NEW q \in Callers, NEW m \in Members, NEW ask \in Asks,
         NEW phase \in {"checked", "narrow", "scoped", "ready"},
         NEW found \in SUBSET (Permissions \cup Roles \cup Properties), NEW wide \in BOOLEAN,
         Begin(q, m, ask, phase, found, wide)
  PROVE  /\ FlightType /\ OthersStay(q)
         /\ inflight'[q] = [actor |-> m, ask |-> ask, phase |-> phase, found |-> found, wide |-> wide]
<1>1. inflight' = [inflight EXCEPT ![q] =
       [actor |-> m, ask |-> ask, phase |-> phase, found |-> found, wide |-> wide]]
  BY DEF Begin
<1>. QED BY <1>1, BeginType DEF TablesType, FlightType, OthersStay

(* A request that reads on keeps its actor and what it asks for. *)
LEMMA ContinueFlies ==
  ASSUME TablesType, NEW q \in Callers, inflight[q] # Absent,
         NEW phase \in {"scoped", "ready"},
         NEW found \in SUBSET (Permissions \cup Roles \cup Properties),
         Continue(q, phase, found)
  PROVE  /\ FlightType /\ OthersStay(q)
         /\ inflight'[q].actor = inflight[q].actor /\ inflight'[q].ask = inflight[q].ask
         /\ inflight'[q].wide = inflight[q].wide
         /\ inflight'[q].phase = phase /\ inflight'[q].found = found
<1>1. inflight' = [inflight EXCEPT ![q] = [@ EXCEPT !.phase = phase, !.found = found]]
  BY DEF Continue
<1>2. inflight[q] \in InFlight
  BY DEF TablesType
<1> DEFINE new == [inflight[q] EXCEPT !.phase = phase, !.found = found]
<1>3. /\ new.actor = inflight[q].actor /\ new.ask = inflight[q].ask /\ new.wide = inflight[q].wide
      /\ new.phase = phase /\ new.found = found
  BY <1>2 DEF InFlight
<1>. QED BY <1>1, <1>3, ContinueType DEF TablesType, FlightType, OthersStay

(* A request that ends is gone; the others go on. *)
LEMMA EndFlies ==
  ASSUME TablesType, NEW q \in Callers, End(q)
  PROVE  FlightType /\ OthersStay(q) /\ inflight'[q] = Absent
<1>1. inflight' = [inflight EXCEPT ![q] = Absent]
  BY DEF End
<1>. QED BY <1>1, EndType DEF TablesType, FlightType, OthersStay

(* The steps of a request, by what they make of it: it begins, reads on, or ends. *)
Begins(q) ==
  \E m \in Members, ask \in Asks :
    BeginRole(q, m, ask) \/ BeginReplace(q, m, ask) \/ BeginScope(q, m, ask)
ReadsOn(q) == RevokeOthers(q) \/ ReadPortfolio(q) \/ AssertTarget(q)
Ends(q) ==
  \/ CreateRole(q) \/ UpdateRole(q) \/ DeleteRole(q) \/ SetPermissions(q) \/ AssignRole(q)
  \/ Replace(q) \/ CreateProperty(q) \/ ArchiveOrRestore(q) \/ Finish(q)

(* The writing steps end their request. *)
LEMMA EndsEnds ==
  ASSUME NEW q \in Callers, Ends(q)
  PROVE  End(q)
BY DEF Ends, CreateRole, UpdateRole, SaveDefault, DeleteRole, SetPermissions, AssignRole, Replace,
   CreateProperty, ArchiveOrRestore, Finish

(* A step of one request leaves the others alone. *)
LEMMA FlightStep ==
  ASSUME RolesInv, NEW q \in Callers, PortfolioStep(q)
  PROVE  FlightType /\ OthersStay(q)
<1>1. ASSUME NEW m \in Members, NEW ask \in Asks, BeginRole(q, m, ask) PROVE FlightType /\ OthersStay(q)
  <2>1. PICK found \in SUBSET (Permissions \cup Roles) : Begin(q, m, ask, "ready", found, FALSE)
    BY <1>1, BeginRoleFound
  <2>. QED BY <2>1, BeginFlies DEF RolesInv
<1>2. ASSUME NEW m \in Members, NEW ask \in Asks, BeginReplace(q, m, ask) PROVE FlightType /\ OthersStay(q)
  BY <1>2, BeginFlies DEF BeginReplace, RolesInv
<1>3. ASSUME NEW m \in Members, NEW ask \in Asks, BeginScope(q, m, ask) PROVE FlightType /\ OthersStay(q)
  <2> DEFINE wide == "all" \in PermissionCodes(m)
             phase == IF wide THEN "scoped" ELSE "narrow"
  <2>1. Begin(q, m, ask, phase, {}, wide) /\ wide \in BOOLEAN /\ phase \in {"narrow", "scoped"}
    BY <1>3 DEF BeginScope
  <2> HIDE DEF wide, phase
  <2>. QED BY <2>1, BeginFlies DEF RolesInv
<1>4. CASE RevokeOthers(q)
  <2>1. PICK found \in SUBSET Properties : inflight[q] # Absent /\ Continue(q, "ready", found)
    BY <1>4 DEF RevokeOthers, Phase
  <2>. QED BY <2>1, ContinueFlies DEF RolesInv
<1>5. CASE ReadPortfolio(q)
  <2>1. PICK found \in SUBSET Properties : inflight[q] # Absent /\ Continue(q, "scoped", found)
    BY <1>5 DEF ReadPortfolio, Phase, Portfolio
  <2>. QED BY <2>1, ContinueFlies DEF RolesInv
<1>6. CASE AssertTarget(q)
  BY <1>6, ContinueFlies DEF AssertTarget, Phase, RolesInv
<1>7. CASE Ends(q)
  BY <1>7, EndsEnds, EndFlies DEF RolesInv
<1>. QED
  BY <1>1, <1>2, <1>3, <1>4, <1>5, <1>6, <1>7 DEF PortfolioStep, Ends

(* The tables keep their types. *)
LEMMA TypesStep ==
  ASSUME RolesInv, NEW q \in Callers, PortfolioStep(q)
  PROVE  TablesType'
<1>1. FlightType /\ RolesOnward
  BY FlightStep, RolesStep
<1>2. holds' \subseteq Members \X (Roles \cup {System})
  <2>1. CASE AssignRole(q)
    <3> DEFINE ask == inflight[q].ask
    <3>1. ask \in Asks /\ ask.op \in {"assign", "remove"}
      BY <2>1 DEF AssignRole, Ready, Phase, RolesInv, TablesType, InFlight
    <3>2. ask.role \in Roles \cup {System} /\ ask.member \in Members
      BY <3>1, AskOps
    <3>. QED BY <2>1, <3>2 DEF AssignRole, RolesInv, TablesType
  <2>2. CASE ~AssignRole(q)
    <3>1. UNCHANGED holds
      BY <2>2 DEF PortfolioStep, BeginRole, BeginReplace, BeginScope, CreateRole, UpdateRole, SaveDefault,
        DeleteRole, SetPermissions, RevokeOthers, Replace, ReadPortfolio, AssertTarget, CreateProperty,
        ArchiveOrRestore, Finish
    <3>. QED BY <3>1 DEF RolesInv, TablesType
  <2>. QED BY <2>1, <2>2
<1>3. assigned' \subseteq Members \X Properties /\ property' \in [Properties -> PropertyStatuses]
  <2>1. CASE Replace(q)
    <3> DEFINE ask == inflight[q].ask
    <3>1. ask \in Asks /\ ask.op = "replace"
      BY <2>1 DEF Replace, Ready, Phase, RolesInv, TablesType, InFlight
    <3>2. ask.member \in Members /\ ask.properties \subseteq Properties
      BY <3>1, AskOps
    <3>. QED BY <2>1, <3>2 DEF Replace, RolesInv, TablesType
  <2>2. CASE CreateProperty(q) \/ ArchiveOrRestore(q)
    <3> DEFINE ask == inflight[q].ask
    <3>1. ask \in Asks /\ ask.op \in {"createProperty", "archive", "restore"} /\ inflight[q].actor \in Members
      BY <2>2 DEF CreateProperty, ArchiveOrRestore, Ready, Phase, RolesInv, TablesType, InFlight
    <3>2. ask.property \in Properties
      BY <3>1, AskOps
    <3>. QED BY <2>2, <3>1, <3>2 DEF CreateProperty, ArchiveOrRestore, RolesInv, TablesType, PropertyStatuses
  <2>3. CASE ~(Replace(q) \/ CreateProperty(q) \/ ArchiveOrRestore(q))
    <3>1. UNCHANGED <<assigned, property>>
      BY <2>3 DEF PortfolioStep, BeginRole, BeginReplace, BeginScope, CreateRole, UpdateRole, SaveDefault,
        DeleteRole, SetPermissions, AssignRole, RevokeOthers, ReadPortfolio, AssertTarget, Finish
    <3>. QED BY <3>1 DEF RolesInv, TablesType
  <2>. QED BY <2>1, <2>2, <2>3
<1>. QED BY <1>1, <1>2, <1>3 DEF TablesType, FlightType, RolesOnward

(* Reading on, a request stays what it was. *)
LEMMA ReadsAsk ==
  ASSUME TablesType, NEW q \in Callers, ReadsOn(q)
  PROVE  /\ inflight[q] # Absent
         /\ inflight'[q].ask = inflight[q].ask /\ inflight'[q].actor = inflight[q].actor
         /\ inflight'[q].wide = inflight[q].wide
<1>1. PICK found \in SUBSET (Permissions \cup Roles \cup Properties), phase \in {"scoped", "ready"} :
        inflight[q] # Absent /\ Continue(q, phase, found)
  <2>1. CASE RevokeOthers(q)
    <3> DEFINE ask == inflight[q].ask
               found == {p \in Properties \ ask.properties : <<ask.member, p>> \in assigned}
    <3>1. inflight[q] # Absent /\ Continue(q, "ready", found)
      BY <2>1 DEF RevokeOthers, Phase
    <3>2. found \in SUBSET (Permissions \cup Roles \cup Properties)
      OBVIOUS
    <3>. QED BY <3>1, <3>2
  <2>2. CASE ReadPortfolio(q)
    BY <2>2 DEF ReadPortfolio, Phase, Portfolio
  <2>3. CASE AssertTarget(q)
    BY <2>3 DEF AssertTarget, Phase
  <2>. QED BY <2>1, <2>2, <2>3 DEF ReadsOn
<1>. QED BY <1>1, ContinueFlies

(* The roles a transaction found stay, whatever the others do. *)
LEMMA KnownStep ==
  ASSUME RolesInv, NEW q \in Callers, PortfolioStep(q)
  PROVE  RolesKnown'
<1>1. OthersStay(q) /\ RolesOnward
  BY FlightStep, RolesStep
<1>2. ASSUME NEW p \in Callers \ {q} PROVE RolesFound(p)'
  <2>1. inflight'[p] = inflight[p]
    BY <1>1 DEF OthersStay
  <2>2. \A op : Ready(p, op)' <=> Ready(p, op)
    BY <2>1 DEF Ready, Phase
  <2>3. \A op \in {"update", "delete", "permit"} : Ready(p, op) => inflight[p].ask.role \in Roles
    BY AskOps DEF Ready, Phase, RolesInv, TablesType, InFlight
  <2>. QED BY <1>1, <2>1, <2>2, <2>3 DEF RolesInv, RolesKnown, RolesFound, RolesOnward
<1>3. ASSUME NEW m \in Members, NEW ask \in Asks, BeginRole(q, m, ask) PROVE RolesFound(q)'
  <2>1. PICK found \in SUBSET (Permissions \cup Roles) :
           /\ Begin(q, m, ask, "ready", found, FALSE)
           /\ ask.op \in {"create", "update"} => \A r \in found : r \in Roles /\ role[r] # Absent
           /\ ask.op \in {"update", "delete", "permit"} => ask.role \in Roles /\ role[ask.role] # Absent
    BY <1>3, BeginRoleFound
  <2>2. inflight'[q] = [actor |-> m, ask |-> ask, phase |-> "ready", found |-> found, wide |-> FALSE]
    BY <2>1, BeginFlies DEF RolesInv
  <2>3. inflight'[q].ask = ask /\ inflight'[q].found = found
    BY <2>2
  <2>. QED BY <2>1, <2>3, <1>1 DEF RolesOnward, RolesFound, Ready
<1>4. ASSUME NEW m \in Members, NEW ask \in Asks, BeginReplace(q, m, ask) \/ BeginScope(q, m, ask)
      PROVE  RolesFound(q)'
  <2>1. inflight'[q].ask = ask
    BY <1>4 DEF BeginReplace, BeginScope, Begin, RolesInv, TablesType
  <2>2. ask.op \notin {"create", "update", "delete", "permit"}
    BY <1>4, AskOps DEF BeginReplace, BeginScope
  <2>. QED BY <2>1, <2>2 DEF RolesFound, Ready
<1>5. ASSUME ReadsOn(q) PROVE RolesFound(q)'
  <2>1. inflight'[q].ask = inflight[q].ask
    BY <1>5, ReadsAsk DEF RolesInv
  <2>2. Phase(q, "checked") \/ Phase(q, "narrow") \/ Phase(q, "scoped")
    BY <1>5 DEF ReadsOn, RevokeOthers, ReadPortfolio, AssertTarget
  <2>3. inflight[q].ask \in Asks
    BY <2>2 DEF Phase, RolesInv, TablesType, InFlight
  <2>4. inflight[q].ask.op = "replace" \/ inflight[q].ask \in PropertyAsks
    BY <2>2 DEF RolesInv, KindsKnown
  <2>5. inflight[q].ask.op \notin {"create", "update", "delete", "permit"}
    BY <2>3, <2>4, AskOps
  <2>. QED BY <2>1, <2>5 DEF Ready, RolesFound
<1>6. ASSUME Ends(q) PROVE RolesFound(q)'
  <2>1. inflight'[q] = Absent
    BY <1>6, EndsEnds, EndFlies DEF RolesInv
  <2>. QED BY <2>1 DEF Ready, Phase, RolesFound
<1>7. RolesFound(q)'
  BY <1>3, <1>4, <1>5, <1>6 DEF PortfolioStep, ReadsOn, Ends
<1>. QED BY <1>2, <1>7 DEF RolesKnown

(* What a request waits for fits its operation, after every step. *)
LEMMA KindsStep ==
  ASSUME RolesInv, NEW q \in Callers, PortfolioStep(q)
  PROVE  KindsKnown'
<1> DEFINE Kind(p) == /\ Phase(p, "checked") => inflight[p].ask.op = "replace"
                      /\ Phase(p, "narrow") \/ Phase(p, "scoped") => inflight[p].ask \in PropertyAsks
<1>1. ASSUME NEW p \in Callers \ {q} PROVE Kind(p)'
  <2>1. inflight'[p] = inflight[p]
    BY FlightStep DEF OthersStay
  <2>. QED BY <2>1 DEF RolesInv, KindsKnown, Phase
<1>2. ASSUME NEW m \in Members, NEW ask \in Asks, BeginRole(q, m, ask) PROVE Kind(q)'
  <2>1. PICK found \in SUBSET (Permissions \cup Roles) : Begin(q, m, ask, "ready", found, FALSE)
    BY <1>2, BeginRoleFound
  <2>2. inflight'[q].phase = "ready"
    BY <2>1 DEF Begin, RolesInv, TablesType
  <2>. QED BY <2>2 DEF Phase
<1>3. ASSUME NEW m \in Members, NEW ask \in Asks, BeginReplace(q, m, ask) PROVE Kind(q)'
  <2>1. inflight'[q].phase = "checked" /\ inflight'[q].ask = ask /\ ask.op = "replace"
    BY <1>3, AskOps DEF BeginReplace, Begin, RolesInv, TablesType
  <2>. QED BY <2>1 DEF Phase
<1>4. ASSUME NEW m \in Members, NEW ask \in Asks, BeginScope(q, m, ask) PROVE Kind(q)'
  <2>1. inflight'[q].phase # "checked" /\ inflight'[q].ask = ask /\ ask \in PropertyAsks
    BY <1>4 DEF BeginScope, Begin, RolesInv, TablesType
  <2>. QED BY <2>1 DEF Phase
<1>5. ASSUME ReadsOn(q) PROVE Kind(q)'
  <2>1. CASE ReadPortfolio(q)
    <3>1. inflight'[q].ask = inflight[q].ask /\ inflight[q].ask \in PropertyAsks
      BY <2>1, <1>5, ReadsAsk DEF ReadPortfolio, RolesInv, KindsKnown
    <3>2. inflight'[q].phase = "scoped"
      BY <2>1 DEF ReadPortfolio, Continue, Phase, RolesInv, TablesType, InFlight
    <3>. QED BY <3>1, <3>2 DEF Phase
  <2>2. CASE RevokeOthers(q) \/ AssertTarget(q)
    <3>1. inflight'[q].phase = "ready"
      BY <2>2 DEF RevokeOthers, AssertTarget, Continue, Phase, RolesInv, TablesType, InFlight
    <3>. QED BY <3>1 DEF Phase
  <2>. QED BY <2>1, <2>2, <1>5 DEF ReadsOn
<1>6. ASSUME Ends(q) PROVE Kind(q)'
  <2>1. inflight'[q] = Absent
    BY <1>6, EndsEnds, EndFlies DEF RolesInv
  <2>. QED BY <2>1 DEF Phase
<1>7. Kind(q)'
  BY <1>2, <1>3, <1>4, <1>5, <1>6 DEF PortfolioStep, ReadsOn, Ends
<1>. QED BY <1>1, <1>7 DEF KindsKnown

(* The invariant about roles is inductive. *)
LEMMA RolesInvStep == RolesInv /\ [PortfolioNext]_portfolioVars => RolesInv'
<1> SUFFICES ASSUME RolesInv, [PortfolioNext]_portfolioVars PROVE RolesInv'
  OBVIOUS
<1>1. ASSUME NEW q \in Callers, PortfolioStep(q) PROVE RolesInv'
  <2>1. RolesOnward
    BY <1>1, RolesStep
  <2>2. \A r, x \in Defaults(role) : r = x
    BY OneDefaultIsOne DEF RolesInv
  <2>3. \A r, x \in Defaults(role') : r = x
    BY <2>1, <2>2, IndexAllowsOne DEF RolesOnward
  <2>4. OneDefaultRole'
    BY <2>3 DEF OneDefaultRole, LiveRole, Defaults
  <2>. QED BY <1>1, <2>4, TypesStep, KnownStep, KindsStep DEF RolesInv
<1>2. CASE UNCHANGED portfolioVars
  BY <1>2 DEF portfolioVars, RolesInv, TablesType, RolesKnown, RolesFound, Ready, Phase, KindsKnown,
    OneDefaultRole, LiveRole
<1>. QED BY <1>1, <1>2 DEF PortfolioNext

(* It holds at first. *)
LEMMA RolesInvStart == PortfolioInit => RolesInv
<1> SUFFICES ASSUME PortfolioInit PROVE RolesInv
  OBVIOUS
<1>1. TablesType
  BY TablesStart
<1>2. DefaultAllowed(role) /\ \A q \in Callers : inflight[q] = Absent
  BY DEF PortfolioInit
<1>3. OneDefaultRole
  BY <1>2, IndexAllowsOne, OneDefaultIsOne
<1>. QED BY <1>1, <1>2, <1>3 DEF RolesInv, RolesKnown, RolesFound, KindsKnown, Ready, Phase

(* At most one live role is the default, for any roles, callers and requests. *)
THEOREM DefaultUnique == PortfolioSpec => []OneDefaultRole
<1>1. RolesInv => OneDefaultRole
  BY DEF RolesInv
<1>. QED BY <1>1, RolesInvStart, RolesInvStep, PTL DEF PortfolioSpec

-----------------------------------------------------------------------------
(* Rights *)

(* What a request rests on has been seen, as far as it got. *)
Grounded(q) ==
  /\ Phase(q, "checked") => {"manage", "members", "all"} \subseteq seen[q].rights
  /\ Phase(q, "narrow") \/ Phase(q, "scoped") =>
       "manage" \in seen[q].rights /\ (inflight[q].wide => "all" \in seen[q].rights)
  /\ Phase(q, "scoped") => inflight[q].wide \/ inflight[q].found \subseteq seen[q].reach
  /\ Phase(q, "ready") => Entitled(q)

(* While a request is in flight, what was seen stays, and what its actor can do after a *)
(* step is seen.                                                                         *)
LEMMA SeenGrows ==
  ASSUME Observe, NEW q \in Callers, NEW m \in Members, Acting(m, q)'
  PROVE  /\ seen[q].rights \cup Rights(m)' \subseteq seen'[q].rights
         /\ seen[q].reach \cup Reach(m)' \subseteq seen'[q].reach
<1> DEFINE A == {x \in Members : Acting(x, q)'}
<1>1. m \in A
  OBVIOUS
<1>2. /\ seen'[q].rights = UNION {seen[q].rights \cup Rights(x)' : x \in A}
      /\ seen'[q].reach = UNION {seen[q].reach \cup Reach(x)' : x \in A}
  BY DEF Observe
<1>. QED BY <1>1, <1>2

(* With more seen, a request that was entitled is. *)
LEMMA EntitledGrows ==
  ASSUME NEW q \in Callers, Entitled(q), inflight'[q].ask = inflight[q].ask,
         seen[q].rights \subseteq seen'[q].rights, seen[q].reach \subseteq seen'[q].reach
  PROVE  Entitled(q)'
BY DEF Entitled

(* What a request rests on stays seen, and what it reads next is seen. *)
LEMMA GroundsStep ==
  ASSUME RolesInv, NEW q \in Callers, PortfolioStep(q), Observe,
         \A p \in Callers : Grounded(p)
  PROVE  \A p \in Callers : Grounded(p)'
<1>T. TablesType
  BY DEF RolesInv
<1>1. ASSUME NEW p \in Callers \ {q} PROVE Grounded(p)'
  <2>1. inflight'[p] = inflight[p]
    BY FlightStep DEF OthersStay
  <2>2. CASE inflight[p] = Absent
    BY <2>1, <2>2 DEF Grounded, Phase
  <2>3. CASE inflight[p] # Absent
    <3>1. PICK m \in Members : inflight[p].actor = m
      BY <2>3, <1>T DEF TablesType, InFlight
    <3>5. Acting(m, p)'
      BY <2>1, <2>3, <3>1 DEF Acting
    <3>2. seen[p].rights \subseteq seen'[p].rights /\ seen[p].reach \subseteq seen'[p].reach
      BY <3>5, SeenGrows
    <3>3. Entitled(p) => Entitled(p)'
      BY <2>1, <3>2, EntitledGrows
    <3>4. Grounded(p)
      OBVIOUS
    <3>. QED BY <2>1, <3>2, <3>3, <3>4 DEF Grounded, Phase
  <2>. QED BY <2>2, <2>3
<1>2. ASSUME NEW m \in Members, NEW ask \in Asks,
             BeginRole(q, m, ask) \/ BeginReplace(q, m, ask) \/ BeginScope(q, m, ask)
      PROVE  /\ inflight'[q].ask = ask /\ inflight'[q].actor = m
             /\ inflight'[q] # Absent => PermissionCodes(m) \subseteq seen'[q].rights
  <2>1. inflight'[q].ask = ask /\ inflight'[q].actor = m /\ UNCHANGED <<role, holds>>
    BY <1>2, <1>T DEF BeginRole, BeginReplace, BeginScope, Begin, TablesType
  <2>2. PermissionCodes(m) \subseteq Rights(m)'
    BY <2>1, <1>T, CodesAreRights DEF Rights
  <2>3. inflight'[q] # Absent => Rights(m)' \subseteq seen'[q].rights
    BY <2>1, SeenGrows DEF Acting
  <2>. QED BY <2>1, <2>2, <2>3
<1>3. ASSUME NEW m \in Members, NEW ask \in Asks, BeginRole(q, m, ask) PROVE Grounded(q)'
  <2>1. inflight'[q].phase = "ready" /\ "roles" \in PermissionCodes(m) /\ ask \in RoleAsks
    BY <1>3, <1>T DEF BeginRole, Begin, TablesType
  <2>2. inflight'[q] # Absent => Entitled(q)'
    BY <1>2, <1>3, <2>1, AskOps DEF Entitled
  <2>. QED BY <2>1, <2>2 DEF Grounded, Phase
<1>4. ASSUME NEW m \in Members, NEW ask \in Asks, BeginReplace(q, m, ask) PROVE Grounded(q)'
  <2>1. inflight'[q].phase = "checked" /\ {"manage", "members", "all"} \subseteq PermissionCodes(m)
    BY <1>4, <1>T DEF BeginReplace, Begin, TablesType
  <2>. QED BY <2>1, <1>2, <1>4 DEF Grounded, Phase
<1>5. ASSUME NEW m \in Members, NEW ask \in Asks, BeginScope(q, m, ask) PROVE Grounded(q)'
  <2>1. /\ inflight'[q].wide <=> "all" \in PermissionCodes(m)
        /\ inflight'[q].phase = IF inflight'[q].wide THEN "scoped" ELSE "narrow"
        /\ "manage" \in PermissionCodes(m)
    BY <1>5, <1>T DEF BeginScope, Begin, TablesType
  <2>. QED BY <2>1, <1>2, <1>5 DEF Grounded, Phase
<1>6. ASSUME ReadsOn(q) PROVE Grounded(q)'
  <2> DEFINE m == inflight[q].actor
             ask == inflight[q].ask
  <2>1. /\ inflight[q] # Absent /\ inflight'[q].ask = ask /\ inflight'[q].actor = m
        /\ inflight'[q].wide = inflight[q].wide /\ m \in Members /\ ask \in Asks
    BY <1>6, <1>T, ReadsAsk DEF TablesType, InFlight
  <2>2. inflight'[q] # Absent =>
          /\ seen[q].rights \subseteq seen'[q].rights /\ seen[q].reach \subseteq seen'[q].reach
          /\ Reach(m)' \subseteq seen'[q].reach
    BY <2>1, SeenGrows DEF Acting
  <2>3. CASE RevokeOthers(q)
    <3>1. Phase(q, "checked") /\ ask.op = "replace" /\ inflight'[q].phase = "ready"
      BY <2>3, <1>T DEF RevokeOthers, Continue, Phase, RolesInv, KindsKnown, TablesType, InFlight
    <3>2. {"manage", "members", "all"} \subseteq seen[q].rights
      BY <3>1 DEF Grounded
    <3>3. inflight'[q] # Absent => Entitled(q)'
      BY <2>1, <2>2, <3>1, <3>2, AskOps DEF Entitled
    <3>. QED BY <3>1, <3>3 DEF Grounded, Phase
  <2>4. CASE ReadPortfolio(q)
    <3>1. Phase(q, "narrow") /\ inflight'[q].phase = "scoped" /\ inflight'[q].found = Portfolio(m)
      BY <2>4, <1>T DEF ReadPortfolio, Continue, Phase, TablesType, InFlight
    <3>2. UNCHANGED assigned
      BY <2>4 DEF ReadPortfolio
    <3>3. Portfolio(m) \subseteq Reach(m)'
      BY <2>1, <3>2, PortfolioReached DEF Reach
    <3>4. "manage" \in seen[q].rights /\ (inflight[q].wide => "all" \in seen[q].rights)
      BY <3>1 DEF Grounded
    <3>. QED BY <2>1, <2>2, <3>1, <3>3, <3>4 DEF Grounded, Phase
  <2>5. CASE AssertTarget(q)
    <3>1. Phase(q, "scoped") /\ inflight'[q].phase = "ready"
      BY <2>5, <1>T DEF AssertTarget, Continue, Phase, TablesType, InFlight
    <3>2. ask \in PropertyAsks
      BY <3>1 DEF RolesInv, KindsKnown
    <3>3. ask.op # "createProperty" => InScope(q)
      BY <2>5, <2>1, <3>2, AskOps DEF AssertTarget
    <3>4. /\ "manage" \in seen[q].rights /\ (inflight[q].wide => "all" \in seen[q].rights)
          /\ inflight[q].wide \/ inflight[q].found \subseteq seen[q].reach
      BY <3>1 DEF Grounded
    <3>5. inflight'[q] # Absent => Entitled(q)'
      BY <2>1, <2>2, <3>2, <3>3, <3>4, AskOps DEF Entitled, InScope
    <3>. QED BY <3>1, <3>5 DEF Grounded, Phase
  <2>. QED BY <1>6, <2>3, <2>4, <2>5 DEF ReadsOn
<1>7. ASSUME Ends(q) PROVE Grounded(q)'
  <2>1. inflight'[q] = Absent
    BY <1>7, <1>T, EndsEnds, EndFlies
  <2>. QED BY <2>1 DEF Grounded, Phase
<1>8. Grounded(q)'
  BY <1>3, <1>4, <1>5, <1>6, <1>7 DEF PortfolioStep, ReadsOn, Ends
<1>. QED BY <1>1, <1>8

(* Nobody is about to write without rights seen since the request began. *)
THEOREM WithinRights == PortfolioSpec => []ActsWithinRights
<1> DEFINE Inv == RolesInv /\ \A q \in Callers : Grounded(q)
<1>1. PortfolioInit => Inv
  BY RolesInvStart DEF PortfolioInit, Grounded, Phase
<1>2. Inv /\ [PortfolioNext]_portfolioVars => Inv'
  <2>1. CASE UNCHANGED portfolioVars
    BY <2>1, RolesInvStep DEF portfolioVars, Grounded, Phase, Entitled
  <2>. QED BY <2>1, RolesInvStep, GroundsStep DEF PortfolioNext
<1>3. Inv => ActsWithinRights
  BY DEF ActsWithinRights, Grounded
<1>. QED BY <1>1, <1>2, <1>3, PTL DEF PortfolioSpec

-----------------------------------------------------------------------------
(* Replacements *)

(* A replacement that is about to write leaves nothing but what it wants and what was *)
(* assigned late.                                                                     *)
Pending(q) ==
  Ready(q, "replace") =>
    \A p \in Properties : <<inflight[q].ask.member, p>> \in assigned =>
      p \in inflight[q].found \cup inflight[q].ask.properties \cup seen[q].late

(* What others assign while a request stays ready is late. *)
LEMMA LateIsSeen ==
  ASSUME Observe, NEW q \in Callers, Phase(q, "ready"), Phase(q, "ready")',
         NEW m \in Members, NEW p \in Properties, <<m, p>> \in assigned' \ assigned
  PROVE  p \in seen'[q].late
BY DEF Observe

(* What is late stays late. *)
LEMMA LateStays ==
  ASSUME Observe, NEW q \in Callers, Phase(q, "ready"), Phase(q, "ready")'
  PROVE  seen[q].late \subseteq seen'[q].late
BY DEF Observe

(* Every step keeps the replacements pending. *)
LEMMA PendingStep ==
  ASSUME RolesInv, NEW q \in Callers, PortfolioStep(q), Observe,
         \A c \in Callers : Pending(c)
  PROVE  \A c \in Callers : Pending(c)'
<1>T. TablesType
  BY DEF RolesInv
<1>1. ASSUME NEW c \in Callers \ {q} PROVE Pending(c)'
  <2>1. inflight'[c] = inflight[c]
    BY FlightStep DEF OthersStay
  <2>. SUFFICES ASSUME Ready(c, "replace"), NEW p \in Properties,
                       <<inflight[c].ask.member, p>> \in assigned'
                PROVE  p \in inflight[c].found \cup inflight[c].ask.properties \cup seen'[c].late
    BY <2>1 DEF Pending, Ready, Phase
  <2>2. Phase(c, "ready") /\ Phase(c, "ready")' /\ inflight[c].ask.op = "replace"
    BY <2>1 DEF Ready, Phase
  <2>3. PICK m \in Members : inflight[c].ask.member = m
    BY <2>2, <1>T, AskOps DEF Phase, TablesType, InFlight
  <2>4. CASE <<m, p>> \in assigned
    BY <2>2, <2>3, <2>4, LateStays DEF Pending
  <2>5. CASE <<m, p>> \notin assigned
    BY <2>2, <2>3, <2>5, LateIsSeen
  <2>. QED BY <2>4, <2>5
<1>2. ASSUME NEW m \in Members, NEW ask \in Asks,
             BeginRole(q, m, ask) \/ BeginReplace(q, m, ask) \/ BeginScope(q, m, ask)
      PROVE  Pending(q)'
  <2>1. CASE BeginRole(q, m, ask) \/ BeginScope(q, m, ask)
    <3>1. inflight'[q].ask = ask
      BY <2>1, <1>T DEF BeginRole, BeginScope, Begin, TablesType
    <3>2. ask.op # "replace"
      BY <2>1, AskOps DEF BeginRole, BeginScope
    <3>. QED BY <3>1, <3>2 DEF Pending, Ready
  <2>2. CASE BeginReplace(q, m, ask)
    <3>1. inflight'[q].phase = "checked"
      BY <2>2, <1>T DEF BeginReplace, Begin, TablesType
    <3>. QED BY <3>1 DEF Pending, Ready, Phase
  <2>. QED BY <1>2, <2>1, <2>2
<1>3. ASSUME RevokeOthers(q) PROVE Pending(q)'
  <2> DEFINE ask == inflight[q].ask
             found == {p \in Properties \ ask.properties : <<ask.member, p>> \in assigned}
  <2>1. UNCHANGED assigned /\ inflight'[q].ask = ask
    BY <1>3, <1>T, ReadsAsk DEF RevokeOthers, ReadsOn
  <2>2. inflight'[q].found = found
    BY <1>3, <1>T DEF RevokeOthers, Phase, Continue, TablesType, InFlight
  <2>. QED BY <2>1, <2>2 DEF Pending
<1>4. ASSUME ReadPortfolio(q) \/ AssertTarget(q) PROVE Pending(q)'
  <2>1. inflight'[q].ask = inflight[q].ask /\ inflight[q].ask \in Asks
    BY <1>4, <1>T, ReadsAsk DEF ReadsOn, TablesType, InFlight
  <2>2. inflight[q].ask \in PropertyAsks
    BY <1>4 DEF ReadPortfolio, AssertTarget, RolesInv, KindsKnown
  <2>. QED BY <2>1, <2>2, AskOps DEF Pending, Ready
<1>5. ASSUME Ends(q) PROVE Pending(q)'
  <2>1. inflight'[q] = Absent
    BY <1>5, <1>T, EndsEnds, EndFlies
  <2>. QED BY <2>1 DEF Pending, Ready, Phase
<1>6. Pending(q)'
  BY <1>2, <1>3, <1>4, <1>5 DEF PortfolioStep, Ends
<1>. QED BY <1>1, <1>6

(* A replacement that is ready ends by writing. *)
LEMMA ReplacementWrites ==
  ASSUME RolesInv, NEW q \in Callers, Ready(q, "replace"), NEW c \in Callers, PortfolioStep(c),
         inflight'[q] = Absent
  PROVE  Replace(q)
<1>1. Phase(q, "ready") /\ inflight[q] # Absent /\ inflight[q].ask \in Asks
      /\ inflight[q].ask.op = "replace"
  BY DEF Ready, Phase, RolesInv, TablesType, InFlight
<1>2. c = q
  BY <1>1, FlightStep DEF OthersStay
<1>3. ~ForRole(q)
  BY <1>1, AskOps DEF ForRole
<1>4. PortfolioStep(q)
  BY <1>2
<1>. QED
  BY <1>1, <1>3, <1>4 DEF PortfolioStep, Free, Phase, Ready, CreateRole, UpdateRole, DeleteRole,
    SetPermissions, AssignRole, RevokeOthers, ReadPortfolio, AssertTarget, CreateProperty,
    ArchiveOrRestore, Finish

(* Replacing leaves exactly what was wanted, up to what others assigned meanwhile. *)
THEOREM ReplacesExactly == PortfolioSpec => ReplaceIsExact
<1> DEFINE Inv == RolesInv /\ \A q \in Callers : Pending(q)
           Exact(q) ==
             Ready(q, "replace") /\ inflight'[q] = Absent =>
               LET ask == inflight[q].ask
                   left == {p \in Properties : <<ask.member, p>> \in assigned'} IN
               ask.properties \subseteq left /\ left \subseteq ask.properties \cup seen[q].late
<1>1. PortfolioInit => Inv
  BY RolesInvStart DEF PortfolioInit, Pending, Ready, Phase
<1>2. Inv /\ [PortfolioNext]_portfolioVars => Inv'
  <2>1. CASE UNCHANGED portfolioVars
    BY <2>1, RolesInvStep DEF portfolioVars, Pending, Ready, Phase
  <2>. QED BY <2>1, RolesInvStep, PendingStep DEF PortfolioNext
<1>3. Inv /\ [PortfolioNext]_portfolioVars => [\A q \in Callers : Exact(q)]_portfolioVars
  <2> SUFFICES ASSUME Inv, PortfolioNext, NEW q \in Callers, Ready(q, "replace"), inflight'[q] = Absent
               PROVE  Exact(q)
    BY DEF portfolioVars
  <2> DEFINE ask == inflight[q].ask
             found == inflight[q].found
             left == {p \in Properties : <<ask.member, p>> \in assigned'}
  <2>1. Replace(q)
    BY ReplacementWrites DEF PortfolioNext
  <2>2. assigned' = (assigned \ ({ask.member} \X found)) \cup ({ask.member} \X ask.properties)
    BY <2>1 DEF Replace
  <2>3. ask \in Asks /\ ask.op = "replace"
    BY DEF Ready, Phase, RolesInv, TablesType, InFlight
  <2>4. ask.properties \subseteq Properties
    BY <2>3, AskOps
  <2>5. ask.properties \subseteq left
    BY <2>2, <2>4
  <2>6. ASSUME NEW p \in left PROVE p \in ask.properties \cup seen[q].late
    <3>1. p \in ask.properties \/ (<<ask.member, p>> \in assigned /\ p \notin found)
      BY <2>2
    <3>. QED BY <3>1 DEF Pending
  <2>. QED BY <2>5, <2>6
<1>. QED BY <1>1, <1>2, <1>3, PTL DEF PortfolioSpec, ReplaceIsExact

USE VersionAssumption, NullAssumption

LifecycleSound == OrgTypeOK /\ OrgIInv

-----------------------------------------------------------------------------
(* What a request in flight knows. *)

(* A transaction that has read a status is about to make a legal step from it, *)
(* and never one back to PENDING.                                              *)
LEMMA TransitionKnows ==
  ASSUME LifecycleSound, NEW q \in Requests, Doing(q, Transitions)
  PROVE  /\ request[q] \in Request
         /\ Target(request[q].kind) \in Statuses \ {"PENDING"}
         /\ <<request[q].from, Target(request[q].kind)>> \in Allowed
BY DEF LifecycleSound, OrgTypeOK, OrgIInv, Doing, Transitions, Target, Statuses

(* A reviewer has read an approval, in a version that can still be raised. *)
LEMMA ReviewKnows ==
  ASSUME LifecycleSound, NEW q \in Requests, Doing(q, Reviews)
  PROVE  /\ request[q] \in Request
         /\ request[q].version \in 1..MaxVersion
         /\ request[q].version < MaxVersion
         /\ approval \in Approval
         /\ request[q].version <= approval.version
<1>1. request[q] \in Request
  BY DEF LifecycleSound, OrgTypeOK, Doing
<1>2. request[q].version \in 1..MaxVersion
  BY <1>1 DEF Doing, Request, Reviews, Transitions
<1>3. approval # Null /\ request[q].version < MaxVersion /\ request[q].version <= approval.version
  BY DEF LifecycleSound, OrgIInv
<1> QED
  BY <1>1, <1>2, <1>3 DEF LifecycleSound, OrgTypeOK

(* What a review that wins does to the approval: it takes a documented step, to the *)
(* next version.                                                                    *)
LEMMA ReviewRaises ==
  ASSUME LifecycleSound, NEW q \in Requests, Doing(q, Reviews), Current(q),
         NEW s \in {"PENDING", "APPROVED", "REJECTED"}
  PROVE  /\ approval.version \in 1..MaxVersion
         /\ approval.version = request[q].version
         /\ [status |-> s, version |-> approval.version + 1] \in Approval
<1>1. approval.version = request[q].version
  BY DEF Current
<1>2. approval.version + 1 \in 1..MaxVersion
  BY <1>1, ReviewKnows
<1> QED
  BY <1>1, <1>2, ReviewKnows DEF Approval

-----------------------------------------------------------------------------
(* Types *)

(* Types and invariant hold at first. *)
LEMMA LifecycleStart == OrgInit => LifecycleSound
BY DEF OrgInit, LifecycleSound, OrgTypeOK, OrgIInv, ApprovedIsActivated, Doing, Statuses, Approval

(* No step leaves the types. *)
LEMMA LifecycleTypesStep == LifecycleSound /\ [OrgNext]_orgVars => OrgTypeOK'
<1> SUFFICES ASSUME LifecycleSound, [OrgNext]_orgVars PROVE OrgTypeOK'
  OBVIOUS
<1>0. OrgTypeOK
  BY DEF LifecycleSound
<1>1. CASE UNCHANGED orgVars
  BY <1>0, <1>1 DEF OrgTypeOK, orgVars
<1>2. ASSUME NEW q \in Requests, NEW kind \in Transitions, ReadTransition(q, kind)
      PROVE  OrgTypeOK'
  <2>1. [kind |-> kind, from |-> organization, version |-> 0] \in Request
    BY <1>0 DEF OrgTypeOK, Request
  <2> QED
    BY <1>0, <1>2, <2>1 DEF ReadTransition, OrgTypeOK
<1>3. ASSUME NEW q \in Requests, NEW kind \in Reviews, ReadReview(q, kind)
      PROVE  OrgTypeOK'
  <2>1. approval.version \in 1..MaxVersion
    BY <1>0, <1>3 DEF ReadReview, OrgTypeOK, Approval
  <2>2. [kind |-> kind, from |-> "PENDING", version |-> approval.version] \in Request
    BY <2>1 DEF Request
  <2> QED
    BY <1>0, <1>3, <2>2 DEF ReadReview, OrgTypeOK
<1>4. ASSUME NEW q \in Requests, WriteTransition(q)
      PROVE  OrgTypeOK'
  BY <1>0, <1>4, TransitionKnows DEF WriteTransition, EndRequest, OrgTypeOK
<1>5. ASSUME NEW q \in Requests, Approve(q)
      PROVE  OrgTypeOK'
  <2>1. Doing(q, Reviews)
    BY <1>5 DEF Approve, Doing, Reviews
  <2>2. organization' \in Statuses
    BY <1>0, <1>5 DEF Approve, OrgTypeOK, Statuses
  <2>3. approval' \in Approval \cup {Null}
    BY <1>0, <1>5, <2>1, ReviewRaises DEF Approve, OrgTypeOK
  <2> QED
    BY <1>0, <1>5, <2>2, <2>3 DEF Approve, EndRequest, OrgTypeOK
<1>6. ASSUME NEW q \in Requests, RejectOrReopen(q)
      PROVE  OrgTypeOK'
  <2>1. Doing(q, Reviews)
    BY <1>6 DEF RejectOrReopen, Doing, Reviews
  <2>2. approval' \in Approval \cup {Null}
    BY <1>0, <1>6, <2>1, ReviewRaises DEF RejectOrReopen, OrgTypeOK
  <2> QED
    BY <1>0, <1>6, <2>2 DEF RejectOrReopen, EndRequest, OrgTypeOK
<1>7. ASSUME NEW q \in Requests, AbortRequest(q)
      PROVE  OrgTypeOK'
  BY <1>0, <1>7 DEF AbortRequest, EndRequest, OrgTypeOK
<1> QED
  BY <1>1, <1>2, <1>3, <1>4, <1>5, <1>6, <1>7 DEF OrgNext, Lifecycle

-----------------------------------------------------------------------------
(* The inductive invariant *)

(* No step takes an approval away or lowers its version. *)
LEMMA VersionGrows ==
  LifecycleSound /\ [OrgNext]_orgVars /\ approval # Null =>
    approval' # Null /\ approval.version <= approval'.version
<1> SUFFICES ASSUME LifecycleSound, [OrgNext]_orgVars, approval # Null
             PROVE  approval' # Null /\ approval.version <= approval'.version
  OBVIOUS
<1>0. approval.version \in Nat
  BY DEF LifecycleSound, OrgTypeOK, Approval
<1>1. CASE approval' = approval
  BY <1>0, <1>1
<1>2. ASSUME NEW q \in Requests, Approve(q), approval' # approval
      PROVE  approval' # Null /\ approval.version <= approval'.version
  <2>1. Doing(q, Reviews) /\ Current(q)
    BY <1>2 DEF Approve, Doing, Reviews
  <2>2. approval' = [status |-> "APPROVED", version |-> approval.version + 1]
    BY <1>2 DEF Approve
  <2> QED
    BY <1>0, <2>1, <2>2, ReviewRaises
<1>3. ASSUME NEW q \in Requests, RejectOrReopen(q), approval' # approval
      PROVE  approval' # Null /\ approval.version <= approval'.version
  <2>1. Doing(q, Reviews) /\ Current(q)
    BY <1>3 DEF RejectOrReopen, Doing, Reviews
  <2>2. PICK s \in {"PENDING", "REJECTED"} : approval' = [status |-> s, version |-> approval.version + 1]
    BY <1>3, <2>1 DEF RejectOrReopen
  <2> QED
    BY <1>0, <2>1, <2>2, ReviewRaises
<1> QED
  BY <1>1, <1>2, <1>3
  DEF OrgNext, orgVars, Lifecycle, ReadTransition, WriteTransition, ReadReview, AbortRequest

(* A request after a step was there before, or has just read what it rests on. *)
LEMMA LifecycleRequests ==
  LifecycleSound /\ [OrgNext]_orgVars =>
    \A p \in Requests :
      \/ request'[p] \in {Null, request[p]}
      \/ \E kind \in Transitions :
           /\ request'[p] = [kind |-> kind, from |-> organization, version |-> 0]
           /\ <<organization, Target(kind)>> \in Allowed
      \/ \E kind \in Reviews :
           /\ request'[p] = [kind |-> kind, from |-> "PENDING", version |-> approval.version]
           /\ approval # Null /\ approval' = approval /\ approval.version < MaxVersion
<1> SUFFICES ASSUME LifecycleSound, [OrgNext]_orgVars, NEW p \in Requests
             PROVE  \/ request'[p] \in {Null, request[p]}
                    \/ \E kind \in Transitions :
                         /\ request'[p] = [kind |-> kind, from |-> organization, version |-> 0]
                         /\ <<organization, Target(kind)>> \in Allowed
                    \/ \E kind \in Reviews :
                         /\ request'[p] = [kind |-> kind, from |-> "PENDING", version |-> approval.version]
                         /\ approval # Null /\ approval' = approval /\ approval.version < MaxVersion
  OBVIOUS
<1>0. request \in [Requests -> Request \cup {Null}]
  BY DEF LifecycleSound, OrgTypeOK
<1>1. CASE UNCHANGED orgVars
  BY <1>1 DEF orgVars
<1>2. CASE \E q \in Requests : \E kind \in Transitions : ReadTransition(q, kind)
  BY <1>0, <1>2 DEF ReadTransition
<1>3. CASE \E q \in Requests : \E kind \in Reviews : ReadReview(q, kind)
  BY <1>0, <1>3 DEF ReadReview
<1>4. CASE \E q \in Requests : EndRequest(q)
  BY <1>0, <1>4 DEF EndRequest
<1> QED
  BY <1>1, <1>2, <1>3, <1>4
  DEF OrgNext, Lifecycle, WriteTransition, Approve, RejectOrReopen, AbortRequest

(* An organization leaves PENDING for good. *)
LEMMA NeverPendingAgain ==
  LifecycleSound /\ [OrgNext]_orgVars /\ organization # "PENDING" => organization' # "PENDING"
BY TransitionKnows
DEF OrgNext, Lifecycle, orgVars, ReadTransition, ReadReview, WriteTransition, Approve,
    RejectOrReopen, AbortRequest

(* The invariant is inductive. *)
LEMMA LifecycleStep == LifecycleSound /\ [OrgNext]_orgVars => OrgIInv'
<1> SUFFICES ASSUME LifecycleSound, [OrgNext]_orgVars PROVE OrgIInv'
  OBVIOUS
<1>0. OrgTypeOK /\ OrgTypeOK'
  BY LifecycleTypesStep DEF LifecycleSound
<1>1. ApprovedIsActivated'
  <2>1. CASE approval' = approval
    BY <2>1, NeverPendingAgain DEF LifecycleSound, OrgIInv, ApprovedIsActivated
  <2>2. CASE approval' # approval /\ \E q \in Requests : Approve(q)
    BY <2>2 DEF Approve, ApprovedIsActivated
  <2>3. CASE approval' # approval /\ \E q \in Requests : RejectOrReopen(q)
    BY <2>3 DEF RejectOrReopen, ApprovedIsActivated
  <2> QED
    BY <2>1, <2>2, <2>3
    DEF OrgNext, orgVars, Lifecycle, ReadTransition, WriteTransition, ReadReview, AbortRequest
<1>2. ASSUME NEW p \in Requests, request'[p] # Null, request'[p].kind \in Transitions
      PROVE  <<request'[p].from, Target(request'[p].kind)>> \in Allowed
  <2>1. CASE request'[p] = request[p]
    BY <1>2, <2>1, TransitionKnows DEF Doing
  <2>2. CASE request'[p] # request[p]
    BY <1>2, <2>2, LifecycleRequests DEF Transitions, Reviews
  <2> QED
    BY <2>1, <2>2
<1>3. ASSUME NEW p \in Requests, request'[p] # Null, request'[p].kind \in Reviews
      PROVE  /\ approval' # Null
             /\ request'[p].version < MaxVersion
             /\ request'[p].version <= approval'.version
  <2>1. CASE request'[p] = request[p]
    <3>1. /\ request[p].version \in 1..MaxVersion
          /\ request[p].version < MaxVersion
          /\ approval \in Approval
          /\ request[p].version <= approval.version
      BY <1>3, <2>1, ReviewKnows DEF Doing
    <3>2. approval' # Null /\ approval.version <= approval'.version
      BY <3>1, VersionGrows
    <3>3. approval.version \in Nat /\ approval'.version \in Nat
      BY <1>0, <3>1, <3>2 DEF OrgTypeOK, Approval
    <3> QED
      BY <2>1, <3>1, <3>2, <3>3
  <2>2. CASE request'[p] # request[p]
    <3>1. /\ approval # Null /\ approval' = approval
          /\ request'[p].version = approval.version /\ approval.version < MaxVersion
      BY <1>3, <2>2, LifecycleRequests DEF Transitions, Reviews
    <3>2. approval.version \in Nat
      BY <1>0, <3>1 DEF OrgTypeOK, Approval
    <3> QED
      BY <3>1, <3>2
  <2> QED
    BY <2>1, <2>2
<1> QED
  BY <1>1, <1>2, <1>3 DEF OrgIInv, Doing

-----------------------------------------------------------------------------
(* Types and invariant hold for every number of transactions and versions. *)
THEOREM LifecycleInductive == OrgSpec => []LifecycleSound
<1>1. LifecycleSound /\ [OrgNext]_orgVars => LifecycleSound'
  BY LifecycleTypesStep, LifecycleStep DEF LifecycleSound
<1> QED
  BY LifecycleStart, <1>1, PTL DEF OrgSpec

(* The rows keep their types, whatever interleaves. *)
THEOREM LifecycleTypes == OrgSpec => []OrgTypeOK
<1>1. LifecycleSound => OrgTypeOK
  BY DEF LifecycleSound
<1> QED
  BY LifecycleInductive, <1>1, PTL

(* An approval and the activation it stands for are committed together. *)
THEOREM ApprovalActivates == OrgSpec => []ApprovedIsActivated
<1>1. LifecycleSound => ApprovedIsActivated
  BY DEF LifecycleSound, OrgIInv
<1> QED
  BY LifecycleInductive, <1>1, PTL

(* The inductive invariant that the run checks. *)
THEOREM LifecycleInvariant == OrgSpec => []OrgIInv
<1>1. LifecycleSound => OrgIInv
  BY DEF LifecycleSound
<1> QED
  BY LifecycleInductive, <1>1, PTL

-----------------------------------------------------------------------------
(* Stale transactions lose: whatever they read, both tables take documented steps only. *)
THEOREM TransitionsLegal == OrgSpec => LegalTransitions
<1> DEFINE Legal ==
      /\ organization' # organization => <<organization, organization'>> \in Allowed
      /\ approval' # approval =>
           /\ approval # Null /\ approval' # Null
           /\ <<approval.status, approval'.status>> \in
                {<<"PENDING", "APPROVED">>, <<"PENDING", "REJECTED">>, <<"REJECTED", "PENDING">>}
<1>1. LifecycleSound /\ [OrgNext]_orgVars => [Legal]_orgVars
  <2> SUFFICES ASSUME LifecycleSound, [OrgNext]_orgVars PROVE Legal
    OBVIOUS
  <2>1. CASE organization' = organization /\ approval' = approval
    BY <2>1
  <2>2. ASSUME NEW q \in Requests, WriteTransition(q)
        PROVE  Legal
    BY <2>2, TransitionKnows DEF WriteTransition
  <2>3. ASSUME NEW q \in Requests, Approve(q), approval' # approval \/ organization' # organization
        PROVE  Legal
    <3>1. Doing(q, Reviews) /\ Current(q) /\ request[q].kind = "approve"
      BY <2>3 DEF Approve, Doing, Reviews
    <3>2. approval # Null /\ approval.status = "PENDING"
      BY <3>1, ReviewKnows DEF Current, Reviewed
    <3>3. approval' = [status |-> "APPROVED", version |-> approval.version + 1]
      BY <2>3, <3>1 DEF Approve
    <3>4. approval' # Null
      BY <3>1, <3>3, ReviewRaises
    <3>5. organization' # organization => <<organization, organization'>> \in Allowed
      BY <2>3 DEF Approve
    <3> QED
      BY <3>2, <3>3, <3>4, <3>5
  <2>4. ASSUME NEW q \in Requests, RejectOrReopen(q), approval' # approval
        PROVE  Legal
    <3>1. Doing(q, Reviews) /\ Current(q) /\ request[q].kind \in {"reject", "reopen"}
      BY <2>4 DEF RejectOrReopen, Doing, Reviews
    <3>2. approval # Null /\ approval.status = Reviewed(request[q].kind)
      BY <3>1, ReviewKnows DEF Current
    <3> DEFINE s == IF request[q].kind = "reject" THEN "REJECTED" ELSE "PENDING"
    <3>3. approval' = [status |-> s, version |-> approval.version + 1]
      BY <2>4, <3>1 DEF RejectOrReopen
    <3>4. approval' # Null
      BY <3>1, <3>3, ReviewRaises
    <3>5. approval'.status = s /\ organization' = organization
      BY <2>4, <3>3 DEF RejectOrReopen
    <3> QED
      BY <3>1, <3>2, <3>4, <3>5 DEF Reviewed
  <2>5. ASSUME NEW q \in Requests, RejectOrReopen(q)
        PROVE  Legal
    BY <2>1, <2>4, <2>5 DEF RejectOrReopen
  <2> HIDE DEF Legal
  <2> QED
    BY <2>1, <2>2, <2>3, <2>5
    DEF OrgNext, orgVars, Lifecycle, ReadTransition, ReadReview, AbortRequest
<1> QED
  BY LifecycleInductive, <1>1, PTL DEF OrgSpec, LegalTransitions

-----------------------------------------------------------------------------
(* Reviews implement optimistic locking: a review is an edit that rests on the version *)
(* it read, and of two that rest on one version at most one wins.                      *)
THEOREM ReviewsRefine == OrgSpec => ImplementsReview
<1> DEFINE v == IF approval = Null THEN 1 ELSE approval.version
           b == [q \in Requests |-> IF Doing(q, Reviews) THEN request[q].version ELSE Null]
<1>1. OrgInit => Review!Init
  BY DEF OrgInit, Review!Init, Doing
<1>2. LifecycleSound /\ [OrgNext]_orgVars => [Review!Next]_(Review!vars)
  <2> SUFFICES ASSUME LifecycleSound, [OrgNext]_orgVars
               PROVE  Review!Next \/ (v' = v /\ b' = b)
    BY DEF Review!vars
  <2>0. request \in [Requests -> Request \cup {Null}]
    BY DEF LifecycleSound, OrgTypeOK
  <2>1. CASE UNCHANGED orgVars
    BY <2>1 DEF orgVars, Doing
  (* A transition reads or writes nothing of the approval. *)
  <2>2. ASSUME NEW q \in Requests, NEW kind \in Transitions, ReadTransition(q, kind)
        PROVE  v' = v /\ b' = b
    <3>1. \A p \in Requests : b'[p] = b[p]
      BY <2>0, <2>2 DEF ReadTransition, Doing, Transitions, Reviews
    <3> QED
      BY <2>2, <3>1 DEF ReadTransition
  <2>3. ASSUME NEW q \in Requests, WriteTransition(q)
        PROVE  v' = v /\ b' = b
    <3>1. \A p \in Requests : b'[p] = b[p]
      BY <2>0, <2>3 DEF WriteTransition, EndRequest, Doing, Transitions, Reviews
    <3> QED
      BY <2>3, <3>1 DEF WriteTransition
  (* A review that reads rests on the version of now. *)
  <2>4. ASSUME NEW q \in Requests, NEW kind \in Reviews, ReadReview(q, kind)
        PROVE  Review!Start(q)
    <3>1. b[q] = Null /\ v = approval.version
      BY <2>4 DEF ReadReview, Doing
    <3>2. request'[q] = [kind |-> kind, from |-> "PENDING", version |-> approval.version]
      BY <2>0, <2>4 DEF ReadReview
    <3>3. request'[q] # Null
      <4>1. approval.version \in 1..MaxVersion
        BY <2>4 DEF ReadReview, LifecycleSound, OrgTypeOK, Approval
      <4> QED
        BY <3>2, <4>1 DEF Request
    <3>4. b'[q] = v
      BY <3>1, <3>2, <3>3 DEF Doing
    <3>5. \A p \in Requests : p # q => b'[p] = b[p]
      BY <2>0, <2>4 DEF ReadReview, Doing
    <3>6. b' = [b EXCEPT ![q] = v]
      BY <3>4, <3>5
    <3> QED
      BY <2>4, <3>1, <3>6 DEF ReadReview, Review!Start
  (* A request that ends takes back what it rests on. *)
  <2>5. ASSUME NEW q \in Requests, EndRequest(q)
        PROVE  b' = [b EXCEPT ![q] = Null]
    <3>1. \A p \in Requests : b'[p] = IF p = q THEN Null ELSE b[p]
      BY <2>0, <2>5 DEF EndRequest, Doing
    <3> QED
      BY <3>1
  <2>6. ASSUME NEW q \in Requests, EndRequest(q), approval' = approval
        PROVE  Review!Lose(q) \/ (v' = v /\ b' = b)
    <3>1. b' = [b EXCEPT ![q] = Null] /\ v' = v
      BY <2>5, <2>6
    <3>2. CASE b[q] = Null
      BY <3>1, <3>2
    <3>3. CASE b[q] # Null
      BY <3>1, <3>3 DEF Review!Lose
    <3> QED
      BY <3>2, <3>3
  <2>7. ASSUME NEW q \in Requests, Approve(q) \/ RejectOrReopen(q), approval' # approval
        PROVE  Review!Win(q)
    <3>1. Doing(q, Reviews) /\ Current(q) /\ EndRequest(q)
      BY <2>7 DEF Approve, RejectOrReopen, Doing, Reviews
    <3>2. PICK s \in {"APPROVED", "REJECTED", "PENDING"} :
            approval' = [status |-> s, version |-> approval.version + 1]
      BY <2>7, <3>1 DEF Approve, RejectOrReopen
    <3>3. approval' # Null /\ approval'.version = approval.version + 1
      BY <3>1, <3>2, ReviewRaises
    <3>4. approval # Null /\ b[q] = approval.version
      BY <3>1, ReviewKnows, ReviewRaises
    <3>5. v = b[q] /\ v' = v + 1 /\ b' = [b EXCEPT ![q] = Null]
      BY <2>5, <3>1, <3>3, <3>4
    <3> QED
      BY <3>5 DEF Review!Win
  <2>8. ASSUME NEW q \in Requests, Approve(q) \/ RejectOrReopen(q) \/ AbortRequest(q)
        PROVE  Review!Next \/ (v' = v /\ b' = b)
    <3>1. EndRequest(q)
      BY <2>8 DEF Approve, RejectOrReopen, AbortRequest
    <3>2. CASE approval' = approval
      BY <2>6, <3>1, <3>2 DEF Review!Next
    <3>3. CASE approval' # approval
      BY <2>7, <2>8, <3>3 DEF AbortRequest, Review!Next
    <3> QED
      BY <3>2, <3>3
  <2> HIDE DEF v, b
  <2> QED
    BY <2>1, <2>2, <2>3, <2>4, <2>8 DEF OrgNext, Lifecycle, Review!Next
<1> QED
  BY LifecycleInductive, <1>1, <1>2, PTL DEF OrgSpec, ImplementsReview, Review!Spec

=============================================================================
