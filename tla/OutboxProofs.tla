---------------------------- MODULE OutboxProofs ----------------------------
(***************************************************************************)
(* Proofs about Outbox, for any number of events, workers and faults.      *)
(***************************************************************************)
EXTENDS Outbox, FiniteSetTheorems, TLAPS

(* A worker has a row in hand exactly while process() runs, and rows of a batch *)
(* only during a poll.                                                          *)
PhaseShape ==
  \A w \in Workers :
    /\ phase[w] \in {"down", "idle", "next"} <=> current[w] = NoClaim
    /\ phase[w] \in {"down", "idle"} => batch[w] = {}

TypeInv == TypeOK /\ PhaseShape

(* A retry delay is only computed for a claim that is not exhausted. *)
LEMMA RetryDelayType ==
  ASSUME NEW c \in Claims, ~Exhausted(c)
  PROVE  RetryDelay(c.attempts) \in Nat
BY RetryDelayAssumption, ConfigAssumption DEF Claims, Exhausted

(* The value of an empty hand is no claim. *)
LEMMA NoClaimIsNoClaim == NoClaim \notin Claims
BY ConfigAssumption DEF NoClaim, Claims

(* The types hold at first. *)
LEMMA InitType == Init => TypeInv
BY ConfigAssumption, NoClaimIsNoClaim
DEF Init, TypeInv, TypeOK, PhaseShape, Statuses, Phases, NoMetrics

(* What the table's columns may hold. *)
TableOK ==
  /\ status \in [Events -> Statuses]
  /\ attempts \in [Events -> Nat]
  /\ availableIn \in [Events -> Nat]
  /\ leaseOwner \in [Events -> Workers \cup {None}]
  /\ leaseLeft \in [Events -> 0..LeaseTimeout]

(* The settling updates keep the types of the table. *)
LEMMA SettleType ==
  ASSUME TypeOK, NEW e \in Events, NEW st \in Statuses, NEW n \in Nat, Settle(e, st, n)
  PROVE  TableOK'
BY ConfigAssumption DEF TypeOK, TableOK, Settle

(* The success update keeps the types of the table. *)
LEMMA MarkProcessedType ==
  ASSUME TypeOK, NEW e \in Events, MarkProcessed(e)
  PROVE  TableOK'
<1>1. availableIn[e] \in Nat /\ "PROCESSED" \in Statuses
  BY DEF TypeOK, Statuses
<1>2. QED
  BY <1>1, SettleType DEF MarkProcessed

(* The update of the catch block keeps the types of the table. *)
LEMMA MarkFailedType ==
  ASSUME TypeOK, NEW c \in Claims, MarkFailed(c)
  PROVE  TableOK'
<1>1. c.event \in Events /\ {"DEAD_LETTER", "PENDING"} \subseteq Statuses
  BY DEF Claims, Statuses
<1>2. CASE Exhausted(c)
  <2>1. availableIn[c.event] \in Nat
    BY <1>1 DEF TypeOK
  <2>2. QED
    BY <1>1, <1>2, <2>1, SettleType DEF MarkFailed
<1>3. CASE ~Exhausted(c)
  BY <1>1, <1>3, RetryDelayType, SettleType DEF MarkFailed
<1>4. QED
  BY <1>2, <1>3

(* A worker in the middle of process() has a claim in hand. *)
LEMMA CurrentIsClaim ==
  ASSUME TypeInv, NEW w \in Workers, phase[w] \notin {"down", "idle", "next"}
  PROVE  current[w] \in Claims /\ current[w].event \in Events
BY DEF TypeInv, TypeOK, PhaseShape, Claims

Metrics == [processed : Nat, retries : Nat, deadLetters : Nat]

(* Counting keeps the type of the counters. *)
LEMMA CountType ==
  ASSUME NEW w \in Workers, metrics \in [Workers -> Metrics]
  PROVE  /\ [metrics EXCEPT ![w].processed = @ + 1] \in [Workers -> Metrics]
         /\ [metrics EXCEPT ![w].retries = @ + 1] \in [Workers -> Metrics]
         /\ [metrics EXCEPT ![w].deadLetters = @ + 1] \in [Workers -> Metrics]
<1>1. metrics[w] \in Metrics
  OBVIOUS
<1>2. /\ [metrics[w] EXCEPT !.processed = @ + 1] \in Metrics
      /\ [metrics[w] EXCEPT !.retries = @ + 1] \in Metrics
      /\ [metrics[w] EXCEPT !.deadLetters = @ + 1] \in Metrics
  BY <1>1 DEF Metrics
<1>3. QED
  BY <1>2

(* Every step keeps the types, and the shape of a worker's poll. *)
LEMMA TypeStep == TypeInv /\ [Next]_vars => TypeInv'
<1> SUFFICES ASSUME TypeInv, [Next]_vars PROVE TypeInv'
  OBVIOUS
<1> USE NoClaimIsNoClaim
<1>1. ASSUME NEW e \in Events, Produce(e) PROVE TypeInv'
  BY <1>1 DEF Produce, TypeInv, TypeOK, PhaseShape, Statuses, worker, world
<1>2. ASSUME NEW w \in Workers, Start(w) PROVE TypeInv'
  BY <1>2 DEF Start, TypeInv, TypeOK, PhaseShape, Phases, NoMetrics, table, world
<1>3. ASSUME NEW w \in Workers, Poll(w) PROVE TypeInv'
  <2>1. PICK S \in SUBSET Events :
          /\ status' = [e \in Events |-> IF e \in S THEN "PROCESSING" ELSE status[e]]
          /\ leaseOwner' = [e \in Events |-> IF e \in S THEN w ELSE leaseOwner[e]]
          /\ leaseLeft' = [e \in Events |-> IF e \in S THEN LeaseTimeout ELSE leaseLeft[e]]
          /\ attempts' = [e \in Events |-> IF e \in S THEN attempts[e] + 1 ELSE attempts[e]]
          /\ batch' = [batch EXCEPT ![w] =
                         {[event |-> e, attempts |-> attempts[e] + 1] : e \in S}]
    BY <1>3 DEF Poll, Claim
  <2>2. TableOK'
    BY <2>1, <1>3, ConfigAssumption DEF Poll, TypeInv, TypeOK, TableOK, Statuses
  <2>3. {[event |-> e, attempts |-> attempts[e] + 1] : e \in S} \subseteq Claims
    BY DEF TypeInv, TypeOK, Claims
  <2>4. batch' \in [Workers -> SUBSET Claims]
    BY <2>1, <2>3 DEF TypeInv, TypeOK
  <2>5. QED
    BY <1>3, <2>1, <2>2, <2>4 DEF Poll, TypeInv, TypeOK, TableOK, PhaseShape, Phases, world
<1>4. ASSUME NEW w \in Workers, Process(w) PROVE TypeInv'
  BY <1>4 DEF Process, TypeInv, TypeOK, PhaseShape, Phases, table, world
<1>5. ASSUME NEW w \in Workers, PollDone(w) PROVE TypeInv'
  BY <1>5 DEF PollDone, TypeInv, TypeOK, PhaseShape, Phases, table, world
<1>6. ASSUME NEW w \in Workers, HandleOk(w) PROVE TypeInv'
  BY <1>6, CurrentIsClaim
  DEF HandleOk, Goto, TypeInv, TypeOK, PhaseShape, Phases, Claims, table
<1>7. ASSUME NEW w \in Workers, HandleError(w) PROVE TypeInv'
  BY <1>7 DEF HandleError, Goto, TypeInv, TypeOK, PhaseShape, Phases, table, world
<1>8. ASSUME NEW w \in Workers, HandlePartial(w) PROVE TypeInv'
  <2>1. faults' \in 0..MaxFaults
    BY <1>8, ConfigAssumption DEF HandlePartial, Spend, TypeInv, TypeOK
  <2>2. handled' \in [Events -> SUBSET Nat]
    BY <1>8, CurrentIsClaim DEF HandlePartial, TypeInv, TypeOK, Claims
  <2>3. QED
    BY <1>8, <2>1, <2>2
    DEF HandlePartial, Goto, TypeInv, TypeOK, PhaseShape, Phases, table
<1>9. ASSUME NEW w \in Workers, Complete(w) PROVE TypeInv'
  <2>1. TableOK'
    BY <1>9, CurrentIsClaim, MarkProcessedType
    DEF Complete, TypeInv, TypeOK, TableOK, table
  <2>2. QED
    BY <1>9, <2>1
    DEF Complete, Goto, Return, TypeInv, TypeOK, TableOK, PhaseShape, Phases, world
<1>10. ASSUME NEW w \in Workers, CompleteError(w) PROVE TypeInv'
  <2>1. TableOK'
    BY <1>10, CurrentIsClaim, MarkProcessedType
    DEF CompleteError, TypeInv, TypeOK, TableOK, table
  <2>2. QED
    BY <1>10, <2>1, ConfigAssumption
    DEF CompleteError, Spend, Goto, TypeInv, TypeOK, TableOK, PhaseShape, Phases, world
<1>11. ASSUME NEW w \in Workers, Audit(w) PROVE TypeInv'
  <2>1. metrics' \in [Workers -> Metrics]
    BY <1>11, CountType DEF Audit, TypeInv, TypeOK, Metrics
  <2>2. audits' \in [Events -> Nat]
    <3>1. current[w].event \in Events
      BY <1>11, CurrentIsClaim DEF Audit
    <3>2. audits \in [Events -> Nat] /\ audits[current[w].event] \in Nat
      BY <3>1 DEF TypeInv, TypeOK
    <3>3. audits' = [audits EXCEPT ![current[w].event] = @ + 1]
      BY <1>11 DEF Audit
    <3>4. QED
      BY <3>1, <3>2, <3>3
  <2>3. QED
    BY <1>11, <2>1, <2>2
    DEF Audit, Return, TypeInv, TypeOK, PhaseShape, Phases, Metrics, table
<1>12. ASSUME NEW w \in Workers, AuditError(w) PROVE TypeInv'
  <2>1. audits' \in [Events -> Nat]
    <3>1. current[w].event \in Events
      BY <1>12, CurrentIsClaim DEF AuditError
    <3>2. audits \in [Events -> Nat] /\ audits[current[w].event] \in Nat
      BY <3>1 DEF TypeInv, TypeOK
    <3>3. audits' \in {audits, [audits EXCEPT ![current[w].event] = @ + 1]}
      BY <1>12 DEF AuditError
    <3>4. QED
      BY <3>1, <3>2, <3>3
  <2>2. faults' \in 0..MaxFaults
    BY <1>12, ConfigAssumption DEF AuditError, Spend, TypeInv, TypeOK
  <2>3. QED
    BY <1>12, <2>1, <2>2
    DEF AuditError, Goto, TypeInv, TypeOK, PhaseShape, Phases, table
<1>13. ASSUME NEW w \in Workers, Fail(w) PROVE TypeInv'
  <2>1. TableOK'
    BY <1>13, CurrentIsClaim, MarkFailedType
    DEF Fail, TypeInv, TypeOK, TableOK, table
  <2>2. metrics' \in [Workers -> Metrics]
    BY <1>13, CountType DEF Fail, TypeInv, TypeOK, Metrics
  <2>3. QED
    BY <1>13, <2>1, <2>2
    DEF Fail, Return, TypeInv, TypeOK, TableOK, PhaseShape, Phases, Metrics, world
<1>14. ASSUME NEW w \in Workers, FailError(w) PROVE TypeInv'
  <2>1. TableOK'
    BY <1>14, CurrentIsClaim, MarkFailedType
    DEF FailError, TypeInv, TypeOK, TableOK, table
  <2>2. QED
    BY <1>14, <2>1, ConfigAssumption
    DEF FailError, Spend, TypeInv, TypeOK, TableOK, PhaseShape, Phases, world
<1>15. ASSUME NEW w \in Workers, Crash(w) PROVE TypeInv'
  BY <1>15, ConfigAssumption
  DEF Crash, Spend, TypeInv, TypeOK, PhaseShape, Phases, table, world
<1>16. ASSUME Tick PROVE TypeInv'
  <2>1. faults' \in 0..MaxFaults
    BY <1>16, ConfigAssumption DEF Tick, Spend, TypeInv, TypeOK
  <2>2. leaseLeft' \in [Events -> 0..LeaseTimeout] /\ availableIn' \in [Events -> Nat]
    BY <1>16, ConfigAssumption DEF Tick, Down1, TypeInv, TypeOK
  <2>3. QED
    BY <1>16, <2>1, <2>2 DEF Tick, TypeInv, TypeOK, PhaseShape, worker, world
<1>17. CASE UNCHANGED vars
  BY <1>17 DEF vars, table, worker, world, TypeInv, TypeOK, PhaseShape
<1>18. QED
  BY <1>1, <1>2, <1>3, <1>4, <1>5, <1>6, <1>7, <1>8, <1>9, <1>10, <1>11, <1>12,
     <1>13, <1>14, <1>15, <1>16, <1>17
  DEF Next, Progress, Fault, Quiescent

(* The variables of the outbox and of its workers keep their types. *)
THEOREM TypeCorrect == Spec => []TypeOK
<1>1. TypeInv => TypeOK
  BY DEF TypeInv
<1>2. QED
  BY <1>1, InitType, TypeStep, PTL DEF Spec

-----------------------------------------------------------------------------
(* What one step does to a row, to the hands of the workers, and to the     *)
(* history: the facts the invariance proofs below rest on.                   *)

(* Every step but a claim. *)
Other ==
  \/ \E e \in Events : Produce(e)
  \/ \E w \in Workers : Start(w) \/ Progress(w) \/ Fault(w)
  \/ Tick
  \/ UNCHANGED vars

(* A step is a claim, or one of the others. *)
LEMMA StepSplit == [Next]_vars => Other \/ \E w \in Workers : Poll(w)
BY DEF Next, Other, Quiescent

(* The worker w settles the row e that it holds. *)
SettledBy(w, e) ==
  /\ Holds(w, e)
  /\ current[w].event = e
  /\ leaseOwner'[e] = None
  /\ \/ /\ phase[w] = "complete"
        /\ phase'[w] \in {"audit", "fail"}
        /\ current'[w] = current[w]
        /\ status'[e] = "PROCESSED"
     \/ /\ phase[w] = "fail"
        /\ phase'[w] \in {"next", "idle"}
        /\ Exhausted(current[w])
        /\ status'[e] = "DEAD_LETTER"
     \/ /\ phase[w] = "fail"
        /\ phase'[w] \in {"next", "idle"}
        /\ ~Exhausted(current[w])
        /\ status'[e] = "PENDING"

RowStep(e) ==
  \/ status'[e] = status[e] /\ leaseOwner'[e] = leaseOwner[e]
  \/ status[e] = "ABSENT" /\ status'[e] = "PENDING" /\ leaseOwner'[e] = leaseOwner[e]
  \/ \E w \in Workers : SettledBy(w, e)

(* A settling update changes one row, and releases it. *)
LEMMA SettleRow ==
  ASSUME TypeOK, NEW d \in Events, NEW e \in Events, NEW st, NEW n, Settle(d, st, n)
  PROVE  /\ attempts' = attempts
         /\ d # e => /\ status'[e] = status[e]
                     /\ leaseOwner'[e] = leaseOwner[e]
                     /\ leaseLeft'[e] = leaseLeft[e]
         /\ d = e => status'[e] = st /\ leaseOwner'[e] = None
BY DEF Settle, TypeOK

(* Other than by a claim, a row changes only by being inserted, or by the hand of *)
(* the worker that holds it and is processing it.                                  *)
LEMMA OtherRow ==
  ASSUME TypeInv, Other, NEW e \in Events
  PROVE  RowStep(e) /\ attempts' = attempts
<1>1. ASSUME NEW d \in Events, Produce(d) PROVE RowStep(e) /\ attempts' = attempts
  BY <1>1 DEF Produce, RowStep, TypeInv, TypeOK
<1>2. CASE UNCHANGED table
  BY <1>2 DEF table, RowStep
<1>3. ASSUME NEW w \in Workers, Complete(w) PROVE RowStep(e) /\ attempts' = attempts
  <2>1. current[w].event \in Events /\ phase'[w] \in {"audit", "next"}
    BY <1>3, CurrentIsClaim DEF Complete, Goto, Return, TypeInv, TypeOK
  <2>2. CASE Holds(w, current[w].event)
    <3>1. MarkProcessed(current[w].event) /\ Goto(w, "audit") /\ phase[w] = "complete"
      BY <1>3, <2>2 DEF Complete
    <3>2. phase'[w] = "audit" /\ current'[w] = current[w]
      BY <3>1 DEF Goto, TypeInv, TypeOK
    <3>3. QED
      BY <2>1, <2>2, <3>1, <3>2, SettleRow
      DEF MarkProcessed, RowStep, SettledBy, TypeInv
  <2>3. CASE ~Holds(w, current[w].event)
    BY <1>2, <1>3, <2>3 DEF Complete
  <2>4. QED
    BY <2>2, <2>3
<1>4. ASSUME NEW w \in Workers, CompleteError(w) PROVE RowStep(e) /\ attempts' = attempts
  <2>1. current[w].event \in Events /\ phase[w] = "complete"
    BY <1>4, CurrentIsClaim DEF CompleteError
  <2>2. phase'[w] = "fail" /\ current'[w] = current[w]
    BY <1>4 DEF CompleteError, Goto, TypeInv, TypeOK
  <2>3. CASE Holds(w, current[w].event) /\ MarkProcessed(current[w].event)
    BY <2>1, <2>2, <2>3, SettleRow DEF MarkProcessed, RowStep, SettledBy, TypeInv
  <2>4. QED
    BY <1>2, <1>4, <2>3 DEF CompleteError
<1>5. ASSUME NEW w \in Workers, Fail(w) \/ FailError(w)
      PROVE  RowStep(e) /\ attempts' = attempts
  <2>1. current[w].event \in Events /\ phase[w] = "fail"
    BY <1>5, CurrentIsClaim DEF Fail, FailError
  <2>2. phase'[w] \in {"next", "idle"}
    BY <1>5 DEF Fail, FailError, Return, TypeInv, TypeOK
  <2>3. CASE Holds(w, current[w].event) /\ MarkFailed(current[w])
    BY <2>1, <2>2, <2>3, SettleRow DEF MarkFailed, RowStep, SettledBy, TypeInv
  <2>4. QED
    BY <1>2, <1>5, <2>3 DEF Fail, FailError
<1>6. ASSUME Tick PROVE RowStep(e) /\ attempts' = attempts
  BY <1>6 DEF Tick, RowStep
<1>7. QED
  BY <1>1, <1>2, <1>3, <1>4, <1>5, <1>6
  DEF Other, Progress, Fault, Start, Process, PollDone, HandleOk, HandleError,
      HandlePartial, Audit, AuditError, Crash, vars

(* Other than by a claim, hands only let go. *)
LEMMA OtherHands ==
  ASSUME TypeInv, HandsDistinct, Other, NEW v \in Workers
  PROVE  InHands(v)' \subseteq InHands(v) /\ current'[v] \notin batch'[v]
<1> USE NoClaimIsNoClaim DEF InHands, TypeInv, TypeOK, HandsDistinct
<1>1. CASE UNCHANGED <<current, batch>>
  BY <1>1
<1>2. ASSUME NEW w \in Workers, Process(w)
      PROVE  InHands(v)' \subseteq InHands(v) /\ current'[v] \notin batch'[v]
  BY <1>2 DEF Process
<1>3. ASSUME NEW w \in Workers, Return(w), UNCHANGED batch
      PROVE  InHands(v)' \subseteq InHands(v) /\ current'[v] \notin batch'[v]
  BY <1>3 DEF Return
<1>4. ASSUME NEW w \in Workers,
             current' = [current EXCEPT ![w] = NoClaim], batch' = [batch EXCEPT ![w] = {}]
      PROVE  InHands(v)' \subseteq InHands(v) /\ current'[v] \notin batch'[v]
  BY <1>4
<1>5. QED
  BY <1>1, <1>2, <1>3, <1>4
  DEF Other, Progress, Fault, Produce, Start, PollDone, HandleOk, HandleError,
      HandlePartial, Complete, CompleteError, Audit, AuditError, Fail, FailError, Crash,
      Goto, Tick, worker, vars

(* The claim, row by row and hand by hand. *)
PollEffect(w, S) ==
  /\ phase[w] = "idle" /\ InHands(w) = {}
  /\ \A e \in S : /\ Claimable(e)
                  /\ status'[e] = "PROCESSING"
                  /\ leaseOwner'[e] = w
                  /\ leaseLeft'[e] = LeaseTimeout
                  /\ attempts'[e] = attempts[e] + 1
  /\ \A e \in Events \ S : /\ status'[e] = status[e]
                           /\ leaseOwner'[e] = leaseOwner[e]
                           /\ leaseLeft'[e] = leaseLeft[e]
                           /\ attempts'[e] = attempts[e]
  /\ batch'[w] = {[event |-> e, attempts |-> attempts[e] + 1] : e \in S}
  /\ current'[w] = NoClaim
  /\ InHands(w)' = batch'[w]
  /\ phase'[w] = "next"
  /\ \A v \in Workers \ {w} : /\ phase'[v] = phase[v]
                               /\ current'[v] = current[v]
                               /\ batch'[v] = batch[v]
                               /\ InHands(v)' = InHands(v)
  /\ UNCHANGED <<handled, audits, faults>>

(* What a claim does to the table and to the hands of its worker. *)
LEMMA PollRows ==
  ASSUME TypeInv, NEW w \in Workers, Poll(w)
  PROVE  \E S \in SUBSET Events : PollEffect(w, S)
<1>1. PICK S \in SUBSET Events :
        /\ Oldest(S)
        /\ status' = [e \in Events |-> IF e \in S THEN "PROCESSING" ELSE status[e]]
        /\ leaseOwner' = [e \in Events |-> IF e \in S THEN w ELSE leaseOwner[e]]
        /\ leaseLeft' = [e \in Events |-> IF e \in S THEN LeaseTimeout ELSE leaseLeft[e]]
        /\ attempts' = [e \in Events |-> IF e \in S THEN attempts[e] + 1 ELSE attempts[e]]
        /\ batch' = [batch EXCEPT ![w] =
                       {[event |-> e, attempts |-> attempts[e] + 1] : e \in S}]
  BY DEF Poll, Claim
<1>2. \A e \in S : Claimable(e)
  BY <1>1 DEF Oldest, ClaimableEvents
<1>3. /\ phase[w] = "idle" /\ current[w] = NoClaim /\ batch[w] = {}
      /\ phase' = [phase EXCEPT ![w] = "next"]
      /\ UNCHANGED <<current, handled, audits, faults>>
  BY DEF Poll, TypeInv, PhaseShape, world
<1>4. /\ \A e \in S : /\ status'[e] = "PROCESSING"
                      /\ leaseOwner'[e] = w
                      /\ leaseLeft'[e] = LeaseTimeout
                      /\ attempts'[e] = attempts[e] + 1
      /\ \A e \in Events \ S : /\ status'[e] = status[e]
                               /\ leaseOwner'[e] = leaseOwner[e]
                               /\ leaseLeft'[e] = leaseLeft[e]
                               /\ attempts'[e] = attempts[e]
  BY <1>1
<1>5. /\ batch'[w] = {[event |-> e, attempts |-> attempts[e] + 1] : e \in S}
      /\ \A v \in Workers \ {w} : batch'[v] = batch[v] /\ phase'[v] = phase[v]
      /\ phase'[w] = "next"
  BY <1>1, <1>3 DEF TypeInv, TypeOK
<1>6. /\ InHands(w) = {} /\ InHands(w)' = batch'[w]
      /\ \A v \in Workers \ {w} : InHands(v)' = InHands(v)
  BY <1>3, <1>5 DEF InHands
<1>7. QED
  BY <1>2, <1>3, <1>4, <1>5, <1>6 DEF PollEffect

(* What a worker holds are claims, each with an attempt. *)
LEMMA HandsAreClaims ==
  ASSUME TypeInv, NEW w \in Workers, NEW c \in InHands(w)
  PROVE  c \in Claims /\ c.event \in Events /\ c.attempts \in Nat \ {0}
BY DEF TypeInv, TypeOK, InHands, Claims

-----------------------------------------------------------------------------
(* One lemma per conjunct of the inductive invariant. *)

(* No worker ever holds a claim that the table does not know. *)
LEMMA HandsKnownStep ==
  ASSUME TypeInv, HandsKnown, HandsDistinct, [Next]_vars
  PROVE  HandsKnown'
<1>1. SUFFICES ASSUME NEW v \in Workers, NEW c \in InHands(v)'
               PROVE  status'[c.event] # "ABSENT" /\ c.attempts <= attempts'[c.event]
  BY DEF HandsKnown
<1>2. CASE Other
  <2>1. c \in InHands(v) /\ c.event \in Events
    BY <1>2, OtherHands, HandsAreClaims
  <2>2. status[c.event] # "ABSENT" /\ c.attempts <= attempts[c.event]
    BY <2>1 DEF HandsKnown
  <2>3. RowStep(c.event) /\ attempts' = attempts
    BY <1>2, <2>1, OtherRow
  <2>4. QED
    BY <2>2, <2>3 DEF RowStep, SettledBy
<1>3. ASSUME NEW w \in Workers, Poll(w)
      PROVE  status'[c.event] # "ABSENT" /\ c.attempts <= attempts'[c.event]
  <2>1. PICK S \in SUBSET Events : PollEffect(w, S)
    BY <1>3, PollRows
  <2>2. CASE v = w
    <3>1. PICK e \in S : c = [event |-> e, attempts |-> attempts[e] + 1]
      BY <2>1, <2>2 DEF PollEffect
    <3>2. QED
      BY <2>1, <3>1 DEF PollEffect, TypeInv, TypeOK
  <2>3. CASE v # w
    <3>1. c \in InHands(v) /\ c.event \in Events /\ c.attempts \in Nat
      BY <2>1, <2>3, HandsAreClaims DEF PollEffect
    <3>2. status[c.event] # "ABSENT" /\ c.attempts <= attempts[c.event]
      BY <3>1 DEF HandsKnown
    <3>3. attempts[c.event] \in Nat
      BY <3>1 DEF TypeInv, TypeOK
    <3>4. CASE c.event \in S
      BY <2>1, <3>1, <3>2, <3>3, <3>4 DEF PollEffect
    <3>5. CASE c.event \notin S
      BY <2>1, <3>1, <3>2, <3>5 DEF PollEffect
    <3>6. QED
      BY <3>4, <3>5
  <2>4. QED
    BY <2>2, <2>3
<1>4. QED
  BY <1>2, <1>3, StepSplit

(* No two workers ever hold one attempt. *)
LEMMA HandsDistinctStep ==
  ASSUME TypeInv, HandsKnown, HandsDistinct, [Next]_vars
  PROVE  HandsDistinct'
<1>1. CASE Other
  BY <1>1, OtherHands DEF HandsDistinct
<1>2. ASSUME NEW w \in Workers, Poll(w) PROVE HandsDistinct'
  <2>1. PICK S \in SUBSET Events : PollEffect(w, S)
    BY <1>2, PollRows
  (* A new claim is ahead of every claim made before. *)
  <2>2. ASSUME NEW v \in Workers \ {w}, NEW c \in InHands(v)
        PROVE  c \notin InHands(w)'
    <3>1. c.event \in Events /\ c.attempts \in Nat /\ c.attempts <= attempts[c.event]
      BY HandsAreClaims DEF HandsKnown
    <3>2. SUFFICES ASSUME NEW e \in S, c = [event |-> e, attempts |-> attempts[e] + 1]
                   PROVE  FALSE
      BY <2>1 DEF PollEffect
    <3>3. QED
      BY <3>1, <3>2 DEF TypeInv, TypeOK
  <2>3. \A x, v \in Workers : \A c \in InHands(x)' : c \in InHands(v)' => x = v
    BY <2>1, <2>2 DEF PollEffect, HandsDistinct
  <2>4. NoClaim \notin batch'[w]
    BY <2>1, TypeStep, NoClaimIsNoClaim DEF TypeInv, TypeOK
  <2>5. \A v \in Workers : current'[v] \notin batch'[v]
    BY <2>1, <2>4 DEF PollEffect, HandsDistinct
  <2>6. QED
    BY <2>3, <2>5 DEF HandsDistinct
<1>3. QED
  BY <1>1, <1>2, StepSplit

(* A row has an owner exactly while it is PROCESSING, after every step. *)
LEMMA LeaseShapeStep ==
  ASSUME TypeInv, LeaseShape, [Next]_vars
  PROVE  LeaseShape'
<1>1. SUFFICES ASSUME NEW e \in Events
               PROVE  /\ status'[e] = "PROCESSING" <=> leaseOwner'[e] # None
                      /\ status'[e] = "ABSENT" => attempts'[e] = 0
  BY DEF LeaseShape
<1>2. CASE Other
  BY <1>2, OtherRow DEF RowStep, SettledBy, Holds, LeaseShape
<1>3. ASSUME NEW w \in Workers, Poll(w)
      PROVE  /\ status'[e] = "PROCESSING" <=> leaseOwner'[e] # None
             /\ status'[e] = "ABSENT" => attempts'[e] = 0
  BY <1>3, PollRows, ConfigAssumption DEF PollEffect, LeaseShape
<1>4. QED
  BY <1>2, <1>3, StepSplit

(* Every step keeps the claims of lease owners current. *)
LEMMA ClaimIsCurrentStep ==
  ASSUME TypeInv, HandsDistinct, ClaimIsCurrent, [Next]_vars
  PROVE  ClaimIsCurrent'
<1>1. SUFFICES ASSUME NEW v \in Workers, NEW c \in InHands(v)', Holds(v, c.event)'
               PROVE  c.attempts = attempts'[c.event]
  BY DEF ClaimIsCurrent
<1>2. CASE Other
  <2>1. c \in InHands(v) /\ c.event \in Events
    BY <1>2, OtherHands, HandsAreClaims
  <2>2. RowStep(c.event) /\ attempts' = attempts
    BY <1>2, <2>1, OtherRow
  <2>3. Holds(v, c.event)
    BY <1>1, <2>2, ConfigAssumption DEF RowStep, SettledBy, Holds
  <2>4. QED
    BY <2>1, <2>2, <2>3 DEF ClaimIsCurrent
<1>3. ASSUME NEW w \in Workers, Poll(w) PROVE c.attempts = attempts'[c.event]
  <2>1. PICK S \in SUBSET Events : PollEffect(w, S)
    BY <1>3, PollRows
  <2>2. CASE v = w
    BY <2>1, <2>2 DEF PollEffect
  <2>3. CASE v # w
    <3>1. c \in InHands(v) /\ c.event \in Events
      BY <2>1, <2>3, HandsAreClaims DEF PollEffect
    <3>2. c.event \notin S
      BY <1>1, <2>1, <2>3 DEF PollEffect, Holds
    <3>3. QED
      BY <1>1, <2>1, <3>1, <3>2 DEF PollEffect, Holds, ClaimIsCurrent
  <2>4. QED
    BY <2>2, <2>3
<1>4. QED
  BY <1>2, <1>3, StepSplit

(* Every step dead-letters exhausted rows only. *)
LEMMA DeadLetterExhaustedStep ==
  ASSUME TypeInv, ClaimIsCurrent, DeadLetterExhausted, [Next]_vars
  PROVE  DeadLetterExhausted'
<1>1. SUFFICES ASSUME NEW e \in Events, status'[e] = "DEAD_LETTER"
               PROVE  attempts'[e] >= MaximumAttempts
  BY DEF DeadLetterExhausted
<1>2. CASE Other
  <2>1. RowStep(e) /\ attempts' = attempts
    BY <1>2, OtherRow
  <2>2. ASSUME NEW w \in Workers, SettledBy(w, e) PROVE attempts[e] >= MaximumAttempts
    <3>1. current[w] \in InHands(w) /\ Exhausted(current[w]) /\ Holds(w, e)
          /\ current[w].event = e
      BY <1>1, <2>2, CurrentIsClaim, NoClaimIsNoClaim DEF SettledBy, InHands
    <3>2. QED
      BY <3>1 DEF ClaimIsCurrent, Exhausted
  <2>3. QED
    BY <1>1, <2>1, <2>2 DEF RowStep, DeadLetterExhausted
<1>3. ASSUME NEW w \in Workers, Poll(w) PROVE attempts'[e] >= MaximumAttempts
  BY <1>1, <1>3, PollRows DEF PollEffect, DeadLetterExhausted
<1>4. QED
  BY <1>2, <1>3, StepSplit

-----------------------------------------------------------------------------
(* The history variables, and where a worker stands. *)

(* An effect is recorded by the worker whose handler is running, for its claim. *)
HandledStep(e) ==
  /\ handled[e] \subseteq handled'[e]
  /\ \A n \in handled'[e] \ handled[e] :
       \E w \in Workers :
         /\ phase[w] = "handle" /\ phase'[w] \in {"complete", "fail"}
         /\ current[w].event = e /\ current[w].attempts = n

(* What a step other than a claim does to the attempts handled. *)
LEMMA OtherHandled ==
  ASSUME TypeInv, Other, NEW e \in Events
  PROVE  HandledStep(e)
<1>1. CASE UNCHANGED handled
  BY <1>1 DEF HandledStep
<1>2. ASSUME NEW w \in Workers, HandleOk(w) \/ HandlePartial(w)
      PROVE  HandledStep(e)
  <2>1. phase[w] = "handle" /\ phase'[w] \in {"complete", "fail"}
        /\ handled' = [handled EXCEPT ![current[w].event] = @ \cup {current[w].attempts}]
    BY <1>2 DEF HandleOk, HandlePartial, Goto, TypeInv, TypeOK
  <2>2. QED
    BY <2>1 DEF HandledStep, TypeInv, TypeOK
<1>3. QED
  BY <1>1, <1>2
  DEF Other, Progress, Fault, Produce, Start, Process, PollDone, HandleError, Complete,
      CompleteError, Audit, AuditError, Fail, FailError, Crash, Tick, world, vars

(* Where a worker can come from. *)
PhaseStep(v) ==
  /\ batch'[v] \subseteq batch[v]
  /\ phase'[v] = "handle" =>
       \/ phase[v] = "handle" /\ current'[v] = current[v]
       \/ current'[v] \in batch[v]
  /\ phase'[v] = "complete" =>
       /\ current'[v] = current[v]
       /\ \/ phase[v] = "complete"
          \/ phase[v] = "handle" /\ current[v].attempts \in handled'[current[v].event]
  /\ phase'[v] = "audit" =>
       /\ current'[v] = current[v]
       /\ \/ phase[v] = "audit"
          \/ /\ phase[v] = "complete"
             /\ Holds(v, current[v].event)
             /\ status'[current[v].event] = "PROCESSED"

(* How a step other than a claim moves a worker. *)
LEMMA OtherPhase ==
  ASSUME TypeInv, Other, NEW v \in Workers
  PROVE  PhaseStep(v)
<1>1. CASE UNCHANGED <<phase, current, batch>>
  BY <1>1 DEF PhaseStep
<1>2. ASSUME NEW w \in Workers, Start(w) \/ Process(w) \/ PollDone(w)
      PROVE  PhaseStep(v)
  BY <1>2 DEF Start, Process, PollDone, PhaseStep, TypeInv, TypeOK
<1>3. ASSUME NEW w \in Workers, HandleOk(w) PROVE PhaseStep(v)
  <2>1. /\ current[w].event \in Events /\ phase[w] = "handle"
        /\ phase' = [phase EXCEPT ![w] = "complete"]
        /\ handled' = [handled EXCEPT ![current[w].event] = @ \cup {current[w].attempts}]
        /\ UNCHANGED <<current, batch>>
    BY <1>3, CurrentIsClaim DEF HandleOk, Goto
  <2>2. current[w].attempts \in handled'[current[w].event]
    BY <2>1 DEF TypeInv, TypeOK
  <2>3. QED
    BY <2>1, <2>2 DEF PhaseStep, TypeInv, TypeOK
<1>4. ASSUME NEW w \in Workers, phase' = [phase EXCEPT ![w] = "fail"], UNCHANGED <<current, batch>>
      PROVE  PhaseStep(v)
  BY <1>4 DEF PhaseStep, TypeInv, TypeOK
<1>5. ASSUME NEW w \in Workers, Return(w), UNCHANGED batch PROVE PhaseStep(v)
  BY <1>5 DEF Return, PhaseStep, TypeInv, TypeOK
<1>6. ASSUME NEW w \in Workers, phase[w] = "complete", Holds(w, current[w].event),
             MarkProcessed(current[w].event), Goto(w, "audit"), UNCHANGED batch
      PROVE  PhaseStep(v)
  <2>1. current[w].event \in Events
    BY <1>6, CurrentIsClaim
  <2>2. status'[current[w].event] = "PROCESSED"
    BY <1>6, <2>1 DEF MarkProcessed, Settle, TypeInv, TypeOK
  <2>3. QED
    BY <1>6, <2>2 DEF Goto, PhaseStep, TypeInv, TypeOK
<1>7. ASSUME NEW w \in Workers, phase' \in {[phase EXCEPT ![w] = "idle"], [phase EXCEPT ![w] = "down"]},
             batch' = [batch EXCEPT ![w] = {}], current' = [current EXCEPT ![w] = NoClaim]
      PROVE  PhaseStep(v)
  BY <1>7 DEF PhaseStep, TypeInv, TypeOK
<1>8. QED
  BY <1>1, <1>2, <1>3, <1>4, <1>5, <1>6, <1>7
  DEF Other, Progress, Fault, Produce, HandleError, HandlePartial, Complete,
      CompleteError, Audit, AuditError, Fail, FailError, Crash, Goto, Tick, worker, vars

(* A worker past its handler has handled its claim, after every step. *)
LEMMA HandledOnceStep ==
  ASSUME TypeInv, HandsKnown, HandsDistinct, HandledOnce, [Next]_vars
  PROVE  HandledOnce'
<1> DEFINE Fresh(c) == c.attempts \notin handled[c.event]
<1>1. CASE Other
  (* A claim some worker is about to deliver is in no other hand. *)
  <2>1. ASSUME NEW v \in Workers, NEW c \in InHands(v), Fresh(c),
               c.attempts \in handled'[c.event]
        PROVE  c = current[v] /\ phase[v] = "handle" /\ phase'[v] \in {"complete", "fail"}
    <3>1. c \in Claims /\ c.event \in Events
      BY HandsAreClaims
    <3>2. PICK w \in Workers :
            /\ phase[w] = "handle" /\ phase'[w] \in {"complete", "fail"}
            /\ current[w].event = c.event /\ current[w].attempts = c.attempts
      BY <1>1, <2>1, <3>1, OtherHandled DEF HandledStep
    <3>3. current[w] \in Claims
      BY <3>2, CurrentIsClaim
    <3>4. current[w] = c /\ c \in InHands(w)
      BY <3>1, <3>2, <3>3, NoClaimIsNoClaim DEF Claims, InHands
    <3>5. QED
      BY <3>2, <3>4 DEF HandsDistinct
  <2>2. ASSUME NEW v \in Workers, NEW c \in batch'[v]
        PROVE  c.attempts \notin handled'[c.event]
    <3>1. c \in batch[v] /\ c \in InHands(v) /\ Fresh(c)
      BY <1>1, OtherPhase DEF PhaseStep, InHands, HandledOnce
    <3>2. QED
      BY <2>1, <3>1 DEF HandsDistinct
  <2>3. ASSUME NEW v \in Workers, phase'[v] = "handle"
        PROVE  current'[v].attempts \notin handled'[current'[v].event]
    <3>1. CASE phase[v] = "handle" /\ current'[v] = current[v]
      <4>1. current[v] \in InHands(v) /\ Fresh(current[v])
        BY <3>1, CurrentIsClaim, NoClaimIsNoClaim DEF InHands, HandledOnce
      <4>2. QED
        BY <2>1, <2>3, <3>1, <4>1
    <3>2. CASE current'[v] \in batch[v]
      <4>1. current'[v] \in InHands(v) /\ Fresh(current'[v])
        BY <3>2 DEF InHands, HandledOnce
      <4>2. QED
        BY <2>1, <3>2, <4>1 DEF HandsDistinct
    <3>3. QED
      BY <1>1, <2>3, <3>1, <3>2, OtherPhase DEF PhaseStep
  <2>4. ASSUME NEW v \in Workers, phase'[v] \in {"complete", "audit"}
        PROVE  current'[v].attempts \in handled'[current'[v].event]
    <3>1. current'[v] = current[v] /\ phase[v] \in {"handle", "complete", "audit"}
      BY <1>1, <2>4, OtherPhase DEF PhaseStep
    <3>2. current[v].event \in Events
      BY <3>1, CurrentIsClaim
    <3>3. QED
      BY <1>1, <2>4, <3>1, <3>2, OtherPhase, OtherHandled
      DEF PhaseStep, HandledStep, HandledOnce
  <2>5. ASSUME NEW e \in Events, NEW n \in handled'[e]
        PROVE  1 <= n /\ n <= attempts'[e]
    <3>1. attempts'[e] = attempts[e]
      BY <1>1, OtherRow
    <3>2. CASE n \in handled[e]
      BY <3>1, <3>2 DEF HandledOnce
    <3>3. CASE n \notin handled[e]
      <4>1. PICK w \in Workers :
              phase[w] = "handle" /\ current[w].event = e /\ current[w].attempts = n
        BY <1>1, <3>3, OtherHandled DEF HandledStep
      <4>2. current[w] \in Claims /\ current[w] \in InHands(w)
        BY <4>1, CurrentIsClaim, NoClaimIsNoClaim DEF InHands
      <4>3. QED
        BY <3>1, <4>1, <4>2 DEF Claims, HandsKnown
    <3>4. QED
      BY <3>1, <3>2, <3>3
  <2>6. QED
    BY <2>2, <2>3, <2>4, <2>5 DEF HandledOnce
<1>2. ASSUME NEW w \in Workers, Poll(w) PROVE HandledOnce'
  <2>1. PICK S \in SUBSET Events : PollEffect(w, S)
    BY <1>2, PollRows
  <2>2. \A e \in Events : attempts[e] \in Nat /\ attempts'[e] \in {attempts[e], attempts[e] + 1}
    BY <2>1 DEF PollEffect, TypeInv, TypeOK
  <2>3. ASSUME NEW e \in S PROVE attempts[e] + 1 \notin handled'[e]
    BY <2>1, <2>2 DEF PollEffect, HandledOnce, TypeInv, TypeOK
  <2>4. \A v \in Workers : \A c \in batch'[v] : c.attempts \notin handled'[c.event]
    BY <2>1, <2>3 DEF PollEffect, HandledOnce
  <2>5. \A v \in Workers :
          /\ phase'[v] = "handle" =>
               current'[v].attempts \notin handled'[current'[v].event]
          /\ phase'[v] \in {"complete", "audit"} =>
               current'[v].attempts \in handled'[current'[v].event]
    BY <2>1 DEF PollEffect, HandledOnce
  <2>6. ASSUME NEW e \in Events, NEW n \in handled'[e]
        PROVE  1 <= n /\ n <= attempts'[e]
    <3>1. n \in handled[e]
      BY <2>1 DEF PollEffect
    <3>2. n \in Nat /\ 1 <= n /\ n <= attempts[e]
      BY <3>1 DEF HandledOnce, TypeInv, TypeOK
    <3>3. QED
      BY <2>2, <3>2
  <2>7. QED
    BY <2>4, <2>5, <2>6 DEF HandledOnce
<1>3. QED
  BY <1>1, <1>2, StepSplit

(* Every step marks handled rows only. *)
LEMMA NeverProcessedUnhandledStep ==
  ASSUME TypeInv, HandledOnce, NeverProcessedUnhandled, [Next]_vars
  PROVE  NeverProcessedUnhandled'
<1>1. SUFFICES ASSUME NEW e \in Events, status'[e] = "PROCESSED" PROVE handled'[e] # {}
  BY DEF NeverProcessedUnhandled
<1>2. CASE Other
  <2>1. RowStep(e) /\ HandledStep(e)
    BY <1>2, OtherRow, OtherHandled
  <2>2. ASSUME NEW w \in Workers, SettledBy(w, e) PROVE handled[e] # {}
    BY <1>1, <2>2 DEF SettledBy, HandledOnce
  <2>3. QED
    BY <1>1, <2>1, <2>2 DEF RowStep, HandledStep, NeverProcessedUnhandled
<1>3. ASSUME NEW w \in Workers, Poll(w) PROVE handled'[e] # {}
  BY <1>1, <1>3, PollRows DEF PollEffect, NeverProcessedUnhandled
<1>4. QED
  BY <1>2, <1>3, StepSplit

(* An audit row is inserted only by a worker that leaves the audit statement. *)
AuditStep(e) ==
  \/ audits'[e] = audits[e]
  \/ \E w \in Workers :
       /\ phase[w] = "audit" /\ phase'[w] # "audit"
       /\ current[w].event = e
       /\ audits'[e] = audits[e] + 1

(* What a step other than a claim does to the audit rows. *)
LEMMA OtherAudit ==
  ASSUME TypeInv, Other, NEW e \in Events
  PROVE  AuditStep(e)
<1>1. CASE UNCHANGED audits
  BY <1>1 DEF AuditStep
<1>2. ASSUME NEW w \in Workers, Audit(w) \/ AuditError(w), ~UNCHANGED audits
      PROVE  AuditStep(e)
  <2>1. phase[w] = "audit" /\ phase'[w] # "audit"
        /\ audits' = [audits EXCEPT ![current[w].event] = @ + 1]
    BY <1>2 DEF Audit, AuditError, Return, Goto, TypeInv, TypeOK
  <2>2. QED
    BY <2>1 DEF AuditStep, TypeInv, TypeOK
<1>3. QED
  BY <1>1, <1>2
  DEF Other, Progress, Fault, Produce, Start, Process, PollDone, HandleOk, HandleError,
      HandlePartial, Complete, CompleteError, Fail, FailError, Crash, Tick, world, vars

(* A settled row stays as it is. *)
LEMMA SettledStays ==
  ASSUME TypeInv, [Next]_vars, NEW e \in Events, status[e] \in Terminal
  PROVE  status'[e] = status[e]
<1>1. CASE Other
  BY <1>1, OtherRow DEF RowStep, SettledBy, Holds, Terminal
<1>2. ASSUME NEW w \in Workers, Poll(w) PROVE status'[e] = status[e]
  BY <1>2, PollRows DEF PollEffect, Claimable, Terminal
<1>3. QED
  BY <1>1, <1>2, StepSplit

(* Entering the audit statement settles a row nobody has audited; no other worker *)
(* can be there for the same row.                                                  *)
LEMMA AuditPendingStep ==
  ASSUME TypeInv, LeaseShape, AuditPending, OneAuditPerProcessed, [Next]_vars
  PROVE  AuditPending' /\ OneAuditPerProcessed'
<1>1. CASE Other
  <2>1. ASSUME NEW w \in Workers, phase'[w] = "audit"
        PROVE  /\ current'[w] = current[w] /\ current[w].event \in Events
               /\ audits[current[w].event] = 0
               /\ status'[current[w].event] = "PROCESSED"
               /\ phase[w] = "audit" \/ status[current[w].event] = "PROCESSING"
    <3>1. PhaseStep(w)
      BY <1>1, OtherPhase
    <3>2. current'[w] = current[w] /\ phase[w] \in {"complete", "audit"}
      BY <2>1, <3>1 DEF PhaseStep
    <3>3. current[w].event \in Events
      BY <3>2, CurrentIsClaim
    <3>4. CASE phase[w] = "audit"
      BY <3>2, <3>3, <3>4, SettledStays DEF AuditPending, Terminal
    <3>5. CASE phase[w] = "complete"
      <4>1. Holds(w, current[w].event) /\ status'[current[w].event] = "PROCESSED"
        BY <2>1, <3>1, <3>5 DEF PhaseStep
      <4>2. audits[current[w].event] \in Nat
        BY <3>3 DEF TypeInv, TypeOK
      <4>3. QED
        BY <3>2, <3>3, <4>1, <4>2 DEF Holds, OneAuditPerProcessed
    <3>6. QED
      BY <3>2, <3>4, <3>5
  <2>2. ASSUME NEW v \in Workers, NEW w \in Workers, phase'[v] = "audit", phase'[w] = "audit",
               current'[v].event = current'[w].event
        PROVE  v = w
    <3>1. CASE phase[v] = "audit" /\ phase[w] = "audit"
      BY <2>1, <2>2, <3>1 DEF AuditPending
    <3>2. CASE phase[v] # "audit" /\ phase[w] # "audit"
      <4>1. Holds(v, current[v].event) /\ Holds(w, current[w].event)
        BY <1>1, <2>2, <3>2, OtherPhase DEF PhaseStep
      <4>2. QED
        BY <2>1, <2>2, <4>1 DEF Holds
    <3>3. ASSUME NEW x \in Workers, NEW y \in Workers, phase[x] = "audit", phase[y] # "audit",
                 phase'[x] = "audit", phase'[y] = "audit", current[x].event = current[y].event
          PROVE  FALSE
      BY <2>1, <3>3 DEF AuditPending
    <3>4. QED
      BY <2>1, <2>2, <3>1, <3>2, <3>3
  <2>3. ASSUME NEW w \in Workers, phase'[w] = "audit"
        PROVE  audits'[current'[w].event] = 0
    <3> DEFINE e == current[w].event
    <3>1. e \in Events /\ current'[w] = current[w] /\ audits[e] = 0
          /\ (phase[w] = "audit" \/ status[e] = "PROCESSING")
      BY <2>1, <2>3
    <3>2. ASSUME NEW v \in Workers, phase[v] = "audit", phase'[v] # "audit",
                 current[v].event = e
          PROVE  FALSE
      BY <2>3, <3>1, <3>2 DEF AuditPending
    <3>3. QED
      BY <1>1, <3>1, <3>2, OtherAudit DEF AuditStep
  <2>4. AuditPending'
    BY <2>1, <2>2, <2>3 DEF AuditPending
  <2>5. ASSUME NEW e \in Events
        PROVE  audits'[e] <= 1 /\ (audits'[e] = 1 => status'[e] = "PROCESSED")
    <3>1. audits[e] \in Nat /\ audits[e] <= 1 /\ (audits[e] = 1 => status[e] = "PROCESSED")
      BY DEF OneAuditPerProcessed, TypeInv, TypeOK
    <3>2. CASE audits'[e] = audits[e]
      BY <3>1, <3>2, SettledStays DEF Terminal
    <3>3. CASE audits'[e] # audits[e]
      <4>1. PICK w \in Workers : phase[w] = "audit" /\ current[w].event = e
                                 /\ audits'[e] = audits[e] + 1
        BY <1>1, <3>3, OtherAudit DEF AuditStep
      <4>2. audits[e] = 0 /\ status[e] = "PROCESSED"
        BY <4>1 DEF AuditPending
      <4>3. QED
        BY <4>1, <4>2, SettledStays DEF Terminal
    <3>4. QED
      BY <3>1, <3>2, <3>3
  <2>6. QED
    BY <2>4, <2>5 DEF OneAuditPerProcessed
<1>2. ASSUME NEW w \in Workers, Poll(w) PROVE AuditPending' /\ OneAuditPerProcessed'
  <2>1. PICK S \in SUBSET Events : PollEffect(w, S)
    BY <1>2, PollRows
  <2>2. \A v \in Workers : phase'[v] = "audit" =>
          phase[v] = "audit" /\ current'[v] = current[v] /\ current[v].event \in Events
    BY <2>1, CurrentIsClaim DEF PollEffect
  <2>3. audits' = audits
    BY <1>2 DEF Poll, world
  <2>4. AuditPending'
    BY <2>2, <2>3, SettledStays DEF AuditPending, Terminal
  <2>5. OneAuditPerProcessed'
    BY <2>3, SettledStays DEF OneAuditPerProcessed, Terminal
  <2>6. QED
    BY <2>4, <2>5
<1>3. QED
  BY <1>1, <1>2, StepSplit

(* A step spends one fault or none. *)
LEMMA FaultSteps ==
  ASSUME [Next]_vars
  PROVE  faults' = faults \/ faults' = faults + 1
BY DEF Next, Produce, Start, Poll, Progress, Fault, Process, PollDone, HandleOk,
       HandleError, HandlePartial, Complete, CompleteError, Audit, AuditError, Fail,
       FailError, Crash, Tick, Quiescent, Spend, vars

(* Faults are only ever added. *)
LEMMA FaultsGrow ==
  ASSUME TypeInv, [Next]_vars
  PROVE  faults' \in Nat /\ faults \in Nat /\ faults' >= faults
<1>1. faults \in Nat
  BY ConfigAssumption DEF TypeInv, TypeOK
<1>2. faults' = faults \/ faults' = faults + 1
  BY FaultSteps
<1>3. QED
  BY <1>1, <1>2

(* Without a fault a worker neither drops a row it holds nor overruns its lease. *)
LEMMA KeepHold ==
  ASSUME TypeInv, AuditPending, Other, faults' = faults,
         NEW e \in Events, NEW v \in Workers, NEW c \in InHands(v), c.event = e,
         Holds(v, e), Holds(v, e)', leaseLeft[e] > 0
  PROVE  leaseLeft'[e] > 0 /\ c \in InHands(v)'
<1>1. faults \in Nat /\ leaseLeft[e] \in Nat /\ c \in Claims
  <2>1. faults \in Nat /\ leaseLeft[e] \in Nat
    BY ConfigAssumption DEF TypeInv, TypeOK
  <2>2. QED
    BY <2>1, HandsAreClaims
<1> DEFINE Kept == leaseLeft'[e] > 0 /\ c \in InHands(v)'
<1>2. ASSUME NEW w \in Workers, Spend PROVE FALSE
  BY <1>1, <1>2 DEF Spend
<1>3. ASSUME NEW d \in Events, Produce(d) PROVE Kept
  BY <1>3 DEF Produce, worker, InHands
<1>4. ASSUME NEW w \in Workers,
             Start(w) \/ PollDone(w) \/ HandleOk(w) \/ HandleError(w)
      PROVE  Kept
  BY <1>4 DEF Start, PollDone, HandleOk, HandleError, Goto, table, InHands
<1>5. ASSUME NEW w \in Workers, Process(w) PROVE Kept
  BY <1>5, <1>1, NoClaimIsNoClaim
  DEF Process, table, InHands, TypeInv, TypeOK, PhaseShape
<1>6. ASSUME NEW w \in Workers, Complete(w) PROVE Kept
  <2>1. current[w].event \in Events
    BY <1>6, CurrentIsClaim DEF Complete
  <2>2. CASE Holds(w, current[w].event)
    <3>1. MarkProcessed(current[w].event) /\ Goto(w, "audit") /\ UNCHANGED batch
      BY <1>6, <2>2 DEF Complete
    <3>2. current[w].event # e
      BY <2>1, <3>1, SettleRow DEF MarkProcessed, TypeInv, Holds
    <3>3. leaseLeft'[e] = leaseLeft[e]
      BY <2>1, <3>1, <3>2, SettleRow DEF MarkProcessed, TypeInv
    <3>4. QED
      BY <3>1, <3>3 DEF Goto, InHands
  <2>3. CASE ~Holds(w, current[w].event)
    <3>1. Return(w) /\ UNCHANGED <<table, batch>>
      BY <1>6, <2>3 DEF Complete
    <3>2. v = w => c # current[w]
      BY <2>3
    <3>3. QED
      BY <3>1, <3>2 DEF Return, table, InHands, TypeInv, TypeOK
  <2>4. QED
    BY <2>2, <2>3
<1>7. ASSUME NEW w \in Workers, Audit(w) PROVE Kept
  <2>1. status[current[w].event] = "PROCESSED"
    BY <1>7 DEF Audit, AuditPending
  <2>2. v = w => c # current[w]
    BY <2>1 DEF Holds
  <2>3. QED
    BY <1>7, <2>2 DEF Audit, Return, table, InHands, TypeInv, TypeOK
<1>8. ASSUME NEW w \in Workers, Fail(w) PROVE Kept
  <2>1. current[w].event \in Events /\ Return(w) /\ UNCHANGED batch
    BY <1>8, CurrentIsClaim DEF Fail
  <2>2. CASE Holds(w, current[w].event)
    <3>1. MarkFailed(current[w])
      BY <1>8, <2>2 DEF Fail
    <3>2. current[w].event # e
      BY <2>1, <3>1, SettleRow DEF MarkFailed, TypeInv, Holds
    <3>3. leaseLeft'[e] = leaseLeft[e]
      BY <2>1, <3>1, <3>2, SettleRow DEF MarkFailed, TypeInv
    <3>4. QED
      BY <2>1, <3>2, <3>3 DEF Return, InHands, TypeInv, TypeOK
  <2>3. CASE ~Holds(w, current[w].event)
    <3>1. UNCHANGED table
      BY <1>8, <2>3 DEF Fail
    <3>2. v = w => c # current[w]
      BY <2>3
    <3>3. QED
      BY <2>1, <3>1, <3>2 DEF Return, table, InHands, TypeInv, TypeOK
  <2>4. QED
    BY <2>2, <2>3
<1>9. ASSUME Tick PROVE Kept
  <2>1. ~Overruns
    BY <1>1, <1>9 DEF Tick, Spend
  <2>2. leaseLeft[e] # 1
    BY <2>1 DEF Overruns
  <2>3. leaseLeft'[e] = Down1(leaseLeft[e]) /\ UNCHANGED <<current, batch>>
    BY <1>9 DEF Tick, worker
  <2>4. QED
    BY <1>1, <2>2, <2>3 DEF Down1, InHands
<1>10. CASE UNCHANGED vars
  BY <1>10 DEF vars, table, worker, InHands
<1>11. QED
  BY <1>1, <1>3, <1>4, <1>5, <1>6, <1>7, <1>8, <1>9, <1>10
  DEF Other, Progress, Fault, HandlePartial, CompleteError, AuditError, FailError, Crash,
      Spend

(* The worker that holds the row e has it in hand. *)
Held(e) == \E c \in InHands(leaseOwner[e]) : c.event = e

(* Every step pays for its extra attempts with faults. *)
LEMMA AttemptsLeftStep ==
  ASSUME TypeInv, LeaseShape, ClaimIsCurrent, AuditPending, AttemptsLeft, [Next]_vars
  PROVE  AttemptsLeft'
<1>1. SUFFICES ASSUME NEW e \in Events
               PROVE  /\ attempts'[e] <= MaximumAttempts + faults'
                      /\ status'[e] = "PENDING" =>
                           attempts'[e] < MaximumAttempts + faults'
                      /\ status'[e] = "PROCESSING"
                         /\ attempts'[e] = MaximumAttempts + faults' =>
                           /\ leaseLeft'[e] > 0
                           /\ Held(e)'
  BY DEF AttemptsLeft, Held
<1>2. /\ attempts[e] \in Nat /\ faults \in Nat /\ faults' \in Nat
      /\ MaximumAttempts \in Nat \ {0} /\ faults' >= faults
  BY FaultsGrow, ConfigAssumption DEF TypeInv, TypeOK
<1>3. CASE Other
  <2>1. RowStep(e) /\ attempts' = attempts
    BY <1>3, OtherRow
  <2>2. attempts'[e] <= MaximumAttempts + faults'
    BY <1>2, <2>1 DEF AttemptsLeft
  <2>3. ASSUME status'[e] = "PENDING" PROVE attempts'[e] < MaximumAttempts + faults'
    <3>1. ASSUME NEW w \in Workers, SettledBy(w, e)
          PROVE  attempts[e] < MaximumAttempts
      <4>1. phase[w] = "fail" /\ ~Exhausted(current[w]) /\ Holds(w, e) /\ current[w].event = e
        BY <2>3, <3>1 DEF SettledBy
      <4>2. current[w] \in Claims /\ current[w] \in InHands(w)
        BY <4>1, CurrentIsClaim, NoClaimIsNoClaim DEF InHands
      <4>3. QED
        BY <1>2, <4>1, <4>2 DEF ClaimIsCurrent, Exhausted
    <3>2. QED
      BY <1>2, <2>1, <2>3, <3>1 DEF RowStep, AttemptsLeft, LeaseShape
  <2>4. ASSUME status'[e] = "PROCESSING", attempts'[e] = MaximumAttempts + faults'
        PROVE  /\ leaseLeft'[e] > 0
               /\ Held(e)'
    <3>1. status[e] = "PROCESSING" /\ leaseOwner'[e] = leaseOwner[e]
      BY <2>1, <2>4 DEF RowStep, SettledBy
    <3>2. faults' = faults /\ attempts[e] = MaximumAttempts + faults
      <4>1. attempts[e] <= MaximumAttempts + faults
        BY DEF AttemptsLeft
      <4>2. attempts[e] = MaximumAttempts + faults'
        BY <2>1, <2>4
      <4>3. \A a, m, f, g \in Nat : a <= m + f /\ a = m + g /\ g >= f => g = f
        OBVIOUS
      <4>4. QED
        BY <1>2, <4>1, <4>2, <4>3
    <3>3. leaseLeft[e] > 0 /\ leaseOwner[e] \in Workers
      BY <3>1, <3>2 DEF AttemptsLeft, LeaseShape, TypeInv, TypeOK
    <3>4. PICK v \in Workers : v = leaseOwner[e]
      BY <3>3
    <3>5. PICK c \in InHands(v) : c.event = e
      BY <3>1, <3>2, <3>4 DEF AttemptsLeft
    <3>6. Holds(v, e) /\ Holds(v, e)'
      BY <2>4, <3>1, <3>4 DEF Holds
    <3>7. leaseLeft'[e] > 0 /\ c \in InHands(v)'
      BY <1>3, <3>2, <3>3, <3>5, <3>6, KeepHold
    <3>8. QED
      BY <3>1, <3>4, <3>5, <3>7 DEF InHands, Held
  <2>5. QED
    BY <2>2, <2>3, <2>4
<1>4. ASSUME NEW w \in Workers, Poll(w)
      PROVE  /\ attempts'[e] <= MaximumAttempts + faults'
             /\ status'[e] = "PENDING" => attempts'[e] < MaximumAttempts + faults'
             /\ status'[e] = "PROCESSING" /\ attempts'[e] = MaximumAttempts + faults' =>
                  /\ leaseLeft'[e] > 0
                  /\ Held(e)'
  <2>1. PICK S \in SUBSET Events : PollEffect(w, S)
    BY <1>4, PollRows
  <2>2. faults' = faults
    BY <2>1 DEF PollEffect
  <2>3. CASE e \in S
    <3>1. Claimable(e) /\ attempts'[e] = attempts[e] + 1 /\ leaseOwner'[e] = w
          /\ leaseLeft'[e] = LeaseTimeout /\ status'[e] = "PROCESSING"
      BY <2>1, <2>3 DEF PollEffect
    <3>2. attempts[e] < MaximumAttempts + faults
      BY <1>2, <3>1 DEF Claimable, AttemptsLeft
    <3>3. [event |-> e, attempts |-> attempts[e] + 1] \in InHands(w)'
      BY <2>1, <2>3 DEF PollEffect
    <3>4. QED
      BY <1>2, <2>2, <3>1, <3>2, <3>3, ConfigAssumption DEF InHands, Held
  <2>4. CASE e \notin S
    <3>1. /\ status'[e] = status[e] /\ leaseOwner'[e] = leaseOwner[e]
          /\ leaseLeft'[e] = leaseLeft[e] /\ attempts'[e] = attempts[e]
      BY <2>1, <2>4 DEF PollEffect
    <3>2. ASSUME status[e] = "PROCESSING", attempts[e] = MaximumAttempts + faults
          PROVE  Held(e)'
      <4>1. PICK c \in InHands(leaseOwner[e]) : c.event = e
        BY <3>2 DEF AttemptsLeft
      <4>2. leaseOwner[e] \in Workers \ {w}
        BY <2>1, <3>2, <4>1 DEF PollEffect, LeaseShape, TypeInv, TypeOK
      <4>3. current'[leaseOwner[e]] = current[leaseOwner[e]]
            /\ batch'[leaseOwner[e]] = batch[leaseOwner[e]]
        BY <2>1, <4>2 DEF PollEffect
      <4>4. QED
        BY <3>1, <4>1, <4>3 DEF InHands, Held
    <3>3. QED
      BY <1>2, <2>2, <3>1, <3>2 DEF AttemptsLeft
  <2>5. QED
    BY <2>3, <2>4
<1>5. QED
  BY <1>3, <1>4, StepSplit

-----------------------------------------------------------------------------
(* The theorems. *)

(* The invariant holds at first. *)
LEMMA InitIInv == Init => IInv
<1> SUFFICES ASSUME Init PROVE IInv
  OBVIOUS
<1>1. \A w \in Workers : InHands(w) = {} /\ phase[w] = "down"
  BY DEF Init, InHands
<1>2. HandsKnown /\ HandsDistinct /\ ClaimIsCurrent /\ AuditPending
  BY <1>1 DEF Init, HandsKnown, HandsDistinct, ClaimIsCurrent, AuditPending
<1>3. HandledOnce /\ LeaseShape /\ NeverProcessedUnhandled /\ DeadLetterExhausted
      /\ OneAuditPerProcessed /\ AttemptsLeft
  BY <1>1, ConfigAssumption
  DEF Init, HandledOnce, LeaseShape, NeverProcessedUnhandled, DeadLetterExhausted,
      OneAuditPerProcessed, AttemptsLeft
<1>4. QED
  BY <1>2, <1>3 DEF IInv

(* The invariant is inductive. *)
LEMMA IInvStep == TypeInv /\ IInv /\ [Next]_vars => IInv'
BY HandsKnownStep, HandsDistinctStep, LeaseShapeStep, ClaimIsCurrentStep,
   DeadLetterExhaustedStep, HandledOnceStep, NeverProcessedUnhandledStep,
   AuditPendingStep, AttemptsLeftStep
DEF IInv

(* The inductive invariant: claims in hand are distinct, known to the table and as *)
(* many as were delivered, through every interleaving of claims, settlements,      *)
(* crashes, lost answers and lease overruns of any number of workers.              *)
THEOREM Inductive == Spec => [](TypeInv /\ IInv)
BY InitType, InitIInv, TypeStep, IInvStep, PTL DEF Spec

(* A row marked PROCESSED has been handled, whoever settled it.                    *)
THEOREM NoLostDelivery == Spec => []NeverProcessedUnhandled
<1>1. IInv => NeverProcessedUnhandled
  BY DEF IInv
<1>2. QED
  BY <1>1, Inductive, PTL

(* The attempt number process() decides with is the row's own whenever its guarded *)
(* update can match.                                                               *)
THEOREM FreshClaim == Spec => []ClaimIsCurrent
<1>1. IInv => ClaimIsCurrent
  BY DEF IInv
<1>2. QED
  BY <1>1, Inductive, PTL

(* The catch block dead-letters only a row whose attempts are used up.             *)
THEOREM NoEarlyDeadLetter == Spec => []DeadLetterExhausted
<1>1. IInv => DeadLetterExhausted
  BY DEF IInv
<1>2. QED
  BY <1>1, Inductive, PTL

(* The separate audit insert writes at most one row, and only for a processed one. *)
THEOREM AuditedOnce == Spec => []OneAuditPerProcessed
<1>1. IInv => OneAuditPerProcessed
  BY DEF IInv
<1>2. QED
  BY <1>1, Inductive, PTL

(* An attempt beyond maximumAttempts is owed to a crash, a database error or an    *)
(* overrun of a lease.                                                             *)
THEOREM AttemptsAccounted == Spec => []ExtraAttemptsNeedFaults
<1>1. IInv => ExtraAttemptsNeedFaults
  BY DEF IInv, AttemptsLeft, ExtraAttemptsNeedFaults
<1>2. QED
  BY <1>1, Inductive, PTL

(* No late update of a stale worker reopens a settled row.                         *)
THEOREM Finality == Spec => SettledIsFinal
<1>1. TypeInv /\ [Next]_vars
        => [\A e \in Events : status[e] \in Terminal => status'[e] = status[e]]_vars
  BY SettledStays
<1>2. QED
  BY <1>1, Inductive, PTL DEF Spec, SettledIsFinal

(* Only the worker that holds the lease of a row and is processing it settles it.  *)
THEOREM HolderSettles == Spec => OnlyHolderSettles
<1>1. ASSUME TypeInv, [Next]_vars, NEW e \in Events,
             status[e] = "PROCESSING", status'[e] # "PROCESSING"
      PROVE  \E w \in Workers : leaseOwner[e] = w /\ current[w].event = e
  <2>1. CASE Other
    BY <1>1, <2>1, OtherRow DEF RowStep, SettledBy, Holds
  <2>2. ASSUME NEW w \in Workers, Poll(w) PROVE FALSE
    BY <1>1, <2>2, PollRows DEF PollEffect
  <2>3. QED
    BY <1>1, <2>1, <2>2, StepSplit
<1>2. TypeInv /\ [Next]_vars
        => [\A e \in Events : status[e] = "PROCESSING" /\ status'[e] # "PROCESSING" =>
              \E w \in Workers : leaseOwner[e] = w /\ current[w].event = e]_vars
  BY <1>1
<1>3. QED
  BY <1>2, Inductive, PTL DEF Spec, OnlyHolderSettles

-----------------------------------------------------------------------------
(* Deliveries are owed to faults: the counting argument.                    *)

(* Rows whose handler a worker has still to run. *)
Waiting(w) == batch[w] \cup {c \in {current[w]} : phase[w] = "handle"}

(* Rows a worker will deliver or settle, unless something fails. *)
Minded(w) == batch[w] \cup {c \in {current[w]} : phase[w] \in {"handle", "complete"}}

(* No further claim of the row comes without a failure: it is settled, or minded *)
(* under a lease that has not run out.                                           *)
Closed(e) ==
  \/ status[e] \in Terminal
  \/ /\ status[e] = "PROCESSING"
     /\ leaseLeft[e] > 0
     /\ \E c \in Minded(leaseOwner[e]) : c.event = e

(* The attempts in which the row was delivered, or may be while nothing fails. *)
Promised(e) ==
  handled[e]
    \cup {n \in Nat : \E w \in Workers : \E c \in Waiting(w) : c.event = e /\ c.attempts = n}
    \cup {n \in {attempts[e] + 1} : ~Closed(e)}

(* A row starts with one promise; only a fault makes another. *)
PromisesPaid == \A e \in Events : Cardinality(Promised(e)) <= 1 + faults

(* What a worker waits with or minds it has in hand. *)
LEMMA WaitingInHands ==
  ASSUME TypeInv, NEW w \in Workers
  PROVE  Waiting(w) \subseteq Minded(w) /\ Minded(w) \subseteq InHands(w)
BY DEF Waiting, Minded, InHands, TypeInv, PhaseShape

(* So it does after a step. *)
LEMMA WaitingInHandsThen ==
  ASSUME TypeInv', NEW w \in Workers
  PROVE  Waiting(w)' \subseteq InHands(w)'
BY DEF Waiting, InHands, TypeInv, PhaseShape

(* Promises are numbers up to the next attempt's. *)
LEMMA PromisesFinite ==
  ASSUME TypeInv, IInv, NEW e \in Events
  PROVE  IsFiniteSet(Promised(e)) /\ Cardinality(Promised(e)) \in Nat
<1>1. attempts[e] \in Nat
  BY DEF TypeInv, TypeOK
<1>2. ASSUME NEW n \in Promised(e) PROVE n \in Nat /\ n <= attempts[e] + 1
  <2>1. CASE n \in handled[e]
    BY <1>1, <2>1 DEF IInv, HandledOnce, TypeInv, TypeOK
  <2>2. CASE \E w \in Workers : \E c \in Waiting(w) : c.event = e /\ c.attempts = n
    <3>0. PICK w \in Workers : \E c \in Waiting(w) : c.event = e /\ c.attempts = n
      BY <2>2
    <3>1. PICK c \in Waiting(w) : c.event = e /\ c.attempts = n
      BY <3>0
    <3>2. c \in InHands(w)
      BY WaitingInHands
    <3>3. n \in Nat /\ n <= attempts[e]
      BY <3>1, <3>2, HandsAreClaims DEF IInv, HandsKnown
    <3>4. QED
      BY <1>1, <3>3
  <2>3. QED
    BY <1>1, <1>2, <2>1, <2>2 DEF Promised
<1>3. Promised(e) \in SUBSET Nat /\ attempts[e] + 1 \in Nat
  BY <1>1, <1>2
<1>4. IsFiniteSet(Promised(e))
  BY <1>2, <1>3, FS_BoundedSetOfNaturals
<1>5. QED
  BY <1>4, FS_CardinalityType

(* What a step does to the promises of a row: it keeps them, trades one for the *)
(* next attempt, or pays for the next attempt with a fault.                     *)
Traded(e) ==
  \/ Promised(e)' \subseteq Promised(e)
  \/ \E n \in Promised(e) :
       Promised(e)' \subseteq (Promised(e) \ {n}) \cup {attempts[e] + 1}
  \/ /\ faults' = faults + 1
     /\ Promised(e)' \subseteq Promised(e) \cup {attempts[e] + 1}

(* A claim takes up the promise of the next attempt. *)
LEMMA ClaimTrades ==
  ASSUME TypeInv, IInv, NEW w \in Workers, Poll(w), NEW e \in Events
  PROVE  Promised(e)' \subseteq Promised(e)
<1>1. PICK S \in SUBSET Events : PollEffect(w, S)
  BY PollRows
<1>2. /\ attempts[e] \in Nat /\ handled' = handled
      /\ batch[w] = {} /\ phase[w] = "idle" /\ phase'[w] = "next"
  BY <1>1 DEF PollEffect, TypeInv, TypeOK, PhaseShape
<1>3. \A u \in Workers \ {w} : Waiting(u)' = Waiting(u) /\ Minded(u)' = Minded(u)
  BY <1>1 DEF PollEffect, Waiting, Minded
<1>4. /\ Minded(w) = {} /\ Waiting(w)' = batch'[w] /\ Minded(w)' = batch'[w]
      /\ batch'[w] = {[event |-> d, attempts |-> attempts[d] + 1] : d \in S}
  BY <1>1, <1>2 DEF PollEffect, Waiting, Minded
<1>5. CASE e \in S
  <2>1. /\ Claimable(e) /\ status'[e] = "PROCESSING" /\ leaseOwner'[e] = w
        /\ leaseLeft'[e] = LeaseTimeout
    BY <1>1, <1>5 DEF PollEffect
  <2>2. ~Closed(e)
    BY <2>1 DEF Claimable, Closed, Terminal
  <2>3. attempts[e] + 1 \in Promised(e)
    BY <2>2 DEF Promised
  <2>4. Closed(e)'
    <3>1. [event |-> e, attempts |-> attempts[e] + 1] \in Minded(w)'
      BY <1>4, <1>5
    <3>2. \E c \in Minded(w)' : c.event = e
      BY <3>1
    <3>3. leaseLeft'[e] > 0
      BY <2>1, ConfigAssumption
    <3>4. QED
      BY <2>1, <3>2, <3>3 DEF Closed, Minded
  <2>5. ASSUME NEW u \in Workers, NEW c \in Waiting(u)', c.event = e
        PROVE  c.attempts = attempts[e] + 1 \/ c \in Waiting(u)
    BY <1>3, <1>4, <2>5
  <2>6. QED
    BY <1>2, <2>3, <2>4, <2>5 DEF Promised
<1>6. CASE e \notin S
  <2>1. /\ status'[e] = status[e] /\ leaseOwner'[e] = leaseOwner[e]
        /\ leaseLeft'[e] = leaseLeft[e] /\ attempts'[e] = attempts[e]
    BY <1>1, <1>6 DEF PollEffect
  <2>2. ASSUME Closed(e) PROVE Closed(e)'
    <3>1. CASE status[e] \in Terminal
      BY <2>1, <3>1 DEF Closed
    <3>2. CASE status[e] \notin Terminal
      <4>1. /\ status[e] = "PROCESSING" /\ leaseLeft[e] > 0
            /\ \E c \in Minded(leaseOwner[e]) : c.event = e
        BY <2>2, <3>2 DEF Closed
      <4>2. leaseOwner[e] \in Workers \ {w}
        BY <1>4, <4>1 DEF IInv, LeaseShape, TypeInv, TypeOK
      <4>3. Minded(leaseOwner[e])' = Minded(leaseOwner[e])
        BY <1>1, <2>1, <4>2 DEF PollEffect, Minded
      <4>4. QED
        BY <2>1, <4>1, <4>3 DEF Closed
    <3>3. QED
      BY <3>1, <3>2
  <2>3. ASSUME NEW u \in Workers, NEW c \in Waiting(u)', c.event = e
        PROVE  c \in Waiting(u)
    BY <1>3, <1>4, <1>6, <2>3
  <2>4. QED
    BY <1>2, <2>1, <2>2, <2>3 DEF Promised
<1>7. QED
  BY <1>5, <1>6

(* Without a fault a worker comes to its catch block from its handler alone. *)
LEMMA ToCatchBlock ==
  ASSUME TypeInv, Other, faults' = faults, NEW v \in Workers, phase'[v] = "fail"
  PROVE  /\ current'[v] = current[v]
         /\ phase[v] \in {"handle", "fail"}
         /\ phase[v] = "handle" => UNCHANGED <<handled, attempts>>
<1>1. faults \in Nat
  BY ConfigAssumption DEF TypeInv, TypeOK
<1>2. ~Spend
  BY <1>1 DEF Spend
<1>3. CASE UNCHANGED <<phase, current>>
  BY <1>3
<1>4. ASSUME NEW w \in Workers, w = v,
             Start(w) \/ Process(w) \/ PollDone(w) \/ HandleOk(w) \/ Complete(w)
               \/ Audit(w) \/ Fail(w)
      PROVE  FALSE
  BY <1>4 DEF Start, Process, PollDone, HandleOk, Complete, Audit, Fail, Goto, Return,
              TypeInv, TypeOK
<1>5. ASSUME NEW w \in Workers, w # v,
             Start(w) \/ Process(w) \/ PollDone(w) \/ HandleOk(w) \/ Complete(w)
               \/ Audit(w) \/ Fail(w) \/ HandleError(w)
      PROVE  phase'[v] = phase[v] /\ current'[v] = current[v]
  BY <1>5 DEF Start, Process, PollDone, HandleOk, HandleError, Complete, Audit, Fail, Goto,
              Return, TypeInv, TypeOK
<1>6. ASSUME HandleError(v)
      PROVE  phase[v] = "handle" /\ UNCHANGED <<current, handled, attempts>>
  BY <1>6 DEF HandleError, Goto, world, table
<1>7. QED
  BY <1>2, <1>3, <1>4, <1>5, <1>6
  DEF Other, Progress, Fault, HandlePartial, CompleteError, AuditError, FailError, Crash,
      Produce, Tick, worker, vars

(* A step other than a claim makes no promise but that of the next attempt. *)
LEMMA OldPromises ==
  ASSUME TypeInv, Other, NEW e \in Events, NEW n \in Promised(e)', n # attempts[e] + 1
  PROVE  n \in Promised(e)
<1>1. attempts' = attempts
  BY OtherRow
<1>2. CASE n \in handled'[e]
  <2>1. CASE n \in handled[e]
    BY <2>1 DEF Promised
  <2>2. CASE n \notin handled[e]
    <3>1. PICK w \in Workers : /\ phase[w] = "handle"
                               /\ current[w].event = e /\ current[w].attempts = n
      BY <1>2, <2>2, OtherHandled DEF HandledStep
    <3>2. current[w] \in Waiting(w) /\ n \in Nat
      BY <3>1, CurrentIsClaim DEF Waiting, Claims
    <3>3. QED
      BY <3>1, <3>2 DEF Promised
  <2>3. QED
    BY <2>1, <2>2
<1>3. CASE \E w \in Workers : \E c \in Waiting(w)' : c.event = e /\ c.attempts = n
  <2>1. PICK w \in Workers : \E c \in Waiting(w)' : c.event = e /\ c.attempts = n
    BY <1>3
  <2>2. PICK c \in Waiting(w)' : c.event = e /\ c.attempts = n
    BY <2>1
  <2>3. c \in Waiting(w)
    BY OtherPhase DEF PhaseStep, Waiting
  <2>4. n \in Nat
    BY <2>2, <2>3, WaitingInHands, HandsAreClaims
  <2>5. QED
    BY <2>2, <2>3, <2>4 DEF Promised
<1>4. QED
  BY <1>1, <1>2, <1>3 DEF Promised

(* Two claims of a row in the same hand, of the same attempt, are one. *)
LEMMA ClaimsAlike ==
  ASSUME TypeInv, NEW v \in Workers, NEW w \in Workers, NEW c \in InHands(v),
         NEW d \in InHands(w), c.event = d.event, c.attempts = d.attempts
  PROVE  c = d
BY HandsAreClaims DEF Claims

(* Only a row that a worker minds is closed and yet unsettled, and it is opened by *)
(* a fault or by the failure of its handler, which gives its own promise up.       *)
LEMMA OpeningTrades ==
  ASSUME TypeInv, IInv, Other, NEW e \in Events, faults' = faults,
         Closed(e), ~Closed(e)'
  PROVE  \E n \in Promised(e) : n # attempts[e] + 1 /\ n \notin Promised(e)'
<1>1. HandsKnown /\ HandsDistinct /\ HandledOnce /\ LeaseShape /\ ClaimIsCurrent
      /\ AuditPending /\ TypeOK
  BY DEF IInv, TypeInv
<1>2. [Next]_vars
  BY DEF Other, Next
<1>3. status[e] \notin Terminal
  BY <1>2, SettledStays DEF Closed
<1>4. /\ status[e] = "PROCESSING" /\ leaseLeft[e] > 0 /\ leaseOwner[e] \in Workers
      /\ \E c \in Minded(leaseOwner[e]) : c.event = e
  BY <1>1, <1>3 DEF Closed, LeaseShape, TypeOK
<1>5. PICK v \in Workers : v = leaseOwner[e]
  BY <1>4
<1>6. PICK c \in Minded(v) : c.event = e
  BY <1>4, <1>5
<1>7. /\ c \in InHands(v) /\ Holds(v, e) /\ c \in Claims
      /\ c.attempts = attempts[e] /\ attempts[e] \in Nat
  BY <1>1, <1>4, <1>5, <1>6, WaitingInHands, HandsAreClaims DEF Holds, ClaimIsCurrent, TypeOK
<1>8. status'[e] \notin Terminal
  BY DEF Closed
<1>9. ~SettledBy(v, e)
  <2>1. SUFFICES ASSUME SettledBy(v, e) PROVE FALSE
    OBVIOUS
  <2>2. phase[v] = "fail" /\ current[v].event = e
    BY <1>8, <2>1 DEF SettledBy, Terminal
  <2>3. current[v] \in InHands(v) /\ c \in batch[v]
    BY <1>6, <2>2, CurrentIsClaim, NoClaimIsNoClaim DEF InHands, Minded
  <2>4. current[v].attempts = attempts[e]
    BY <1>1, <1>7, <2>2, <2>3 DEF ClaimIsCurrent
  <2>5. c = current[v]
    BY <1>6, <1>7, <2>2, <2>3, <2>4, ClaimsAlike
  <2>6. QED
    BY <1>1, <2>3, <2>5 DEF HandsDistinct
<1>10. status'[e] = status[e] /\ leaseOwner'[e] = leaseOwner[e]
  BY <1>4, <1>5, <1>9, OtherRow DEF RowStep, SettledBy, Holds
<1>11. leaseLeft'[e] > 0 /\ c \in InHands(v)'
  <2>1. Holds(v, e)'
    BY <1>4, <1>5, <1>10 DEF Holds
  <2>2. QED
    BY <1>1, <1>4, <1>6, <1>7, <2>1, KeepHold
<1>12. c \notin Minded(v)'
  <2>1. leaseOwner'[e] = v /\ status'[e] = "PROCESSING"
    BY <1>4, <1>5, <1>10
  <2>2. ~ \E d \in Minded(leaseOwner[e])' : d.event = e
    BY <1>11, <2>1 DEF Closed, Minded
  <2>3. Minded(leaseOwner[e])' = Minded(v)'
    BY <2>1 DEF Minded
  <2>4. QED
    BY <1>6, <2>2, <2>3
<1>13. TypeInv' /\ HandsDistinct'
  BY <1>1, <1>2, TypeStep, HandsDistinctStep
<1>14. c = current'[v] /\ phase'[v] = "fail"
  <2>1. c = current'[v] /\ phase'[v] \notin {"handle", "complete"}
    BY <1>11, <1>12 DEF InHands, Minded
  <2>2. current'[v] # NoClaim
    BY <1>7, <2>1, NoClaimIsNoClaim
  <2>3. phase'[v] \in {"audit", "fail"}
    BY <1>13, <2>1, <2>2 DEF TypeInv, TypeOK, PhaseShape, Phases
  <2>4. phase'[v] # "audit"
    <3>1. SUFFICES ASSUME phase'[v] = "audit" PROVE FALSE
      OBVIOUS
    <3>2. AuditPending'
      BY <1>2, AuditPendingStep DEF IInv
    <3>3. status'[e] = "PROCESSED"
      BY <1>6, <2>1, <3>1, <3>2 DEF AuditPending
    <3>4. QED
      BY <1>8, <3>3 DEF Terminal
  <2>5. QED
    BY <2>1, <2>3, <2>4
<1>15. /\ current[v] = c /\ phase[v] = "handle"
       /\ UNCHANGED <<handled, attempts>>
  <2>1. current[v] = c /\ phase[v] \in {"handle", "fail"}
        /\ (phase[v] = "handle" => UNCHANGED <<handled, attempts>>)
    BY <1>14, ToCatchBlock
  <2>2. phase[v] # "fail"
    BY <1>1, <1>6, <2>1 DEF Minded, HandsDistinct
  <2>3. QED
    BY <2>1, <2>2
<1>16. c.attempts \in Promised(e) /\ c.attempts # attempts[e] + 1
  BY <1>6, <1>7, <1>15 DEF Promised, Waiting, Claims
<1>17. c.attempts \notin Promised(e)'
  <2>1. c.attempts \notin handled'[e]
    BY <1>1, <1>6, <1>15 DEF HandledOnce
  <2>2. ASSUME NEW u \in Workers, NEW d \in Waiting(u)',
               d.event = e, d.attempts = c.attempts
        PROVE  FALSE
    <3>1. d \in InHands(u)' /\ d \in InHands(u)
      <4>1. d \in InHands(u)'
        BY <1>13, <2>2, WaitingInHandsThen
      <4>2. QED
        BY <4>1, <1>1, OtherHands
    <3>2. d = c
      BY <1>6, <1>7, <2>2, <3>1, ClaimsAlike
    <3>3. u = v
      BY <1>1, <1>7, <3>1, <3>2 DEF HandsDistinct
    <3>4. d \in batch'[v]
      BY <1>14, <2>2, <3>3 DEF Waiting
    <3>5. QED
      BY <1>13, <1>14, <3>2, <3>4 DEF HandsDistinct
  <2>3. c.attempts # attempts'[e] + 1
    BY <1>7, <1>15
  <2>4. QED
    BY <2>1, <2>2, <2>3 DEF Promised
<1>18. QED
  BY <1>16, <1>17

(* Every step keeps, trades or pays. *)
LEMMA StepTrades ==
  ASSUME TypeInv, IInv, [Next]_vars, NEW e \in Events
  PROVE  Traded(e)
<1>1. ASSUME NEW w \in Workers, Poll(w) PROVE Traded(e)
  BY <1>1, ClaimTrades DEF Traded
<1>2. CASE Other
  <2>1. Promised(e)' \subseteq Promised(e) \cup {attempts[e] + 1}
    BY <1>2, OldPromises
  <2>2. CASE attempts[e] + 1 \notin Promised(e)'
    BY <2>1, <2>2 DEF Traded
  <2>3. CASE attempts[e] + 1 \in Promised(e)
    BY <2>1, <2>3 DEF Traded
  <2>4. CASE attempts[e] + 1 \in Promised(e)' /\ attempts[e] + 1 \notin Promised(e)
    <3>1. Closed(e)
      BY <2>4 DEF Promised
    <3>2. CASE faults' = faults + 1
      BY <2>1, <3>2 DEF Traded
    <3>3. CASE faults' = faults
      <4>1. ~Closed(e)'
        <5>1. TypeInv' /\ IInv' /\ attempts'[e] = attempts[e] /\ attempts[e] \in Nat
          BY <1>2, TypeStep, IInvStep, OtherRow DEF TypeInv, TypeOK
        <5>2. SUFFICES ASSUME Closed(e)' PROVE FALSE
          OBVIOUS
        <5>3. attempts[e] + 1 \notin handled'[e]
          BY <5>1 DEF IInv, HandledOnce
        <5>4. ASSUME NEW w \in Workers, NEW c \in Waiting(w)',
                     c.event = e, c.attempts = attempts[e] + 1
              PROVE  FALSE
          <6>1. c \in InHands(w)'
            BY <5>1, <5>4, WaitingInHandsThen
          <6>2. c.attempts <= attempts'[e]
            BY <5>1, <5>4, <6>1 DEF IInv, HandsKnown
          <6>3. QED
            BY <5>1, <5>4, <6>2
        <5>5. QED
          BY <2>4, <5>2, <5>3, <5>4 DEF Promised
      <4>2. PICK n \in Promised(e) : n # attempts[e] + 1 /\ n \notin Promised(e)'
        BY <1>2, <3>1, <3>3, <4>1, OpeningTrades
      <4>3. QED
        BY <2>1, <4>2 DEF Traded
    <3>4. QED
      BY <3>2, <3>3, FaultSteps
  <2>5. QED
    BY <2>2, <2>3, <2>4
<1>3. QED
  BY <1>1, <1>2, StepSplit

(* One more element counts one at most. *)
LEMMA OneMore ==
  ASSUME NEW S, NEW x, IsFiniteSet(S)
  PROVE  IsFiniteSet(S \cup {x}) /\ Cardinality(S \cup {x}) <= Cardinality(S) + 1
<1>1. Cardinality(S) \in Nat
  BY FS_CardinalityType
<1>2. /\ IsFiniteSet(S \cup {x})
      /\ Cardinality(S \cup {x}) = IF x \in S THEN Cardinality(S) ELSE Cardinality(S) + 1
  BY FS_AddElement, Zenon
<1>3. QED
  BY <1>1, <1>2

(* The promises stay paid. *)
LEMMA PromisesPaidStep == TypeInv /\ IInv /\ PromisesPaid /\ [Next]_vars => PromisesPaid'
<1> SUFFICES ASSUME TypeInv, IInv, PromisesPaid, [Next]_vars, NEW e \in Events
             PROVE  Cardinality(Promised(e)') <= 1 + faults'
  BY DEF PromisesPaid
<1> DEFINE P == Promised(e)
           N == attempts[e] + 1
<1>1. /\ IsFiniteSet(P) /\ Cardinality(P) \in Nat /\ Cardinality(P) <= 1 + faults
      /\ faults \in Nat /\ faults' \in Nat /\ faults' >= faults
  BY PromisesFinite, FaultsGrow DEF PromisesPaid
<1>2. Traded(e)
  BY StepTrades
<1> HIDE DEF P, N
<1>3. ASSUME P' \subseteq P PROVE Cardinality(P') <= 1 + faults'
  <2>1. Cardinality(P') <= Cardinality(P) /\ IsFiniteSet(P')
    BY <1>1, <1>3, FS_Subset
  <2>2. QED
    BY <1>1, <2>1, FS_CardinalityType
<1>4. ASSUME NEW n \in P, P' \subseteq (P \ {n}) \cup {N}
      PROVE  Cardinality(P') <= 1 + faults'
  <2>1. IsFiniteSet(P \ {n}) /\ Cardinality(P \ {n}) = Cardinality(P) - 1
    BY <1>1, <1>4, FS_RemoveElement
  <2>2. /\ IsFiniteSet((P \ {n}) \cup {N})
        /\ Cardinality((P \ {n}) \cup {N}) <= Cardinality(P)
    <3> DEFINE Q == P \ {n}
    <3>1. IsFiniteSet(Q) /\ Cardinality(Q) = Cardinality(P) - 1
      BY <2>1
    <3> HIDE DEF Q
    <3>2. IsFiniteSet(Q \cup {N}) /\ Cardinality(Q \cup {N}) <= Cardinality(Q) + 1
      BY <3>1, OneMore
    <3>3. Cardinality(Q \cup {N}) <= Cardinality(P) /\ IsFiniteSet(Q \cup {N})
      <4>1. Cardinality(Q \cup {N}) \in Nat
        BY <3>2, FS_CardinalityType
      <4>2. QED
        BY <1>1, <3>1, <3>2, <4>1
    <3>4. QED
      BY <3>3 DEF Q
  <2>3. Cardinality(P') <= Cardinality((P \ {n}) \cup {N}) /\ IsFiniteSet(P')
    BY <1>4, <2>2, FS_Subset
  <2>4. QED
    BY <1>1, <2>2, <2>3, FS_CardinalityType
<1>5. ASSUME faults' = faults + 1, P' \subseteq P \cup {N}
      PROVE  Cardinality(P') <= 1 + faults'
  <2>1. IsFiniteSet(P \cup {N}) /\ Cardinality(P \cup {N}) <= Cardinality(P) + 1
    BY <1>1, OneMore
  <2>2. Cardinality(P') <= Cardinality(P \cup {N}) /\ IsFiniteSet(P')
    BY <1>5, <2>1, FS_Subset
  <2>3. QED
    BY <1>1, <1>5, <2>1, <2>2, FS_CardinalityType
<1>6. QED
  BY <1>2, <1>3, <1>4, <1>5 DEF Traded, P, N

(* A row not yet inserted has one promise, its first attempt. *)
LEMMA PromisesPaidInit == Init => PromisesPaid
<1> SUFFICES ASSUME Init, NEW e \in Events PROVE Cardinality(Promised(e)) <= 1 + faults
  BY DEF PromisesPaid
<1>1. \A w \in Workers : Waiting(w) = {}
  BY DEF Init, Waiting
<1>2. Promised(e) = {1} /\ faults = 0
  BY <1>1 DEF Init, Promised, Closed, Terminal
<1>3. IsFiniteSet({1}) /\ Cardinality({1}) = 1
  BY FS_Singleton, Zenon
<1>4. QED
  BY <1>2, <1>3

(* A row is delivered at most once more than faults happened, whatever the workers *)
(* interleave: a second delivery is owed to a crash, a database error or a lease   *)
(* that ran out under its owner.                                                   *)
THEOREM DeliveriesAccounted == Spec => []DuplicatesNeedFaults
<1>1. TypeInv /\ IInv /\ PromisesPaid => DuplicatesNeedFaults
  <2>1. SUFFICES ASSUME TypeInv, IInv, PromisesPaid, NEW e \in Events
                 PROVE  Cardinality(handled[e]) <= 1 + faults
    BY DEF DuplicatesNeedFaults
  <2>2. handled[e] \in SUBSET Promised(e)
    BY DEF Promised
  <2>3. /\ IsFiniteSet(Promised(e)) /\ Cardinality(Promised(e)) \in Nat
        /\ Cardinality(Promised(e)) <= 1 + faults
    BY <2>1, PromisesFinite DEF PromisesPaid
  <2>4. IsFiniteSet(handled[e]) /\ Cardinality(handled[e]) <= Cardinality(Promised(e))
    BY <2>2, <2>3, FS_Subset
  <2>5. faults \in Nat /\ Cardinality(handled[e]) \in Nat
    BY <2>1, <2>4, FS_CardinalityType, ConfigAssumption DEF TypeInv, TypeOK
  <2>6. QED
    BY <2>3, <2>4, <2>5
<1>2. Spec => []PromisesPaid
  BY Inductive, PromisesPaidInit, PromisesPaidStep, PTL DEF Spec
<1>3. QED
  BY <1>1, <1>2, Inductive, PTL

-----------------------------------------------------------------------------
(* The refinement of the at-least-once queue. *)

(* At first the queue is empty. *)
LEMMA QueueInit == Init => Queue!Init
BY DEF Init, Queue!Init, QueueState

(* A claim is a step of the queue. *)
LEMMA QueueClaim ==
  ASSUME TypeInv, NEW w \in Workers, Poll(w)
  PROVE  Queue!Next
<1>1. PICK S \in SUBSET Events :
        /\ Oldest(S)
        /\ status' = [e \in Events |-> IF e \in S THEN "PROCESSING" ELSE status[e]]
        /\ attempts' = [e \in Events |-> IF e \in S THEN attempts[e] + 1 ELSE attempts[e]]
  BY DEF Poll, Claim
<1>2. S # {} /\ \A e \in S : QueueState[e] = "QUEUED"
  BY <1>1 DEF Oldest, ClaimableEvents, Claimable, QueueState
<1>3. QueueState' = QueueState
  BY <1>1, <1>2 DEF QueueState, Oldest, ClaimableEvents, Claimable
<1>4. handled' = handled
  BY DEF Poll, world
<1>5. QED
  BY <1>1, <1>2, <1>3, <1>4 DEF Queue!Next, Queue!Attempt

(* Settling a held row acknowledges it, buries it, or keeps it queued. *)
LEMMA QueueSettle ==
  ASSUME TypeInv, IInv, NEW w \in Workers, NEW e \in Events, NEW st, NEW n,
         Holds(w, e), Settle(e, st, n), handled' = handled,
         \/ st = "PROCESSED" /\ handled[e] # {}
         \/ st = "DEAD_LETTER" /\ attempts[e] >= MaximumAttempts
         \/ st = "PENDING"
  PROVE  [Queue!Next]_Queue!vars
<1>1. attempts' = attempts /\ status' = [status EXCEPT ![e] = st] /\ QueueState[e] = "QUEUED"
  BY DEF Settle, Holds, QueueState
<1>2. CASE st = "PROCESSED" /\ handled[e] # {}
  <2>1. QueueState' = [QueueState EXCEPT ![e] = "DONE"]
    BY <1>1, <1>2 DEF QueueState, TypeInv, TypeOK
  <2>2. QED
    BY <1>1, <1>2, <2>1 DEF Queue!Next, Queue!Acknowledge
<1>3. CASE st = "DEAD_LETTER" /\ attempts[e] >= MaximumAttempts
  <2>1. QueueState' = [QueueState EXCEPT ![e] = "DEAD"]
    BY <1>1, <1>3 DEF QueueState, TypeInv, TypeOK
  <2>2. QED
    BY <1>1, <1>3, <2>1 DEF Queue!Next, Queue!Bury
<1>4. CASE st = "PENDING"
  <2>1. QueueState' = QueueState
    BY <1>1, <1>4 DEF QueueState, TypeInv, TypeOK
  <2>2. QED
    BY <1>1, <2>1 DEF Queue!vars
<1>5. QED
  BY <1>2, <1>3, <1>4

(* A step other than a claim is a step of the queue, or none. *)
LEMMA QueueOther ==
  ASSUME TypeInv, IInv, Other
  PROVE  [Queue!Next]_Queue!vars
<1>1. CASE UNCHANGED <<status, attempts, handled>>
  <2>1. QueueState' = QueueState
    BY <1>1 DEF QueueState
  <2>2. QED
    BY <1>1, <2>1 DEF Queue!vars
<1>2. ASSUME NEW e \in Events, Produce(e) PROVE [Queue!Next]_Queue!vars
  <2>1. /\ status[e] = "ABSENT" /\ status' = [status EXCEPT ![e] = "PENDING"]
        /\ attempts' = attempts /\ handled' = handled
    BY <1>2 DEF Produce, world
  <2>2. QueueState[e] = "ABSENT" /\ QueueState' = [QueueState EXCEPT ![e] = "QUEUED"]
    BY <2>1 DEF QueueState, TypeInv, TypeOK
  <2>3. QED
    BY <2>1, <2>2 DEF Queue!Next, Queue!Enqueue
<1>3. ASSUME NEW w \in Workers, HandleOk(w) \/ HandlePartial(w)
      PROVE  [Queue!Next]_Queue!vars
  <2> DEFINE e == current[w].event
             n == current[w].attempts
  <2>1. /\ phase[w] = "handle" /\ e \in Handled
        /\ handled' = [handled EXCEPT ![e] = @ \cup {n}]
        /\ status' = status /\ attempts' = attempts
    BY <1>3 DEF HandleOk, HandlePartial, table
  <2>2. current[w] \in InHands(w) /\ current[w] \in Claims /\ e \in Events
    BY <2>1, CurrentIsClaim, NoClaimIsNoClaim DEF InHands
  <2>3. n \notin handled[e] /\ n <= attempts[e] /\ n \in Nat \ {0}
    BY <2>1, <2>2 DEF IInv, HandledOnce, HandsKnown, Claims
  <2>4. n \in 1..attempts[e]
    BY <2>2, <2>3 DEF TypeInv, TypeOK
  <2>5. QueueState' = QueueState
    BY <2>1 DEF QueueState
  <2>6. Queue!Deliver(e, n)
    BY <2>1, <2>3, <2>4, <2>5 DEF Queue!Deliver
  <2>7. QED
    BY <2>2, <2>4, <2>6 DEF Queue!Next
<1>4. ASSUME NEW w \in Workers, phase[w] = "complete", Holds(w, current[w].event),
             MarkProcessed(current[w].event), UNCHANGED handled
      PROVE  [Queue!Next]_Queue!vars
  <2>1. current[w].event \in Events
    BY <1>4, CurrentIsClaim
  <2>2. handled[current[w].event] # {}
    BY <1>4 DEF IInv, HandledOnce
  <2>3. QED
    BY <1>4, <2>1, <2>2, QueueSettle DEF MarkProcessed
<1>5. ASSUME NEW w \in Workers, phase[w] = "fail", Holds(w, current[w].event),
             MarkFailed(current[w]), UNCHANGED handled
      PROVE  [Queue!Next]_Queue!vars
  <2>1. current[w].event \in Events /\ current[w] \in InHands(w)
    BY <1>5, CurrentIsClaim, NoClaimIsNoClaim DEF InHands
  <2>2. Exhausted(current[w]) => attempts[current[w].event] >= MaximumAttempts
    BY <1>5, <2>1 DEF IInv, ClaimIsCurrent, Exhausted
  <2>3. QED
    BY <1>5, <2>1, <2>2, QueueSettle DEF MarkFailed
<1>6. QED
  BY <1>1, <1>2, <1>3, <1>4, <1>5
  DEF Other, Progress, Fault, Start, Process, PollDone, HandleError, Complete,
      CompleteError, Audit, AuditError, Fail, FailError, Crash, Tick, table, world, vars

(* The outbox implements the at-least-once queue: every step of every worker is an *)
(* enqueue, the start of attempts, a delivery, an acknowledgement, a burial, or    *)
(* invisible to a producer.                                                        *)
THEOREM Refinement == Spec => ImplementsQueue
<1>1. TypeInv /\ IInv /\ [Next]_vars => [Queue!Next]_Queue!vars
  BY QueueOther, QueueClaim, StepSplit
<1>2. QED
  BY <1>1, QueueInit, Inductive, PTL DEF Spec, ImplementsQueue, Queue!Spec

=============================================================================
