------------------------------- MODULE Outbox -------------------------------
(***************************************************************************)
(* The transactional outbox and its workers (apps/worker/src/outbox and    *)
(* apps/worker/src/runtime.ts).                                            *)
(*                                                                         *)
(* API transactions insert rows into "OutboxEvent".  Worker processes      *)
(* claim batches of rows under a lease, run the handler of each row, and   *)
(* settle the row with an update guarded by the lease owner.  A worker may *)
(* crash (or be stopped: main.ts exits without waiting for the poll in     *)
(* flight) between any two steps, a database call may fail before or       *)
(* after its effect, and a lease may run out under a worker that is still  *)
(* busy.  These three faults share the budget MaxFaults.                   *)
(*                                                                         *)
(* Instants are modelled by the ticks left until they are reached:         *)
(* availableIn[e] = 0 is "availableAt" <= NOW(), leaseLeft[e] = 0 is       *)
(* "leaseExpiresAt" <= NOW().                                              *)
(***************************************************************************)
EXTENDS Integers, FiniteSets, Sequences

CONSTANTS
  Events,           \* identifiers of outbox rows
  Handled,          \* the events whose eventType has a registered handler
  Workers,          \* worker processes; a restart keeps the slot
  None,             \* the NULL of leaseOwner
  MaximumAttempts,  \* OutboxWorkerConfig.maximumAttempts
  LeaseTimeout,     \* OutboxWorkerConfig.leaseTimeoutMs, in ticks
  RetryBaseDelay,   \* OutboxWorkerConfig.retryBaseDelayMs, in ticks
  BatchSize,        \* OutboxWorkerConfig.batchSize
  MaxFaults         \* bound: crashes, database errors, lease overruns

(* retryBaseDelayMs * 2 ** max(0, attempts - 1); attempts >= 1 once claimed. *)
RetryDelay(n) == RetryBaseDelay * 2 ^ (n - 1)

(* runtime-config.ts admits positive integers only. *)
ASSUME ConfigAssumption ==
  /\ Handled \subseteq Events
  /\ None \notin Events \cup Workers
  /\ MaximumAttempts \in Nat \ {0}
  /\ LeaseTimeout \in Nat \ {0}
  /\ RetryBaseDelay \in Nat \ {0}
  /\ BatchSize \in Nat \ {0}
  /\ MaxFaults \in Nat

(* A power of two is a natural number: the only arithmetic the provers lack. *)
ASSUME RetryDelayAssumption ==
  \A n \in 1..MaximumAttempts : RetryDelay(n) \in Nat

VARIABLES
  \* the table "OutboxEvent"
  status, attempts, availableIn, leaseOwner, leaseLeft,
  created,     \* the rows inserted so far, in "createdAt" order
  \* each worker process
  phase,       \* where process() stands
  current,     \* the row being processed, as claimed
  batch,       \* rows claimed by this poll and not yet processed
  metrics,     \* WorkerMetrics of the process
  \* the outside world
  handled,     \* the attempts of a row whose external effect took place
  audits,      \* 'outbox.event.processed' rows per event
  faults       \* faults spent

table     == <<status, attempts, availableIn, leaseOwner, leaseLeft>>
worker    == <<phase, current, batch, metrics>>
world     == <<handled, audits>>
vars      == <<table, created, worker, world, faults>>

Statuses == {"ABSENT", "PENDING", "PROCESSING", "PROCESSED", "DEAD_LETTER"}
Terminal == {"PROCESSED", "DEAD_LETTER"}
Phases   == {"down", "idle", "next", "handle", "complete", "audit", "fail"}

(* The RETURNING clause of the claim: the attempt number travels with the row. *)
Claims    == [event : Events, attempts : Nat \ {0}]
NoClaim   == [event |-> None, attempts |-> 0]
NoMetrics == [processed |-> 0, retries |-> 0, deadLetters |-> 0]

-----------------------------------------------------------------------------
(* Helpers *)

(* Mutants: the claim takes PROCESSING rows without, or never, looking at leases. *)
ClaimableUnleased(e) ==
  \/ status[e] = "PENDING" /\ availableIn[e] = 0
  \/ status[e] = "PROCESSING"

ClaimableNeverAgain(e) == status[e] = "PENDING" /\ availableIn[e] = 0

Claimable(e) ==
  \/ status[e] = "PENDING" /\ availableIn[e] = 0
  \/ status[e] = "PROCESSING" /\ leaseLeft[e] = 0

ClaimableEvents == {e \in Events : Claimable(e)}

Older(a, b) ==
  \E i, j \in DOMAIN created : i < j /\ created[i] = a /\ created[j] = b

(* The where clause of both settling updates: id, PROCESSING, leaseOwner = me. *)
Holds(w, e) == status[e] = "PROCESSING" /\ leaseOwner[e] = w

(* Rows a live worker has claimed and not finished with. *)
InHands(w) == batch[w] \cup ({current[w]} \ {NoClaim})

Spend == faults < MaxFaults /\ faults' = faults + 1

(* process() returns: the loop of pollOnce moves on. *)
Return(w) ==
  /\ phase' = [phase EXCEPT ![w] = "next"]
  /\ current' = [current EXCEPT ![w] = NoClaim]

Goto(w, p) == phase' = [phase EXCEPT ![w] = p] /\ UNCHANGED current

-----------------------------------------------------------------------------
(* Actions *)

(* An API transaction commits with outboxEvent.create. *)
Produce(e) ==
  /\ status[e] = "ABSENT"
  /\ status' = [status EXCEPT ![e] = "PENDING"]
  /\ created' = Append(created, e)
  /\ UNCHANGED <<attempts, availableIn, leaseOwner, leaseLeft, worker, world, faults>>

(* The process starts, or is restarted, with a fresh OutboxWorker.  Its workerId is *)
(* a new UUID; keeping the slot's name changes nothing, since the crash emptied     *)
(* the slot's hands and no claim of the dead process is left to match a row with.   *)
Start(w) ==
  /\ phase[w] = "down"
  /\ phase' = [phase EXCEPT ![w] = "idle"]
  /\ metrics' = [metrics EXCEPT ![w] = NoMetrics]
  /\ UNCHANGED <<table, created, current, batch, world, faults>>

(* A rows the claim's LIMIT admits: the oldest claimable ones.  A row locked by *)
(* a concurrent statement is skipped; that statement has just made it           *)
(* unclaimable, so taking the statements one after the other loses nothing.     *)
Oldest(S) ==
  /\ S \subseteq ClaimableEvents
  /\ S # {}
  /\ Cardinality(S) <= BatchSize
  /\ S # ClaimableEvents => Cardinality(S) = BatchSize
  /\ \A a \in S, b \in ClaimableEvents \ S : Older(a, b)

(* What a claim by w of the rows S writes, returning the rows as R. *)
Claim(w, S, R) ==
  /\ status' = [e \in Events |-> IF e \in S THEN "PROCESSING" ELSE status[e]]
  /\ leaseOwner' = [e \in Events |-> IF e \in S THEN w ELSE leaseOwner[e]]
  /\ leaseLeft' = [e \in Events |-> IF e \in S THEN LeaseTimeout ELSE leaseLeft[e]]
  /\ attempts' = [e \in Events |-> IF e \in S THEN attempts[e] + 1 ELSE attempts[e]]
  /\ batch' = [batch EXCEPT ![w] = R]

(* Mutant: poll() without the polling flag starts a second loop over the batch. *)
PollOverlapping(w) ==
  /\ phase[w] \in {"idle", "next"}
  /\ \E S \in SUBSET Events :
       /\ Oldest(S)
       /\ Claim(w, S, batch[w] \cup {[event |-> e, attempts |-> attempts[e] + 1] : e \in S})
  /\ phase' = [phase EXCEPT ![w] = "next"]
  /\ UNCHANGED <<availableIn, created, current, metrics, world, faults>>

(* poll() with running and not polling, and the claim of pollOnce.  A poll that *)
(* finds nothing, or whose claim fails, changes no state.                       *)
Poll(w) ==
  /\ phase[w] = "idle"
  /\ \E S \in SUBSET Events :
       /\ Oldest(S)
       /\ Claim(w, S, {[event |-> e, attempts |-> attempts[e] + 1] : e \in S})
  /\ phase' = [phase EXCEPT ![w] = "next"]
  /\ UNCHANGED <<availableIn, created, current, metrics, world, faults>>

(* The loop of pollOnce: the next row of the batch, in whatever order the        *)
(* UPDATE returned them.                                                         *)
Process(w) ==
  /\ phase[w] = "next"
  /\ \E c \in batch[w] :
       /\ current' = [current EXCEPT ![w] = c]
       /\ batch' = [batch EXCEPT ![w] = @ \ {c}]
  /\ phase' = [phase EXCEPT ![w] = "handle"]
  /\ UNCHANGED <<table, created, metrics, world, faults>>

(* The loop is over; poll() clears the polling flag. *)
PollDone(w) ==
  /\ phase[w] = "next"
  /\ batch[w] = {}
  /\ phase' = [phase EXCEPT ![w] = "idle"]
  /\ UNCHANGED <<table, created, current, batch, metrics, world, faults>>

(* handler.handle(event) resolves: the external effect has taken place. *)
HandleOk(w) ==
  /\ phase[w] = "handle"
  /\ current[w].event \in Handled
  /\ handled' = [handled EXCEPT ![current[w].event] = @ \cup {current[w].attempts}]
  /\ Goto(w, "complete")
  /\ UNCHANGED <<table, created, batch, metrics, audits, faults>>

(* No handler is registered for the event type, or the handler throws. *)
HandleError(w) ==
  /\ phase[w] = "handle"
  /\ Goto(w, "fail")
  /\ UNCHANGED <<table, created, batch, metrics, world, faults>>

(* The handler throws after its external effect, e.g. destroyEnvelope fails      *)
(* once the provider has sent.                                                   *)
HandlePartial(w) ==
  /\ phase[w] = "handle"
  /\ current[w].event \in Handled
  /\ Spend
  /\ handled' = [handled EXCEPT ![current[w].event] = @ \cup {current[w].attempts}]
  /\ Goto(w, "fail")
  /\ UNCHANGED <<table, created, batch, metrics, audits>>

(* The columns a settling update writes; leaseOwner and leaseExpiresAt cleared. *)
Settle(e, st, wait) ==
  /\ status' = [status EXCEPT ![e] = st]
  /\ availableIn' = [availableIn EXCEPT ![e] = wait]
  /\ leaseOwner' = [leaseOwner EXCEPT ![e] = None]
  /\ leaseLeft' = [leaseLeft EXCEPT ![e] = 0]
  /\ UNCHANGED attempts

MarkProcessed(e) == Settle(e, "PROCESSED", availableIn[e])

(* Mutant: the success update without leaseOwner in its where clause. *)
CompleteAnyOwner(w) ==
  /\ phase[w] = "complete"
  /\ LET e == current[w].event IN
       IF status[e] = "PROCESSING"
         THEN MarkProcessed(e) /\ Goto(w, "audit")
         ELSE Return(w) /\ UNCHANGED table
  /\ UNCHANGED <<created, batch, metrics, world, faults>>

(* The success update.  No row matched: the lease was lost, return silently. *)
Complete(w) ==
  /\ phase[w] = "complete"
  /\ LET e == current[w].event IN
       IF Holds(w, e)
         THEN MarkProcessed(e) /\ Goto(w, "audit")
         ELSE Return(w) /\ UNCHANGED table
  /\ UNCHANGED <<created, batch, metrics, world, faults>>

(* The success update throws, its effect lost or, the answer being what was lost, *)
(* already committed; either way the catch block runs.                           *)
CompleteError(w) ==
  /\ phase[w] = "complete"
  /\ Spend
  /\ LET e == current[w].event IN
       \/ UNCHANGED table
       \/ Holds(w, e) /\ MarkProcessed(e)
  /\ Goto(w, "fail")
  /\ UNCHANGED <<created, batch, metrics, world>>

(* The audit row, in a statement of its own, then the success counters. *)
Audit(w) ==
  /\ phase[w] = "audit"
  /\ audits' = [audits EXCEPT ![current[w].event] = @ + 1]
  /\ metrics' = [metrics EXCEPT ![w].processed = @ + 1]
  /\ Return(w)
  /\ UNCHANGED <<table, created, batch, handled, faults>>

(* The audit insert throws after the row is PROCESSED: the catch block runs too. *)
AuditError(w) ==
  /\ phase[w] = "audit"
  /\ Spend
  /\ audits' \in {audits, [audits EXCEPT ![current[w].event] = @ + 1]}
  /\ Goto(w, "fail")
  /\ UNCHANGED <<table, created, batch, metrics, handled>>

(* Mutant: the comparison with maximumAttempts is off by one. *)
ExhaustedLate(c) == c.attempts > MaximumAttempts

(* attempts is the number the claim returned, not a fresh read. *)
Exhausted(c) == c.attempts >= MaximumAttempts

MarkFailed(c) ==
  IF Exhausted(c)
    THEN Settle(c.event, "DEAD_LETTER", availableIn[c.event])
    ELSE Settle(c.event, "PENDING", RetryDelay(c.attempts))

(* Mutant: the catch block updates the row by id alone. *)
FailUnguarded(w) ==
  /\ phase[w] = "fail"
  /\ MarkFailed(current[w])
  /\ Return(w)
  /\ UNCHANGED <<created, batch, metrics, world, faults>>

(* The catch block.  The counters move whether or not the update matched a row. *)
Fail(w) ==
  /\ phase[w] = "fail"
  /\ LET c == current[w] IN
       /\ IF Holds(w, c.event) THEN MarkFailed(c) ELSE UNCHANGED table
       /\ metrics' = IF Exhausted(c)
                       THEN [metrics EXCEPT ![w].deadLetters = @ + 1]
                       ELSE [metrics EXCEPT ![w].retries = @ + 1]
  /\ Return(w)
  /\ UNCHANGED <<created, batch, world, faults>>

(* The update of the catch block throws: pollOnce rejects and the rest of the    *)
(* batch is abandoned, still PROCESSING under this worker's lease.               *)
FailError(w) ==
  /\ phase[w] = "fail"
  /\ Spend
  /\ LET c == current[w] IN
       \/ UNCHANGED table
       \/ Holds(w, c.event) /\ MarkFailed(c)
  /\ phase' = [phase EXCEPT ![w] = "idle"]
  /\ current' = [current EXCEPT ![w] = NoClaim]
  /\ batch' = [batch EXCEPT ![w] = {}]
  /\ UNCHANGED <<created, metrics, world>>

(* The process dies, or stop() runs: process.exit does not wait for the poll. *)
Crash(w) ==
  /\ phase[w] # "down"
  /\ Spend
  /\ phase' = [phase EXCEPT ![w] = "down"]
  /\ current' = [current EXCEPT ![w] = NoClaim]
  /\ batch' = [batch EXCEPT ![w] = {}]
  /\ UNCHANGED <<table, created, metrics, world>>

(* A tick that ends the lease of a row its owner is still busy with. *)
Overruns ==
  \E w \in Workers : \E c \in InHands(w) :
    Holds(w, c.event) /\ leaseLeft[c.event] = 1

Down1(n) == IF n = 0 THEN 0 ELSE n - 1

(* Time passes.  Workers keep their leases unless a fault is spent on an overrun. *)
Tick ==
  /\ \E e \in Events : leaseLeft[e] > 0 \/ availableIn[e] > 0
  /\ IF Overruns THEN Spend ELSE UNCHANGED faults
  /\ leaseLeft' = [e \in Events |-> Down1(leaseLeft[e])]
  /\ availableIn' = [e \in Events |-> Down1(availableIn[e])]
  /\ UNCHANGED <<status, attempts, leaseOwner, created, worker, world>>

-----------------------------------------------------------------------------
Init ==
  /\ status = [e \in Events |-> "ABSENT"]
  /\ attempts = [e \in Events |-> 0]
  /\ availableIn = [e \in Events |-> 0]
  /\ leaseOwner = [e \in Events |-> None]
  /\ leaseLeft = [e \in Events |-> 0]
  /\ created = <<>>
  /\ phase = [w \in Workers |-> "down"]
  /\ current = [w \in Workers |-> NoClaim]
  /\ batch = [w \in Workers |-> {}]
  /\ metrics = [w \in Workers |-> NoMetrics]
  /\ handled = [e \in Events |-> {}]
  /\ audits = [e \in Events |-> 0]
  /\ faults = 0

(* What an unfinished poll does next when nothing fails. *)
Progress(w) ==
  Process(w) \/ PollDone(w) \/ HandleOk(w) \/ HandleError(w)
  \/ Complete(w) \/ Audit(w) \/ Fail(w)

Fault(w) ==
  HandlePartial(w) \/ CompleteError(w) \/ AuditError(w) \/ FailError(w) \/ Crash(w)

(* Every row is settled and every worker waits for its timer. *)
Quiescent ==
  /\ \A e \in Events : status[e] \in Terminal
  /\ \A w \in Workers : phase[w] = "idle"
  /\ UNCHANGED vars

Next ==
  \/ \E e \in Events : Produce(e)
  \/ \E w \in Workers : Start(w) \/ Poll(w) \/ Progress(w) \/ Fault(w)
  \/ Tick
  \/ Quiescent

(* Producers need not be fair.  A worker is: its interval timer polls, promises   *)
(* settle, and the container is restarted (docker-compose: unless-stopped).       *)
Fairness ==
  /\ \A w \in Workers : WF_vars(Start(w)) /\ WF_vars(Poll(w)) /\ WF_vars(Progress(w))
  /\ WF_vars(Tick)

Spec == Init /\ [][Next]_vars
FairSpec == Spec /\ Fairness

-----------------------------------------------------------------------------
(* Properties *)

(* Every variable has its type. *)
TypeOK ==
  /\ status \in [Events -> Statuses]
  /\ attempts \in [Events -> Nat]
  /\ availableIn \in [Events -> Nat]
  /\ leaseOwner \in [Events -> Workers \cup {None}]
  /\ leaseLeft \in [Events -> 0..LeaseTimeout]
  /\ created \in Seq(Events)
  /\ phase \in [Workers -> Phases]
  /\ current \in [Workers -> Claims \cup {NoClaim}]
  /\ batch \in [Workers -> SUBSET Claims]
  /\ metrics \in [Workers -> [processed : Nat, retries : Nat, deadLetters : Nat]]
  /\ handled \in [Events -> SUBSET Nat]
  /\ audits \in [Events -> Nat]
  /\ faults \in 0..MaxFaults

(* A row is never acknowledged before its handler has succeeded at least once,     *)
(* whichever worker settled it and whatever lease was lost on the way.             *)
NeverProcessedUnhandled ==
  \A e \in Events : status[e] = "PROCESSED" => handled[e] # {}

(* The number of deliveries of one event is bounded by the faults that happened:   *)
(* with no crash, no database error and no lease overrun a row is handled once.    *)
DuplicatesNeedFaults ==
  \A e \in Events : Cardinality(handled[e]) <= 1 + faults

(* Every claim beyond maximumAttempts is owed to a fault.                          *)
ExtraAttemptsNeedFaults ==
  \A e \in Events : attempts[e] <= MaximumAttempts + faults

(* A row is given up only when its attempts are used up.                           *)
DeadLetterExhausted ==
  \A e \in Events : status[e] = "DEAD_LETTER" => attempts[e] >= MaximumAttempts

(* The attempt number a worker decides retry or dead letter with is the row's own  *)
(* as long as the guarded update can still match: no second claim hides behind     *)
(* the same leaseOwner.                                                            *)
ClaimIsCurrent ==
  \A w \in Workers : \A c \in InHands(w) :
    Holds(w, c.event) => c.attempts = attempts[c.event]

(* At most one audit row per event, and only for a row that is PROCESSED.          *)
OneAuditPerProcessed ==
  \A e \in Events : audits[e] <= 1 /\ (audits[e] = 1 => status[e] = "PROCESSED")

(* PROCESSED and DEAD_LETTER are final: not even a late catch block of a worker    *)
(* whose audit insert failed, or whose lease was taken, reopens a settled row.     *)
SettledIsFinal ==
  [][\A e \in Events : status[e] \in Terminal => status'[e] = status[e]]_vars

(* A row leaves PROCESSING only by the hand of the worker that holds its lease and *)
(* is processing that very row.                                                    *)
OnlyHolderSettles ==
  [][\A e \in Events :
       status[e] = "PROCESSING" /\ status'[e] # "PROCESSING" =>
         \E w \in Workers : leaseOwner[e] = w /\ current[w].event = e]_vars

(* Every row that was inserted is eventually PROCESSED or DEAD_LETTER, through any *)
(* bounded number of faults.                                                       *)
EveryEventSettles ==
  \A e \in Events : status[e] = "PENDING" ~> status[e] \in Terminal

-----------------------------------------------------------------------------
(* The inductive invariant *)

(* Rows in hand exist, and were claimed no later than the last claim. *)
HandsKnown ==
  \A w \in Workers : \A c \in InHands(w) :
    status[c.event] # "ABSENT" /\ c.attempts <= attempts[c.event]

(* No claim is in two hands, nor twice in one. *)
HandsDistinct ==
  /\ \A v, w \in Workers : \A c \in InHands(v) : c \in InHands(w) => v = w
  /\ \A w \in Workers : current[w] \notin batch[w]

(* A claim not yet handed to its handler has delivered nothing; one past its *)
(* handler has; and none is ahead of the row's counter.                      *)
HandledOnce ==
  /\ \A w \in Workers : \A c \in batch[w] : c.attempts \notin handled[c.event]
  /\ \A w \in Workers :
       /\ phase[w] = "handle" =>
            current[w].attempts \notin handled[current[w].event]
       /\ phase[w] \in {"complete", "audit"} =>
            current[w].attempts \in handled[current[w].event]
  /\ \A e \in Events : \A n \in handled[e] : 1 <= n /\ n <= attempts[e]

(* A row has a lease owner exactly while it is PROCESSING, and no attempt before *)
(* it exists.                                                                    *)
LeaseShape ==
  \A e \in Events :
    /\ status[e] = "PROCESSING" <=> leaseOwner[e] # None
    /\ status[e] = "ABSENT" => attempts[e] = 0

(* The worker about to write the audit row is alone, and no audit row exists. *)
AuditPending ==
  /\ \A w \in Workers : phase[w] = "audit" =>
       status[current[w].event] = "PROCESSED" /\ audits[current[w].event] = 0
  /\ \A v, w \in Workers :
       phase[v] = "audit" /\ phase[w] = "audit" /\ current[v].event = current[w].event
         => v = w

(* A row that can be claimed again has attempts left, counting the faults: an    *)
(* abandoned or overrun lease has cost one.                                      *)
AttemptsLeft ==
  \A e \in Events :
    /\ attempts[e] <= MaximumAttempts + faults
    /\ status[e] = "PENDING" => attempts[e] < MaximumAttempts + faults
    /\ status[e] = "PROCESSING" /\ attempts[e] = MaximumAttempts + faults =>
         leaseLeft[e] > 0 /\ \E c \in InHands(leaseOwner[e]) : c.event = e

IInv ==
  /\ HandsKnown
  /\ HandsDistinct
  /\ HandledOnce
  /\ LeaseShape
  /\ ClaimIsCurrent
  /\ NeverProcessedUnhandled
  /\ DeadLetterExhausted
  /\ AuditPending
  /\ OneAuditPerProcessed
  /\ AttemptsLeft

-----------------------------------------------------------------------------
(* Refinement *)

(* The abstract queue of the producers, read off the table.                        *)
QueueState ==
  [e \in Events |->
     CASE status[e] = "ABSENT"      -> "ABSENT"
       [] status[e] = "PROCESSED"   -> "DONE"
       [] status[e] = "DEAD_LETTER" -> "DEAD"
       [] OTHER                     -> "QUEUED"]

Queue == INSTANCE AtLeastOnceQueue WITH
  Deliverable <- Handled, Limit <- MaximumAttempts,
  state <- QueueState, tries <- attempts, delivered <- handled

(* The outbox implements the at-least-once queue: claims, leases, retries, crashes *)
(* and stale workers are invisible to a producer except as repeated deliveries,    *)
(* and each claim delivers at most once.                                           *)
ImplementsQueue == Queue!Spec

=============================================================================
