# Verification of the rental-management platform

TLA+ modules, TLC configurations and TLAPS proofs for the API (`apps/api/src`), the
outbox worker (`apps/worker/src`) and the browser session of the web application
(`apps/web`). File names below are relative to the repository. `PROJECT.json` maps every
definition to the lines it models.

## 1. The system

The API is a NestJS process over PostgreSQL (through Prisma) and Redis. All shared
state lives in database tables; several API processes serve requests concurrently
and several worker processes poll the outbox. What makes the code hard is therefore
not threads but *transactions*: which reads a decision rests on, whether they happen
inside the transaction that acts on it, and at which isolation level. Two parts are hard
in another way: the worker process and the tabs of a browser, where callbacks and awaits
of one event loop interleave.

These patterns occur, and each is modelled differently:

| pattern in the code | where | in the models |
|---|---|---|
| one guarded statement (`updateMany where status = ...`, the SQL claim) | outbox settling, invoice decrement, session rotation | one action whose guard is the `where` clause |
| one atomic script or a unique index | throttles; default roles, active leases, rent schedules | one action; the index refuses the write |
| a SERIALIZABLE transaction | `PaymentService` | one action |
| read and check first, then write, by id or on condition (READ COMMITTED) | `InvoiceService`, the verification engine, the organization, role, assignment, lease and billing services | a read step and a later write step, anything in between |
| an `await` or a `fetch` in an event loop | worker runtime, `AuthProvider` | a step on each side of it |

### Inventory

| component | state | operations | hard behaviour | correct means |
|---|---|---|---|---|
| Outbox and workers (`apps/worker/src`) | `OutboxEvent` rows, leases, per-process batch and metrics, audit rows | produce, claim, handle, mark processed, audit, catch block, crash, restart | leases that expire under a busy worker, crashes between any two steps, lost answers, a catch block that covers the audit insert | no event lost; settled is final; only the lease holder settles; duplicates and extra attempts only through faults; every event settles |
| Worker runtime and health | fields of the runtime, timer, health server, signals | start, poll, health requests, stop | a signal at any await of start-up | no poll after a stop |
| Outbox event policy | registered handlers, required event types (static tables) | start-up gate | producers whose events nobody handles | not modelled: a constant of `Outbox` |
| Notification providers | a map of providers | select, send | effects before an error | not modelled: a handler's effect in `Outbox` |
| Finance (`apps/api/src/finance`) | `Invoice`, `CreditNote`, `Payment`, `PaymentAllocation`, `Refund` | create, update, credit, archive, restore; pay, refund request, allocate an advance, recalculate | stale reads of `InvoiceService` against SERIALIZABLE payments | never overpaid; balance = what is left; PAID means settled; no cent lost |
| Sessions (`identity/services`) | `Session` rows: family, parent, revocation | login, refresh (rotation), logout, logout of all, revoke | two refreshes of one token, refresh against logout-all, roll-back of what a throwing transaction wrote | one successor per session, one active session per family |
| Web application (`apps/web`) | cookies, status and tokens of each tab, calls in flight | sign in, refresh, sign out, reload | tabs that share cookies and answers in any order, lost answers, errors of the proxy | no session lost but by an error or a choice; cookies and tabs say what is so; loading ends |
| Verification engine (`identity/verification-engine`) | `Verification` rows, attempts, envelopes | create, resend, verify, revoke, expire, clean up | attempts counted next to a success | used once; attempts, cooldown and envelopes right |
| Verification channels, password reset | - | adapters of the engine, with an `afterVerified` callback in its transaction | callback failing after the status change | all or nothing |
| Public registration | users, memberships | register | duplicate registrations, acceptances that commit meanwhile | accepted invitations become memberships |
| Throttles | Redis counters | enforce | two counters per request, windows that close in between | no window admits more than its limit |
| Organization lifecycle and approval | organization status, version | activate, suspend, archive, restore; approve, reject, reopen | two services moving one status machine | transitions legal, decisions versioned |
| Invitations, memberships | invitations | invite, accept, decline, revoke | the same invitation answered twice | one outcome |
| Roles, portfolio assignments | roles, their permissions and members, assignments | create, update, delete, set permissions, assign; replace assignments; act on a property | requests that decide on rows read before | rights seen while the request ran; one default role; replacements exact |
| Settings, compliance | versioned rows, audit trail | get with defaults, update | stale versions, lost answers | of two editors of one version one saves; the trail of the risk level connects |
| Leases, occupancy, billing | leases, occupancies, calendars, schedules, deposit | create, update, renew, terminate, archive, restore; calendars; generate schedules; occupy | exclusivity checked outside the transaction; repeated generation; calendar arithmetic | one lease holds a unit; periods tile the lease; occupancies exact |
| Guards, controllers, configuration, mobile, scheduler | none beyond a request | - | - | not modelled: stateless, pure I/O or placeholders |

The hazards, each at its line and with the properties aimed at it, are in
`PROJECT.json`.

## 2. Modules

| module | what it is | theorems |
|---|---|---|
| `Outbox` | the outbox table and its workers, step by step | `OutboxProofs` |
| `AtLeastOnceQueue` | what a producer may rely on: the abstract queue that `Outbox` implements | |
| `WorkerRuntime` | the life of a worker process: start, poll, health, stop | `PlatformProofs` |
| `InvoiceLedger` | invoices, credit notes, payments, advances, refund reservations | `InvoiceLedgerProofs` |
| `InvoiceAccount` | what the ledger promises about money: the abstract accounts | |
| `Sessions` | sessions, rotation of refresh tokens, logout and sweeps | `SessionsProofs` |
| `TokenFamilies` | what a client may rely on: one current session per family | |
| `WebSession` | tabs, cookies and authentication proxy of a browser, over `TokenFamilies` | `WebSessionProofs` |
| `VerificationEngine` | challenges of one subject, channel and purpose | `VerificationEngineProofs` |
| `OneTimeChallenge` | what the engine promises: a challenge is used once, while open | |
| `OrganizationLifecycle` | an organization's status and its administrative approval | `PlatformProofs` |
| `VersionedRecord` | optimistic locking: of two edits from one version, one wins; what reviews, settings and compliance implement | |
| `OrganizationRecords` | the settings and the compliance record, with its audit trail | `PlatformProofs` |
| `Invitations` | invitations with their challenges, registration, memberships | `InvitationsProofs` |
| `Portfolio` | roles, permissions, portfolio assignments, and requests that act on properties | `PlatformProofs` |
| `RequestThrottle` | the fixed windows of registration, verification and authentication | `PlatformProofs` |
| `Leasing` | the leases of a unit, their billing calendars and schedules, its occupancy | `LeasingProofs` |
| `RentCalendar` | the calendar arithmetic of rent schedules | `LeasingProofs` |
| `MCOutbox`, `MCInvoiceLedger`, `MCSessions`, `MCVerificationEngine`, `MCInvitations`, `MCPlatform`, `MCLeasing`, `MCWebSession` | instances for TLC | |

How they fit together. The engine's callers run their own effect as `afterVerified` in
the engine's transaction: `VerificationEngine` counts that effect (`applied`), and
`Invitations`, where the effect is an answer, implements the same `OneTimeChallenge`
as the engine itself. A password reset is such an effect too; what it does to sessions
is a sweep of `Sessions`. `Sessions` implements `TokenFamilies`, and `WebSession` is built
on exactly that: its API is an instance of `TokenFamilies`, so what it shows of a browser
holds over any API that keeps the promise. `Invitations` abstracts the lifecycle to
"active or not", which is all it reads of it. `Portfolio` decides whether a member may
act; `Leasing` and `InvoiceLedger` are what the act does. Every service writes outbox rows
in its transaction; `Outbox` takes over where such a row is committed, and `WorkerRuntime`
is the process around its polls.

`MCPlatform` puts five modules that share nothing into one run. Its variable `focus` picks
one of them at the start of a behaviour, and the others stand still, so that their states
add up instead of multiplying.

Definitions named `Mutant` in a comment are deliberately wrong variants of the action
next to them; no specification uses them. They serve to show that a property fails
when the code is broken in that way.

### Outbox

*State.* `status`, `attempts`, `availableIn`, `leaseOwner`, `leaseLeft` are the
columns of `OutboxEvent`; instants are ticks left until they are reached. `created`
is the order of `createdAt`. Each worker has a `phase` (where `process()` stands), the
`current` row as the claim returned it, the rest of its `batch`, and its `metrics`.
`handled` records which attempts had their external effect, `audits` counts audit rows.
`Handled` are the events whose type has a handler: in the shipped worker the
organization events of its policy, and no identity event.

*Actions.* `Poll` is the claim statement (oldest claimable rows, at most `BatchSize`,
PENDING and due or PROCESSING with an expired lease). `Process` takes the next row;
`HandleOk`, `HandleError`, `HandlePartial` (throws after its effect) are the handler;
`Complete` is the success update with its lease-owner guard; `Audit` the audit insert;
`Fail` the catch block, which retries with exponential delay or dead-letters.
`CompleteError`, `AuditError` and `FailError` are the same calls when the database
reports an error, before or after the effect. `Crash` covers a kill and the regular
stop, since `main.ts` exits without waiting for the poll in flight. `Tick` lets time
pass; a tick that ends a lease under a worker still holding the row is a fault.
Crashes, database errors and such overruns share the budget `MaxFaults`, so that
properties can say *which* duplicates are owed to a fault.

*Fairness* (`FairSpec`): each worker keeps polling and processing (`setInterval` in
`runtime.ts`, `restart: unless-stopped` in the compose file restarts a dead one) and
time passes. Nothing forces a fault or a production.

### InvoiceLedger

*State.* `invoice[i]` is the row of one rent schedule's invoice (a unique index allows
one); its field `applied` is the sum of its allocation rows. `payment[p]` is a payment
row. `pending[c]` is what request `c` to `InvoiceService` has read and decided and not
yet written.

*Actions.* `ReadUpdate`, `ReadCredit`, `ReadArchive`, `ReadRestore` read and check as
the service does; `Write` is the transaction, by id, whatever the row has become, and
fails on the CHECK constraint `Invoice_amounts_check`. `CreatePayment`,
`RequestRefund`, `AllocateAdvance` and `Recalculate` are `PaymentService`: they run
SERIALIZABLE and update the rows they decided on, so PostgreSQL fails them (P2034, a
409 to the caller) when a concurrent transaction changed such a row, whatever that
transaction's own isolation level; each is one action. `PaymentService.create` over
several invoices is one action for the same reason: a failure on a later invoice rolls
back the earlier ones.

### Sessions

*State.* `session` is the committed table, a row per session with its family, its
parent, and whether it was not revoked, rotated, or ended otherwise. `refresh[r]` is
where a refresh transaction stands; while it is `"rotated"` it holds the lock of its
session and nothing of it is visible. `sweep[k]` are the rows that a statement over all
sessions of a user found in its snapshot.

*Actions.* `Login`; `RefreshRead` (session and token looked at), `RefreshRotate` (the
update on condition `revokedAt IS NULL`), `RefreshCommit` (successor inserted,
commit), `RefreshReuse` (the race was lost or the token was revoked: the family is
revoked and then the exception rolls that back), `RefreshAbort`; `Revoke` (logout of one
session), `SweepStart` and `SweepFinish` (logout of all and password reset: rows found
in the snapshot, checked again row by row when their locks are free), `Expire`.

### VerificationEngine

*State.* `row` is the table `Verification` for one subject, channel and purpose, each
row with its delivery envelope; `age` is its position relative to cooldown and expiry.
`request[q]` is what a transaction has read, `applied[v]` how often the effect of `v`
was applied. `Indexed` says whether the partial unique index of EMAIL_VERIFICATION
covers the purpose.

*Actions.* `Create`; `VerifyRead`, then `VerifyLate`, `VerifyWrong` or `VerifyRight`;
`ResendRead`, then `ResendRefused` or `ResendWrite`; `Revoke`; `ExpireRead`,
`ExpireWrite`; `Cleanup`; `Abort`; `GrowOlder`. The reads of an operation are one step
and the rest of its transaction another: its first update locks the row it decided on.

### OrganizationLifecycle

*State.* `organization` is the status, `approval` the approval row of a landlord (others
have none), `request[q]` what a transaction has read.

*Actions.* `ReadTransition` and `WriteTransition` are `LifecycleService.transition` with
its entry points (only `activate` refuses a PENDING organization); `ReadReview`, then
`Approve` or `RejectOrReopen`, is `ApprovalService`. `Approve` contains
`activateAfterApproval`, which runs in its transaction. `AbortRequest` is a roll-back.

### Invitations

*State.* `invitation[i]` is a row with the state of its challenge (`OPEN`, `USED`,
`CLOSED`), whether its time is over (`lapsed`) and whether it is for the lease party.
`users` are the registered addresses, `granted[e]` the invitations that the
memberships and roles of `e` rest on, `party` the person linked to the lease party,
`dealing[q]` what a transaction has read, `organization` whether it is active.

*Actions.* `InviteRead`, `InviteWrite`; `AcceptRead` (the code is right, organization
and user looked at) and `AcceptWrite` (everything that is written, or nothing);
`Decline` and `Revoke`, whose decisions their updates repeat; `CloseChallenge` (last
wrong code, or too late), `ExpireIfNeeded`, `Lapse`; `RegisterRead`, `RegisterWrite`;
`ChangeLifecycle`; `Abort`.

### WorkerRuntime

*State.* `starting` is where `start()` stands, `running` and `polling` are the runtime's
fields, `timer` its interval, `server` the health server, `stopping` what `stop()` waits
for, `asked` a health request being answered, `up` which dependencies answer. `signalled`
remembers where `start()` was when the signal came.

*Actions.* `DatabaseProbed`, `RedisProbed`, `Listening` are the awaits of `start()` that go
well, `StartupFails` the one that does not; `Tick` and `PollEnds` a poll, the first of
which goes on to set the interval; `AskHealth`, `AnswerHealth`; `Stop` is the synchronous
part of `stop()` and `Closed` each of its awaits; `Exit` is `process.exit`, which no poll
delays. `Turn` lets a dependency come and go.

### OrganizationRecords

*State.* `row` holds the two records (value and version), `shown[e]` the version an
editor was shown, `edit[e]` a transaction past its check of `expectedVersion`, `trail`
the audit rows of the risk level.

*Actions.* `Get` (settings are created with defaults when they are first asked for),
`BeginEdit`, `SaveEdit` (the conditional update, whose answer may be lost, which leaves the
editor with an old version), `RefuseEdit`.

### Portfolio

*State.* `role`, `holds`, `assigned` and `property` are the tables; `inflight[q]` is what a
request asks for, who asks, and what it has found so far. `seen` is history: the rights and
the reach its actor had at any moment since the request began, and what others assigned
since it is ready to write.

*Actions.* `BeginRole` is the reading half of every role transaction and `CreateRole`,
`UpdateRole`, `DeleteRole`, `SetPermissions`, `AssignRole` the writing halves, refused by
the index of default roles. `BeginReplace`, `RevokeOthers`, `Replace` are
`PortfolioAssignmentService.replace`: the check outside the transaction, the revocation of
what it sees, the rest. `BeginScope` and `ReadPortfolio` are the two queries of
`PortfolioAccessService.scope`, `AssertTarget` its assertions, and `CreateProperty`,
`ArchiveOrRestore` or `Finish` what the request then does.

### RequestThrottle

*State.* `count` are the counters in Redis, `call[c]` what the increments of a request
answered, `admitted` (history) what each window admitted.

*Actions.* `Enforce` sends both increments, `Increment` is the script, `Admit` and `Refuse`
the decision, `Expire` the end of a window. The three throttle services are the same but
for names and limits.

### Leasing and RentCalendar

*State.* `lease`, `calendar`, `schedule`, `through` (the watermark
`schedulesGeneratedThrough`), `unit` and `open` (occupancies that have not ended) are
rows; `request[q]` is a request with what it has read; `raced` is history.

*Actions.* A `Begin...` action per operation reads and checks as the service does before
its transaction; `CreateLease`, `UpdateLease`, `RenewLease`, `TerminateLease`,
`ArchiveLease`, `RestoreLease`, `CreateBilling`, `UpdateBilling`, `GenerateSchedules`,
`Occupy` write by id, under the unique indexes (one holding lease per unit, one calendar
per lease, number and start of a schedule row). `ReadLastSchedule` builds the rows from the
last one there is, `CloseOccupancies` ends what it sees open. `RentCalendar` is
`nextPeriod` and the loop of `buildSchedules`, by days; `setUTCMonth` overflows as in
JavaScript. The first day of a month is a closed formula over leap days, so that the
calendar has no end.

### WebSession

*State.* `good` and `issued` are the state of `TokenFamilies`; `family` and `remembered`
say what each session stems from. `jar` are the browser's cookies, `tab[i]` the status and
the tokens of a tab, `refreshing[i]` and `acting[i]` its calls in flight. The refresh token
and the access token of a session are named by the session.

*Actions.* A call is sent with the cookies of that moment, answered by proxy and API in one
step, and received: `RefreshSend`, then `RefreshRotate`, `RefreshRefuse` or `RefreshFail`,
then `RefreshReceive` or `RefreshRefused`; `setAuthentication` awaits the list of sessions
before it shows the tab as signed in (`RefreshDone`). Likewise `SignIn...` and
`SignOut...`. `LoseRefresh` and `LoseAction` lose an answer, `Reload` mounts the tab anew,
`EndElsewhere` is expiry, a password reset or another device. Faults share the bound
`MaxFaults`.

*Fairness* (`FairSpec`): a tab's refresh goes on, since the API or the proxy answers every
call and promises continue. Nobody is forced to sign in or out, to reload, or to meet a
fault. `LoadingEnds` is excused in two cases, which it names: a fault took the answer that
the tab was waiting for (`RefreshLost`: nothing catches what `refresh` throws then, and the
tab stays as it is), or the API would rotate a good token and the bound on sessions forbids
it (`AtTheBound`). A refresh that was granted or refused always ends loading.

## 3. Runs

| run | question | bounds |
|---|---|---|
| `outbox_safety` | the lease protocol in every interleaving: who settles, what faults cost, that every row settles; refinement of `AtLeastOnceQueue` | 2 workers, 2 rows (one without a handler), 2 attempts, leases of 1 tick, 2 faults |
| `ledger_races` | is the money right under stale clerks, and is any cent lost between payments and invoices; refinement of `InvoiceAccount` | 2 invoices of 0 or 2 cents, 2 payments, 1 clerk |
| `sessions_families` | one successor per rotated session; refinement of `TokenFamilies` | 4 sessions of one user, 2 refreshes, 1 sweep |
| `sessions_reuse` | does a reused token end its family, as documented? No (below) | the same, 2 users |
| `verification_indexed` | attempts, envelopes, cooldown; refinement of `OneTimeChallenge` | 3 challenges, 2 requests, 2 attempts, 1 resend, with the index |
| `verification_verified` | is VERIFIED final, as documented? No (below) | 2 challenges, without the index |
| `invitations_answers` | one outcome, the lease party by acceptance only, settled for good; refinement of `OneTimeChallenge` | 2 invitations, 2 addresses, 2 transactions |
| `invitations_materialized` | does every accepted invitation become a membership, as documented? No (below) | the same |
| `platform_parts` | transitions, reviews and edits of settings and compliance (three refinements of `VersionedRecord`), the risk trail, rights and replacements, windows, polls after a stop | 3 transactions on an organization, versions to 4; 2 editors, versions to 4; 2 members, 2 custom roles, 2 properties, 2 requests at a time of at most 3; 1 address, 2 subjects, limits 2 and 1, counts to 3 |
| `platform_activation` | does only an approval activate a pending organization, as the code says? No (below) | the same |
| `rental_unit` | one holding lease, renewals, tiled schedules on the calendar, exact occupancies | 2 leases from 31 December 2027, 2 requests at a time of at most 3 |
| `web_tabs` | which sessions a browser can lose, what cookies and tabs say, that loading ends | 2 tabs, 3 sessions issued, 1 fault, 2 calls in flight |

Why the bounds are enough. *Outbox:* every hazard needs at most two workers with one
row in hand each, and two faults let a second fault hit the recovery from the first;
two attempts separate a first, a last and an extra attempt; a lease of one tick can
expire at every step. *Ledger:* the hazards are a stale write against a payment, and a
payment over two invoices; total 2 allows a partial payment, a credit note and a final
payment, total 0 the invoice that is settled from the start. Two clerks racing on one
invoice are covered by the proofs, which hold for any number of them.
*Sessions:* two refreshes race for one token, and a family of three sessions beside a
second family lets a sweep miss a successor. *Verification:* two attempts separate a
first from a last wrong code; three challenges are one that is replaced, its
replacement, and one that a late request still refers to. *Organization:* a rejection
and a reopening bring back the status PENDING in version 3, so that a review resting
on version 1 meets it, with a third transaction beside them. *Invitations:* two for one
address, or one each for two addresses that want one lease party. *Records:* one edit
whose answer is lost, its retry, and another editor's between them. *Portfolio:* a race
is between two requests, and a third one before or after them withdraws what the first
rests on; the actors are an administrator and a manager with one custom role. *Throttles:*
the address is shared by two subjects, whose limits differ from its own. *Unit:* two
leases compete, and three requests are two that race and one that made the race possible
(an activation, an archived calendar, an earlier generation). The rent runs over the end
of a year and the February of a leap year in monthly, quarterly and 40-day periods;
horizons lie before, at and beyond the ends of the lease. *Web:* every race is between two
calls, of two tabs or of one; three sessions are a sign-in, the rotation that a loading tab is
granted, and one more sign-in or rotation beside it, so that the granted answer has to go
through `RefreshReceive` and `RefreshDone`, while the bound is not reached. A third call in
flight (`MaxCalls`) is left to the proofs, which hold for any number of them.

`CHECK_DEADLOCK` is off where behaviours end on purpose: in `platform_parts` and
`platform_activation` (bounded versions and requests, an exited worker) and in `rental_unit`
(bounded requests). Nothing else can get stuck. Bounds on unbounded things are `MaxFaults`,
`MaxAmount`, `MaxVersion`, `MaxEdits`, `MaxRequests`, `MaxCount`, `MaxTokens`,
`MaxCalls` and `MaxResends` (the last is the code's own), and the finite sets of ids.

### Disagreements with the documents

Four are `violation` runs, each with its finding in `PROJECT.json`:

- *Reuse of a refresh token* (`sessions_reuse`). The family is revoked in the
  transaction that the thrown exception then rolls back.
- *Verified is final* (`verification_verified`). A wrong code that raced with the right
  one for the last attempt writes ATTEMPTS_EXCEEDED over VERIFIED, by id. The effect
  is still applied once (`ImplementsChallenge`).
- *Activation* (`platform_activation`). `restore` takes any legal step to ACTIVE,
  also the one from PENDING that belongs to the approval. Organizations without an
  approval leave PENDING in no other way.
- *Accepted invitations* (`invitations_materialized`). An acceptance and a registration
  of the same address, each of which has not seen the other commit, both leave the
  membership to the other.

Others are visible in the models or met while reading, and no run is spent on them:

- `maximumAttempts` of the outbox is compared in the catch block only: a worker that dies
  or loses its lease in its last attempt leaves a row that is claimed again.
  `ExtraAttemptsNeedFaults` shows that nothing else exceeds the limit.
- The start-up gate of the worker covers organization event types only; identity events
  pass it and are dead-lettered for lack of a handler.
- A signal while `start()` awaits Redis or the listener does not keep it from setting
  `running` and polling, although a stop is to stop new polls
  (`docs/IMPLEMENTATION/E2_RUNTIME_PLATFORM_REPORT.md:37`). `NoPollAfterStop` shows that
  there is no other case.
- A clerk's update that was checked before a payment replaces PAID or PARTIALLY_PAID
  with ISSUED, OVERDUE or VOID, and `archivedFromStatus` is the status read earlier.
  The money stays right (`NoOverpayment`, `BalanceIsRemainder`).
- A sweep that waits for a session being rotated does not see the successor, which
  survives a logout of all or a password reset.
- Without the unique index (password reset, SMS, WhatsApp, invitations) two
  resends at once issue two challenges within the cooldown, and expiring one late
  challenge leaves the envelopes of the others; `EnvelopesFollow` and `CooldownHolds`
  therefore speak of the indexed purpose. The confirmation of an e-mail address takes
  challenges of any purpose.
- An invitation or acceptance that saw the organization active commits after it was
  suspended.
- Two replacements of a member's assignments at once leave the union of what they want,
  and two occupancies opened at once are both left open (`ReplaceIsExact` and
  `OccupancyIsExact` say up to what).
- Of two renewals decided on from the same end the later one to commit may shorten the
  lease again, and schedules generated from the longer one stay beyond its end
  (`EndMovesBackOnlyInRace`).
- A lease that is billed by the month from the 29th to the 31st drifts into the month
  after a short one and then stays there (`PeriodsFollowCalendar` says how far); a calendar
  without proration charges the full rent for a period that is cut; the interval of an
  escalation is stored and never used; an update of a deposit sets the amounts it
  does not name to zero.
- A logout with an access token that another tab has rotated clears the cookies and leaves
  the server's session alive; a sign-out during `setAuthentication` ends in a tab that
  shows as signed in without a token; a late answer to a refresh replaces the cookies of a
  later sign-in; an answer lost while a tab mounts leaves it loading. `SessionsAreCarried`,
  `TokensAreShown` and `LoadingEnds` state what holds besides.

## 4. Proofs

All theorems hold for every value of the constants under the named assumptions of the
modules, which TLC evaluates on each run: numbers are numbers and limits are positive
(`ConfigAssumption`, `RetryDelayAssumption`, `AmountAssumption`, `LimitAssumption`,
`VersionAssumption`, `RecordsAssumption`, `ThrottleAssumption`, `CalendarAssumption`,
`TokenAssumption`); requests are well formed (`AskAssumption` of `Portfolio`, which also asks
for finitely many roles, and `LeasingAssumption` for finitely many leases); tables have
finitely many rows (`FiniteAssumption` of `InvoiceLedger`); what earlier requests left is of
its type, and a calendar has days in its interval just when its cycle is CUSTOM
(`PriorAssumption` of `Portfolio` and `Leasing`); and the model value for "none" is no row
and no request (the `NullAssumption`s, `PaymentAssumption`, `CallAssumption`). The inductive invariants of the older modules are
defined beside their properties, those of the newer ones in `PlatformProofs`,
`LeasingProofs` and `WebSessionProofs`.

*Outbox.* `IInv` strengthens the safety properties with what they depend on: a claim
in a worker's hands is known to the table (its attempt number is at most the row's,
and equal while the worker still owns the lease), two workers never hold the same
attempt, a worker past its handler has handled, an audit row or a settled row has been
handled, attempts beyond the limit are paid for by faults. The proof describes every
step's effect on one row (`RowStep`), splits `Next` into claims and other steps, and
shows each conjunct preserved. From it follow the safety properties, the two action
properties (`SettledIsFinal`, `OnlyHolderSettles`) and the refinement of
`AtLeastOnceQueue`.

`DuplicatesNeedFaults` is an argument by counting. `Promised(e)` are the attempts of a row
that have been delivered, those that wait for it in a worker's hand, and the next attempt, as
long as somebody may still claim the row: it is not settled, and nobody minds it under a
lease that goes on (`Closed`). A claim turns the next attempt into one in hand, a delivery
one in hand into one delivered, and a lease that ends without a fault, or a retry, brings
back the next attempt for the one that is given up (`StepTrades`, `OpeningTrades`). Whatever
adds a promise without taking one away spends a fault, so there are never more than one and
the number of faults (`PromisesPaid`), and the deliveries are among them.

*InvoiceLedger.* `IInv` adds to the properties that PAID is settled *wherever it is
remembered*: in the row, in `archivedFromStatus`, or in a request about to write it
back, and that requests only name existing rows. This is needed because a stale
request may write PAID long after it read it. It is inductive since what remains to be
paid never grows: each step leaves a row alone, creates it, or takes it `Onward`
(lemma `RowSteps`), and a request's status was read from a sound row (`RequestSteps`).

`AllocationsMatch` compares two sums over whole tables, which the model folds. That such a
fold exists on a finite set, and does not depend on the order in which it takes the
elements, is shown by a least counterexample among the subsets (`SumsExist`, `SumUnfolds`,
`SumWithout`); then raising some of the numbers raises the sum by the sum of what was added
(`SumAdds`). Every step leaves the amounts of both tables alone, or moves the same
amount out of a payment and into the invoices (`MoneyMoves`).

*Sessions.* Lemma `Steps` reduces every step to one of four effects on the table:
`LoggedIn`, `Rotated` (a committed refresh), `Marked` (rows ended or expired) and `Moved`
(a refresh that has written nothing yet). `IInv` adds to the properties that a child
belongs to its parent's family and that a session between rotation and commit is held
by one refresh only, which makes its successor the only one. The refinement maps a
family to its one usable session, so it needs `OneActivePerFamily` before and after.

*VerificationEngine.* Every step is quiet, creates one challenge, or uses one
(`TableStep`). `IInv` adds that an effect is applied exactly to what was used, that
requests know of rows what cannot change any more (`RequestsKnow`), and under the
index that one challenge at most is pending (`OnePending`). `OpenHasAttempts` and the
refinement hold with and without the index; `EnvelopesFollow` and `CooldownHolds` are
proved with it.

*OrganizationLifecycle.* Versions are typed because a review rests on a version below
the bound, so types and invariant are proved together
(`LifecycleSound`). The invariant says that a request in flight is about to take a legal step from what it read, and that the
version it rests on existed: then the conditions of the updates suffice for
`LegalTransitions`, and a review that wins is an edit of `VersionedRecord`.

*Invitations.* Lemma `RowSteps` gives what may happen to one invitation: it is created,
answered, ended, or fades. Invitations are never deleted and keep address and status
once settled (`Lasting`); so what a transaction has read of them stays true, which is
the last conjunct of `IInv`, and every grant rests on an acceptance.

*OrganizationRecords.* `RecordsInv` adds to the trail that an edit in flight knows the
value of the version it rests on (`EditsKnow`). Versions only grow, so the condition of the
update makes what was read what is replaced; a retry after a lost answer has an old
version and is refused. For each record a step is one of optimistic locking or none
(`RecordsLock`), which gives `ImplementsRecords`; a record that is created is in the version
that stands for its absence.

*RequestThrottle.* `ThrottleInv` counts places: what a window admitted, and the requests
that hold an answer within its limit and may still be admitted, together are at most
the smaller of its counter and its limit. Each increment hands out a number of its own; the
end of a window clears both. The sums are cardinalities of sets of requests.

*WorkerRuntime.* `QuitQuietly` says that after a signal the runtime is not running and
`start()` does not get to its listener, unless it was awaiting Redis or the listener as the
signal came. The first poll may still set the interval afterwards; its ticks find nothing
running.

*Portfolio.* `RolesInv` joins the types with what a role transaction found, which stays
(`RolesKnown`), with the kind of operation that waits in each phase (`KindsKnown`) and with
the one default, which follows from the cardinality in the index (`IndexAllowsOne`).
`Grounded` says how far the rights of a request have been seen: what the code computes is
among a member's rights (`CodesAreRights`), and while the request runs, what was seen stays
(`SeenGrows`). `Pending` says that a replacement which is ready to write would leave only
what it wants and what was assigned late.

*RentCalendar.* Months follow on each other by their lengths (`NextFirstDay`), so that every
day lies in exactly one (`MonthOfDay`). Adding months to a day then ends on the same day of
the month, or, where the month is too short for it, by the difference in the next one
(`AddMonthsFollows`), and a period has at least a day. So the loop of `buildSchedules` ends
(`PeriodsExist`), and what it returns is a chain from its first day to its last.

*Leasing.* `OneActiveLease` follows from the index, since every step takes the leases onward
(`LeasesOnward`), which also says that only a renewal moves an end. A renewal under way
knows where its lease ends, or has raced with another one (`Knows`). An update of the
occupancy that is ready to open its own finds open only what it saw and what was opened
since (`Closes`). For the schedules, `Billed` says that the rows of a lease are the numbered
terms of a chain from its first day to the watermark, each as long as the calendar has it, and
that what a request has built goes on from where the chain was when it read the last row.
If the chain has grown since, the first number of the batch is taken and the unique index
refuses it whole; otherwise the two chains are one. A calendar keeps its cycle, which is
why a batch built from an older read of it still fits (`KnowsCalendar`).

*WebSession.* Each step is quiet and adds nothing that is on its way (`Quiet`, `Stays`), or
issues a session (`Issues`), or brings one to the browser (`Receives`). `Fresh` is what the
interleavings of tabs rest on: a token under way to the browser has not been used. It is the
good one of its family, if the family goes on; it is on its way once; neither a cookie nor
another request has it yet. With `PairsKept` (a token travels with the choice of its sign-in)
it gives `RememberFollowsLogin` and the action property `SessionsAreCarried`.

Proved beside the properties of the runs, and in no run: type correctness of the older
modules, `SettledIsFinal`, `NeverProcessedUnhandled`, `DeadLetterExhausted` and
`OneAuditPerProcessed` (`Outbox`), `PaymentBalances` (`InvoiceLedger`),
`OneActivePerFamily` and `RevocationIsFinal` (`Sessions`), `GrantsAreAccepted`
(`Invitations`), `OneDefaultRole` (`Portfolio`), which the unique index alone ensures.

Only model-checked: liveness (`EveryEventSettles` of `Outbox`, `LoadingEnds` of
`WebSession`), which is out of the prover's reach, and of course what the violation runs
refute. The induction theorems of the library take an operator as a parameter, which none of
the provers can instantiate; where a proof is about all numbers or all finite sets it takes a
least counterexample instead (`WFMin` in `WellFoundedInduction`).

## 5. Not modelled, and the plan

Left out on purpose: guards, controllers and DTO validation (stateless checks of one
request; the models take the inputs they let through), configuration and logging, the
outbox event policy (static tables) and the notification providers (behind handlers the
shipped worker does not register), the pages of the web application and its platform proxy,
which forwards a request and its answer, the mobile and scheduler placeholders, migrations
except the constraints the models use. Names, wording, audit events and outbox rows are
left out of the models where no property is about them. Callers' rights are in
`Portfolio` and in no other model; memberships stay active there, and tenants' own access
to their leases is not modelled. Amounts of rent (escalation, proration, late fees) are
arithmetic on one row.

Partly modelled: finance without SECURITY_DEPOSIT payments and draft credit notes;
registration and verification without the status of the user; leases without parties,
documents, terms and deposit.

Next, in this order:

1. `SecurityDeposit`: deposit payments (`payment.service.ts`) against billing's edits of
   the same row (`updateDeposit`).
2. The status of a user, between registration, verification and a password reset, and the
   login that checks a password before a reset replaces it.
3. That the schedules of a lease stay within it, but for renewals that race with each
   other: stated, checked and proved from `LeasesOnward` and `Billed`.
