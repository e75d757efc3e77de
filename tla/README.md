# Eldorado order operations: formal model

TLA+ modules, TLC instances and TLAPS proofs for the order system in `src/` (a
Next.js application over PostgreSQL, one organisation's workers and an owner
administrator, and an external FUT coin provider). The modules are translated
from the code under `src/src/lib`; the documents under `src/docs`,
`src/PROJECT_PLAN.md` and `src/README.md` only supply the claims that the code
is held against. Paths below are relative to `src/` unless they start with
`src/`, as in `PROJECT.json`.

## 1. Inventory

| Component | Code | State it keeps | Operations that change it |
| --- | --- | --- | --- |
| Domain rules | `src/lib/domain.ts`, `auth/rbac.ts` | none | status table, access rule, money and time arithmetic |
| Order service | `orders/service.ts` | `Order`, `FutOrder`, `CustomerCredential`, `ProofFile`, history | create, update, credentials, proof, change status, complete by hand, prepare, confirm, sync, correct, cancel, expiry |
| FUT adapter | `integrations/fut.ts` | circuit breaker of the process | quote, create, lookup, modify, resume, cancel |
| Ledger | `ledger.ts` | `FinancialEntry`, `Order.reconciledAt` | entry, reconcile, refund |
| Payroll | `payroll.ts`, `ledger.ts` | `PayrollPeriod`, `PayrollEntry`, `PayrollAdjustment` | build draft, approve, mark paid, refund reversal |
| Shifts | `shifts.ts`, `domain.ts` | `Shift`, `ShiftEvent` | clock in and out, breaks, heartbeat, disconnect, correction |
| Background jobs | `jobs.ts` | `BackgroundJob` | enqueue, recover, claim, finish, retry |
| Telegram queue | `notifications/telegram.ts` | `NotificationEvent` | enqueue with deduplication, claim, deliver |
| Rate limit | `security/rate-limit.ts` | `RateLimitBucket` | one SQL upsert, clean-up |
| Automation | `automation.ts` | policy, decisions | update, evaluate, attempt, emergency stop |
| Encryption and rotation | `crypto/secrets.ts`, `config.ts`, `security/credential-maintenance.ts` | key version of each ciphertext | encrypt, re-encrypt a batch, report |
| Sessions and sign-in | `auth/*`, `src/app/api/auth` | `Session`, the owner's second factor | log in and out, check, revoke, set a factor up and enable it |
| Settings, administration | `settings.ts`, `admin.ts`, `admin-economy.ts` | `Setting`, `MarketplaceFeePolicy`, `User.status` | change the fee, disable, revoke |
| Order entry | `orders/service.ts` (`createOrder`), `src/app/dashboard/DashboardClient.tsx` | `OrderReferenceCounter`, the form | submit, number, snapshot the fee, warn of duplicates |

How they interact. An HTTP route checks session and CSRF token and calls one
service function. A service function is an `async` function: it reads rows,
awaits (another query, the provider, the proof scanner, encryption), and writes.
Only a `$transaction` or one SQL statement is atomic; PostgreSQL runs at its
default READ COMMITTED. The order service calls the FUT adapter between read and
write; the ledger closes orders and adjusts payroll; `jobs.ts`, started by a
cron, expires credentials, delivers notifications and calls `syncFutOrder`.
The dashboard holds what it loaded (order, version, the form) and resends it. Two
things are shared outside the rows: the adapter's circuit breaker, which all calls of
a server process share, and the environment, which each deployment fixes anew.

What is hard. (a) Handlers of the same order overlap at every `await`. The only
protection is `Order.version`, compared by some writes and ignored by others.
(b) A purchase cannot be undone and its reply may be lost. (c) Status, FUT state,
credentials' deletion date, ledger and payroll are different rows that must
agree. (d) A process may stop between two statements. (e) Leases (jobs,
notifications) expire while the holder still works. (f) A decision outlives what it was
taken on: the policy an attempt read, the session check at the start of a request, the
key a request started with, the events a heartbeat read. `PROJECT.json` lists each
such place as a hazard with its line.

What makes each component correct:

- *Order*: a guarded write acts on the row its checks were made on; the status
  follows the table; COMPLETED needs proof and cost; closed orders have their
  credentials scheduled for deletion.
- *FUT order*: one reviewed version buys at most once; an order is bought again only
  when the number of a purchase was lost; a late answer of the provider moves an order
  once, and only if the call began while the order was open; a confirmation never hangs.
- *Ledger*: one refund per order.
- *Payroll*: an approved period changes by nothing but a build that was already under
  way; a refund after approval is reversed at most once, in the next period; an order
  counts in one month, unless something reopens it.
- *Jobs, notifications*: a claim is exclusive while the lease lasts; attempts are
  bounded; what is enqueued ends.
- *Automation*: after a stop only the attempts already past their policy read buy; a
  purchase keeps the limits of the policy it was evaluated under, and is of the order
  that was reviewed.
- *Adapter*: a mutation is sent once; the circuit opens after five failures and always
  closes again; a quote is the best offer up to rounding.
- *Sign-in*: the limit bounds logins over any stretch of time; disabling and revoking shut
  out everybody but the requests already past their check.
- *Encryption*: nothing stored becomes unreadable when a key is retired; a rotation never
  undoes a save; an enabled second factor was proved.
- *Shifts*: at most one open shift per worker; totals agree with the events, and an event
  that nothing crosses repairs what races left behind.
- *Order entry*: references without gap or repetition; an order keeps a rate that was in
  force; a form sent twice is not silently two orders.

## 2. Modules

| Module | Models | Notes |
| --- | --- | --- |
| `OrderDomain` | status table, FUT states, access rule | no state |
| `OrderState` | the rows of one order, the requests in flight, `Init` | shared helpers for request slots |
| `OrderHandlers` | the handlers of the users and of the cron, reconcile, refund | one action per stretch between two awaits |
| `FutHandlers` | prepare, confirm, sync, correct, cancel over the provider | the provider's answers are nondeterministic |
| `OrderSystem` | `Next`, `Spec`, `FairSpec`, all properties | composes the two handler modules |
| `OrderLifecycle` | abstract: how status, version and `closedAt` may move | refined by `OrderSystem` |
| `OrderSystemProofs` | the theorems | TLAPS |
| `Payroll` | the monthly periods over the orders they count | extends `OrderDomain`; draft builds, late answers of the provider and late reconciliations overlap |
| `PayrollProofs` | the theorems about `Payroll` | TLAPS |
| `Background` | the cron's job queue and the Telegram queue it drains | overlapping runs, leases, faults |
| `Automation` | attempts, dialog confirmations, preparations, stops and policy changes around one order's quote | policy and quote in detail, the submission in one step |
| `Provider` | `request()`, the circuit breaker, `getPrice` | liveness of the breaker; what the calls mean to an order is in `FutHandlers` |
| `Access` | rate limit, login, sessions, disabling and revoking of one account | |
| `Custody` | keys, credentials, rotation, second factor, deployments | |
| `Shifts` | shifts and events of one worker, their minutes | the minutes are a fold over the events |
| `OrderEntry` | the form, `createOrder`, the fee | |
| `AutomationProofs`, `AccessProofs`, `CustodyProofs`, `ShiftsProofs`, `OrderEntryProofs` | the theorems about each | TLAPS |
| `RetryProofs` | the theorems about `Provider` and `Background`, the two that try again | TLAPS |
| `MCOrders`, `MCPayroll`, `MCBackground`, `MCAutomation`, `MCProvider`, `MCAccess`, `MCCustody`, `MCShifts`, `MCOrderEntry` | instances for TLC | sets of model values, offers, policies |

### The order modules and the code

One order is modelled: the handlers below touch no row that two orders share.
The rows are `order` (status, version, whether `closedAt` is set, assignee,
whether `reconciledAt` is set), `fut` (submission state, whether
`providerOrderId` and `actualCostMinor` are set), `cred` (none, active or
deleted; due in ten years, `far`, or in a `week`), `proof`, and `refunds` (REFUND
lines that `applyRefund` has booked). `placed` is not a row: it counts the
submissions the provider has accepted, which only the provider knows, and those of
them whose order number was lost before it was stored. No handler reads it. Whether
the provider would recognise a second submission by its `externalOrderID` is not in
this repository.

A handler in flight is a slot `req[r]`: the await it is suspended on (`at`), who
sent it, the status and version it read, and an argument. Its first action
(`...Read`) is everything up to the first await that another request can overlap
with, all checks included; the following actions are the writes. A check that
fails throws an `AppError` and changes nothing, so it is an action that is not
enabled. A compare-and-set that finds no row ends the request.

| Code | Actions |
| --- | --- |
| `updateOrder` | `UpdateRead`, `UpdateWrite` |
| `addCredentials`, `deleteCredentialsNow`, `deleteExpiredCredentials` | `AddCredentialsRead/Write`, `DeleteCredentialsRead`, `ExpireRead`, `EraseCredentials` |
| `addProof` | `ProofRead`, `ProofWrite` |
| `changeOrderStatus`, `transitionWithHistory` | `ChangeStatusRead`, `StatusWrite`, `RetentionWrite` |
| `completeOrderManually` | `CompleteRead`, `CompleteWrite` |
| `reconcileOrder`, `applyRefund` | `ReconcileRead/Write`, `RefundRead/Write` |
| `prepareFutOrder` | `PrepareRead`, `PrepareWrite` |
| `confirmFutOrder` | `ConfirmRead`, `Reserve`, `Claim`, `Submit`, `SettleAccepted`, `SettleUnknown`, `SettleFailed` |
| `syncFutOrder` | `SyncRead`, `SyncWrite` |
| `correctAndResumeFutOrder` | `CorrectRead`, `CorrectWrite` |
| `cancelFutOrder` | `CancelRead`, `CancelFutWrite`, `CancelStatus`, then `StatusWrite`, `RetentionWrite` |

Abstractions. Clients send only versions they have read, so the first comparison
of a handler with the version in its input is always true and is left out;
sending an older one is a request that fails. Prices, approval limits, the
scanner and the bucket are the nondeterministic failure `CallFails`. Amounts,
names, formatting, history and audit rows are left out. Time is the due date of
the credentials: a week may have passed whenever the expiry runs. The faults are
CONSTANTS: `crash` (the process stops between two steps), `lostReply` (transport
error or timeout of a submission), `badReply` (an accepted submission answered
with an error or without an order id) and `dbError` (the settlement transaction
fails after the provider accepted).

`OrderLifecycle` has no requests, only `asked`: the callers whose answer may still move
the order. A caller enters it only while the order is open (`Ask`) and leaves it with the
one move it may make (`ProviderMove`) or without (`Drop`). The refinement maps it to the
requests past the reads of confirmation and correction and to the synchronisations that
read an open order (`Asked`), so that it fails if an answer moves an order twice, or if a
call begun on a closed order moves it.

### The payroll module and the code

| Code | Actions |
| --- | --- |
| `changeOrderStatus`, `completeOrderManually`, `updateOrder` | `Move`, `Assign` |
| `applyRefund` | `Refund` with `ReversalPeriod`, `ReversalDue`, `Reversed` |
| `confirmFutOrder` from its reservation on | `Reserve`, then `SettleAccepted` or `SettleFailed` |
| `syncFutOrder`, `correctAndResumeFutOrder` | `SyncRead`, `SyncWrite`; `CorrectRead`, `CorrectWrite` |
| a provider call that fails or whose outcome is unknown, a crash | `CallFails` |
| `reconcileOrder` | `ReconcileRead`, `ReconcileWrite` |
| `buildPayrollDraft` | `BuildRead` (period), `BuildCount` (orders), `BuildAdjust` (adjustments), `BuildWrite` (the transaction), `BuildFails` |
| `approvePayroll`, `markPayrollPaid` | `Approve`, `Pay` |

An entry's numbers are kept as what they count: the set of `<<order, worker>>`
pairs credited and the set reversed. Salary tiers, bonus and handling rate are
functions of those counts and of the orders assigned (`payroll.ts:34`), which nothing else
uses; both are left out. The order's handlers are of two kinds here.
Those that compare `Order.version` (`Move`, `Assign`, `Refund`) are one step: what they
read is current when they write, or they write nothing. Those that talk to the provider
write the status by id, off the table, on a status read before the call
(`orders/service.ts:267`, `:285`, `:308-310`, `:331`); they are two steps, a reading kept
in `call` and a write (`Overwrite`) that finds the order wherever it has gone meanwhile.
A reconciliation compares `reconciledAt` alone and writes late too (`reconciling`). The
FUT order's own row is left out: any order may be known to the provider, and whoever may
call it may do so, which allows more histories than the handlers do.

Months are numbers; `closedIn` is the month of `closedAt`. Three variables are history,
not columns. `disputed` remembers that an order has been DISPUTED. `overwritten` remembers
that a call begun while the order was open has written over COMPLETED or REFUNDED.
`racing` holds the builds whose period was approved after they began.

### The background module and the code

| Code | Actions |
| --- | --- |
| `enqueueJob`, `enqueueTelegram` | `EnqueueJob`, `EnqueueNote` |
| `runBackgroundJobs` | `Recover`, `Select`, then delivery, then `ClaimJob`, `Work`, `Finish` or `Fail`, `RunEnds` |
| `deliverPendingTelegram` | `SelectNotes`, `ClaimNote`, `Send`, `MarkSent` or `MarkUnsent`, `NotesDone`, `DeliveryFails` |
| time | `LeaseExpires`, `JobDue`, `NoteDue` |
| a killed function | `Crash` |

A runner is one call of the cron, and holds the rows as it read them: attempts
are decided on that reading. Times are what the code compares them to: `stale`
(the lease of a RUNNING job is over), `due` (`runAt` or `nextAttemptAt` is past).
`nextAttemptAt` is both the lease and the backoff of a message, so `NoteDue` ends
either. `delivered` is Telegram's own record of what it accepted. What a job does
is an outcome, except that DELIVER_TELEGRAM enters the delivery again. Telegram
is taken as configured; the batch limit of 20 rows is left out. A fault is a
crash, a failing statement, a lost reply (all `failure`) or a lease that runs out
under its holder (`overrun`).

### The automation module and the code

| Code | Actions |
| --- | --- |
| `attemptAutomatedFutOrder`, `evaluateAutomation` | `AttemptRead` (policy), `OrderRead` (order, quote, events), `Evaluate` (after `getBalance`) |
| the confirmation dialog of `DashboardClient.tsx` | `OpenDialog` |
| `confirmFutOrder` | `ConfirmRead`, `PriceCheck`, `Reserve`, `Claim`, `Submit` |
| `prepareFutOrder` | `PrepareRead`, `PrepareWrite` |
| `updateOrder`, `changeOrderStatus` | `ChangeOrder` |
| `updateAutomationPolicy`, `emergencyStopAutomation` | `UpdatePolicy`; `StopRead`, `StopWrite` |

`OrderSystem` knows that there is a quote, this module knows which: its cost, age and
the preparation it came from. In exchange `confirmFutOrder`'s settlement is one step and
nothing crashes. The order's sale is a constant: what an edit changes shows in the
version alone, which the reservation compares. Statuses in which nothing is prepared or
bought are one. No code writes `FutOrder.riskLevel`, so its rule never applies, and a
cooldown is the rate limit among the failures that are counted. `Life` is the 60 seconds
after which a quote expires by its own account (`automation.ts:48`). The credentials are
taken as stored (`automation.ts:45`): only their absence would refuse more.

### The provider module and the code

| Code | Actions |
| --- | --- |
| `assertCircuit`, `request` | `Begin`, `Lost` (time limit, 5xx, broken connection), `Resend`, `Refused` |
| `success`, `failure` | `Succeeds`, `Fails` |
| `getPrice`, `createOrder`'s `maxPrice` | `Quoted` with `Able`, `Chosen`, `Cost`, `MaxPriceTimesAmount` |
| the other calls | `Answered` |

The clock is the rest of the 30 seconds, so nothing has to bound time. Prices are in
thousandths of a dollar, the decimals that `decimalToMinor` looks at. Bodies and field
names are left out; a call's outcome is nondeterministic. That an offer's price and stock are
natural numbers is the assumption on `Offers`; a negative one would be no supplier who can
deliver (`integrations/fut.ts:185`).

### The access module and the code

| Code | Actions |
| --- | --- |
| `POST /api/auth/login`, `checkSharedRateLimit`, `createSession` | `Login` (the upsert), `UserRead`, `CreateSession` |
| `getSession`, `requireSession`, then the handler | `Request`, `Act` (which may be a logout) |
| `updateWorker`, `revokeWorkerSessions` | `UpdateWorker`, `RevokeWorkerSessions` |
| `deleteExpiredRateLimitBuckets` | `DeleteExpiredBuckets` |

A password is right or wrong; cookies, CSRF tokens and hashes are abstract. `Login` reads
the clock and runs the upsert in one step, two lines in the code (`rate-limit.ts:22`,
`:24`): a request that waits between the two until the clock moves is left out. `epoch` counts
revocations, so that a session of an earlier login can be told from a later one. `admitted`
is the history of the logins the limit let through: when each came, the bucket it counted
in and its number there.

### The custody module and the code

| Code | Actions |
| --- | --- |
| `addCredentials` with `encryptCredentialSet` | `SaveStart`, `SaveWrite` |
| `deleteCredentialsNow`, `deleteExpiredCredentials` | `Erase` |
| `rotateCredentialEncryption` | `RotateRead` (the batch), `RotateRow` (each guarded update) |
| `credentialRetentionReport` | `Report` |
| `2fa/setup`, `2fa/enable` | `Setup`; `EnableRead`, `EnableWrite` |
| a deployment with a new key, or without the old one (`docs/SECURITY.md:43`) | `Deploy`, `Retire` |

A request keeps the keys of the deployment it started under. A ciphertext is its key
version and a number for its content. What an order's state allows is in
`OrderHandlers`; the limit of a batch is left out.

### The shifts module and the code

| Code | Actions |
| --- | --- |
| `clockIn` | `ClockInRead`, `ClockInCreate` |
| `startBreak`, `endBreak`, `heartbeat`, `disconnect`, `clockOut`, `correctShift` | `EventRead`, `CorrectRead` |
| `appendEvent` | `EventAdd` (the insert), `EventUpdate` (totals and status) |
| `splitShiftMinutes` | `Split`, a fold of `Added` |
| a request cut off | `Crash` |

Time is in quarters of a minute, which is finer than the rounding. Events are in the
order of their times: the sort of `splitShiftMinutes` has nothing to do in that case.
`EventAdd` reads the clock and inserts in one step, two lines in the code (`shifts.ts:18`,
`:19`), so crossing requests whose times and inserts are in opposite orders are left out.

### The order entry module and the code

| Code | Actions |
| --- | --- |
| the form: `submitCreate`, `run`, `api` | `Edit`, `SubmitCreate`, `GiveUp` (a lost reply), `Setup` (the calls after the first), `Replied` |
| `createOrder` | `Warn`, then the transaction: `Begin`, `Count`, `ReadFee`, `Insert`, or `Fail` |
| `updateMarketplaceFee` | `FeeSnapshot`, `FeeCommit` |

All forms ask for the same sale, so every recent order is a duplicate; they differ by
their marketplace reference. The transaction is taken apart because READ COMMITTED
lets each statement see other commits; the counter's upsert locks the row of its year
(`Count`), and a rollback leaves nothing. `updateOrder`, which may change an order's
marketplace reference or sale between two requests of a form (`orders/service.ts:108`), is
left out: what the form submits again is compared with the orders as they were created.

## 3. Runs

| Run | Instance | Shows |
| --- | --- | --- |
| `OrdersConcurrent` | two requests, two workers, every operation and fault, from APPROVED, `MaxVersion` 6, states compared without `placed` | `TypeOK`, `SnapshotCoherent`, `ReservationExclusive`, `CompletedHasEvidence`, `GuardedWritesAreCurrent`, and the refinement `ImplementsLifecycle`, in every interleaving |
| `OrdersSerial` | one request at a time, every operation, every fault but a crash, from DRAFT, `MaxVersion` 10, `FairSpec` | `ClosedIffTerminal`, `BoughtAgainOnlyIfLost`, `RefundedOnce`, `RetentionScheduled`, `ConfirmingSettles` |
| `PayrollBooks` | one order, two workers, one build, one provider call, months 1 and 2 | `ReversalFollowsApproval`, `CountedInOneMonth`, `OnlyRacersRewrite` |
| `Queues` | two runners, one job, one message, two attempts, one fault, `FairQueueSpec` | `JobsExclusive`, `DuplicatesAreFaults`, `GivesUpLate`, `AttemptsBounded`, `JobsEnd`, `NotesEnd` |
| `Automation` | two calls, two policies, two prices, two quotes, one policy write, one change of the order | `StopHolds`, `LimitsKept`, `ReservedAsReviewed` |
| `Provider` | two calls, one retry, offers with fractions of a cent, amounts of 1K, 30K and 1M | `SentAsAllowed`, `FailuresBounded`, `QuoteIsBestOffer`, `CircuitReopens` |
| `Access` | two requests, two sessions, a limit of two in a window of two ticks, four ticks, one revocation | `LoginsLimited`, `DisablingHolds`, `RevocationHolds` |
| `Custody` | two requests, two orders, two changes of key, three saves, two secrets | `RetirementKeepsCredentials`, `RotationKeepsSaves`, `EnabledIsProved` |
| `Shifts` | two requests, three shifts, four events, one correction, jumps of 45 seconds | `UndisturbedEventRepairs`, `OneOpenShift`, `MinutesNear`, `ReopenedByWhom` |
| `OrderEntry` | two dashboards with a form each, two requests, two orders, a change of year, two changes of the fee | `ReferencesGapFree`, `FeeInForce`, `NoSilentDuplicate` |
| `ClaimConfirmOnce` | two requests, no fault | violated: `AcceptedOnce` |
| `ClaimKeysRetired` | one request, one order, one change of key | violated: `OwnerCanSignIn` |

Each property of a passing run has a mutant: a variant of one mapped definition,
named and commented beside it, with which TLC finds the property violated.

Bounds of the payroll run. Orders do not interact in payroll, so one order shows
what can happen to one; two months and the one after them suffice for an order
that is counted in one period, reversed in the next and reopened across the
boundary. One build and one call overlap each other, every move, every approval and every
refund; a second one would only add another late write. Drafts are built for the months
the clock reaches (`Drafted`). People move the order among four statuses (`Targets`), open,
completed, disputed and refunded; the provider's answers add theirs. It starts APPROVED,
as it is when the first call may begin. The theorems lift every one of these bounds.

Bounds of the queue run. Two runners give every overlap of a reading with a
claim; jobs and messages are independent of each other, so one of each shows
their races and the delivery inside a job. `MaxAttempts` is 2 instead of 3: one
attempt that is retried and one that is the last. `MaxFaults` 1 puts one fault
at any point; `AttemptsBounded` and `DuplicatesAreFaults` state what each further
fault may cost. `AttemptsBounded` counts the runners because a runner that read
the row early decides on an old attempt count (`jobs.ts:42`): without that term
the bound is false. The theorems lift all four bounds for the four invariants.

Bounds of the newer runs. Two calls give every overlap of a reading with a write, and
the third party that matters is an action without a slot (the policy, the owner, the
clock). `Automation`: prices half a basis point and two and a half percent below cost lie
on either side of what truncation forgives; one write of the policy is one stop or one
change, two quotes are one that was evaluated and one that replaces it. `Provider` needs
no bound but the slots: failures and time are finite in the code's own terms. `Access`:
four ticks are two windows, so that a stretch lies across two buckets. `Custody`: two
changes of key leave a request two deployments behind; three saves are one, one that
overtakes it, and one after a rotation. `Shifts`: a shift of four events has a break or
a heartbeat between clock-in and clock-out, and the shift opened after it; with three
shifts open at once the bound of `OneOpenShift` is met exactly, by an overlap and a
reopening; 45 seconds
round up to a minute, 90 to two, which is where the rounding is worst. `OrderEntry`: two
orders are what a duplicate needs, two changes of the fee what overlapping changes
need. The theorems lift these bounds for the properties they state.

Deadlock is not checked in `Automation`, `Custody`, `Shifts`, `OrderEntry` and the two
violation runs, whose bounds on clock, saves, events and orders leave nothing to do in
the end, or whose few operations do; elsewhere it is.

Bounds of the order runs. Two requests show every race of a read with a write;
three do not add a kind of race, since each compare-and-set looks at one
version. `MaxVersion` stops new operations from starting at that version: 6 from
an approved order (version 3) leaves room for three status changes plus those of
the requests in flight, enough for submit, synchronise and close with another
request alongside; 10 from a draft lets one request at a time walk any path to a
closed order, reopen it through DISPUTED, and close it again. Two workers make
reassignment visible. The workers and the two requests are symmetric; symmetry is
not used for liveness.

`OrdersConcurrent` compares states by its VIEW, `RowsAndRequests`: no handler reads
`placed` and none of the run's properties but its type speaks of it, so states that differ
in it alone have the same continuations.

What the serial run does not claim. `ClosedIffTerminal`, `BoughtAgainOnlyIfLost`,
`RefundedOnce` and `RetentionScheduled` are false when requests overlap: `PrepareWrite`,
`SyncWrite`, `SettleAccepted` and `CorrectWrite` write by id what was decided on an older
row. `BoughtAgainOnlyIfLost` does not say that a lost number costs nothing: it says that
nothing else makes an order be bought twice, and how often. `RetentionScheduled` says
nothing of a crash or a save between the statements. Section 4 lists what a document
promises otherwise.

What the newer properties leave open is part of them. `StopHolds` lets the attempts
that had read the policy buy once more; `LimitsKept` speaks of the quote that was
evaluated, because a preparation may replace it; `RetirementKeepsCredentials` excepts a
request of an earlier deployment that saves late; `EnabledIsProved` a setup that
overtakes the request to enable; `OneOpenShift` counts overlapping clock-ins and
reopenings; `FeeInForce` admits the launch fallback while the fee changes. Of payroll,
`CountedInOneMonth` excepts disputed orders, it and `ReversalFollowsApproval` except
overwritten ones, and `OnlyRacersRewrite` lets a build under way rewrite once.
`ReversalFollowsApproval` is about the reversals there are, not about those that are
missing. Each exception is a history TLC finds when it is struck out.

Fairness. `FairSpec` gives each request weak fairness on `Continue`, the next step
of a handler that is running: Node resumes a handler whose await is over, the
provider's calls end because `request()` aborts them after `futTimeoutMs`
(`integrations/fut.ts:85-86`), and the database answers. Nothing forces anybody to
send a request, and crashes are off in `OrdersSerial`, where it is used: after one, CONFIRMING does stay
(`orders/service.ts:258`), until somebody prepares again.

`Background!FairQueueSpec` gives every runner weak fairness on `Run`: the cron calls
`/api/jobs/run` every five minutes (`vercel.json`), and a call that is running
goes on. Weak fairness of `LeaseExpires`, `JobDue` and `NoteDue` says that time
passes. Crashes are bounded by `MaxFaults`; without that bound nothing ends, since
a job whose function is killed every time is recovered and tried for ever: its
attempts are compared only when it throws (`jobs.ts:17`, `jobs.ts:42`).

`Provider!Fairness`: the clock goes on, every fetch ends because `request()` aborts it
after `futTimeoutMs`, and every wait is a timer. Nobody has to call: the circuit closes by
time alone (`CircuitReopens`), as no refused call moves `circuitOpenedAt`.

## 4. Findings

The two violation runs are the disagreements between a document and the code listed
under `findings` in `PROJECT.json`: a second confirmation buys again, and a second
factor is lost with the key that the procedure clears. Others, seen while
translating, have no run:

- A preparation may replace UNKNOWN, which `docs/FUT_TRANSFER_CONTRACT.md:35` leaves to a
  lookup by hand (`orders/service.ts:225`).
- A worker's synchronisation that overlaps the closing of an order moves the closed
  order, which `PROJECT_PLAN.md:87` makes read-only for workers
  (`orders/service.ts:308`).
- Credentials saved while the order closes keep the date ten years away that an open
  order has (`orders/service.ts:121`), against `docs/ACTIVE_MVP_PLAN.md:277`.
- A refund after a dispute reverses nothing in the month that counted the order,
  because `closedAt` is gone by then (`docs/OPERATIONS.md:36`).
- A draft build that began before the approval rewrites a period that is approved and
  paid (`payroll.ts:46`), against `PROJECT_PLAN.md:213`.
- The failures that stop the automation (`docs/SECURITY.md:30`) are forgotten with the
  next preparation, whose event has no error code (`orders/service.ts:228`).
- The risk limit of the automation applies to a column nothing writes (`automation.ts:53`).
- An order created while the owner changes the fee may keep the launch fallback, a rate
  that was never anybody's choice (`orders/service.ts:53`), and two changes at once leave
  two active policies (`admin-economy.ts:25`).
- A submission that the provider accepted but answered badly is recorded as
  FAILED (`orders/service.ts:283`), from where the table leads back to an order
  that may be submitted again.
- `syncFutOrder` and the settlement move the order off the status table that
  `README.md:16` describes (`orders/service.ts:308`).
- A crash between closing and scheduling leaves credentials for ten years
  (`orders/service.ts:159-163`, two statements).
- REFUNDED through the status route books no refund (`orders/service.ts:181`).
- `reconcileOrder` compares only `reconciledAt` (`ledger.ts:56`): an order that has
  left COMPLETED meanwhile is reconciled.
- A refund whose next period is itself approved is dropped from payroll
  (`ledger.ts:100`), and one of an order that was never counted, because it was
  not reconciled in time, is reversed all the same (`ledger.ts:95`): the reversal
  asks for the period's status, not for the entry.
- An order counted in an approved month, disputed and completed again later,
  counts a second time (`orders/service.ts:158` sets `closedAt` to null on the way).
- An answer of the provider that comes after the order was completed and counted reopens
  it without a dispute (`orders/service.ts:310`). It leaves `closedAt` as it was, so an
  order completed again at once counts in its old month; moved once more among the open
  statuses, which clears `closedAt`, and completed in a later month, it counts twice.
- The same answer over a refunded order makes it an open one again, with its refund booked
  and its credit reversed; it may be completed, refunded and reversed a second time.
- A reversal is charged to the worker the order is assigned to at the refund, who need not
  be the one it was credited to (`ledger.ts:101`).
- An order refunded after its month was drafted and before that draft is approved keeps
  its credit: the refund finds a draft and reverses nothing (`ledger.ts:96`), the approval
  does not rebuild (`payroll.ts:60`). `PROJECT_PLAN.md:88` has refunded orders lose it, in
  this case and in those of the dropped reversals above.
- Disabling an account leaves its sessions in the table (`admin.ts:29`): enabling it again
  revives each that has not run out.
- A rotation that overlaps a save under the same outdated key puts the older credentials
  back (`security/credential-maintenance.ts:18` compares the key version alone).
- A period whose row was created by a refund or an early draft can be approved
  without being rebuilt (`payroll.ts:60`).

## 5. Proofs

All obligations of the eight proof modules are checked by `tlapm`, for every value
of the constants, from the assumptions the modules name: distinct actors, sets of
requests disjoint from their markers, `LastMonth` at least 1, some order, finite sets of slots, rows,
runners and sessions where something is counted, natural numbers for limits, prices,
offers and times, policies that passed validation, a `Nothing` that is not a row.

`OrderSystemProofs`. The inductive invariant `IInv` is `TypeOK`,
`CompletedHasEvidence`, `RequestOK(r)` for every slot and `Exclusive`, by which no
two confirmations under way hold the same version. The properties are not
inductive: nothing in `CompletedHasEvidence` says that a request about to write
COMPLETED, or to reconcile, saw proof and cost when it checked, nor that they
cannot be lost since; `RequestOK` says what each suspended request has checked and
what of it still holds when its version is current. The step is seen from two
sides: `RowStep`, what any action may do to the rows (the version never falls, moves
with status and assignee, and evidence is never lost), and `SlotStep(r)`, what it
does to the slots (a confirmation keeps its version or has just spent the current
one, which is above all those spent before). `StartStep` and `ContinueStep` show
that every action is both, one case per action, and `Preserved` that the two keep
`IInv`. From `Invariance` follow `TypeCorrect`, `SnapshotsAreCoherent`,
`ReservationsAreExclusive`, `CompletionNeedsEvidence`, `GuardedWritesFollowTable`
(the action property) and `RefinesLifecycle` (every step of the order is a step of
`OrderLifecycle` or a stutter). For the refinement the proof
also follows who is asked: a step of one request adds that one or takes it out
(`AskedStep`). It is added only by a start on an open order (`StartAsks`); a step that does
not move the order adds nobody (`QuietStep`); and each write by id takes its own request
out.

The serial properties are proved from `Serial`, that there is one request: they are false
without it (section 3), and nothing else is assumed, not even that handlers are not cut
off. `SerialInv` adds to `IInv` what a request may rely on when nobody else writes while
it waits: the status it read, the prepared purchase it reserves and the provider number
it did not find are still those of the rows (`SerialOK`). `ClosedWithTheOrder` and
`OneRefund` follow. `BuyingAgainIsPaidFor` adds `PurchaseOK`: while no number is stored,
everything the provider has accepted is lost, but for one whose reply is being stored; a
submission is made only then, so each beyond the first was paid for by a lost number.
`CredentialsFollowTheOrder` does assume that no
handler is cut off: `StatusWrite` and `RetentionWrite` are two statements, and its
invariant names the request between them.

`PayrollProofs`. `IInv` is `TypeOK`, `ReversalFollowsApproval`, `CountedWhereClosed`,
`RacersKnown` and `CallsOpen`. `CountedWhereClosed` is why overlapping builds are harmless:
whatever an entry or a build under way has counted of an order that nothing reopened is
completed or refunded, and was counted in its present closing month; that month changes
only through DISPUTED or a late answer. `CallsOpen` is why a late answer is always seen as
one: confirmations and corrections begin on an open order. `RacersKnown` is that a build
of an approved period was under way when it was approved. A step is a matter of the orders
(`OrderStep`: no order but the one written loses its closing month, `Keeps`), of the builds
(`BuildStep`) or of the periods (`PeriodStep`); `OverwriteStep` is the provider's answer.
`PayrollTypes`, `RefundsReversedOnce`, `CountedOnce` and, for the action property,
`RewritersWereUnderWay` follow.

`AutomationProofs`. `StopHolds` is not inductive: the attempts in flight are not yet
purchases. `StopBound` counts purchases since the stop and the attempts that may still
buy (`Live`: automatic, holding an armed policy) together; an attempt that starts while
the policy is stopped has read the kill switch, and `Evaluated` says that only armed
ones pass their evaluation. `Reviewed` says that a call holding the current version has
seen every change, since people who change the order move it.
`AutomationInvariance`, `StopsHold`, `ReservationsAreReviewed`. For `LimitsKept`,
`Tied` follows the quote through an attempt: an id names one cost for ever, so a quote
with the id that was evaluated has the cost that was evaluated, and keeps the limits of
the policy the attempt holds. What the evaluation itself guarantees is arithmetic
(`TruncatedMargin`): a margin truncated to basis points is not below the minimum unless
the exact one is, or the minimum is 0 and the loss under one basis point. `LimitsHold`.

`RetryProofs`, the provider. What a call has sent follows its attempt (`CallOK`), and the
failures counted plus the calls that may still add one stay within the threshold and the
slots (`Counted`): each failure ends the call that made it. `CallsSentAsAllowed`,
`FailuresStayBounded`. `QuotesAreBestOffers`: the chosen offer is the cheapest that can
deliver (the set of prices has a least one because `<` is well founded on the naturals),
and its cost is off by two roundings, half a cent in the price and half a hundredth of a
unit in the total.

`RetryProofs`, the queues. None of the four properties is inductive. `JobsExclusive` needs
that a holder's job is RUNNING under a lease that is not over (`HoldersLease`), since
recovery and claims look at the row and never at the holder. `GivesUpLate` needs that
attempts only grow, so that a claim is beyond what its runner read (`JobsReadBefore`,
`NotesReadBefore`), which is what the decision to give up is taken on. The two bounds are
potentials: `Copies` of a message are those delivered, those in hand and the one it may
still be claimed for, and `Tries` of a job its attempts, the runners that read it early
enough to give it back, and the claim it may return to. A step moves a unit from one part
to another, and only a fault adds one (`CopiesPaid`, `TriesPaid`). `QueueStep` has a lemma
for each action; a message handler leaves the jobs' part alone and the other way round
(`MoveKeepsJobs`, `MoveKeepsNotes`). `QueueInvariance`, `LeasesExclude`,
`CopiesCostFaults`, `NothingGivenUpEarly`, `TriesEnd`, for any runners, rows, attempts and
faults.

`AccessProofs`. After a revocation the live sessions of earlier logins and the logins
that may still make one are together no more than the logins in flight at it
(`OldOnesBounded`); a login turns one into the other. `DisabledAccountsAreOut`,
`RevokedSessionsAreDead`. `LoginsAreLimited` counts by injection: the logins of a bucket
carry different numbers up to the limit (`Numbered`), buckets in use end a window apart
(`BucketsApart`), and so a stretch as long as the window meets two of them at most; and
whoever is refused finds every number up to the limit taken in the bucket in force
(`InForce`).

`CustodyProofs`. The configured keys have no gap (`KeysOK`), a rotation holds rows under keys
older than its own (`SlotOK`), every row is under a configured key unless a save came late
(`Held`), and a rotation only ever moves a row to a newer key than the save it holds
(`Newer`), because the guarded update compares the key version. `RetiredKeysAreUnused`,
`RotationIsSafe`, `FactorIsProved`.

`ShiftsProofs`. What a request holds of a shift is a prefix of its events unless somebody
crossed it (`SlotOK`, `Alone`), so an update that nobody crossed writes the totals of all of
them (`CleanOK`); open shifts are bounded by the clock-ins on their way
(`OpenOnes`). `EventsRepair`, `OpenShiftsBounded`, and the action property `WhoReopens`.

`ShiftsProofs`, the minutes. `MinutesNear` compares folds over the events of a shift:
the accumulator of `Split` and the time spent in each state. TLAPS cannot induct over the
sequence, so the steps of the system take the place of the induction: `AppendFolds` says
that if the recursive function of a fold exists and is the only one for `events`
(`Determined`), so it does for `Append(events, e)`, and that the fold over the longer
sequence is one more application of its operation; a step leaves a
shift's events as they are (`EventsStay`), starts them, or appends one that is not earlier
(`MinutesStep`). `MinutesInv`
is that the events are `Ordered`, their fold `Determined`, and `Measured`: the accumulator
holds the last event's time and the state at it (`Tracked`), and its minutes are off from
what the worker was doing by two quarters of a minute an event (`Near`), since an event
rounds one interval (`RoundedNear`). `MinutesStayNear`.

`OrderEntryProofs`. `Numbering`: whoever holds a number holds its year's counter alone.
`RatesKnown`: there is always an active policy in effect, and a transaction knows the
rates it may still read. `Copies`: of two requests of one form the later one to look for
duplicates met the other, in flight or as an order. `NumbersGapFree`, `FeesInForce`,
`DuplicatesAreSeen`.

Every invariant of the passing runs is stated by a theorem. Only model-checked: the
liveness properties (`JobsEnd`, `NotesEnd`, `CircuitReopens`, `ConfirmingSettles`), since
fairness and ENABLED are beyond TLAPS here.

## 6. Not modelled, and the plan

Not modelled, and why:

- Audit events, notes and the history table are appended to and read back by no handler.
- Reports are reads. So are `revealCredentials` and the signed URLs of proofs, apart from
  their audit events.
- Settings other than the fee and the policy are single statements on one row; the HTTP
  routes and the rest of the dashboard send one call each.
- Encryption, hashing, TOTP arithmetic and cookies are library calls with no state here.
- `domain.ts`' closed formulas (profit, salary tiers, handling rate, exchange) are pure
  arithmetic without a second definition in the repository to hold them against, beyond
  their unit tests; the ones that accumulate or round step by step are modelled
  (`Shifts!Split`, `Provider!Cost`).
- The in-memory workflow and `FakeFutProvider` are test doubles.

The order of the project was the order core first, since money is spent there; then
payroll, which the core's refunds feed; then the queues that run the core's expiry and
synchronisation; then what decides about a purchase (automation, adapter), who may
(access), what is kept secret (custody), and what is counted (shifts, order entry).
What is left, most important first:

1. `Automation` with the settlement of `FutHandlers`: a crash between the claim and the
   submission of an automated attempt, and the audit decision written after it.
2. The evidence invariant carried to payroll: what is counted was evidenced.
3. A refinement of `Automation` to an abstract shop, in which a purchase is one atomic
   decision on one policy, one order and one quote, up to the exceptions above.
4. Batches of the queue and of the rotation (20 and 100 rows): starvation behind rows that
   fail every time.
