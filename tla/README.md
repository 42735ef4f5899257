# ISP platform: TLA+ models, model checks and proofs

This directory specifies the core behaviour of the ISP platform (the pnpm
workspace `isp-platform`): a multi-tenant service that sells internet packages,
settles their payments, authorizes and accounts RADIUS sessions, drives
MikroTik routers, and delivers reminders and reports. The modules are
translated from the code; every definition's lines are in `PROJECT.json`
(`map`). Paths below are relative to `isp-platform/`.

## 1. Inventory

| Component | State it keeps | Operations | What makes it correct |
|---|---|---|---|
| Payments and settlement (`packages/payments`, `apps/web/.../webhooks/paystack`, `.../portal/payment/complete`) | `Payment` row (status, paid_at), the provider's transaction | checkout, webhook, browser callback, settle, charge.failed | one settlement per payment; entitlement only when paid; a retry finishes what a crash left |
| Subscriptions (`packages/billing/src/subscription*.ts`) | `Subscription` row (status, period, usage) | assign, activate, expire | status moves follow the state machine; the paid period is kept |
| Resellers and payouts (`packages/billing/src/resellers.ts`, `apps/web/.../reseller`) | `ResellerProfile.wallet_balance`, `Wallet`, `ResellerPayout` | commission, request, approve, pay | one commission per sale; no payout without funds; one ledger entry per payout |
| Vouchers (`packages/billing/src/vouchers.ts`) | `Voucher`, `VoucherBatch`, `VoucherUse` | create batch, redeem, expire, revoke, assign | a code grants one subscription; a revoked code grants nothing; a claimed code is not lost without a fault |
| RADIUS authorization (`packages/radius/src/auth.ts`, `services/radius`) | none of its own; reads subscribers and subscriptions, expires overdue ones | PAP, CHAP, MS-CHAPv2 | access only with a live subscription and data left |
| RADIUS accounting (`packages/radius/src/accounting.ts`) | `Session` row, `Subscription.data_used_mb` | Start, Interim-Update, Stop | retransmissions are idempotent; usage is counted once |
| Scheduled reports (`apps/web/src/lib/api/scheduled-reports.ts`, `services/worker`) | `ScheduledReport.next_run_at`, `Report`, `ReportDelivery` | run due, claim, generate, deliver | one report per period; none skipped |
| Customer reminders and operational alerts (`customer-reminder-delivery.ts`, `operational-alert-delivery.ts`) | none of their own; expire overdue subscriptions | look for an earlier message, deliver, sweep | one message per reminder, one alert a day; nobody loses access without the message |
| Notifications and retries (`packages/notifications`, `notification-retries.ts`) | `Notification` row | send, retry | every message has an outcome; retries are told apart |
| Staff invitations (`invitations.ts`) and sign-up (`(auth)/signup`) | `Invitation`, `User`, `Organization` rows, the identity provider's users | invite, send, accept, revoke, resend, expire; found a business | an invitation gives one account, never after it is revoked; a registered e-mail gets its account |
| Customer portal security (`portal-security.ts`) | counters in a rate-limit store, the process's memory, signed cookie | consume attempt | the limit resets: nobody is locked out for good |
| Customers, packages, platform administration (`apps/web/src/app/(admin)`, `(platform)`) | `Subscriber`, `ServicePlan`, `Organization` | create, edit, archive, suspend | no archived package is sold |
| Remote router operations (`remote-*-operations.ts`, `subscriber-network-actions.ts`) | `Subscriber.status`, the routers' block lists and sessions | isolate, restore, disconnect, reconnect, set rate | the status says what the routers do; partial failures are reported |
| RouterOS client (`packages/mikrotik/src/client.ts`, `protocol.ts`, `policy.ts`) | socket buffer, sentences not yet read | connect, talk, close; the policies' commands | a reply belongs to its command |
| Network agent (`services/network-agent`) | none that outlives a request | runs operations on a router, answers | what it answers is what the router did |
| Router registration and VPN addresses (`routers/actions.ts`) | `NetworkNode` row with its tunnel address | register | an address is one router's |
| Agent heartbeats (`agent-heartbeats.ts`) | `AgentHeartbeat`, node status | heartbeat, staleness | the latest heartbeat stands |
| Tenant isolation (`packages/database/src/tenant.ts`) | none | rewriting of every query | one database behaves as one per organization |
| Analytics, report rendering, UI, health checks | none | pure reads | not modelled |

How they interact: everything runs in concurrent server processes (Next.js
request handlers, the RADIUS server's HTTP calls, the worker's polling cycles)
over one database. Only paying a payout and consuming an invitation end in a
transaction, and both read before it; around the other flows there is none, so
each `await` of a database or provider call is a point where any other request
may step in, and a process that dies leaves the writes already made.

Hard behaviours: repeated and concurrent webhooks, a browser callback racing
them, exceptions answered with success, crashes between a claim and what it
guards, a status read before an await and written after it, expiry writers that
race activations, commands that outlive the caller's timeout, two systems (the
identity provider, the routers, the rate-limit store) written one after the other,
lowest-free-address allocation, replies cut into chunks. They are listed in `PROJECT.json` under `hazards`.

## 2. Modules

| Module | Models | Kind |
|---|---|---|
| `SubscriptionStates` | `subscription-state-machine.ts`: states, events, transitions, `computeExpiresAt` | operators, extended by `Settlement` |
| `PaymentLedger` | what settlement promises about a payment, a charge, its entitlement and its commission | abstract specification |
| `Settlement` | checkout, webhook, browser callback, `settlePaystackPayment`, `charge.failed`, subscription assignment, activation and both expiry writers | detailed specification |
| `Vouchers` | `createVoucherBatch`, `redeemVoucher`, the three revocations, pausing and archiving of the package | specification |
| `Accounting` | Start, Interim-Update and Stop, the allowance check of authorization, the operator's disconnect | specification |
| `ReportCalendar` | next run and window of a scheduled report, for every frequency | operators, extended by `ScheduledReports` |
| `ReportSchedule` | what scheduled reporting promises: occurrences taken in order, when due, once | abstract specification |
| `ScheduledReports` | creating, enabling and disabling schedules; the worker's cycles with claim, generation, delivery and release; what throws and dies | detailed specification |
| `Payouts` | requesting, approving and paying a reseller's commission, several administrators at once | specification |
| `TenantDatabases` | what tenant isolation promises: a separate database for each organization | abstract specification |
| `TenantScope` | the client bound to one organization, over one shared table: the operations it rewrites, and what it passes through | detailed specification |
| `Accounts` | inviting, sending, revoking, resending, expiring and accepting; sign-up; the identity provider | specification |
| `Messages` | reminders with the sweep, activation and expiry around them, operational alerts, notification rows and retries | specification |
| `RouterChannel` | one connection of the RouterOS client: login, the commands of each policy, replies over a stream | specification |
| `RemoteControl` | isolating, restoring, disconnecting and reconnecting a subscriber over several routers | specification |
| `VpnPool` | allocation of tunnel addresses by concurrent registrations | specification |
| `PortalThrottle` | the limit on portal attempts: two counters, their expiry, the local fallback | specification |
| `MCSettlement`, `MCVouchers`, `MCAccounting`, `MCScheduledReports`, `MCOperations` | instances for TLC: functions over model values, symmetry; `MCOperations` takes the modules from `Payouts` to `PortalThrottle` | model checking |
| `SettlementProofs`, `VouchersProofs`, `AccountingProofs`, `ScheduledReportsProofs`, `AccountsProofs`, `MessagesProofs`, `RouterChannelProofs`, `OperationsProofs` | theorems and their lemmas; `OperationsProofs` is about `Payouts`, `TenantScope`, `VpnPool`, `PortalThrottle` and `RemoteControl`, and about the composition in `MCOperations` | proofs |

### How state and actions correspond to the code

One variable stands for each column that any property or guard depends on
(`Payment.status`, `Voucher.status`, `Subscription.data_used_mb`, ...), keyed by
a model value that stands for the row's id. A concurrent server request is a
record with a program counter and the local variables the handler holds. One
action is one database or provider call together with the code between it and
the next `await`; a handler that returns early ends in the action that found out.
A step that reads and then writes in one statement (`updateMany` with a `where`)
is one action; a `findFirst` followed by an `update` by id is two, with anything
in between. What is read is nondeterministic where the query is (a `findFirst`
without an order picks any row). Variables that are not in the database are
named as such in the comments: `crashes`, `hit`, `revoked`, `told`, `stopped`
and `dropped`, and further down `seen`, `lapsed`, `disowned`, `withdrawn`,
`losses`, `slipped`, `covered`, `disturbed`, `trapped`, `crossed` and `cut`, record what has
happened so that properties can refer to it; in `Accounting` `doubled`, `recounted` and
`crossed` say on what two requests overlapped.

- **Settlement.** `pay` and `sub` are the rows, `CustomerPays`,
  `AttemptDeclined` and `Redeliver` the provider. A webhook goes through verify,
  snapshot, claim, look up, activate, commission, notice; the callback through
  the same settlement and then its SMS. `RequestThrows` is an exception, which
  the webhook route answers with 200; `RequestDies` is a crash, which the
  provider sees as no answer and repeats. `ExpireSubscriptions` is the sweep,
  `AuthorizeFindsOverdue` and `AuthorizeExpires` the two steps of the RADIUS
  authorization that expires by id.
- **Vouchers.** `Read`, `Claim`, `UpsertGuest`, `Assign`, `Activate`, `Confirm`
  and `RecordUse` are the calls of `redeemVoucher` in order; `Expire` is its other
  branch. Each redemption makes its own subscription, so subscriptions are
  counted per code. `RevokeCodes` is the one conditional update that the three
  revocation actions share. `CountActive` and `Archive` are the two statements
  of `archiveServicePlan`.
- **Accounting.** `session` is the table, in which any number of rows may carry
  one Acct-Session-Id. `Start` and `Create`, `Update`, `WriteCounters`,
  `ReadSubscription` and `WriteUsage`, `Stop` and `Terminate` are the handlers'
  calls. Delivery is unreliable: any packet of a session that has begun may be
  delivered at any time and any number of times, and an older update up to
  `MaxLate` times. Nothing keeps two packets of one session, or of two sessions of
  one subscriber, from being handled at the same time, as nothing in the code does;
  what two requests have then read before one of them wrote is recorded by what it
  is: `doubled` (two Starts of a session found no row), `recounted` (two updates read
  one row's counter) and `crossed` (two requests read one subscription's usage).
  Upload and download are one counter.
- **Scheduled reports.** A cycle is one call of `runDueScheduledReports`: `at`
  and `today` are its `now`, `list` the schedules it read with the `next_run_at`
  it read, `on` and `occ` the schedule and occurrence it executes. `ReadDue`,
  `Claim`, `CreateReport`, `BuildReport`, `DispatchReportDelivery`, `Send`,
  `MarkSent` or `MarkFailed`, and `Complete` or `Fail` are its calls in order. An
  occurrence is a day: no caller passes `nextRunAt`, so `next_run_at` is always
  the first instant of a UTC day. `claim` names the cycle instead of a random
  id; a cycle executes one schedule at a time. `StepThrows`,
  `BuildThrows`, `MarkSentThrows` and `CompleteThrows` follow the two `catch`
  blocks; an exception outside of them ends the whole cycle, as a crash does
  (`CycleDies`). `taken`, `faulted` and `first` are history. Error texts, file
  names, the CSV and reports requested by hand are left out.
- **Payouts.** `FindApproved` and `ReadWallet` are the reads of `payPayoutAction`,
  `Pay` its transaction: the conditional claim, the decrement without a condition
  and the row that carries the balance read before. `ledger` is the wallet's
  transactions; `seen` is how many there were when the balance was read, so that
  "payments did not overlap" can be said (`OneAtATime`). Nothing in the code
  credits the wallet, hence `Opening`.
- **Tenant isolation.** A filter is a set of conditions that must all hold:
  `findMany`, `updateMany` and `deleteMany` add one, the unique operations put the
  organization into the caller's own. Callers supply any filter and any data,
  the id or the organization of another tenant included. What the client
  throws for is a guard. The `switch` of the client names the operations it
  rewrites; any other goes to the database as the caller wrote it, and of those of the
  installed library one does anything: `CreateManyAndReturn`.
- **Accounts.** `invite` is the row with the progress of the call that mails it. The
  three-part unique key of the table (organization, e-mail, status) is `Free`: a change of status
  that breaks it fails. `JudgeInvite`, `GuestRegisters` and `Accept` are the calls
  of `acceptInvitation`; `FindSlug`, `FounderRegisters`, `CreateOrganization` and
  `CreateAdmin` those of `signupAction`. The provider registers an e-mail once.
- **Messages.** A run is one execution of the reminder job, the alert job or a
  retry, with the `now` it read. `Look` is `findFirst` on the topic, `WriteRow`
  the PENDING row, `WriteOutcome` the provider call and the row's outcome,
  `Sweep` the expiry that ends the reminder job. `RadiusExpires` is the other
  writer of the expiry. `Activate` is the write of `activateSubscription`: its period
  counts from the payment, so that one settled late may be over already, and as the
  write is by id it may also move a subscription that has become something else since it
  was read. `slipped` is the subscriptions that such a write made overdue at the clock of a
  reminder job that had listed its own before. The recipients of an alert are the staff
  of all organizations: the client that looks for them is bound to one, but `User`
  is not among the models it scopes.
- **Router channel.** A sentence is two halves, so that a chunk may end inside
  one; `OnData` is the `data` handler with `extractSentences`; `ReadRow`,
  `ReadRefusal` and `ReadDone` are the loop of `talk`, which ends at the first
  `!trap` or `!done`, whichever command that answers. The router (external)
  answers a refused command with `!trap` and then `!done`; it prints the rows of a
  table in any order (`Orders`). `AddToAddressList`,
  `RemoveNext` and `SetSimpleQueueRate` are the commands after each `print` in
  `policy.ts`. `program` is what the agent runs on one connection.
- **Remote control.** A call is one server action: `Starts` reads one active session
  of each router, `Send` and `Hears` are the request to the agent and its answer,
  or the timeout of 15 seconds, after which the agent goes on (`job`). `Finish` writes
  the status only if every router answered COMPLETED. `covered` is the sessions
  of the last completed isolation or restoration; `disturbed` says that since then a
  call failed, shared its time with another, or went the other way.
- **VPN pool, portal limit.** `AllocateVpnIp` reads the organization's routers and
  chooses the lowest free host; `CreateRouter` writes the row later. `Incr` and
  `SetExpiry` are the two calls to the store for each of a request's two keys,
  which go on concurrently; `DecideLocally` is the fallback. The attempts a process
  remembers of a key are counted by how long they still count (`recent`): only how many
  fall into the window is ever asked. `cut` is the keys whose counter a
  fault left without its expiry.

Modelling choices to know of. Each checkout has its own subscription. The
commission of an online sale is modelled for payments that carry a
`resellerProfileId`, as the route supports, although no present caller sets it.
The receipt's phone number is present. Refunds, and the subscription states
SUSPENDED and CANCELLED, are never written by the application and have no action; neither has the
voucher status SOLD, which guards accept and nothing writes. The provider may
decline an attempt and later accept one under the same reference. A null
`paid_at` is replaced by the time of verification. Expiry of a voucher's
subscription is left to `Settlement`; activation and expiry are one step each in
`Accounting`, which allows more orders than the code.

## 3. Runs

| Run | Instance | What it shows |
|---|---|---|
| `SettlementRace` | one sale, two webhooks, one callback, declined attempts, at most one crash and one exception, clock 0..2, period 1 | the six invariants of settlement and the refinement of `PaymentLedger` |
| `SettlementRetry` | deliveries one at a time, two crashes | an interrupted settlement is finished; what was paid becomes an entitlement |
| `SettlementStranded` | two overlapping deliveries, one crash | **violation**: a paid subscription stays pending for good |
| `SettlementRevived` | a webhook and a callback around an expiry | **violation**: an expired subscription becomes active without renewal |
| `Vouchers` | two codes in two batches, one of a reseller, two redemptions, one crash, one closing of the package | one grant per code; revoked codes grant nothing; codes are burnt by faults only; commissions follow codes; claimed codes are granted |
| `PackageArchived` | one code, one redemption | **violation**: a package with an active subscription is archived |
| `Accounting` | two devices of one subscriber, two subscriptions, two requests, one late update, one crash | with packets overlapping freely: a second row or a reopened session only if two Starts of it overlapped, an exhausted package refilled or a megabyte lost only if two requests had read the same row or usage |
| `ScheduledReports` | a daily and a monthly schedule, two overlapping cycles, one switching off or on, three days of two ticks, lease of one tick | one report and message per occurrence; windows tile the calendar; nothing dropped; status of the latest; overlap only after a lease; the refinement of `ReportSchedule` |
| `ReportsDue` | a daily schedule, two cycles, one fault, the same clock | a due occurrence is reported although the cycle that held its schedule died |
| `Operations` | see below | payouts booked once, overdrawn only by overlap; one account per used invitation, none lost without a fault; messages repeated only by overlap, retries told apart, access expired in silence only by a fault or a late activation; replies match commands until one is refused; the routers do what the status says; addresses shared only by races; lock-outs only by faults; the refinement of `TenantDatabases` |
| `DuplicateStart` | one session, two requests | **violation**: a repeated Start makes two rows |
| `ReplayedUpdate` | one session, one request, one late update | **violation**: a repeated update is charged twice |

Why the bounds are enough. The claims and rows of different payments, codes and
subscribers do not interact (every `where` names one of them), so what can go
wrong needs one payment or code and the requests that compete for it. Three competitors
cover each role: the one that wins, the one that loses at the claim, and the
one that had read before. Periods of one day on a clock that passes their end
put every step before, at and after an expiry. A second crash only matters to
liveness, where the run has two. In `Accounting` one megabyte per session, a
limit of one for the first subscription and two for the second give every
relation of counter, usage and limit (below, equal, set back, grown again). Two
requests handle any two packets at the same time. Overlaps, late updates and deaths
are irregular; the constraint `OneIrregularity` ends a behaviour that has had two,
because each property names its causes one by one and any one of them must be enough to
break it without its exception, and none must break another's. How they combine is
covered by the theorems of section 5, which hold for every size and have no such bound.

In `ScheduledReports` months have two days, so that a run of three days passes
the end of a month; a lease is shorter than a day, as in the code (15 minutes),
and each cycle may take as long as it likes, so that it ends before, at or
after its lease. Cycles do not die on the last day (`CycleDies`): the run ends
before that lease does. Weekly schedules, which would need
a longer calendar, and faults with two schedules are covered by the theorems.

`Operations` checks the components of `MCOperations` in one run. They share no
variable, so a property of one holds of their composition exactly when it holds of
that component alone: `focus`, chosen at the start, says which one runs, and the
state space is the sum of theirs instead of the product. Reminders and alerts get a
`focus` each, as no message is both. Three rows hold a message and two of its retries
(numbering both retries 1 violates `SentAgainOnlyByOverlap` at once), or both
reminders of a subscription and a repetition; once data is low, which only adds a
third kind of reminder, two rows are enough. Every component takes the model values `{x1, x2}`
and `{y1, y2}` for two of its sets (payouts and clerks, invitations and founders,
calls and sessions, ...); no definition tells the members of either apart (the
two sessions are on two routers, which only their equality distinguishes), so
permuting each pair is a symmetry. Its bounds: two payouts and two clerks with
amounts 1 and 2 against a wallet of 3, which two pay together or not; two
organizations, rows and values; two invitations of one e-mail and one guest
against two founders of one name, one death, a clock that passes the end of an
invitation; two executions, three rows, two retries and one death around the last day
of a subscription, which is activated before or on it, again or not at all; programs of the agent with up to two operations over tables of
two rows that others change once; two calls on two routers with one edit; three
registrations of two organizations for two hosts; two requests from one
address, a limit of 1, one fault. Two actors suffice for an overlap, and a third
registration sees the full pool.

`CHECK_DEADLOCK` is off where instances do end: all customers have paid or
given up, all codes are used, the payouts paid. A worker polls for ever and keeps the check.

## 4. Fairness

Safety runs (`Operations` among them, whose refinement is of a safety
specification) assume none. The four runs with liveness properties
(`SettlementRetry`, `SettlementStranded`, `Vouchers`, `ReportsDue`) use `FairSpec`.
Weak fairness of each request's steps: a server process that has not died
executes the request it has begun. Weak fairness is enough, as a step of a
request stays possible until it is taken, or until a crash ends the request.
`Settlement` adds strong fairness of `Redeliver`: the provider repeats an event
until it is answered with 200. It is strong because the instance has a fixed
number of request slots: delivery waits for a free slot, which real servers do
not run out of for ever. `ScheduledReports` adds weak fairness of the clock, and its
cycles include `StartCycle`: `setInterval` begins one every 30 seconds
without end (`services/worker/src/index.ts:50`). Nothing is assumed of customers, operators or expiry.
No crash is assumed to happen, and their number is bounded: a server that died at
every delivery could settle nothing. Voucher redemptions are not retried by
anyone, so `ClaimedIsGranted` excepts codes hit by a fault.

## 5. Proofs

All theorems hold for every value of the constants that satisfies the module's
assumption (`ConstantsAssumption` of `Settlement`, `VoucherAssumption`,
`AccountingAssumption`, `ReportsAssumption` and `CalendarAssumption`,
`PayoutAssumption`, `TenantAssumption`, `AccountAssumption`, `MessageAssumption`,
`ChannelAssumption`, `PoolAssumption`, `ThrottleAssumption`, `RemoteAssumption`), so
for any number of rows, requests and crashes. Two of them ask that some sets be
finite, because something is added up or listed over them: the sessions,
subscriptions, rows and requests of `Accounting`, and the row ids of `RouterChannel`.

`SettlementProofs` proves the six invariants of `SettlementRace` and that
`Settlement` implements `PaymentLedger`. None of the invariants is inductive on
its own: that a subscription is entitled only when paid depends on what each
request has verified and read. `IInv` adds what the rows of each stage of a
checkout look like (`RowsInv`), what a request at each program counter knows
(`RequestFacts`), that at most one request has won the claim of a payment and is
still to pay out (`WinnerInv`), and what an expiry writer that has read an overdue
subscription may still find (`ExpiryInv`). The refinement follows from `IInv`:
each action is a step of the ledger or leaves its variables alone. `MovesOfStatus`
bounds the violation `SettlementRevived`: a status leaves the state machine only by
a stale activation, from EXPIRED to ACTIVE, which writes a dated payment the same
dates again, and these are already over.

`VouchersProofs` proves the five invariants of `Vouchers`. `HolderInv`: at most one
request is past the claim of a code, the code is then spent, and the counters
show what that request has created so far; this is what excludes a second grant,
although an overdue code may be written EXPIRED over REDEEMED meanwhile.
`FreshInv`: a code that can still be claimed has created nothing. `BatchInv`: what
each stage of a batch has written.

`AccountingProofs` proves the five invariants of `Accounting`, with no assumption on
how packets overlap. What an overlap can break is confined instead to the session,
the row or the subscription on which two requests overlapped. `RowInv`: while a session
is not `doubled`, it has one row or one request about to create it. `UsageInv`: the usage
that a request read of a subscription that is not `crossed` is still its usage.
`CountInv`: the counter that an update read of a row that is not `recounted` is still the
row's. Each is inductive because the step that breaks it is the one that records it. Updates
of two devices may overlap as they like until they meet in one usage.
`EveryMegabyte` balances four sums, over the subscriptions, requests and rows of a
subscriber, which change by one member at each step. The library defines a sum over a
set by choosing its members one after the other, and its induction principles cannot
be instantiated with this prover, so the laws used (a sum does not depend on the order,
takes a member out, is the same for functions equal on the set, grows with the
set) are proved first, by taking a smallest set that would break them
(`SmallestSet`, `SumsAgree`, `SumsExist` to `SumPaired`).
With `ReportedInv` (no row and no request is ahead of the router) and one row per session it
follows that a subscriber none of whose requests overlapped in that way is charged no more
than was reported, but for what late updates set back (`ChargedReported`). `OrderInv`
(without a late update nothing is set back) gives the documented idempotence its
conditions (`InOrderChargedOnce`); without order it is refuted by `ReplayedUpdate`.

`ScheduledReportsProofs` proves all six invariants of `ScheduledReports` and
that it implements `ReportSchedule`. `CalendarTiles` is the
arithmetic: for any calendar whose months follow one another, the window of an
occurrence begins where the one before ended. `IInv` adds that what was claimed
lies before the next occurrence (`ScheduleInv`, `WindowInv`), that nothing exists
of an unclaimed one (`UntakenInv`), what each step of an execution may
rely on (`ExecutionInv`), that an occurrence has one execution (`UniqueInv`), and
what holding the claim means (`LeaseInv`): the holder executes the latest
occurrence, and an execution that lost the claim has outlived its lease. That
is why a late result cannot overwrite a later one. The
claim alone does not exclude two executions; the condition on `next_run_at` does.
`CalendarAssumption` asks for months in order, each with days, and for one before
and one after the days of a run.

`AccountsProofs` proves the three invariants of `Accounts`. Every step moves the
row of an invitation in one of few ways (`RowMoves`: drafted, dropped, opened,
mailed, ended, overwritten; accepting is shown apart), so the rows' invariant (`RowInv`: a used one is
ACCEPTED unless disowned, a withdrawn one is closed and unused) is shown for the
ways and not for the actions. `GuestInv`: a guest works on a row that was written.

`MessagesProofs` proves the three invariants of `Messages`. That a repetition is due to
an overlap depends on what each job saw when it looked: `JobKnows` (the rows it saw
were fresh, and whoever it no longer has to tell is told) makes `LogInv` true of the
row it writes. A retry knows its original, which has counted the attempt
(`RetryKnows`), and `RetryInv` keeps apart the numbers of the retries written and
under way. `RemindInv` looks ahead: a subscription that is overdue by the clock of a running
job is reminded, or still on the job's list, until the sweep, or has slipped behind it
by a late activation; so nobody else is swept in silence (`Reminded`). That activations
and expiry are the only other writers, and that an expiry makes nothing overdue, is
`EndsForeseen`. `Reached` is the same for the recipients of an alert.

`RouterChannelProofs` proves the two invariants of `RouterChannel`. While nothing was refused
the two ends are `InStep`: the client waits for one command, which is on its way to the
router (`Asked`) or answered (`Answered`: what is in the buffer, in flight and
decoded are, together and in order, the rows of that command's reply and then its end,
wherever the stream is cut), and otherwise nothing is under way. `Cut` and the lemmas
after it say what decoding a prefix of the stream leaves; they need the number of
halves, not their content.

`OperationsProofs` has a part for each of five components, and one for all.

- *Payouts.* What an administrator holds between the reads and the transaction is
  `ClerksKnow`: the payout it found is APPROVED or PAID since, the balance it read covers
  it, and that balance is still the wallet's if nothing was booked since the read,
  which `seen` tells. That makes the wallet's balance and the chain of transactions
  follow while payments do not overlap.
- *Tenants.* `TenantScope` implements `TenantDatabases`: each operation that the client
  names touches only rows that are the organization's own or nobody's and shows only what
  is its own afterwards (`OwnCall`), and such a call is a call of a separate database.
  What the client passes through only adds rows, wherever the caller says, and shows those
  (`PassOnlyAdds`); the abstract specification has a step of its own for it (`PassFor`).
- *Pool.* What a registration read stays true, as routers are never deleted
  (`ReadStands`), and if it was refused, what it read holds every host (`HoldsAll`).
- *Portal limit.* A counter outside `cut` is zero, or has an expiry, or exactly one
  request is about to set it (`Tended`).
- *Remote control.* `WorkInv` (what the agent does for a call is of that call's
  operation, and nothing is unawaited until something failed; a call that is alone finds
  nobody busy), `ReachInv` (how far such a call has brought the routers), `OrphanInv`
  (a command that outlived its call and may still change a block list disturbs) and
  `MatchInv`, which is the property with "no call is changing anything" for "nothing is
  under way".
- *All together.* A step of `MCOperations` is a step of one component and leaves the
  variables of the others alone, so a behaviour of it is one of every component
  (`ComponentsRun`), and everything proved of one alone holds of the composition the
  run checks (`OperationsTyped`, `OperationsSafe`, `OperationsIsolated`).

With these, every invariant, safety action property and refinement that a passing run
checks is also a theorem. Only model-checked: liveness (`SettledIsEntitled`,
`PaidIsEntitled`, `ClaimedIsGranted`, `DueIsReported`), which needs fairness and
ENABLED, beyond this prover.

## 6. Findings

1. *A settlement can be lost* (`SettlementStranded`). The loser of the claim
   answers 200 before the winner has activated; if the winner dies, nobody
   retries, though `settle.ts:29-32` and `docs/project-status.md:93` promise that
   a retry finishes.
2. *An expired subscription can be revived* (`SettlementRevived`).
   `activateSubscription` writes by id after a check that may be stale. The theorem
   `MovesOfStatus` shows that nothing else leaves the state machine.
3. *A package with active subscriptions can be archived* (`PackageArchived`).
   The count and the write are separate statements.
4. *A repeated Start is not idempotent* (`DuplicateStart`). Nothing makes
   `radius_session` unique; `docs/project-status.md:143` says otherwise.
5. *A repeated update is charged twice* (`ReplayedUpdate`). An older counter
   sets the row back; `docs/architecture.md:286` calls accounting idempotent.

Further disagreements happen in passing runs. The property of each run holds of
everything but these cases, which it names as its exceptions: that it is an invariant
and a theorem says that the exception is the only way to get there. Paths below are relative
to `isp-platform/`.

6. *Usage is lost when two devices report at once* (exception `crossed` of
   `RefilledOnlyByOverlap` and `MiscountedOnlyByOverlap`). Each update reads
   `data_used_mb` and writes what it read plus its own growth
   (`packages/radius/src/accounting.ts:84-96`); the later write drops the other's growth,
   and a subscription that was found exhausted may accept sessions again. The comment
   at `accounting.ts:53-56` says the handler "rolls the usage delta into the
   subscription's data balance, signalling a disconnect once the plan's data
   allowance is exhausted". Two updates of one session overlapping (`recounted`) book the same
   growth twice, by the same interleaving.
7. *A reminder is sent twice by overlapping jobs* (exception `seen < i` of
   `SentAgainOnlyByOverlap`). The worker's interval starts a job while the last one still
   runs; both look before either writes (`customer-reminder-delivery.ts:34-40`). The comment
   at line 59 says "Sends one low-data/expiry reminder per subscription, then expires
   overdue access".
8. *Access is expired without the reminder* (exception `slipped` of `SilentOnlyByFault`).
   A payment settled late activates a period that is over after the job has listed its
   subscriptions (line 69) and before its sweep (line 116), which expires it unheard,
   contrary to the same comment.
9. *A reply is taken for the next command's* (exception `trapped` of `RepliesMatch`).
   `talk` returns at `!trap` (`packages/mikrotik/src/client.ts:119`), but a router ends
   that command too with `!done`. Removals do not look at the reply
   (`packages/mikrotik/src/policy.ts:44` and `:55`): when an entry is gone already, the
   `!done` left over is taken as the reply of the next command, and each later one is
   answered by its predecessor's, so that a success may be reported while the last
   command is still under way. `docs/project-status.md:132` says that "the
   existing RouterOS API client handles TCP connection, plain post-6.43 login, sentence
   framing, replies, traps, timeouts, and cleanup".
10. *An isolation outlives its timeout* (exception `disturbed` of `StatusMatchesRouters`).
    The application gives the agent up after 15 seconds and reports a failure
    (`remote-subscriber-operations.ts:70`), but the agent goes on: a restoration made
    meanwhile is undone, and an ACTIVE subscriber stays blocked. No document promises
    otherwise in words; that the status written says what the routers do is what the code
    is for (`subscriber-network-actions.ts:23-32` writes it only when all completed).
11. *An operation escapes the tenant client* (step `PassFor` of `IsolatedSpec`). The
    `default` of the switch (`packages/database/src/tenant.ts:207-208`) passes through what
    it does not name, and the installed library (Prisma 5.22) has `createManyAndReturn`,
    which may then write another organization's id. `tenant.ts:138-139` says "Creates receive
    the bound organization_id and reject an attempt to supply another tenant ID". Nothing in
    the repository calls it so far.
12. *An alert goes to the staff of every organization* (`RecipientsOf`).
    `operational-alert-delivery.ts:30-33` looks for its recipients through the tenant
    client, but `User` is not in `TENANT_SCOPED_MODELS` (`tenant.ts:10-30`), so the
    query is not filtered, although the model has an `organization_id`.
    `docs/database-schema.md:11` says "No row of tenant data can ever be accessed without
    an explicit tenant filter". This one is seen by reading: `Messages` has the staff an
    alert goes to as a constant, and no property asks whose they are.

## 7. Not modelled

Most of the implementation's lines render pages and components, read data for
them (`apps/web/src/lib/api/analytics.ts`, `sessions.ts`, `customers.ts` and
their like), check forms, seed a database or generate configuration text. They hold no state that
several steps could disagree about, and mapping them would only lengthen the
models. What has steps, and is left out, is this:

- *RADIUS cryptography and packet formats, RouterOS length encoding, signed cookies
  and signed agent requests*: pure computations that the repository tests with vectors.
- *Single writes of one row*: customers, packages, organizations, feature
  flags, heartbeats, router checks. An upsert or an update by id has no
  intermediate state; editing a customer's status and archiving a package, which
  race other flows, are modelled.
- *`applySubscriptionPolicy`* (`packages/mikrotik`): nothing outside its tests calls it.
- *The remote rate policy*: its commands are in `RouterChannel`; it writes nothing else.
- *The second text message of some notifications*, which leaves no row, and the choice of
  a provider.
- *Which alerts are raised*: any non-empty set of them.
- *Models that are not tenant-owned, and nested relations*: the tenant client
  passes them through. The other modules are stated for one
  organization, on the strength of `TenantScope` and of `createManyAndReturn` not being
  called; the staff an alert goes to are the exception (finding 12).
- *Crashes between the calls of a router's registration*: an allocated address that is never
  written reserves nothing.

Between components that are modelled apart: commissions are earned in
`Settlement` and `Vouchers` and any amount in `Payouts`; RADIUS authorization is
`AuthorizeExpires` in `Settlement`, `RadiusExpires` in `Messages`, the guard of
`LogIn` in `RemoteControl` and the allowance in `Accounting`; the agent's
operations are steps in `RemoteControl` and commands in `RouterChannel`. Each of
these steps is nondeterministic where the other module decides; what the modules do
not show is a property that would relate the state of two of them.
