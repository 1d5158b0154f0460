# Verification of the repair service platform

TLA+ modules, TLC configurations and TLAPS proofs for the back end of the
repair-shop service platform in this repository (NestJS API, BullMQ worker,
Next.js client). Paths below are relative to the repository; `api/` stands for
`apps/api/src/modules/`.

## 1. Inventory of the system

All API replicas share one PostgreSQL database (through Prisma, at its default
isolation level, READ COMMITTED) and one Redis. A request is a sequence of
awaited statements; between two of them any other request may commit. Nothing
in the code asks for a stronger isolation level, takes a `FOR UPDATE` lock or
compares a version, so an interactive transaction gives atomic writes and
nothing more.

| component | state | operations | interacts with | makes it correct |
|---|---|---|---|---|
| work orders (`api/work-orders`) | `work_orders`, `work_order_timeline_events` | create + number, updateStatus, assignTechnician | audit, notifications, realtime after the commit | histories are legal, the row and its timeline agree, effects stand for commits, the next number is free |
| estimates (`api/estimates`) | `estimates`; writes work orders too | create, update, send, customer approval | as above | nothing is decided unsent, decisions are final, what was sent is frozen, an approval moves the order that waits |
| inventory (`api/inventory`) | `parts`, `inventory_transactions`, `suppliers` | create, update, adjustStock | audit | stock is never negative and is what the ledger says, commits are atomic steps, adjustments do not starve |
| invoices, payments (`api/invoices`, `api/payments`) | `invoices`, `payments` | issue, void, payment webhook | provider webhooks (repeated, concurrent), audit, notifications, realtime | a paid status is earned, no payment goes unnoticed, none is recorded again and again |
| notifications (`api/notifications`) and their worker (`apps/worker`) | BullMQ queue in Redis, `notifications` | enqueue; find or create a row per channel, send, mark SENT; the failed handler | every service above | channels are served in order and for good, a job completes only when all are, a retry repeats no e-mail, every job ends |
| auth (`api/auth`, `api/users`) | `users`, `sessions`, `verification_tokens` | register, login, refresh, logout, forgot/reset password, verify, change of role | web client | a reset ends the sessions, a refresh token is used once, a new role is the role of later tokens, one reset link at a time |
| rbac, guards (`api/auth/rbac`, `guards`) | constant tables | permission look-up | all controllers | – |
| tenant scoping (`apps/api/src/database`) | none: rewrites query arguments | every query | all services | a query stays inside its tenant |
| customers, assets, service requests, diagnoses | one table each, with references | create, update | tenant scoping, rbac, audit | no service request refers to another tenant's rows, converted requests stay converted, audit records tell states that were real |
| web client: session (`api-client.ts`, `auth-provider.tsx`, login and register pages) | tokens in localStorage (shared by all tabs), user in each tab | call, 401, refresh, login, register | auth | a tab shows the account it acts for, a refused call is not repeated without end |
| web client: pages and forms | what each page has fetched, spinner, timers | mount, change, refetch, search, poll | every controller | a page shows the change its user made, no spinner turns for nothing |
| reports (`api/reports`) | none | getDashboardMetrics, five rounds of queries | dashboard | – |
| audit (`api/audit`) | `audit_events` | logEvent, which swallows its errors | all services | a record stands for something that happened |
| realtime (`api/realtime`, socket provider) | connected sockets by tenant | emit to tenant | event emitter | – (no event is ever delivered, section 5) |
| suppliers, tenants | one table each | single-row CRUD | – | no rules between rows |
| health, config, filters, interceptors, shared package | none | read-only or start-up | – | – |

What is hard in this code: checks against a status that was read in an earlier
statement or before the transaction (work orders, estimates, invoices, tokens,
service requests); two services that write the same row; what happens after a commit
and may not happen (audit, job, event); repeated and simultaneous deliveries
(webhooks, jobs, clients that retry); workers that die or lose the lock of their job;
row locks held across awaits (stock); tabs that share storage; answers that overtake
each other. `PROJECT.json` lists these places at their lines under `hazards`.

## 2. Modules

| module | models | state and actions |
|---|---|---|
| `Repairs` | the enumerations and the transition table shared by the next three; what a timeline tells (`LegalLog`, `Reached`) | no state |
| `WorkOrderLifecycle` | abstract: what the service promises of an order, one atomic step per operation | `Create`, `Move`, `Assign` |
| `WorkOrders` | `WorkOrdersService` | below |
| `Estimates` | `EstimatesService` on the same database; EXTENDS `WorkOrders` and is its composition with it | below |
| `Stockroom` | abstract: what the service promises of the parts of a tenant | `Create`, `Renumber`, `Move` |
| `Inventory` | `PartsService` | below |
| `InvoiceAccount` | abstract: what the two services promise of an invoice, one atomic step per operation | `Issue`, `Pay`, `Void` |
| `Billing` | `InvoicesService` with `PaymentsService` and the webhook | below |
| `Delivery` | abstract: what the queue promises of a notification job | `Accept`, `Serve`, `Complete`, `GiveUp` |
| `Notifications` | the queue, `notification.processor.ts` and the `failed` handler | below |
| `Access` | the permission table with its guard, and the tenant extension, as operators | no state |
| `Sessions` | `AuthService` and the change of a role; EXTENDS `Access` | below |
| `Intake` | customers, assets, service requests, diagnoses; EXTENDS `Access` | below |
| `Browser` | `api-client.ts` and `AuthProvider` in several tabs | below |
| `Pages` | the pages and forms of the web client, and the reads of `ReportsService` and `findOne` behind two of them | below |
| `MC...` (one per component) | instances for TLC: symmetry sets, small inputs | – |
| `RepairProofs` (of `WorkOrders` and `Estimates`), `InventoryProofs`, `BillingProofs`, `IntakeProofs`, `SessionProofs`, `NotificationProofs`, `BrowserProofs`, `PageProofs` | theorems, checked by tlapm | – |

In the modules of the API a running request is a slot `r \in Requests` whose record
`req[r]` holds the program counter (`pc`) and just those locals the code
carries across an await, so that one action is the code between two awaits. A
check whose answer is 400 or 404 changes nothing and is a stutter. Ids are
fresh uuids: a creation takes any id that is not used. Tables are
functions from ids to the columns that matter, and `out` (`estOut`) holds the
audit record, job or event the latest step put out and nothing older. Every one
has `Lose`: the process dies, the client's transaction times out or the
database fails, everything uncommitted is rolled back and nothing more of the
request happens. Work that would follow a commit is lost with it. This
over-approximates the code: a failing audit INSERT or queue does not stop the
request (`MayEmit`).

**WorkOrders.** `CountOrders` and `StampNumber` are `generateWorkOrderNumber`,
two steps because the year is that of the moment after the count; `InsertOrder`
and `RefuseDuplicate` are the transaction of `create`. `CheckMove` is the read
and the transition check of `updateStatus`, `CommitMove` its transaction;
`CheckAssign` and `CommitAssign` are the two halves of `assignTechnician`, whose two reads are one
step because neither an order nor a user is ever deleted. A transaction is one step:
its statements are blind writes, the first of which takes the order's row lock, and nobody
else sees any of them before the commit. `Audit`, `Notify` and `Announce`
follow in the code's order. `NewYear` is the clock; `NumbersInStep` asks that the number of a creation that counts
now and races with no other is free, in this year and in those that may come before its INSERT.

**Estimates.** `updateStatus` is only called with SENT (the controller's `send`), so it is
`CheckSend` and `CommitSend`. `handleCustomerApproval` is `ReadEstimate`
(Prisma's `findUnique` with `include` selects the estimate and then
its order, two statements), then `RefuseDecision`, `RepeatDecision` or
`AllowDecision`, then `CommitDecision`. `OrderStep` runs a work order request of
the other service in the same slot. VIEWED and EXPIRED are never stored by the code.

**Inventory.** Unlike the others, the transaction of `adjustStock` reads what it
wrote: `Increment` takes the row lock and is given the new stock, and a later
step inserts the ledger row and commits (`CommitAdjust`) or rolls back
(`RefuseAdjust`). `lock` is that row lock; every other writer of the row waits for it.
`Stockroom` knows neither locks nor looks: `ImplementsStockroom` says that what is committed are its atomic steps.

**Billing.** `Deliver` reads the invoice, `IgnoreDuplicate` and `AcceptPayment` are
the idempotency check, `SumPayments` is the INSERT, seen by its own transaction
only, with the sum over what is committed, and `CommitPayment` is the write of the status and
the commit. The one provider reports successes only, so a row that is found is
always a duplicate; the branch of the code that updates a payment of another
status cannot be reached and is not modelled, nor is refunding. Totals and amounts are integers of any sign,
for neither `create-invoice.dto.ts:11-45` nor the webhook (`mock-payment.provider.ts:33`) bounds them, and 0 stands for a
missing amount (`payments.service.ts:58`); fractions, and with them the rounding of sums, are left out.
`StatusEarned` and `PaymentShows` speak of the invoices to which no event with a negative amount was applied (`NothingBack`):
for the others the code has no rule, and both can fail. `TotalPaid` adds the rows of an
invoice up by a recursive function (`RunningTotal`). `InvoiceAccount` knows neither rows nor webhooks:
`Account` maps the total of the rows to *paid* and their transactions to *recorded*, and `KeepsAccount` says
which commits are its steps: all but those of a webhook that was `Overtaken`.

**Notifications.** `Enqueue` is the add of a job with three attempts; `Take` gives a
waiting job to an idle worker with a lock. `Find`, `Create`, `SendEmail` and `MarkSent`
are the awaited statements of the loop over the channels, `Complete` the end of the
processor; `Throw` is any of them failing, and `Fail` is BullMQ counting the attempt.
`CloseRows` is the `failed` handler, which runs beside whatever comes next and whose own failure is
only logged. `Crash` is the death of a worker; its lock stays until `Reclaim`. `Stall` is a
lock that lapses under a worker that still runs: then two workers serve one job, and
may both insert a row, which is why rows are named by who inserted them. `Delivery` knows none of
this: `KeepsPromise` maps a position of a job to *served* when some row of it is SENT.

**Sessions.** Each statement of `AuthService` is a step, the two batches are one step each.
An access token is nothing but what it carries. Several fields of a session are history,
written for the properties only: the password that was proved when it began (`proved`),
whether that was still current at the INSERT (`clean`), and whether another request
was using the same refresh token or making a link at the same time (`alone`).

**Intake.** `FindOwner`/`InsertAsset`, `FindAsset`/`InsertReport`, `CheckUpdate`/`CommitUpdate`/`Audit`
and `CheckDiagnosis`/`InsertDiagnosis` are the look-up and the write of each operation. All go through
`Access`: which rows a query reaches (`Reaches`), what tenant an INSERT is stamped with
(`Stamped`), and whether the token's role permits the route (`Permits`). `Audit` writes the record of a change of state;
those of creations and other updates are left out. `OneTenant` speaks of service requests, their assets and
customers: a diagnosis takes any `workOrderId` (`diagnoses.service.ts:16`), and nothing says it may not.

**Browser.** `stored` is localStorage, one for all tabs; `user[t]` is the state of
`AuthProvider` in tab t. `Refuse` is the interceptor of `api-client.ts`, which runs first, removes
the tokens and begins to leave; `Reject`, `AskRefresh`, `Refreshed` and `NotRefreshed` are
the one of `AuthProvider` behind it. The refresh call is made with the same client, so its 401 passes both
too: when another tab stored tokens between them it is refreshed in its turn. `asks` holds the refresh calls
that wait for each other on behalf of one call. The effects of children run before those of their parents, so the calls a page
sends as it loads may miss the second interceptor (`both`, in `Load`). `Timer` is the delayed login after a registration.

**Pages.** Data are abstracted to *when they were read*: `now` counts the commits of
everybody, `shown[c]` is the moment cell c was read at. A page is a record: which loads it
has and what queries they make, stage after stage, which it begins when it mounts, which set
and clear the spinner, what each change writes and which loads follow it. The actions are the same for
every page: `Press`, `Serve`, `Succeed` or `Alert` for a change, `Read`, `Answer` or `Fail` for a fetch,
`Type` and `Timeout` for the search field, `Poll` for the bell, `Others` for everybody else. `Unlimited` names the two pages
that call `fetch` without a time limit.

Definitions named "Mutant" in a comment are plausible bugs of the definition
that follows them. No specification uses them; each exists to show that a property would notice the bug.

## 3. Runs

Every run has its `.cfg`, named after it. *Passing* runs end without error,
*violation* runs end in a counterexample to something a comment or message
of the code says.

| run | instance | shows |
|---|---|---|
| `WorkOrdersRace` | 1 order, 2 slots, 1 technician, timelines of 6 events and those in flight | a stale validation never records an illegal change or one from a status the order never had; no repair without approval and no hand-over without quality check; every effect stands for a commit |
| `EstimatesRace` | 2 orders, 1 estimate, no technician, 2 slots, 2 sends, 3 events, 2 years | with two services writing: row = timeline, the next number free this year and next, no decision without a send, decisions told are taken |
| `EstimatesSerial` | 1 order, 2 estimates sent up to twice, 1 slot, 7 events | one request at a time: the composition implements `WorkOrderLifecycle`; decisions are final, approvals move the order, sent contents are frozen |
| `InventoryRace` | 2 parts, 1 part number, 2 slots, quantities -1 and 2, column up to 3, fairness | no movement lost or invented, stock in range, audit records true; the service implements `Stockroom`; every request is answered |
| `BillingRace` | 1 invoice of 2 or of 0, events of 1, of -1 and without an amount, 3 deliveries each, 2 slots | as long as no money goes back PAID is covered and a payment shows; no more rows of a transaction than slots; every commit nobody overtook is a step of `InvoiceAccount` |
| `NotificationsRetry` | 1 job of both channels, 2 workers, 3 attempts, 1 stall, fairness | the queue implements `Delivery`; FAILED rows only after the last attempt; no second e-mail after SENT; every job ends |
| `SessionsRace` | 1 account, 3 sessions, 2 links, 2 slots, 2 passwords, 1 change of role | a live session goes back to a login with the present password; rotation and single links except among overlapping requests; new roles reach the next token |
| `BrowserTabs` | 2 tabs, 2 people, 3 pairs of tokens | a tab shows whom it acts for; no call is sent a third time, however refreshing is refused |
| `IntakeRace` | 2 tenants with a manager and an owner, 2 customers, 1 asset, 1 service request, 2 diagnoses, 2 slots | a service request stays inside its tenant, converted stays converted, audit records true |
| `PagesRace` | all 12 pages, 2 writes beside the first moment, 2 changes, 3 polls, fairness | own changes show, no spinner turns with nothing under way, spinners end where calls have a time limit |
| `BillingDuplicate` | violation | simultaneous deliveries record a payment twice |
| `BrowserRefresh` | violation | a 401 leads to the login page, not to a refresh |

**Bounds.** Two slots show every race between two requests, which is what each check and its late
write can be subject to; for any number of requests at a time there are the theorems of section 4.
One order, invoice, account or job is enough where requests for different rows share nothing; there are
several parts, orders, customers and diagnoses because there a rule relates rows (numbers, references,
unique columns). `MaxEvents` bounds the events of all timelines together; it stops new requests,
not those in flight, and 6 reaches READY_FOR_PICKUP in `WorkOrdersRace`, 7 COMPLETED in `EstimatesSerial`;
3 in `EstimatesRace` is enough for a second order and for a decision that races a send or a change of status.
`MaxYear` = 2 there puts one turn of the year between any two steps of the creations; assignments are left to `WorkOrdersRace`
(so the technician clause of `RowMatchesTimeline` says nothing in the run, and is covered by the theorem `RowsMatchTimelines`).
`MaxSends` = 2 lets a second send reopen a decided estimate (`estimates.service.ts:119` has no
precondition); `DecisionFinal` and `DecisionEffectsDecided` name that case and except it. `MaxStock` = 3
makes the 32-bit column overflow; `MaxLedger`, `MaxRevisions` and `MaxDeliveries` cap counters.
`Attempts` = 3 and `MaxStalled` = 1 are no bounds but the values of the code and of BullMQ, so with one job the
notification run is complete. Three sessions let a refreshed token be refreshed again beside another login, two
passwords (`MaxVersion`) are one reset; two resets with one link are covered by the theorem `ResetsEndSessions`. Three pairs let each of two people sign in and one refresh. `MaxNow` = 3, `MaxPresses` = 2
let another change come between the two changes of a page and their loads.
Work orders, estimates, notifications, sessions and pages stop once their bounds are reached or their jobs have
ended, so those configurations switch the deadlock check off; the others keep it on.
The type invariants of `Notifications`, `Sessions`, `Browser` and `Intake` hold in their runs
and are left out of the configurations, as is that of `Billing`; all of them are proved.

**Fairness.** `Inventory` assumes strong fairness of the steps of a request that runs: the event loop of
Node resumes every awaited call, and PostgreSQL queues the waiters of a row lock in order, so who waits for
a row that is free again and again gets it. `Notifications` assumes weak fairness of running code, of
taking a waiting job while a worker is idle, and of BullMQ's search for abandoned locks; none of
failures, crashes or stalls, which may happen at any time; the attempts and the stall count bound them.
`Pages` assumes that timers fire and that a fetch ends on the pages that use `apiClient`, which gives up after 30 s (`api-client.ts:8`); on
the two customers pages a bare `fetch` may wait for ever (`Unlimited`), so `SpinnerEnds` says nothing of them and `NoOrphanSpinner` all there is to say.
Nothing is assumed of clients.

**Symmetry** permutes slots, ids and tokens no property tells apart. Runs with liveness
properties and the refinements use none; `IntakeRace` and `BillingRace` check one action property each, which
speaks of single steps, under it.

## 4. Proofs

For every number of rows, actors, slots and workers, and every bound:

- `RepairProofs`, of the work orders alone: `TypeCorrect`, `HistoryIsLegal`, `RepairsWereApproved`,
  `HandoversWereChecked`, `EffectsAreTrue`, `NumbersStayInStep`. `HistoryLegal` alone is not
  inductive: a request in flight may append a change from whatever it has read. `HistoryInv`
  adds that the status of every order, and the `from` of every request that is moving one,
  have been reached in the order's timeline (and that the pair is valid);
  timelines only grow, so what was reached stays reached. The next two theorems
  rest on it: a legal, grounded change cannot be the first to reach a status
  under repair but from APPROVED, nor one of the hand-over but from
  QUALITY_CHECK, so a sound timeline stays sound whatever grounded event is
  appended to it (`SoundAppend`). For the effects, what a request is about to tell is in a timeline
  already (`EffectInv`); for the numbers, what a request has counted is at most one ahead of the orders
  (`NumberInv`), so no number that was ever stored is (`NotAhead`), whatever its year.
- `RepairProofs`, of the composition with the estimates: `RepairTypesCorrect`,
  `SharedHistoryIsLegal`, `DecisionsNeedSends`, with two writers of the history. The invariant adds to the one above that a stored estimate belongs
  to an order that exists, that an estimate that is SENT or decided was sent, and
  that what a request carries across an await is still true: estimates and orders
  are never deleted and timelines only grow, so a work order that was seen waiting has
  that status in its timeline for good, and the change recorded from it is grounded
  (`AppendStep`) although the order may have moved on since.
- `RepairProofs` also has `RowsMatchTimelines`: each transaction writes a row and the last
  event of its timeline together, so the agreement survives whatever was read before (`RowInv`);
  `DecisionsAreReal`: what a request found decided or on offer
  stays so unless the estimate is sent again, and two slots that are sending one estimate were
  both counted (`DecisionInv`); and, for one request at a time (`OneAtATime`), `OrdersFollowLifecycle`, the refinement of
  `WorkOrderLifecycle`, with `DecisionsAreFinal`, `ApprovalsMoveOrders` and `SentOffersStay`: then what a
  request read is what the rows still hold when it writes (`SerialInv`).
- `InventoryProofs`: `InventoryTypeCorrect`, `StockIsExplained`, `ResultStaysCurrent`,
  `AdjustmentsHappened`, `StockroomImplemented`. The
  invariant is type correctness, the ledger that adds up, and that
  a transaction between its increment and its commit holds the row lock, so
  the result it was given is the committed stock plus its quantity: each
  needs the others. The running sum is a function that is given, not a
  recursive definition, so no induction over the ledger is needed: a commit
  extends the function by one point. What an adjustment is about to record is in the ledger (`AuditInv`).
  With the result current and the part still there (`FoundThere`: rows are never deleted) a commit is a `Move` of `Stockroom`
  that starts from the stock of its own moment (`CommitMoves`), for any number of requests at a time.
- `IntakeProofs`: `IntakeTypeCorrect`, `TenantsNeverMix`, `ChangesHappened`, `OnlyStaleUpdatesUndo`.
  `OneTenant` is not inductive either: an
  INSERT refers to what an earlier statement of its request found. The invariant `Ownership` adds that every
  asset is of its customer's tenant (`AssetsOwned`) and that what a request in flight has found exists and is of its
  actor's tenant (`FindingsHold`); rows are never deleted, and nothing writes their tenant again. `StatesInv`
  says of a request in flight that it read a state the service request has been in.
- `BillingProofs`: `BillingTypeCorrect`, `OnlyOverlapsDuplicate`, `StatusesAreEarned`, `PaymentsAlwaysShow`,
  `AccountsAreKept`, `InvoicesAreAccounts`. The rows of a transaction and the requests that have passed the
  check and will insert another are, together, never more than there are requests (`OverlapInv`).
  Neither `StatusEarned` nor `PaymentShows` is inductive: a commit writes the status of a sum taken before others committed. `PaidInv`
  says of every webhook that its sum covers at least its own row, and no more than that row and what is on record, unless
  money goes back, and that an invoice it read as more than ISSUED is not ISSUED now: rows are only added and no status leads
  back to ISSUED, so both stay true while others commit. That an amount of 0 is recorded for an invoice of 0 only
  (`AmountOf`) is why even such a row shows. That a row adds its amount to the total (`TotalAppended`) needs that
  the recursive function exists and is unique (`Running`, from `SumsExist` and `SumsUnique`); both are inductions
  over the rows, made on a set of numbers: were it not all of Nat, its complement had a least element (`Induction`, from
  `WFMin`). What nobody overtook is a `Pay` of
  `InvoiceAccount` (`AccountPays`), and every other change is an `Issue` or a `Void` (`AccountStep`). With one request at a
  time all that a webhook has read is still true when it commits - the status, that its transaction is not on record,
  and the sum exactly (`SerialInv`) - so the two services then implement `InvoiceAccount` (`InvoicesAreAccounts`).
- `SessionProofs`: `SessionTypeCorrect`, `RolesAlwaysFollow`, `ResetsEndSessions`, `RotationsOverlap`,
  `ResetLinksOverlap`. Sessions and links are never deleted and only ever end. Each of the four properties speaks of
  rows; its invariant (`RoleInv`, `PasswordInv`, `RotationInv`, `LinkInv`) says the same of the requests that are on
  their way to such a row, and of pairs of a row and a request.
- `NotificationProofs`: `NotificationTypeCorrect`, `FailuresAreFinal`, `QueueKeepsPromise`, `RetriesDoNotRepeat`.
  `QueueKeepsPromise` is the refinement: initial states map to the initial state of `Delivery`, every
  step to a step or a stutter (`PromiseStep`). It needs that a processor at some channel has a SENT row for every channel
  before (`ServeInv`), even when it has lost its lock, because SENT is never taken back: the `failed` handler turns only
  PENDING rows. `FailedInv` says that this handler runs only for jobs that are over, `LoneInv`
  that a job that never stalled is served by the holder of its lock alone and has one row per channel.
- `BrowserProofs`: `BrowserTypeCorrect`, `TabsActForWhomTheyShow`, `CallsRetryOnce`. The invariant adds that tokens
  that are kept anywhere have an owner (`Issued`), that a tab whose call was refused has begun to leave
  (`RefusedLeave`), and that a call was sent twice only if it is marked `_retry` and nothing is refreshed
  for it (`SentOnce`): while new tokens are asked for, the call itself has been sent once.
- `PageProofs`: `SpinnersWait`, `OwnChangesShow`, for all twelve pages and any number of writes, changes, polls and
  failures. What the pages have in common is checked on their records first (`PagesMade`): no cell belongs to
  two loads, the loads that follow a change are those of every cell it writes, and each load that sets a
  spinner also clears it. `SpinnersWait` follows step by step (`SpinnerStep`): a step that sets the spinner begins
  such a load or starts the timer that begins one, and the end of such a load, failed or not, clears it.
  `ShowsOwnChange` is not inductive, because the fetch that will bring a change may be overtaken by a later one that
  was begun before. `OwnChangeInv` therefore asks that it is ahead of all answers so far (`Coming`), and that every
  older fetch is followed by one that is new enough, or was overtaken already (`Followed`): whichever
  fetch ends then, it shows the change, leaves one that will behind, or excuses the page.

Assumptions are those named in the modules: finite sets of ids and requests, bounds that are naturals, every job
of a known kind, marks "NONE" and "ABSENT" that are no part number, user, worker, token or transaction.
Only model-checked: the liveness properties `Answered`, `JobsEnd` and `SpinnerEnds`, because the prover decides neither
fairness nor ENABLED. Every invariant, action property and refinement of a passing run is a theorem.

## 5. What the code does otherwise than it says

The two violation runs are listed under `findings` in `PROJECT.json`, with
the lines they contradict. Other observations, all of them behaviours of the models or
reasons why something is not in one:

- Two racing updates move an order along a pair that is not in `validTransitions`, e.g. CANCELLED
  to DIAGNOSING (`work-orders.service.ts:171` checks what was read before the transaction);
  `HistoryLegal` states what remains true.
- With two requests in flight, `DecisionFinal`, `ApprovalMovesOrder` and `SentContentFrozen` fail, which is why they are
  properties of `EstimatesSerial`: a second decision overwrites the first (`estimates.service.ts:176`), an order that
  begins to wait while its approval is under way keeps waiting (`:182`), and an edit that passed the DRAFT
  check lands after the send (`:84`).
- The action of an `ESTIMATE_APPROVED`/`ESTIMATE_REJECTED` audit record comes from the request, so a repeated decision
  with the other answer is recorded though nothing changed (`estimates.service.ts:207`).
- A payment that commits after a concurrent larger one may overwrite PAID with PARTIALLY_PAID, or leave
  PARTIALLY_PAID although two halves are on record (`payments.service.ts:78`).
- An event with a negative amount, which nothing refuses, lowers what an invoice was paid; the status follows down to
  PARTIALLY_PAID only, and that of a concurrent PAID stays (`payments.service.ts:79-83`). An invoice may be issued for 0 or less.
- A service request that an update read before its conversion is taken out of CONVERTED_TO_WORK_ORDER by it
  (`service-requests.service.ts:113-118`); `ConvertedStays` excepts that update.
- Two simultaneous uses of one refresh token both succeed (`auth.service.ts:115-128`);
  `RotationOverlaps` is what remains of rotation.
- A job that fails because its lock lapsed too often has attempts to spare, so its notification stays PENDING
  (`notification.processor.ts:140`).
- `RealtimeService` carries `@WebSocketServer()` but is not a gateway, so `this.server` is undefined and
  `emitToTenant` emits nothing (`realtime.service.ts:18`); the effect of `socket-provider.tsx` runs once, so after
  a login without a reload no socket is opened either.
- `TransformInterceptor` wraps bodies that have no `data` of their own; the dashboard, the customer profile and the low-stock
  alert read them bare (`Unreadable`).
- "Send to Customer" on the order page calls `PATCH /estimates/:id/status`, the simulated payment of the
  invoices page posts to the port of the web server without the version: no route serves either (`Unserved`).
  The customers pages fetch from port 3000, the API listens on 3001; `ServiceRequestForm` goes on to a page that does
  not exist.

## 6. Not modelled

Formatting, wording, pagination and validation of requests; columns no rule depends on, and with them the
updates of assets and diagnoses; single-row CRUD of suppliers and tenants; hashing, signatures and the
contents of JWTs beyond user, tenant and role (libraries); waiting times, such as the back-off of
the queue and the expiry of tokens (an expired token is one that is not used any more); the numbers the report computes;
markup, and the forms no page renders (`customer-form.tsx`, `asset-form.tsx`); the pages for a forgotten password;
realtime delivery (section 5).
The PostgreSQL features the models rely on (row locks, unique indexes, READ COMMITTED
visibility) and the behaviour of BullMQ are modelled from how the code uses and configures them.

## 7. Plan

1. What an overtaken webhook may still do, as a step of a weaker account.
2. Suppliers and the updates of assets and diagnoses, should rules between their rows be added.
