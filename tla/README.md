# PG-EOS: a TLA+ development

PG-EOS is an ERP for a logistics company: a TypeScript monorepo whose commands
are transactions on one PostgreSQL server. What makes it right or wrong is what
those transactions do to each other: which locks they take and when, what they
read before somebody else's commit and use after it, and what survives a retry
or a crash. This directory models that, checks it with TLC on small instances,
and proves with TLAPS the part that holds for instances of every size.

Paths below are relative to `src/`.

1. [The system](#1-the-system)
2. [What is hard about it](#2-what-is-hard-about-it)
3. [The modules and the code](#3-the-modules-and-the-code)
4. [The runs](#4-the-runs)
5. [Fairness](#5-fairness)
6. [The proofs](#6-the-proofs)
7. [What is only model-checked](#7-what-is-only-model-checked)
8. [Where code and documents disagree](#8-where-code-and-documents-disagree)
9. [What is not modelled](#9-what-is-not-modelled)
10. [Plan](#10-plan)

## 1. The system

### How the parts meet

The parts meet in the database. An HTTP request becomes one command; the command
runs in `withIdempotentContext` (`packages/db`), which is one transaction under the
advisory lock of the caller's idempotency key. Inside it the command locks the row of
the document it is about (`select ... for update`), compares the version its
caller has read, asks the state machine of the document whether the event is legal,
and writes: rows of its own module, stock through the ledger's `...InTx` functions,
numbers through the definer function `next_doc_no`, its outbox event, and last its
audit row, whose trigger takes the one lock the whole system shares until commit.
Calls between modules go through functions of one process; nothing is sent over a
network except to PostgreSQL. The only other process is the worker, which reads the
outbox through its own connection and calls subscribers in memory.

So each module below describes database transactions that overlap: a *session*
runs one transaction at a time, a statement that locks, or reads what others may
change, is a step, and everything a transaction wrote appears at its commit.

### Inventory

| Part | State it keeps | Operations | What makes it correct | Modules |
|---|---|---|---|---|
| **Stock ledger** `modules/wms/src/stock-ledger` | `wms.stock_movements` (append-only), `wms.stock_balance` (derived) | post, transfer, reverse, rebuild the balance | the balance is the fold of the ledger, never negative; one expiry per batch; a location stays within its limit; no circular wait | `StockLedger`, `StockBook` |
| **Audit chain** `database/migrations/0004`, ADR-0002 | `platform.audit_log` (`chain_seq`, `prev_hash`, `row_hash`) | the insert trigger, `verify_audit_chain` | gapless, linked; the verifier accepts exactly that | `AuditChain` |
| **Command transactions** `packages/db` | `platform.idempotency_keys` | `withContext`, `withIdempotentContext`, purge | a key takes effect once in its lifetime; a stored answer is the answer of its effect | `Idempotency`, `OnceOnly`, `CommandEvents` |
| **Outbox, relay, worker** `packages/events`, `apps/worker` | `platform.outbox`; the loop's batch and stop signal | write, tick, pause, stop | published means handled by all; committed means published in the end | `OutboxRelay`, `CommandEvents` |
| **Outbound orders** `modules/wms/*/process-outbound` | `outbound_orders`, `order_lines`, `stock_balance.qty_allocated` | create, check, approve, allocate, pick, check, pack, load, cancel | reservations add up and are covered; a line is picked once; four eyes on checking; no lost update | `OutboundOrders`, `OrderBook` |
| **Inbound orders** `receive-inbound`, `schedule-inbound` | `inbound_orders`, `order_lines`, quarantine decisions | approve, schedule, receive a line, put a line away, close, cancel | statuses agree with lines; goods move once; quarantine waits for its decision | `InboundReceipts`, `ReceiptBook` |
| **Accounting periods** `modules/billing/*/accounting-periods`, 0040 | `fiscal_years`, `accounting_periods`, reopen decisions | create a year, open, close, lock, request a reopening, apply it | closed books do not change; a decision reopens once | `Accounting`, `AccountBook` |
| **Journals** `modules/billing/*/post-journal`, 0041 | `journal_entries`, lines, `platform.counters` | post, adjust, reverse | numbers without gaps; balanced entries; each reversal has one original | `Accounting`, `AccountBook` |
| **Inventory counts** `count-inventory` | `inventory_counts`, `inventory_count_lines` with the quantity of the system at the start | start, count a location, recount, read, adjust | what is adjusted is what the manager read; a quiet place ends with what was counted | `StockCounts`; the postings are jobs of `StockLedger` |
| **Space** `manage-space` | `space_allocations`, `space_reservations` | allocate, reserve, the availability check of the database | what is promised fits the block | `SpaceBlocks` |
| **Occupancy** `take-occupancy-snapshot` | one snapshot row per day and group, billable events | take the snapshot, record a billable event | a group's day is billed once, as it was stored | `OccupancyBilling` |
| **Price lists** `modules/catalog` | a list and its lines | create, edit, import, activate, expire; price a quantity | every unit is priced once, by the tier it is in; an active list does not move | `PriceLists` |
| **Contracts** `modules/sales` | contracts, SLAs, the list a contract names | create, sign, activate, suspend, resume, expire, resolve a price | an order is priced by its contract | `Contracts` |
| **Account credit** | hold and limit of an account | set, release, set the limit | a release is of the hold its officer saw | `AccountCredit` |
| **Quotes** | quotes, lines, revisions, price exceptions | create, edit, two approvals, return, send, decide, revise | what is sent was approved as it is sent | `Quotes` |
| **HR** `modules/hr` | commissions, shift assignments, employees and their documents | calculate, dispute, confirm; assign, end; register, change status | what is confirmed was reviewed; one shift a day; documents decide | `Commissions`, `Shifts`, `DriverIds`; shift groups not |
| **iMile** `modules/imile` | shipments, their audit rows, driver ids and assignments | pull, write, report; assign, suspend, restore | the audit trail is the history of the row; ids follow their holders | `PortalPulls`, `DriverIds`; DTL judgement not |
| **Fleet, TMS** | vehicles with documents, delivery tasks | register, ask whether assignable, create a task, the vehicle guard | one task per order; one verdict per vehicle and day | `DeliveryTasks` |
| **Alerts** `modules/platform` | alert rules, the alert log | evaluate, acknowledge | a rule repeats inside its window only if two evaluations overlap; a failed rule leaves nothing | `Alerts`; sites not |
| **Identity** `packages/identity`, 0044 | one-time codes, sessions | request and verify a code, revoke | a code opens one session; every wrong guess is counted | `LoginCodes`; roles and thresholds not |
| **Outbound checks** `run-outbound-checks` | none of its own | the ten conditions, in fifteen statements | the verdict is true of a moment of the run | `OutboundChecks` |
| **HTTP API** `apps/api`, `packages/api-kit`, `modules/*/api` | none | authenticate, scope, run one command, map its errors | what a client hears is so, and a command is done once and in scope | `ApiHost` |
| **PDA** `apps/pda` | screens, an IndexedDB queue, a badge | scan, submit, enqueue, suggest | what the worker was told is what is queued, once | `Handheld`; login form and kiosk not |
| Other billing: dimensions, accounts, change requests | documents with a status and a version | create, update, decide | one row each | - |
| Read models, rendering | none | queries, pure functions | - | - |
| Admin `apps/admin` | none | screens | - | - |

`PROJECT.json` lists the same parts with their files.

## 2. What is hard about it

`PROJECT.json` has forty hazards, each at the line where it bites and with the
property that covers it. They fall into these groups.

- *Read, wait, write.* Under READ COMMITTED a statement that waited for a lock
  continues with the row as it is now, but what the transaction read before stays
  as it was: candidates of `Allocate`, the load of a location, the period of a
  posting, the entry of a reversal, the version the caller sent.
- *Derived data.* The balance duplicates the ledger; `qty_allocated` duplicates
  the lines of orders; the status of an order duplicates the statuses of its lines.
- *Locks of many rows.* Balance rows, rebuild keys, locations, batches and the
  audit chain are locked by one transaction, in an order that must be the same
  everywhere. It is not everywhere (section 8).
- *Retries.* A scanner repeats, with the same key or with a new one; a client
  retries while the first attempt still runs, or after its key expired.
- *Crashes* between the statements of a command, between a subscriber and the mark
  that it was called, between claiming a key and storing the answer.
- *Several people.* One checks what others picked; one decides on what another
  asked; two closers, two reversers, two receivers of the last lines.
- *Time.* A window that closes between a decision and its statement (disputes, codes,
  validity of prices); two clocks that tell different days (`0046`, section 3).
- *Repeated batches.* A snapshot, a pull, an evaluation of alerts runs twice, or twice at once.
- *The edges of the server.* The host asks three transactions about one request, and its caller may
  hear nothing; the handheld commits a command and the screen that asked for it is gone.
- *Liveness.* Events at the head of the queue that fail for good; a deadlock
  victim; a stop signal during a tick.

## 3. The modules and the code

Every module has one action per statement that locks or reads shared state, with
the name of the function it is in; `map` in `PROJECT.json` gives the lines.
Conventions shared by all of them:

- `pc` says which statement of its transaction a session runs next; `job` holds the
  command's arguments and what it has read so far.
- A commit publishes all writes of a transaction in one step and releases its locks;
  `Rollback` (or `Crash`, `Fail`, `Throw`) drops them at any statement. A refusal by
  a rule and the loss of the connection have the same effect on the database, a
  rollback, and are one action where no property tells them apart.
- Where a transaction holds the locks of everything it is about to write, its last
  statements and its commit are one step.
- Roles, texts, document numbers of orders and other data that refuse a command
  before it writes anything are left out, unless a property is about them.

### `StockLedger`, `StockBook`

| TLA+ | Code |
|---|---|
| `ledger`, `onHand`, `expiry` | committed `stock_movements`; `qty_on_hand` and `expiry_date` of `stock_balance` |
| `moves`, `delta` | what a transaction inserted and changed and has not committed |
| `holds`, `shares` | the advisory locks (rebuild key, location, batch, audit chain) and row locks each transaction holds, exclusively or shared |
| `seen` | the ledger as a rebuild's fold statement read it |
| `BeginPost`, `BeginTransfer`, `BeginReverse`, `BeginAdjust`, `BeginRebuild` | `postMovement`, `postTransferInTx`, `reverseMovement`, `adjustCount`, `rebuildBalance` |
| `LockRebuildKeyShared` ... `LockLocation`, `CheckLimits`, `LockBatchExpiry`, `AssertBatchExpiry`, `LockBalanceRow`, `ApplyDelta`, `AuditLock`, `WriteAuditRow`, `Commit` | `postMovementInTx` from top to bottom, in the code's order |
| `LockRebuildKeyExclusive`, `FoldLedger`, `OverwriteBalance` | `rebuildBalance` |
| `DeadlockVictim`, `Crash` | PostgreSQL aborts one transaction of a cycle; a connection dies |

A balance row that does not exist is a row with quantity 0 and no expiry, since the
UPDATE and the INSERT branch of `applyLockedBalanceDelta` differ in nothing else.
`AdjustCount` posts several lines in one transaction, in any order.
`StockBook` is the abstract specification: a set of movements is booked in one step
that meets every rule at that moment. `ImplementsBook` checks that the committed
tables of `StockLedger` behave like it (`Book == INSTANCE StockBook WITH ...`), the rebuild being a
stutter.

### `AuditChain`

The trigger, in two steps: `LockChain` takes the advisory lock, `AppendRow` reads the
head and extends it. Transactions have either isolation level: under REPEATABLE READ
the head would be read from the snapshot (`Visible`), and the trigger refuses to run
(`InsertAuditRow`); a mutant without that refusal breaks the chain. A hash is the list of contents it commits to, so nothing is
assumed of sha256 but that it is injective. `Problems` is `verify_audit_chain`
applied to a table, from an anchor on.

### `Idempotency`, `OnceOnly`

`withIdempotentContext`: `TryLock` or `RefuseInFlight`, `Claim` (insert, or reclaim an
expired row), `ReadExisting`, `RunCommand`, `StoreResponse`, `Commit`; `Fail` at every
one of them. `now()` is fixed at the begin of a transaction (`began`) while `clock`
goes on. `Purge` runs at any time. `OnceOnly` is the contract towards callers, and
`ImplementsOnce` says that `Idempotency` implements it (`Once == INSTANCE OnceOnly WITH ...`).

### `OutboxRelay`

`Write` draws an id, `EndTransaction` makes the row visible or not, in any order.
`SelectBatch`, `Deliver`, `HandlerThrows`, `MarkPublished`, `RecordFailure` are
`relayOnce`; `Wake`, `QueryFails`, `Exit`, `Stop` the loop of `apps/worker`; `Crash` and
`Restart` its process. `relayOnce`'s filter on the event type is never passed by the
worker and left out; `attempts` and `last_error` are written but read by nothing.

### `CommandEvents`

`Idempotency` and `OutboxRelay` put together as a command does it: `writeOutboxEvent` gets the
transaction `withIdempotentContext` opened, so `CommandWrites` is `RunCommand` and the relay's `Write`
in one step, `EffectCommits` and `CallFails` end both with one `commit` or `rollback`, and what the
call does before and after its statements (`Around`) and the steps of the relay leave each other's
state alone. `payload` is what the row says of its command, `written` the row of an open transaction.
A command writes one event here; an event's ids are those of the sequence, so a rollback leaves a gap.

### `OutboundOrders`, `OrderBook`

One command per session: `Send` (the caller's view of the order), `LockOrder`, then
for `Allocate` one `ScanLots`/`LockLot`/`ReserveLine` per line and row, for a
cancellation `ReleaseLine` per line, and a commit per command. A scan returns the
rows its statement's snapshot qualifies; a row is read again after its lock. The
ledger is present as what it does to a row: a pick takes stock under the row lock,
`OtherPosting` is any posting of somebody else (bounded by `MaxMoves`). Of the ten
conditions of `RunOutboundChecks` only stock sufficiency is state of this model; the
others are the choice between passing, `credit_rejected` and a rollback here, and read one by
one in `OutboundChecks`.

`OrderBook` is what a reader of the committed rows may count on, without sessions, plans or locks:
every command is one step on one order, from a status it may start from, and raises the version by one. An
allocation plans every line of its order at once, from goods the row still has beyond what all open lines
are promised; a pick is the first of its line and takes what is there; a checker picked nothing. What is
promised of a row is stored nowhere in it but added up from the lines, and that `qty_allocated`
stands for the sum is what `ReservationsAreExact` says. `ImplementsOrders` says that the rows of
`OutboundOrders` behave like this book.

### `InboundReceipts`, `ReceiptBook`

`LockOrder`, the guards of the command, and its commit. `Route` is the choice of the
location (`pickRcvLocation`, or quarantine when the remaining shelf life is short),
`Found` the receiving location a put-away takes the goods from, which the code looks
up by stock and not by line. Whether a receipt is `short` is a free choice: the same
batch may be judged without an expiry date, or on another day. `Decide` is the
decision inbox, not in the repository yet, so external.

`ReceiptBook` is what a reader of the committed rows may count on: a line arrives once, with its
goods at one place and a decision open exactly if that is in quarantine; whoever brings the last line makes
the order received, with one GRN unless nothing came; a line is put away once, whole, from a receiving
location that has the goods; an order is closed or cancelled by what its lines are at that moment.
`ImplementsReceipts` says that the rows of `InboundReceipts` behave like this book.

### `Accounting`

Years, periods and journal of one entity; entities share nothing. A posting reads its
period (`PostJournal`) and the entry it reverses (`ReverseJournal`) without a lock,
draws its number (`TakeNumber`, which keeps the counter's row locked until the end and
so serialises an entity's postings), inserts the entry (`InsertEntry`, whose trigger
locks the period FOR SHARE and reads its status again), marks the original
(`MarkReversed`) and commits (`CommitPosting`, where the deferred check of the balance
runs). Closing, locking, requesting and applying a reopening lock the period FOR UPDATE.
Lines are the net amount per account. Manual journals are refused by the code without
exception and are absent.

`AccountBook` says what a reader of the committed tables may count on, without sessions, locks
or readings: a posting is one step that finds its period open, its day in the period, its lines
balanced and the entry it reverses unreversed at that very moment and takes the next number; a
period turns from the status it has; a reopening is of the closing it was asked for, by an
approver who did not ask. `ImplementsBooks` says that the tables of `Accounting` behave so.

### `StockCounts`

Every command but `StartCount` holds the count's row lock from its first statement and is one
step; the snapshot of `StartCount` is one unlocked `SELECT`. `Movement` is a posting by somebody
else between any two of them. Lines have no version and counting one does not raise the version of
its count, so `ReadCount` keeps what the manager had on the screen. The ghost `quiet` is the set
of lines whose place nothing else moved since the snapshot: only those end with what was counted,
the others are corrected by the difference to the stock of the start (`AdjustsQuietLines`).

### `SpaceBlocks`

`ReserveSpace` and `AllocateSpace` lock the block's row (`GetBlock`), ask
`wms.check_space_available` (`CheckSpaceAvailable`, which adds up what is committed then) and
insert. `CheckedUntil` is `coalesce(p_to, p_from)`: an allocation without an end is checked for its
first day. `SoldWithinTerms` is what holds in spite of it, `SpaceNotOversold` what does not.

### `OccupancyBilling`

A run reads occupied pallets, then contracted ones (`GetOccupied`, `GetContracted`; `ChangeSpace`
may come between), upserts group by group and inserts billable events. A group whose row another
run has inserted but not committed makes it wait, one that is committed is skipped, and a row that
another source has billed is not billed again.

### `PriceLists`, `Contracts`

`PriceLists` is the life of one list (`validateTierLadder` on every write, activation, expiry),
`getPriceListLines`, which asks for the lines in `KWD` in the order of their tiers (`PricedLines`), and
`computeTieredPrice`, compared with what each unit costs in the tier it is in (`PricesAddUp`). `Contracts` has
the five state changes of a contract, the list it names, SLAs, and the two queries that choose a
contract for a date: they filter and break ties differently and must agree unless two contracts
begin on one day. `FindPriceList` may find an internal list, whose lines price nothing.

### `Quotes`, `AccountCredit`, `Commissions`

Documents of several people. `Quotes` has lines, the margin computed from the cost of the moment,
two approvals, the return to draft, revisions and price exceptions; `approvedAs` remembers what was
approved, by which role. `AccountCredit` compares a release with the hold its officer read.
`Commissions` reads, decides and updates by version without a row lock, so a dispute, a
confirmation, a recalculation and the clock meet in any order.

### `LoginCodes`

`RequestLoginOtp` looks the user up, takes the advisory lock of the address (`ClearRequest`), asks
whether it may issue and issues a code that supersedes the earlier ones; `VerifyLoginOtp` locks the
live codes (`LockCandidates`) as a function that runs as definer, refuses (and counts) or accepts.
The instant of a verification is read before the lock is waited for.

### `Alerts`

One transaction per evaluation, a savepoint per rule: a rule queries its entities, looks up for
each when it last fired, and writes unless that is within its window. The audit lock is taken by
the first alert and kept to the commit. Two evaluations that overlap may both fire; two that follow
each other never do.

### `PortalPulls`, `DriverIds`, `Shifts`

`PortalPulls` fetches the portal's whole answer first, any records in any order, one tracking number
perhaps several times, then takes record after record: find, and write if the row is still as it was
read; a cycle that finds another version is rolled back whole. A number that comes again is found as
the cycle itself left it.
`DriverIds` checks the employee and the id without a lock; two partial unique indexes and a
guarded update judge at the write, and two triggers close assignments when an employee leaves and
an id is suspended. `Shifts` checks without a lock too; the exclusion constraint judges.

### `DeliveryTasks`

`SendCreateTask`, `LockOrder`, `NextTaskNo`, `CommitTask` are `createDeliveryTask`; `AdvanceOrder` is
the warehouse. The verdict on a vehicle's documents is computed three times in the code, at
registration, on request and in the trigger of migration 0046, each with its own date
(`KuwaitDate` of an instant); `VehicleVerdictsAgree` says that they tell the same.
Nothing sets a task's vehicle yet; `AssignVehicle` is the update the trigger guards.

### `OutboundChecks`

The ten conditions in the order of `CheckOrder`, each read by a statement or two; conditions 4
to 6 judge the SKU row read before condition 3, condition 9 what `ReadPriceLine` found before it looked
for an exception. Between any two of them the SKU, the contract and its end, the credit, the limit, the
price's line, an exception or a lot may change (not the address: the order's row is locked). `everFailed` and
`everHeld` remember what was so at some moment of the run.

### `ApiHost`

A request is checked in one transaction (`Receive`), scoped in a second (`ResolveEntity`) and run in
a third under its key (`BeginCommand`, `CommitCommand`, `RefuseCommand`, `FailAttempt`), while
the session ends, the user is deactivated and entities are granted and withdrawn. `Mounted` holds
the error table of every handlers file, a set of pairs of a class of error and the status it is
mapped to; a class that is in no pair is answered 500. `ScopeAllows` is the row-level security that the third
transaction meets.

### `Handheld`

Five screens with the state machines of `apps/pda`, one submission after another: a verdict of the
server, then a command in IndexedDB, then the answer to a screen that may have been left
(`Unmounted`) or the reload of the whole page. `Hears` says whether a submission's answer still finds
the form it came from.

### `MCServices` and `MCOutboxRelay`

The modules of this list (with them `AuditChain`, and `Idempotency` as part of `CommandEvents`) share no state with each other,
so one run checks seventeen of them: `live` picks one, it moves, the others rest. A component that does
not move starts in one of its initial states only (`Resting`), so the state space is the sum of the
seventeen and not their product. This is a way to run them and not a composition: a property of one
of them says nothing about another. The properties of several are conjunctions of theirs
(`DecidedAsRead`, `FieldWorkIsConsistent`, `OrdersFollowTheContract`, `AccessIsBounded`); they are
defined in `ServicePromises`, which the runs and the proofs share. In the same
way `MCOutboxRelay` runs `Alerts` and `Handheld` beside the relay.

## 4. The runs

The sizes are distinct states. `MC<module>.tla` gives the constants that need a
definition; symmetry (of sessions or expiry dates) is declared only in
runs without liveness properties.

| Run | Instance | States | Question and answer |
|---|---|---|---|
| `stock_safety` | 2 sessions × 2 transactions, 1 SKU, 2 locations (one a shelf with limit 2), 1 batch, 2 expiry dates, every command, counts of 2 lines| 862,489 | Do balance, expiry and capacity stay right under every overlap, crash and victim, do the tables behave like `StockBook`, and do only counts of several lines wait in a circle? Yes. |
| `stock_liveness` | 2 sessions × 2, counts of 2 lines, rebuilds, fair | 180,417 | Does every transaction end, also those that deadlock? Yes. |
| `stock_deadlock` | 2 sessions, counts of 2 lines | violated | Do counts of several lines avoid a circular wait, as the comments say? No (section 8). |
| `outbox_relay` | 1 relay, 3 events (one poisoned), 2 subscribers, batches of 2, 3 faults, fair; apart from it the alerts and the handheld | 695,699 | Is nothing lost, invented or delivered again once published, and is every other event published? Repeated alerts, failed rules, acknowledgements? Does the handheld queue what it told? Yes. |
| `outbound` | 2 orders, 3 lines, 3 rows (one in quarantine), 2 sessions, 1 posting by others | 3,127,599 | Reservations, picks, four eyes, lost updates: right? Do the committed rows behave like `OrderBook`? Yes. |
| `outbound_reserve` | the same | violated | Does what is reserved stay on hand? No (section 8). |
| `inbound` | 2 orders, 3 lines, 2 batches, 2 receiving, 1 quarantine, 1 storage location, 2 sessions, 1 posting by others | 1,915,017 | Do statuses and stock agree with the lines, and does quarantine hold per line? Do the committed rows behave like `ReceiptBook`? Yes. |
| `inbound_batch_hold` | the same | violated | Does quarantine hold for the whole batch? No (section 8). |
| `accounting` | 1 year, 3 periods (two adjoining, the third overlapping both), 2 sessions, 3 entries, 1 decision, version up to 4 | 1,012,507 | Cut-off, numbering, reversals, reopening: right? Do the tables behave like `AccountBook`? Yes. |
| `services` | seventeen components (one of them `CommandEvents`), each with 2 sessions (the audit chain 3) and the bounds of `Services.cfg` | 922,313 | Does each keep its own property under every overlap? Yes. |
| `space_oversold` | 2 sessions, 1 block of 2, 3 days, up to 3 rows | violated | Is no space sold that does not exist? No (section 8). |
| `id_suspension` | 2 dispatchers, 2 employees, 1 driver id | violated | Does a suspended id have no open assignment? No (section 8). |

Why the bounds are enough to meet the interesting cases:

- Two sessions overlap in every way two transactions can; a third adds something only
  where three can form a queue (the audit chain).
- Two transactions per session make a stale reading possible: one session ends and
  begins again while the other is between two statements.
- The shelf limit 2 makes two put-aways fit one by one but not together; two expiry
  dates can contradict; one SKU and batch at two locations share a batch lock but no row.
- Three lines over two orders give an order with two lines, so that the last line can
  be received or picked by either session, and two orders that compete for a row. Three
  rows give a line a choice and one row that must not be chosen.
- One key suffices since every call takes the lock of its own key only, and a lock that
  two keys share can only refuse more. A lifetime of 1 and a clock up to 1 leave room for
  a call that began before the expiry and claims after it.
- Three events in batches of two leave one behind; one poisoned event fills half of a
  batch. With as many poisoned events as a batch holds, nothing else is ever selected;
  that is why `EventsGetPublished` (in `RelayGetsThrough`, with `StopEnds`) demands fewer of them than `Limit`.
- Commands and events: two callers of one key with a lifetime of 1, two requests, two event ids and one
  subscriber: a retry after a rollback, a replay, and a second effect
  after the expiry, with its event. Rows that commit in another order than their ids are in
  `outbox_relay`, where a relay that went on after the last published row (a mutant) loses one; so are the faults
  of the relay, of which only a stop is taken here (`EventsInvariant` and `RowsFollowEffects` prove the rest for any number).
- Three entries: an original, its mirror, and an attempt to reverse either again.
- Space: a block of 2 and quantities 1 and 2 let two sellers each fit but not both; three days
  let a row begin after another's first day. A third row is needed to oversell.
- Occupancy: two groups, so that a run is between them when another commits; one change.
- Price lists: fifteen sample lines give adjoining, open, bounded and overlapping tiers, free
  units, two currencies, prices below the floor; quantities 0 to 4 hit every bound exactly.
- Quotes: two prices around the floor, two costs around the margin that needs the general manager; two
  quotes of at most one line each, so that one can be the revision of the other.
- Contracts: a list of the account, a standard one, and an internal one of the account's segment, which
  hides whatever the segment has.
- Portal pulls: one tracking number, two values, two cycles; answers of up to two records, so one answer
  may insert a shipment and change it again; three versions of it and three reports of health let a third
  cycle follow on two that overlapped.
- Login: one attempt allowed and three codes make the last attempt, a superseded code and the hour's
  limit reachable. Commissions: a window of one hour and a clock up to two lets it close in between.
- Checks: every pair of fourteen defects, one change of the facts during the run: of stock, a block, the
  SKU's state and minimum life, the contract and its end, the credit, the limit, the exception or the
  price list's line, which is read by a statement of its own before the one on the exception. The
  verdict on shelf life is held against the minimum the run has read.
- Host: two attempts of one request (the retry), two entities, one change of scope; every form of
  request, by every user, for a use case that reads, one that writes and one that is not built; the
  plain one of a user who is allowed it (at first) for all others.
- Handheld: three submissions, two visits: a submission outlives the screen and the next one meets
  its answer.
- Delivery: two clerks and two orders of one entity, which compete for an order and for its
  numbers, an instant between midnight in Kuwait and midnight in UTC.

Every property is also run against a changed definition of the code (`mutants` in
`PROJECT.json`), which it must refute: a lock not taken, a guard dropped, an order of
statements swapped, a stale value used. The mutated definitions stand before the originals in the
modules, under the comment `A mutant of ...`; a property that is a conjunction has a mutant of
the part it is likeliest to lose, often several.

`CHECK_DEADLOCK FALSE` is in every configuration because the bounds on transactions,
events, entries and days let a system stop when they are used up.

## 5. Fairness

- `StockLedger!FairSpec`: strong fairness of `Step(t)` for each transaction `t`. A
  transaction whose statement can run does run; PostgreSQL queues the requests for a lock,
  so one that becomes available again and again is granted in the end (strong, not weak,
  fairness: the lock may be taken by others in between), and it picks a victim in every
  cycle. Nothing forces a session to start a transaction.
- `OutboxRelay!FairSpec`: weak fairness of `Tick(w)` and `Restart(w)`. The event loop runs
  the next continuation, a query or a handler settles, and a supervisor restarts the
  process. `Stop`, `Crash`, `QueryFails` and handler errors are never required to happen; the
  number of faults is bounded, since with infinitely many nothing can be promised.

The other specifications have no fairness and no liveness property: a command that does
not end is rolled back by the server and leaves nothing, and nothing in the code sends the
handheld's queue or repeats an unanswered request by itself.

## 6. The proofs

The proof modules extend the components' modules and TLAPS. They assume the named
assumption on the constants (`StockConstants`, `ChainConstants`, `TasksAssumption`, ...) and nothing
else, so they hold for any number of sessions, documents, lines, rows and values; TLC evaluates
the same assumptions in the runs. Where a sum is taken over a table, the assumption says that the keys
of the table are finitely many: balance rows, lines, locations, slots of a reservation; the orders of
`DeliveryTasks`, which number tasks, are finitely many too, and not none. The lines of an outbound
order are numbered apart, as a unique key keeps them. The others are on sentinels: a date no check
reaches, a list, a payload or a count that stands for none.
`NoRedelivery` and `DeliveryInOrder` assume in their statement
that there is one relay, which is how the worker is deployed.

A theorem is about the specification of one component, or of two side by side
(`CommandEvents`); those over `ServicePromises` have the specifications of several components
as their hypothesis, which share no variable. `RunIsOfParts` carries them to `SpecServices`, the
specification the run `services` checks.

| Module | Theorems | The inductive invariant, and why it is needed |
|---|---|---|
| `StockLedgerProofs` | `StockInvariant`, `StockTypeCorrect`, `StockLocksExclude`, `StockNeverNegative`, `BatchHasOneExpiry`, `LedgerExpiryKept`, `ExpiriesAgree` | Locks exclude each other; a transaction past a lock statement holds that lock; a drafted change is under the lock of its row; the expiry a draft carries was agreed with all rows of the batch and the batch's lock is held since; a reversal names a ledger row. Without the last two, a commit could bring an expiry that was right when it was read. |
| | `StockBookInvariant`, `BalanceAlwaysFold`, `QuantitiesBounded`, `RebuildKeepsBooks`, `LedgerImplementsBook` | `BookInv`, on top of the first: what a transaction has drafted on the balance is the fold of what it has inserted into the ledger, and what a rebuild has read is still the ledger of its keys, which it holds exclusively. The commit then moves both tables by the same sum, and the rebuild overwrites a quantity by itself. `LedgerImplementsBook` maps a commit to one booking of `StockBook` that meets every rule at that moment, and every other step to a stutter. |
| | `CirclesAreOfCounts` | `LocksInOrder`: a transaction of one posting holds only locks that come, in the order of `postMovementInTx`, before the one it asks for. Along a circle of such transactions that order would rise for ever; so one of them counts several lines. |
| `EventProofs` | `RelayInvariant`, `NothingLost`, `NothingInvented`, `NoRedelivery`, `DeliveryInOrder` | Every row of a batch is committed, and the row in hand was handled by all subscribers before the next one. |
| | `AlertsStaySound` | An evaluation knows the committed log as of its reading, takes its rules one at a time, and a rule that failed has none of its rows among those written; an alert is acknowledged once, after its commit. |
| | `HandheldKeepsItsWord` | A submission's claim is on a scan: at most one that is alive has any scan, none has what a form that still listens holds, and the last count under way is of the queue as it is now. Without the claims, a late answer could clear the form of another scan. |
| `SumLemmas` | lemmas | What a sum over a finite set does when the set or the function changes in one place, is split, or is compared. The induction they need is on the least size of a counterexample, which asks for no induction theorem. |
| `CommandProofs` | `IdempotencyInvariant`, `OneEffect`, `AnswersAndEffectsAgree`, `Implementation` | Locks exclude, drafts belong to claims, a row that was forgotten had expired and a claim leaves a live row alone. `Implementation` maps every step to a step of `OnceOnly` or a stutter. |
| | `CommandsAreKeys`, `EventsInvariant`, `CommandsDriveRelay`, `HeardHasHappened` | Of `CommandEvents`: the composition implements `Idempotency` and `OutboxRelay`, so what is proved of either holds of it; an open row belongs to one transaction past its command, with its key and request, and a committed row has its effect. |
| | `RowsFollowEffects` | The rows of a key were drawn in the order of its effects, and an open row is the last of its key: no effect has two rows and none has none. |
| | `ChainInvariant`, `ChainAlwaysIntact`, `ChainVerified` | One transaction owns the chain, and its drafts continue the committed log; this is what makes the commit of several rows a continuation. `ChainVerified`: `verify_audit_chain` reports nothing of such a log, and a row of it that is edited, removed (but the last) or doubled. |
| | `RunIsOfParts` | The seventeen parts of `MCServices` share no variable and one moves at a time, so a behaviour of the run is a behaviour of each part: what `ServicesProofs` shows of a part holds of the run. |
| | `ServicesTypesStay` | The types of every part, with what its invariant does not yet bound: a quote's totals are the sums and margins of its lines; a delivery order's version counts its moves and its task; the tasks of an entity are numbered without a gap and each is of an order of its own, so no number exceeds the orders (an injection, and its cardinality); the error classes the host names are those its handlers files list. |
| `OutboundOrdersProofs` | `OutboundInvariant`, `PickedOnceAndChecked`, `NoUpdateLost`, `AllocationsCovered` | Two commands never hold one order or one row; what a command found after locking the order (status, version, pick of the line) is still so when it commits; the rows it chose are locked. |
| | `ReservationInvariant`, `ReservationsExact` | `ReserveInv`: lines of an order not yet allocated reserve nothing, those of one not yet being picked are not picked, and what a command is about to change on a row is the sum over the lines it has dealt with. Then `qty_allocated` is the sum of the open reservations, and the status of an order agrees with all its lines. |
| | `OrdersImplementBook` | On top of both, `PlansFit`: the rows a command has left to choose from are for the line at hand, and what it plans for a line is of its goods and no more than was ordered. At the commit of an allocation its own plans are then what it adds to the sum of the open lines, which `ReserveInv` knows to be `qty_allocated`, and the locks have kept that within the stock. A commit is one command of `OrderBook`, another's posting a posting, every other step a stutter. It needs the lines of an order to be numbered apart, as the unique key of `order_lines` keeps them. |
| `InboundReceiptsProofs` | `InboundInvariant`, `OrdersMatchLines`, `MovedOnceWhenDecided` | The same for inbound orders, and a line without goods is done. |
| | `StockIsAccounted` | Inductive once the first invariant is known: what lies at each place is what lines brought there and others moved. |
| | `OrdersImplementReceipts` | By the first invariant, what a command found under the lock of its order is so at its commit, an order that is receiving has no GRN yet, and a line that may be put away came with goods. So a commit is one command of `ReceiptBook`, and every step before it a stutter. |
| `AccountingProofs` | `AccountingInvariant`, `ClosedBooksStay`, `JournalStaysSound`, `ReopenedOnce` | Who holds the counter has drawn the next number and the entry it reverses is unreversed; who holds a period FOR SHARE finds it open, who holds it FOR UPDATE finds the status and version it read. Without it the unlocked readings at the start of a posting would say nothing at its commit. |
| | `AccountingImplementsBooks` | By the same invariant, what a posting or a command on a period was told by its readings is so when it commits. So the commit of a posting is one booking of `AccountBook`, a change of a period one turn, and a step before the commit a stutter. |
| | `PricesAlwaysAddUp` | The lines of a list are finitely many and in one currency, and once it has left the draft its ladders are what the validator accepted. The rest is about the operators: valid lines sorted by their tiers are a ladder without a gap, no unit is in two tiers, and one unit more costs what its tier charges for it (`TotalOneMore`). |
| `ServicesProofs` | `PullsReplay` | A row a cycle has written is its alone and as it read it; what it has read without a lock is still so if the version is. |
| | `SnapshotsBilledOnce` | A group's row belongs to one run until its commit, and there is no committed one before. |
| | `ShiftsDisjoint` | The property is inductive with the types. |
| | `LoginByCode` | Who compares a code holds the locks of the live rows and finds them unconsumed with an attempt left; every refusal was counted; earlier codes are consumed. |
| | `TasksFollow` | What a clerk found of an order it has locked is still so; a verdict is what the vehicle's documents, which do not change, say of its day. |
| | `RequestsKept` | A write has its key to itself while it works, and the key is answered when, and only when, it was done. |
| | `IdsFollow` | A row is closed before its id, or its employee, has another one; otherwise closing by employee or by id could close a later row. |
| | `SoldAsChecked` | Who has checked a block holds its lock, so what the check added up is still all there is at the insert. |
| | `DecidedOnTheRow` | Of counts, commissions, quotes and credit: a reading that carries the version the row has now is of the row as it is now; what was reviewed, approved or adjusted is recorded with that version. |
| | `FieldWorkAgrees` | `ShiftsDisjoint`, `IdsFollow` and `TasksFollow` together. |
| | `OrdersPricedAndChecked` | Of contracts: one that is active or suspended has a list, since only `ActivateContract` leads there and no command takes a list away; the two queries then choose alike. Of checks: the conditions passed so far held at some moment of the run, and the one a verdict names failed at one. |
| | `AccessIsEarned` | `LoginByCode`, and that who cleared a request holds the lock of its address until its code is stored, so codes are spaced; `RequestsKept`, and that an answer tells what became of the request; and that every class of error a use case throws is named by its handlers file, but the one of section 8. |

Each follows one pattern: the initial states satisfy the invariant; a lemma per action (or group
of actions that differ in nothing the invariant mentions) shows that it is preserved; the
property follows from it, or for an action property from it and the step; a temporal
step combines them. Every inductive invariant was checked by TLC on the run's instance before it was
proved; a run lists the property only. (The bounds `ServicesTypesStay` adds to the invariants of
the parts were proved directly: TLC had checked the types they lead to.)

## 7. What is only model-checked

- *Liveness:* `EveryTransactionEnds`, `RelayGetsThrough`. They need ENABLED and fairness, which are
  out of the prover's reach.
- *The constants of the runs:* that the sample tables (lines of price lists, entities and
  windows of alerts, the mounted tables of the host) meet the assumptions.
- *The findings* of section 8 are counterexamples and need no proof.

The other way round, four things are in no run but in a theorem: two relays at a time (`outbox_relay`
has one; `NothingLost` and `NothingInvented` hold of any number), several decisions of one closing (`accounting`
has one; `ReopenedOnce`), faults of the relay around a command's events (none in `services`;
`RowsFollowEffects`), and quotes of several lines (`DecidedOnTheRow`).

## 8. Where code and documents disagree

- **A count with several lines can deadlock** (`stock_deadlock`). `adjust-count.ts:80` posts
  its lines one by one in one transaction, each posting taking its own balance row after the
  audit lock of the one before. `post-movement.ts:199-202` says that callers must take all
  balance locks up front and in sorted order, and
  `modules/wms/infrastructure/count-inventory/repository.ts:19-21` that no row lock comes after the
  audit lock. PostgreSQL resolves the cycle by aborting one
  of them, so nothing is wrong in the tables, but a count or a posting fails.
- **Reserved stock can be taken away** (`outbound_reserve`). No posting looks at
  `qty_allocated`; a put-away, a count or a reversal lowers `qty_on_hand` below it.
  `docs/notes/SCR-WMS-OUT-01` states `qty_allocated <= qty_on_hand` as an invariant enforced
  in the domain layer.
- **Quarantine is per line, the rule per batch** (`inbound_batch_hold`). `confirm-putaway.ts:84`
  asks for an open decision on its own line. D-211 refuses every movement of the batch.
- **Space can be sold twice** (`space_oversold`). `wms.check_space_available` adds up an interval
  from `p_from` to `coalesce(p_to, p_from)` (`database/schema/13B-Schema-Reference-Consolidation.sql:2115`),
  so an allocation without an end is checked for its first day only: one reservation of the
  later days before it, and both fit. Line 4799 of the same file says of the trigger: no sale of
  space that does not exist.
- **A suspended driver id can keep its holder** (`id_suspension`). When an employee's service ends,
  `13-Schema-Additions.sql:401` frees every id the employee ever held, also one that somebody else
  holds by now. A suspension of such an id finds it `available` and closes nothing, though the
  comment at line 415 says that suspending an id closes its assignment at once.

Seen while modelling, without a run: the ledger's `NegativeStockError` can reach
`pickLine` and `confirmPutaway`, and the handlers of `process-outbound` and `receive-inbound` do not name
it, so it is answered 500, though `modules/wms/api/process-outbound/handlers.ts:118` says that they
map every typed error the use case can throw. `RefusalsAreNamed` exempts that class.

## 9. What is not modelled

- Queries, pure functions and screens: read models, rendering of documents, the admin application,
  the handheld's login form and kiosk mode, `rbac.ts` and `thresholds.ts`.
- Single documents with a status and a version that nothing else depends on: dimensions, the chart
  of accounts and change requests of accounts; sites, SKUs, shifts and shift groups.
- `EvaluateDtlProblem` and `ReportAgentHealth` of iMile: one row, judged by fixed criteria. Routes
  have no command yet, and `wms.convert_reservation` is called by nothing.
- Row-level security except as `ScopeAllows` of `ApiHost`; the validation of input and the roles
  that refuse a command before it writes, except where the host's answer is the subject.
- Quantities are small numbers; `numeric(14,3)` does not wrap, a value out of range is an
  error and a rollback.
- Partition detachment of the audit log appears only as the verifier's anchor.
- PostgreSQL itself: that locks exclude, that a statement under READ COMMITTED sees what is
  committed when it starts, that a commit is atomic. These are the definitions `map` marks as
  external, with the portal of iMile, the decision inbox and the sources of alert rules.
- The order in which `Allocate` and `CancelOutbound` lock balance rows: `OutboundOrders` lets a
  transaction roll back at any time, as a victim of a deadlock does, and no property is about the circles
  they could form. `NoCircularWait` and `EveryTransactionEnds` are about the ledger's locks.
- Fractions of a unit in a price. A quantity above the last tier of a bounded ladder is free in the code;
  `PricesAddUp` counts it as free and would not object.
- One warehouse and one client at a time, and one entity except where scope is the subject: rows
  of another one are never touched.

## 10. Plan

Modelled in this order: ledger, audit chain, command transactions, relay, outbound, inbound,
accounting; then the components of `MCServices`, then the composition `CommandEvents`. What is left,
in order of weight:

1. Composition: `OutboundOrders` and `InboundReceipts` over one `StockLedger` instead of a row's
   quantity; the verdict of `OutboundChecks` against what `Allocate` still finds. The state spaces of
   the parts forbid it at the present bounds, so it needs coarser ledger steps, which
   `ImplementsBook` would justify. Callers of two keys in `CommandEvents`.
2. Dimensions, accounts and their change requests (a decision inbox, as in `Accounting`), sites.
3. Proofs for what item 1 and 2 add. For the modules there are now, section 7 lists what is left to
   TLC, which is liveness.
