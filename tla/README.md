# UltrERP in TLA+

This directory specifies UltrERP's own logic: stock and reorder alerts, orders
and the invoices they produce, payments, electronic-invoice submissions,
approvals, customers, supplier orders, the reports and the sales intelligence
computed from them, the import from the legacy system, and two pieces of the
frontend that keep state across awaits. The specifications are written from the
code under `src/backend` and `src/src`, checked with TLC on small instances, and
partly proved with TLAPS for every value of their parameters.

UltrERP's backend is a FastAPI application over PostgreSQL. Almost everything
that is hard about it has one cause: requests run concurrently, each in a
database transaction of its own under READ COMMITTED, and a service computes in
Python what it writes back as an absolute value. Whether that is right depends on
which rows a service locks, in which order, and what it reads without a lock.
The second source of difficulty is that the same fact (what an invoice still
owes, what kind of customer somebody is, what a product costs) is worked out
again by a query of its own in every place that shows it.

## The system and its parts

| Part | Code | State | Operations | Module |
|---|---|---|---|---|
| Stock ledger | `domains/inventory/services.py` | `inventory_stock`, `stock_adjustment` | adjustment, transfer, reservation of an order, supplier receipt | `StockLedger`, promise: `StockMovements` |
| Reorder alerts | `_check_reorder_alert`, `acknowledge_/snooze_/dismiss_alert`, `update_stock_settings` | `reorder_alert`, reorder point | run in every stock change; requests of people | `ReorderAlerts` |
| Reorder points | `domains/inventory/reorder_point.py` | stock settings | preview and apply, PATCH, while sales and deliveries go on | `ReorderPlanning` |
| Product page | `get_stock_history`, `get_product_detail`, `get_monthly_demand` | none | pages of several statements | `ProductPage` |
| Unit costs | `_resolve_latest_unit_cost`, the backfill of `domains/invoices/service.py` | `invoice_lines.unit_cost` | issue, backfill in batches, purchases | `UnitCosts` |
| Orders, invoice issue | `domains/orders/services.py`, `domains/invoices/service.py` | `orders`, `invoices`, `invoice_number_ranges` | create, confirm (issues the invoice and reserves stock), status changes, invoices without an order | `Orders` |
| Supplier orders | `create_/receive_supplier_order`, `update_supplier_order_status` | `supplier_order(_line)` | create, receive, status | `SupplierOrders`; stock side in `StockLedger` |
| Payments, void | `domains/payments/services.py`, `void_invoice` | `payments`, status of `invoices` | record, record unmatched, match, confirm a suggestion, reconcile, void | `Receivables`, promise: `AccountsReceivable` |
| Reports | `domains/reports`, `domains/dashboard`, summaries of invoices and customers | none | queries | `ReceivableReports` |
| Customers | `domains/customers/service.py` | `customers` | create, versioned update | `Customers` |
| eGUI submissions | `domains/invoices/service.py`, `enums.py` | `egui_submissions` | first read creates, refresh advances | `EguiSubmission` |
| Desktop eGUI monitor | `lib/desktop/eguiMonitor.ts`, `DesktopTrayController.tsx` | `localStorage` | poll and notify, remember, change of user | `EguiMonitor` |
| Approvals | `domains/approval/*` | `approval_requests` | request by an agent, list (expires), approve (executes), reject | `Approval` |
| Product analytics | `domains/product_analytics/service.py` | `sales_monthly` | monthly refresh, read | `SalesMonthly` |
| Sales intelligence | `domains/intelligence/service.py` | none | queries; answers of several transactions | `SalesInsight` |
| Revenue chart | `get_revenue_trend`, `useDashboard.ts` | the hook's state | pages, change of period, late answers | `RevenueTrend` |
| Legacy import: staging | `domains/legacy_import/staging.py` | raw schema, `legacy_import_runs` | stage, fail, retry, be killed | `LegacyStaging` |
| Legacy import: the rest | `normalization.py`, `mapping.py`, `canonical.py`, `ap_payment_import.py`, `validation.py`, the review commands | normalized tables, mapping, canonical tables, runs, holds | normalize, map, review, import, validate | `LegacyPipeline`, `LegacyRecords` |
| Payment references, settings, purchases, LINE webhook, MCP server, authentication, users, audit, artifacts, AEO, health, the rest of the frontend | | | | not modelled, see the end |

How the parts interact:

* A confirmation (`confirm_order`) takes the order, the number range and the
  stock rows in one transaction; the stock changes it makes emit
  `StockChangedEvent`, whose handler judges the reorder alert in the same
  transaction (`common/events.py` calls handlers synchronously).
* An approved request executes `create_stock_adjustment` in the transaction of
  the resolution.
* Payments and voids meet at the invoice row, which both lock; reconciliation
  meets them without locking the payments it reads. The reports read the same
  rows without any lock.
* The first read of an invoice creates its eGUI submission; the desktop's monitor
  and the open page of the invoice refresh it, and both write `localStorage`.
* Intelligence reads orders directly and, for closed months, the table the
  monthly refresh fills.
* The commands of the import share the staging schema, which one batch at a
  time can use, and each reads what the others have committed.

What is hard: two requests on the same row; a value checked before a lock and
used after it; rows locked in opposite orders; the second half of a request
failing after the first; a person's request overwriting a newer row
(SQLAlchemy sends the columns that changed, whatever the row says by then);
sums over one table that must agree with the status in another; answers put
together from several transactions; answers to an aborted request; a copy
written back after an await; an import killed half-way.
`PROJECT.json` lists every such hazard at its line, with the properties that
cover it.

## The database as the services use it

`RowLocks` states what the services rely on and is external to the repository.
A session (`get_db`) is one transaction at a time; `SELECT ... FOR UPDATE`,
`UPDATE` and `INSERT` take a row until commit or rollback and wait for a holder;
plain reads see committed rows; a cycle of waiting sessions loses one of its
members to the deadlock detector. On top of it each module models these facts
where they matter:

* an INSERT waits for another session inserting the same unique key and fails if
  that one commits (stock rows, alerts, submissions, business numbers);
* a `FOR UPDATE` query decides which rows it wants in its snapshot and, after
  waiting, re-checks only the locked row, not its subqueries (`Receivables`);
* an UPDATE writes the changed columns of an object that may have been read long
  before (`Approval`, `EguiSubmission`, `ReorderAlerts`, `ReorderPlanning`,
  `Customers`);
* the check of a foreign key shares the referenced row, hence waits for whoever
  has it FOR UPDATE (`Orders`). `models.py` declares a key from `invoices.order_id`
  to `orders` that the migrations do not create; the model starts in either
  schema (`keyed`);
* each statement of a transaction has a snapshot of its own (`ProductPage`,
  `SalesInsight`, `LegacyPipeline`); DROP and CREATE TABLE take the table until
  commit (`LegacyStaging`).

`Abort` is enabled in every transaction at every step: a lost connection, a
stopped server, a cancelled statement. The commands of the import are processes
and may be killed between any two statements.

## The modules

Each module's comment says what it abstracts. Names follow the source.

**StockLedger.** A request is a sequence of legs (row, change). `Begin` and the
four requests (`CreateStockAdjustment`, `TransferStock`, `ReserveStock`,
`ReceiveSupplierOrder`) fix the legs from the endpoint's input (`AdjustmentLegs` to
`ReceiptLegs`); `LockRow`, `MissRow`, `InsertRow` and `Change` are the statements of one
leg; `RetryTarget` is the transfer's error path, in which a rollback has released and expired everything
and the next attribute access raises. `ledger` sums the committed
`StockAdjustment` records, so that the quantity can be compared with its own history.
`MovesAreAtomic` states that the module implements **StockMovements**, in which every
request is one atomic step on the committed rows.

**ReorderAlerts.** One stock row and its alert. Stock changes hold the stock row
when they read the alert; nobody locks the alert before writing it. `Judged` is
`_check_reorder_alert`, `Answered` the three requests of people, `Changed` the
columns SQLAlchemy would send. `judged` is a history variable: the reorder point
the last stock change went by. A new snooze is taken to end at another time than
any former one.

**ReorderPlanning.** The reorder points of one product in its warehouses. `Demand`,
`LeadOf` and the levels are the calculation; an apply previews row by row without
a lock and writes the previewed settings back over whatever a PATCH committed
meanwhile, and it stores a computed lead time as if it were the row's own.
`PlansSettle`: what an undisturbed apply has written comes out the same when it
is computed again.

**ProductPage, UnitCosts.** What one product's page shows, statement by statement,
against the movements of the stock and the purchases; the backfill script as the
batches it commits.

**Orders.** Orders, the number range, invoices, and one stock row per product (the
choice of the warehouse is StockLedger's). `LockOrder`, `LockRange`, `LockStock` are
taken in the order of the code (`After`), and what a transaction has written
becomes visible in its commit.

**SupplierOrders.** One order, its lines and what the stock has gained from it;
receipts of everything, of some lines, of nothing and of too much.

**Receivables.** Payments and invoices with a committed version and, for a
lock holder, its own. `LockPayment`, `LockInvoice`, `InsertPayment`,
`CheckBalance`, `MarkVoided` are the simple requests; `ReadUnmatched` to
`EndReconciliation` is the loop of `run_reconciliation`, query by query. Set aside
here: `_generate_payment_ref` combines an aggregate with `FOR UPDATE`, which
PostgreSQL rejects; the module models the design with that out of the way (a
reference that cannot be had is an `Abort`). An invoice total is positive: one of
zero would never be marked paid. **AccountsReceivable** books each request
atomically. `BookingsAreAtomic` states that the detailed module implements it: of the
detailed state the promise sees the committed statuses and payments, not the
locks and objects of the sessions. **Payments** puts two days side by side: the
quiet one, on which reconciliations run alone (`Exclusive`), is the module itself,
the busy one an instance with variables of its own.

**ReceivableReports.** Every place that adds invoices and payments up, each with
the arithmetic of its own query, as operators of the committed rows; `ReportsAgree`
of `Payments` compares them on every state of the quiet day in which nothing is
under way, on every day of `Days`.

**Customers.** A creation in its three transactions (look, insert, look the
winner up), an update with its version check in Python.

**Approval.** An agent's large adjustment becomes a request; a resolver reads it
without a lock, updates it, and executes the adjustment; a list expires overdue
requests it read in its snapshot, flushed in primary-key order.

**EguiSubmission.** The submission of one invoice: creation on first read within a
savepoint, refresh along the mock provider's states.

**EguiMonitor.** The tracked invoices in `localStorage`, the polling cycle await by
await on the copy it took at its start, the page that remembers an invoice
meanwhile, the window, the change of user. `standing` is history: whether a
cycle has disturbed what is remembered of an invoice.

**SalesMonthly, SalesInsight.** The monthly table with its delete-and-upsert
refreshes; above it the answers of the intelligence service. Those that
are one query are operators; revenue diagnosis and product performance are
sequences of transactions between which orders, categories and months change.

**RevenueTrend.** The pages the server cuts, and the hook that prepends them while
earlier requests may still be answered, in any order.

**LegacyStaging.** A run of `run_stage_import`: attempt number from an unlocked
maximum, one table after the other dropped, recreated, loaded and checked, commit,
or rollback and a failure record in a second transaction. `drops` are the tables of
the previous run that a selection drops before it stages any, in any order.

**LegacyPipeline, LegacyRecords.** The commands as actions over the raw and
normalized tables, the mapping, the canonical tables and the runs; the canonical
import step by step with its lineage and holds. `seeds` are the `map-products`
under way, with what each has read: `MapProducts` reads, `WriteMappings` writes later
over what is there by then. `failing` are the payment imports that have rolled back and
still have to record that. A canonical import can fail before its first step
(`RefuseImport`, `RunNotInserted`: label "refused"), as attempt 1 if the number could
not be read, or at a step ("failed"). Both record it in a second transaction with an
upsert of the run: of the second kind the steps are recorded too, and their foreign key
undoes it all if the row is another's (`RecordFailure`); of the first kind there are
none, so that whichever run has the number is set to failed (`RecordRefusal`,
`Relabelled`). A run therefore carries what is on record of its steps (`steps`) beside
its status. One step stand the three reads of `map-products`, a normalization, a
review and a validation. `LegacyRecords` is how one row becomes another: statuses,
categories, tax allocation, totals, dates, matches.

**Composition.** Five modules put several of these into one state: **Inventory** the
ledger, the alerts, the planning and the page; **Sales** the orders, the intelligence,
the chart, the costs and the monitor; **Desk** the approvals, the eGUI submissions, the
supplier orders, the customers and the monthly figures; **Legacy** the staging and the
pipeline; **Payments** the two days and the reports. A behaviour is that of one part,
chosen at the start, while the others rest in their first state: parts that share no
row are checked in one run without multiplying their states, and proved about in one
place. One part is extended, the
others are instantiated on variables of their own, with `INSTANCE ... WITH`.
`MCInventory`, `MCSales`, `MCDesk`, `MCLegacy` and `MCPayments` only give the constants
their values, and so do the small `MC*` modules of single components, which runs of
the findings use (`trend_stale` needs none). Where parts do share rows they are composed in
earnest: `ReceivableReports` on the state of `Receivables`, `AccountsReceivable` on its
committed rows, `LegacyRecords` inside `LegacyPipeline`, a supplier receipt and a reservation as requests of `StockLedger`.

`Inventory_proofs`, `Sales_proofs`, `Desk_proofs`, `Receivables_proofs`, `Legacy_proofs`,
`ReorderAlerts_proofs` and `SupplierOrders_proofs` hold the theorems and proofs about the
modules they extend, **SumFacts** what they need to know about sums.

## Runs

| Run | Instance | What it shows |
|---|---|---|
| `inventory` | ledger: 2 sessions, 2 products, 2 warehouses, quantities 0..1, any initial rows; alerts: a stock of 0..2 around a reorder point of 1; planning: 2 warehouses, 3 suppliers, an apply, a PATCH, sales; page: 2 warehouses, 3 movements | quantities equal their adjustments; no stale write; every commit is one whole movement; the alert follows the stock and comes back from a snooze; applied settings settle; the page tells the past; requests end |
| `sales` | orders: 2 sessions, 2 orders with crossed lines, 2 invoice numbers; insight: 2 customers, 2 products, 3 orders over two years; trend: two weeks of days, weeks and months; costs: 3 lines, 4 purchases, 2 backfills; watch: 2 invoices | gapless numbers; confirmed means invoiced, linked and reserved; only allowed transitions; who can deadlock; lists, profiles and prospects agree; answers of several transactions are true; pages of the chart join; a known cost is final; the monitor's notifications are news |
| `receivables` | busy: 1 invoice, 2 payments, no restriction; quiet: 2 invoices, 3 payments, reconciliations alone | a voided invoice has no payments and stays voided; on the quiet day paid means paid in full, nothing is overpaid and bookings are atomic; the reports agree on each of seven days; requests end |
| `desk` | 2 sessions; approvals: 2 requests; eGUI: one invoice; supplier: two lines, six receipts; customers: 2 and 2 numbers; monthly sales: 2 products | approved means executed, and nothing is executed that nobody approved; submissions settle; receipts book what arrives and the order can be completed; who loses a number is shown the winner; refreshes converge; requests end |
| `legacy` | 5 commands, 2 of them at a time canonical imports, two exports of one batch, up to 3 runs of either kind; 2 concurrent stagings of 3 tables, up to 3 attempts | the last completed staging stands; every imported row leads to a run on record with its steps completed and none is left of a failed import; totals follow the lines; a completed import is relabelled by nothing but an import of its number that failed before its first step; a reviewed mapping yields only to a review or to a seed that had not read it; a payment row is imported or on hold |
| `receivables_overpaid` | the busy day | finding: reconciliation overpays an invoice |
| `receivables_rematched` | the busy day | finding: reconciliation moves a matched payment |
| `approval_twice` | 2 sessions, 2 requests | finding: executed twice, or executed and rejected |
| `egui_regress` | 2 sessions, one invoice | finding: an acknowledged submission is thrown back |
| `alerts_demoted` | 2 sessions, one stock row | finding: an acknowledgement is overwritten |
| `trend_stale` | an owner who does not wait | finding: days under the heading of months |
| `legacy_order` | as `legacy` | finding: a consistent export is refused as full of orphans |

**Bounds.** Two sessions: every hazard listed is a race of two transactions, and
row locks make a third wait for one of the two. Quantities are bounded by `MaxInt`,
`MaxQuantity`, `MaxStock` (a change beyond is refused, as the column does) and are
just large enough to lie under, at and above what a request takes or a reorder
point asks. `Last` = 2 invoice numbers let the range run out. In the ledger
adjustments only add: taking one unit out would be indistinguishable from half a
transfer, and `MovesAreAtomic` would not see the difference. `MaxVersion`,
`MaxSold`, `MaxSales`, `MaxMoves`, `MaxRequests`, `MaxRuns`, `MaxCommands` and
`MaxAttempts` end counters that the program does not end; `LastDay` ends time. The
reports are read on days that lie on, one before and one after each boundary of
a bucket. In `SalesInsight` the past reaches back over two years, so that "prior
year" and "never before" differ, and a window ends on an order's day. In `watch`
a submission is sent once: with a third status TLC needs five million states
and finds the same. `MaxCommands` = 5 counts every command started, imports included: a
staging and a normalization, an import that commits, and two more that disturb it. `SYMMETRY` is used in `legacy` only (interchangeable imports and
processes), which checks no liveness. The proofs below have none of these bounds.

**Deadlock.** `CHECK_DEADLOCK FALSE` where a bounded part stops: people at the desk
need not ask for anything (`desk`), the owner has asked `MaxRequests` times (`sales`,
`trend_stale`), `MaxCommands` have been given (`legacy`). That requests do not wait for
one another for ever is the property `EveryRequestEnds` or `BusyDay`; in the runs
`inventory` and `receivables` TLC's deadlock check is on.

**Fairness.** `SF` on the statements of each session: PostgreSQL queues waiters of a
row lock, and a coroutine does not stop between two awaits. Strong, because a
waiter's statement is enabled only now and then. The deadlock detector has `WF`
in `receivables`; in `inventory` it is part of what the session's `SF` covers, as a
waiter either gets its lock or is cancelled. No fairness on requests, except where a
property is about people who keep asking: `Settles` (somebody, or the desktop's
monitor, refreshes; connections are eventually no longer lost) and the completion
of a supplier order (what is missing is received). No fairness on `Abort`, on kills
of a process, or on anything in `sales` and `legacy`, which check safety only.

## What the findings say

Each is one `violation` run; `PROJECT.json` quotes the line of the code or the story
that says otherwise.

* `run_reconciliation` compares the balance in the snapshot of the query that then
  waits for the invoice; a partial payment committed meanwhile is not seen and
  the invoice is overpaid (`receivables_overpaid`).
* It reads the payments without a lock and updates them by primary key; one that
  was matched meanwhile is matched again, to another invoice
  (`receivables_rematched`).
* `resolve_approval` reads the request without a lock: two resolutions both
  execute it, or a rejection follows an execution (`approval_twice`).
* `refresh_invoice_egui_submission` checks the transition against a status that may
  be stale (`egui_regress`).
* `_check_reorder_alert` releases an expired snooze it has read and overwrites an
  acknowledgement (`alerts_demoted`).
* `useRevenueTrend` asks the new controller whether the old request was aborted, so
  that an old answer replaces a newer chart (`trend_stale`).
* `run_stage_import` checks details before it has loaded their headers
  (`legacy_order`).

Met while modelling, without a run (a property of the table above is worded so
that it holds in spite of each, and says where):

* Alerts: a new reorder point does not fire or resolve an alert before the next
  stock change; acknowledged alerts are never resolved.
* Invoices: one posted for an order does not set the order's `invoice_id`; an
  exhausted number range hides a later active one; a deadlock between such an
  invoice and a confirmation exists only in a database that has the foreign key
  (`DeadlocksNeedAnInvoice` says that this is the only one).
* Customers: the version of an update is compared after an unlocked SELECT, so two
  updates of one version may both pass.
* Reports: a statement takes all payments of earlier invoices, later ones too, off
  its opening balance, and is empty when no invoice falls into its period; the
  payables report has today's bills in its first bucket's amount, not in its count; the dashboard's overdue figure adds full
  totals where the others add balances; the credit score of a customer measures
  30 days whatever the terms.
* Chart: whether there is more is asked of the time before the month that precedes
  the page, week pages cut their first week, and an empty page ends the paging.
* Intelligence: category trends use a product's category of today and the buying
  behaviour the one at the time of the sale; nothing but the tests calls
  `refresh_sales_monthly`, so closed months are read from an empty table unless an
  operator fills it.
* Reorder points: an apply overwrites settings PATCHed since its preview, a
  manual policy too, and freezes a computed lead time; the usage window covers one
  day more than the number it divides by; the branch that would report
  `fallback_7d` is never taken; the planning answer keeps one snapshot of a month.
* Product page: the stock history with an end date starts from today's quantity;
  the top customer counts cancelled orders;
  rows with the same timestamp have no fixed order between pages.
* Costs: a line issued between a backfill's count and its batch may be behind the
  cursor and is left out (`undisturbed` in the model).
* Import: two payment rows with the same number in one table become one.
* Import: a canonical import that fails before its first step (`canonical.py` 2386 to
  2405; the number is 1 until it has been read, line 2367) has no step to record, so that
  its upsert (2709, 452) sets a completed run of that number to failed while the run's
  rows, lineage and steps stand. Story 15-4 says at line 35 that the batch outcome
  "remains explainable from stored lineage and run metadata": from the steps it does
  (`RowsAreExplained`), from the status it does not (`CompletedImportStands` names the
  exception).
* Import: a payment import that fails has lost its number by the time it records the
  failure (`ap_payment_import.py` 679 to 705), and either sets another run of the batch
  to failed or, with rows read, violates a foreign key and records nothing. The advisory
  lock that story 16-12 relies on at line 104 ends with the first transaction.
* Import: `map-products` reads the mappings without a lock (`mapping.py` 504) and writes
  them later (516): a review committed in between is written over. Story 15-3 makes the
  review import atomic at line 63; the seed is not (`ReviewedMappingKept` names the
  exception, `HasRead`).
* Desktop monitor: a cycle that breaks off after a notification repeats it, and one
  that writes back overwrites what the page remembered meanwhile, although story
  12-4 says that duplicate notifications are suppressed (`NewsIsNew` holds for the
  invoices no cycle has disturbed).
* Settings: what `set_setting` stores is read by the settings page only; the
  services use `get_settings`, which reads the environment.

## What is proved

Seven modules of proofs about the specifications and one about sums, without any
of the bounds above. Each of the seven proves `Invariance`, `Spec => []IInv`, and
from it, or from a stronger invariant it names, what the runs check.

| Proofs | For any | Theorems |
|---|---|---|
| `Inventory_proofs`: the ledger | products, warehouses, sessions, requests, column width | `TypeCorrect` (`TypeOK`), `Balanced` (`LedgerBalanced`), `NoLostUpdate` (`NoStaleWrite`), `WholeMovements` (`MovesAreAtomic`, the refinement of `StockMovements`) |
| ... the other parts | reorder points, suppliers, deliveries, settings; warehouses and movements of a page | `AlertsFollow` (`AlertFollowsStock`), `PlanningInvariance`, `PlansStaySettled` (`PlansSettle`), `PageInvariance`, `PastIsTold` (`HistoryIsTrue`), `AllTypesCorrect` (`AllTypeOK`) |
| `Sales_proofs`: the orders | orders, lines, products, sessions, number range | `TypeCorrect` (`TypeOK`), `Gapless` (`NumbersAreGapless`), `Booked` (`ConfirmedIsBooked`), `Forward` (`MovesForward`), `OnlyInvoicesDeadlock` (`DeadlocksNeedAnInvoice`) |
| ... the costs, the watch | lines, purchases, backfills, batch size; invoices and statuses | `CostsInvariance`, `CostsStayFinal` (`CostsAreFinal`), `WatchInvariance`, `NewsIsAlwaysNew` (`NewsIsNew`) |
| ... the intelligence | customers, products, categories, orders and what they charge, category moves, months refreshed | `InsightInvariance`, `AnswersAreTrue` (`AnswersTellTheTruth`), `FiguresFit` (`FiguresFitTogether`) |
| ... the chart | lengths of days, weeks, months and pages, days with sales | `TrendInvariance`; for an owner who waits: `ChartPagesJoin` (`PagesJoin`); of all parts: `AllTypesCorrect` (`AllTypeOK`) |
| `Desk_proofs`: the approvals | requests, changes, threshold, sessions | `TypeCorrect` (`TypeOK`), `Executed` (`ApprovedIsExecuted`), `OnlyOnApproval` (`ExecutesOnApproval`) |
| ... the other parts | customers, numbers, sessions; statuses set from outside | `EguiInvariance`, `Acknowledged` (`AcknowledgedWithReference`), `ClientsInvariance`, `CreationsAnswered` (`CreationIsAnswered`), `DeliveriesBooked` (`DeliveriesAreBooked`), `DeskTypesCorrect` (`DeskTypeOK`) |
| `Receivables_proofs` | invoices, payments, totals, amounts, dates, sessions | `TypeCorrect` (`TypeOK`), `NothingOnVoided` (`VoidedHasNoPayments`), `VoidsAreFinal` (`VoidIsFinal`); while reconciliations run alone: `InvoicesAreSettled` (`Settled`), `MatchesAreFinal` (`MatchIsFinal`), `BookingsAreIndivisible` (`BookingsAreAtomic`, the refinement of `AccountsReceivable`) |
| ... the reports | customers, dates, terms, costs, bills, days of reading | while reconciliations run alone: `ReportsAreOfOneMind` (`ReportsAgree`) |
| `Legacy_proofs`: the pipeline | exports and their content, batches, categories, importers, numbers of runs and commands | `TypeCorrect` (`TypeOK`), `RowsExplained` (`RowsAreExplained`), `TotalsAreRight` (`TotalsFollowLines`), `CompletedImportsStand` (`CompletedImportStands`), `ReviewsAreKept` (`ReviewedMappingKept`), `PaymentsAreKept` (`PaymentRowsAreKept`) |
| ... the staging | tables, manifests, sources, processes, attempts | `StagingInvariance`, `CompletedRunStands` (`LastRunStands`) |
| `ReorderAlerts_proofs` | sessions, reorder points, changes of the stock | `TypeCorrect` (`TypeOK`), `FollowsStock` (`AlertFollowsStock`), `SnoozesEnd` (`SnoozeEnds`), `IsListedOnce` (`ListedOnce`) |
| `SupplierOrders_proofs` | lines, quantities ordered, receipts, sessions | `TypeCorrect` (`TypeOK`), `AllDeliveriesAreBooked` (`DeliveriesAreBooked`) |
| `SumFacts` | finite sets with integer weights | `SumLaws`, `NaturalSums`, `SameWeights`, `GreaterWeights`, `OppositeWeights`, `Renamed`, `SamePart`, `SumOfUnion`, `AddedWeights`, `SumOfParts`, `RowsAndColumns`, `NoPositiveSum`, `SumOfSplit`, `NoWeight`, `CountIsSum` |

Each proof module of a composition has a theorem `Composition`: the specification
that TLC runs implies the specification of every part, under the part's own
variables. What is proved of a part (`Alerts!Spec => ...`) is therefore a theorem
about the composed specification and about the very definition the run checks.

The assumptions are those of the modules and `NoSessionAssumption` of `RowLocks`: requests
and rows are well formed, rows of different tables differ. `InventoryAssumption`,
`SalesAssumption`, `DeskAssumption`, `LegacyAssumption` and `PaymentsAssumption` contain those of
the instantiated parts, and TLC evaluates all of them in the runs. Those that say more than types:
what has been sold of a row is not more than it opened with (`PlanningAssumption`);
past movements are dated in the past and have not made a quantity negative, and a
sale takes out (`PageAssumption`: the column refuses a negative quantity, and
`ReserveStock` is what writes a sale); reports are compared when all rows lie in the
stretch of time each of them is about: no invoice, payment or bill later than the day, no
invoice older than the twelve months of the customer's trend (`PaymentsAssumption`);
amounts of order lines, payments and invoices are naturals and there are finitely many rows
(`InsightAssumption`, `ReportsAssumption`); only a received order may have
come without a price (`CostAssumption`); the provider's statuses come one after the other
(`MonitorAssumption`); a status set from outside is neither `ACKED` nor `RETRYING`
(`EguiAssumption`); customers, numbers and their placeholders differ
(`CustomersAssumption`). The theorems of `ReorderAlerts_proofs` and `SupplierOrders_proofs`
have their module's assumption as a hypothesis, because the compositions use the
two modules with constants of their own; `AlertsFollow` and `DeliveriesBooked`
discharge it.

**StockLedger.** `LedgerBalanced` is not inductive: a commit writes `local` and adds
`pending`, so one must know that `local` is the committed quantity plus `pending` for
every row the session holds (`NoStaleWrite`), and that `pending` is zero for the others
(`OwnRowsOnly`), which in turn needs that an insert never meets a row its session has
already (`AtALine`). The proof has one lemma per way a step can touch the state
(`RequestsInv`, `ChangeInv`, `CommitInv`, `FailInv`, and `StatementInv` that splits a
statement into these); `OthersStand` and `ReleaseOthers` say what a step of one session
leaves alone in the others. The refinement maps a commit to one movement and
everything else to a stutter. `Through(s)` carries what a commit has to know of the
statements before it: `pending` is the sum of the changes of the legs made so far,
the rows held are rows of those legs, and a row the session inserts belongs to a
leg that adds (`MInv` is `IInv` with it).

**Orders.** A commit writes what its session read when it took the locks, so the
invariant says of every session that the order it has locked is still `Ready`
(`HoldsItsOrder`), that the number it has taken is still `next` (`HoldsItsNumber`),
and, for the deadlock theorem, which rows it can have at each point
(`HoldsNoMore`). `StaysInStep` is the frame: a step of another session cannot disturb
it. The deadlock theorem needs no further induction: in a set of sessions that wait
for one another (`CycleHasAnInvoice`), who waits for stock waits for a confirmation
that has the number range and itself waits for another that has it; who waits for
the range or for an order waits in turn for such a one, unless somebody in the set
is at the foreign key check, which only an invoice for an order is.

**Approval.** Who approves writes one request and has the stock row exactly when
about to commit a change that fits. What is *not* an invariant is that a request is
executed once: `approval_twice`.

**Receivables.** `IInv` holds on the busy day as well: what nobody has locked has one
version (`VersionsAgree`), a void is final in the newest version already
(`VoidsStand`), payments a session has inserted are its own, and `InStep(s)` ties the
point a session has reached to the rows it holds. That is enough for voids. That
nothing is overpaid is true only while reconciliations run alone, as
`receivables_overpaid` shows; `BInv` says why it is then: nobody else is at work
(`Alone`), matches stand, the newest version of every invoice is in balance
(`NewestInBalance`, `NeverOverpaid`, `PaidInFull`), and what a session has found in
its queries still holds when it writes (`OnItsWay`). The refinement follows: each
commit is the booking whose guard `BInv` makes true.

**LegacyPipeline.** `IInv` has four parts, about the tables, the runs, the importers and
the imported rows (`TablesFit`, `RunsFit`, `JobsFit`, `RowsFit`). The heart of it is that
an importer in its transaction has its run number for itself, so that what it commits
under the number is its own, and that an id once on record with its steps or tables
completed stays so (`Records`). It speaks of steps and not of statuses, because failures
recorded late may change any status: what they never touch is a run's id and its steps.
`CompletedImportsStand` adds which failures can change the status. Totals need more
(`DInv`): two importers never write the same document (`Apart`), what an importer is
about to commit is complete (`Prepared`), and the shares of a bill's tax add up to it,
however those before the last are rounded (`TaxIsAllocated`). `ReviewedMappingKept` is about
a seed's two steps: what it writes over a decision that it has read is that decision.
`PaymentRowsAreKept` is a fact about single steps.

**ReorderAlerts.** A step writes columns into an alert it may have read long before.
The invariant says of the columns a stock change is going to send (`Follows`) that
they leave an alert which follows the stock *whatever* people have made of the
other columns meanwhile: it has the stock row, so no other change can interfere,
and what people send (`SendsAnAnswer`) never resolves an alert, never makes it
pending and leaves the quantity alone. `EndsTheSnooze` is the same idea for
snoozes: status and end are sent together.

**SupplierOrders.** Who is about to write the order holds it, and its own copy counts
what the committed order does plus what it took into stock (`InStep`).

**ReorderPlanning.** `PlansSettle` speaks of rows an apply has written and nobody has
PATCHed since. Settings are `Settled` for a usage if lead time and factor are the
row's own from then on, the policy is normal and the point is what the formula
gives for that usage; then a computation over again comes to the same, whatever
other suppliers have delivered meanwhile. Every apply that is at work writes settings
that are settled for the usage it has read (`WritesSettled`), to rows it has previewed
and holds (`InStep`).

**ProductPage.** A quantity is its opening plus its movements, and an open page has the
opening plus the movements that its first statement saw (`seen`). The rest is
arithmetic of sums: the movements of a row are split by date and by position, the
days of the history run back over them, and the months of the demand are parts of
the year whose sums add up (`SumOfParts`, `RowsAndColumns`).

**UnitCosts.** What a backfill is about to write are prices of purchases made in time
(`IsPaid`). As long as nothing disturbs it, there is nothing to fill in behind its
cursor, and what it has summarised and decided is still what it would now
(`IsThorough`).

**EguiMonitor.** `told` and `shown` are history. As long as no cycle has disturbed what is
remembered of an invoice (`standing`), it is remembered at the last status that was
told or shown, also in the copy a running cycle has taken (`IsRemembered`), and an
answer on its way is no later than the server's status (`AnswerFits`); hence a
notification brings news (`KnownUpTo`).

**EguiSubmission, Customers.** Races of two first inserts: who has lost is about to read
a row that exists (`InStep`, `ToldTheWinner`); a business number has one bearer among
the committed rows and those that are being inserted (`OneBearer`, `HasTheNumber`).

**LegacyStaging.** What a transaction has dropped it stages again before it commits, and
what it is through with is of its own run (`TablesFit`); who has inserted its run has
the next number of the batch, and nobody else of the batch has one inserted
(`NumberFits`). So the tables that a commit publishes are those of the run that
becomes the last completed one.

**RevenueTrend.** Of an owner who waits (`ChartPagesJoin` assumes `Patient`; `trend_stale` is
what happens to another) at most one request is under way, and it asks for what lies
before the oldest row shown. What is shown are whole units: between the oldest and
the newest, every day or month with a sale has one row with all of it, in order. A
page that arrives ends where the rows begin, hence they join. `AscendingListing` is that
the list of a finite set of days exists.

**SalesInsight.** An answer is put together from the monthly table and from orders of
several moments. What makes it true all the same is time: a sale that commits later
is dated today, and today is not before the anchor of an answer under way, so it can
neither make a new product older nor an end-of-life product newer. The drivers of a
change of revenue split both periods by product, and the mix is what is missing to
the sum. `FiguresFit` is arithmetic: the lines of the orders are summed by customer, by
product, by category and by month (`SaleLines`), the windows of a comparison are
disjoint, and the sets that lists and profiles count are parts of one another.

**ReceivableReports.** Every figure comes to a sum, over issued or standing invoices, of
what is left to pay (`LeftToPay`) or has been paid (`PaidSoFar`). That the queries agree
on the summands needs the invariants of `Receivables`: a payment that names an issued
invoice is matched to it, nothing is left of a paid one, a voided one has none
(`Consistent`, which `IInv` and `BInv` imply). The rest is splitting sums: by customer, by
bucket, by month and by day (`SumOfSplit`), in amounts and in numbers (`CountIsSum`).

**SumFacts.** The library's induction theorems take an operator as a parameter, which
the provers cannot instantiate. The sums are therefore characterised by an
argument about the least counterexample (`LeastNat`): adding a member adds its
weight, whichever order `MapThenSumSet` picks. The same argument gives an induction
over the subsets of a finite set, one family of sets at a time (`SubsetInduction`),
and with it sums over unions, over partitions and over rows and columns.

Only model-checked: liveness, which like ENABLED is outside the prover's reach. These are
`EveryRequestEnds` (`inventory`, `desk`), `Settles` and `MonthSettles` (`desk`) and `RequestsEnd` in
`BusyDay` (`receivables`). `Settles` and `BusyDay` have a safety half too: that of the first is
`Acknowledged`; that of the other is what `NothingOnVoided` and `VoidsAreFinal` say of
`Receivables` for any constants, among them the busy day's (`Composition`: each day is a
behaviour of `Receivables`), but it is not restated for the instance. Every invariant and every
action property of the runs without liveness in it is a theorem. What stays with TLC
besides are the findings, which are counterexamples.

## Not modelled

* **Payment references** (`_generate_payment_ref`): PostgreSQL rejects an aggregate with
  `FOR UPDATE`, so there is no behaviour to model beyond an aborted request.
* **Runtime settings**: one row per key, the last writer wins, and no modelled service
  reads what is stored.
* **LINE webhook, MCP server**: transport around `create_order` and around queries;
  no state of their own beyond a mapping table.
* **Purchases, AEO pages, health, planning support**: they only read imported or
  modelled rows, one query each.
* **Authentication, users, audit**: token checks and plain row administration; audit
  rows are written in the transaction they describe and read by no service.
* **Artifacts, PDF, MIG 4.1, object store**: formatting and blob storage.
* **Migrations**: the unique and foreign keys that matter are part of the models.
* **The rest of the frontend and the Tauri shell**: rendering and forms; the server
  does not rely on their checks.
* Within the modelled parts each module's comment names what it leaves out: prices
  and taxes of new orders, searches and paging of lists, visitor statistics, the days on
  which `backfill_sales_reservations.py` books more brought back than sold (`ProductPage`), the
  parsing of export files, the columns no property tells apart.
