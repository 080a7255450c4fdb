# Formal models of the ERP's event backbone

TLA+ models, TLC runs and TLAPS proofs about the part of erp-composable-2026
that no unit test reaches: what happens *between* the services. Each service
keeps its own PostgreSQL database; they agree only through outbox rows, NATS
messages, guards against redelivery and a saga job queue. The models follow the
code under `src/`, statement by statement where a statement is a database call
or a message, because that is where other processes get in between.

Contents: [the system](#1-the-system) · [the modules](#2-the-modules) ·
[the runs](#3-the-runs) · [fairness](#4-fairness) · [the proofs](#5-the-proofs)
· [what does not hold](#6-what-does-not-hold) ·
[what is not modelled](#7-what-is-not-modelled) · [the plan](#8-the-plan) ·
[running it](#9-running-it)

## 1. The system

A project goes CRM -> project (pm) -> bill of materials (plm) -> purchase (proc)
-> stock (inv) -> work orders (mes) -> costs (finance), with quality, eam, hr,
tax and analytics alongside. Every arrow is an event.

### Components

| Component | State it keeps | Operations | Talks to |
|---|---|---|---|
| **Outbox relay** `shared-kernel/src/outbox-relay.ts`, used by crm, finance, hr, inv, mes, pm, proc, tax | `OutboxEvent` rows: status, attempts, lockedAt | every few seconds: reclaim stuck rows, snapshot the pending ones, claim, publish, write the outcome back | shares the table with the domain handlers and with the other replicas; publishes to NATS or JetStream |
| **PLM and Quality relays** | the same table without claims | snapshot, emit, mark | the NATS client's buffer |
| **JetStream consumers** `shared-kernel/src/jetstream/`, `fin-wip-worker`, `inv-eto-worker` | the durable's delivery states (at the broker), a batch in memory | fetch, handle, ack or nak; the bootstrap creates and re-creates durables | one durable shared by the replicas; the handlers of finance and inventory; Nest handlers that hear the same subject over core NATS |
| **Processed-event guard** `shared-kernel/src/processed-event.ts` | `ProcessedEvent` ledger per consumer | check, run, mark | wraps handlers in inv, proc, pm, mes, finance |
| **Goods receipt** `proc-service` -> `inv-service` | purchase order status and `receivedQty`; `StockLevel`, `StockTransaction`, `Item.stockQuantity` | approve, reject, receive; apply the receipt | outbox relay and guard in between |
| **ETO orchestrator** `analytics-service` | `EtoOrchestrationJob` rows, the saga in memory and in `EtoSaga` | enqueue, tick (recover, run, publish, retry), ingest an event | publishes step subjects; every replica hears every subject |
| **Finance ledger** `finance` | `WipAccount`, `ProjectCost`, payables, receivables, AP bills, AR invoices, `AccountingPeriod`, `ProcessedEvent` | book labour, time, material relief, commitments, revenue; four saga compensations that take them back; close and reopen a period | consumer of mes, hr, inv, proc, tax and the saga, over JetStream and core NATS |
| **ETO compensation** `analytics-service` | the list of completed steps of each replica, `EtoSaga`, `EtoSagaCompensation` | learn of a step, compensate, copy to the table, restart | every message of the backbone; its reversals go to finance and inventory |
| **Inventory stock** `inv-service` | `StockLevel`, `Reservation` | reserve (request, BOM release), adjust, new lot, inspect, release, restore | consumer of plm, pm, mes, quality and the saga; announces shortages |
| **Pick lists** `inv-service` | `PickList`, `PickLine` | make a list, confirm a line | announces each pick to procurement, as a shortage |
| **Engineering changes** `plm-service` | `BomVersion`, `BomComponent`, `EngineeringChangeOrder` | create a version, add or link a component, release (with a snapshot of the tree), create and approve an order | its snapshots go to inventory |
| **Shortage orders** `proc-service` | purchase orders, the guard's ledger | order what is short | consumer of `inv.stock.out.v1` |
| **Milestones** `pm-service`, `finance`, `tax-legal`, `crm-service` | `MilestoneBilling`, `RevenueRecognition`, `TaxInvoice`, a JSON list in CRM's opportunity | reach, invoice at KSeF, recognise, show | each other, over core NATS |
| **MES, Quality, HR, EAM, the rest of PM, PLM, CRM and Tax** | their tables | CRUD commands with an outbox row each, some integration handlers | each other, through events |
| **Gateway, frontend, search, DMS, MCP, BI, readiness** | none or derived | proxy, render, report | HTTP |

`PROJECT.json` lists all of them with their files and status, and every hazard
with its line.

### Where it is hard

* **Replicas.** The k8s deployments run two replicas of most services
  (`infra/k8s/deploy/*.yaml`). NATS subscriptions have no queue group, so each
  replica hears each message; relays and ticks work on one table.
* **Steps that are not transactions.** Snapshot then claim, publish then mark,
  check then run then mark, read then write by id: in each gap another process,
  a crash or a database error fits.
* **Delivery.** Core NATS drops messages; JetStream repeats them when the ack is
  late, lost or forgotten; relays repeat them after a lost outcome.
* **Timers.** Intervals do not wait for the run before; reclaim age, ack wait,
  duplicate window and step timeouts race with the answers they wait for.

### What makes each part correct

* Relay: nothing committed is lost, nothing is dead-lettered early, a claim is
  exclusive, a settled row stays settled, a repetition has a cause, every row
  settles. Taken together: `OutboxContract`.
* Emit relays: only an outage or a crash loses an event.
* Consumers: acked means handled, an ack is final, a repeated effect has a cause,
  every message is handled.
* Guard: success is recorded, and what was recorded is not run again.
* Shortage orders: whoever is answered has an order; a second order has a cause.
* Goods receipt: stock equals what was booked, an order is delivered when its
  amount arrived, each receipt is booked.
* Orchestrator: steps in order, each done or failed once and for good, none compensated that
  did not fail, but where two have a job in hand at once: `EtoPipeline`. Every calm chain ends.
* Finance ledger: the WIP balance is the sum of the cost rows, those of orders apart; a compensation takes
  effect once; a period that is not open does not move.
* Inventory stock: the levels add up; what is reserved beyond the announced shortage
  was there; releases and restores alternate.
* Milestones: no status before what it stands for; what is reached is recognised, and
  invoiced once.
* Pick lists: a list is COMPLETED just when its lines are picked.
* Engineering changes: an order is IMPLEMENTED only behind a release that carries what was
  approved; what consumers were told of stays in every later snapshot; a release ends, even
  of a tree that contains itself.
* Compensation: a step is reversed as often as it was learned of, none is dropped without
  its reversal, a compensation ends.

## 2. The modules

| Module | Models | Used by |
|---|---|---|
| `OutboxContract` | abstract: an event is owed, delivered, then relayed or dead, and then closed | `OutboxRelay!Contract` |
| `OutboxTable` | the columns of `OutboxEvent` both kinds of relay work on | `OutboxRelay`, `EmitPromises` |
| `OutboxRelay` | `GenericOutboxRelay` | `MCOutboxRelay`, `OutboxRelayProofs` |
| `EmitPromises` | what the relays of PLM and Quality promise | `EmitRelay`, `OutboxRelayProofs` |
| `EmitRelay` | the relays of PLM and Quality | `MCEmitRelay`, `OutboxRelayProofs` |
| `DurableConsumer` | durable, bootstrap and pull loops | `MCDurableConsumer`, `DurableConsumerProofs` |
| `ProcessedEventGuard` | the guard around any handler | `GoodsReceipt!Guard` (refinement), `ShortageOrders` (extends it), `ShortageOrdersProofs` |
| `GoodsReceipt` | composes order, event, guard and stock | `MCGoodsReceipt`, `GoodsReceiptProofs` |
| `ShortageOrders` | the guard with the orders for a shortage, and the way past it | `Picking` (extends it) |
| `Picking` | composes pick lists with `ShortageOrders` | `MCPicking`, `ShortageOrdersProofs` |
| `InventoryStock` | stock levels and reservations of one item | `MCInventoryStock`, `InventoryStockProofs` |
| `FinanceLedger` | bookings, compensations and the period of one project | `MCFinanceLedger`, `FinanceLedgerProofs` |
| `MilestonePromises` | what is promised of a milestone's statuses | `Milestones`, `EtoProofs` |
| `Milestones` | composes pm, finance, tax-legal and crm over one milestone's life | `MCMilestones`, `EtoProofs` |
| `EtoPipeline` | abstract: steps taken one after the other, each once, the first that fails being the last; a step two work on at once clashes | `ChainPromises!Pipeline` |
| `ChainPromises` | what a chain promises, and how its jobs are the steps of `EtoPipeline` | `EtoOrchestrator`, `EtoProofs` |
| `EtoOrchestrator` | the job queue of one chain | `MCEtoOrchestrator`, `EtoProofs` |
| `SagaPromises` | what a compensation promises | `EtoCompensation`, `EtoProofs` |
| `EtoCompensation` | the memory of one saga on every replica, its table row and `compensate` | `MCEtoCompensation`, `EtoProofs` |
| `EngineeringChange` | versions, components, releases and change orders | `MCEngineeringChange`, `EtoProofs` |
| `SumTheorems` | no code: the laws of the sums that audit tables | `GoodsReceiptProofs`, `InventoryStockProofs`, `FinanceLedgerProofs` |

Four components keep their promises in a module of their own, `...Promises`, with just the
state the promises speak of; the component extends it and says how that state moves. So a
module of proofs can state the promises of several components by name although the
components themselves, which share names, cannot all be extended by one module.

`MC...` modules only name the values of the constants. A definition named after
another with a suffix (`ClaimableUnconditionally` for `Claimable`) is a plausible
mistake in that definition. Nothing uses it in the specification; substituting it
must break the property it is listed with in `PROJECT.json`.

### OutboxRelay

`status`, `attempts`, `lock` are the columns; `batch`, `seen`, `cur` are what one
`relayEvents` call holds. `Tick` is the timer with `reclaimStuckProcessing`,
`Fetch` the `findMany`, `Claim` the conditional `updateMany`, `PublishAcked` and
`PublishFailed` the outcome of `publishEvent`, `MarkProcessed` and
`MarkPublishFailure` the two updates *by id alone*. The counter is written from
`seen`, the value in the snapshot. A database error or crash may strike at each
statement. A lock is null, fresh or aged: `LockAges` lets the reclaim age pass over a lock
nobody holds any more, `Stall` over that of a relay that is alive between its claim and its
write-back. A stall counts as a fault, and `stalled` remembers the row.
With JetStream, `Store` de-duplicates while `window` remembers the msgID; without,
`MayLoseSilently`.

`ImplementsContract` is the refinement: PENDING and PROCESSING are *owed*,
PROCESSED is *relayed*, FAILED is *dead*, and `delivered` is what the broker holds. A row a
relay has stalled on counts as owed for good, because it may be opened again.

### EmitRelay

`service` chooses between the two relays once, at the start. They differ in the
order and size of the snapshot and in `CountFailure`, Quality's catch block, which
counts a failed *update* as a failed publish. `buffer` is the NATS client's
outbound buffer, external: flushed while the broker is reachable, dropped when it
is not or the process dies.

### DurableConsumer

`delivery` is the server's state of each message, `hand` the rest of a worker's
batch, `part` the step of the handler in hand. `BootstrapDelete` and
`BootstrapAdd` are two calls, so a crash fits between. `Swallowed` are parts whose
errors a handler only logs. `core` holds the copies that a Nest handler outside
the durable receives. `FirstDelivery` is the deliver policy: a durable that is added
delivers the stream from its start. A worker that starts while there is no durable
is `dead` until its next restart, and so is one whose loop ends by an error
(`LoopBreaks`): the loop's `try` is around `fetch()` only (`FetchFails`), so what the
iteration of a batch throws (a lost connection; a pull on a durable that the bootstrap
has deleted) rejects `runDurablePullLoop`, and the caller only logs it. `LoopBreaks`
is free of charge while the durable is absent and costs a fault otherwise; nothing
forces it.

### ProcessedEventGuard

`step` walks one call through check, run and mark. `Body` says nothing of the
body: `GoodsReceipt` refines it with a transaction of two steps, `ShortageOrders`
conjoins it with the order that the body creates.

### GoodsReceipt

A request reads the order (`ReceiveRead`) and commits (`ReceiveCommit`) from what
it read. The transaction writes order and outbox row together, so the event exists
exactly when the request is done; the relay is abstracted to "delivered later, or
lost" (`Deliver`). `ApplyReads` and `ApplyCommits` are the two ends of the
READ COMMITTED transaction in inventory. `StockLevel` rows have no unique
constraint, so `quarantine` is a sequence of rows and a creation may race.
`EventKey` is the idempotency key the payload yields: the order's id. `overlap`,
fixed at the start, says whether requests and deliveries may overlap.
`Item.stockQuantity` is incremented by receipts and by the compensation's
`restoreStock` (`RestoreItem`); `createLot` writes a RECEIPT `StockTransaction` and
leaves the item alone (`CreateLot`). Both are here for these columns only: what they
do to `StockLevel` rows is in `InventoryStock`, and `quarantine` is what receipts put
there.

### ShortageOrders

`handleOutOfStock` catches an error of the guard whose text mentions
`processedEvent` and creates the order without the ledger. Prisma names the model in
the text of every error of a call, so `failed` holds the calls whose ledger call
failed for any reason, and `FallThrough` is open to them. `ordered` has one entry per
order: the call, and whether it came through the guard or past it.

### Picking

`UpdateLine`, `Count`, `UpdateList` and `Announce` are the four statements of
`confirmPick`, which is called with any list id and any line: `under` is the list whose
lines are counted and whose status is written, none there is (`NoSuchList`) included.
`done` is what `Count` found and `UpdateList` writes by id. `Fails` may end
a confirmation between any two. `CreateList` takes any set of reservations, those on
another list included. `told` are the reservations whose pick has an outbox row, and
`Announced` lets a delivery of `inv.stock.out.v1` happen only for one of these or for a
genuine shortage; what procurement does with it is `ShortageOrders`.

### InventoryStock

A call is one delivery or request. It reads (`ReserveReads`, `AdjustReads`,
`PassReads`, `ReleaseReads`, `RestoreReads`) and then writes from what it read:
`seen` is the row and its quantity, `todo` the reservations it found, `current` the
one it is giving back. `Writes` is an absolute value, `Give` an increment, as in the
code. An inspection is four statements. `RestoreUpdates` and `RestoreGives` drop
their errors. The histories `supply`, `written`, `took`, `released`, `revived` and
`given` are what the levels are audited against; `drift` names why they may differ.

### FinanceLedger

`at[h]` is where a handler is and `msg[h]` the message in hand. Labour is three
statements with swallowed errors, then the journal, which throws in a closed period;
relief looks up, posts to the GL and commits; orders and invoices ask the period
first; an order then writes its `ProjectCost` row (`CostOfOrder`), reserves its amount on
the WIP account, and goes on to the liability when either fails; compensations check the ledger, look up, write, void and mark. What a
transaction reads and what it writes are two steps, because READ COMMITTED locks
nothing that is read. `AdminReads` and `AdminWrites` are begin-close, close and reopen,
which read the status and write it by id. A message of the durable is redelivered
when its handler throws, any other is lost. `mockAccount` says whether there are
accounts with the literal ids the code posts to.

### Milestones

A letter is one message on its way to one service. `Reach` is the command in pm,
`MilestoneReached` finance's upsert with the outbox row of the same type it answers
with, `BeginInvoice` to `Announce` the four steps of tax-legal around KSeF: `KsefIssues`
is an invoice there, `ReferenceMadeUp` the sandbox adapter going on without one
(`bound.sandbox` says which adapter is configured);
`InvoiceSent`, `MarkInvoiced` and `Recognise` are the way to revenue, `CrmReceives` and
`CrmWrites` the read and the write of the whole JSON list. `bound` is what the
environment may do in one behaviour.

### EtoOrchestrator

`job`, `attempts`, `due` and `overdue` are the columns of the job table with their
dates reduced to "has it come". One tick is `RecoverFetch`, `RecoverFail`,
`Compensate`, `Fetch`, `Start`, `Publish`, `Retry`: one action per database call.
`Receive` is the synchronous part of `ingestEvent`; `FindJob`, `Complete`,
`FindNext` and `Unblock` are its promise chain, which nobody awaits. `completed` is
the saga in memory, `saved` the copy a restart reads back. `DomainEvents` are steps
whose service publishes the step's subject with the chain's id on its own. `bound`, fixed
at the start, is what the environment may do: which processes are up, which ticks run, how
many faults there are, how many jobs may clash, and whether the chain is calm (no tick runs
during the enqueue and no domain event comes), which only the liveness property asks for.

A tick has a row in hand from the query that returned it to its last update (or its
compensation) of it, a promise chain from finding a job to updating it, and no update looks
at the status it replaces.
`Shared` are the jobs that two have in hand at once: two overlapping ticks, ticks or promise
chains of two replicas, a tick that finds a step overdue while its completion is being
written. Whatever the second one writes then overwrites what the first wrote. `met`
remembers these jobs and `redone` those that were completed twice.

`ImplementsPipeline` is the refinement (`ChainPromises`): a job that is not yet written or
BLOCKED is *waiting*, PENDING and IN_PROGRESS are *running*, however often it is published
and retried, DONE is *done*, FAILED is *failed*, a job in `met` has *clashed*, and
`compensated`, without those that clashed, is what was *reversed*. It holds of any chain,
with overlapping ticks, replicas, late completions and restarts; what it promises nothing of
is a job that two had in hand, and the order of the jobs behind it; that the code really fails
there is in section 6.

### EtoCompensation

`status` and `list` are a replica's `EtoSagaState`, `row` is `EtoSaga`. `Ingest` is
`ingestEvent`; `Copy` and `Upsert` are the write of the whole map, which any message starts and
nobody awaits, so that an older copy may land last. `Begin` copies and reverses the list,
`Publish` and `Record` are the two awaits of one step, and `End` clears the list as it is by
then. `Restart` reads the row back. `learned`, `published`, `covered`, `late` and `overlapped`
are histories.

### EngineeringChange

A row is `<<version, item, number>>`, as two rows may name one item. A release reads the
tree row by row (`Walk`): `todo` are the rows not looked into, with the level and the link
they were read with, `Below` what a row adds, down to `MaxDepth`. `Publish` is its
transaction. An approval is `ApproveBegin` (the read), `Approve` (status and event),
the release, and `Finish`, which writes the status by id from `Outcome`; `ReleaseFails` is the
catch block that only logs. Looking up the newest released version of a child and reading its
rows are two queries in the code and one step here; no property depends on what fits between. `bound` chooses at the start what the environment may do.

## 3. The runs

Eleven runs pass; in `milestone_loop` TLC finds the counterexample the finding describes.
Each finishes within five minutes. `CHECK_DEADLOCK FALSE` in each: every one of these systems
rests when there is nothing to do, or when the bounds are spent.

| Run | Instance | What it shows |
|---|---|---|
| `relay` | 2 rows (one left by an older release), 2 replicas, batches of 1, 2 attempts, 1 fault (error, crash or stall), JetStream | types; the contract with the other services; claims are exclusive, and every message but one has a lost outcome of its own, but for rows a live relay stalled on; nothing is lost or dead-lettered early on any row; every row settles |
| `emit_both` | PLM or Quality, 2 rows, 2 overlapping ticks, 3 faults | only outages and crashes lose an event; a dead letter was emitted often enough; every event arrives or is lost that way |
| `durable` | 2 messages, 2 replicas, batches of 2, a handler of 2 parts, 3 faults; durable absent, outdated or current; one subject handled twice | acked means handled; repetitions have a cause; only the replacement of an outdated durable forgets an ack; every message is acked while the durable is there and a worker is alive |
| `receipt_safety` | 1 order of 3, receipts of 1 and 2, both decisions, 2 faults, late item; a lot and a restored reservation | `Item.stockQuantity` is audited against receipts and restores and no order is delivered early whatever overlaps; serially, `receivedQty` and stock levels add up; the guard is followed |
| `stock_out` | 2 pick lists, 2 reservations of one item and quantity, 2 confirmations, each of any line under any list; the deliveries of their picks and of a shortage; 1 confirmation and any delivery failing | whoever is answered has an order; a second order has an overlap or a failed ledger call behind it; a list follows its lines unless confirmations crossed, failed or named another list |
| `inventory` | 1 item, 3 sets of calls that meet, 3 sets of rows, 2 faults | the levels add up; reservations beyond the shortage are covered; releases and restores alternate |
| `finance_ledger` | 2 handlers, 2 admins, 6 sets of messages that meet, 2 changes of the period, 2 faults | the WIP balance is the sum of its cost rows but for those of orders and three causes; nothing takes effect twice unless two deliveries met; a period that is not open stands still |
| `milestones` | 1 or 2 milestones, 2 handlers, a fault or a sandbox without answer, an echo, a close | no status is early; what is reached is recognised |
| `orch` | 3 steps, 1 process or 2, 1 tick or 2, up to 2 faults, up to 1 job that two have in hand; calm or wild | a chain is a pipeline but for jobs that two had in hand; a step is unblocked after the one before it, or after one that was completed twice; a calm chain ends |
| `compensate` | 2 steps, 2 replicas, 2 calls; a repeated message, a failure, or a restart | reversed as often as learned; nothing is dropped without its reversal; a compensation ends |
| `plm` | 3 versions of 2 items, 1 order, 2 calls, depth 2; 6 mixtures of rows, links, approvals, releases and faults | IMPLEMENTED stands for a release that carries what was approved; snapshots grow; announcements and the final status stand unless approvals met; a release ends |
| `milestone_loop` | 1 milestone reached once, 1 handler, no fault | *fails*: two invoices at KSeF |

The type invariant is a property of the run `relay` only. Those of the other modules are
proved for all constants instead, those of `ProcessedEventGuard`, `ShortageOrders` and `Picking`
as parts of the invariants of their proofs.

**Why the bounds are enough.** Each hazard needs two actors on one row, or one
actor and one fault, so two replicas (ticks, calls, workers) and one row show it;
the second row or message is there for what batches do to each other, the third
step for "the next one" being the wrong one. The relay takes batches of one because its
theorems cover every batch size, and one fault because two replicas already make the retry of
whatever the fault left; `MaxAttempts = 2` has a first failure that retries and a second that
exhausts. `MaxFaults` bounds crashes, failed calls, stalls and lost messages; where it is two or
more it covers a fault in the recovery from a fault. What is
counted past a property's interest is capped (`sent` at `SentCap` = 3 and its lost outcomes at 2, `effects` at 2, the
failures at `FailCap`, `emits` at `EmitCap`). `Copies`, `Decisions`, `Receipts`
and `NumEvents` bound the environment. `Scenarios` (finance, inventory) are the sets
of messages that may meet: each puts what books beside what takes it back, since
messages on different accounts do not touch. `MaxRepeats` bounds how often labour is
booked again while the journal refuses it, `MaxOps` the changes of the period,
`MaxConfirms` the confirmations: two can meet, or the second sets right what the first left;
that a third does so after two that met is part of the theorem.
`Bounds` (`Milestones`, `EngineeringChange`, `EtoCompensation`) gives each member of the
environment's repertoire in turn rather than all at once: a second milestone, a repeated
command, an echo and a fault with a close; approvals beside a release, beside each other, and
with failures, two crossing releases, links, the legacy endpoint; a repeated message, a
failure, a restart of a replica next to another and alone. `MaxDepth = 2` instead of 8 has
a row above the limit, at it and below it, and lets a version contain itself.
`Bounds` of
the orchestrator likewise sets overlapping ticks, two processes, faults and wild chains beside
one another one or two at a time; one clash is enough to show what it excepts, and after two
or three, each with what it brings about, hardly a job is left to promise anything of (the
theorems are for any number). Symmetry is used in `finance_ledger` (handlers, admins)
and `stock_out` (lists, confirmations), which have no liveness.

## 4. Fairness

Safety runs use a specification without fairness (`Safety`; `Spec` in `FinanceLedger` and
`InventoryStock`, `PickSpec`). With liveness, `Spec` adds:

* relay: weak fairness of each replica's next step (the interval timer keeps
  firing, a dead pod is restarted) and of a lock growing old. None for the broker:
  it may refuse for ever, and then the row is dead-lettered. None for stalls.
* emit relays: each tick, the client's flush while connected, the end of an outage.
* consumers: each worker's next step, restarts included (a worker that is off is
  started), and the server's ack timer. None for shutdowns, crashes or publishers.
* goods receipt (no run; for `EveryReceiptBooked`, section 6): what is committed is delivered
  (what `EveryRowSettles` gives for the relay) and a handler that was called runs on.
* milestones: each handler's next step, so that what arrived is handled. None for the
  command, the echo or the close.
* orchestrator: the enqueue loop, the timer, the passing of time, and messages and
  promise chains that go on.
* compensation: each await of a running call is answered, with an error or without.
* engineering changes: a call that runs goes on running; none for a caller to call.

Faults never have fairness; they are bounded by `MaxFaults` or `bound.faults`. Weak fairness is
enough everywhere because each of these steps stays enabled until it is taken.

## 5. The proofs

Every invariant and every action property that a passing run checks is proved for every value
of the constants: any number of rows, replicas, messages, calls, handlers, steps, attempts and
faults. The proofs assume only the named assumptions on the constants, which TLC evaluates in
the runs above. `EtoProofs` extends
`EngineeringChange` and the promises of `EtoCompensation`, `Milestones` and `EtoOrchestrator`, and
has these three as instances (`Undo`, `Pay`, `Chain`), each with the named assumption of that
module as the hypothesis of its theorems: `Chain!Safety => []InOrder`, say. They share no state: a name that two of them declare stands for that of the one a
theorem is about, and `Bounds`, on which the modules assume different things, is a constant of
its own for each. `Bare` in `OutboxRelayProofs` is `EmitRelay` in the same way.

* **Relay.** `IInv` = types + `CounterBounded` (a row still in the queue has
  retries left, in the table *and in every snapshot*) + `CounterHonest` (no counter,
  stored or remembered, exceeds the failures that happened) + `BrokerHolds` (the
  broker has what a relay is about to mark). The snapshots must be in the invariant
  because the write-back takes its counter from there. It gives `TypeCorrect`,
  `NoEventLost` and `DeadLetterEarned`, with stalls and stolen claims allowed. For each row
  nobody has stalled on, `Lease` (what a replica holds is PROCESSING with a fresh lock, and
  nobody else's) is inductive too and gives `ClaimIsExclusive` and
  `SettledStaysSettled`; for the other rows both are false (section 6). On top of
  it, `RelayKeepsContract` maps every step to one of `OutboxContract` or a stutter (with
  JetStream), and `DuplicatesAreExplained` uses `Accounted`: a row nobody stalled on has no more
  messages than publishes whose outcome was lost, and one more once it is about to be marked.
  The history counters stop at `SentCap`, which the theorem leaves open, so that it counts
  repetitions and causes however many there are.
* **Emit relays.** `IInv` = types + `CountersBehind` (no counter, stored or remembered,
  exceeds the emits, and one in hand is below the budget) + `InHand` (what is about to be
  marked was handed to the client) + `LossHasCause`. It gives `EmitTypeCorrect` and
  `LossIsExplained`.
* **Consumer.** `Progress` says what a worker knows at each position: the needed
  parts before the one in hand are committed, all of them when it is about to ack.
  With the types it is inductive and gives `AckMeansHandled`. `AcksAreFinal` adds
  `NoneStray`: a durable knows only stored messages, an absent one none.
  `RepeatsAreExplained` needs `Tidy`: an undisturbed message is with one worker at most, the
  server awaits its answer, and it has effects only of the parts before the one in hand.
* **Guard.** `SuccessIsRecorded` from the types and the ledger; `MarkedNeverRunsAgain`
  from `Late`: the ledger only grows, so a call that began after the mark is stuck
  among check, skipped and threw.
* **Shortage orders.** What a call has ordered follows from its position, what is
  recorded is ordered, and without a cause one call at most has passed the check
  (`OnePasses`). It gives `AnswersAreOrdered` and `RepeatsHaveCause`.
* **Picking.** `PickingKeepsOrders`: hiding the lists, the composition implements
  `ShortageOrders`, since picking only restricts which deliveries happen; so both theorems
  above hold of the two services together. `ListsFollowLines` needs `MetAreCrossed` (two
  confirmations at one list know of each other) and `CountIsRight` (the count of one that
  met nobody is still true when it writes the list).
* **Sums.** What audits a table is a sum over its rows, a fold, whose laws need induction over
  finite sets. Induction theorems that take a predicate cannot be used, so `SumTheorems` argues
  by a smallest counterexample: a set with no partial sums, or with two of them, has a smallest
  subset like it, and that one has a member to take away. From there `SumAdd`, `SumRemove`, and
  `SumUpdate`: a sum changes by what one row changes, whatever order the fold takes the rows in.
* **Goods receipt.** The types (`ReceiptTypeCorrect`) are inductive by themselves; with
  them each step of a delivery maps to a step of the guard or a stutter
  (`ReceiptsFollowGuard`), whatever requests and the transaction do. `ItemIsAudited` needs that
  what is booked is past its commit (`BookedIsPast`), since a second commit of one delivery
  would be booked once only, and that what was given back is finite (`GivenIsFinite`). `LevelIsAudited` adds `OneBusy` and `LevelIsCurrent`: while deliveries
  do not overlap, the row read is the row as it is. `DeliveredWasReceived` shows why overlapping
  requests are harmless to the status: a stale write can only lower `receivedQty`, so no row is
  ever ahead of the requests that completed (`RowsBehind`).
* **Finance.** `IInv` = `Placed` (a handler is at the places of its own message only) +
  `Alone` (one about to commit is the first, and alone with its message) + `Once`. It gives
  `TwiceNeedsTogether`, and with `BookTypes` `LedgerTypeCorrect`. `ClosedIsFrozen` rests on `Shut`:
  a handler that began while the period was not open never gets past its check. `WipAddsUp`
  needs that a handler about to write has found something (`Owed`) and that an account nobody
  opened is empty (`Opened`); the rows on the way are a sum over handlers, so it assumes that
  there are finitely many.
* **Inventory.** `Held` (an unraced reservation is on one call's list and still has the
  status it was found with), `InTurn` and `GivenOnce`, which counts the calls that are about
  to give a reservation back, carry `RestoresAlternate`. `LevelsAddUp` needs to know what passes
  between the rows of an inspection (`Placed`). `AllocatedWasInStock` also needs
  `AsAnnounced` (a request takes what it reserves beyond the shortage it announces) and `NoDebt`
  (levels fall below zero only by what adjustments wrote off). It is false when a row begins
  below zero, as the reservation that meets it lifts it to 0 for nothing: only an adjustment
  leaves such a row, and `written` counts what it wrote off, but a first row has no history. The
  instances never had one, the proof asked for it, and the assumption on `FirstRows` now says it.
* **Compensation.** A list names no step twice, and no list in a call's hands does (`UndoTyped`);
  on a replica with one call at a time, what was published, what a call still has to publish and
  what is owed by the list never exceed what was learned (`Alone`), and what leaves the list is
  covered or came late (`Kept`). `ReversalsAreEarned` and `StepsAreKept`.
* **Engineering changes.** `Roles` says what a call that approves has done by its position;
  `UpToDate` that the reading of a release nobody crosses contains what the newest snapshot has
  of the version; `SinceKept` that rows seen at the approval are still in what was
  published; `Approvals` counts announcements against approvals that released nothing. They give
  `ImplementedDelivers`, `AnnouncementsAreEarned`, `SnapshotsKeepRows` and `ImplementedStays`, for
  any depth, and for version trees that contain themselves. `ChangeTypeCorrect` needs `TreeInv`:
  the rows of a version are numbered without gaps, what a call works on and a release has yet to
  walk exists, and a row is paid for when its call begins, not when it is written.
* **Milestones.** `ToldOf`: whoever names a status, the row, the copy in crm, a letter, a handler
  with a reading in hand, has its cause behind it. `Accounts` counts letters and handlers on the
  way against what was issued and announced, over the finitely many handlers that run (`FewRun`).
  `MilestonesTypeCorrect` needs `DraftsInHand`: each handler about to send or mark a row has a draft
  of its own, so their count never falls below zero.
* **Orchestrator.** Its theorems are for any number of steps, replicas, overlapping ticks,
  attempts and faults. `ChainTypeCorrect` needs that what is in hand has begun
  (`InHandIsBegun`). `StepsInOrder` rests on `Order`: the jobs that have begun are the first
  ones, a promise chain about to unblock a job has all before it begun, and while no job was
  completed twice, at most one promise chain is on its way to unblock a job that is still
  BLOCKED (`Pending`), and then all that have begun are done. Each completion of another job,
  by whatever replica, is by the last that has begun; the second completion of one job is what
  breaks it, and the statement excepts just that. `ChainIsAPipeline` adds `Knows`: of a job
  outside `met`, a tick and a promise chain that have it in hand find it in the status they read
  (`TickKnows`, `ChainKnows`), since whoever else could have written it would have had it in
  hand as well (`HasAlone`); so it is `Settled`, done for good and compensated only when
  failed. No step both writes a job and takes one in hand (`UpdatesTakeNothing`): a step lets
  jobs clash (`PipelineClashes`), moves one (`PhaseMoves`) or reverses one
  (`PipelineReverses`). A job begins after jobs that are done or one that clashed
  (`BeginsAfter`), because `redone` is part of `met`.

**Model-checked only:** liveness (`EveryRowSettles`, `EveryEventDelivered`,
`EveryMessageHandled`, `EveryChainEnds`, `EveryReachRecognised`, `EveryCallEnds`,
`EveryCompensationEnds`), which rests on fairness and ENABLED, out of TLAPS's reach; and the
counterexample of `milestone_loop`.

## 6. What does not hold

One documented claim is refuted by a run; the quotes are in `PROJECT.json` under `findings`.

* `InvoicedOnce`: finance answers `finance.payment.milestone.reached.v1` with an event of
  the same type; each round issues another invoice at KSeF and recognises the revenue
  again.

Further claims are stated in the modules as definitions that do not hold. They are
not runs of their own; each can be seen by checking the named property on the
named variation of a run.

| Property | Variation | What happens |
|---|---|---|
| `EveryReceiptBooked` | `receipt_safety` with `Spec`, `Overlaps = {FALSE}` and no fault | the idempotency key of a goods receipt is the order's id: the second partial receipt is taken for a redelivery and never booked, although `docs/EVENTS/proc.material.received.v1.md` says that each increases `StockLevel` |
| `RetryBudget` | `relay` with 1 row and no faults | the counter is computed from the snapshot, and a replica with an older one winds it back: more publishes than `OUTBOX_MAX_ATTEMPTS` |
| `SettledIsFinal`, `ClaimExclusive` without their `\ stalled` | `relay` | a replica stalled past the reclaim age overwrites what another settled; the update has no `lockedBy` in its `where` |
| `FrozenOnceReleased` | `plm` with `Bounds <- Alone` | a component is added to a released version without an order, against `docs/MODULES/01-plm/DOMAIN-MODEL.md:37` |
| `NoCycles` | `plm` with `Bounds <- Alone` | a machine in a frame in the machine, against `docs/MODULES/01-plm/DOMAIN-MODEL.md:36`: adding a component looks for a double one only |
| `OrderedWasShort` | `stock_out` | a pick is announced under the subject of a shortage, and procurement orders what was just picked |
| `NothingLost` | `emit_both` | one outage after `emit` loses an event whose row is PROCESSED |
| `OnePath` | `durable` with `Workers <- OneWorker` and no faults | `inv.controller.ts` handles `pm.material.requested.v1` although the durable does, too: one request, two reservations |
| `AtMostOnce` (guard) | `stock_out` | two overlapping deliveries both pass the check |
| `StockLevelIsAudited` without its `~overlap` | `receipt_safety` with two orders | two receipts of a SKU at once: one increase of `StockLevel` is lost, while `Item` has both |
| `EventsMatchOrder` | `receipt_safety` with `Quantity <- Unstated` | the event carries the whole order, `receivedQty` grows by 0 |
| `EveryChainEnds` without its `calm` | `orch` | the first step completes before the second job is written; nothing ever unblocks the rest |
| `InOrder` without its `redone` | `orch` | two replicas hear one completion, both complete the job and unblock a step each |
| `compensated \cap everDone = {}` | `orch` | a step is found overdue, and failed and compensated, while its completion is being written; one process, one tick and a delay are enough |
| a DONE job stays DONE | `orch` | the same, or an overlapping tick that sets a job of an older snapshot to IN_PROGRESS again |
| no job begins after a FAILED one | `orch` | the same, and the late completion, or the second one, unblocks the next |
| `ImplementsPipeline` with `met` always empty | `orch` | all of these |

What the models had to follow, and a reader of the code should know:

* **Finance.** In a closed period the journal throws *after* labour was booked, so each
  redelivery books the labour again. Labour, time entries and reliefs post into closed
  periods, whereas `period-close.service.ts:76` says "Hard guard for all money-moving posts".
  Relief throws, and no AR invoice is created, unless accounts with the literal ids
  `mock-wip-account-id` and `mock-revenue-account-id` exist. With JetStream on, the Nest
  handlers of `finance.revenue.reversed.v1` and `finance.commitment.released.v1` return early
  and the worker does not dispatch them. An order credits 201-AP through
  `RecordTransaction`, which lowers the balance, and through `createApBill`, which raises it; its
  `ProjectCost` row never enters the WIP balance, and the release of the commitment leaves it
  there. A revenue reversal without an amount reverses all revenue of the project and cancels all
  its receivables; a second release of a commitment under another correlation reverses
  again. Reversals that a closed period refuses are acked and lost. begin-close racing
  close sets a CLOSED period back to CLOSING. A relief written under its BOM component is
  not found under its reservation.
* **Inventory.** BOM reservations are clipped to the stock without notice; a restore gives
  back the whole quantity, each time around. A failed update to ACTIVE is given back
  again. An inspection moves stock in four statements without a transaction. A failing
  query loses the release and acks it. A reservation lifts a negative level to 0.
  Reservations of requests have no work order and are never released.
* **Shortages.** The key collapses two genuine shortages of the same item, project and
  quantity; a ledger error after the order was created orders again, against the comment
  "fall through once".
* **Picking.** A list takes every ACTIVE reservation of the project, also those on another list,
  and a pick neither lowers `StockLevel` nor ends the reservation. Two picks of one item and quantity
  share the key of procurement's guard, so one order stands for both. Confirming a line with
  quantity 0 makes it PENDING again. A list two crossing confirmations left IN_PROGRESS stays so
  until a line is confirmed once more. A line confirmed under another list's id leaves its own
  list as it was; a list without lines can be COMPLETED that way.
* **Engineering changes.** A second approval of an order announces and releases again; one
  without `rereleaseBoms` sets IMPLEMENTED back to APPROVED if it read the order before. Nothing
  sets REJECTED. The order's version need not exist. Two releases that cross may publish the
  older reading last.
* **Compensation.** A step that completes while the compensation runs is cleared with the rest
  and not reversed. Two calls on one replica reverse everything twice, and so do a call on each
  replica: only their receivers' lookups (finance, inventory) stand against it.
* **Milestones.** Every round of the loop is heard by each replica. `READY` overwrites
  `RECOGNIZED`. A closed period refuses the KSeF event for good. Errors of the invoice row
  and of the outbox row are dropped in tax-legal. In the sandbox mode, the default, a failed
  send is not dropped but answered with a reference made up on the spot: `INVOICED` and
  `RECOGNIZED` then stand for an invoice that KSeF never had, which `StatusIsEarned` says
  (`invoiced` counts both). CRM's write of the whole list loses a
  concurrent update of another milestone.

## 7. What is not modelled

* The Temporal bridge and its fallback runner: off by default; the runner walks a list as
  `EtoCompensation` does, without its memory.
* MES, HR, the rest of PM, CRM and tax: an insert or update with an outbox row each,
  whose relay, delivery and consequences are modelled. In PM also the shift of the
  schedule after an NCR.
* In finance: fixed assets and depreciation, the journal's lines, rates. In inventory:
  failed inspections, which write a log row, lots of reservations, genealogy. In procurement:
  ETA changes and the MRP projection. In PLM: the impact report of an order (read-only),
  the sync of product master data, quantities.
* EAM, approvals, DMS, search, MCP, IoT: thin CRUD or I/O.
* BI projections: derived data nothing decides on.
* Tenancy: a condition added to each query; one tenant is modelled.
* Statistics (SPC, AQL) and money arithmetic: floating point.
* Inside the modelled parts: payloads, headers and wording; the other chains of the
  orchestrator, which only share its `take` limits; millisecond ties of
  `nextRunAt`; the JSON copy of the saga, read only when the table is empty, and the demo
  trigger; stream limits and retention.

The share of lines the models cover is small because of what the repository is made of: about
a hundred stateless readiness services that report which files and settings are there, a
React frontend, smoke-test and generator scripts, and CRUD controllers whose only
behaviour over time is the outbox row they leave. The state that several processes
contend for is in the files listed in `PROJECT.json`, and most of these are modelled.

## 8. The plan

1. Done: the messaging layer (`OutboxRelay` with its contract, `EmitRelay`,
   `DurableConsumer`, `ProcessedEventGuard`), and on it `GoodsReceipt`, `ShortageOrders` with
   `Picking`, `InventoryStock`, `FinanceLedger`, `Milestones`, `EtoOrchestrator`,
   `EtoCompensation` and `EngineeringChange`, with proofs of every safety property the runs check
   and of the refinements of `OutboxContract`, `ProcessedEventGuard` and `EtoPipeline`.
2. The non-conformance of Quality with the schedule of PM, and the work orders of MES with
   the release of their reservations.
3. The sync of product master data and failed inspections.
4. `EtoCompensation` composed with `EtoOrchestrator` and with the reversals of `FinanceLedger`.

## 9. Running it

    cd tla
    tlc -workers 2 -config relay.cfg MCOutboxRelay
    tlapm OutboxRelayProofs.tla          # and the other Proofs modules

The pairs of module and configuration are the `runs` of `PROJECT.json`.
