# TLA+ specifications of the PrepShip client portal backend

This directory specifies the part of the backend (`src/`) where money and parcels can go
wrong without any test noticing: the code that runs in several processes at once, talks to
carriers that lose answers, and keeps its decisions in a few database rows. TLC checks the
specifications on small instances; TLAPS proves the main results for every instance.

## 1. The system

The backend is a Hono/Drizzle/Postgres application in TypeScript (`src/src`). HTTP requests,
a worker process and cron routes run concurrently and share only the database. There is no
lock between them except row locks inside a transaction, Postgres advisory locks, and
conditional `UPDATE ... WHERE` statements; a process may stop between any two statements, and
every call to a carrier or a marketplace may fail, time out, or succeed without an answer.

| Component | State it keeps | Operations | Talks to | Hard behaviour | Correct when |
|---|---|---|---|---|---|
| Return label slot (`services/returns.ts`, `return-label-purchase-intents.ts`, `return-label-slot.ts`, `labels.ts` void, `return-external-tracking-apply.ts`) | `returns` (status, linked shipment, billed rate), `return_label_purchase_intents` (state, reference key, generation, lease, rate, receipt), `shipments` | request a label (claim, quote, buy, record, persist, freeze the money, complete, link), recover an unknown outcome, void, assign an external label, resolve "no effect" | ShipStation; PrepShip customer money; shipment sync; tracking sweep | ambiguous provider answers, lost leases, crashes at every step, late workers, concurrent voids and requests | one active label, one live postage, none lost, billed at its own amount |
| Return lifecycle (`routes/client-portal/returns/*`, `shipment-tracking.ts`) | `returns.status`, inspections | create a return, receive, inspect, tracking sweep | label slot | two authorities write one status | receiving is never undone |
| Shipment sync (`shipment-sync.ts`) | `shipments`, watermark per account | read pages, upsert rows, promote orders | ShipStation; label slot; outbound labels | stale pages, rows inserted twice | the local label is authoritative |
| Outbound labels (`labels.ts`, `direct-label-persistence.ts`) | `shipments`, `orders.order_status` | create, persist a direct purchase, void | carriers, outbox, inventory deductions, shipment sync | unlocked check before buying; crash between buying and persisting | no postage forgotten; a direct label per opening; a void shown is real |
| Fulfillment outbox (`services/fulfillment/outbox.ts`) | outbox rows, confirmation status of shipment and order | enqueue, claim, process, complete, fail, retry by an admin | marketplace connectors | claims without a lease; three statements per transition; late failures | a shipped order is confirmed, once |
| Workflows (`services/workflows/*`) | runs, step runs, queue jobs | create, execute a DAG with retries and timeouts, cancel, retry a step | action registry | orphans of a wave that threw, expired jobs, cancel racing the executor | inputs before outputs; success is complete; jobs settle; no run stranded without a reason |
| Scheduler and job queue (`sync-scheduler.ts`, `sync-job-queue.ts`, `worker.ts`) | timers, advisory locks, in-process flags | ticks, exclusive jobs | all syncs | flag read before an await and set after it | one heavy job at a time |
| Inventory (`inventory-movement.ts`, `fulfillment-deductions.ts`) | ledger, stock and package quantities | move, deduct for an order, deduct packages | outbound labels, inbound | retries; unlocked read and write | a movement is applied once |
| Portal inbound (`portal-inbound-*.ts`) | inbound shipments, items, request receipts | create, import, preview, receive | inventory | replayed and partly deleted requests; SKUs edited under a receipt | a key saves once and answers whole; stock is booked as previewed, on its SKU |
| Shopify order sync (`shopify-order-sync.ts`, `connectors/store/shopify.ts`, `store-order-import.ts`, `order-items.ts`) | `orders`, `order_items`, cursor and failures of a store account | read pages, upsert, rebuild items, move the cursor, pause | the store, outbound labels (status) | orders change while pages are read; page cap; partial batches; two callers | nothing skipped; everything imported in the end |
| Print queue (`print-queue.ts`) | queue rows, in-memory jobs | add, print (with a timeout per order), confirm | outbound labels | a late order completes after its timeout | printed once, confirmed once |
| ShipStation order sync, rates, billing, analytics, settings, access control, UIs, direct-carrier endpoints | read models and caches | | | data volume rather than ordering | not specified here |

## 2. Modules

Each component has a module with the system, its fairness and its properties; a module with the
inductive invariant; a module with the theorems; and a module that instantiates it for TLC.

| Component | System | Inductive invariant | Theorems | Instances |
|---|---|---|---|---|
| Return label slot, return status, page writes of the shipment sync | `ReturnLabel` | `ReturnLabelInductive` | `ReturnLabelProofs` | `MCReturnLabel` |
| what the slot promises | `ReturnSlot`, mapped by `ReturnLabelRefinement` | `RefinementInv` there | `ReturnLabelProofs` | `MCReturnLabel` |
| what becomes of the postage of that slot | (properties of `ReturnLabel`) | `ReturnPostage` | `ReturnPostageProofs` | `MCReturnLabel` |
| Fulfillment outbox | `FulfillmentOutbox` | `FulfillmentOutboxInductive` | `FulfillmentOutboxProofs` | `MCFulfillmentOutbox` |
| Inventory ledger | `InventoryLedger` | `InventoryLedgerInductive` | `InventoryLedgerProofs` | `MCInventoryLedger` |
| what the ledger promises | `StockBook`, mapped by `InventoryLedgerRefinement` | `BookInv` there | `InventoryLedgerProofs` | `MCInventoryLedger` |
| Workflows | `WorkflowRun` | `WorkflowRunInductive` | `WorkflowRunProofs` | `MCWorkflowRun` |
| Outbound labels, run of the shipment sync | `OutboundLabel` | `OutboundLabelInductive` | `OutboundLabelProofs` | `MCOutboundLabel` |
| Portal inbound | `PortalInbound` | `PortalInboundInductive` | `PortalInboundProofs` | `MCPortalInbound` |
| what the portal promises | `InboundDesk`, mapped by `PortalInboundRefinement` | `DeskInv` there | `PortalInboundProofs` | `MCPortalInbound` |
| Shopify order sync | `StoreSync` | `StoreSyncInductive` | `StoreSyncProofs` | `MCStoreSync` |
| what the order tables promise | `StoreMirror`, mapped by `StoreSyncRefinement` | `SyncInv` | `StoreSyncProofs` | `MCStoreSync` |

How they meet. `OutboundLabel` composes what happens to the labels of one order: `createLabelV2`,
the direct endpoints, voids, the shipment sync with its watermark, and the status an import may
write. It knows of an enqueued confirmation only that it exists; what becomes of it is
`FulfillmentOutbox`, and what the shipment does to stock is `InventoryLedger`. Those three write
disjoint rows of one request, apart from the order's status, which `OutboundLabel` and
`InventoryLedger` both contain. What a
page of the shipment sync does to the label of a return is in `ReturnLabel`, since it is the link
of the return that it can hurt. `StoreSync` writes the orders whose status `OutboundLabel` guards;
`PortalInbound` writes movements that no deduction reads.

A definition whose comment begins with "Mutant" is not part of a specification: it is a plausible
bug, and `PROJECT.json` names the definition it replaces and the property that then fails.

## 3. `ReturnLabel`: the label slot of one return

### State

| Variable | Code |
|---|---|
| `ret` | the `returns` row: status, `returnShipmentId`, `returnCustomerShippingRate`. The rate is the key of the label whose frozen amount it is; `Amount` gives the amount, so two labels may cost the same |
| `intent` | the `return_label_purchase_intents` row: state, reference key, lease, whether a selected rate and which receipt is stored, linked shipment. `none` is "not inserted yet" |
| `ship`, `carries`, `frozen` | the `shipments` rows: absent, active or voided; which provider label each describes; whether the customer money is frozen |
| `attempt` | `attemptCount` |
| `page` | what a shipment sync has read and not yet written |
| `label`, `calls` | the provider (external): labels sold; create calls of which a post has been sent and not yet acted on |
| `pc`, `snap`, `goal` | where each request and each void stands and what it has read |
| `disowned`, `bypassed` | history: keys an operator, or the rejection of a repost, declared to have bought nothing; unfenced writes that landed on an intent that had moved on, and its key then |

A request is one call of `createReturnLabel`. Each of its separate statements and remote calls
is an action, so any two requests, voids, syncs and operators interleave between them. A
transaction under the lock of the return row (`acquireReturnLabelPurchase`, the two
transactions of `voidLabelV2`, `applyReturnExternalTracking`) is one action. The reads inside
such a transaction are taken at its commit; statements that do not take the lock, such as
`completeReturnLabelPurchase`, touch rows the transaction has then already read or not yet
written, which is the same as running before or after it.

A create call is several posts: the client (`lib/shipstation/client.ts:57-102`) posts again after a 429
or a 5xx, up to five times. The posts of one call carry one reference key (`external_shipment_id`),
under which the provider sells one label at most, as the code relies on; so `calls` holds the call
once, and it may be acted on at any time. What the posts of a call do change is what an answer means.
A 4xx that answers the only post is a rejection (`ReceiveRejection`). One that answers a repost is taken
for the same (`ReceiveRepostRejection`, `providerOutcomeIsAmbiguous` at `returns.ts:378`), though a post
before it may have sold the label and answered 5xx, or may sell it yet: the intent is marked failed,
its rate cleared, and its key is `disowned`.

`Crash` ends a request at any step, keeping what it wrote; it stands for process death, failing
statements and refusals of the customer-money service alike. A slot of `Requests` is reused: a
retry is a new request.

### Properties

Each is checked by the runs of section 10.

* `AtMostOneActiveLabel`, `ActiveLinkNeverDisplaced`: a parcel has one label it can travel under.
* `AtMostOneLiveLabel`: one return never pays two carriers. It holds as long as no stale recovery
  has landed (`bypassed`); rejected reposts and stale completions do not break it, since a key is
  rotated only past a voided label. Beside the shipment sync it is proved with a wider escape
  (`OneLiveLabelWhenFenced`, section 11).
* `PaidLabelAccounted`: postage that was paid for is on an active shipment, or held by the intent under
  its key, or the intent stands failed under its key and that key is `disowned`. The last is a loss the
  code does not notice (section 12): the property says that it happens in these two ways only, and that
  the intent still has the key, so the next claim finds the label again.
* `HeldPurchaseRecoverable`: what recovery needs is still there when a purchase is held. A claim under a
  key disowned before may be held without a rate while the old sale is live; no other can.
* `CompletedOwnsActiveLabel`, `RowsMatchTheirLabel`: the rows agree with each other and with the
  provider, and the customer is billed the amount of the label that is linked.
* `KeyRotatesOncePerVoid`: the idempotency key sent to the provider changes once per voided label.
* `ReceivedNeverRegressed`: the warehouse has the last word. It is proved (`ReceivedStands`) and implied
  by the refinement; no run repeats it.

The history variables are how the properties stay as strong as the code allows. Two statements
(`completeReturnLabelPurchase`, `recordRecoveredReturnLabelProviderReceipt`) match the intent by id
without its lease; `bypassed` records the key of the intent on which one of them landed though that key
was not its own. Each property excepts that key alone (`Overwritten`, `Recovered`), not every later
state, and a key in `disowned` is excepted only where the intent stands failed, or held, under it.
`docs/ps-423-return-operation-fencing.md:3` speaks of fencing without naming these two. Drop `Overwritten`
from `PaidLabelAccounted` and TLC shows a request that found the old label active completing the intent
another request is buying under: nothing holds that purchase any more. Drop `disowned` and it shows the
rejected repost.

### The promise: `ReturnSlot`

`ReturnSlot` says what all of this is for, with no requests, leases, keys, receipts or carrier: a
slot that holds at most one usable label, a return that shows one, labels that leave the slot only
by being voided while they are on view and never come back. Its state is four variables and its
moves are `Fill`, `Show`, `Assign`, `Void`, `Fail` and `Ship`. `ReturnLabelRefinement` maps it:

| Abstract | Concrete |
|---|---|
| `held` | the `shipments` rows that are not voided |
| `spent` | those that are |
| `shown` | `returns.return_shipment_id` |
| `status` | `returns.status` |

`ImplementsReturnSlot == Slot!Spec` is a property of the run `label_slot` and a theorem. Everything
between (quotes, claims, lost answers, recoveries, key rotations) is a stutter of the slot, and no
late request finds a way to show a label that was never held, to empty a slot that is not on view,
or to fill one that is full.

Not modelled: the offline path of test clients, the admin override (the portal does not send it),
the PDF attached to an external label (it writes only the document's path), return activity rows,
the order status a void resets, and a sync page whose order is unknown (its rows lose their order).

## 4. `FulfillmentOutbox`: confirming the shipments of one order to its store

| Variable | Code |
|---|---|
| `row` | the `fulfillment_outbox` row of each shipment: status, `attempts`, and `next_run_at` as now, later or never (`'infinity'`). Status `none` is "not inserted yet" |
| `shown` | `shipments.confirmation_status` |
| `canonical` | `orders.canonical_status`, one for all shipments of the order |
| `maker` | the request that bought the label: at which statement of the enqueue it stands, and the outcome it writes |
| `pc`, `batch`, `job` | each run of `processFulfillmentOutboxOnce`: where it stands, the rows it has claimed, the one it works on as it read it |
| `confirmed` | the store (external): the shipments it has been told of |
| `calls`, `retries` | history: calls made by runs, retries made by an operator |

Every statement and every call to the store is an action, because the code has no transaction
here. `createLabelV2` writes the row first and the statuses after it (`RowFirst`), the direct
carrier endpoints write the row last (`RowLast`); for a Walmart order the endpoint then calls the
store itself and marks row, shipment and order (`CallStoreDirectly`, `MarkAttempt`). A run claims
all due rows in one statement, takes one after another, calls the store, and writes the outcome in
three statements (`CompleteRow`, `FailRow`). `RetryExact` is the operator's command
(`processFulfillmentOutboxById`), which the code offers for Walmart rows.

Faults are a constant. With `"throw"`, any statement may fail: a run catches that once per row and
fails the row, and a failure of that ends the run. With `"crash"`, a process dies anywhere and its
claimed rows stay in `processing`.

Abstractions. A backoff ends at any moment after whoever set it has left the row (`BackoffEnds`):
the shortest is a minute, and each of the at most two statements that follow ends within the
statement timeout of 12 s. A batch is all due rows: one order has fewer shipments than the batch
limit. Each label is a new shipment, so the `ON CONFLICT` branch of the enqueue is never taken. A
connector exists and the label has a tracking number. Payloads and credentials are left out.

Properties.

* `OneRunPerRow`: overlapping runs (scheduler, cron route, the label request itself) never confirm
  the same shipment at once.
* `RetriesBounded`: the store is called at most `MAX_ATTEMPTS` times per shipment, whichever
  statement fails in between. Attempts are counted in the statement after the call, so this rests
  on no row being claimable between the call and the count.
* `SucceededWasTold`: nothing says "confirmed" that the store was not told, although the Walmart
  endpoint, the runs and the operator overwrite each other.
* `ShownAsSettled`: when all is quiet, each shipment shows what its row says (`ShipmentShowsRow`) and
  the order shows one of its rows (`OrderShowsARow`), for labels whose row is written last and
  without faults. With the row written first, as `createLabelV2` does (`outbox.ts:150`), a fast run
  may confirm it before the shipment is marked pending, which it then stays.
* `RowsSettle`: each row is confirmed or given up, unless a fault strands it. A claim has no lease, so
  with `Faults = {"crash"}` a claimed row does stay in `processing`.

Not modelled: shipments that need no confirmation, and the connectors. A void of a label whose row
waits changes nothing here: the row is confirmed to the store all the same (`labels.ts:902`).

## 5. `InventoryLedger`: the stock of one client

| Variable | Code |
|---|---|
| `items`, `inactive`, `named` | the committed `inventory` rows, of the client or of no client, and which of them have `active = false` or a name |
| `ledger` | the committed rows of `inventory_ledger`: what caused the movement, the row, the quantity |
| `status`, `cart` | `orders.order_status`; the lines of the order, and of each batch |
| `pc`, `work` | each process that ships or receives: its statement, the lines as it read them, the line it is at, that line's row, whether it will name it |
| `new` | what its transaction has inserted, and the rows it has named, none of it committed |

The code runs one READ COMMITTED transaction per order or batch. Each statement is an action; it
sees what is committed plus its own writes. An insert whose unique key is held by an open
transaction is disabled until that one ends (`InsertedElsewhere`, `RecordedElsewhere`); an insert
that meets a committed key is a conflict: for a movement `ON CONFLICT DO NOTHING` and a comparison
of the quantity, for an inventory row an error that aborts. After the movement of a line comes a
second write: a row that had no name when the transaction looked (`Look`) is given that of the line
(`Name`, `inventory-movement.ts:83-88`), and the update holds that row's lock to the end, so that
another order's `Name` of it waits (`NamedElsewhere`). A cycle of waits, for keys or rows, is broken by
the database, which fails one of them (`Deadlock`). An abort is `Abandon`: callers log and go on.

An order is shipped by `createLabelV2` or the external-shipped route, which read its lines long
before they deduct them (`ReadOrder`, `MarkShipped`), or by a sync whose conditional update
promotes it (`PromoteOrder`). Imports change lines and status, voids reopen the order, operators
add, deactivate, reactivate and name rows or clear a name, and a batch is retried with its `Idempotency-Key` at any time.
Processes of `Mortal` may die at any point; the others live on.

What the header of the module lists is abstracted: one client, one line per SKU, deductions
switched on, a retried batch with the same lines, no single adjustments; and `EditItem`, whose route
may also change a row's SKU and client, leaves both as they are.

Properties.

* `AppliedOnce`: each SKU of an order or a batch moves once, however often and by whomever it is
  shipped or retried. It is stated for SKUs of which only the client ever has rows, in one
  spelling (`ClientsOwn`). For others it is false, since the key of a movement holds the row that
  was found and not the SKU: two deductions of an order may settle on two rows of one SKU.
* `ImplementsStockBook`: see below. It implies `MovesWholeCarts`, which no run repeats: a commit that
  moves stock leaves a whole cart, at the quantities that transaction read; no line is missing, none
  stands at the quantity of an earlier edit.
* `StockedIsDeducted`: an order whose rows exist and have names is deducted once a process that lives on
  starts to, whatever other orders, batches and edits are under way and whoever dies holding keys. Each
  hypothesis is needed, and excludes what the code does lose:
  - `Stocked`, the rows: of a new SKU two transactions both create the client's row, one fails on the
    unique key and its caller only logs it (`labels.ts:531`, `order-sync.ts:271`, `shipment-sync.ts:501`);
  - `Stocked`, their names: two different orders that list two rows without a name in opposite orders
    take the row locks in opposite orders, and one is the victim of the deadlock. Drop `named` from
    `Stocked` and TLC finds it with the orders `o1` (`b, 2a`) and `o2` (`a, b`) of the run. No edit of an
    order is involved: rows lose their names, or come without one, by `PATCH` and by SKUs of lines
    that have no name;
  - `InOneOrder`: an edit between two shipments of one order makes them take the keys of its movements
    in opposite orders, one is the victim, and the survivor it relies on may die;
  - `AtStart`: the same, with two deductions that are already past their first line (it takes a third
    process);
  - a process that lives: one that dies right after the promotion loses the deduction, as no later run
    finds the order awaiting.

  Different orders never wait for each other's keys, which name the order. Over named rows they do not
  wait for each other's rows either.

The promise is `StockBook`: carts are asked to be moved, and a cart is booked whole and at once, each
line on one row of its SKU, whatever of it was booked before; no row is booked twice by one source,
nothing is booked that no cart has, and nothing is taken back. `InventoryLedgerRefinement` maps `booked` to
the committed ledger and `asked` to the carts that processes have read and work on. Statements, row
lookups, waiting for keys, rollbacks and deadlocks are stutters or a cart that is dropped: READ
COMMITTED transactions that overlap line by line move stock as if they ran one after the other. What
`StockBook` leaves open is which of two rows of a SKU a line settles on, and which of two edits of an
order is booked first; `AppliedOnce` is about the former.

Not modelled: package stock (read and written back without a lock at `fulfillment-deductions.ts:102`:
two shipments can take one package off between them), single adjustments, reconciliation scripts,
stock arithmetic.

## 6. `WorkflowRun`: one run of a workflow

| Variable | Code |
|---|---|
| `deps` | `dependsOn` of the stored specification: any graph, validated or not |
| `run`, `row` | the `workflow_runs` row and the status of each `workflow_step_runs` row |
| `job`, `slotTaken` | the pg-boss jobs of the run, and whether its singleton key is taken for the current 24 hours |
| `exec`, `task` | each execution (a try of a job) and each `runStep` in it: its statement, its attempt |
| `handling` | the execution the worker waits for |
| `request`, `calls` | the API request under way |
| `owner`, `unsent`, `overlaps` | history: who alone has written since it began; requests that ended without a job; jobs that expired under a live execution |

`executeWorkflowRun` works through the graph in waves with `Promise.all`, which throws at the first
step that throws: the rest of the wave goes on as orphans beside the next try of the job. Nothing
fences the writers. Each statement, each answer of an action and each expiry is an action here;
`Throws` and `StepThrows` are failing statements, `WorkerDies` takes every execution of the process.

* `ValidationIsExact`: the depth-first search of `validateWorkflowSpec` (`Visit`, a recursive function
  as in the code, and its two loops, `VisitEach`) accepts exactly the graphs whose dependencies are steps and in which every group of
  steps has one that waits for none of the group.
* `SucceededIsComplete`: the wave loop, which ends when no step is ready, never reports an early end
  as success.
* `OutputsHaveInputs`: every action, of orphans too, starts after all its dependencies have answered,
  and an output is reported with all it was computed from.
* `RowsAgree`: after an execution beside which nobody wrote, rows and status agree.
* `StrandedRunExplained`: a run left queued or running with nobody at work had a job out of tries, a
  request that never got its job onto the queue, or a job that expired under a live execution.
* `JobsSettle`: each job is completed or out of tries.

`Begin` overwrites the status it read earlier (`executor.ts:178`): a cancel that arrives in between
is lost, so no property says that a cancelled run stays cancelled.

Left out: inputs and outputs of steps, refused names and ids, and what an action does after its
timeout (the registered ones only read and draft). There is one worker with batch size one.

## 7. `OutboundLabel`: the labels of one order

| Variable | Code |
|---|---|
| `order` | `orders.order_status` |
| `kind`, `postage` | the carrier (external): who sold a label, and whether it is live |
| `row`, `dup`, `resynced` | the `shipments` rows of a label: PrepShip's, the one the sync inserted, and whether the sync has overwritten the source |
| `confirmations` | the labels with a `fulfillment_outbox` row |
| `req`, `void`, `sync`, `seen` | where each label request, each void and the run of `syncShipments` stand, what they hold, and what is behind the watermark |
| `opening`, `persistedIn`, `struck`, `late` | history: how often a void reopened the order, in which opening a row was inserted, the labels whose request met a fault, the direct labels refused because the order had closed |

`createLabelV2` looks for a label without a lock and buys one later; the direct endpoint buys and then
locks the order row. `SoldUnheard` is a sale whose answer is lost, including a 5xx after which the
client posts again without an idempotency key (`lib/shipstation/client.ts:92`). `RequestFault` ends a
call at any statement. The three reads of `SyncDecide` (both row lookups and the guard of the
order) are one action: they follow each other without a remote call between them. `Marketplace` says
which import may reopen a cancelled order, `Asks` which kinds of label the calls ask for.

* `PostageAccounted`: live postage that no row shows is held by a running request, was struck by a
  fault, or is a direct label whose order closed while it was bought; and a row without a
  confirmation has an unfinished request or a fault behind it.
* `OneDirectLabelPerOpening`: the row lock lets one direct label be persisted between two voids.
  Nothing says this of `createLabelV2`: two requests may both buy (`labels.ts:579`), and both labels
  stay accounted for.
* `VoidShownIsVoid`: a ShipStation label that any row shows as voided is voided in its books, however
  stale the page that wrote it. A direct carrier's label is voided locally only (`labels.ts:887`)
  although `LABEL_SHIPMENT_SCOPE_REVIEW.md:50` has voids go to the carrier.
* `OrphansAreFound`: the sync finds a forgotten ShipStation label that its watermark has not passed,
  unless the order has an active PrepShip label when the sync comes by.

Left out: the deduction, the tracking number on the order, batch creation (a loop over
`createLabelV2`), the print queue.

## 8. `PortalInbound`: saving and receiving inbound shipments

| Variable | Code |
|---|---|
| `status`, `receivedQty` | `inbound_shipments.status`, `inbound_items.received_qty` |
| `receipts` | `portal_inbound_create_requests`: key, part, hash of the request, shipment |
| `ledger`, `sku` | the movements of receipts, `inventory.sku` |
| `save`, `receiver` | the calls that save, the operators with the receiving form |
| `savedBy`, `confirmed` | history: which call saved a shipment, which preview was confirmed |

Each call is one READ COMMITTED transaction: what it writes shows at its commit. A call takes its
locks and reads what decides it in one step; what others do between the lock and the reads could
as well come before it. Cancelled shipments are received ones here, as both are refused alike.
Shipments are deleted by hand (external), which sets the receipt's shipment to null. A lost answer is
a commit that answers nothing; the caller retries with its key.

* `KeySavesOnce`: of all calls with a key, create or import, one saves, and none that repeats it is
  failed by the primary key of the receipts: it waits on the advisory lock and replays.
* `StockAsShown`: a shipment's movements and quantities are those of the preview its receiver
  confirmed; one nobody confirmed has none.
* `ImplementsInboundDesk`: see below. It implies `StockReachesItsSku` (every unit is booked on a row that
  carries the SKU of its line at that moment) and `AnswersAreWhole` (an answer holds all shipments of
  one request with the same details), which are proved and which no run repeats.

The promise is `InboundDesk`: a request saves all its shipments at once, and no second one does under
its key; a call that asks the same may be told of the same shipments, while none of them has been
deleted; an open shipment is received once, and what it brings is booked in that step, for each
line that brings stock on one row that carries its SKU then. `PortalInboundRefinement` maps the tables
and the answers; receipts, hashes, advisory and row locks, previews and transactions in progress
are not seen. So edits between the preview, the match and the booking, several operators, and
failures after either read, all look like receipts and saves made one at a time.

Left out: authorization, the contents of a shipment, client resolution, planning texts. Shipments
saved as received start with quantities of zero.

## 9. `StoreSync`: the Shopify orders of one account

| Variable | Code |
|---|---|
| `stamp` | the store (external): the second of each order's last change |
| `row`, `items` | `orders` and `order_items`: the version each holds |
| `cursor`, `error`, `strikes` | `sync_cursor_at`, `last_sync_error`, `sync_failure_count` |
| `run` | `syncOneAccount` of each caller: the cursor it loaded, pages, place in the sort, what it read |
| `storage` | `storageEnsurePromise` of each caller's process: not asked for yet, resolved, or rejected |

A run reads pages sorted by change and id (`fetchShopifyOrdersSince`), stops at the cap as if it were
done, upserts the batch in one statement, rebuilds the items in a second one from the rows, and then
moves the cursor. Each of these is an action, and orders change between them. An order that changes
while pages are read is in the batch twice, and the `INSERT` fails on it (`WriteClashes`): recorded as
`internal`, retried by the next tick. `Refreshed` is the second read with a fresh token, `FetchFails`
everything else the store answers, `DatabaseFails`, `RecordingFails` and `Crash` the rest.

Before it rebuilds, a run awaits `ensureOrderItemsStorage` (`order-items.ts:18-23`), a check of the schema
whose promise the process keeps for its life, whoever asked first: the sync, an admin route or the
analytics cache. `CheckStorage` resolves it at any moment, `StorageFails` rejects it, and then
`RebuildRefused` is what happens to every run of that process that has orders to store, until `Crash`,
which is also a restart. A run without orders asks for nothing (`Checked`).

The trigger `prepship_order_items_refresh` (`drizzle/0025_order_items_sync_trigger.sql:77`), which the check
requires, replaces an order's items within the upsert already. The model leaves them to `Rebuild`: what
holds with the items behind the row between two statements holds without that gap.

* `NothingSkipped`: an order last changed before the cursor is stored as the store has it, its items
  with it. No later run would ask for it.
* `EverythingImported`: in the end all orders are stored as they are, unless the account is paused or the
  storage check has failed in every process (`StorageRefused`). Then each run stores the rows of the first
  pages and fails, the cursor stands still, and orders past the page cap are never read: drop
  `StorageRefused` and TLC shows it after one fault.
* `NeverOlder` (proved only): nothing stored is replaced by an older version.
* `ImplementsStoreMirror`: see below.

Three hypotheses, each needed:

* *One caller.* `routes/cron.ts:80` starts a run that the scheduler's flag and lock do not see. With two
  callers TLC finds `NothingSkipped` violated: one reads an order, the other reads and stores a newer
  version and moves the cursor, the first writes its older one. `shopify-order-sync.ts:168` and the
  design of 2026-07-08 (line 174) call a re-run of any window safe, which is true of runs one after
  another.
* *A page shows seconds that are over.* A change dated in a second that a page has already shown
  (`Change`) could be passed by the page. The cursor comparison is `>=`, so only the pages of one
  run are exposed.
* *Ties are few.* At most `Ties` orders change in one second, fewer than a run reads
  (2000 in the code); otherwise the cursor stands still, and only `EverythingImported` suffers.

The promise is `StoreMirror`: the tables follow the store. A row takes a version between its own and
the store's, and rows of orders never imported stay as they are; items are made those of their rows;
the cursor moves on, past changes that both tables have, and never past the latest change of all.
`StoreSyncRefinement` maps store, tables and cursor onto themselves; runs, pages, batches, tokens, the pause
and all failures are not seen. `Save` is the one action whose step is not plain from the code: that what
it passes is stored takes all of `SyncInv`.

Left out: what an order contains, the status protected by the upsert, settings of the account, callers
that share a process and its storage check (with one caller there are none), accounts beyond the one (each fails alone, `shopify-order-sync.ts:185`).

## 10. Runs

| Run | Instance | Shows |
|---|---|---|
| `label_slot` | 2 requests, 2 voids, 1 external label, 2 keys, 2 claims, order skipped by the sync | the state properties of `ReturnLabel`, and that every step is one of `ReturnSlot` |
| `label_slot_sync` | 1 request, 1 void, 1 external label, 1 row the sync may insert | no linked label is displaced although the sync writes stale pages |
| `outbox` | 2 shipments labelled by direct endpoints, 2 runs, no faults, fairness | rows settle; shipments and order show the outcome |
| `outbox_faults` | 2 shipments, one by each path, 2 runs, both faults | one run per row, calls bounded |
| `outbox_walmart` | 1 Walmart shipment, 2 runs, 1 retry of an operator, both faults | nothing says succeeded that the store was not told |
| `inventory` | 1 order edited between `a` and `b, 2a`, 1 order `a, b`, 1 batch `b`, 2 processes of which one may die, a row of `b` without a client, any rows of the client at the start, named or not, fairness, within `SecondAlone` | the properties of `InventoryLedger`, and that every step is one of `StockBook` |
| `workflow` | every graph over 2 steps, 2 attempts, 1 job with 2 tries, 1 overlap, fairness | jobs settle; rows agree with the status |
| `workflow_graphs` | every graph over 3 steps and an unknown one, 2 jobs, 1 cancel or retry | validation, completeness, inputs, stranded runs |
| `outbound` | 2 requests of any kinds, 1 void, 2 labels, the sync, 2 faults | the safety properties of `OutboundLabel` |
| `outbound_orphans` | 1 request, 1 void, 2 labels, the sync, 2 faults, fairness | forgotten labels are found |
| `portal_inbound` | 2 saves under one key or none, batches of 2, 2 receivers, 2 inventory rows, 2 edits or deletions, 1 fault | the properties of `PortalInbound`, and that every step is one of `InboundDesk` |
| `store_sync` | 3 orders of which one is never imported, pages of 1, cap of 3, 3 seconds, ties of 2, 2 faults (the storage check among them), fairness | nothing skipped, everything imported, and that every step is one of `StoreMirror` |

**Bounds of `ReturnLabel`.** Two requests are enough for every pair of steps to interleave, and
retries reuse the slots, so long sequences of requests are covered. Two keys (`MaxKey`) are one
rotation followed by a replacement, which is where stale work meets new work; two claims
(`MaxAttempts`) are a failed purchase followed by another, that of a rejected repost included, or the
purchase of the replacement. The posts of a call need no bound: they are one call that may be acted on. Two
voids compete for one rotation. Amounts differ per key, so that billing the wrong label is visible.

**Bounds of `FulfillmentOutbox`.** `MAX_ATTEMPTS` is 6 in the code and 2 in the runs: one retry, then
the row is given up. Two runs are every pair of overlapping ones; two shipments compete for the
order's status and share a batch. `MaxRetries` bounds the operator of the Walmart run, the only one
whose calls the code does not bound.

**Bounds of `InventoryLedger`.** Two processes are every overlap of shipments and retries, and each
starts again without limit. Two SKUs in opposite orders are enough for a deadlock: between two
deductions of `o1` for keys, between one of `o1` and one of `o2` for rows without a name. Two carts are
an edit, quantities 1 and 2 a stale one. `MaxCopy` is 0: of a SKU without a client one row exists; the
property that several could disturb is stated for SKUs without any. The run has a state constraint,
`SecondAlone` in `MCInventoryLedger`: `o2` is not reopened once it is being deducted, and where it is
shipped no batch is received and the row without a client is not there; nor is that row there while a
row of the client has no name. So the second order meets the first, its edits and reopenings, deaths
and rows with and without names, but not the batch, which meets the first order alone. The theorems
have no such bound.

**Bounds of `WorkflowRun`.** Three steps are enough for a fork, a join, a cycle through a third step, and a
wave of two before a step that waits for one of them; two steps with two attempts are the smallest
wave with an orphan that retries. Two jobs are a retry beside the first one's last try.

**Bounds of `OutboundLabel`.** Two labels and two calls are every race between two purchases, or a
purchase and the replacement of what a void freed; two faults are a lost answer followed by a
failing sync. `OrphansAreFound` is checked with one request, whose purchase may be forgotten twice.

**Bounds of `PortalInbound`.** One key, shared or not sent, with two sets of details is every pair of
calls; three shipments are a batch and one more, or two creates. Two rows make an edit turn a unique
match into two or none. Quantities are 1: that a line of zero adds nothing is left to the proof,
which covers all quantities.

**Bounds of `StoreSync`.** Pages of one order make every boundary a page boundary. Three orders and
three seconds let an order move past the place of a run while another is still to come. The cap of
three pages is passed by batches in which an order occurs twice; two ties meet on a page boundary.
The pause threshold is 3 in the code and 2 here, so that one refused token does not pause and two do.

**Fairness.** `ReturnLabel` assumes none and claims no liveness: a held purchase waits for an
operator by design, and requests retry only when a user does. `FulfillmentOutbox` assumes that
requests run on and that time passes, and that runs do: the scheduler ticks every minute
(`sync-scheduler.ts`), and each statement and call of a run has a timeout. `InventoryLedger` assumes
only that a process in a transaction takes its next statement when it can. `WorkflowRun` assumes that
the worker polls, that a statement answers or fails, that an action answers or is timed out
(`runStep` races it against `timeoutMs`), and that pg-boss expires active jobs. `OutboundLabel` and
`StoreSync` assume that the sync's tick comes again and a run that meets no fault goes on, and
nothing of requests or voids. No specification assumes that a fault happens or that an operator acts.

**Symmetry** is used in runs of safety properties only, over identifiers no property names. Deadlock
is checked for `ReturnLabel`, `OutboundLabel` and `StoreSync`, where a request, a tracking event or a
tick is always possible. Elsewhere the system may really stop: an outbox is done, processes have
died, a workflow has ended, and the calls of `PortalInbound` are a finite set of which each ends.

## 11. Proofs

Every theorem is for all values of the constants: sets of any size and any bounds.

`ReturnLabelProofs`

* `TypeCorrect`: `Spec => []TypeOK`. `TypeOK` is not inductive alone: `PersistShipment` writes
  `snap[r].key`, which must be a key. `TypeInv` adds what each step of a request may rely on
  (`RequestsUsable`), what the intent's state says of its columns (`IntentUsable`), and that nobody
  acts on a key not yet drawn (`KeysDrawn`).
* `OneActiveLabel`: `ASSUME Mirrors = {} PROVE Spec => []AtMostOneActiveLabel`, and `OneKeyPerVoid`.
  The hypothesis is that the sync does not write this order's rows; with it the sync can un-void a
  row and the property is false. The inductive invariant `SlotInv` says that the rows of older keys
  are voided and those of newer keys absent, that a purchase whose row is or may yet become active
  owns the intent in `purchased` or `completed`, and that an active external label is the linked
  one and excludes both. Its proof classifies every step by its effect on the slot (nine effects).
* `LinkNeverDisplaced`, `ReceivedStands`: two action properties, from `TypeInv` and the guards of the
  five writers of the row, with the sync included.

* `SlotImplemented`: `ASSUME Mirrors = {} PROVE Spec => ImplementsReturnSlot`. The mapping sends the
  initial state to the initial state, and each of the nine effects to a move of the slot or to a
  stutter. It needs `SlotInv` and, beside it, that what a return is about to show has a row
  (`TargetsPersisted`).

`ReturnPostageProofs`

`PostageInv` is an inductive invariant of the whole specification, the shipment sync included. TLC
checked it with the constants of `label_slot`, and with one request and one void beside two rows of
the sync. Its heart is `EverySaleCovered`: whatever a call still under way may buy, and whatever was
bought and not voided, the intent answers for: it is under the key of that purchase and either
completed, or has a rate and is held, or is being purchased under the lease the call was sent with
(`Covered`). That is not inductive alone. It needs

* that a lease belongs to one request, to one key, and to at most one call (`LeasesDistinct`,
  `CallsSent`), or a lost owner could record another's receipt;
* that a receipt is kept for the key it was given for (`ReceiptsMatch`), and what a request is about
  to link has a row and frozen money (`TargetsPersisted`, `TargetsFrozen`), for the row to be true;
* that the sync knows nothing the carrier did not tell it, and voids no row whose label is live
  (`SyncTold`, `VoidsAtCarrier`), or a label would leave the books while it can still be used;
* that keys are rotated past voided labels only (`OldKeysVoided`), and a row is there only once its
  key was drawn (`RowsDrawn`, `CompletedOwnsRow`).

The disjuncts with `Recovered`, `Overwritten` and `disowned` mark how far each part survives the two
writes that are not fenced and the keys declared unsold, and for which keys: that only keys drawn
were sold (`CallsSent`) holds until a stale recovery, `ReceiptsMatch` and `VoidsAtCarrier` for keys without one, `CompletedOwnsRow` and `OldKeysVoided` for keys with
no unfenced write, `EverySaleCovered` for those that are not disowned either, and a request that was told
of a rejection (`CallsSent`) may leave a post in flight under a disowned key only. `DisownedDrawn` says
that such a key was the current one, and that a fresh key is not disowned.

* `PostageAccounted` (`PaidLabelAccounted`), `HeldRecoverable` (`HeldPurchaseRecoverable`) and `RowsTrue`
  (`RowsMatchTheirLabel`): without any hypothesis on the constants, posts that are repeated and rejected
  included, and with the exceptions by key that the properties state. The runs check them for an order
  the sync skips; the theorems say that a sync that revives, inserts or voids rows from old pages
  breaks none of the three.
* `OneLiveLabelWhenFenced`: no two live labels until an unfenced write lands, beside the sync too. A
  live label is that of the current key (`LiveIsCurrent`).
* `OneLiveLabel` (`AtMostOneLiveLabel`) and `CompletedOwnsLabel` (`CompletedOwnsActiveLabel`), under
  `Mirrors = {}`, from `PostageInv` and `SlotInv` together. `CompletedOwnsActiveLabel` is false beside
  the sync, as TLC shows on the instance of `ReturnLabelSync.cfg`: a void has told the carrier, and
  the sync writes the row voided before the void's second transaction releases the intent.

`FulfillmentOutboxProofs`

* `OutboxTypes`, `OutboxInductive`, `OneRunAtATime`, `RetriesAreBounded`. The last two speak of the rows
  that only the outbox writes (`Own`). `RetriesBounded` is not inductive: a run writes the attempts it
  read at the claim. `OutboxInv` adds that a claim not yet taken is of a row in `processing` with the
  attempts the row has (`ClaimFresh`), that a row at work cannot be claimed and has at most one call
  that is not counted (`JobCounted`), that a row that may be claimed has a call left
  (`DueRowCounted`), that one run touches it (`OneToucher`), and that its request inserts it once
  (`RowInsertedOnce`). One lemma per action; the row the action is about and all others apart.
* `SuccessWasTold` (`SucceededWasTold`), for every row, Walmart's too, and whatever fails. The property is
  not inductive, because success is written three statements after the store was told: `ToldInv`
  adds that whoever is about to write it was (`WritersWereTold`), and that the direct endpoints have
  no statement of their own for the order's source (`DirectKeepsSource`).
* `SettledIsShown` (`ShownAsSettled`), for an order with a shipment. `SettledInv` adds to `OutboxInv` what
  the row says at each statement of the run that works on it (`RowAtStep`) and that shipment and row
  agree once the second of the three statements is done (`ShipmentAgrees`). It rests on one run per
  row: a second one could write the shipment between the statements of the first.

`InventoryLedgerProofs`

* `LedgerTypes`, `LedgerInductive`, `MovedOnce` (`AppliedOnce`), `WholeCartsMove` (`MovesWholeCarts`).
  From `LedgerInv`: no key stands twice, committed or not (`KeysUnique`); no row but the client's own
  is of a SKU in `ClientsOwn` (`OnlyClients`), in open transactions too; the row of a movement, or of the name that follows it, is one
  the transaction sees (`RowFound`); the lines a transaction has
  gone past are in the ledger or will be with its commit (`LinesMoved`), which survives the commits of
  others because the ledger only grows.
* `StockBookImplemented`: `Spec => ImplementsStockBook`, without any hypothesis. `BookInv` adds that what a
  transaction has inserted are movements of lines it has gone past, one of each (`NewOfLines`). Every
  step is classified by what it does to the process that takes it (`StepEffect`): it begins, looks,
  inserts, gives up or ends. Only an end books, and `EndsBooks` names the row of each line: that of
  the movement the transaction inserted for it, or of the one it found.

`WorkflowRunProofs`

* `TypeCorrect`, `InputsBeforeOutputs` (`OutputsHaveInputs`), from `OrderInv`: a try nobody has been
  given is untouched (`TriesFresh`), and an execution in its loop works on an accepted graph, on steps
  whose dependencies it has done (`ExecOrder`).
* `SearchIsExact`: for any finite set of steps and any graph over them, `Accepted` holds of exactly the
  graphs whose dependencies are steps and that have no cycle; `ValidationExact` states it of the
  stored workflow at any time. It says what a recursive function computes, so it takes induction,
  which here is by least counterexample (`LeastNat`, `MinimalSubset`, both from the library's theorem
  that a well-founded relation has minimal elements): no induction theorem with an operator for a
  parameter is needed. In four layers:
  - `Recursion`: a function given by values at arguments of smaller, bounded rank exists;
  - `EachExists`, `EachIs`: so the loop `VisitEach`, a fold over a finite set, satisfies its equation,
    and returns the same for two visits that agree on its steps (`EachAgrees`);
  - `VisitExists`, `VisitDefined`: so does `Visit`, because a deeper call has fewer steps off its path
    (`RoomShrinks`): this is the termination of the search;
  - `VisitSound`: what is visited without a cycle found is `Orderly` if it was, that is, closed under
    dependencies and without a group in which every step waits for another of it. `VisitQuiet`: on a
    graph without cycles no call finds its step on its path, because each step of the path waits for
    another of it (`Chain`).
* `SuccessIsComplete` and `RowsAgreeWithStatus`, from `SearchIsExact`: among the steps of an accepted graph
  that are not done, one waits for none of them, so it is ready, so the loop has not ended.
* `StrandedRunsExplained`: an unsettled run has a job or is about to get one (`StrandedInv`), since
  without an overlap the execution in flight is the one the worker settles (`HandledInv`).

`OutboundLabelProofs`

* `TypeCorrect`, `PostageIsAccounted`, `OneDirectPerOpening`, `ShownVoidIsVoid`, from `OutboundInv`: a
  request holds a label of its kind from the purchase to its end (`RequestInv`); what a void has told
  the provider, and what the sync read as voided, is void in the books (`VoidInv`, `SyncInv`); and in
  the opening in which a direct label was persisted the order is shut (`DirectInv`), which is why the
  next transaction that locks it refuses.

`PortalInboundProofs`

* `TypeCorrect`, `OneSaveForAKey` (`KeySavesOnce`), `WholeAnswers`, `StockIsAsShown`, `StockReachesSku`,
  from `PortalInv`: while a call writes, nobody else writes under its key and no receipt has it
  (`LockInv`); every shipment saved under a key has its receipt and the key its first one
  (`SavedInv`); a receipt being written is of an open shipment nobody else receives, whose matching
  rows are held (`ReceiverInv`).
* `DeskImplemented`: `Spec => ImplementsInboundDesk`. `DeskInv` adds that nobody is answered before he
  ends (`ToldInv`), that a receipt which names a shipment names one that is not deleted (`NamedInv`: a
  deletion clears it, so a replay cannot answer with it), and that what an operator is shown has one
  row per line that brings stock (`ShownInv`), the row that the abstract step books it to.

`StoreSyncProofs`

* `TypeCorrect`: for any callers.
* `NothingIsSkipped`, `VersionsOnlyGrow` (`NeverOlder`), for one caller (`OneCaller`). `SyncInv` says that
  everything that changed since the cursor and lies before where the run has got to was read in its
  current version (`CompleteInv`): a change moves an order behind the place, out of the claim. What is
  written is what was read (`WrittenInv`), and what was read is not older than the tables
  (`ReadInv`). So when the cursor moves, what it passes is stored.
* `StoreMirrorImplemented`: `Spec => ImplementsStoreMirror`, for one caller, from the same `SyncInv`: `Write` is a
  `Copy`, `Rebuild` a `Rebuild`, `Save` a `Pass` or a stutter, `Change` a `Change`, all else a stutter.
* `MirrorIsFaithful`: `ImplementsStoreMirror => []NothingSkipped /\ NeverOlder`, with no hypothesis on callers. The
  abstract specification is therefore not weaker than what is claimed of the code. Its invariant is small
  (`MirrorInv`): the cursor is not ahead of every order, so a change, which is the latest of all, is never
  one the cursor has passed.

Assumptions are the named ones on the constants (`ConstantsAssumption`, `OutboxAssumption`,
`InventoryAssumption`, `AsksAssumption`, `NamesAssumption`, `BoundsAssumption`, ...): that bounds are
naturals, that kinds of identifiers are distinct, and, for the inventory, that a cart has a line and
no SKU twice, which `buildDeductionLines` ensures, and that a workflow has finitely many steps (they
are an array). TLC evaluates them in every run. `Mirrors = {}` and `OneCaller` are hypotheses of the
theorems that name them.

Only model-checked: all liveness (`RowsSettle`, `StockedIsDeducted`, `JobsSettle`, `OrphansAreFound`,
`EverythingImported`), since liveness under fairness and `ENABLED` are beyond the provers. Every
invariant and action property a run checks is stated by a theorem. No module uses a `RECURSIVE`
operator.

## 12. Where the code and its documents part

None of these is a run: each is a sentence of a document or a comment that is wider than what the code
keeps, and the properties above are stated so that they say what it does keep.

* A late request completes a return purchase it does not own (section 3); two unfenced statements.
* A return purchase of which one post sold the label and answered 5xx, and the next was rejected with a
  definite 4xx, is marked failed and loses its rate (`returns.ts:1246-1254`): the request reports a
  rejection while a live label exists. The next claim under the same key finds it, or is held without a
  rate, which recovery refuses (section 3). An operator who certifies an unknown purchase as unsold
  before the provider acts on it has the same effect.
* Two orders whose lines meet rows without a name in opposite orders fail one another, and the deduction
  of the victim is only logged (section 5, `inventory-movement.ts:83-88`).
* One failure of `ensureOrderItemsStorage` fails every later store import of the process, and its cursor
  stands still until a restart (section 9, `order-items.ts:18-23`).
* A direct carrier's label is voided locally only (section 7).
* A label voided while its confirmation waits is confirmed to the store (section 4).
* A process that dies right after `order-sync.ts:269` has promoted an order loses its deduction: no
  later run finds the order awaiting (section 5).
* A cancel that arrives before `Begin` writes is overwritten (section 6).
* Two Shopify runs at once can skip an order (section 9).
* The scheduler's lock is a session-level `pg_try_advisory_lock` (`sync-scheduler.ts:77`) on a
  connection that `.env.example:8` and `db/client.ts:8` send through a transaction pooler, which does
  not tie it to one backend session; the endpoints of `routes/cron.ts` and `routes/sync.ts` take no
  lock; and `runHeavySchedulerJob` reads its in-process flag before the await and sets it after, so
  two jobs may pass, and the first to end clears the other's flag. `DURABLE_JOBS_PLAN.md:42` counts
  this as singleton protection. The jobs behind it therefore may overlap; the models above let them
  (`FulfillmentOutbox`, `InventoryLedger`), or say where they must not (`StoreSync`).

## 13. Not modelled

`PROJECT.json` lists every component with the reason. Most of the repository's lines are not the kind a
state machine says anything about, and only a few percent of them are mapped: React
clients, read models and reporting queries, payload mapping of two dozen carrier and marketplace
connectors, parity fixtures, one-off scripts and integration tests. Connectors and carriers appear
as the choices they leave. Rates, billing, settings and access control are arithmetic, single-row
updates and stateless checks.

Stateful code that is left out, and would come next:

| Component | Why it is left | What a model would say |
|---|---|---|
| Scheduler and job queue | its lock depends on the pooler (section 12), so the interesting statement is about the deployment | one heavy job at a time, given a session connection |
| Print queue | jobs live in memory and rows are rendered to PDF; the one race is a completion after the timeout of an order | a late order is confirmed once |
| Package stock | one read and one write; the lost update is stated in section 5 | none that holds |
| ShipStation order sync | same shape as `StoreSync` with a time window instead of a cursor; its promotion of orders is in `InventoryLedger` and `OutboundLabel` | nothing skipped by the window |
| Return requests and delivery | creation and eligibility precede the label slot | a return is requested once per parcel |
