# TLA+ verification of the Temu fulfilment service

This directory holds the specifications of the Go service under `cmd/server` and
`internal/`: how an order of the shop gets from Temu's list into the queue, how a
channel and a warehouse are chosen for it, what its rows in PostgreSQL, the
background worker, the operators' requests, Temu and XLWMS do to each other between
"enqueued" and "verified by OMS", and how batches of orders are fed to that worker.
Everything is translated from the code; the remote services are modelled by the
answers the code is written for.

Contents: [inventory](#inventory), [plan](#plan), [modules](#modules),
[runs](#runs), [bounds](#bounds), [fairness](#fairness), [proofs](#proofs),
[findings](#where-code-and-documentation-disagree),
[abstractions](#abstractions), [not modelled](#not-modelled).

## Inventory

| component | state | operations | interacts with | hard behaviour |
| --- | --- | --- | --- | --- |
| **purchase ledger** (`store/postgres.go`, `service.go`) | `temu_shipments`, one row per order | `ReserveShipment`, `UpdateShipmentSubmission`, `UpdateShipmentResult`, `PrepareShipmentRetry`, `PrepareFailedShipmentRecovery`, `PrepareUnknownShipmentRetry`, `RecordShipmentConfirmationAttempt`, `MarkShipmentConfirmed` | every writer below | most updates do not look at the status they overwrite; each service function reads, calls Temu, writes |
| **completion jobs** | `temu_auto_fulfillment_jobs`, one row per order | ensure, enqueue, claim, update, repair, resolve as terminal | ledger (same transaction), worker | failed jobs may or may not be taken up again |
| **automatic fulfilment worker** | goroutine locals: shipment snapshot, loop step, excluded warehouses, substitution options | `ProcessAutoFulfillments`, `runAutoFulfillment` | ledger, jobs, Temu, OMS, inventory | resumes after a crash without knowing what Temu did; retries unknown submissions, falls back to other carriers, quotes again without an exhausted warehouse |
| **operator requests** (`httpapi/server.go`) | request locals | quote, purchase, refresh, recover, confirm, check OMS, assign a warehouse, recheck and decide reviews | ledger, jobs, reviews, Temu, XLWMS | run concurrently with the worker on the same rows |
| **Temu** (external) | order list, packages, label state, confirmation | list, detail, channels, create, label result, confirm | sync, quote, ledger | the list moves while it is read; create may time out and be applied, now or later |
| **OMS reconciliation** (`oms_platform_order.go`, `warehouse_assignment.go`) | `temu_oms_sync_checks` | start (two-minute lease), update, assign warehouse, resolve missing | worker, query loop, operators | lease takeover, late answers, assignment submitted before its marker |
| **inventory reservation** (`inventory/client.go`) | reservation in XLWMS | reserve, release | purchase, recover, worker, OMS | lost answers; released on some failure paths only |
| **bulk fulfilment** (`store/bulk_fulfillment.go`) | batches, items, substitution budgets | create, restart, mark, finish, reserve, release | jobs of many orders | item and job written separately |
| **order sync** (`service.go`, `store/postgres.go`) | `temu_orders`, `temu_order_lines` | `SyncOrders`, `ReplaceOpenOrders` | every reader of an order | pages of a moving list; orders that were not read are closed |
| **classification and manual review** (`store/order_detail.go`) | `temu_order_manual_reviews`, `temu_order_warehouse_checks` | `ClassifyWarehouseQueue`, previews, `UpsertManualReview`, `ClearManualReviewReason`, `UpdateManualReview` | sync, quote, worker | five statements write the review of one order, each from what its handler read before |
| **quoting and carrier selection** (`service.go`, `gofo_premium.go`) | `temu_quotes` | `Quote`, the checks of `Purchase`, `selectAutomaticChannel` | XLWMS, Temu, bindings | many remote reads, repeated one by one at the purchase; answers of warehouses come in any order |
| **substitution** (`substitution.go`) | quotes with a combination | compare prices, quote, validate | quote, purchase, worker | the worker tries one option after another |
| **Temu client** (`temu/client.go`) | rate limiter, create slots | wait, acquire, call | everything | cancelled waiters, returned slots |
| split quotes, shop registry, mappings, labels and documents, pickup audits, dashboard, Python client | configuration and caches | reads and single-statement writes | - | none that a model checker would reach |

What makes each component correct, in one line:

* ledger: one label per order; whatever Temu may bill was recorded before the
  call; `shipped` means that Temu took the confirmation; a confirmed row is not
  bought again;
* jobs: a shipment never loses its job, a job follows its shipment, a label that
  is ready reaches confirmation;
* worker: bounded number of automatic submissions, a carrier that failed is not
  tried again, its loops over warehouses and options end;
* OMS: one verdict per order, the operator's is final, the lease has one holder
  whose answer counts;
* reservation: made for what is shipped where it is shipped, released only behind
  an order that XLWMS has taken over, and then always;
* bulk: counters are the counts of the items, slots hold what the limit allows,
  every batch ends;
* sync and review: what an order contains that needs a person is on its review,
  what a person decided stays, what rejected the order keeps blocking, and an
  order without hindrance reaches the queue;
* quote and purchase: the choice follows the configured rules and depends on
  nothing else; what is bought was allowed at that time for everything that is
  shipped.

The hazards, with the line where each bites and the property that covers it or
the reason why none does, are listed in `PROJECT.json` under `hazards`.

## Plan

In order of importance. Done:

1. `CompletionJob` - the two rows and the SQL that moves the second with the
   first, as pure operators.
2. `ShipmentLedger` - one order with all its writers; `MCShipmentLedger` and its
   runs; the findings.
3. `ShipmentLedgerProofs` - type correctness and that
   `shipped` means confirmed; `ShipmentAttemptsProofs` - job, counter and labels, for
   any handlers, when a confirmed row stays confirmed, and the refinement of the
   abstract `ShipmentOutcome`; `WorkerAloneProofs` - what holds of the worker alone:
   one label, bounded submissions, no failed carrier.
4. `BulkFulfillment`, `BulkFulfillmentProofs` - batches and items over several
   orders, restart, the worker's tick.
5. `OMSReconciliation`, `OMSReconciliationProofs` - lease, late answers, decision
   table, assignment and its marker, terminal resolution; the abstract `OMSOutcome`
   and the refinement.
6. `OrderSync`, `ManualReview`, `OrderSyncProofs` - open orders, classification,
   review transitions.
7. `Quoting`, `CarrierChoice`, `WarehouseDecision` - quote and purchase checks,
   the choice of a channel, the worker's loop over exhausted warehouses, and
   substitutions; `CarrierChoiceProofs`, what the sorting and the windows return for
   any channels and rules; `QuotingProofs`, every invariant of the `quoting` run.

Left, and worth doing in this order: the order in which the claim takes the jobs
of several orders (fairness is assumed for it, see [fairness](#fairness)); the
substitution budget, once something calls it; and the client's create slots.

## Modules

| module | models | lines of code |
| --- | --- | --- |
| `CompletionJob` | `completionJobStatusForShipment`, `ensureShipmentCompletionJobSQL`, `UpdateAutoFulfillment`, `EnqueueAutoFulfillment`, the claim and repair statements, and the predicates that say which shipment may be bought again | `store/postgres.go` 633-709, 1538-1729; `service.go` 1401-1461 |
| `ShipmentLedger` | one order: `Purchase`, `submitReservedShipment`, `RefreshShipment`, `ConfirmShipped`, `RecoverFailedShipment`, `CheckOMSSync`, `runAutoFulfillment`, the HTTP requests, the environment | `service.go` 1463-2636, `store/postgres.go` 711-897, 1270-1503 |
| `ShipmentOutcome` | what that promises the shop: labels behind recorded submissions, a confirmation behind a label, nothing withdrawn | abstract |
| `BulkFulfillment` | the batches of both modes: `CreateBulkFulfillmentBatch`, `RestartBulkFulfillmentBatch`, `ProcessBulkFulfillment` with every query and statement it makes | `store/bulk_fulfillment.go` 23-281, 493-550; `service.go` 2139-2311 |
| `OMSReconciliation` | one shipped order: `CheckOMSSync` step by step for the worker, the query loop and requests; `StartOMSSync`, `UpdateOMSSync`, `decideOMSPlatformOrder`, `AssignWarehouse`, `ResolveMissingOMSPlatformOrder`, the release | `service.go` 1999-2137; `oms_platform_order.go`; `warehouse_assignment.go`; `store/postgres.go` 1373-1503 |
| `OMSOutcome` | what that promises: one verdict and a release behind it | abstract |
| `ManualReview` | the review row and the five statements that write it, as pure operators | `store/postgres.go` 142-205; `store/order_detail.go` 239-306, 386-440; `service.go` 3040-3115 |
| `OrderSync` | `SyncOrders`, `ReplaceOpenOrders`, `ClassifyWarehouseQueue`, `PreviewWarehouses`, `RefreshOrderDetail`, `UpdateManualReview`, rejected addresses, purchases | `service.go` 180-621, 789-875; `store/postgres.go` 98-205; `cmd/server/main.go` 152-213 |
| `WarehouseDecision` | what the service reads out of an XLWMS decision: candidates, coverage, account, physical code, classification | `inventory/client.go`; `service.go` 433-488; `api_binding.go` |
| `CarrierChoice` | filters, priorities, sorting, the price window, the GOFO premium, the recorded analysis of a choice | `service.go` 1180-1400; `gofo_premium.go`; `store/postgres.go` 553 |
| `Quoting` | `Quote`, `Purchase` up to the recorded shipment, `CompareSubstitutionPrices`, `QuoteSubstitution`, `validateStoredSubstitutionQuote`, the worker's loops around them | `service.go` 877-1180, 1463-1560, 2405-2460; `substitution.go` |
| `MC...` | the instances for TLC: values, symmetry | - |
| `ShipmentLedgerProofs`, `ShipmentAttemptsProofs`, `WorkerAloneProofs` | theorems about `ShipmentLedger`: for any handlers; their attempts, confirmations and the refinement; without handlers | - |
| `BulkFulfillmentProofs`, `OMSReconciliationProofs`, `OrderSyncProofs`, `CarrierChoiceProofs`, `QuotingProofs` | theorems about the module they are named after | - |

How the models meet. At the completion job: `ShipmentLedger` has everything that
can happen to the job of one order, `BulkFulfillment` lets the jobs of its orders
do anything of that kind at any time (`JobMoves`) and keeps of their status only
what a batch tells apart. At the confirmed shipment: `ShipmentLedger` keeps of a
reconciliation one step with one of its outcomes, `OMSReconciliation` starts from
the job it leaves in `waiting_oms` and shows which outcomes there can be
(`OMSOutcome`). At the recorded shipment: `Quoting` ends with `ReserveShipment`,
where `ShipmentLedger` begins a submission with some carrier and a reservation
held. At the decision: `OrderSync` and `Quoting` read the same
`WarehouseDecision`, one for the categories that send an order to a person, the
other for the warehouses it can be shipped from.

### How state and actions correspond to the code

*Rows.* `ship` is the order's row of `temu_shipments` (`pkgs` is
`package_sn_list`, `tracked` a non-empty tracking number, `attempts` and
`confirms` the two counters, `failed` the failed carrier codes, `error` what the
code tells apart in the error columns). `job` is its completion job, `oms` the
status of its OMS check, `open` and `manual` what the service reads of the order
and of its manual review, `held` whether XLWMS holds a reservation. `labels`,
`print`, `accepted` and `late` are Temu's side: the packages it created, the
state of the label, whether it took the confirmation, and creates that timed out
and may still be applied.

*Actors.* `Worker` is the background loop; its cycle waits for its goroutines
(`ProcessAutoFulfillments`), so an order has at most one. `Handlers` are HTTP
requests; the OMS query loop is one of them, since it only calls `CheckOMSSync`.
They run the same service functions, so a service step is an action `A(a)` of an
actor `a`: `pc[a]` says where it is, `snap[a]` is the `model.Shipment` in its
local variable, `reply[a]` and `found[a]` the last answer.

*Steps.* One action is one database transaction or one remote call together with
the reads that follow it directly and the branch it takes. `RecordSubmission`
includes `RecordShipmentCarrierFailure`; `AnnotateResult` joins the three writes
after a label result (reported carrier, failed carrier, review reason).
Between any two actions all other actors may run and the process may die
(`Interrupt`): a request forgets everything, a job the worker was running stays
`running` until the claim takes it again.

*The worker's loop.* `dispatch` is the head of the `for step < 4` loop; one
`Dispatch...` action per status starts the service call, one `After...` action
per call is what the loop does with its result. `Stop`, `StopAndRelease` and
`Iterate` are its three ways out of a case.

*Batches.* `batch[m]` and `items[m]` are the latest batch of mode `m` and its
items; the unique index allows one running batch per mode, and a batch that has
completed is never written again. Orders are numbered by their `sequence_no`.
`recent` stands for the two `updated_at`. A create is two actions, because the
selection and the insert are two statements whose snapshots differ
(`SelectOrders`, `InsertBatch`); two creates of one mode are serialised by the
index, two of different modes overlap. `Restart` is one transaction that locks
the batch, as `Finish` does, and `MarkItem` needs the same lock: it is one action.
The worker is one goroutine; `mode`, `poll`, `todo`, `cur`, `counted` are the
locals of `ProcessBulkFulfillment` (batch, running and pending items, the loop
variable, `completed`), and each of its queries is an action: `LoadRunning` and
`LoadPending` (`RunningBulkFulfillmentItems`), `PollJob`, `PollOrder`,
`CountItem`, `CheckOrder`, `RecheckOrder`, `SkipItem`, `InsertJob`, `MarkItem`,
and `StopItem` for the closure `stop`. `Expire` is a query that fails because the
tick's context is over, after which `stop` still records the failure;
`Interrupt` is a crash or a failed transaction, which records nothing.

*Reconciliation.* `row` is the order's row of `temu_oms_sync_checks`, reduced to its
status and the two facts other statements read out of `response_summary`; `fresh`
says that `updated_at` is younger than two minutes. The actors `Worker`, `Loop` and
`Handlers` run `CheckOMSSync`: `pc` is the statement or call that comes next, `snap`
the shipment value it was called with, `result` the row it is going to write. What
XLWMS shows is `order`; `approved` and `taken` are its side of the assignment.
`slow` is a configuration: with a `TEMU_REQUEST_TIMEOUT` above the lease an answer
can outlive it.

*Orders and reviews.* `row`, `review`, `check` and `shipped` are the order's rows of
four tables, `listed` and `content` are Temu's, `decision` is XLWMS's answer. The
synchronisation is one actor (`sync`), which reads a page per step and writes all it
read in one transaction; what is read twice because it moved between two pages is
applied twice, in that order (`first`, `last`). Each handler is a `task` with what it
read when it began: `lines` of the order and the `verdict` it is going to persist. An
action is one statement or one remote call. `dropped` is a history variable: orders
whose review was last written from lines that had changed since.

*Quote and purchase.* `world` is everything the steps ask, `seen` the worlds there
have been since the quote was chosen. `pc` walks through the remote reads in the order
of the code (`Reads` gives it for the three functions that quote), the concurrent
questions to the warehouses are `Answer`, their order is `arrived`, and
`Choose`/`ListOptions` is the computation after the last answer. Each check of
`Purchase` is an action of its own, since the world may change between any two;
`CheckCarrier` asks one SKU at a time. `Fail`, `Exhausted` and `TakeOption` are the
loops of `runAutoFulfillment` around all this, `options` the substitution quotes it
has left.

## Runs

The runs of `MCShipmentLedger` that pass:

| run | asks | answer |
| --- | --- | --- |
| `worker_alone` | The worker, no operator, every kind of remote failure, orders that close, two crashes. Does it stay within one label, three submissions, and off the failed carriers? | `TypeOK`, `AtMostOneLabel`, `AutomaticSubmissionsBounded`, `FallbackAvoidsFailedCarriers` hold (about 0.9 million states) |
| `concurrent_purchase` | The worker against two requests that purchase, refresh or recover; Temu creates duplicates, applies creates late, and its order detail lags. Is each label covered by an attempt, and does the job survive? | `LabelsWithinAttempts`, `ShipmentHasJob` hold (about 2.6 million states) |
| `concurrent_confirm` | The worker against two requests that refresh, confirm or check OMS. Do ledger, counter and Temu agree on confirmation, and is a ready label confirmed in the end? | `ShippedIsConfirmed`, `UncountedIsUnconfirmed`, `ReadyLabelIsConfirmed` hold (about 0.5 million states) |
| `reopen` | Operators who purchase, refresh and confirm, one request at a time, next to the worker; lost answers and a crash. Can a purchase reopen a confirmed shipment, and do ledger and Temu together keep the ledger's promise? | `ConfirmedStays` and the refinement `OutcomeKept` hold (about 2.7 million states) while Temu's order detail shows the packages it created. `ConfirmedStays` holds neither with a lagging order detail (`"lag"`) nor with two purchases that overlap; see [below](#where-code-and-documentation-disagree) |

Those of the other instances:

| run | asks | answer |
| --- | --- | --- |
| `bulk_two_modes` | Batches of both modes over the same two orders, three creates and restarts at any moment, a crash or an expired tick, orders held by a label. Does a batch report its items, does a running item have a job, does the slot hold one item only, is a succeeded order left alone, and does every batch end if the jobs do? | `BatchReportsItems`, `RunningItemHasJob`, `RunningWithinLimit`, `SucceededStays`, `BatchCompletes` hold |
| `bulk_hanging` | One mode, one slot, a job that may never end; orders close, are held for review, or have a failed label that a restart turns into a failed job. Is an ended job always counted? | `EndedJobIsCounted` (and `TypeOK`) hold (about 0.5 million states). It does not hold with both modes in use: the batch with pending items is always preferred, and if its slots hang, nobody polls the other |
| `oms_check` | The worker, the query loop and a request reconcile the same order; a lost answer, a failed release or a crash; leases that run out, answers that outlive them; an operator who assigns, or ends a missing order. Is there one reconciler, one verdict, and a release exactly behind it? | `TypeOK`, `OneReconciler`, `ReleaseIsBacked`, `CompletedJobReleased`, `TerminalIsFinal`, `VerifiedIsReleased`, `OrderIsJudged`, and the refinement `PromiseKept` hold |
| `quoting` | An order of two SKUs, or a substitution for one, quoted in two warehouses and bought, with one change of XLWMS or of the registry at any moment. Is what is bought allowed, the choice justified, does the loop end? | `TypeOK`, `BoughtWasAllowed`, `ChoiceIgnoresArrival`, `PriceIsJustified`, `OptionIsJustified`, `UnchangedQuoteStands`, `SnapshotIsRecordable`, `WorkerStops` hold (about 0.17 million states) |
| `order_sync` | A synchronisation over a list that moves between its pages, the classification in the background and requests of every kind on one order, a failure, a change of the order. Does each keep what the others have decided? | `TypeOK`, `SeveralItemsReviewed`, `CompletedIsFinal`, `AddressStays` hold (about 3.4 million states) |
| `order_recovery` | The same with fewer requests, for ever. Does an order whose hindrances are gone get back into the queue? | `RecoveredIsReleased` holds |

Two runs show a disagreement: `second_label` and `unbound_stuck`. Each checks the
one property that a document states, and TLC prints the run of the program that
breaks it.

The properties are chosen so that no single action can be read off them:

* `AtMostOneLabel` relates Temu's packages to the order through a purchase, a
  timed-out create, a crash, a verification and a retry. It is false as soon as
  one operator refresh runs next to the worker, which is the first finding.
* `LabelsWithinAttempts` is what remains true then, with everybody buying at
  once: Temu never has (or will have) more packages than the ledger has recorded
  attempts, so the ledger tells an operator how many there can be.
* `AutomaticSubmissionsBounded` adds up three limits in three places.
* `ShippedIsConfirmed` and `UncountedIsUnconfirmed` compare the rows with what
  Temu really did while unconditional updates overwrite each other.
* `ConfirmedStays` is about a purchase that decides on what it read before another
  actor confirmed. `OutcomeKept` puts the ledger together: recorded, bought, counted,
  taken, confirmed, one behind the other, whoever writes the row in which order.
* `ReadyLabelIsConfirmed` is the promise of the repair audit: whatever state the
  job of a complete, never tried label was left in, somebody asks Temu.
* `BatchReportsItems` compares two tables that three transactions write, of which
  a restart may come between any two steps of the worker; `RunningWithinLimit`
  rests on two queries at two moments; `RunningItemHasJob` is about the crash
  between the two statements that queue a job and mark its item; `SucceededStays`
  says what a restart, a late failure and a new batch may not do.
* `BatchCompletes` and `EndedJobIsCounted` are the promise of docs/fulfillment.md
  that a failed order is isolated and the batch goes on: the first for jobs that
  end, the second for one job that ends while others hang.
* `OneReconciler` is about a lease that is taken over, returned and left behind by
  a crash; `ReleaseIsBacked` and `CompletedJobReleased` relate the reservation to
  what XLWMS did, across three actors each of which may die before the release;
  `TerminalIsFinal` lets answers arrive after the operator's decision.
* `VerifiedIsReleased` and `OrderIsJudged` are the liveness of that: the first for
  a release that failed or whose actor died, the second for a query whose actor
  died and left the row `querying`. `PromiseKept` puts it together: the actors, the
  lease and the row implement a verdict that is given once and a release behind it.
* `BoughtWasAllowed` compares what is bought with the worlds there have been since
  the quote, SKU by SKU, though the checks are made one after another.
* `ChoiceIgnoresArrival` says that the selection, which compares candidates in the
  order of their answers, is a function of the set of answers. `PriceIsJustified`
  and `OptionIsJustified` state what the sorting and its windows add up to.
* `UnchangedQuoteStands` and `SnapshotIsRecordable` compare computations written
  twice, in the quote and in the purchase, in the service and in the store. If they
  differed, every purchase of such an order would fail.
* `SeveralItemsReviewed`, `CompletedIsFinal` and `AddressStays` are about five
  statements that write the same row, each from what its handler read before a
  remote call; `RecoveredIsReleased` asks whether what blocks an order is taken
  away again by all the actors together.

Each property of a passing run has a mutant in `PROJECT.json`: a plausible bug
(an off-by-one, a dropped status, a failed query taken for an empty answer, a
counter reset, a check of one SKU for all) under which TLC finds the property
violated. The `Mut...` operators stand before the definition they replace and are
used nowhere else.

## Bounds

* *Packages* 2: enough for a duplicate; 1 in `concurrent_confirm` and `reopen`,
  where Temu makes none. *Carriers* 2: enough for one failed and one left;
  `worker_alone` can then also run out of carriers.
* `MaxSubmissionAttempts` is the code's 3 in `worker_alone` and 2 in the runs
  with requests, `MaxConfirmationAttempts` the code's 3 or 2: the limits are
  compared, nothing else is done with them. The counter `confirms` stops at its
  limit, since only `= 0` and `>= limit` are ever asked.
* `MaxSteps` 4 is the code's loop bound, not a bound of the model.
* `MaxRequests` 2 with one handler: requests follow each other and overlap the
  worker; that is where a stale value of one actor meets two writes of another.
  What the theorems say of the ledger, they say of any number of handlers
  (`ConfirmedIsKept` of any number of requests, one after the other). `MaxInterrupts` 1
  in `reopen` lets the process die between any two steps of a purchase or a
  confirmation.
  `MaxInterrupts` 2 in `worker_alone`: a crash in the run that recovers from a
  crash.
* The attempts in `concurrent_purchase` are not capped by the code for
  operators; `MaxRequests` caps them.
* `Timeouts`, `Refusals`, `PrintOutcomes` and `Faults` choose which answers a
  run considers. `worker_alone` has all of them but `"late"` and `"lag"`: with
  either, Temu itself makes a second package possible after the worker's
  verification and `AtMostOneLabel` cannot hold for any implementation that
  retries. `concurrent_purchase` leaves out order-detail timeouts: its lagging order
  detail answers where a timed-out one stops, and an empty answer misleads more
  than none.
* *Bulk runs.* Two orders and one slot, so that one order always waits for the
  other and a second item in the slot is already too many (the theorem about the
  limit covers the other sizes). `MaxRequests` 3 in two modes: a batch each and a
  restart, or a second batch of one mode; `MaxFaults` 1, a crash or an expired tick.
  `Changes` says what may happen to the orders of a run (ledger rows, closing,
  review, labels), and each kind that matters to a property is in a run that checks
  it. In `bulk_two_modes` one order suits only the substitution mode, so that batches
  overlap in one order and differ in another.
* *Reconciliation.* The worker, the query loop and one request, which is one more
  than a lease can be taken over by. `MCViews` has an order XLWMS does not know, one
  pending, one processed where the label was bought, one processed elsewhere, and
  two of them; every other status decides like one of these. `MaxFaults` 1: a failed
  call, a late answer, a cancelled statement or a crash.
* *Quoting.* Two warehouses of two regions and two SKUs are the least that make a
  covering, a mixed account and a choice between warehouses. Each world differs from
  the plain one in one respect, and one change may come at any moment, which puts
  every check of the purchase in front of the case it is there for. The offers have
  ties with the premium's limit, a signature, a pickup channel and an unknown
  carrier; amounts are cents around the windows of 50 and 30.
* *Orders.* One order that is worked on and another that only enters and leaves the
  list, on pages of one order: the least in which something is missed or read
  twice. One actor for requests besides the background, so that each of the five
  statements meets each other from an earlier read. `order_recovery` has one request
  and the contents that mix a recheckable reason with another one.

`CHECK_DEADLOCK FALSE` stands in two instances that may stop: a quoted order that
is bought or given up (`quoting`), and a reconciliation with its verdict given and
no request or fault left (`oms_check`).

## Fairness

`FairSpec` asks for three things, all of the worker's loop
(`backgroundAutoFulfillment`): a run that was begun continues (weak fairness of
its service steps and of `runAutoFulfillment`: every call has a timeout), and
the repair and the claim are not passed over forever (strong fairness, since an
order's job may become claimable and, through an operator's write, unclaimable
again). The claim takes jobs in the order confirming, waiting_label, running,
failed, queued, waiting_oms; strong fairness of the claim for one order assumes
that the classes in front of it drain now and then, which is so unless more
orders than `FULFILLMENT_CONCURRENCY` stay in them forever. Nothing is assumed of
operators, of Temu's printing, of order sync or of crashes: they may never act.
`concurrent_confirm`, the run with the liveness property, has no crashes
(`MaxInterrupts` 0); a crash only repeats the cycle from the claim.

`FairSpec` of `BulkFulfillment` asks for weak fairness of the worker's steps only:
the ticker starts a tick whenever the last has ended
(`backgroundBulkFulfillment`). Operators, orders and jobs may stop for ever; that
the jobs end is not assumed but the antecedent of `BatchCompletes` (`JobsEnd`),
and `EndedJobIsCounted` speaks of one job at a time. Crashes and expired ticks are
bounded by `MaxFaults`; infinitely many of them can hold a batch up for ever.

`FairSpec` of `OMSReconciliation` asks for weak fairness of the worker, of the query
loop (both are tickers of `cmd/server/main.go`), of a check a request has begun, and
of the two clocks: a lease of two minutes and the grace of thirty minutes run out.
Requests need not come; faults are bounded by `MaxFaults`.

`FairSpec` of `Quoting` asks that a quote, a purchase or a worker's run goes on once
begun (every call has a timeout), but not that an operator who has a quote buys.

`FairSpec` of `OrderSync` asks for weak fairness of the synchronisation and of a task
once begun, for strong fairness of the classification of each order - it is a
candidate whenever its check has become old, which the handlers can undo again and
again - and that a check grows old. The classification takes the oldest candidates
first, so that an order is not passed over for ever.

## Proofs

`BulkFulfillmentProofs` proves for every finite set of orders, every limit and
any number of batches, restarts, crashes and expired ticks, from
`BatchAssumption`, all the safety properties of the bulk runs:

* `TypeCorrect == Spec => []TypeOK`, with `InHand`: at a label that uses an item,
  the worker has one, and an item about to be started is one it has loaded.
  `First` needs the least element of a set of numbers (`LeastExists`, from the
  well-foundedness of `<`).
* `RunningItemsHaveJobs`. The invariant `JobBeforeMark` adds that the item in hand
  has a job before it is marked.
* `BatchesReportItems`. The invariant `Report` adds that a batch being created
  replaces none that runs; `FinishReport` is the recount of `Finish`,
  `SameReport` the frame: a batch whose row and kinds of items stay is reported
  right still.
* `SucceededItemsStay`, an action property, from `Report`.
* `BatchesKeepLimit`. The invariant `LimitKept` follows the limit through the
  tick: what is running was polled and is at most `Limit` (`load`), and from
  then on the running items and those still to start are together at most
  `Limit`. `FirstOfBound` is what `ORDER BY sequence_no LIMIT n` returns: at most
  n orders, and all if there are no more.

`ShipmentLedgerProofs` proves for every value of the constants (any number of
handlers, packages, carriers, requests and crashes, any set of failures), from
`ActorsAssumption` and `BoundsAssumption` of `ShipmentLedger`:

* `TypeCorrect == Spec => []TypeOK`. The rows keep the `CHECK` constraints of
  the schema, the confirmation counter its limit, the loop its bound. `TypeOK`
  alone is not inductive, because `Iterate` adds one to `step`; the invariant is
  `TypeOK /\ StepBelow`, where `StepBelow` says that `step < MaxSteps` while the
  worker is inside an iteration.
* `ShippedMeansConfirmed == Spec => []ShippedIsConfirmed`. The inductive
  invariant is `QuietUntilAccepted`: as long as Temu has not taken the
  confirmation, the rows are quiet (`QuietRows`: not shipped, not confirmed, job
  not completed, OMS without an outcome) and so are the local variables of every
  actor (`QuietLocal`: no snapshot says shipped or confirmed, no actor is about
  to record a confirmation or an OMS outcome). The property needs the locals: a
  snapshot taken long ago is written back by `EndRequest` and by the worker.
  `AcceptedStays` gives the other half (Temu never takes a confirmation back);
  `ServiceQuiet`, `RunQuiet` and the lemmas per action preserve the quiet part.

`ShipmentAttemptsProofs` goes on from there, under the same assumptions. Every step
of the ledger's actors is first put into one of five kinds by what it does to row
and packages (`Quietly`, `Submits`, `Counts`, `Creates`, `Confirms`; lemmas
`ServiceDoes`, `RunDoes`, `StepDoes`), so that each invariant is proved per kind and
not per action:

* `ShipmentsHaveJobs == Spec => []ShipmentHasJob`, inductive together with `TypeOK`.
* `UncountedAreUnconfirmed`, from the invariant `Counted`: an actor about to ask Temu
  for the confirmation has counted the attempt, and the counter never returns to 0
  while the row lives.
* `LabelsAreCovered`, from the invariant `Covered`: the packages Temu has, the
  creations that may still be applied and the actors about to ask for one
  (`Creating`) are together at most the recorded attempts. The actors are counted
  with the library's theorems about finite sets.
* `ConfirmedIsKept == Spec => ConfirmedStays`, if there is one handler at most and
  `"lag" \notin Faults`. Both conditions are needed (see the third finding
  [below](#where-code-and-documentation-disagree)); the operation of the handler,
  crashes, late creates, duplicates and lost answers are free. Only `PrepareShipmentRetry` clears
  `confirmed_at`, and it wants a row that does not say `shipped`; so it has to be
  shown that nobody overwrites the status of a confirmed row while an actor is there.
  `Respects` says what each step does to that (lemmas `ServiceRespects`, `RunRespects`,
  `StepRespects`), with `Overwriting` the places from which an actor writes over a
  status it has not looked at. `Sealed` is the invariant: while an actor is at
  `prepareRetry`, a confirmed row says shipped and the other actor is not at such a
  place. It rests on `Labelled` (as long as Temu has created nothing, no row, snapshot
  or answer names a package and no confirmation was taken): who comes to
  `prepareRetry` has been shown no package, so nothing is confirmed yet.
* `LedgerKeepsItsPromise == Spec => OutcomeKept`, the refinement of `ShipmentOutcome`
  for all values of the constants. The mapping counts attempts and labels and takes
  the three facts about the confirmation; whether the row may be reopened
  (`MayReopen`) is the negation of the two conditions above (`Overlapping`). The kinds
  of steps become the actions of the promise (`PromisedKind`), with `Covered` for the guard of `Buy`,
  `Counted` and `Labelled` for that of `Take`, `QuietUntilAccepted` for that of
  `Acknowledge`, and `Sealed` to exclude `Reopen` where it must not happen.

`WorkerAloneProofs` is about the worker without operators, for every fault model and
any number of crashes; `Handlers = {}` is an assumption of its theorems:

* `SubmissionsAreBounded` and `FailedCarriersAreAvoided`, from the invariant
  `Careful`. Its parts say that a first purchase is made from an empty row
  (`FirstBuy`), that whoever is about to submit again has counted what was submitted
  before and found it below the limit (`Bounded`), and that a carrier on its way to
  a fallback was chosen outside the failed ones of the row, which has not changed
  since (`Avoiding`).
* `WorkerBuysOnce == Spec => []AtMostOneLabel`, if Temu neither applies a create
  after the call has ended nor shows an order detail older than what it did
  (`{"late", "lag"} \cap Faults = {}`). `Single` says at each place of the worker
  whether a package may exist: nothing is created where one may be.

Both conditions are needed: `second_label` is the counterexample with one operator,
and a late create is one with none.

`OMSReconciliationProofs` proves for any set of handlers, views and bounds:

* `TypeCorrect`, `OnlyOneReconciler` and `TerminalStays` from `LeaseInv`: `Leased`
  (whoever is between `StartOMSSync` and `UpdateOMSSync` holds a young lease, alone),
  `Answered` (no actor is about to write the operator's decision) and `ClosedJob`
  (what an operator has closed is completed).
* `CompletedJobsAreReleased` from `Freed`: while no answer is late, a shipment value
  that says verified or terminal says it of the row as it is (`Agrees`), so that the
  worker which reports a verdict has released before it.
* `ReleaseBacked` from `Backed`: wherever a row, a snapshot or an answer says
  verified, XLWMS has taken the order over.
* `PromiseIsKept == Spec => PromiseKept`, the refinement of `OMSOutcome`: the initial
  state maps to an initial state, each step to a step of the promise or a stutter
  (`Promised`).

`OrderSyncProofs` proves for any orders, contents, decisions, operators and page
sizes: `TypeCorrect` from `Inv`; `CompletedStays` and `AddressKeepsBlocking`, action
properties that are read off the five statements once the reviews are known to be
`Sound` (a completed review is not active, a rejected address is among the reasons of
an active one); `SeveralItemsAreReviewed` from `Several`, which adds the page that is
being read, the lines a handler has read, and whether it is still going to write from
older ones.

`CarrierChoiceProofs` is about the choice of a channel alone, for any candidates
(`IsItems`: they come from an offer and carry the rules of their warehouse):

* `Ordered` lists a finite set in a weak order. It is defined by ranks and not by
  recursion, so that its properties can be proved: the listing has every element once
  (`EachRankOnce`, `RankedIsListed`) and is sorted (`StableIsOrder`, `ByBetterSorts`).
  It stands for Go's `sort.SliceStable`.
* `NearChoiceIsLeast` and `CheapestIsLeast` say what is at the head of the two
  sortings; `NearChoiceIsJustified` and `GOFOPremiumIsJustified` treat the choice with
  and without the premium.
* `ChoiceIsJustified`: what is chosen automatically is within the price window of its
  warehouse, and no carrier that is cheaper and within the window of its own warehouse
  has a better priority; or it is GOFO, at most the premium above SWIFTX and SPEEDX
  (`Justified`).
* `ChoiceIsRecordable`: the analysis that is stored with a choice passes the check
  the store makes of it.
* `OptionsAreJustified`: where all the warehouses choose within a window and quote in
  one currency, the first option of a substitution is dearer than no channel by more
  than the windows of the two warehouses together, and an option with a better priority
  is outside its own window.

`QuotingProofs` proves all the invariants of the `quoting` run for any warehouses,
SKUs, worlds, requests and offers and any number of changes. A step of a handler is
first put into a kind (`StepCases`): the world changes (`Change`), the attempt or an
option ends (`Ended`), something is read or answered (`Reading`), the choice is made
(`Chosen`), or a check of the purchase is passed (`Purchase`). Lemmas per kind say what
it leaves alone, and each invariant is proved over the kinds:

* `QuotingTypes`, from `TypeInv`. `Holds` says which of the answers a handler has at
  which place: the candidates of a choice are only defined if the warehouses that
  answered are those that were asked, once each, and none that is excluded. `Quoted`
  adds what a stored quote has in common with its request: its warehouse is not
  excluded, its carrier has not failed. `QuotingTypeOK` follows.
* `BoughtIsAllowed`, from `Passed`: at each place of the purchase, every check that
  lies behind it was passed in a world that was seen since the quote (`WasInStock`,
  `WasBound`, and so on, and `CarrierWasAllowed` for each SKU that is not among
  `unchecked`). The property itself speaks of the end only and is far from inductive.
* `SnapshotsAreRecordable`, from `ChoiceIsRecordable` where the quote is made; after
  that a quote is kept or dropped.
* `PricesAreJustified`, `ArrivalDoesNotMatter` and `OptionsOfferedAreJustified`, from
  `ChoiceAgrees` (theorem `ChoiceKept`): as long as a choice or a list of options is
  waiting, it is what the choice computes from the answers that are held. The three
  theorems then rest on those of `CarrierChoiceProofs`, with `OrderOfAnswersIsIrrelevant`
  for the order in which the warehouses answered.
* `UnchangedIsAccepted`, from `Current` (while nothing has changed, what was read is
  what there is) and `QuoteStands` (a quote then agrees with the world in everything
  the purchase is going to check).

They assume what the code takes for granted of its data, each by name in `Quoting`:
`WorldAssumption` (a decision with records has a first one; bindings are of warehouses
the region table knows), `PolicyAssumption` (integer priorities, finitely many carriers,
a window that is not negative), `OfferAssumption` (Temu sends no channel number 0, which
the code reads as "none was named", and no negative price), `RequestAssumption` (an
operator's substitution names a warehouse, which the handler requires), `NoneAssumption`
(the value that stands for nothing is none of the others) and `ChangesAssumption`.

Only model-checked, since fairness and `ENABLED` are out of the prover's reach, are the
liveness properties: `ReadyLabelIsConfirmed`, `BatchCompletes`, `EndedJobIsCounted`,
`VerifiedIsReleased`, `OrderIsJudged`, `RecoveredIsReleased` and `WorkerStops`.
Every invariant, action property and refinement of the passing runs is a theorem;
those that hold only of some configurations have the condition as a hypothesis.
No module declares a RECURSIVE operator, so that each can be proved about.

## Where code and documentation disagree

Two are runs whose counterexample TLC prints:

1. `second_label`, `service.go:2397`. README: the worker "never purchases a second
   label for an order that already has a shipment record". A refresh by an operator during the
   create records `PACKAGE_SN_MISSING`; the create times out though Temu applied
   it; the worker verifies, its query fails, the snapshot it gets back still has
   the old code, and it submits again.
2. `unbound_stuck`, `service.go:3095`. docs/fulfillment.md:11 and 14: `sku_unbound` blocks
   until every line is bound, and the recheck removes it then. On a review that also
   says `multi_item`, `merge_candidate` or `platform_consolidated`, neither the
   classification nor the recheck looks at it, an approval is refused, and the
   synchronisation carries it over when the other reasons are gone.

The models show these too, without a run of their own:

3. *A confirmed shipment reopened* (`postgres.go:762`, 1270). A purchase is at
   `PrepareShipmentRetry` since before there was a label; the create of another one
   times out, and its late `submission_unknown` with no packages overwrites a row that
   has been confirmed in the meantime; the first then finds the row retryable, clears
   `confirmed_at` and submits again. `reopen` with two handlers and three requests
   shows it. A lagging order detail (`"lag"`) does the same through a refresh.
4. *Unknown results are retried* (`service.go:2403`). docs/fulfillment.md:55 says that
   they are not; they are, after the retry delay and one query of the order.
5. *Not every submission reserves* (`service.go:2403`). README:17: "Immediately before
   every Buy Label submission" inventory is reserved; the retry of an unknown result
   reserves nothing, and the earlier reservation may have been released.
6. *Not every failure releases* (`service.go:2606`). README:25-27: the reservation is
   released on a terminal failure; a failed fallback purchase returns without that.
7. *A stranded package* (`service.go:1720`). "recovery stopped and the existing package
   will be checked": in the worker's fallback the job is failed and nobody checks.
8. *The assignment marker is read late* (`service.go:2001`). README:105-107: the stored
   marker prevents another submission. `CheckOMSSync` decides from the shipment it read
   before it took the lease, so that a check that waited can submit again; XLWMS
   refuses the second (`OMSReconciliation` has the marker in the snapshot).
9. *The job of a confirmed order* (`service.go:1989`). `confirmedShipment` sets the job
   to `waiting_oms` even if it was completed; the worker then completes it again.
10. *One account is asked* (`oms_platform_order.go`). docs/fulfillment.md:49: "Every
    check also queries the other account"; the reconciliation asks the account of the
    purchased warehouse only, so a collision is not seen.
11. *Substitution prices* (`substitution.go:662`). docs/fulfillment.md:19 states one
    window of USD 0.50 above the live minimum. A warehouse chooses within a window, and
    one is chosen within another: `OptionIsJustified` states the sum.
12. *Who selected a substitution* (`substitution.go`). README:158 calls the result of the
    carrier rules `automatic`; a substitution the worker buys is stored as `manual`,
    because its quote names a channel.
13. *A temporary outage during the price comparison* of a substitution fails the job
    for good, where an outage during a direct quote is retried.
14. *Reasons an approval does not look at* (`service.go:600`): an incomplete inventory
    scope and the platform's SKU restriction, which the recheck would.
15. *Sub-pound parcels of a split quote* (`split_quote.go:628`) are sent as "0" pounds
    and ounces, which docs/fulfillment.md:16 says Temu rejects.
16. *A long list* (`service.go:197`): a synchronisation of more than 1000 pages returns
    without `FinishSync`, and its run stays open.

## Abstractions

* Ages (`updated_at < now() - ...`, retry delays, the OMS lease, quote expiry):
  a guard on an age is true in some schedule and only delays; each is a free
  choice or, where liveness rests on it, a fair action (`LeaseExpires`,
  `GraceExpires`, `Age`).
* Failures of PostgreSQL itself; a statement either commits or the actor dies.
  A cancelled context inside the worker is a temporary failure of the call it
  interrupts.
* Which message a temporary error carries: a job whose `last_error` matches one
  of the transient markers is `transient`, and a temporary failure may or may
  not match.
* The carrier Temu reports with a label result is any carrier. In `ShipmentLedger`
  the answer of `CheckOMSSync`'s reconciliation is one of its outcomes, and the quote
  of a purchase any carrier it may name.
* A temporary confirmation failure at the limit may or may not end the job (a
  rate limit does not count).
* In `BulkFulfillment`: the substitution budget (`ReserveBulkSubstitutionInventory`
  has no caller), the mode stored in a job, error texts; the jobs and rows of the
  orders are reduced to what a batch tells apart, and may change more freely
  there than `ShipmentLedger` allows. A create sees each order's classification as
  a constant (`DirectOrders`, `ReplaceOrders`).
* In `OrderSync`: the labels and warnings `manualOrderReason` looks at besides the
  number of items; `platform_consolidated`, which goes the way of `merge_candidate`;
  the rows of order details and of synchronisation runs, which nothing here reads;
  the batch limit of 500 and the grouping of the classification by quantities, which
  share remote calls; an order read more than twice in one synchronisation.
* In `Quoting`: the direct half of the substitution comparison and the split quotes,
  which are computed, shown and not stored; the list of substitution candidates for
  the dialog; parcel sizes and weights; expiry, since an expired quote is a refused
  purchase.

## Not modelled

* *Dashboard, documents, labels and tracking, order details for display*: reads and
  files, with no state that two actors write.
* *Pickup audits*: a periodic snapshot of a list of Temu, forwarded for reporting;
  nothing here reads it.
* *Shop registry, schema routing, warehouse mappings, administration of bindings*:
  rows replaced as a whole by one statement each. What the quote reads of them changes
  freely in `Quoting`.
* *The Temu client's rate limiter and create slots*: they delay calls and give up on a
  cancelled context, which the models have as a temporary failure; the order of the
  waiters is that of Go's channels.
* *The Python client* is a command line over the HTTP API.
* The rest of `service.go` and `server.go` is formatting, validation of requests and
  the translation of errors into HTTP codes.
