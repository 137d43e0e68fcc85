-------------------------- MODULE BulkFulfillment --------------------------
(***************************************************************************)
(* Bulk fulfilment of one shop: an operator collects the waiting orders    *)
(* into a batch (one running batch per fulfilment mode), and a background  *)
(* worker feeds them, a few at a time, to the completion jobs and counts   *)
(* how each one ends.                                                      *)
(*                                                                         *)
(* ShipmentLedger models what a completion job does; here a job is what    *)
(* the batch sees of it, and JobMoves its environment:                     *)
(*   active        queued, running, waiting_label, confirming              *)
(*   settled       waiting_oms, completed, skipped                         *)
(*   failed        failed                                                  *)
(* and a ledger row is what Restart sees of it:                            *)
(*   buying        submitting .. label_ready, confirm_failed,              *)
(*                 submission_unknown                                      *)
(*   label_failed, shipped                                                 *)
(*                                                                         *)
(* Orders are numbered by their place in a batch (expect_ship_latest_time  *)
(* first).  A batch that is not running is never touched again, so one     *)
(* slot per mode holds its latest batch.  The worker is a single           *)
(* goroutine; a step of it is one query or one transaction, and every      *)
(* other actor may run between two of them.                                *)
(***************************************************************************)
EXTENDS Naturals, FiniteSets

CONSTANTS
    Orders,          \* the orders of the shop, by their sequence in a batch
    Modes,           \* fulfilment modes in use
    DirectOrders,    \* orders whose warehouse check is eligible
    ReplaceOrders,   \* orders of one line with a substitutable SKU
    Limit,           \* TEMU_FULFILLMENT_CONCURRENCY
    Changes,         \* what may happen to the orders of a run
    MaxRequests,     \* bound: batches created and restarted
    MaxFaults        \* bound: crashes and expired worker contexts

Rows == {"buying", "label_failed", "shipped"}

AllChanges == Rows \cup {"closing", "review", "label"}

ASSUME BatchAssumption ==
    /\ IsFiniteSet(Orders) /\ Orders \subseteq Nat
    /\ Modes \subseteq {"direct", "substitution"}
    /\ DirectOrders \subseteq Orders /\ ReplaceOrders \subseteq Orders
    /\ Limit \in Nat \ {0}
    /\ Changes \subseteq AllChanges
    /\ MaxRequests \in Nat /\ MaxFaults \in Nat

VARIABLES
    batch,     \* temu_bulk_fulfillment_batches: the latest of each mode
    items,     \* temu_bulk_fulfillment_items: status of its orders
    recent,    \* the batch with the later updated_at
    creating,  \* orders a create request has selected and not yet inserted
    job, ship, \* completion job and ledger row of each order
    open,      \* orders awaiting shipment
    hold,      \* manual reason of each order
    pc, mode,  \* where the worker is, and the batch it works on
    poll,      \* its running items still to poll
    todo,      \* its pending items still to start
    cur,       \* the item in hand
    counted,   \* the worker's flag "completed": it settled an item
    requests, faults

batchVars == <<batch, items, recent>>
orderVars == <<job, ship, open, hold>>
localVars == <<mode, poll, todo, cur, counted>>
boundVars == <<requests, faults>>

vars == <<batch, items, recent, creating, job, ship, open, hold,
          pc, mode, poll, todo, cur, counted, requests, faults>>

ItemStatus == {"none", "pending", "running", "succeeded", "failed"}

BatchRow == [status : {"none", "running", "completed"},
             total : Nat, succeeded : Nat, failed : Nat]

NoBatch == [status |-> "none", total |-> 0, succeeded |-> 0, failed |-> 0]

ItemsIn(m, status) == {o \in Orders : items[m][o] = status}

Init ==
    /\ batch = [m \in Modes |-> NoBatch]
    /\ items = [m \in Modes |-> [o \in Orders |-> "none"]]
    /\ recent \in Modes
    /\ creating = [m \in Modes |-> {}]
    /\ job = [o \in Orders |-> "none"] /\ ship = [o \in Orders |-> "none"]
    /\ open = Orders /\ hold = [o \in Orders |-> "none"]
    /\ pc = "idle" /\ mode = recent
    /\ poll = {} /\ todo = {} /\ cur = 0 /\ counted = FALSE
    /\ requests = 0 /\ faults = 0

----------------------------------------------------------------------------
(* Operators: create a batch, restart the running one.                     *)

\* The conditions of the candidate query that the data of the order decides.
Suits(m) == IF m = "direct" THEN DirectOrders ELSE ReplaceOrders

InRunningBatch(o) ==
    \E m \in Modes : batch[m].status = "running" /\ items[m][o] # "none"

\* The query asks for reviews only, manualOrderReason for blocking labels too.
Eligible(m) ==
    {o \in Suits(m) \cap open :
        /\ ship[o] = "none"
        /\ ~InRunningBatch(o)
        /\ m = "direct" => hold[o] # "review"}

SelectOrders(m) ==
    /\ requests < MaxRequests
    /\ batch[m].status # "running"
    /\ creating[m] = {} /\ Eligible(m) # {}
    /\ creating' = [creating EXCEPT ![m] = Eligible(m)]
    /\ requests' = requests + 1
    /\ UNCHANGED <<batchVars, orderVars, pc, localVars, faults>>

\* The row locks of the selection do not renew its snapshot: the orders are
\* inserted as they were selected.
InsertBatch(m) ==
    /\ creating[m] # {}
    /\ batch' = [batch EXCEPT ![m] =
           [status |-> "running", total |-> Cardinality(creating[m]),
            succeeded |-> 0, failed |-> 0]]
    /\ items' = [items EXCEPT ![m] =
           [o \in Orders |-> IF o \in creating[m] THEN "pending" ELSE "none"]]
    /\ creating' = [creating EXCEPT ![m] = {}]
    /\ recent' = m
    /\ UNCHANGED <<orderVars, pc, localVars, boundVars>>

\* Mutant: the job is given a status of the ledger row.
MutRestartedJob(o) == IF ship[o] = "none" THEN "active" ELSE ship[o]

\* What Restart makes of the job of an item it takes back.
RestartedJob(o) ==
    CASE ship[o] = "shipped"      -> "settled"
      [] ship[o] = "label_failed" -> "failed"
      [] OTHER                    -> "active"

\* Mutant: every item is taken back, the succeeded ones included.
MutTakenBack(m) == {o \in Orders : items[m][o] # "none"}

TakenBack(m) == ItemsIn(m, "running") \cup ItemsIn(m, "failed")

\* Mutant: the failures stay counted.
MutRestart(m) ==
    /\ requests < MaxRequests
    /\ batch[m].status = "running"
    /\ job' = [o \in Orders |-> IF o \in TakenBack(m) THEN RestartedJob(o) ELSE job[o]]
    /\ items' = [items EXCEPT ![m] =
           [o \in Orders |-> IF o \in TakenBack(m) THEN "pending" ELSE @[o]]]
    /\ batch' = [batch EXCEPT ![m].succeeded = Cardinality(ItemsIn(m, "succeeded"))]
    /\ recent' = m
    /\ requests' = requests + 1
    /\ UNCHANGED <<creating, ship, open, hold, pc, localVars, faults>>

Restart(m) ==
    /\ requests < MaxRequests
    /\ batch[m].status = "running"
    /\ job' = [o \in Orders |-> IF o \in TakenBack(m) THEN RestartedJob(o) ELSE job[o]]
    /\ items' = [items EXCEPT ![m] =
           [o \in Orders |-> IF o \in TakenBack(m) THEN "pending" ELSE @[o]]]
    /\ batch' = [batch EXCEPT ![m] =
           [@ EXCEPT !.succeeded = Cardinality(ItemsIn(m, "succeeded")), !.failed = 0]]
    /\ recent' = m
    /\ requests' = requests + 1
    /\ UNCHANGED <<creating, ship, open, hold, pc, localVars, faults>>

----------------------------------------------------------------------------
(* The worker's tick, ProcessBulkFulfillment.                              *)

First(S) == CHOOSE o \in S : \A x \in S : o <= x

FirstOf(S, n) == {o \in S : Cardinality({x \in S : x < o}) < n}

\* Of two running batches the one with pending items goes first, then the one
\* written less recently.
Preferred(m) ==
    /\ batch[m].status = "running"
    /\ \A n \in Modes \ {m} :
           batch[n].status = "running" =>
               LET mine   == ItemsIn(m, "pending") # {}
                   theirs == ItemsIn(n, "pending") # {}
               IN  (mine /\ ~theirs) \/ (mine = theirs /\ recent = n)

\* RunningBulkFulfillmentItems is three queries; the running items and the
\* pending ones are read in different states.
LoadRunning ==
    /\ pc \in {"idle", "reload"}
    /\ \E m \in Modes :
           /\ Preferred(m)
           /\ mode' = m
           /\ poll' = FirstOf(ItemsIn(m, "running"), Limit)
    /\ counted' = (pc = "reload")
    /\ todo' = {}
    /\ pc' = "load"
    /\ UNCHANGED <<batchVars, creating, orderVars, cur, boundVars>>

NothingLeft ==
    /\ pc = "reload"
    /\ \A m \in Modes : batch[m].status # "running"
    /\ pc' = "idle"
    /\ UNCHANGED <<batchVars, creating, orderVars, localVars, boundVars>>

\* Mutant: the running items do not use up the limit.
MutFreeSlots == Limit

FreeSlots == Limit - Cardinality(poll)

NextPoll(rest, flag, more) ==
    IF rest # {} THEN "poll" ELSE IF flag THEN "reload" ELSE IF more # {} THEN "pending" ELSE "idle"

NextPending(rest) == IF rest = {} THEN "idle" ELSE "pending"

\* After a reload the running items were polled already.
LoadPending ==
    /\ pc = "load"
    /\ todo' = FirstOf(ItemsIn(mode, "pending"), FreeSlots)
    /\ IF counted
       THEN poll' = {} /\ pc' = NextPending(todo')
       ELSE poll' = poll /\ pc' = NextPoll(poll, FALSE, todo')
    /\ UNCHANGED <<batchVars, creating, orderVars, mode, cur, counted, boundVars>>

\* Mutant: a failed job is waited for, like one that will be retried.
MutJobVerdict(o) ==
    CASE job[o] \in {"active", "failed"} -> "poll"
      [] job[o] = "settled"              -> "count"
      [] OTHER                           -> "stop"

JobVerdict(o) ==
    CASE job[o] = "active"  -> "poll"
      [] job[o] = "settled" -> "count"
      [] job[o] = "failed"  -> "order"
      [] OTHER              -> "stop"

\* GetAutoFulfillment of a running item.
PollJob ==
    /\ pc = "poll"
    /\ cur' = First(poll)
    /\ IF JobVerdict(cur') = "poll"
       THEN poll' = poll \ {cur'} /\ pc' = NextPoll(poll', counted, todo)
       ELSE poll' = poll /\ pc' = JobVerdict(cur')
    /\ UNCHANGED <<batchVars, creating, orderVars, mode, todo, counted, boundVars>>

ManualReason(o) == mode = "direct" /\ hold[o] # "none"

\* A failed job of an order under manual review is no failure of the batch.
PollOrder ==
    /\ pc = "order"
    /\ pc' = IF ManualReason(cur) THEN "count" ELSE "stop"
    /\ UNCHANGED <<batchVars, creating, orderVars, localVars, boundVars>>

\* FinishBulkFulfillmentItem(mode, cur, status): the item if it is unfinished,
\* the counters and the status of the batch from all its items.
Finish(status) ==
    LET unfinished == items[mode][cur] \in {"pending", "running"}
        after      == [items EXCEPT ![mode][cur] = IF unfinished THEN status ELSE @]
        count(set) == Cardinality({o \in Orders : after[mode][o] \in set})
    IN  /\ items' = after
        /\ batch' = [batch EXCEPT ![mode] =
               [@ EXCEPT !.succeeded = count({"succeeded"}),
                         !.failed    = count({"failed"}),
                         !.status    = IF count({"pending", "running"}) > 0
                                       THEN "running" ELSE "completed"]]
        /\ recent' = mode

CountItem ==
    /\ pc = "count"
    /\ Finish("succeeded")
    /\ poll' = poll \ {cur}
    /\ counted' = TRUE
    /\ pc' = NextPoll(poll', TRUE, todo)
    /\ UNCHANGED <<creating, orderVars, mode, todo, cur, boundVars>>

\* GetOrder of a pending item, then the one enqueueAutoFulfillment makes.
CheckOrder ==
    /\ pc = "pending"
    /\ cur' = First(todo)
    /\ pc' = IF ManualReason(cur') THEN "skip" ELSE "enqueue"
    /\ UNCHANGED <<batchVars, creating, orderVars, mode, poll, todo, counted, boundVars>>

RecheckOrder ==
    /\ pc = "enqueue"
    /\ pc' = IF cur \notin open THEN "skip"
             ELSE IF ManualReason(cur) THEN "stop" ELSE "insert"
    /\ UNCHANGED <<batchVars, creating, orderVars, localVars, boundVars>>

SkipItem ==
    /\ pc = "skip"
    /\ Finish("succeeded")
    /\ todo' = todo \ {cur}
    /\ pc' = NextPending(todo')
    /\ UNCHANGED <<creating, orderVars, mode, poll, cur, counted, boundVars>>

\* Mutant: an update where the code has an upsert.
MutInsertJob ==
    /\ pc = "insert"
    /\ job' = [job EXCEPT ![cur] = IF @ = "failed" THEN "active" ELSE @]
    /\ pc' = "mark"
    /\ UNCHANGED <<batchVars, creating, ship, open, hold, localVars, boundVars>>

InsertJob ==
    /\ pc = "insert"
    /\ job' = [job EXCEPT ![cur] = IF @ \in {"none", "failed"} THEN "active" ELSE @]
    /\ pc' = "mark"
    /\ UNCHANGED <<batchVars, creating, ship, open, hold, localVars, boundVars>>

MarkItem ==
    /\ pc = "mark"
    /\ IF items[mode][cur] = "pending"
       THEN /\ items' = [items EXCEPT ![mode][cur] = "running"]
            /\ recent' = mode
            /\ todo' = todo \ {cur}
            /\ pc' = NextPending(todo')
       ELSE /\ UNCHANGED <<items, recent, todo>>
            /\ pc' = "stop"
    /\ UNCHANGED <<batch, creating, orderVars, mode, poll, cur, counted, boundVars>>

\* Mutant: the tick ends without a word about the item.
MutStopItem ==
    /\ pc = "stop"
    /\ pc' = "idle"
    /\ UNCHANGED <<batchVars, creating, orderVars, localVars, boundVars>>

\* stop: the item fails, the tick ends, the batch goes on with the next tick.
StopItem ==
    /\ pc = "stop"
    /\ Finish("failed")
    /\ pc' = "idle"
    /\ UNCHANGED <<creating, orderVars, localVars, boundVars>>

\* The tick's context expires: a query about an item fails, and stop records that
\* without the context.  The job statement may have been applied.
Expire ==
    /\ faults < MaxFaults
    /\ \/ /\ pc \in {"poll", "pending"}
          /\ cur' = IF pc = "poll" THEN First(poll) ELSE First(todo)
       \/ pc \in {"order", "enqueue", "insert", "mark"} /\ UNCHANGED cur
    /\ pc' = "stop"
    /\ faults' = faults + 1
    /\ UNCHANGED <<batchVars, creating, orderVars, mode, poll, todo, counted, requests>>

\* A crash, or a transaction that fails with the context: the next tick knows
\* nothing of this one.
Interrupt ==
    /\ faults < MaxFaults
    /\ pc # "idle"
    /\ pc' = "idle"
    /\ faults' = faults + 1
    /\ UNCHANGED <<batchVars, creating, orderVars, localVars, requests>>

Worker ==
    \/ LoadRunning \/ NothingLeft \/ LoadPending
    \/ PollJob \/ PollOrder \/ CountItem
    \/ CheckOrder \/ RecheckOrder \/ SkipItem \/ InsertJob \/ MarkItem
    \/ StopItem

----------------------------------------------------------------------------
(* The orders: their jobs move on, they close, they are held for review.   *)

\* The fulfilment worker moves the job and the ledger row, an operator queues the
\* order or buys its label (every ledger write ensures a job).
JobMoves(o) ==
    /\ job[o] # "none" \/ o \in open
    /\ \E j \in {"active", "settled", "failed"} : job' = [job EXCEPT ![o] = j]
    /\ \/ UNCHANGED ship
       \/ \E s \in Changes \cap Rows : ship' = [ship EXCEPT ![o] = s]
    /\ UNCHANGED <<batchVars, creating, open, hold, pc, localVars, boundVars>>

OrderChanges(o) ==
    /\ \/ "closing" \in Changes /\ open' = open \ {o} /\ UNCHANGED hold
       \/ /\ \E h \in Changes \cap {"review", "label"} : hold' = [hold EXCEPT ![o] = h]
          /\ UNCHANGED open
    /\ UNCHANGED <<batchVars, creating, job, ship, pc, localVars, boundVars>>

Next ==
    \/ Worker
    \/ Expire
    \/ Interrupt
    \/ \E m \in Modes : SelectOrders(m) \/ InsertBatch(m) \/ Restart(m)
    \/ \E o \in Orders : JobMoves(o) \/ OrderChanges(o)

Spec == Init /\ [][Next]_vars

\* The ticker starts a tick whenever the last one has ended; operators, orders
\* and jobs owe nothing.
FairSpec == Spec /\ WF_vars(Worker)

----------------------------------------------------------------------------
TypeOK ==
    /\ batch \in [Modes -> BatchRow]
    /\ items \in [Modes -> [Orders -> ItemStatus]]
    /\ recent \in Modes /\ mode \in Modes
    /\ creating \in [Modes -> SUBSET Orders]
    /\ job \in [Orders -> {"none", "active", "settled", "failed"}]
    /\ ship \in [Orders -> Rows \cup {"none"}]
    /\ open \subseteq Orders
    /\ hold \in [Orders -> {"none", "review", "label"}]
    /\ pc \in {"idle", "reload", "load", "poll", "order", "count", "pending",
              "enqueue", "skip", "insert", "mark", "stop"}
    /\ poll \subseteq Orders /\ todo \subseteq Orders
    /\ cur \in Orders \cup {0} /\ counted \in BOOLEAN
    /\ requests \in Nat /\ faults \in Nat

ReportsItems(m) ==
    /\ batch[m].succeeded = Cardinality(ItemsIn(m, "succeeded"))
    /\ batch[m].failed = Cardinality(ItemsIn(m, "failed"))
    /\ batch[m].status = "running" <=> ItemsIn(m, "pending") \cup ItemsIn(m, "running") # {}

\* What a batch reports is what became of its orders: the two counters are the
\* numbers of succeeded and failed items, and the batch runs exactly as long as
\* an item is unfinished (Create, Restart and Finish write both; a restart may
\* come between any two steps of the worker).
BatchReportsItems == \A m \in Modes : ReportsItems(m)

\* At most Limit items of a batch are running, although the worker decides how
\* many to start from two queries it made earlier and restarts change the items
\* in between.
RunningWithinLimit ==
    \A m \in Modes : Cardinality(ItemsIn(m, "running")) <= Limit

\* A running item has a completion job: the job is queued before the item is
\* marked, with every crash in between, or nobody would ever fulfil the order
\* while it holds a slot of its batch.
RunningItemHasJob ==
    \A m \in Modes : \A o \in ItemsIn(m, "running") : job[o] # "none"

\* A succeeded order is never sent through its batch again: neither a restart
\* nor a late failure takes it back.
SucceededStays ==
    [][\A m \in Modes : \A o \in ItemsIn(m, "succeeded") :
           items'[m][o] = "succeeded" \/ batch[m].status # "running"]_vars

\* If every job settles or fails in the end, a running batch completes: a
\* failed order, an order under review, an expired tick or a crash holds up none
\* of the later orders, in either mode.
JobsEnd == \A o \in Orders : <>[](job[o] # "active")

BatchCompletes ==
    JobsEnd => \A m \in Modes :
        (batch[m].status = "running") ~> (batch[m].status = "completed")

\* An item whose job has ended for good does not stay running, even if the jobs
\* of all other orders hang (a label that never prints); with one mode in use.
EndedJobIsCounted ==
    \A m \in Modes : \A o \in Orders :
        <>[](job[o] # "active") => []<>(items[m][o] # "running")
============================================================================
