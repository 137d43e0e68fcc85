----------------------------- MODULE OrderSync -----------------------------
(***************************************************************************)
(* Order synchronisation, warehouse classification and manual review       *)
(* (internal/service/service.go: SyncOrders, RefreshOrderDetail,           *)
(* ClassifyWarehouseQueue, PreviewWarehouses, UpdateManualReview,          *)
(* addManualReviewReason).  The background loop, the operators' handlers   *)
(* and Temu act on the same rows; a handler writes them in statements of   *)
(* their own, computed from what it read when it started.  A task is       *)
(*   [op, at, order, lines, verdict, todo]                                 *)
(* with lines the order lines it read, verdict the reasons it is going to  *)
(* persist and todo the reasons an eligible classification has yet to      *)
(* clear.                                                                  *)
(***************************************************************************)
EXTENDS WarehouseDecision, ManualReview, Sequences

CONSTANTS
    Orders,       \* the orders of the shop
    Handled,      \* those whose contents change and that handlers work on
    Contents,     \* what can be in an order: [unbound, multi, merged]
    Decisions,    \* the answers of XLWMS for it
    Quantities,   \* its quantities
    Background,   \* the background classification
    Operators,    \* the other handlers
    Requests,     \* what those are asked to do
    PageSize,     \* the orders on a page of Temu's list
    MaxChanges,   \* bounds: changes at Temu and XLWMS,
    MaxRequests,  \* requests to the handlers,
    MaxFaults,    \* failed calls and restarts
    NoRow,        \* the order is not in the ledger, or has not been checked
    Idle          \* the handler has nothing to do

AllRequests == {"preview", "refresh", "pend", "approve", "resolve", "reject", "buy"}

ASSUME SyncAssumption ==
    /\ IsFiniteSet(Orders)
    /\ Handled \subseteq Orders
    /\ Contents \subseteq [unbound : BOOLEAN, multi : BOOLEAN, merged : BOOLEAN]
    /\ Requests \subseteq AllRequests
    /\ PageSize \in Nat \ {0}
    /\ MaxChanges \in Nat /\ MaxRequests \in Nat /\ MaxFaults \in Nat
    /\ NoReview \notin Review
    /\ Background \notin Operators

VARIABLES
    listed,    \* the orders Temu lists as awaiting shipment, in its order
    content,   \* what is in each order, and its update time
    decision,  \* what XLWMS answers now
    changes, requests, faults,
    row,       \* temu_orders with temu_order_lines
    review,    \* temu_order_manual_reviews
    check,     \* temu_order_warehouse_checks
    shipped,   \* the orders with a row in temu_shipment_orders
    sync,      \* the synchronisation under way
    task,      \* what each handler is doing
    dropped    \* orders whose review was written from outdated lines (history)

remote == <<listed, content, decision, changes>>
ledger == <<row, review, check, shipped>>
vars == <<remote, requests, faults, ledger, sync, task, dropped>>

Handlers == Operators \cup {Background}
Versions == 0 .. MaxChanges
Lines == [unbound : BOOLEAN, multi : BOOLEAN, version : Versions]
Content == [lines : Lines, merged : BOOLEAN]
Row == [open : BOOLEAN, lines : Lines]

ASSUME RowAssumption == NoRow \notin Row

NoSync == [at |-> "idle", page |-> 1, count |-> 0, first |-> << >>, last |-> << >>]

ElementsOf(s) == {s[i] : i \in DOMAIN s}

Init ==
    /\ listed \in {s \in [1 .. Cardinality(Orders) -> Orders] : ElementsOf(s) = Orders}
    /\ content \in [Orders -> {[lines |-> [unbound |-> c.unbound, multi |-> c.multi,
                                            version |-> 0],
                                merged |-> c.merged] : c \in Contents}]
    /\ \A o \in Orders \ Handled :
          content[o] = [lines |-> [unbound |-> FALSE, multi |-> FALSE, version |-> 0],
                        merged |-> FALSE]
    /\ decision \in Decisions
    /\ changes = 0 /\ requests = 0 /\ faults = 0
    /\ row = [o \in Orders |-> NoRow] /\ review = [o \in Orders |-> NoReview]
    /\ check = [o \in Orders |-> NoRow] /\ shipped = {}
    /\ sync = NoSync
    /\ task = [p \in Handlers |-> Idle]
    /\ dropped = {}

----------------------------------------------------------------------------
(* Temu and XLWMS *)

(* The list is sorted by update time: an order that is new or has changed  *)
(* goes to one of its ends.                                                *)
Ends(s, o) == {Append(s, o), <<o>> \o s}

Without(s, i) == SubSeq(s, 1, i - 1) \o SubSeq(s, i + 1, Len(s))

Change ==
    /\ changes < MaxChanges
    /\ changes' = changes + 1
    /\ \/ /\ \E i \in DOMAIN listed : listed' = Without(listed, i)
          /\ UNCHANGED <<content, decision>>
       \/ /\ \E o \in Orders \ ElementsOf(listed) : listed' \in Ends(listed, o)
          /\ UNCHANGED <<content, decision>>
       \/ /\ \E i \in DOMAIN listed, c \in Contents :
                /\ listed[i] \in Handled
                /\ content' = [content EXCEPT ![listed[i]] =
                      [lines |-> [unbound |-> c.unbound, multi |-> c.multi,
                                  version |-> changes + 1],
                       merged |-> c.merged]]
                /\ listed' \in Ends(Without(listed, i), listed[i])
          /\ UNCHANGED decision
       \/ decision' \in Decisions \ {decision} /\ UNCHANGED <<listed, content>>
    /\ UNCHANGED <<requests, faults, ledger, sync, task, dropped>>

----------------------------------------------------------------------------
(* SyncOrders *)

classifyOrder(lines, merged) ==
    {r \in Found : \/ r = "sku_unbound" /\ lines.unbound
                   \/ r = "multi_item" /\ lines.multi
                   \/ r = "merge_candidate" /\ merged}

SyncUnchanged == UNCHANGED <<remote, requests, ledger, task, dropped>>

Page(n) ==
    LET last == n * PageSize
    IN  SubSeq(listed, (n - 1) * PageSize + 1,
               IF last < Len(listed) THEN last ELSE Len(listed))

(* The next page of the list, as Temu has it by now.  The loop ends with a *)
(* short page, or when as many orders were read as Temu has.  Of an order  *)
(* that moves between the pages the first and the last reading matter.     *)
OrderPage ==
    /\ sync.at \in {"idle", "page"}
    /\ LET page == Page(sync.page)
           read == ElementsOf(page)
           count == sync.count + Len(page)
           ended == Len(page) < PageSize \/ count >= Len(listed)
       IN  sync' = [at |-> IF ended THEN "replace" ELSE "page",
                    page |-> IF ended THEN 1 ELSE sync.page + 1,
                    count |-> IF ended THEN 0 ELSE count,
                    first |-> [o \in DOMAIN sync.first \cup read |->
                                  IF o \in DOMAIN sync.first THEN sync.first[o]
                                                             ELSE content[o]],
                    last |-> [o \in DOMAIN sync.first \cup read |->
                                 IF o \in read THEN content[o] ELSE sync.last[o]]]
    /\ SyncUnchanged /\ UNCHANGED faults

(* A page or the transaction fails: the ledger stays as it was.            *)
FailSync ==
    /\ sync.at # "idle" /\ faults < MaxFaults
    /\ faults' = faults + 1
    /\ sync' = NoSync
    /\ SyncUnchanged

(* What the transaction makes of a review.  An order that moved between    *)
(* two pages is written twice.                                             *)
Replaced(o) ==
    LET First == sync.first[o]
        Last == sync.last[o]
    IN  IF o \notin DOMAIN sync.first THEN CloseReview(review[o])
        ELSE ReplaceReview(ReplaceReview(review[o],
                                         classifyOrder(First.lines, First.merged)),
                           classifyOrder(Last.lines, Last.merged))

(* ReplaceOpenOrders: one transaction over all orders read; the open ones  *)
(* it did not read are closed.                                             *)
ReplaceOpenOrders ==
    /\ sync.at = "replace"
    /\ row' = [o \in Orders |->
                  IF o \in DOMAIN sync.first
                  THEN [open |-> TRUE, lines |-> sync.last[o].lines]
                  ELSE IF row[o] = NoRow THEN NoRow
                  ELSE [row[o] EXCEPT !.open = FALSE]]
    /\ review' = [o \in Orders |-> Replaced(o)]
    /\ dropped' = dropped \ DOMAIN sync.first
    /\ sync' = NoSync
    /\ UNCHANGED <<remote, requests, faults, check, shipped, task>>

Sync == OrderPage \/ ReplaceOpenOrders

----------------------------------------------------------------------------
(* The handlers *)

ClearOrder == <<"sku_unbound", "inventory_rule", "inventory_scope_incomplete",
                "warehouse_sku_spec_incomplete",
                "platform_sku_warehouse_restriction">>

Steps == {"query", "detail", "save", "clear", "upsert", "check", "update", "buy"}

Task == [op : AllRequests \cup {"classify"}, at : Steps, order : Orders,
         lines : Lines, verdict : SUBSET Reasons, todo : Seq(Recheckable)]

(* GetOrder, and the first step of what was asked.                         *)
Begin(p, op, at, o, verdict) ==
    task' = [task EXCEPT ![p] = [op |-> op, at |-> at, order |-> o,
                                 lines |-> row[o].lines, verdict |-> verdict,
                                 todo |-> << >>]]

Awaiting(o) == row[o] # NoRow /\ row[o].open

(* ListWarehouseClassificationCandidates.                                  *)
MutCandidate(o) ==
    /\ Awaiting(o) /\ o \notin shipped
    /\ review[o] # NoReview => ~review[o].active \/ review[o].status = "approved"
    /\ check[o] # NoRow => check[o].version # row[o].lines.version \/ ~check[o].fresh

Candidate(o) ==
    /\ Awaiting(o) /\ o \notin shipped
    /\ ~Completed(review[o])
    /\ review[o] # NoReview /\ review[o].active /\ review[o].status # "approved" =>
          review[o].reasons \subseteq Dynamic
    /\ check[o] # NoRow => check[o].version # row[o].lines.version \/ ~check[o].fresh

(* ClassifyWarehouseQueue takes one order: XLWMS is asked unless a line    *)
(* has no SKU.                                                             *)
Classify(o) ==
    /\ task[Background] = Idle
    /\ o \in Handled /\ Candidate(o)
    /\ IF row[o].lines.unbound
       THEN Begin(Background, "classify", "save", o, {"sku_unbound"})
       ELSE Begin(Background, "classify", "query", o, {})
    /\ UNCHANGED <<remote, requests, faults, ledger, sync, dropped>>

(* A request arrives and reads the order.                                  *)
Request(p, o) ==
    /\ task[p] = Idle /\ requests < MaxRequests
    /\ o \in Handled /\ row[o] # NoRow
    /\ requests' = requests + 1
    /\ \/ /\ "preview" \in Requests
          /\ Awaiting(o) /\ ~row[o].lines.unbound
          /\ ~Passes(review[o]) => CanBeRechecked(review[o])
          /\ Begin(p, "preview", "query", o, {})
       \/ \E op \in {"refresh", "pend", "approve"} \cap Requests :
             Begin(p, op, "detail", o, {})
       \/ "resolve" \in Requests /\ Begin(p, "resolve", "check", o, {})
       \/ "reject" \in Requests /\ o \in shipped /\ Begin(p, "reject", "upsert", o, {Address})
       \/ /\ "buy" \in Requests
          /\ Awaiting(o) /\ o \notin shipped
          /\ Passes(review[o]) /\ ~row[o].lines.unbound
          /\ Begin(p, "buy", "buy", o, {})
    /\ UNCHANGED <<remote, faults, ledger, sync, dropped>>

At(p, step) == task[p] # Idle /\ task[p].at = step
Goto(p, step) == task' = [task EXCEPT ![p].at = step]
End(p) == task' = [task EXCEPT ![p] = Idle]

HandlerUnchanged == UNCHANGED <<remote, requests, faults, row, sync>>

(* warehouseClassificationFromDecision and SaveWarehouseClassification.    *)
Query(p) ==
    /\ At(p, "query")
    /\ LET verdict == Categories(decision, Quantities)
       IN  task' = [task EXCEPT ![p].at = "save", ![p].verdict = verdict]
    /\ HandlerUnchanged /\ UNCHANGED <<review, check, shipped, dropped>>

Save(p) ==
    /\ At(p, "save")
    /\ LET t == task[p]
       IN  /\ check' = [check EXCEPT ![t.order] =
                 [status |-> IF t.verdict = {} THEN "eligible" ELSE "manual",
                  version |-> t.lines.version, fresh |-> TRUE]]
           /\ task' = [task EXCEPT
                 ![p].at = IF t.verdict = {} THEN "clear" ELSE "upsert",
                 ![p].todo = IF t.verdict = {} THEN ClearOrder ELSE << >>]
    /\ HandlerUnchanged /\ UNCHANGED <<review, shipped, dropped>>

(* XLWMS cannot be asked: the check says so and the review stays.          *)
FailQuery(p) ==
    /\ At(p, "query") /\ faults < MaxFaults
    /\ faults' = faults + 1
    /\ check' = [check EXCEPT ![task[p].order] =
          [status |-> "failed", version |-> task[p].lines.version, fresh |-> TRUE]]
    /\ End(p)
    /\ UNCHANGED <<remote, requests, row, review, shipped, sync, dropped>>

(* An eligible classification clears the recheckable reasons one by one.   *)
MutClear(p) ==
    /\ At(p, "clear")
    /\ LET t == task[p]
       IN  /\ review' = [review EXCEPT ![t.order] =
                 ClearManualReviewReason(@, Head(t.todo))]
           /\ IF t.todo = << >> THEN End(p)
              ELSE task' = [task EXCEPT ![p].todo = Tail(@)]
    /\ HandlerUnchanged /\ UNCHANGED <<check, shipped, dropped>>

Clear(p) ==
    /\ At(p, "clear")
    /\ LET t == task[p]
       IN  /\ review' = [review EXCEPT ![t.order] =
                 ClearManualReviewReason(@, Head(t.todo))]
           /\ IF Len(t.todo) = 1 THEN End(p)
              ELSE task' = [task EXCEPT ![p].todo = Tail(@)]
    /\ HandlerUnchanged /\ UNCHANGED <<check, shipped, dropped>>

(* RefreshOrderDetail asks Temu: only the detail of an order tells a       *)
(* handler that it can be merged.                                          *)
OrderDetail(p) ==
    /\ At(p, "detail")
    /\ task' = [task EXCEPT ![p].at = "upsert",
          ![p].verdict = IF content[task[p].order].merged THEN {"merge_candidate"} ELSE {}]
    /\ HandlerUnchanged /\ UNCHANGED <<review, check, shipped, dropped>>

(* UpsertManualReview with what is found in the lines read at the start.   *)
MutWritten(t) == t.verdict

Written(t) == classifyOrder(t.lines, FALSE) \cup t.verdict

Upsert(p) ==
    /\ At(p, "upsert")
    /\ LET t == task[p]
       IN  /\ review' = [review EXCEPT ![t.order] = UpsertManualReview(@, Written(t))]
           /\ dropped' = IF t.lines # row[t.order].lines
                         THEN dropped \cup {t.order} ELSE dropped
           /\ CASE t.op = "refresh" -> End(p)
                [] t.op = "approve" -> Goto(p, "check")
                [] OTHER -> Goto(p, "update")
    /\ HandlerUnchanged /\ UNCHANGED <<check, shipped>>

(* What UpdateManualReview of the service refuses: an approval over a      *)
(* reason that must be rechecked, a completion of anything but an order in *)
(* manual processing.                                                      *)
Refused(t) ==
    LET now == review[t.order]
    IN  IF t.op = "approve"
        THEN \/ row[t.order].lines.unbound
             \/ /\ now # NoReview /\ now.active
                /\ now.reasons \cap {"sku_unbound", "inventory_rule",
                       "warehouse_sku_spec_incomplete", Address} # {}
        ELSE now = NoReview \/ ~now.active \/ now.status # "manual_pending"

CheckTransition(p) ==
    /\ At(p, "check")
    /\ IF Refused(task[p]) THEN End(p) ELSE Goto(p, "update")
    /\ HandlerUnchanged /\ UNCHANGED <<review, check, shipped, dropped>>

Target(t) == CASE t.op = "approve" -> "approved"
               [] t.op = "resolve" -> "resolved"
               [] OTHER -> "manual_pending"

(* UpdateManualReview of the store.                                        *)
Update(p) ==
    /\ At(p, "update")
    /\ LET t == task[p]
       IN  review' = IF Updatable(review[t.order], Target(t))
                     THEN [review EXCEPT ![t.order] = UpdateManualReview(@, Target(t))]
                     ELSE review
    /\ End(p)
    /\ HandlerUnchanged /\ UNCHANGED <<check, shipped, dropped>>

(* Purchase of a quote made while the order passed: it reads the order     *)
(* again, but not its review.                                              *)
Buy(p) ==
    /\ At(p, "buy")
    /\ shipped' = IF Awaiting(task[p].order) THEN shipped \cup {task[p].order} ELSE shipped
    /\ End(p)
    /\ HandlerUnchanged /\ UNCHANGED <<review, check, dropped>>

(* A call of a handler fails, or its request is cancelled, between two     *)
(* statements.                                                             *)
Abort(p) ==
    /\ task[p] # Idle /\ faults < MaxFaults
    /\ faults' = faults + 1
    /\ End(p)
    /\ UNCHANGED <<remote, requests, ledger, sync, dropped>>

Work(p) ==
    \/ Query(p) \/ Save(p) \/ Clear(p) \/ OrderDetail(p) \/ Upsert(p)
    \/ CheckTransition(p) \/ Update(p) \/ Buy(p)

(* Five minutes pass: the order may be checked again.                      *)
Age(o) ==
    /\ check[o] # NoRow /\ check[o].fresh
    /\ check' = [check EXCEPT ![o].fresh = FALSE]
    /\ UNCHANGED <<remote, requests, faults, row, review, shipped, sync, task, dropped>>

(* The server restarts; what a handler had not written is gone.            *)
Restart ==
    /\ faults < MaxFaults
    /\ faults' = faults + 1
    /\ sync' = NoSync
    /\ task' = [p \in Handlers |-> Idle]
    /\ UNCHANGED <<remote, requests, ledger, dropped>>

Next ==
    \/ Change \/ Sync \/ FailSync \/ Restart
    \/ \E o \in Orders : Classify(o) \/ Age(o)
    \/ \E p \in Operators, o \in Orders : Request(p, o)
    \/ \E p \in Handlers : Work(p) \/ FailQuery(p) \/ Abort(p)

Spec == Init /\ [][Next]_vars

(* The background loop runs on: it synchronises again and again, and a     *)
(* batch is followed by another until no candidate is left.                *)
FairSpec ==
    /\ Spec
    /\ WF_vars(Sync)
    /\ \A o \in Orders : SF_vars(Classify(o)) /\ WF_vars(Age(o))
    /\ \A p \in Handlers : WF_vars(Work(p))

----------------------------------------------------------------------------
(* Properties *)

RemoteTypes ==
    /\ listed \in Seq(Orders)
    /\ content \in [Orders -> Content]
    /\ changes \in 0 .. MaxChanges /\ requests \in 0 .. MaxRequests
    /\ faults \in 0 .. MaxFaults

LedgerTypes ==
    /\ row \in [Orders -> Row \cup {NoRow}]
    /\ review \in [Orders -> Review \cup {NoReview}]
    /\ check \in [Orders -> [status : {"eligible", "manual", "failed"},
                             version : Versions, fresh : BOOLEAN] \cup {NoRow}]
    /\ shipped \subseteq Orders /\ dropped \subseteq Orders

SyncTypes ==
    \E read \in SUBSET Orders :
        sync \in [at : {"idle", "page", "replace"}, page : Nat \ {0}, count : Nat,
                 first : [read -> Content], last : [read -> Content]]

TaskTypes ==
    /\ task \in [Handlers -> Task \cup {Idle}]
    /\ \A p \in Handlers : task[p] # Idle =>
          /\ row[task[p].order] # NoRow
          /\ task[p].at = "clear" => task[p].todo # << >>

(* Type invariant: the rows, the synchronisation and the tasks under way.  *)
TypeOK == RemoteTypes /\ LedgerTypes /\ SyncTypes /\ TaskTypes

(* An order a person has completed by hand stays completed, whatever a     *)
(* synchronisation, a classification or another transition that read the   *)
(* review before goes on to write (docs/fulfillment.md:88).                *)
CompletedIsFinal ==
    [][\A o \in Orders : Completed(review[o]) => Completed(review'[o])]_vars

(* While the order stays open, only a person who completes it ends the     *)
(* block on an address that Temu rejected: no classification, refresh,     *)
(* approval or synchronisation does.                                       *)
AddressBlocked(r) == r # NoReview /\ r.active /\ Address \in r.reasons

AddressStays ==
    [][\A o \in Orders :
          AddressBlocked(review[o]) /\ row'[o].open =>
             AddressBlocked(review'[o]) \/ Completed(review'[o])]_vars

(* An open order of several items is under review until a person approves  *)
(* or completes it (docs/fulfillment.md:11), unless a handler has written  *)
(* its review from lines it read before they changed: until the next       *)
(* synchronisation such a write hides the reason.                          *)
SeveralItemsReviewed ==
    \A o \in Orders \ dropped :
        Awaiting(o) /\ row[o].lines.multi =>
            /\ review[o] # NoReview
            /\ \/ Completed(review[o])
               \/ review[o].active /\ "multi_item" \in review[o].reasons

(* A review that holds reasons of both kinds waits for a person: the       *)
(* background loop passes it over, a preview does not recheck it, and it   *)
(* cannot be approved.                                                     *)
Entangled(r) ==
    r # NoReview /\ r.active /\ Hard(r.reasons) /\ ~(r.reasons \subseteq Dynamic)

(* An order whose hindrances are gone is released: if Temu keeps listing   *)
(* it, nothing in it needs a person and XLWMS finds a warehouse, then it   *)
(* stays in the queue for shipping, whatever page drift, restarts, failed  *)
(* calls and operators did before.                                         *)
Plainly(o) ==
    /\ o \in ElementsOf(listed)
    /\ ~content[o].lines.unbound /\ ~content[o].lines.multi /\ ~content[o].merged
    /\ Categories(decision, Quantities) = {}
    /\ o \notin shipped /\ ~Completed(review[o])

Queued(o) ==
    /\ Awaiting(o) /\ Passes(review[o])
    /\ check[o] # NoRow /\ check[o].status = "eligible"
    /\ check[o].version = row[o].lines.version

RecoveredIsReleased ==
    \A o \in Handled : <>[](Plainly(o) /\ ~Entangled(review[o])) => <>[]Queued(o)

(* What docs/fulfillment.md:11 and 14 say of sku_unbound: it blocks until  *)
(* every line is bound and XLWMS returns the SKU, and the recheck removes  *)
(* it then.  It stays on a review that also says multi_item or             *)
(* merge_candidate, even when those are gone.                              *)
BoundOrderIsUnblocked ==
    \A o \in Handled :
        <>[]Plainly(o) =>
            <>[](review[o] # NoReview /\ review[o].active =>
                     "sku_unbound" \notin review[o].reasons)
============================================================================
