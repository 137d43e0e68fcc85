--------------------------- MODULE ShipmentLedger ---------------------------
(***************************************************************************)
(* One order of one shop from the moment it enters fulfilment until its    *)
(* OMS check: the ledger row, the completion job, and everybody who writes *)
(* them.  Orders share nothing here (each has its own rows), so one order  *)
(* is the whole of the component.                                          *)
(*                                                                         *)
(* Worker is the background loop that claims the job and runs              *)
(* runAutoFulfillment; a cycle waits for its goroutines, so an order has   *)
(* at most one.  Handlers are the HTTP requests of operators (and the OMS  *)
(* query loop, which runs CheckOMSSync like a request does).  All of them  *)
(* run the same service functions, so a step is an action of an actor a.   *)
(*                                                                         *)
(* A step is one database transaction or one remote call, with the reads   *)
(* the code makes directly after it; between two steps every other actor   *)
(* may run and the process may die.  pc[a] is where actor a is, snap[a]    *)
(* the shipment value the Go code holds in a variable there, reply[a] and  *)
(* found[a] the answer of its last call, choice[a] the carrier of its      *)
(* quote.  Failures of PostgreSQL itself are not modelled.                 *)
(***************************************************************************)
EXTENDS CompletionJob

CONSTANTS
    Worker,                  \* the background fulfilment worker
    Handlers,                \* HTTP requests that may be served at once
    HandlerOps,              \* the operations those requests ask for
    Packages,                \* packages (labels) Temu can create for the order
    Carriers,                \* carriers a quote can select
    NoCarrier,
    Timeouts,                \* calls that may fail temporarily, applied or not
    Refusals,                \* calls that may be rejected for good
    PrintOutcomes,           \* what may become of a pending label
    Faults,                  \* what else the remote services may do
    MaxSubmissionAttempts,   \* maxShipmentSubmissionAttempts
    MaxConfirmationAttempts, \* maxShipmentConfirmationAttempts
    MaxSteps,                \* iterations of the worker's status loop
    MaxRequests,             \* bound: HTTP requests in a behaviour
    MaxInterrupts            \* bound: crashes and cancelled contexts

Calls == {"quote", "inventory", "create", "detail", "result", "confirm", "oms"}

AllFaults == {"late",          \* Temu applies a timed-out create afterwards
              "lag",           \* order detail misses created packages
              "duplicates",    \* Temu creates a second package when asked
              "address",       \* the carrier of a create rejects the address
              "failedPackage", \* ... although Temu created the package
              "unlisted",      \* a create succeeds with an empty packageSn list
              "manual",        \* OMS demands manual handling
              "closing"}       \* the order leaves (and rejoins) the open orders

AllHandlerOps == {"purchase", "refresh", "confirm", "recover", "checkOMS"}

ASSUME ActorsAssumption ==
    /\ Worker \notin Handlers
    /\ NoCarrier \notin Carriers
    /\ HandlerOps \subseteq AllHandlerOps
    /\ Timeouts \cup Refusals \subseteq Calls
    /\ PrintOutcomes \subseteq {"ready", "untracked", "failed", "address"}
    /\ Faults \subseteq AllFaults

ASSUME BoundsAssumption ==
    /\ MaxSubmissionAttempts \in Nat \ {0}
    /\ MaxConfirmationAttempts \in Nat \ {0}
    /\ MaxSteps \in Nat \ {0}
    /\ MaxRequests \in Nat
    /\ MaxInterrupts \in Nat

Actors == Handlers \cup {Worker}

NoShipment == [status |-> "none", pkgs |-> {}, tracked |-> FALSE, attempts |-> 0,
               confirms |-> 0, confirmed |-> FALSE, carrier |-> NoCarrier,
               failed |-> {}, error |-> "none"]

\* attempts: submission_attempts; confirms: confirmation_attempts, counted up to
\* the limit it is compared with; confirmed: confirmed_at is not NULL; failed:
\* failed_carrier_codes; error: what the code tells apart in error_code and
\* error_message.
Shipment == [status : ShipmentStatus \cup {"none"}, pkgs : SUBSET Packages,
             tracked : BOOLEAN, attempts : Nat,
             confirms : 0 .. MaxConfirmationAttempts, confirmed : BOOLEAN,
             carrier : Carriers \cup {NoCarrier},
             failed : SUBSET (Carriers \cup {NoCarrier}),
             error : {"none", "missing", "address", "other"}]

OMSStatus == {"none", "querying", "waiting_sync", "verified", "failed",
              "manual_required", "terminal"}

VARIABLES
    ship, job,          \* temu_shipments, temu_auto_fulfillment_jobs
    oms,                \* temu_oms_sync_checks.status
    open, manual,       \* the order: awaiting shipment; under manual review
    held,               \* the XLWMS inventory reservation of the order
    labels,             \* packages Temu created for the order
    print,              \* state of its shipping label at Temu
    accepted,           \* Temu took the shipment confirmation
    late,               \* timed-out creates Temu has still to apply
    pc, op, snap, reply, found, choice,
    step, due,          \* worker: loop counter, attempts when retry was due
    requests, interrupts

ledgerVars == <<ship, job>>
orderVars  == <<open, manual>>
omsVars    == <<oms>>
heldVars   == <<held>>
temuVars   == <<labels, print, accepted, late>>
cycleVars  == <<step, due>>
boundVars  == <<requests, interrupts>>
localVars  == <<op, choice>>

vars == <<ship, job, oms, open, manual, held, labels, print, accepted, late,
          pc, op, snap, reply, found, choice, step, due, requests, interrupts>>

Ops == AllHandlerOps \cup {"none", "unknown", "resubmit", "pending", "coverage", "fallback"}

Replies == {"none", "ok", "already", "created", "exists", "temporary", "permanent", "closed",
            "missing", "pending", "ready", "untracked", "failed", "address", "omsManual",
            "waiting_sync", "verified", "terminal", "querying"}

PC == {"idle", "purchase", "inventory", "reserve", "recheck", "adoptRecheck",
       "prepareRetry", "create", "existing", "adoptExisting", "record",
       "refresh", "detail", "missing", "adoptRefresh", "result", "recordResult",
       "annotate", "settle", "confirm", "attempt", "confirmCall", "recordConfirm",
       "recover", "recoverDetail", "adoptRecover", "recoverQuote", "prepareRecovery",
       "checkOMS", "omsAnswer", "omsRelease", "dispatch", "retryUnknown", "failedLabel", "fallbackQuote", "release",
       "done"}

Init ==
    /\ ship = NoShipment /\ job = NoJob /\ oms = "none"
    /\ open = TRUE /\ manual = FALSE /\ held = FALSE
    /\ labels = {} /\ print = "pending" /\ accepted = FALSE /\ late = 0
    /\ pc     = [a \in Actors |-> "idle"]
    /\ op     = [a \in Actors |-> "none"]
    /\ snap   = [a \in Actors |-> NoShipment]
    /\ reply  = [a \in Actors |-> "none"]
    /\ found  = [a \in Actors |-> {}]
    /\ choice = [a \in Actors |-> NoCarrier]
    /\ step = 0 /\ due = 0 /\ requests = 0 /\ interrupts = 0

----------------------------------------------------------------------------
(* Moving an actor, and the two unconditional ledger writes.               *)

Move(a, l, s, r, f) ==
    /\ pc'    = [pc    EXCEPT ![a] = l]
    /\ snap'  = [snap  EXCEPT ![a] = s]
    /\ reply' = [reply EXCEPT ![a] = r]
    /\ found' = [found EXCEPT ![a] = f]

Goto(a, l)      == Move(a, l, snap[a], "none", {})
Return(a, s, r) == Move(a, "done", s, r, {})

Rest(a) ==
    /\ Move(a, "idle", NoShipment, "none", {})
    /\ op' = [op EXCEPT ![a] = "none"]
    /\ choice' = [choice EXCEPT ![a] = NoCarrier]

\* Neither statement looks at the status it overwrites.
Submission(s, status, pkgs, error) ==
    [s EXCEPT !.status = status, !.pkgs = pkgs, !.error = error]

UpdateShipmentSubmission(status, pkgs, error) ==
    /\ ship' = Submission(ship, status, pkgs, error)
    /\ job'  = EnsureJob(job, status)

\* Mutant: a new label result starts the confirmation attempts over.
MutUpdateShipmentResult(status, tracked, error) ==
    /\ ship' = [ship EXCEPT !.status = status, !.tracked = @ \/ tracked,
                            !.error = error, !.confirms = 0]
    /\ job'  = EnsureJob(job, status)

UpdateShipmentResult(status, tracked, error) ==
    /\ ship' = [ship EXCEPT !.status = status, !.tracked = @ \/ tracked, !.error = error]
    /\ job'  = EnsureJob(job, status)

MarkShipmentConfirmed ==
    /\ ship' = [ship EXCEPT !.status = "shipped", !.confirmed = TRUE, !.error = "none"]
    /\ job'  = EnsureJob(job, "shipped")

\* Mutant: every attempt is recorded as the first.
MutResubmit(s, carrier) ==
    [status |-> "submitting", pkgs |-> {}, tracked |-> FALSE, attempts |-> 1,
     confirms |-> s.confirms, confirmed |-> FALSE, carrier |-> carrier, failed |-> s.failed,
     error |-> "none"]

\* A new attempt of the same row: every Prepare statement and the insert.
Resubmit(s, carrier) ==
    [status |-> "submitting", pkgs |-> {}, tracked |-> FALSE, attempts |-> s.attempts + 1,
     confirms |-> s.confirms, confirmed |-> FALSE, carrier |-> carrier, failed |-> s.failed,
     error |-> "none"]

----------------------------------------------------------------------------
(* Answers of the remote services.                                         *)

CallErrors(call) == (IF call \in Timeouts THEN {"temporary"} ELSE {})
                    \cup (IF call \in Refusals THEN {"permanent"} ELSE {})

\* packageSNsFromOrderDetail of one answer of Temu's order detail.
Details == IF "lag" \in Faults THEN SUBSET labels ELSE {labels}

\* Mutant: a failed query is taken for an order without packages.
MutOrderDetail(a, failed, ifFound, ifNone) ==
    /\ \/ CallErrors("detail") # {} /\ Move(a, ifNone, snap[a], "none", {})
       \/ \E d \in Details : Move(a, IF d = {} THEN ifNone ELSE ifFound, snap[a], "none", d)
    /\ UNCHANGED <<ledgerVars, omsVars, orderVars, heldVars, temuVars, localVars, cycleVars, boundVars>>

OrderDetail(a, failed, ifFound, ifNone) ==
    /\ \/ \E e \in CallErrors("detail") : Return(a, failed, e)
       \/ \E d \in Details : Move(a, IF d = {} THEN ifNone ELSE ifFound, snap[a], "none", d)
    /\ UNCHANGED <<ledgerVars, omsVars, orderVars, heldVars, temuVars, localVars, cycleVars, boundVars>>

TemuMayCreate == labels = {} \/ "duplicates" \in Faults

TemuCreates(p, state) ==
    /\ TemuMayCreate
    /\ p \in Packages \ labels
    /\ labels' = labels \cup {p}
    /\ print' = state

----------------------------------------------------------------------------
(* submitReservedShipment: one bg.logistics.shipment.create and its record. *)

CreateShipment(a) ==
    /\ pc[a] = "create"
    /\ \/ /\ \E p \in Packages :
                \/ TemuCreates(p, "pending") /\ Move(a, "record", snap[a], "created", {p})
                \/ /\ "unlisted" \in Faults
                   /\ TemuCreates(p, "pending") /\ Move(a, "record", snap[a], "created", {})
                \/ /\ "create" \in Timeouts
                   /\ TemuCreates(p, "pending") /\ Move(a, "record", snap[a], "temporary", {})
                \/ /\ "failedPackage" \in Faults
                   /\ TemuCreates(p, "address") /\ Move(a, "record", snap[a], "address", {})
          /\ late' = late
       \/ /\ "create" \in Timeouts
          /\ late' \in {late, IF "late" \in Faults THEN late + 1 ELSE late}
          /\ Move(a, "record", snap[a], "temporary", {})
          /\ UNCHANGED <<labels, print>>
       \/ /\ \/ "create" \in Refusals /\ Move(a, "record", snap[a], "permanent", {})
             \/ "address" \in Faults /\ Move(a, "record", snap[a], "address", {})
             \/ labels # {} /\ Move(a, "existing", snap[a], "none", {})
          /\ UNCHANGED <<labels, print, late>>
    /\ UNCHANGED <<ledgerVars, omsVars, orderVars, heldVars, accepted, localVars, cycleVars, boundVars>>

\* Temu answered that the order already has a request: look for its package.
FindExisting(a) ==
    /\ pc[a] = "existing"
    /\ \/ \E d \in Details \ {{}} : Move(a, "adoptExisting", snap[a], "none", d)
       \/ /\ CallErrors("detail") # {} \/ {} \in Details
          /\ Move(a, "record", snap[a], "exists", {})
    /\ UNCHANGED <<ledgerVars, omsVars, orderVars, heldVars, temuVars, localVars, cycleVars, boundVars>>

AdoptExisting(a) ==
    /\ pc[a] = "adoptExisting"
    /\ UpdateShipmentSubmission("label_pending", found[a], "none")
    /\ Goto(a, "refresh")
    /\ UNCHANGED <<omsVars, orderVars, heldVars, temuVars, localVars, cycleVars, boundVars>>

\* The status a create answer is recorded with.
SubmissionStatus(answer, pkgs) ==
    IF answer = "created" THEN IF pkgs = {} THEN "submission_unknown" ELSE "label_pending"
    ELSE IF answer \in {"temporary", "exists"} THEN "submission_unknown"
    ELSE "label_failed"

SubmissionError(answer) ==
    IF answer = "created" THEN "none" ELSE IF answer = "address" THEN "address" ELSE "other"

\* RecordShipmentCarrierFailure follows at once when the address was rejected.
RecordSubmission(a) ==
    /\ pc[a] = "record"
    /\ LET r == reply[a]
           s == [Submission(ship, SubmissionStatus(r, found[a]), found[a], SubmissionError(r))
                 EXCEPT !.failed = IF r = "address" THEN @ \cup {snap[a].carrier} ELSE @]
       IN  /\ ship' = s
           /\ job'  = EnsureJob(job, s.status)
           /\ Return(a, s, CASE r = "created"   -> "ok"
                             [] r = "temporary" -> "temporary"
                             [] OTHER           -> "permanent")
    /\ UNCHANGED <<omsVars, orderVars, heldVars, temuVars, localVars, cycleVars, boundVars>>

----------------------------------------------------------------------------
(* Purchase (Quote before it when the worker buys).                        *)

\* A plain quote is refused while the order is under manual review; a request
\* brings a quote that was made earlier.
CheckPurchase(a) ==
    /\ pc[a] = "purchase"
    /\ \/ ~open /\ Return(a, NoShipment, "closed") /\ UNCHANGED choice
       \/ /\ \E e \in CallErrors("quote") : Return(a, NoShipment, e)
          /\ UNCHANGED choice
       \/ /\ a = Worker /\ manual
          /\ Return(a, NoShipment, "permanent")
          /\ UNCHANGED choice
       \/ /\ open
          /\ ship.status # "none" /\ ~ShipmentRetryable(ship)
          /\ \/ a = Worker /\ Return(a, NoShipment, "permanent")   \* Quote saw it
             \/ Return(a, ship, "ok")                              \* Purchase saw it
          /\ UNCHANGED choice
       \/ /\ open /\ (a = Worker => ~manual)
          /\ ship.status = "none" \/ ShipmentRetryable(ship)
          /\ \E c \in Carriers : choice' = [choice EXCEPT ![a] = c]
          /\ Goto(a, "inventory")
    /\ UNCHANGED <<ledgerVars, omsVars, orderVars, heldVars, temuVars, op, cycleVars, boundVars>>

\* reserveFulfillmentInventory.  A warehouse without capacity makes the worker
\* quote the others; the order fails when none is left.
ReserveInventory(a) ==
    /\ pc[a] = "inventory"
    /\ \/ held' = TRUE /\ Goto(a, "reserve")
       \/ /\ \E e \in CallErrors("inventory") : Return(a, NoShipment, e)
          /\ UNCHANGED held
    /\ UNCHANGED <<ledgerVars, omsVars, orderVars, temuVars, localVars, cycleVars, boundVars>>

ReserveShipment(a) ==
    /\ pc[a] = "reserve"
    /\ IF ship.status = "none"
       THEN LET s == Resubmit(NoShipment, choice[a])
            IN  ship' = s /\ job' = EnsureJob(job, "submitting")
                /\ Move(a, "create", s, "none", {})
       ELSE /\ ship' = ship
            /\ job'  = EnsureJob(job, ship.status)
            /\ IF ShipmentRetryable(ship)
               THEN Move(a, "recheck", ship, "none", {})
               ELSE Return(a, ship, "ok")
    /\ UNCHANGED <<omsVars, orderVars, heldVars, temuVars, localVars, cycleVars, boundVars>>

\* Before buying again: does Temu already show a package?
Recheck(a) ==
    pc[a] = "recheck" /\ OrderDetail(a, NoShipment, "adoptRecheck", "prepareRetry")

AdoptRecheck(a) ==
    /\ pc[a] = "adoptRecheck"
    /\ UpdateShipmentSubmission("label_pending", found[a], "none")
    /\ Return(a, ship', "ok")
    /\ UNCHANGED <<omsVars, orderVars, heldVars, temuVars, localVars, cycleVars, boundVars>>

PrepareShipmentRetry(a) ==
    /\ pc[a] = "prepareRetry"
    /\ IF ShipmentRetryable(ship)
       THEN /\ ship' = Resubmit(ship, choice[a])
            /\ job'  = EnsureJob(job, "submitting")
            /\ Move(a, "create", ship', "none", {})
       ELSE Return(a, NoShipment, "permanent") /\ UNCHANGED ledgerVars
    /\ UNCHANGED <<omsVars, orderVars, heldVars, temuVars, localVars, cycleVars, boundVars>>

----------------------------------------------------------------------------
(* RefreshShipment.                                                        *)

BeginRefresh(a) ==
    /\ pc[a] = "refresh"
    /\ CASE ship.status = "shipped" ->
              /\ job' = UpdateJob(job, TRUE, "waiting_oms", FALSE)
              /\ Return(a, ship, "ok")
         [] ship.status # "shipped" /\ ship.pkgs = {} ->
              Move(a, "detail", ship, "none", {}) /\ UNCHANGED job
         [] OTHER ->
              Move(a, "result", ship, "none", {}) /\ UNCHANGED job
    /\ UNCHANGED <<ship, omsVars, orderVars, heldVars, temuVars, localVars, cycleVars, boundVars>>

LookUpPackages(a) ==
    pc[a] = "detail" /\ OrderDetail(a, snap[a], "adoptRefresh", "missing")

RecordMissing(a) ==
    /\ pc[a] = "missing"
    /\ UpdateShipmentSubmission("submission_unknown", {}, "missing")
    /\ Return(a, ship', "missing")
    /\ UNCHANGED <<omsVars, orderVars, heldVars, temuVars, localVars, cycleVars, boundVars>>

AdoptRefresh(a) ==
    /\ pc[a] = "adoptRefresh"
    /\ UpdateShipmentSubmission("label_pending", found[a], "none")
    /\ Move(a, "result", ship', "none", {})
    /\ UNCHANGED <<omsVars, orderVars, heldVars, temuVars, localVars, cycleVars, boundVars>>

\* bg.logistics.shipment.result.get for the packages of the snapshot.
QueryResult(a) ==
    /\ pc[a] = "result"
    /\ \/ \E e \in CallErrors("result") : Return(a, snap[a], e)
       \/ Move(a, "recordResult", snap[a], print, {})
    /\ UNCHANGED <<ledgerVars, omsVars, orderVars, heldVars, temuVars, localVars, cycleVars, boundVars>>

ResultStatus(answer) ==
    CASE answer = "pending"                -> "label_pending"
      [] answer \in {"ready", "untracked"} -> "label_ready"
      [] OTHER                             -> "label_failed"

ResultError(answer) ==
    CASE answer = "address" -> "address"
      [] answer = "failed"  -> "other"
      [] OTHER              -> "none"

RecordResult(a) ==
    /\ pc[a] = "recordResult"
    /\ UpdateShipmentResult(ResultStatus(reply[a]), reply[a] = "ready", ResultError(reply[a]))
    /\ Move(a, "annotate", snap[a], reply[a], {})
    /\ UNCHANGED <<omsVars, orderVars, heldVars, temuVars, localVars, cycleVars, boundVars>>

\* The carrier Temu reports (it may have replaced the one that was bought), and
\* for a rejected address the failed carrier and the manual-review reason.
AnnotateResult(a) ==
    /\ pc[a] = "annotate"
    /\ \E c \in Carriers :
         ship' = [ship EXCEPT !.carrier = c,
                              !.failed  = IF reply[a] = "address" THEN @ \cup {c} ELSE @]
    /\ manual' = (manual \/ reply[a] = "address")
    /\ Goto(a, "settle")
    /\ UNCHANGED <<job, open, omsVars, heldVars, temuVars, localVars, cycleVars, boundVars>>

\* confirmedShipment, which RefreshShipment also ends with: whatever the
\* status, the job goes to waiting_oms.
Settle(a) ==
    /\ pc[a] = "settle"
    /\ job' = UpdateJob(job, TRUE, "waiting_oms", FALSE)
    /\ Return(a, ship, "ok")
    /\ UNCHANGED <<ship, omsVars, orderVars, heldVars, temuVars, localVars, cycleVars, boundVars>>

----------------------------------------------------------------------------
(* ConfirmShipped.                                                         *)

BeginConfirm(a) ==
    /\ pc[a] = "confirm"
    /\ CASE ship.status = "shipped" ->
              /\ job' = UpdateJob(job, TRUE, "waiting_oms", FALSE)
              /\ Return(a, ship, "ok")
         [] ship.status \in {"label_ready", "confirm_failed"} /\ ship.tracked ->
              Move(a, "attempt", ship, "none", {}) /\ UNCHANGED job
         [] OTHER ->
              Return(a, ship, "permanent") /\ UNCHANGED job
    /\ UNCHANGED <<ship, omsVars, orderVars, heldVars, temuVars, localVars, cycleVars, boundVars>>

CountConfirmation(s) ==
    [s EXCEPT !.confirms = IF @ < MaxConfirmationAttempts THEN @ + 1 ELSE @]

RecordShipmentConfirmationAttempt(a) ==
    /\ pc[a] = "attempt"
    /\ IF ship.status \in {"label_ready", "confirm_failed"}
       THEN /\ ship' = CountConfirmation(ship)
            /\ Goto(a, "confirmCall")
       ELSE Return(a, snap[a], "permanent") /\ UNCHANGED ship
    /\ UNCHANGED <<job, omsVars, orderVars, heldVars, temuVars, localVars, cycleVars, boundVars>>

\* bg.logistics.shipped.package.confirm for the packages of the snapshot; Temu
\* cannot confirm an empty list.
CallConfirm(a) ==
    /\ pc[a] = "confirmCall"
    /\ \/ /\ ~accepted /\ snap[a].pkgs # {}
          /\ accepted' = TRUE
          /\ Move(a, "recordConfirm", snap[a], "ok", {})
       \/ /\ accepted
          /\ Move(a, "recordConfirm", snap[a], "already", {}) /\ UNCHANGED accepted
       \/ /\ "confirm" \in Timeouts
          /\ accepted' \in {accepted, accepted \/ snap[a].pkgs # {}}
          /\ Move(a, "recordConfirm", snap[a], "temporary", {})
       \/ /\ "confirm" \in Refusals \/ (~accepted /\ snap[a].pkgs = {})
          /\ Move(a, "recordConfirm", snap[a], "permanent", {}) /\ UNCHANGED accepted
    /\ UNCHANGED <<ledgerVars, omsVars, orderVars, heldVars, labels, print, late, localVars, cycleVars, boundVars>>

\* Mutant: an answer that did not arrive is taken for "already shipped".
MutRecordConfirm(a) ==
    /\ pc[a] = "recordConfirm"
    /\ IF reply[a] # "permanent"
       THEN MarkShipmentConfirmed /\ Goto(a, "settle")
       ELSE /\ UpdateShipmentResult("confirm_failed", snap[a].tracked, "other")
            /\ Return(a, ship', reply[a])
    /\ UNCHANGED <<omsVars, orderVars, heldVars, temuVars, localVars, cycleVars, boundVars>>

RecordConfirm(a) ==
    /\ pc[a] = "recordConfirm"
    /\ CASE reply[a] = "ok"      -> MarkShipmentConfirmed /\ Goto(a, "settle")
         [] reply[a] = "already" -> MarkShipmentConfirmed /\ Return(a, ship', "ok")
         [] OTHER ->
              /\ UpdateShipmentResult("confirm_failed", snap[a].tracked, "other")
              /\ Return(a, ship', reply[a])
    /\ UNCHANGED <<omsVars, orderVars, heldVars, temuVars, localVars, cycleVars, boundVars>>

----------------------------------------------------------------------------
(* RecoverFailedShipment, for an operator and for the worker's fallback.   *)

BeginRecover(a) ==
    /\ pc[a] = "recover"
    /\ IF RecoveryAllowed(ship)
       THEN Move(a, "recoverDetail", ship, "none", {})
       ELSE Return(a, NoShipment, "permanent")
    /\ UNCHANGED <<ledgerVars, omsVars, orderVars, heldVars, temuVars, localVars, cycleVars, boundVars>>

RecoverDetail(a) ==
    pc[a] = "recoverDetail" /\ OrderDetail(a, NoShipment, "adoptRecover", "recoverQuote")

\* The package is kept and the recovery stops with an error.
AdoptRecover(a) ==
    /\ pc[a] = "adoptRecover"
    /\ UpdateShipmentSubmission("label_pending", found[a], "none")
    /\ Return(a, NoShipment, "permanent")
    /\ UNCHANGED <<omsVars, orderVars, heldVars, temuVars, localVars, cycleVars, boundVars>>

\* The quote's carrier is compared with the snapshot, then inventory reserved.
\* An operator's quote names any carrier, the worker's was chosen before.
CheckRecoveryQuote(a) ==
    /\ pc[a] = "recoverQuote"
    /\ \/ /\ open
          /\ \E c \in Carriers \ ExcludedCarriers(snap[a]) :
                /\ a = Worker => c = choice[a]
                /\ choice' = [choice EXCEPT ![a] = c]
          /\ held' = TRUE
          /\ Goto(a, "prepareRecovery")
       \/ /\ \/ ~open
             \/ a # Worker
             \/ choice[a] \in ExcludedCarriers(snap[a])
          /\ Return(a, NoShipment, "permanent")
          /\ UNCHANGED <<choice, held>>
       \/ /\ open
          /\ \E e \in CallErrors("inventory") : Return(a, snap[a], e)
          /\ UNCHANGED <<choice, held>>
    /\ UNCHANGED <<ledgerVars, omsVars, orderVars, temuVars, op, cycleVars, boundVars>>

\* The guard of the statement: packages are not looked at.
RecoveryPreparable(s) == s.status = "label_failed" /\ ~s.tracked /\ ~s.confirmed

PrepareFailedShipmentRecovery(a) ==
    /\ pc[a] = "prepareRecovery"
    /\ IF RecoveryPreparable(ship)
       THEN /\ ship' = [Resubmit(ship, choice[a]) EXCEPT !.failed = @ \cup {snap[a].carrier}]
            /\ job'  = EnsureJob(job, "submitting")
            /\ Move(a, "create", ship', "none", {})
       ELSE Return(a, NoShipment, "permanent") /\ UNCHANGED ledgerVars
    /\ UNCHANGED <<omsVars, orderVars, heldVars, temuVars, localVars, cycleVars, boundVars>>

----------------------------------------------------------------------------
(* CheckOMSSync.  Its reconciliation with the platform order is one answer *)
(* here; a query older than two minutes may be taken over.                 *)

OMSAnswers == {"waiting_sync", "verified"}
              \cup (IF "oms" \in Timeouts THEN {"failed"} ELSE {})
              \cup (IF "manual" \in Faults THEN {"manual_required"} ELSE {})

BeginCheckOMS(a) ==
    /\ pc[a] = "checkOMS"
    /\ \/ /\ ~(ship.status = "shipped" /\ ship.tracked /\ ship.pkgs # {})
          /\ Return(a, ship, "permanent") /\ UNCHANGED oms
       \/ /\ ship.status = "shipped" /\ ship.tracked /\ ship.pkgs # {}
          /\ \/ /\ oms \notin {"verified", "manual_required", "terminal"}
                /\ oms' = "querying"
                /\ Move(a, "omsAnswer", ship, "none", {})
             \/ /\ oms = "verified" /\ UNCHANGED oms
                /\ Move(a, "omsRelease", ship, "none", {})
             \/ /\ oms \in {"terminal", "querying"} /\ UNCHANGED oms
                /\ Return(a, ship, oms)
             \/ /\ oms = "manual_required" /\ UNCHANGED oms
                /\ Return(a, ship, "omsManual")
    /\ UNCHANGED <<ledgerVars, orderVars, heldVars, temuVars, localVars, cycleVars, boundVars>>

UpdateOMSSync(a) ==
    /\ pc[a] = "omsAnswer"
    /\ \/ /\ oms # "terminal"
          /\ oms' \in OMSAnswers
          /\ CASE oms' = "verified"        -> Goto(a, "omsRelease")
               [] oms' = "manual_required" -> Return(a, snap[a], "omsManual")
               [] oms' = "failed"          -> Return(a, snap[a], "temporary")
               [] OTHER                    -> Return(a, snap[a], oms')
       \/ /\ oms = "terminal" /\ UNCHANGED oms
          /\ Return(a, snap[a], "permanent")
    /\ UNCHANGED <<ledgerVars, orderVars, heldVars, temuVars, localVars, cycleVars, boundVars>>

ReleaseVerified(a) ==
    /\ pc[a] = "omsRelease"
    /\ \/ held' = FALSE /\ Return(a, snap[a], "verified")
       \/ /\ \E e \in CallErrors("inventory") : Return(a, snap[a], e)
          /\ UNCHANGED held
    /\ UNCHANGED <<ledgerVars, omsVars, orderVars, temuVars, localVars, cycleVars, boundVars>>

----------------------------------------------------------------------------
(* HTTP requests and the other writers of the two rows.                    *)

\* An operation starts at the label of its name.
BeginRequest(h, o) ==
    /\ pc[h] = "idle" /\ requests < MaxRequests
    /\ o # "purchase" => ship.status # "none"
    /\ requests' = requests + 1
    /\ op' = [op EXCEPT ![h] = o]
    /\ Goto(h, o)
    /\ UNCHANGED <<ledgerVars, omsVars, orderVars, heldVars, temuVars, choice, cycleVars, interrupts>>

\* ...AndQueueCompletion: the job follows the status the request returns.
EndRequest(h) ==
    /\ pc[h] = "done"
    /\ job' = IF op[h] \in {"purchase", "recover"} /\ snap[h].status # "none"
              THEN EnsureJob(job, snap[h].status) ELSE job
    /\ Rest(h)
    /\ UNCHANGED <<ship, omsVars, orderVars, heldVars, temuVars, cycleVars, boundVars>>

EnqueueAutoFulfillment ==
    /\ open /\ ~manual
    /\ job' = EnqueueJob(job)
    /\ UNCHANGED <<ship, omsVars, orderVars, heldVars, temuVars, pc, snap, reply, found, localVars, cycleVars, boundVars>>

ResolveMissingOMSPlatformOrder ==
    /\ ship.status = "shipped" /\ ship.confirmed
    /\ oms \in {"waiting_sync", "manual_required"}
    /\ oms' = "terminal"
    /\ job' = [job EXCEPT !.status = "completed", !.transient = FALSE]
    /\ UNCHANGED <<ship, orderVars, heldVars, temuVars, pc, snap, reply, found, localVars, cycleVars, boundVars>>

\* Order synchronisation closes and reopens the order; an operator approves a
\* manual review.
SyncOrder ==
    /\ "closing" \in Faults
    /\ open' = ~open
    /\ UNCHANGED <<ledgerVars, omsVars, manual, heldVars, temuVars, pc, snap, reply, found, localVars, cycleVars, boundVars>>

ApproveManualReview ==
    /\ manual /\ manual' = FALSE
    /\ UNCHANGED <<ledgerVars, omsVars, open, heldVars, temuVars, pc, snap, reply, found, localVars, cycleVars, boundVars>>

----------------------------------------------------------------------------
(* Temu on its own, and interruptions.                                     *)

PrintLabel ==
    /\ labels # {}
    /\ print' \in IF print = "pending" THEN PrintOutcomes ELSE PrintOutcomes \cap {"ready"}
    /\ UNCHANGED <<ledgerVars, omsVars, orderVars, heldVars, labels, accepted, late, pc, snap, reply, found, localVars, cycleVars, boundVars>>

ApplyLateCreate ==
    /\ late > 0 /\ late' = late - 1
    /\ \/ \E p \in Packages : TemuCreates(p, "pending")
       \/ labels # {} /\ UNCHANGED <<labels, print>>
    /\ UNCHANGED <<ledgerVars, omsVars, orderVars, heldVars, accepted, pc, snap, reply, found, localVars, cycleVars, boundVars>>

\* The process dies (or the context of a request is cancelled) between two steps
\* of an actor; a job the worker was running stays running.
Interrupt(a) ==
    /\ pc[a] # "idle" /\ interrupts < MaxInterrupts
    /\ interrupts' = interrupts + 1
    /\ Rest(a)
    /\ IF a = Worker THEN step' = 0 /\ due' = 0 ELSE UNCHANGED cycleVars
    /\ UNCHANGED <<ledgerVars, omsVars, orderVars, heldVars, temuVars, requests>>

----------------------------------------------------------------------------
(* The worker: RepairShipmentCompletionJobs, ClaimAutoFulfillments and     *)
(* runAutoFulfillment.                                                     *)

W == Worker

\* last_error carries a transient marker only for (some) temporary errors.
Markers(r) == IF r = "temporary" THEN BOOLEAN ELSE {FALSE}

\* fulfillmentErrorStatus
ErrorStatus(r, retryStatus) == IF r = "temporary" THEN retryStatus ELSE "failed"

Sleep == Rest(W) /\ step' = 0 /\ due' = 0

\* Write the job and end the run, or go on to release the reservation.
Stop(status, r) ==
    /\ \E t \in Markers(r) : job' = UpdateJob(job, snap[W].status # "none", status, t)
    /\ Sleep

StopAndRelease(r) ==
    /\ \E t \in Markers(r) : job' = UpdateJob(job, snap[W].status # "none", "failed", t)
    /\ Goto(W, "release")
    /\ UNCHANGED <<localVars, cycleVars>>

StopReleasingFailed(status, r) ==
    IF status = "failed" THEN StopAndRelease(r) ELSE Stop(status, r)

\* `continue`: the next iteration of the loop over the shipment's status.
Iterate ==
    /\ Goto(W, "dispatch")
    /\ step' = step + 1
    /\ UNCHANGED <<job, localVars, due>>

Begin(o, l) ==
    /\ Goto(W, l)
    /\ op' = [op EXCEPT ![W] = o]
    /\ UNCHANGED <<choice, step>>

workerFrame == <<omsVars, orderVars, temuVars, boundVars>>

RepairShipmentCompletionJobs ==
    /\ pc[W] = "idle" /\ Repairable(job, ship)
    /\ job' = RepairJob
    /\ UNCHANGED <<ship, omsVars, orderVars, heldVars, temuVars, pc, snap, reply, found, localVars, cycleVars, boundVars>>

ClaimAutoFulfillment ==
    /\ pc[W] = "idle" /\ Claimable(job, ship, open, MaxSubmissionAttempts)
    /\ job' = ClaimJob(job)
    /\ op' = [op EXCEPT ![W] = "purchase"]
    /\ Move(W, IF ship.status = "none" THEN "purchase" ELSE "dispatch", ship, "none", {})
    /\ UNCHANGED <<ship, heldVars, choice, cycleVars, workerFrame>>

AfterPurchase ==
    LET s == snap[W]
        r == reply[W]
    IN  /\ pc[W] = "done" /\ op[W] = "purchase"
        /\ \/ /\ s.status = "none"
              /\ Stop(IF r = "closed" THEN "skipped" ELSE ErrorStatus(r, "queued"), r)
           \/ /\ s.status # "none" /\ r = "ok"
              /\ Goto(W, "dispatch") /\ UNCHANGED <<job, localVars, cycleVars>>
           \/ /\ s.status # "none" /\ r # "ok"
              /\ IF s.status = "label_failed" /\ ~CarrierFallbackAllowed(s, MaxSubmissionAttempts)
                 THEN StopAndRelease(r)
                 ELSE /\ \E t \in Markers(r) :
                            job' = UpdateJob(job, TRUE,
                                     IF s.status = "label_failed" THEN "running" ELSE "waiting_label", t)
                      /\ Goto(W, "dispatch")
                      /\ UNCHANGED <<localVars, cycleVars>>
        /\ UNCHANGED <<ship, heldVars, workerFrame>>

DispatchExhausted ==
    /\ pc[W] = "dispatch" /\ step = MaxSteps
    /\ Stop("waiting_oms", "none")
    /\ UNCHANGED <<ship, heldVars, workerFrame>>

\* recoverUnknownShipment, when the last submission is old enough or not.
DispatchUnknown ==
    /\ pc[W] = "dispatch" /\ step < MaxSteps /\ snap[W].status = "submission_unknown"
    /\ \/ Begin("unknown", "refresh") /\ due' = snap[W].attempts /\ UNCHANGED job
       \/ Stop("waiting_label", "none")
    /\ UNCHANGED <<ship, heldVars, workerFrame>>

DispatchPending ==
    /\ pc[W] = "dispatch" /\ step < MaxSteps
    /\ snap[W].status \in {"submitting", "label_pending"}
    /\ Begin("pending", "refresh")
    /\ UNCHANGED <<ship, job, heldVars, due, workerFrame>>

DispatchReady ==
    /\ pc[W] = "dispatch" /\ step < MaxSteps
    /\ snap[W].status \in {"label_ready", "confirm_failed"}
    /\ job' = UpdateJob(job, TRUE, "confirming", FALSE)
    /\ Begin("confirm", "confirm")
    /\ UNCHANGED <<ship, heldVars, due, workerFrame>>

DispatchShipped ==
    /\ pc[W] = "dispatch" /\ step < MaxSteps /\ snap[W].status = "shipped"
    /\ Begin("checkOMS", "checkOMS")
    /\ UNCHANGED <<ship, job, heldVars, due, workerFrame>>

DispatchFailed ==
    /\ pc[W] = "dispatch" /\ step < MaxSteps /\ snap[W].status = "label_failed"
    /\ IF CoverageNeedsManual(snap[W]) THEN Begin("coverage", "refresh")
                                       ELSE Begin("fallback", "failedLabel")
    /\ UNCHANGED <<ship, job, heldVars, due, workerFrame>>

\* What recoverUnknownShipment does once RefreshShipment is back.
AfterVerify ==
    LET s == snap[W]
        r == reply[W]
    IN  /\ pc[W] = "done" /\ op[W] = "unknown"
        /\ \/ /\ r = "ok"
              /\ IF s.status # "submission_unknown" THEN Iterate ELSE Stop("waiting_label", "none")
           \/ /\ r # "ok" /\ s.error # "missing"
              /\ StopReleasingFailed(IF s.status = "label_failed" THEN "failed"
                                     ELSE ErrorStatus(r, "waiting_label"), r)
           \/ /\ r # "ok" /\ s.error = "missing" /\ s.attempts >= MaxSubmissionAttempts
              /\ StopAndRelease("none")
           \/ /\ r # "ok" /\ s.error = "missing" /\ s.attempts < MaxSubmissionAttempts
              /\ Move(W, "retryUnknown", s, r, {})
              /\ UNCHANGED <<job, localVars, cycleVars>>
        /\ UNCHANGED <<ship, heldVars, workerFrame>>

\* last_submission_at is still the one that was due iff no attempt was added.
UnknownPreparable(s) ==
    /\ s.status = "submission_unknown"
    /\ s.pkgs = {}
    /\ s.attempts < MaxSubmissionAttempts
    /\ s.attempts = due

PrepareUnknownShipmentRetry ==
    /\ pc[W] = "retryUnknown"
    /\ IF UnknownPreparable(ship)
       THEN /\ ship' = [Submission(ship, "submitting", {}, "none") EXCEPT !.attempts = @ + 1]
            /\ Move(W, "create", ship', "none", {})
            /\ op' = [op EXCEPT ![W] = "resubmit"]
            /\ UNCHANGED <<job, choice, cycleVars>>
       ELSE StopAndRelease("none") /\ UNCHANGED ship
    /\ UNCHANGED <<heldVars, workerFrame>>

AfterResubmit ==
    LET s == snap[W]
        r == reply[W]
    IN  /\ pc[W] = "done" /\ op[W] = "resubmit"
        /\ IF r = "ok"
           THEN IF s.status # "submission_unknown" THEN Iterate ELSE Stop("waiting_label", "none")
           ELSE StopReleasingFailed(IF s.status = "label_failed" THEN "failed"
                                    ELSE ErrorStatus(r, "waiting_label"), r)
        /\ UNCHANGED <<ship, heldVars, workerFrame>>

AfterPending ==
    LET s == snap[W]
        r == reply[W]
    IN  /\ pc[W] = "done" /\ op[W] = "pending"
        /\ IF r = "ok"
           THEN IF s.status = "label_ready" THEN Iterate ELSE Stop("waiting_label", "none")
           ELSE StopReleasingFailed(
                    IF s.status = "submission_unknown" /\ s.error = "missing" THEN "waiting_label"
                    ELSE IF s.status = "label_failed" THEN "failed"
                    ELSE ErrorStatus(r, "waiting_label"), r)
        /\ UNCHANGED <<ship, heldVars, workerFrame>>

\* A temporary failure is retried until the limit (a rate limit beyond it).
AfterConfirm ==
    LET s == snap[W]
        r == reply[W]
    IN  /\ pc[W] = "done" /\ op[W] = "confirm"
        /\ IF r = "ok" THEN Iterate
           ELSE \/ Stop(ErrorStatus(r, "confirming"), r)
                \/ s.confirms >= MaxConfirmationAttempts /\ Stop("failed", r)
        /\ UNCHANGED <<ship, heldVars, workerFrame>>

AfterCheckOMS ==
    /\ pc[W] = "done" /\ op[W] = "checkOMS"
    /\ Stop(CASE reply[W] = "omsManual"                  -> "failed"
              [] reply[W] \in {"verified", "terminal"}   -> "completed"
              [] OTHER                                   -> "waiting_oms", reply[W])
    /\ UNCHANGED <<ship, heldVars, workerFrame>>

AfterCoverage ==
    LET s == snap[W]
        r == reply[W]
    IN  /\ pc[W] = "done" /\ op[W] = "coverage"
        /\ IF r # "ok" THEN Stop(ErrorStatus(r, "waiting_label"), r)
           ELSE IF s.status # "label_failed" THEN Iterate
           ELSE Goto(W, "failedLabel") /\ UNCHANGED <<job, localVars, cycleVars>>
        /\ UNCHANGED <<ship, heldVars, workerFrame>>

\* A failed package goes to manual review, a rejected address to another
\* carrier, anything else ends the job.
FailedLabel ==
    LET s == snap[W]
    IN  /\ pc[W] = "failedLabel"
        /\ \/ /\ CoverageNeedsManual(s)
              /\ ship' = [ship EXCEPT !.failed = @ \cup {s.carrier}]
              /\ manual' = TRUE
              /\ job' = UpdateJob(job, TRUE, "skipped", FALSE)
              /\ Goto(W, "release")
              /\ UNCHANGED <<localVars, cycleVars>>
           \/ /\ CarrierFallbackAllowed(s, MaxSubmissionAttempts)
              /\ ship' = [ship EXCEPT !.failed = @ \cup {s.carrier}]
              /\ Begin("fallback", "fallbackQuote")
              /\ UNCHANGED <<job, manual, due>>
           \/ /\ ~CoverageNeedsManual(s) /\ ~CarrierFallbackAllowed(s, MaxSubmissionAttempts)
              /\ StopAndRelease("none")
              /\ UNCHANGED <<ship, manual>>
        /\ UNCHANGED <<open, omsVars, heldVars, temuVars, boundVars>>

\* QuoteFailedShipmentRecovery: the failed carriers are left out of the quote.
QuoteFallback ==
    /\ pc[W] = "fallbackQuote"
    /\ \/ /\ RecoveryAllowed(ship) /\ open /\ ~manual
          /\ \E c \in Carriers \ ExcludedCarriers(ship) : choice' = [choice EXCEPT ![W] = c]
          /\ Goto(W, "recover")
          /\ UNCHANGED <<job, op, cycleVars>>
       \/ /\ \/ ~RecoveryAllowed(ship) \/ ~open \/ manual
             \/ Carriers \subseteq ExcludedCarriers(ship)
          /\ Stop("failed", "permanent")
       \/ \E e \in CallErrors("quote") : Stop("failed", e)
    /\ UNCHANGED <<ship, heldVars, workerFrame>>

AfterFallback ==
    LET s == snap[W]
        r == reply[W]
    IN  /\ pc[W] = "done" /\ op[W] = "fallback"
        /\ IF r = "ok" \/ CarrierFallbackAllowed(s, MaxSubmissionAttempts) THEN Iterate
           ELSE Stop("failed", r)
        /\ UNCHANGED <<ship, heldVars, workerFrame>>

\* releaseFailedFulfillmentInventory
ReleaseReservation ==
    /\ pc[W] = "release"
    /\ held' \in {FALSE} \cup (IF CallErrors("inventory") # {} THEN {held} ELSE {})
    /\ Sleep
    /\ UNCHANGED <<ledgerVars, workerFrame>>

----------------------------------------------------------------------------
Service(a) ==
    \/ CheckPurchase(a) \/ ReserveInventory(a) \/ ReserveShipment(a) \/ Recheck(a)
    \/ AdoptRecheck(a) \/ PrepareShipmentRetry(a)
    \/ CreateShipment(a) \/ FindExisting(a) \/ AdoptExisting(a) \/ RecordSubmission(a)
    \/ BeginRefresh(a) \/ LookUpPackages(a) \/ RecordMissing(a) \/ AdoptRefresh(a)
    \/ QueryResult(a) \/ RecordResult(a) \/ AnnotateResult(a) \/ Settle(a)
    \/ BeginConfirm(a) \/ RecordShipmentConfirmationAttempt(a) \/ CallConfirm(a) \/ RecordConfirm(a)
    \/ BeginRecover(a) \/ RecoverDetail(a) \/ AdoptRecover(a) \/ CheckRecoveryQuote(a)
    \/ PrepareFailedShipmentRecovery(a)
    \/ BeginCheckOMS(a) \/ UpdateOMSSync(a) \/ ReleaseVerified(a)

RunAutoFulfillment ==
    \/ AfterPurchase \/ DispatchExhausted \/ DispatchUnknown \/ DispatchPending
    \/ DispatchReady \/ DispatchShipped \/ DispatchFailed
    \/ AfterVerify \/ PrepareUnknownShipmentRetry \/ AfterResubmit \/ AfterPending
    \/ AfterConfirm \/ AfterCheckOMS \/ AfterCoverage
    \/ FailedLabel \/ QuoteFallback \/ AfterFallback \/ ReleaseReservation

Requests == \E h \in Handlers : EndRequest(h) \/ \E o \in HandlerOps : BeginRequest(h, o)

Environment ==
    \/ EnqueueAutoFulfillment \/ ResolveMissingOMSPlatformOrder
    \/ SyncOrder \/ ApproveManualReview \/ PrintLabel \/ ApplyLateCreate

Next ==
    \/ \E a \in Actors : Service(a) \/ Interrupt(a)
    \/ RepairShipmentCompletionJobs \/ ClaimAutoFulfillment \/ RunAutoFulfillment
    \/ Requests \/ Environment

Spec == Init /\ [][Next]_vars

\* The background loop never stops: a run that was begun is carried on, and every
\* cycle repairs and claims what it finds; the orders in front of this one in the
\* claim's order leave a cycle a place for it again and again.
Fairness ==
    /\ WF_vars(Service(Worker) \/ RunAutoFulfillment)
    /\ SF_vars(RepairShipmentCompletionJobs)
    /\ SF_vars(ClaimAutoFulfillment)

FairSpec == Spec /\ Fairness

----------------------------------------------------------------------------
(* Properties.                                                             *)

\* Every variable has its type; for the two rows these are the CHECK constraints
\* of the schema, and a cycle never runs past the last step of its loop.
RowTypes == ship \in Shipment /\ job \in Job /\ oms \in OMSStatus

RemoteTypes ==
    /\ open \in BOOLEAN /\ manual \in BOOLEAN /\ held \in BOOLEAN
    /\ labels \in SUBSET Packages
    /\ print \in {"pending", "ready", "untracked", "failed", "address"}
    /\ accepted \in BOOLEAN /\ late \in Nat

LocalTypes ==
    /\ pc \in [Actors -> PC]
    /\ op \in [Actors -> Ops]
    /\ snap \in [Actors -> Shipment]
    /\ reply \in [Actors -> Replies]
    /\ found \in [Actors -> SUBSET Packages]
    /\ choice \in [Actors -> Carriers \cup {NoCarrier}]

CounterTypes ==
    /\ step \in 0 .. MaxSteps /\ due \in Nat
    /\ requests \in 0 .. MaxRequests /\ interrupts \in 0 .. MaxInterrupts

TypeOK == RowTypes /\ RemoteTypes /\ LocalTypes /\ CounterTypes

\* README: the worker "never purchases a second label for an order that already
\* has a shipment record": Temu has at most one package for the order.
AtMostOneLabel == \A p, q \in labels : p = q

\* Whatever the remote services answer, the worker on its own submits an order
\* at most MaxSubmissionAttempts times over all its runs: the first purchase, the
\* retries of an unknown result and the fallbacks to another carrier together.
AutomaticSubmissionsBounded == ship.attempts <= MaxSubmissionAttempts

\* The worker's fallback after a rejected address never submits a carrier that
\* has already failed for this order, whichever step recorded the failure.
FallbackAvoidsFailedCarriers ==
    pc[Worker] = "create" /\ op[Worker] = "fallback" => snap[Worker].carrier \notin snap[Worker].failed

\* A confirmed shipment is never reopened while operators make one request at a
\* time next to the worker: no statement that prepares a new submission clears
\* confirmed_at. Two purchases that overlap, or an order detail that misses a
\* package, can do it (see the README).
ConfirmedStays == [][ship.confirmed => ship'.confirmed]_ship

\* Where a purchase may find a confirmed row retryable: two requests that overlap,
\* or an order detail that misses a package.
Overlapping == "lag" \in Faults \/ \E g, h \in Handlers : g # h

\* What the ledger promises of an order, without its actors (see ShipmentOutcome).
Outcome ==
    INSTANCE ShipmentOutcome
    WITH MayReopen <- Overlapping, submissions <- ship.attempts, bought <- Cardinality(labels),
         counted <- ship.confirms > 0, taken <- accepted, confirmed <- ship.confirmed

\* Ledger and Temu go through recorded, bought, counted, taken and confirmed in that
\* order and never back, whoever writes the row: the ledger implements its promise.
OutcomeKept == Outcome!Spec

\* Every package Temu created, or may still create for a request that timed
\* out, was reserved in the ledger first: the attempts recorded before the calls
\* cover the labels the shop may have to pay for.
LabelsWithinAttempts == Cardinality(labels) + late <= ship.attempts

\* README: the reservation of a shipment creates or binds its completion job in
\* the same transaction, and no later writer loses the job again.
ShipmentHasJob == ship.status # "none" => job.status # "none" /\ job.linked

\* The ledger says shipped or confirmed, and the job completed, only when Temu
\* has taken the confirmation, whoever overwrites whose status.
ShippedIsConfirmed ==
    /\ ship.status = "shipped" \/ ship.confirmed => accepted
    /\ job.status = "completed" => accepted

\* README: the repair "does not reset shipments that have already attempted
\* Temu confirmation": while confirmation_attempts is 0, Temu was never asked.
UncountedIsUnconfirmed == ship.confirms = 0 => ~accepted

\* README: a recovered label_ready shipment does not remain attached to an older
\* failed job: whatever became of its job, the worker comes to ask Temu to
\* confirm a complete label that nobody tried to confirm yet.
ConfirmationDue ==
    ship.status = "label_ready" /\ ship.confirms = 0 /\ ship.pkgs # {} /\ ship.tracked

ReadyLabelIsConfirmed == ConfirmationDue ~> ship.confirms > 0 \/ ship.status # "label_ready"

============================================================================
