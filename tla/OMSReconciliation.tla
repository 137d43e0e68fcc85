------------------------- MODULE OMSReconciliation -------------------------
(***************************************************************************)
(* One order after Temu has confirmed its shipment, until XLWMS (the OMS)  *)
(* is known to ship it from the warehouse the label was bought for.        *)
(*                                                                         *)
(* CheckOMSSync is run by three kinds of actors at once: Worker, the       *)
(* fulfilment loop (the job is waiting_oms), Loop, the query loop that     *)
(* lists unfinished checks, and the HTTP requests Handlers.  They are kept *)
(* apart by the status "querying" of the row temu_oms_sync_checks, a lease *)
(* of two minutes.  An order that is still pending in XLWMS is assigned to *)
(* its warehouse first, by the check itself or by an operator's request.   *)
(*                                                                         *)
(* A step is one SQL statement or one remote call.  pc[a] is where actor a *)
(* is, snap[a] the row as part of the shipment value it holds, result[a]   *)
(* the row it is about to write, outcome[a] what CheckOMSSync returns.     *)
(* A bought warehouse mapping that changes afterwards is not modelled.     *)
(***************************************************************************)
EXTENDS Naturals, FiniteSets

CONSTANTS
    Worker,       \* the automatic fulfilment worker
    Loop,         \* the background OMS query
    Handlers,     \* HTTP requests that may be served at once
    Views,        \* what queries of XLWMS may show of the order
    MaxRequests,  \* bound: HTTP requests in a behaviour
    MaxFaults     \* bound: failed calls, late answers, cancelled statements, crashes

Actors == Handlers \cup {Worker, Loop}

\* The platform orders of XLWMS with this order's number, as a query shows them:
\* their count, and status and dispatch warehouse of the first.
PlatformOrder == [count : Nat, status : Nat, warehouse : {"none", "bought", "other"}]

NoOrder == [count |-> 0, status |-> 0, warehouse |-> "none"]

ASSUME ViewsAssumption == NoOrder \in Views /\ Views \subseteq PlatformOrder
ASSUME ActorsAssumption == Worker # Loop /\ Worker \notin Handlers /\ Loop \notin Handlers
ASSUME BoundsAssumption == MaxRequests \in Nat /\ MaxFaults \in Nat

\* missing: the stored response_summary says that no platform order was found.
\* assigned: it carries the marker of a successful automatic assignment.
Row == [status   : {"none", "querying", "waiting_sync", "verified", "failed",
                    "manual_required", "terminal"},
        missing  : BOOLEAN,
        assigned : BOOLEAN]

NoRow == [status |-> "none", missing |-> FALSE, assigned |-> FALSE]

JobStatus == {"waiting_oms", "running", "failed", "completed"}

PC == {"idle", "listed", "start", "current", "query", "assign", "write",
       "reread", "release", "done", "target", "submit", "check"}

VARIABLES
    row,       \* temu_oms_sync_checks
    fresh,     \* ... its updated_at is younger than two minutes
    job,       \* status of the completion job
    held,      \* the inventory reservation of the order
    order,     \* what a query of XLWMS shows
    approved,  \* XLWMS has taken an assignment (a query may show it later)
    taken,     \* history: XLWMS processed the order in the bought warehouse
    overdue,   \* 30 minutes have passed since the confirmation
    slow,      \* TEMU_REQUEST_TIMEOUT lets an answer outlive the lease
    pc, snap, result, outcome,
    requests, faults

rowVars   == <<row, fresh>>
omsVars   == <<order, approved, taken>>
timeVars  == <<overdue, slow>>
boundVars == <<requests, faults>>

vars == <<row, fresh, job, held, order, approved, taken, overdue, slow,
          pc, snap, result, outcome, requests, faults>>

Init ==
    /\ row = NoRow /\ fresh = FALSE
    /\ job = "waiting_oms" /\ held = TRUE
    /\ order = NoOrder
    /\ approved = FALSE /\ taken = FALSE
    /\ overdue = FALSE /\ slow \in BOOLEAN
    /\ pc      = [a \in Actors |-> "idle"]
    /\ snap    = [a \in Actors |-> NoRow]
    /\ result  = [a \in Actors |-> NoRow]
    /\ outcome = [a \in Actors |-> "ok"]
    /\ requests = 0 /\ faults = 0

Fault == faults < MaxFaults /\ faults' = faults + 1

NoFault == UNCHANGED faults

----------------------------------------------------------------------------
(* The verdict over the answer of XLWMS.                                   *)

\* Mutant: the dispatch warehouse is not compared with the bought one.
MutDecide(o, late) ==
    IF o.count = 0 THEN IF late THEN "manual" ELSE "missing"
    ELSE IF o.count # 1 \/ o.status \notin 0 .. 3 THEN "manual"
    ELSE IF o.status = 0 THEN "pending"
    ELSE IF o.status = 1 THEN "awaiting_platform_label" ELSE "verified"

decideOMSPlatformOrder(o, late) ==
    IF o.count = 0 THEN IF late THEN "manual" ELSE "missing"
    ELSE IF \/ o.count # 1
            \/ o.warehouse = "other"
            \/ o.status \in {2, 3} /\ o.warehouse = "none"
            \/ o.status \notin 0 .. 3
    THEN "manual"
    ELSE IF o.status = 0 THEN "pending"
    ELSE IF o.status = 1 THEN "awaiting_platform_label" ELSE "verified"

\* Mutant: the decision is stored in place of the status.
MutSummary(o, decision, assigned) ==
    [status |-> decision, missing |-> o.count = 0, assigned |-> assigned]

\* The summary written with the verdict keeps the assignment marker.
Summary(o, decision, assigned) ==
    [status   |-> CASE decision = "verified" -> "verified"
                    [] decision = "manual"   -> "manual_required"
                    [] OTHER                 -> "waiting_sync",
     missing  |-> o.count = 0,
     assigned |-> assigned]

FailureSummary(s) == [status |-> "failed", missing |-> FALSE, assigned |-> s.assigned]

\* The lease: nobody starts a settled check, or one whose query is younger than
\* two minutes.
Settled == {"verified", "manual_required", "terminal"}

\* Mutant: a query that is under way does not keep others out.
MutStartable(r, young) == r.status \notin Settled

\* Mutant: a check that asked for an operator starts again.
MutStartableAgain(r, young) ==
    r.status \notin {"verified", "terminal"} /\ (r.status = "querying" => ~young)

\* Mutant: a query whose actor died is never taken over.
MutStartableOnce(r, young) == r.status \notin Settled \cup {"querying"}

Startable(r, young) ==
    /\ r.status \notin Settled
    /\ r.status = "querying" => ~young

\* An order XLWMS would still assign.
Assignable(o) == o.count = 1 /\ o.status = 0 /\ o.warehouse # "other"

----------------------------------------------------------------------------
(* Steps of CheckOMSSync.                                                  *)

Goto(a, l) == pc' = [pc EXCEPT ![a] = l]

\* What is to be recorded and returned; the shipment value is not used again.
Answer(a, r, o) == result' = [result EXCEPT ![a] = r] /\ outcome' = [outcome EXCEPT ![a] = o]

localVars == <<snap, result, outcome>>

\* A request or a query ends with its check; the worker has its job to update.
Return(a, s, o) ==
    /\ Goto(a, IF a = Worker THEN "done" ELSE "idle")
    /\ snap'    = [snap EXCEPT ![a] = IF a = Worker THEN s ELSE NoRow]
    /\ result'  = [result EXCEPT ![a] = NoRow]
    /\ outcome' = [outcome EXCEPT ![a] = IF a = Worker THEN o ELSE "ok"]

\* Of the row as part of a shipment value the code asks only whether it is
\* settled well, and for the marker of its summary.
View(r) == [status   |-> IF r.status \in {"verified", "terminal"} THEN r.status ELSE "none",
            missing  |-> FALSE,
            assigned |-> r.assigned]

\* The shipment is read, with the row as it is now, and held from here on.
GetShipment(a) ==
    /\ Goto(a, "start")
    /\ snap' = [snap EXCEPT ![a] = View(row)]
    /\ UNCHANGED <<result, outcome>>

StartOMSSync(a) ==
    /\ pc[a] = "start"
    /\ IF Startable(row, fresh)
       THEN row' = [row EXCEPT !.status = "querying"] /\ fresh' = TRUE /\ Goto(a, "query")
       ELSE UNCHANGED rowVars /\ Goto(a, "current")
    /\ UNCHANGED <<job, held, omsVars, timeVars, localVars, boundVars>>

\* Mutant: a check that was settled by another actor is returned at once.
MutGetOMSSync(a) ==
    /\ pc[a] = "current"
    /\ Return(a, View(row), IF row.status = "manual_required" THEN "manual" ELSE "ok")
    /\ UNCHANGED <<rowVars, job, held, omsVars, timeVars, boundVars>>

\* Somebody else has the check, or had it: the row is read again.
GetOMSSync(a) ==
    /\ pc[a] = "current"
    /\ \/ /\ row.status \in {"verified", "terminal", "querying"}
          /\ Goto(a, "reread") /\ UNCHANGED localVars
       \/ row.status = "manual_required" /\ Return(a, View(row), "manual")
       \/ row.status \in {"waiting_sync", "failed"} /\ Return(a, snap[a], "ok")
    /\ UNCHANGED <<rowVars, job, held, omsVars, timeVars, boundVars>>

QueryFails(a) == Answer(a, FailureSummary(snap[a]), "error") /\ Goto(a, "write") /\ Fault

\* A pending order without the marker in the shipment value is assigned first.
QueryAnswers(a) ==
    LET d == decideOMSPlatformOrder(order, overdue)
    IN  /\ Answer(a, Summary(order, d, snap[a].assigned), IF d = "manual" THEN "manual" ELSE "ok")
        /\ Goto(a, IF d = "pending" /\ ~snap[a].assigned THEN "assign" ELSE "write")
        /\ NoFault

QueryPlatformOrder(a) ==
    /\ pc[a] = "query"
    /\ QueryFails(a) \/ QueryAnswers(a)
    /\ snap' = [snap EXCEPT ![a] = NoRow]
    /\ UNCHANGED <<rowVars, job, held, omsVars, timeVars, requests>>

\* XLWMS looks at the live order before it approves; the answer may be lost, and
\* a preview that is not ready or a lost request leaves the order alone.
Submit(accepted) ==
    \/ Assignable(order) /\ ~approved /\ approved' = TRUE /\ accepted /\ NoFault
    \/ Assignable(order) /\ ~approved /\ approved' = TRUE /\ ~accepted /\ Fault
    \/ (~Assignable(order) \/ approved) /\ ~accepted /\ UNCHANGED approved /\ NoFault
    \/ ~accepted /\ UNCHANGED approved /\ Fault

\* assignPendingOMSPlatformOrder: its marker goes into the summary.
AssignPending(a) ==
    /\ pc[a] = "assign"
    /\ Goto(a, "write")
    /\ \/ Submit(TRUE)  /\ Answer(a, [result[a] EXCEPT !.assigned = TRUE], "ok")
       \/ Submit(FALSE) /\ Answer(a, [result[a] EXCEPT !.assigned = FALSE], "error")
    /\ UNCHANGED <<rowVars, job, held, order, taken, timeVars, snap, requests>>

\* Mutant: the statement spares nothing.
MutSpared(r) == FALSE

\* The statement only spares an operator's decision.
Spared(r) == r.status = "terminal"

Record(a) ==
    /\ NoFault
    /\ IF Spared(row)
       THEN UNCHANGED rowVars /\ Return(a, snap[a], "error")
       ELSE /\ row' = result[a] /\ fresh' = FALSE
            /\ IF outcome[a] = "ok" THEN Goto(a, "reread") /\ UNCHANGED localVars
                                    ELSE Return(a, View(result[a]), outcome[a])

\* The request was cancelled before its answer could be recorded (a failure is
\* recorded even then): the row stays querying.
RecordCancelled(a) ==
    /\ result[a].status # "failed"
    /\ Fault
    /\ UNCHANGED rowVars
    /\ Return(a, snap[a], "error")

UpdateOMSSync(a) ==
    /\ pc[a] = "write"
    /\ Record(a) \/ RecordCancelled(a)
    /\ UNCHANGED <<job, held, omsVars, timeVars, requests>>

\* The shipment CheckOMSSync returns is read again; behind a verified row the
\* reservation is released.
Reread(a) ==
    /\ pc[a] = "reread"
    /\ IF row.status = "verified"
       THEN Goto(a, "release") /\ snap' = [snap EXCEPT ![a] = View(row)] /\ UNCHANGED <<result, outcome>>
       ELSE Return(a, View(row), "ok")
    /\ UNCHANGED <<rowVars, job, held, omsVars, timeVars, boundVars>>

\* Mutant: an error of the release is not returned.
MutReleaseVerified(a) ==
    /\ pc[a] = "release"
    /\ \/ held' = FALSE /\ NoFault
       \/ held' = held /\ Fault
    /\ Return(a, snap[a], "ok")
    /\ UNCHANGED <<rowVars, job, omsVars, timeVars, requests>>

ReleaseVerified(a) ==
    /\ pc[a] = "release"
    /\ \/ held' = FALSE /\ NoFault /\ Return(a, snap[a], "ok")
       \/ held' \in {held, FALSE} /\ Fault /\ Return(a, snap[a], "error")
    /\ UNCHANGED <<rowVars, job, omsVars, timeVars, requests>>

CheckOMSSync(a) ==
    \/ StartOMSSync(a) \/ GetOMSSync(a) \/ QueryPlatformOrder(a) \/ AssignPending(a)
    \/ UpdateOMSSync(a) \/ Reread(a) \/ ReleaseVerified(a)

----------------------------------------------------------------------------
(* Who runs it.                                                            *)

actorFrame == <<rowVars, held, omsVars, timeVars>>

\* The worker claims a waiting job, also one a dead process left running.
ClaimAutoFulfillment ==
    /\ pc[Worker] = "idle" /\ job \in {"waiting_oms", "running"}
    /\ job' = "running"
    /\ GetShipment(Worker)
    /\ UNCHANGED <<actorFrame, boundVars>>

UpdateAutoFulfillment(status) == job' = IF job = "completed" THEN job ELSE status

\* The shipped case of runAutoFulfillment.
FinishWorker ==
    /\ pc[Worker] = "done" /\ Goto(Worker, "idle")
    /\ snap' = [snap EXCEPT ![Worker] = NoRow] /\ outcome' = [outcome EXCEPT ![Worker] = "ok"]
    /\ UpdateAutoFulfillment(
           IF outcome[Worker] = "manual" THEN "failed"
           ELSE IF outcome[Worker] = "ok" /\ snap[Worker].status \in {"verified", "terminal"}
           THEN "completed" ELSE "waiting_oms")
    /\ UNCHANGED <<actorFrame, result, boundVars>>

\* The listing of a tick is older than the check it leads to.
PendingOMSSyncShipmentIDs ==
    /\ pc[Loop] = "idle" /\ row.status \notin Settled
    /\ Goto(Loop, "listed")
    /\ UNCHANGED <<actorFrame, job, localVars, boundVars>>

QueryPendingOMSSync ==
    /\ pc[Loop] = "listed" /\ GetShipment(Loop)
    /\ UNCHANGED <<actorFrame, job, boundVars>>

Request(h) == pc[h] = "idle" /\ requests < MaxRequests /\ requests' = requests + 1 /\ UNCHANGED faults

RequestCheck(h) ==
    /\ Request(h) /\ GetShipment(h)
    /\ UNCHANGED <<actorFrame, job>>

RequestAssign(h) ==
    /\ Request(h) /\ Goto(h, "target")
    /\ UNCHANGED <<actorFrame, job, localVars>>

\* AssignWarehouse: only a unique pending order is a target, and a successful
\* assignment (which leaves no marker) is followed by a check.
WarehouseAssignmentTarget(h) ==
    /\ pc[h] = "target"
    /\ \/ Assignable(order) /\ Goto(h, "submit") /\ NoFault
       \/ ~Assignable(order) /\ Goto(h, "idle") /\ NoFault
       \/ Goto(h, "idle") /\ Fault
    /\ UNCHANGED <<actorFrame, job, localVars, requests>>

AssignWarehouse(h) ==
    /\ pc[h] = "submit"
    /\ \/ Submit(TRUE) /\ Goto(h, "check")
       \/ Submit(FALSE) /\ Goto(h, "idle")
    /\ UNCHANGED <<rowVars, job, held, order, taken, timeVars, localVars, requests>>

CheckAssigned(h) ==
    /\ pc[h] = "check" /\ GetShipment(h)
    /\ UNCHANGED <<actorFrame, job, boundVars>>

\* An operator closes an order whose last answer showed no platform order.
Resolvable(r) == r.status \in {"waiting_sync", "manual_required"} /\ r.missing

ResolveMissingOMSPlatformOrder ==
    /\ requests < MaxRequests /\ requests' = requests + 1
    /\ Resolvable(row)
    /\ row' = [row EXCEPT !.status = "terminal"] /\ fresh' = FALSE
    /\ job' = "completed"
    /\ UNCHANGED <<held, omsVars, timeVars, pc, localVars, faults>>

\* The process dies: its requests with it, rows and job stay.
Crash ==
    /\ Fault
    /\ \E a \in Actors : pc[a] # "idle"
    /\ pc'      = [a \in Actors |-> "idle"]
    /\ snap'    = [a \in Actors |-> NoRow]
    /\ result'  = [a \in Actors |-> NoRow]
    /\ outcome' = [a \in Actors |-> "ok"]
    /\ UNCHANGED <<actorFrame, job, requests>>

----------------------------------------------------------------------------
(* Time and XLWMS.                                                         *)

\* Between StartOMSSync and UpdateOMSSync.
Querying(a) == pc[a] \in {"query", "assign", "write"}

\* The lease of a query runs out: with a short request timeout only when nobody
\* is left to answer it.
LeaseExpires ==
    /\ row.status = "querying" /\ fresh
    /\ fresh' = FALSE
    /\ \/ (\A a \in Actors : ~Querying(a)) /\ NoFault
       \/ slow /\ (\E a \in Actors : Querying(a)) /\ Fault
    /\ UNCHANGED <<row, job, held, omsVars, timeVars, pc, localVars, requests>>

\* Once the order has arrived, the time since the confirmation is not looked at.
GraceExpires ==
    /\ ~overdue /\ order.count = 0 /\ overdue' = TRUE
    /\ UNCHANGED <<rowVars, job, held, omsVars, slow, pc, localVars, boundVars>>

\* XLWMS has taken the order over: status 2 or 3, in the warehouse of the label.
Processed(o) == o.count = 1 /\ o.status \in {2, 3} /\ o.warehouse = "bought"

\* The order arrives (or twice) and moves on; in the bought warehouse only behind
\* an assignment, but operators of XLWMS may stop it or send it elsewhere.
OrderMoves ==
    /\ order' \in Views
    /\ order'.count >= order.count /\ order'.status >= order.status
    /\ order.warehouse # "none" => order'.warehouse = order.warehouse
    /\ order.count = 0 => order'.status = 0
    /\ order'.status \in 1 .. 3 => approved \/ order'.warehouse = "other"
    /\ taken' = (taken \/ Processed(order'))
    /\ UNCHANGED <<rowVars, job, held, approved, timeVars, pc, localVars, boundVars>>

----------------------------------------------------------------------------
BackgroundQuery == PendingOMSSyncShipmentIDs \/ QueryPendingOMSSync \/ CheckOMSSync(Loop)

AutoFulfillment == ClaimAutoFulfillment \/ CheckOMSSync(Worker) \/ FinishWorker

HandlerSteps(h) ==
    \/ RequestCheck(h) \/ RequestAssign(h) \/ WarehouseAssignmentTarget(h)
    \/ AssignWarehouse(h) \/ CheckAssigned(h) \/ CheckOMSSync(h)

Next ==
    \/ AutoFulfillment \/ BackgroundQuery \/ \E h \in Handlers : HandlerSteps(h)
    \/ ResolveMissingOMSPlatformOrder \/ Crash
    \/ LeaseExpires \/ GraceExpires \/ OrderMoves

Spec == Init /\ [][Next]_vars

\* The loops run for ever and time passes; operators and XLWMS owe nothing, and a
\* request that was begun ends.
FairSpec ==
    /\ Spec
    /\ WF_vars(AutoFulfillment)
    /\ WF_vars(BackgroundQuery)
    /\ \A h \in Handlers : WF_vars(CheckOMSSync(h))
    /\ WF_vars(LeaseExpires) /\ WF_vars(GraceExpires)

----------------------------------------------------------------------------
(* Properties.                                                             *)

\* Every variable has its type; for the row these are the CHECK constraints of the
\* schema.
StateTypes ==
    /\ row \in Row /\ fresh \in BOOLEAN /\ job \in JobStatus /\ held \in BOOLEAN
    /\ order \in Views /\ approved \in BOOLEAN /\ taken \in BOOLEAN
    /\ overdue \in BOOLEAN /\ slow \in BOOLEAN
    /\ requests \in 0 .. MaxRequests /\ faults \in 0 .. MaxFaults

LocalTypes ==
    /\ pc \in [Actors -> PC]
    /\ snap \in [Actors -> Row]
    /\ result \in [Actors -> Row]
    /\ outcome \in [Actors -> {"ok", "error", "manual"}]

TypeOK == StateTypes /\ LocalTypes

\* While no answer can outlive its lease, one actor at most queries XLWMS for
\* the order and assigns it, whoever starts checks, dies or takes them over.
OneReconciler ==
    ~slow => \A a, b \in Actors : Querying(a) /\ Querying(b) => a = b

\* A reservation is released by the reconciliation only after XLWMS has taken
\* the order over in the warehouse the label was bought for, whatever is
\* recorded late, over another answer, or from a row read before.
ReleaseIsBacked == ~held => taken

\* A completed job of a verified order has released its reservation: no failure
\* of the release, crash or concurrent check lets the worker finish without it
\* (when no answer outlives its lease; the snapshot of a verified row that is
\* overwritten late does).
CompletedJobReleased == ~slow /\ job = "completed" /\ row.status = "verified" => ~held

\* The operator's decision over a missing order is final, in the row and in the
\* job, though a check may be under way in the worker or outlive its lease.
TerminalIsFinal ==
    [][row.status = "terminal" => row'.status = "terminal" /\ job' = "completed"]_vars

\* A verified order is released: by the check that verified it, or by the worker.
VerifiedIsReleased == ~slow /\ row.status = "verified" ~> ~held

\* An order that has left the pending statuses of XLWMS, or is not unique, gets its
\* verdict, whatever failed, crashed or was cancelled on the way.
OrderIsJudged == order.count > 1 \/ order.status > 1 ~> row.status \in Settled

\* What the reconciliation promises, without its actors (see OMSOutcome).
Verdict == IF row.status \in Settled THEN row.status ELSE "open"

Promise == INSTANCE OMSOutcome WITH outcome <- Verdict, held <- held, late <- slow

\* The lease, the actors and the row implement that promise.
PromiseKept == Promise!Spec
============================================================================
