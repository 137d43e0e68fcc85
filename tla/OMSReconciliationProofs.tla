---------------------- MODULE OMSReconciliationProofs ----------------------
(***************************************************************************)
(* What holds of OMSReconciliation for every set of handlers, every set of *)
(* views of XLWMS and every bound.                                         *)
(***************************************************************************)
EXTENDS OMSReconciliation, TLAPS

USE DEF rowVars, omsVars, timeVars, boundVars, localVars, actorFrame, NoFault

(***************************************************************************)
(* Types.                                                                  *)
(***************************************************************************)

\* The rows the code builds are rows.
LEMMA RowValues ==
    /\ NoRow \in Row
    /\ \A r \in Row : View(r) \in Row /\ FailureSummary(r) \in Row
BY DEF NoRow, Row, View, FailureSummary

\* The summary of any verdict is a row.
LEMMA SummaryType ==
    ASSUME NEW o \in PlatformOrder, NEW d, NEW b \in BOOLEAN
    PROVE  Summary(o, d, b) \in Row
BY DEF Summary, Row, PlatformOrder

LEMMA WorkerActor == Worker \in Actors /\ Loop \in Actors /\ \A h \in Handlers : h \in Actors
BY DEF Actors

\* Returning from the check keeps the local state typed.
LEMMA ReturnType ==
    ASSUME LocalTypes, NEW a \in Actors, NEW s \in Row, NEW o \in {"ok", "error", "manual"},
           Return(a, s, o)
    PROVE  LocalTypes'
BY RowValues DEF Return, Goto, LocalTypes, PC

\* So does the beginning of a check.
LEMMA GetShipmentType ==
    ASSUME LocalTypes, row \in Row, NEW a \in Actors, GetShipment(a)
    PROVE  LocalTypes'
BY RowValues DEF GetShipment, Goto, LocalTypes, PC

\* A counted fault stays within its bound.
LEMMA FaultType ==
    ASSUME StateTypes, Fault \/ NoFault
    PROVE  faults' \in 0 .. MaxFaults
BY BoundsAssumption DEF StateTypes, Fault

\* A step of the check keeps the types.
LEMMA CheckType ==
    ASSUME TypeOK, NEW a \in Actors, CheckOMSSync(a)
    PROVE  TypeOK'
<1> USE DEF TypeOK
<1>1. CASE StartOMSSync(a)
  BY <1>1 DEF StartOMSSync, StateTypes, LocalTypes, Goto, PC, Row
<1>2. CASE GetOMSSync(a)
  <2>1. StateTypes'  BY <1>2 DEF GetOMSSync, StateTypes
  <2>2. LocalTypes'
    <3>1. CASE Return(a, View(row), "manual")
      BY <3>1, RowValues, ReturnType DEF StateTypes
    <3>2. CASE Return(a, snap[a], "ok")
      BY <3>2, ReturnType DEF LocalTypes
    <3>3. CASE Goto(a, "reread") /\ UNCHANGED localVars
      BY <3>3 DEF Goto, LocalTypes, PC
    <3> QED  BY <1>2, <3>1, <3>2, <3>3 DEF GetOMSSync
  <2> QED  BY <2>1, <2>2
<1>3. CASE QueryPlatformOrder(a)
  <2>1. StateTypes'
    BY <1>3, FaultType DEF QueryPlatformOrder, QueryFails, QueryAnswers, StateTypes
  <2>2. \E r \in Row, o \in {"ok", "error", "manual"} : Answer(a, r, o)
    <3>1. CASE QueryFails(a)
      BY <3>1, RowValues DEF QueryFails, LocalTypes
    <3>2. CASE QueryAnswers(a)
      <4> DEFINE d == decideOMSPlatformOrder(order, overdue)
      <4>1. Summary(order, d, snap[a].assigned) \in Row
        BY SummaryType, ViewsAssumption DEF StateTypes, LocalTypes, Row
      <4> QED  BY <3>2, <4>1 DEF QueryAnswers
    <3> QED  BY <1>3, <3>1, <3>2 DEF QueryPlatformOrder
  <2>3. \E l \in PC : Goto(a, l)
    BY <1>3 DEF QueryPlatformOrder, QueryFails, QueryAnswers, PC
  <2>4. snap' = [snap EXCEPT ![a] = NoRow]
    BY <1>3 DEF QueryPlatformOrder
  <2> QED  BY <2>1, <2>2, <2>3, <2>4, RowValues DEF Answer, Goto, LocalTypes
<1>4. CASE AssignPending(a)
  <2>1. StateTypes'
    BY <1>4, FaultType DEF AssignPending, Submit, StateTypes
  <2>2. PICK b \in BOOLEAN, o \in {"ok", "error"} : Answer(a, [result[a] EXCEPT !.assigned = b], o)
    BY <1>4 DEF AssignPending
  <2>3. [result[a] EXCEPT !.assigned = b] \in Row
    BY DEF LocalTypes, Row
  <2> QED  BY <1>4, <2>1, <2>2, <2>3 DEF AssignPending, Answer, Goto, LocalTypes, PC
<1>5. CASE UpdateOMSSync(a)
  <2>1. StateTypes'
    BY <1>5, FaultType DEF UpdateOMSSync, Record, RecordCancelled, StateTypes, LocalTypes
  <2>2. LocalTypes'
    <3>1. CASE \E s \in Row, o \in {"ok", "error", "manual"} : Return(a, s, o)
      BY <3>1, ReturnType
    <3>2. CASE Goto(a, "reread") /\ UNCHANGED localVars
      BY <3>2 DEF Goto, LocalTypes, PC
    <3>3. snap[a] \in Row /\ View(result[a]) \in Row /\ outcome[a] \in {"ok", "error", "manual"}
      BY RowValues DEF LocalTypes
    <3> QED  BY <1>5, <3>1, <3>2, <3>3 DEF UpdateOMSSync, Record, RecordCancelled
  <2> QED  BY <2>1, <2>2
<1>6. CASE Reread(a)
  <2>1. StateTypes'  BY <1>6 DEF Reread, StateTypes
  <2>2. View(row) \in Row  BY RowValues DEF StateTypes
  <2>3. CASE Return(a, View(row), "ok")  BY <2>1, <2>2, <2>3, ReturnType
  <2>4. CASE Goto(a, "release") /\ snap' = [snap EXCEPT ![a] = View(row)] /\ UNCHANGED <<result, outcome>>
    BY <2>1, <2>2, <2>4 DEF Goto, LocalTypes, PC
  <2> QED  BY <1>6, <2>3, <2>4 DEF Reread
<1>7. CASE ReleaseVerified(a)
  <2>1. StateTypes'
    BY <1>7, FaultType DEF ReleaseVerified, StateTypes
  <2>2. snap[a] \in Row  BY DEF LocalTypes
  <2>3. \E o \in {"ok", "error"} : Return(a, snap[a], o)
    BY <1>7 DEF ReleaseVerified
  <2> QED  BY <2>1, <2>2, <2>3, ReturnType
<1> QED  BY <1>1, <1>2, <1>3, <1>4, <1>5, <1>6, <1>7 DEF CheckOMSSync

\* So does a step of an operator's request.
LEMMA HandlerType ==
    ASSUME TypeOK, NEW h \in Handlers, HandlerSteps(h)
    PROVE  TypeOK'
<1> USE WorkerActor DEF TypeOK
<1>1. CASE CheckOMSSync(h)  BY <1>1, CheckType
<1>2. CASE RequestCheck(h)
  BY <1>2, GetShipmentType, BoundsAssumption DEF RequestCheck, Request, StateTypes
<1>3. CASE CheckAssigned(h)
  BY <1>3, GetShipmentType DEF CheckAssigned, StateTypes
<1>4. CASE RequestAssign(h)
  BY <1>4, BoundsAssumption DEF RequestAssign, Request, StateTypes, Goto, LocalTypes, PC
<1>5. CASE WarehouseAssignmentTarget(h)
  BY <1>5, FaultType DEF WarehouseAssignmentTarget, StateTypes, Goto, LocalTypes, PC
<1>6. CASE AssignWarehouse(h)
  <2>1. StateTypes'  BY <1>6, FaultType DEF AssignWarehouse, Submit, StateTypes
  <2>2. LocalTypes'  BY <1>6 DEF AssignWarehouse, Goto, LocalTypes, PC
  <2> QED  BY <2>1, <2>2
<1> QED  BY <1>1, <1>2, <1>3, <1>4, <1>5, <1>6 DEF HandlerSteps

LEMMA TypeStep == TypeOK /\ [Next]_vars => TypeOK'
<1> SUFFICES ASSUME TypeOK, [Next]_vars PROVE TypeOK'
  OBVIOUS
<1> USE WorkerActor DEF TypeOK
<1>1. CASE UNCHANGED vars
  BY <1>1 DEF vars, StateTypes, LocalTypes
<1>2. CASE AutoFulfillment
  <2>1. CASE ClaimAutoFulfillment
    BY <2>1, GetShipmentType DEF ClaimAutoFulfillment, StateTypes, JobStatus
  <2>2. CASE FinishWorker
    <3>1. StateTypes'
      BY <2>2 DEF FinishWorker, UpdateAutoFulfillment, StateTypes, JobStatus
    <3>2. LocalTypes'
      BY <2>2, RowValues DEF FinishWorker, Goto, LocalTypes, PC
    <3> QED  BY <3>1, <3>2
  <2> QED  BY <1>2, <2>1, <2>2, CheckType DEF AutoFulfillment
<1>3. CASE BackgroundQuery
  <2>1. CASE PendingOMSSyncShipmentIDs
    BY <2>1 DEF PendingOMSSyncShipmentIDs, StateTypes, LocalTypes, Goto, PC
  <2>2. CASE QueryPendingOMSSync
    BY <2>2, GetShipmentType DEF QueryPendingOMSSync, StateTypes
  <2> QED  BY <1>3, <2>1, <2>2, CheckType DEF BackgroundQuery
<1>4. CASE \E h \in Handlers : HandlerSteps(h)
  BY <1>4, HandlerType
<1>5. CASE ResolveMissingOMSPlatformOrder
  <2>1. row' \in Row
    BY <1>5 DEF ResolveMissingOMSPlatformOrder, StateTypes, Row
  <2>2. requests' \in 0 .. MaxRequests
    BY <1>5, BoundsAssumption DEF ResolveMissingOMSPlatformOrder, StateTypes
  <2>3. LocalTypes'
    BY <1>5 DEF ResolveMissingOMSPlatformOrder, LocalTypes
  <2> QED
    BY <1>5, <2>1, <2>2, <2>3 DEF ResolveMissingOMSPlatformOrder, StateTypes, JobStatus
<1>6. CASE Crash
  BY <1>6, FaultType, RowValues DEF Crash, StateTypes, LocalTypes, PC
<1>7. CASE LeaseExpires \/ GraceExpires
  BY <1>7, FaultType DEF LeaseExpires, GraceExpires, StateTypes, LocalTypes
<1>8. CASE OrderMoves
  BY <1>8 DEF OrderMoves, StateTypes, LocalTypes
<1> QED  BY <1>1, <1>2, <1>3, <1>4, <1>5, <1>6, <1>7, <1>8 DEF Next

\* Every variable keeps its type.
THEOREM TypeCorrect == Spec => []TypeOK
<1>1. Init => TypeOK
  <2> SUFFICES ASSUME Init PROVE StateTypes /\ LocalTypes
    BY DEF TypeOK
  <2>3. requests \in 0 .. MaxRequests /\ faults \in 0 .. MaxFaults
    BY BoundsAssumption DEF Init
  <2>1. StateTypes
    BY <2>3, RowValues, ViewsAssumption, Zenon DEF Init, StateTypes, JobStatus
  <2>2. LocalTypes
    BY RowValues DEF Init, LocalTypes, PC
  <2> QED  BY <2>1, <2>2
<1> QED  BY <1>1, TypeStep, PTL DEF Spec

(***************************************************************************)
(* The lease.                                                              *)
(***************************************************************************)

\* While no answer is late: whoever is between StartOMSSync and UpdateOMSSync holds
\* a young lease, alone, and whoever is about to release has a verified row.
Leased ==
    ~slow =>
      /\ \A a \in Actors : Querying(a) => row.status = "querying" /\ fresh
      /\ \A a, b \in Actors : Querying(a) /\ Querying(b) => a = b
      /\ \A a \in Actors : pc[a] = "release" => row.status = "verified"

\* What an answer is before it is recorded: never the operator's decision.
Answered == \A a \in Actors : result[a].status # "terminal"

\* The job of an order the operator has closed is completed.
ClosedJob == row.status = "terminal" => job = "completed"

LeaseInv == Leased /\ Answered /\ ClosedJob

\* A step that leaves the row alone and moves nobody into the query or the release
\* keeps the lease.
LEMMA LeaseFrame ==
    ASSUME LocalTypes, LeaseInv, UNCHANGED <<row, slow>>, fresh' = fresh \/ \A a \in Actors : ~Querying(a),
           \A a \in Actors : /\ Querying(a)' => Querying(a)
                             /\ pc'[a] = "release" => pc[a] = "release" \/ row.status = "verified"
                             /\ result'[a].status # "terminal",
           job' = job \/ job # "completed"
    PROVE  LeaseInv'
BY DEF LeaseInv, Leased, Answered, ClosedJob

\* Returning from the check leads out of the query and the release.
LEMMA ReturnLeaves ==
    ASSUME LocalTypes, LeaseInv, NEW a \in Actors, NEW s, NEW o, Return(a, s, o)
    PROVE  \A b \in Actors : /\ ~(b = a /\ Querying(b)') /\ (Querying(b)' => Querying(b))
                             /\ pc'[b] = "release" => pc[b] = "release"
                             /\ result'[b].status # "terminal"
BY DEF Return, Goto, LocalTypes, LeaseInv, Answered, Querying, NoRow

\* The verdicts that can be recorded.
LEMMA AnswerStatus ==
    /\ \A o, d, b : Summary(o, d, b).status \in {"verified", "manual_required", "waiting_sync"}
    /\ \A r : FailureSummary(r).status = "failed"
BY DEF Summary, FailureSummary

\* A step of the check keeps the lease.
LEMMA LeaseCheck ==
    ASSUME TypeOK, LeaseInv, NEW a \in Actors, CheckOMSSync(a)
    PROVE  LeaseInv'
<1> USE DEF TypeOK
<1>1. CASE StartOMSSync(a)
  <2>1. CASE Startable(row, fresh)
    <3>1. /\ row' = [row EXCEPT !.status = "querying"] /\ fresh' = TRUE
          /\ pc' = [pc EXCEPT ![a] = "query"] /\ UNCHANGED <<job, slow, result>>
      BY <1>1, <2>1 DEF StartOMSSync, Goto
    <3>2. row'.status = "querying"  BY <3>1 DEF StateTypes, Row
    <3>3. ~slow => \A b \in Actors : ~Querying(b)
      BY <2>1 DEF LeaseInv, Leased, Startable
    <3>4. \A b \in Actors : b # a => pc'[b] = pc[b]
      BY <3>1 DEF LocalTypes
    <3>5. row.status # "verified"  BY <2>1 DEF Startable, Settled
    <3>6. pc'[a] = "query"  BY <3>1 DEF LocalTypes
    <3>7. Leased'
      BY <3>1, <3>2, <3>3, <3>4, <3>5, <3>6 DEF LeaseInv, Leased, Querying
    <3> QED  BY <3>1, <3>2, <3>7 DEF LeaseInv, Answered, ClosedJob
  <2>2. CASE ~Startable(row, fresh)
    BY <1>1, <2>2, LeaseFrame DEF StartOMSSync, Goto, LocalTypes, Querying, LeaseInv, Answered
  <2> QED  BY <2>1, <2>2
<1>2. CASE GetOMSSync(a)
  <2>1. CASE Goto(a, "reread") /\ UNCHANGED localVars
    BY <1>2, <2>1, LeaseFrame DEF GetOMSSync, Goto, LocalTypes, Querying, LeaseInv, Answered
  <2>2. CASE \E s, o : Return(a, s, o)
    BY <1>2, <2>2, LeaseFrame, ReturnLeaves DEF GetOMSSync
  <2> QED  BY <1>2, <2>1, <2>2 DEF GetOMSSync
<1>3. CASE QueryPlatformOrder(a)
  <2>1. \E l \in {"assign", "write"} : Goto(a, l)
    BY <1>3 DEF QueryPlatformOrder, QueryFails, QueryAnswers
  <2>2. \E r, o : r.status # "terminal" /\ Answer(a, r, o)
    BY <1>3, AnswerStatus DEF QueryPlatformOrder, QueryFails, QueryAnswers
  <2>3. \A b \in Actors : result'[b].status # "terminal"
    BY <2>2 DEF Answer, LeaseInv, Answered, LocalTypes
  <2>4. pc[a] = "query" /\ UNCHANGED <<row, fresh, job, slow>>
    BY <1>3 DEF QueryPlatformOrder
  <2> QED  BY <2>1, <2>3, <2>4, LeaseFrame DEF Goto, LocalTypes, Querying
<1>4. CASE AssignPending(a)
  <2>1. Goto(a, "write") /\ pc[a] = "assign" /\ UNCHANGED <<row, fresh, job, slow>>
    BY <1>4 DEF AssignPending
  <2>2. PICK b \in BOOLEAN, o \in {"ok", "error"} : Answer(a, [result[a] EXCEPT !.assigned = b], o)
    BY <1>4 DEF AssignPending
  <2>3. [result[a] EXCEPT !.assigned = b].status = result[a].status
    BY DEF LocalTypes, Row
  <2>4. \A c \in Actors : result'[c].status # "terminal"
    BY <2>2, <2>3 DEF Answer, LeaseInv, Answered, LocalTypes
  <2> QED  BY <2>1, <2>4, LeaseFrame DEF Goto, LocalTypes, Querying
<1>5. CASE UpdateOMSSync(a)
  <2> DEFINE Kept == UNCHANGED <<row, fresh>> /\ \E s, o : Return(a, s, o)
  <2>1. CASE Kept
    BY <1>5, <2>1, LeaseFrame, ReturnLeaves DEF UpdateOMSSync
  <2>2. CASE ~Kept
    <3>1. /\ row.status # "terminal" /\ row' = result[a] /\ fresh' = FALSE
          /\ (Goto(a, "reread") /\ UNCHANGED localVars) \/ Return(a, View(result[a]), outcome[a])
      BY <1>5, <2>2 DEF UpdateOMSSync, Record, RecordCancelled, Spared
    <3>2. /\ \A b \in Actors : /\ ~(b = a /\ Querying(b)') /\ (Querying(b)' => Querying(b))
                               /\ pc'[b] = "release" => pc[b] = "release"
                               /\ result'[b].status # "terminal"
      <4>1. CASE Goto(a, "reread") /\ UNCHANGED localVars
        BY <4>1 DEF Goto, LocalTypes, Querying, LeaseInv, Answered
      <4>2. CASE Return(a, View(result[a]), outcome[a])
        BY <4>2, ReturnLeaves
      <4> QED  BY <3>1, <4>1, <4>2
    <3>3. pc[a] = "write" /\ UNCHANGED <<job, slow>>
      BY <1>5 DEF UpdateOMSSync
    <3>4. ~slow => /\ \A b \in Actors : b # a => ~Querying(b)
                   /\ row.status = "querying"
      BY <3>3 DEF LeaseInv, Leased, Querying
    <3>5. ~slow => \A b \in Actors : pc[b] # "release"
      BY <3>4 DEF LeaseInv, Leased
    <3>6. Leased'  BY <3>2, <3>3, <3>4, <3>5 DEF Leased
    <3>7. ClosedJob'  BY <3>1 DEF ClosedJob, LeaseInv, Answered
    <3> QED  BY <3>2, <3>6, <3>7 DEF LeaseInv, Answered
  <2> QED  BY <2>1, <2>2
<1>6. CASE Reread(a)
  <2>1. CASE row.status = "verified"
    BY <1>6, <2>1, LeaseFrame DEF Reread, Goto, LocalTypes, Querying, LeaseInv, Answered
  <2>2. CASE row.status # "verified"
    BY <1>6, <2>2, LeaseFrame, ReturnLeaves DEF Reread
  <2> QED  BY <2>1, <2>2
<1>7. CASE ReleaseVerified(a)
  <2>1. \E s, o : Return(a, s, o)  BY <1>7 DEF ReleaseVerified
  <2> QED  BY <1>7, <2>1, LeaseFrame, ReturnLeaves DEF ReleaseVerified
<1> QED  BY <1>1, <1>2, <1>3, <1>4, <1>5, <1>6, <1>7 DEF CheckOMSSync

\* A step outside the check that leaves the row alone and puts one actor, which was
\* neither querying nor releasing, at another such place keeps the lease.
LEMMA LeaseMove ==
    ASSUME LocalTypes, LeaseInv, NEW a \in Actors, NEW l \in PC \ {"query", "assign", "write", "release"},
           Goto(a, l), UNCHANGED <<row, fresh, slow, result>>, job' = job \/ job # "completed"
    PROVE  LeaseInv'
BY LeaseFrame DEF Goto, LocalTypes, Querying, LeaseInv, Answered

\* So does a step of an operator's request.
LEMMA LeaseHandler ==
    ASSUME TypeOK, LeaseInv, NEW h \in Handlers, HandlerSteps(h)
    PROVE  LeaseInv'
<1> USE WorkerActor DEF TypeOK
<1>1. CASE CheckOMSSync(h)
  BY <1>1, LeaseCheck
<1>2. CASE ~CheckOMSSync(h)
  <2>1. \E l \in PC \ {"query", "assign", "write", "release"} : Goto(h, l)
    BY <1>2 DEF HandlerSteps, RequestCheck, RequestAssign, WarehouseAssignmentTarget,
                AssignWarehouse, CheckAssigned, GetShipment, PC
  <2>2. UNCHANGED <<row, fresh, slow, result, job>>
    BY <1>2 DEF HandlerSteps, RequestCheck, RequestAssign, WarehouseAssignmentTarget,
                AssignWarehouse, CheckAssigned, GetShipment
  <2> QED  BY <2>1, <2>2, LeaseMove
<1> QED  BY <1>1, <1>2

LEMMA LeaseStep == TypeOK /\ LeaseInv /\ [Next]_vars => LeaseInv'
<1> SUFFICES ASSUME TypeOK, LeaseInv, [Next]_vars PROVE LeaseInv'
  OBVIOUS
<1> USE WorkerActor DEF TypeOK
<1>1. CASE UNCHANGED vars
  BY <1>1 DEF vars, LeaseInv, Leased, Answered, ClosedJob, Querying
<1>2. CASE AutoFulfillment
  <2>1. CASE ClaimAutoFulfillment
    <3>1. GetShipment(Worker) /\ UNCHANGED <<row, fresh, slow>> /\ job # "completed"
      BY <2>1 DEF ClaimAutoFulfillment
    <3> QED  BY <3>1, LeaseMove DEF GetShipment, PC
  <2>2. CASE FinishWorker
    <3>1. Goto(Worker, "idle") /\ UNCHANGED <<row, fresh, slow, result>>
      BY <2>2 DEF FinishWorker
    <3>2. job' = job \/ job # "completed"
      BY <2>2 DEF FinishWorker, UpdateAutoFulfillment
    <3> QED  BY <3>1, <3>2, LeaseMove DEF PC
  <2> QED  BY <1>2, <2>1, <2>2, LeaseCheck DEF AutoFulfillment
<1>3. CASE BackgroundQuery
  <2>1. CASE PendingOMSSyncShipmentIDs
    BY <2>1, LeaseMove DEF PendingOMSSyncShipmentIDs, PC
  <2>2. CASE QueryPendingOMSSync
    BY <2>2, LeaseMove DEF QueryPendingOMSSync, GetShipment, PC
  <2> QED  BY <1>3, <2>1, <2>2, LeaseCheck DEF BackgroundQuery
<1>4. CASE \E h \in Handlers : HandlerSteps(h)
  BY <1>4, LeaseHandler
<1>5. CASE ResolveMissingOMSPlatformOrder
  <2>1. /\ row.status \in {"waiting_sync", "manual_required"} /\ job' = "completed"
        /\ UNCHANGED <<slow, pc, result>>
    BY <1>5 DEF ResolveMissingOMSPlatformOrder, Resolvable
  <2> QED  BY <2>1 DEF LeaseInv, Leased, Answered, ClosedJob, Querying
<1>6. CASE Crash
  BY <1>6, LeaseFrame DEF Crash, Querying, NoRow
<1>7. CASE LeaseExpires
  <2>1. ~slow => \A a \in Actors : ~Querying(a)
    BY <1>7 DEF LeaseExpires
  <2>2. UNCHANGED <<row, job, slow, pc, result>>
    BY <1>7 DEF LeaseExpires
  <2> QED  BY <2>1, <2>2 DEF LeaseInv, Leased, Answered, ClosedJob, Querying
<1>8. CASE GraceExpires \/ OrderMoves
  BY <1>8 DEF GraceExpires, OrderMoves, LeaseInv, Leased, Answered, ClosedJob, Querying
<1> QED  BY <1>1, <1>2, <1>3, <1>4, <1>5, <1>6, <1>7, <1>8 DEF Next

LEMMA LeaseCorrect == Spec => []LeaseInv
<1>1. Init => LeaseInv
  BY DEF Init, LeaseInv, Leased, Answered, ClosedJob, Querying, NoRow
<1> QED  BY <1>1, TypeStep, LeaseStep, TypeCorrect, PTL DEF Spec

\* One reconciler: the lease that StartOMSSync takes is exclusive while no answer
\* outlives it.
THEOREM OnlyOneReconciler == Spec => []OneReconciler
<1>1. LeaseInv => OneReconciler  BY DEF LeaseInv, Leased, OneReconciler
<1> QED  BY <1>1, LeaseCorrect, PTL

\* The operator's decision is final, in row and job, against every other actor.
THEOREM TerminalStays == Spec => TerminalIsFinal
<1> DEFINE Kept == row.status = "terminal" => row'.status = "terminal" /\ job' = "completed"
<1>1. TypeOK /\ LeaseInv /\ [Next]_vars => Kept
  <2> SUFFICES ASSUME TypeOK, LeaseInv, [Next]_vars, row.status = "terminal" PROVE row'.status = "terminal" /\ job' = "completed"
    OBVIOUS
  <2>1. job = "completed"  BY DEF LeaseInv, ClosedJob
  <2> DEFINE Idle == UNCHANGED <<row, job>>
  <2>2. CASE \E a \in Actors : CheckOMSSync(a)
    BY <2>1, <2>2 DEF CheckOMSSync, StartOMSSync, Startable, Settled, GetOMSSync, QueryPlatformOrder,
        AssignPending, UpdateOMSSync, Record, RecordCancelled, Spared, Reread, ReleaseVerified
  <2>3. CASE AutoFulfillment
    BY <2>1, <2>2, <2>3, WorkerActor DEF AutoFulfillment, ClaimAutoFulfillment, FinishWorker, UpdateAutoFulfillment
  <2>4. CASE BackgroundQuery
    BY <2>1, <2>2, <2>4, WorkerActor DEF BackgroundQuery, PendingOMSSyncShipmentIDs, QueryPendingOMSSync
  <2>5. CASE \E h \in Handlers : HandlerSteps(h)
    BY <2>1, <2>2, <2>5, WorkerActor DEF HandlerSteps, RequestCheck, RequestAssign,
        WarehouseAssignmentTarget, AssignWarehouse, CheckAssigned
  <2>6. CASE ResolveMissingOMSPlatformOrder
    BY <2>6 DEF ResolveMissingOMSPlatformOrder, Resolvable
  <2>7. CASE Crash \/ LeaseExpires \/ GraceExpires \/ OrderMoves \/ UNCHANGED vars
    BY <2>1, <2>7 DEF Crash, LeaseExpires, GraceExpires, OrderMoves, vars
  <2> QED  BY <2>3, <2>4, <2>5, <2>6, <2>7 DEF Next
<1>2. Spec => [][Kept]_vars
  BY <1>1, TypeCorrect, LeaseCorrect, PTL DEF Spec
<1> QED  BY <1>2 DEF TerminalIsFinal

(***************************************************************************)
(* The release.                                                            *)
(***************************************************************************)

\* Whatever says that the order is verified, recorded, about to be recorded or acted
\* upon, says it of an order that XLWMS has taken over.
Backed ==
    /\ Processed(order) => taken
    /\ row.status = "verified" => taken
    /\ \A a \in Actors : /\ result[a].status = "verified" => taken
                         /\ pc[a] = "release" => taken
    /\ ~held => taken

\* Only an order processed in the bought warehouse is judged verified.
LEMMA VerifiedIsProcessed ==
    ASSUME NEW o \in PlatformOrder, NEW late, NEW b,
           Summary(o, decideOMSPlatformOrder(o, late), b).status = "verified"
    PROVE  Processed(o)
<1>1. decideOMSPlatformOrder(o, late) = "verified"
  BY DEF Summary
<1> QED  BY <1>1 DEF decideOMSPlatformOrder, Processed, PlatformOrder

\* A step that makes no verdict, records none and releases nothing keeps it backed.
LEMMA BackedFrame ==
    ASSUME Backed, UNCHANGED <<order, taken>>,
           row'.status = "verified" => row.status = "verified" \/ \E a \in Actors : result[a].status = "verified",
           \A a \in Actors : /\ result'[a].status = "verified" => result[a].status = "verified"
                             /\ pc'[a] = "release" => pc[a] = "release" \/ row.status = "verified",
           held' = held \/ \E a \in Actors : pc[a] = "release"
    PROVE  Backed'
BY DEF Backed, Processed

\* Returning from the check makes no verdict.
LEMMA ReturnBacked ==
    ASSUME LocalTypes, NEW a \in Actors, NEW s, NEW o, Return(a, s, o)
    PROVE  \A b \in Actors : /\ result'[b].status = "verified" => result[b].status = "verified"
                             /\ pc'[b] = "release" => pc[b] = "release"
BY DEF Return, Goto, LocalTypes, NoRow

\* A step of the check keeps the release backed.
LEMMA BackedCheck ==
    ASSUME TypeOK, Backed, NEW a \in Actors, CheckOMSSync(a)
    PROVE  Backed'
<1> USE DEF TypeOK
<1>1. CASE StartOMSSync(a)
  <2>1. row'.status = "verified" => row.status = "verified"
    BY <1>1 DEF StartOMSSync, StateTypes, Row
  <2> QED  BY <1>1, <2>1, BackedFrame DEF StartOMSSync, Goto, LocalTypes
<1>2. CASE GetOMSSync(a)
  <2>1. CASE Goto(a, "reread") /\ UNCHANGED localVars
    BY <1>2, <2>1, BackedFrame DEF GetOMSSync, Goto, LocalTypes
  <2>2. CASE \E s, o : Return(a, s, o)
    BY <1>2, <2>2, BackedFrame, ReturnBacked DEF GetOMSSync
  <2> QED  BY <1>2, <2>1, <2>2 DEF GetOMSSync
<1>3. CASE QueryPlatformOrder(a)
  <2>1. \E l \in {"assign", "write"} : Goto(a, l)
    BY <1>3 DEF QueryPlatformOrder, QueryFails, QueryAnswers
  <2>2. PICK r \in Row, o \in {"ok", "error", "manual"} :
            Answer(a, r, o) /\ (r.status = "verified" => taken)
    <3>1. CASE QueryFails(a)
      BY <3>1, RowValues, AnswerStatus DEF QueryFails, LocalTypes
    <3>2. CASE QueryAnswers(a)
      <4> DEFINE d == decideOMSPlatformOrder(order, overdue)
                 r == Summary(order, d, snap[a].assigned)
      <4>1. order \in PlatformOrder /\ snap[a].assigned \in BOOLEAN
        BY ViewsAssumption DEF StateTypes, LocalTypes, Row
      <4>2. r \in Row
        BY <4>1, SummaryType
      <4>3. r.status = "verified" => taken
        BY <4>1, VerifiedIsProcessed DEF Backed
      <4>4. \E o \in {"ok", "error", "manual"} : Answer(a, r, o)
        BY <3>2 DEF QueryAnswers
      <4> QED  BY <4>2, <4>3, <4>4
    <3> QED  BY <1>3, <3>1, <3>2 DEF QueryPlatformOrder
  <2>3. \A b \in Actors : /\ result'[b].status = "verified" => taken
                          /\ pc'[b] = "release" => pc[b] = "release"
    BY <2>1, <2>2 DEF Answer, Goto, Backed, LocalTypes
  <2>4. UNCHANGED <<row, order, taken, held>>
    BY <1>3 DEF QueryPlatformOrder
  <2> QED  BY <2>3, <2>4 DEF Backed, Processed
<1>4. CASE AssignPending(a)
  <2>1. Goto(a, "write") /\ UNCHANGED <<row, order, taken, held>>
    BY <1>4 DEF AssignPending
  <2>2. PICK b \in BOOLEAN, o \in {"ok", "error"} : Answer(a, [result[a] EXCEPT !.assigned = b], o)
    BY <1>4 DEF AssignPending
  <2>3. [result[a] EXCEPT !.assigned = b].status = result[a].status
    BY DEF LocalTypes, Row
  <2> QED  BY <2>1, <2>2, <2>3, BackedFrame DEF Answer, Goto, LocalTypes
<1>5. CASE UpdateOMSSync(a)
  <2>1. row' = row \/ row' = result[a]
    BY <1>5 DEF UpdateOMSSync, Record, RecordCancelled
  <2>2. (Goto(a, "reread") /\ UNCHANGED localVars) \/ \E s, o : Return(a, s, o)
    BY <1>5 DEF UpdateOMSSync, Record, RecordCancelled
  <2>3. \A b \in Actors : /\ result'[b].status = "verified" => result[b].status = "verified"
                          /\ pc'[b] = "release" => pc[b] = "release"
    BY <2>2, ReturnBacked DEF Goto, LocalTypes
  <2>4. UNCHANGED <<order, taken, held>>
    BY <1>5 DEF UpdateOMSSync
  <2> QED  BY <2>1, <2>3, <2>4, BackedFrame
<1>6. CASE Reread(a)
  <2>1. CASE row.status = "verified"
    BY <1>6, <2>1, BackedFrame DEF Reread, Goto, LocalTypes
  <2>2. CASE row.status # "verified"
    BY <1>6, <2>2, BackedFrame, ReturnBacked DEF Reread
  <2> QED  BY <2>1, <2>2
<1>7. CASE ReleaseVerified(a)
  <2>1. \E s, o : Return(a, s, o)  BY <1>7 DEF ReleaseVerified
  <2> QED  BY <1>7, <2>1, BackedFrame, ReturnBacked DEF ReleaseVerified
<1> QED  BY <1>1, <1>2, <1>3, <1>4, <1>5, <1>6, <1>7 DEF CheckOMSSync

\* A step that moves an actor outside the check keeps it backed.
LEMMA BackedMove ==
    ASSUME LocalTypes, Backed, NEW a \in Actors, NEW l \in PC \ {"release"}, Goto(a, l),
           UNCHANGED <<row, order, taken, held, result>>
    PROVE  Backed'
BY BackedFrame DEF Goto, LocalTypes

LEMMA BackedStep == TypeOK /\ Backed /\ [Next]_vars => Backed'
<1> SUFFICES ASSUME TypeOK, Backed, [Next]_vars PROVE Backed'
  OBVIOUS
<1> USE WorkerActor DEF TypeOK
<1>1. CASE UNCHANGED vars
  BY <1>1 DEF vars, Backed, Processed
<1>2. CASE AutoFulfillment
  <2>1. CASE ClaimAutoFulfillment
    BY <2>1, BackedMove DEF ClaimAutoFulfillment, GetShipment, PC
  <2>2. CASE FinishWorker
    <3>1. Goto(Worker, "idle") /\ UNCHANGED <<row, order, taken, held, result>>
      BY <2>2 DEF FinishWorker
    <3> QED  BY <3>1, BackedMove DEF PC
  <2> QED  BY <1>2, <2>1, <2>2, BackedCheck DEF AutoFulfillment
<1>3. CASE BackgroundQuery
  <2>1. CASE PendingOMSSyncShipmentIDs
    BY <2>1, BackedMove DEF PendingOMSSyncShipmentIDs, PC
  <2>2. CASE QueryPendingOMSSync
    BY <2>2, BackedMove DEF QueryPendingOMSSync, GetShipment, PC
  <2> QED  BY <1>3, <2>1, <2>2, BackedCheck DEF BackgroundQuery
<1>4. CASE \E h \in Handlers : HandlerSteps(h)
  <2> PICK h \in Handlers : HandlerSteps(h)  BY <1>4
  <2>1. CASE CheckOMSSync(h)  BY <2>1, BackedCheck
  <2>2. CASE ~CheckOMSSync(h)
    <3>1. \E l \in PC \ {"release"} : Goto(h, l)
      BY <2>2 DEF HandlerSteps, RequestCheck, RequestAssign, WarehouseAssignmentTarget,
                  AssignWarehouse, CheckAssigned, GetShipment, PC
    <3>2. UNCHANGED <<row, order, taken, held, result>>
      BY <2>2 DEF HandlerSteps, RequestCheck, RequestAssign, WarehouseAssignmentTarget,
                  AssignWarehouse, CheckAssigned, GetShipment
    <3> QED  BY <3>1, <3>2, BackedMove
  <2> QED  BY <2>1, <2>2
<1>5. CASE ResolveMissingOMSPlatformOrder
  <2>1. row'.status # "verified" /\ UNCHANGED <<order, taken, held, pc, result>>
    BY <1>5 DEF ResolveMissingOMSPlatformOrder, StateTypes, Row
  <2> QED  BY <2>1, BackedFrame
<1>6. CASE Crash
  BY <1>6, BackedFrame DEF Crash, NoRow
<1>7. CASE LeaseExpires \/ GraceExpires
  BY <1>7, BackedFrame DEF LeaseExpires, GraceExpires
<1>8. CASE OrderMoves
  BY <1>8 DEF OrderMoves, Backed
<1> QED  BY <1>1, <1>2, <1>3, <1>4, <1>5, <1>6, <1>7, <1>8 DEF Next

\* Nothing is released for an order that XLWMS has not taken over in the warehouse
\* the label was bought for.
THEOREM ReleaseBacked == Spec => []ReleaseIsBacked
<1>1. Init => Backed
  BY DEF Init, Backed, Processed, NoRow, NoOrder
<1>2. Backed => ReleaseIsBacked  BY DEF Backed, ReleaseIsBacked
<1> QED  BY <1>1, <1>2, BackedStep, TypeCorrect, PTL DEF Spec

(***************************************************************************)
(* The release before the job completes.                                   *)
(***************************************************************************)

\* A shipment value that says verified or terminal says it of the row as it is.
Agrees(s) == s.status \in {"verified", "terminal"} => s.status = row.status

\* The worker is about to complete the job of an order it knows to be verified.
Reported == pc[Worker] = "done" /\ outcome[Worker] = "ok" /\ snap[Worker].status = "verified"

\* While no answer is late: a completed job has its verdict, and wherever a verified
\* order is completed or about to be, its reservation has been released.
Freed ==
    ~slow =>
      /\ job = "completed" => row.status \in {"verified", "terminal"}
      /\ job = "completed" /\ row.status = "verified" => ~held
      /\ \A a \in Actors : Agrees(snap[a])
      /\ Reported => ~held

\* What is read of a row agrees with it, and an empty value with any.
LEMMA ViewAgrees ==
    /\ Agrees(View(row)) /\ Agrees(NoRow)
    /\ NoRow.status = "none"
    /\ \A r : View(r).status \in {"verified", "terminal"} => View(r).status = r.status
BY DEF Agrees, View, NoRow

\* A step that leaves the row alone, completes no job and reports no verdict before
\* its release.
LEMMA FreedFrame ==
    ASSUME LocalTypes, Freed, UNCHANGED <<row, slow>>, held' = held \/ held' = FALSE,
           job' = "completed" => job = "completed",
           \A a \in Actors : snap'[a] \in {snap[a], View(row), NoRow},
           Reported' => Reported \/ ~held'
    PROVE  Freed'
<1>1. \A a \in Actors : (~slow => Agrees(snap[a])) => (~slow => Agrees(snap[a])')
  BY ViewAgrees DEF Agrees
<1> QED  BY <1>1 DEF Freed

\* A step that changes a row without a verdict: no value and no job speak of it yet.
LEMMA FreedRow ==
    ASSUME LocalTypes, Freed, row.status \notin {"verified", "terminal"}, slow' = slow,
           job' = job \/ row'.status = "terminal",
           \A a \in Actors : snap'[a] \in {snap[a], View(row'), NoRow},
           Reported' => Reported
    PROVE  Freed'
<1>1. ~slow => job # "completed" /\ ~Reported
  BY WorkerActor DEF Freed, Agrees, Reported
<1>2. ~slow => \A a \in Actors : Agrees(snap[a])'
  BY ViewAgrees DEF Freed, Agrees
<1> QED  BY <1>1, <1>2 DEF Freed

\* What a return of the check leaves behind.
LEMMA ReturnReports ==
    ASSUME LocalTypes, NEW a \in Actors, NEW s, NEW o, Return(a, s, o)
    PROVE  /\ \A b \in Actors : snap'[b] \in {snap[b], s, NoRow}
           /\ Reported' => Reported \/ (o = "ok" /\ s.status = "verified")
<1>1. \A b \in Actors : snap'[b] \in {snap[b], s, NoRow}
  BY DEF Return, LocalTypes
<1>2. CASE a = Worker
  BY <1>2 DEF Return, LocalTypes, Reported
<1>3. CASE a # Worker
  BY <1>3, WorkerActor DEF Return, Goto, LocalTypes, Reported
<1> QED  BY <1>1, <1>2, <1>3

\* A step of the check completes no job and reports a verdict only behind the release.
LEMMA FreedCheck ==
    ASSUME TypeOK, LeaseInv, Freed, NEW a \in Actors, CheckOMSSync(a)
    PROVE  Freed'
<1> USE DEF TypeOK
<1>1. CASE StartOMSSync(a)
  <2>1. UNCHANGED <<job, held, slow, snap, outcome>> /\ (Reported' => Reported)
    BY <1>1, WorkerActor DEF StartOMSSync, Goto, LocalTypes, Reported
  <2>2. row' = row \/ row.status \notin {"verified", "terminal"}
    BY <1>1 DEF StartOMSSync, Startable, Settled
  <2> QED  BY <2>1, <2>2, FreedFrame, FreedRow
<1>2. CASE GetOMSSync(a)
  <2>1. UNCHANGED <<row, job, held, slow>>
    BY <1>2 DEF GetOMSSync
  <2>2. CASE Goto(a, "reread") /\ UNCHANGED localVars
    <3>1. Reported' => Reported
      BY <2>2, WorkerActor DEF Goto, LocalTypes, Reported
    <3> QED  BY <2>1, <2>2, <3>1, FreedFrame
  <2>3. CASE Return(a, View(row), "manual")
    BY <2>1, <2>3, FreedFrame, ReturnReports
  <2>4. CASE row.status \in {"waiting_sync", "failed"} /\ Return(a, snap[a], "ok")
    <3>1. ~slow => snap[a].status # "verified"
      BY <2>4 DEF Freed, Agrees
    <3>2. \A b \in Actors : snap'[b] \in {snap[b], snap[a], NoRow}
      BY <2>4, ReturnReports
    <3>3. ~slow => ~Reported'
      BY <2>4, <3>1, ReturnReports, WorkerActor DEF Freed, Agrees, Reported
    <3>4. ~slow => \A b \in Actors : Agrees(snap[b])'
      BY <2>1, <3>2, ViewAgrees DEF Freed, Agrees
    <3> QED  BY <2>1, <3>3, <3>4 DEF Freed
  <2> QED  BY <1>2, <2>2, <2>3, <2>4 DEF GetOMSSync
<1>3. CASE QueryPlatformOrder(a)
  <2>1. UNCHANGED <<row, job, held, slow>> /\ \E l \in {"assign", "write"} : Goto(a, l)
    BY <1>3 DEF QueryPlatformOrder, QueryFails, QueryAnswers
  <2>2. \A b \in Actors : snap'[b] \in {snap[b], NoRow}
    BY <1>3 DEF QueryPlatformOrder, LocalTypes
  <2>3. Reported' => Reported
    <3>1. CASE a = Worker
      BY <2>1, <3>1 DEF Goto, LocalTypes, Reported
    <3>2. CASE a # Worker
      BY <1>3, <2>1, <3>2, WorkerActor DEF QueryPlatformOrder, QueryFails, QueryAnswers, Answer,
          Goto, LocalTypes, Reported
    <3> QED  BY <3>1, <3>2
  <2> QED  BY <2>1, <2>2, <2>3, FreedFrame
<1>4. CASE AssignPending(a)
  <2>1. UNCHANGED <<row, job, held, slow, snap>> /\ Goto(a, "write")
    BY <1>4 DEF AssignPending
  <2>2. Reported' => Reported
    <3>1. CASE a = Worker
      BY <2>1, <3>1 DEF Goto, LocalTypes, Reported
    <3>2. CASE a # Worker
      BY <1>4, <2>1, <3>2, WorkerActor DEF AssignPending, Answer, Goto, LocalTypes, Reported
    <3> QED  BY <3>1, <3>2
  <2> QED  BY <2>1, <2>2, FreedFrame
<1>5. CASE UpdateOMSSync(a)
  <2>1. UNCHANGED <<job, held, slow>>
    BY <1>5 DEF UpdateOMSSync
  <2>2. CASE row' = row /\ Return(a, snap[a], "error")
    <3>1. \A b \in Actors : snap'[b] \in {snap[b], snap[a], NoRow}
      BY <2>2, ReturnReports
    <3>2. Reported' => Reported
      BY <2>2, ReturnReports
    <3>3. ~slow => \A b \in Actors : Agrees(snap[b])'
      BY <2>2, <3>1, ViewAgrees DEF Freed, Agrees
    <3> QED  BY <2>1, <2>2, <3>2, <3>3 DEF Freed
  <2>3. CASE /\ row' = result[a]
             /\ (Goto(a, "reread") /\ UNCHANGED localVars)
                  \/ (outcome[a] # "ok" /\ Return(a, View(result[a]), outcome[a]))
    <3>1. ~slow => row.status = "querying"
      BY <1>5 DEF UpdateOMSSync, LeaseInv, Leased, Querying
    <3>2. (\A b \in Actors : snap'[b] \in {snap[b], View(row'), NoRow}) /\ (Reported' => Reported)
      <4>1. CASE Goto(a, "reread") /\ UNCHANGED localVars
        BY <4>1, WorkerActor DEF Goto, LocalTypes, Reported
      <4>2. CASE outcome[a] # "ok" /\ Return(a, View(result[a]), outcome[a])
        BY <2>3, <4>2, ReturnReports
      <4> QED  BY <2>3, <4>1, <4>2
    <3>3. CASE slow
      BY <2>1, <3>3 DEF Freed
    <3>4. CASE ~slow
      BY <2>1, <3>1, <3>2, <3>4, FreedRow
    <3> QED  BY <3>3, <3>4
  <2> QED  BY <1>5, <2>2, <2>3 DEF UpdateOMSSync, Record, RecordCancelled
<1>6. CASE Reread(a)
  <2>1. UNCHANGED <<row, job, held, slow>>
    BY <1>6 DEF Reread
  <2>2. CASE Goto(a, "release") /\ snap' = [snap EXCEPT ![a] = View(row)] /\ UNCHANGED outcome
    <3>1. \A b \in Actors : snap'[b] \in {snap[b], View(row), NoRow}
      BY <2>2 DEF LocalTypes
    <3>2. Reported' => Reported
      BY <2>2, WorkerActor DEF Goto, LocalTypes, Reported
    <3> QED  BY <2>1, <3>1, <3>2, FreedFrame
  <2>3. CASE row.status # "verified" /\ Return(a, View(row), "ok")
    BY <2>1, <2>3, ViewAgrees, ReturnReports, FreedFrame
  <2> QED  BY <1>6, <2>2, <2>3 DEF Reread
<1>7. CASE ReleaseVerified(a)
  <2>1. UNCHANGED <<row, job, slow>> /\ held' \in {held, FALSE}
    BY <1>7 DEF ReleaseVerified
  <2>2. \A b \in Actors : snap'[b] \in {snap[b], snap[a], NoRow}
    BY <1>7, ReturnReports DEF ReleaseVerified
  <2>3. Reported' => Reported \/ ~held'
    <3>1. CASE held' = FALSE
      BY <3>1
    <3>2. CASE Return(a, snap[a], "error")
      BY <3>2, ReturnReports
    <3> QED  BY <1>7, <3>1, <3>2 DEF ReleaseVerified
  <2>4. ~slow => \A b \in Actors : Agrees(snap[b])'
    BY <2>1, <2>2, ViewAgrees DEF Freed, Agrees
  <2> QED  BY <2>1, <2>3, <2>4 DEF Freed
<1> QED  BY <1>1, <1>2, <1>3, <1>4, <1>5, <1>6, <1>7 DEF CheckOMSSync

\* So is every other step: the worker completes a job with what it reported.
LEMMA FreedStep == TypeOK /\ LeaseInv /\ Freed /\ [Next]_vars => Freed'
<1> SUFFICES ASSUME TypeOK, LeaseInv, Freed, [Next]_vars PROVE Freed'
  OBVIOUS
<1> USE WorkerActor DEF TypeOK
<1>1. CASE UNCHANGED vars
  BY <1>1 DEF vars, Freed, Agrees, Reported
<1>2. CASE \E a \in Actors : CheckOMSSync(a)
  BY <1>2, FreedCheck
<1>3. CASE \E a \in Actors : /\ UNCHANGED <<row, held, slow>> /\ GetShipment(a)
                             /\ job' = "completed" => job = "completed"
  <2>1. PICK a \in Actors : UNCHANGED <<row, held, slow>> /\ GetShipment(a)
    BY <1>3
  <2>2. \A b \in Actors : snap'[b] \in {snap[b], View(row), NoRow}
    BY <2>1 DEF GetShipment, LocalTypes
  <2>3. Reported' => Reported
    BY <2>1 DEF GetShipment, Goto, LocalTypes, Reported
  <2> QED  BY <1>3, <2>1, <2>2, <2>3, FreedFrame
<1>4. CASE FinishWorker
  <2>1. UNCHANGED <<row, held, slow>> /\ \A b \in Actors : snap'[b] \in {snap[b], NoRow}
    BY <1>4 DEF FinishWorker, LocalTypes
  <2>2. ~Reported'
    BY <1>4 DEF FinishWorker, Goto, LocalTypes, Reported
  <2>3. CASE job' = "completed" => job = "completed"
    BY <2>1, <2>2, <2>3, FreedFrame
  <2>4. CASE job' = "completed" /\ job # "completed"
    <3>1. pc[Worker] = "done" /\ outcome[Worker] = "ok" /\ snap[Worker].status \in {"verified", "terminal"}
      BY <1>4, <2>4 DEF FinishWorker, UpdateAutoFulfillment
    <3>2. ~slow => snap[Worker].status = row.status
      BY <3>1 DEF Freed, Agrees
    <3>3. ~slow => (row.status = "verified" => ~held)
      BY <3>1, <3>2 DEF Freed, Reported
    <3>4. ~slow => \A b \in Actors : Agrees(snap[b])'
      BY <2>1, ViewAgrees DEF Freed, Agrees
    <3> QED  BY <2>1, <2>2, <3>1, <3>2, <3>3, <3>4 DEF Freed
  <2> QED  BY <2>3, <2>4
<1>5. CASE ResolveMissingOMSPlatformOrder
  <2>1. /\ row.status \in {"waiting_sync", "manual_required"} /\ row'.status = "terminal"
        /\ UNCHANGED <<slow, snap, pc, outcome>>
    BY <1>5 DEF ResolveMissingOMSPlatformOrder, Resolvable, StateTypes, Row
  <2> QED  BY <2>1, FreedRow DEF Reported
<1>6. CASE Crash
  <2>1. UNCHANGED <<row, job, held, slow>> /\ (\A b \in Actors : snap'[b] = NoRow) /\ ~Reported'
    BY <1>6 DEF Crash, Reported
  <2> QED  BY <2>1, FreedFrame
<1>7. CASE LeaseExpires \/ GraceExpires \/ OrderMoves
  <2>1. UNCHANGED <<job, held, slow, snap, pc, outcome>> /\ row' = row
    BY <1>7 DEF LeaseExpires, GraceExpires, OrderMoves
  <2> QED  BY <2>1, FreedFrame DEF Reported
<1>8. CASE \E a \in Actors : /\ UNCHANGED <<row, held, slow, job, snap, outcome>>
                             /\ \E l \in {"listed", "target", "submit", "check", "idle"} : Goto(a, l)
  BY <1>8, FreedFrame DEF Goto, LocalTypes, Reported
<1>9. CASE AutoFulfillment \/ BackgroundQuery
  BY <1>2, <1>3, <1>4, <1>8, <1>9 DEF AutoFulfillment, BackgroundQuery, ClaimAutoFulfillment,
      PendingOMSSyncShipmentIDs, QueryPendingOMSSync
<1>10. CASE \E h \in Handlers : HandlerSteps(h)
  BY <1>2, <1>3, <1>8, <1>10 DEF HandlerSteps, RequestCheck, RequestAssign, WarehouseAssignmentTarget,
      AssignWarehouse, CheckAssigned
<1> QED  BY <1>1, <1>5, <1>6, <1>7, <1>9, <1>10 DEF Next

\* A completed job of a verified order has released its reservation, whichever of the
\* actors verified it, failed or died, as long as no answer outlives its lease.
THEOREM CompletedJobsAreReleased == Spec => []CompletedJobReleased
<1>1. Init => Freed
  BY WorkerActor, ViewAgrees DEF Init, Freed, Agrees, Reported
<1>2. Freed => CompletedJobReleased  BY DEF Freed, CompletedJobReleased
<1> QED  BY <1>1, <1>2, FreedStep, TypeCorrect, LeaseCorrect, PTL DEF Spec

(***************************************************************************)
(* The promise.                                                            *)
(***************************************************************************)

\* A step of the promise, or none.
Promised == Promise!Next \/ UNCHANGED <<Verdict, held, slow>>

\* A step that changes neither row nor reservation is none.
LEMMA PromisedFrame ==
    ASSUME UNCHANGED <<row, held, slow>>
    PROVE  Promised
BY DEF Promised, Verdict

\* A step of the check keeps the promise.
LEMMA PromisedCheck ==
    ASSUME TypeOK, LeaseInv, NEW a \in Actors, CheckOMSSync(a)
    PROVE  Promised
<1> USE DEF TypeOK
<1>1. CASE StartOMSSync(a)
  <2>1. UNCHANGED <<held, slow>> /\ (row' = row \/ (row.status \notin Settled /\ row'.status = "querying"))
    BY <1>1 DEF StartOMSSync, Startable, StateTypes, Row
  <2> QED  BY <2>1 DEF Promised, Verdict, Settled
<1>2. CASE GetOMSSync(a) \/ QueryPlatformOrder(a) \/ AssignPending(a) \/ Reread(a)
  BY <1>2, PromisedFrame DEF GetOMSSync, QueryPlatformOrder, AssignPending, Reread
<1>3. CASE UpdateOMSSync(a)
  <2>1. CASE row' = row
    BY <1>3, <2>1, PromisedFrame DEF UpdateOMSSync
  <2>2. CASE row' # row
    <3>1. row.status # "terminal" /\ row' = result[a] /\ UNCHANGED <<held, slow>>
      BY <1>3, <2>2 DEF UpdateOMSSync, Record, RecordCancelled, Spared
    <3>2. result[a] \in Row /\ result[a].status # "terminal"
      BY DEF LocalTypes, LeaseInv, Answered
    <3>3. Verdict # "terminal" /\ Verdict' \in {"open", "verified", "manual_required"}
      BY <3>1, <3>2 DEF Verdict, Settled, Row
    <3>4. CASE slow
      <4>1. Promise!LateAnswer
        BY <3>1, <3>3, <3>4 DEF Promise!LateAnswer, Promise!Verdicts
      <4> QED  BY <4>1 DEF Promised, Promise!Next
    <3>5. CASE ~slow
      <4>1. row.status = "querying"
        BY <1>3, <3>5 DEF UpdateOMSSync, LeaseInv, Leased, Querying
      <4>2. Verdict = "open"
        BY <4>1 DEF Verdict, Settled
      <4>3. CASE Verdict' = "open"
        BY <3>1, <4>2, <4>3 DEF Promised
      <4>4. CASE Verdict' # "open"
        <5>1. Promise!Judge
          BY <3>1, <3>3, <4>2, <4>4 DEF Promise!Judge
        <5> QED  BY <5>1 DEF Promised, Promise!Next
      <4> QED  BY <4>3, <4>4
    <3> QED  BY <3>4, <3>5 DEF StateTypes
  <2> QED  BY <2>1, <2>2
<1>4. CASE ReleaseVerified(a)
  <2>1. UNCHANGED <<row, slow>> /\ held' \in {held, FALSE} /\ pc[a] = "release"
    BY <1>4 DEF ReleaseVerified
  <2>2. CASE held' = held
    BY <2>1, <2>2, PromisedFrame
  <2>3. CASE held' = FALSE
    <3>1. slow \/ Verdict = "verified"
      BY <2>1 DEF LeaseInv, Leased, Verdict, Settled
    <3>2. UNCHANGED <<Verdict, slow>>
      BY <2>1 DEF Verdict
    <3>3. Promise!Release
      BY <2>3, <3>1, <3>2 DEF Promise!Release
    <3> QED  BY <3>3 DEF Promised, Promise!Next
  <2> QED  BY <2>1, <2>2, <2>3
<1> QED  BY <1>1, <1>2, <1>3, <1>4 DEF CheckOMSSync

LEMMA PromisedStep == TypeOK /\ LeaseInv /\ [Next]_vars => Promised
<1> SUFFICES ASSUME TypeOK, LeaseInv, [Next]_vars PROVE Promised
  OBVIOUS
<1>1. CASE UNCHANGED vars
  BY <1>1, PromisedFrame DEF vars
<1>2. CASE \E a \in Actors : CheckOMSSync(a)
  BY <1>2, PromisedCheck
<1>3. CASE AutoFulfillment \/ BackgroundQuery
  BY <1>2, <1>3, WorkerActor, PromisedFrame DEF AutoFulfillment, BackgroundQuery, ClaimAutoFulfillment,
      FinishWorker, PendingOMSSyncShipmentIDs, QueryPendingOMSSync
<1>4. CASE \E h \in Handlers : HandlerSteps(h)
  BY <1>2, <1>4, WorkerActor, PromisedFrame DEF HandlerSteps, RequestCheck, RequestAssign,
      WarehouseAssignmentTarget, AssignWarehouse, CheckAssigned
<1>5. CASE ResolveMissingOMSPlatformOrder
  <2>1. /\ row.status \in {"waiting_sync", "manual_required"} /\ row'.status = "terminal"
        /\ UNCHANGED <<held, slow>>
    BY <1>5 DEF ResolveMissingOMSPlatformOrder, Resolvable, TypeOK, StateTypes, Row
  <2>2. Promise!Resolve
    BY <2>1 DEF Promise!Resolve, Verdict, Settled
  <2> QED  BY <2>2 DEF Promised, Promise!Next
<1>6. CASE Crash \/ LeaseExpires \/ GraceExpires \/ OrderMoves
  BY <1>6, PromisedFrame DEF Crash, LeaseExpires, GraceExpires, OrderMoves
<1> QED  BY <1>1, <1>3, <1>4, <1>5, <1>6 DEF Next

\* The lease, the actors and the row implement what OMSOutcome promises: one verdict
\* that only a late answer takes back, and a release only behind a verified one.
THEOREM PromiseIsKept == Spec => PromiseKept
<1>1. Init => Promise!Init
  BY DEF Init, Promise!Init, Verdict, Settled, NoRow
<1>2. TypeOK /\ LeaseInv /\ [Next]_vars => [Promise!Next]_(Promise!outcomeVars)
  BY PromisedStep DEF Promised, Promise!outcomeVars
<1> QED  BY <1>1, <1>2, TypeCorrect, LeaseCorrect, PTL DEF Spec, PromiseKept, Promise!Spec
============================================================================
