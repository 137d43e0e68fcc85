------------------------ MODULE ShipmentLedgerProofs ------------------------

(***************************************************************************)
(* What holds of ShipmentLedger for every set of handlers, packages and    *)
(* carriers, every fault and every bound.                                  *)
(***************************************************************************)
EXTENDS ShipmentLedger, TLAPS

USE DEF ledgerVars, orderVars, omsVars, heldVars, temuVars, cycleVars, boundVars, localVars

(***************************************************************************)
(* The operators on rows stay within the types.                            *)
(***************************************************************************)

\* The upsert of the completion job yields a job, whatever status it follows.
LEMMA EnsureJobType ==
    ASSUME NEW j \in Job, NEW st
    PROVE  EnsureJob(j, st) \in Job
BY DEF EnsureJob, CompletionJobStatus, Job, JobStatus

\* UpdateAutoFulfillment yields a job for every status the code gives it.
LEMMA UpdateJobType ==
    ASSUME NEW j \in Job, NEW link \in BOOLEAN, NEW st \in JobStatus, NEW t \in BOOLEAN
    PROVE  UpdateJob(j, link, st, t) \in Job
BY DEF UpdateJob, Job

\* A recorded submission is a shipment row.
LEMMA SubmissionType ==
    ASSUME NEW s \in Shipment, NEW st \in ShipmentStatus, NEW p \in SUBSET Packages,
           NEW e \in {"none", "missing", "address", "other"}
    PROVE  Submission(s, st, p, e) \in Shipment
BY DEF Submission, Shipment

\* A prepared attempt is a shipment row, whichever carrier was quoted.
LEMMA ResubmitType ==
    ASSUME NEW s \in Shipment, NEW c \in Carriers \cup {NoCarrier}
    PROVE  Resubmit(s, c) \in Shipment
BY DEF Resubmit, Shipment, ShipmentStatus

\* The row that is not there has the type of a row too.
LEMMA NoShipmentType == NoShipment \in Shipment
BY BoundsAssumption DEF NoShipment, Shipment

\* An actor that moves to a label keeps the local state typed.
LEMMA GotoType ==
    ASSUME LocalTypes, op' \in [Actors -> Ops], choice' \in [Actors -> Carriers \cup {NoCarrier}],
           NEW a \in Actors, NEW l \in PC, Goto(a, l)
    PROVE  LocalTypes'
BY DEF LocalTypes, Goto, Move, Replies

\* An operation that returns keeps the local state typed.
LEMMA ReturnType ==
    ASSUME LocalTypes, op' \in [Actors -> Ops], choice' \in [Actors -> Carriers \cup {NoCarrier}],
           NEW a \in Actors, NEW s \in Shipment, NEW r \in Replies, Return(a, s, r)
    PROVE  LocalTypes'
BY DEF LocalTypes, Return, Move, PC

\* So does a step to any label with any snapshot and answer of its type.
LEMMA MovedType ==
    ASSUME LocalTypes, op' \in [Actors -> Ops], choice' \in [Actors -> Carriers \cup {NoCarrier}],
           NEW a \in Actors, NEW l \in PC, NEW s \in Shipment, NEW r \in Replies,
           NEW f \in SUBSET Packages, Move(a, l, s, r, f)
    PROVE  LocalTypes'
BY DEF LocalTypes, Move, PC

\* A failing remote call fails temporarily or for good, in no other way.
LEMMA CallErrorsType == \A c \in Calls : CallErrors(c) \subseteq {"temporary", "permanent"}
BY DEF CallErrors

\* What an actor holds, one conjunct per variable.
LEMMA LocalFacts ==
    ASSUME LocalTypes, NEW a \in Actors
    PROVE  /\ snap[a] \in Shipment /\ reply[a] \in Replies /\ found[a] \in SUBSET Packages
           /\ choice[a] \in Carriers \cup {NoCarrier}
           /\ op \in [Actors -> Ops] /\ choice \in [Actors -> Carriers \cup {NoCarrier}]
BY DEF LocalTypes

\* UpdateShipmentSubmission writes rows of their types.
LEMMA WriteSubmissionType ==
    ASSUME RowTypes, NEW st \in ShipmentStatus, NEW p \in SUBSET Packages,
           NEW e \in {"none", "missing", "address", "other"},
           UpdateShipmentSubmission(st, p, e)
    PROVE  ship' \in Shipment /\ job' \in Job
BY SubmissionType, EnsureJobType DEF UpdateShipmentSubmission, RowTypes

\* UpdateShipmentResult writes rows of their types.
LEMMA WriteResultType ==
    ASSUME RowTypes, NEW st \in ShipmentStatus, NEW t \in BOOLEAN,
           NEW e \in {"none", "missing", "address", "other"},
           UpdateShipmentResult(st, t, e)
    PROVE  ship' \in Shipment /\ job' \in Job
<1>1. ship' \in Shipment  BY DEF UpdateShipmentResult, RowTypes, Shipment
<1>2. job' \in Job        BY EnsureJobType DEF UpdateShipmentResult, RowTypes
<1> QED  BY <1>1, <1>2

\* MarkShipmentConfirmed writes rows of their types.
LEMMA MarkConfirmedType ==
    ASSUME RowTypes, MarkShipmentConfirmed
    PROVE  ship' \in Shipment /\ job' \in Job
<1>1. ship' \in Shipment  BY DEF MarkShipmentConfirmed, RowTypes, Shipment, ShipmentStatus
<1>2. job' \in Job        BY EnsureJobType DEF MarkShipmentConfirmed, RowTypes
<1> QED  BY <1>1, <1>2

\* Counting a confirmation attempt stops at its limit.
LEMMA CountType ==
    ASSUME NEW s \in Shipment
    PROVE  CountConfirmation(s) \in Shipment
BY BoundsAssumption DEF CountConfirmation, Shipment

\* Adding a failed carrier keeps the row typed.
LEMMA FailedType ==
    ASSUME NEW s \in Shipment, NEW c \in Carriers \cup {NoCarrier}
    PROVE  [s EXCEPT !.failed = @ \cup {c}] \in Shipment
BY DEF Shipment

\* The carrier of a row is a carrier or none.
LEMMA CarrierType == \A s \in Shipment : s.carrier \in Carriers \cup {NoCarrier}
BY DEF Shipment

\* A prepared recovery is a shipment row.
LEMMA RecoveredType ==
    ASSUME NEW s \in Shipment, NEW t \in Shipment, NEW c \in Carriers \cup {NoCarrier}
    PROVE  [Resubmit(s, c) EXCEPT !.failed = @ \cup {t.carrier}] \in Shipment
BY ResubmitType, FailedType, CarrierType

\* Order detail names packages of the order only.
LEMMA DetailsType == RemoteTypes => Details \subseteq SUBSET Packages
BY DEF Details, RemoteTypes

\* The row RecordSubmission writes, with or without a failed carrier.
LEMMA RecordedType ==
    ASSUME NEW s \in Shipment, NEW t \in Shipment, NEW p \in SUBSET Packages, NEW r, NEW b
    PROVE  [Submission(s, SubmissionStatus(r, p), p, SubmissionError(r))
               EXCEPT !.failed = IF b THEN @ \cup {t.carrier} ELSE @] \in Shipment
<1>1. Submission(s, SubmissionStatus(r, p), p, SubmissionError(r)) \in Shipment
  BY SubmissionType DEF SubmissionStatus, SubmissionError, ShipmentStatus
<1> QED  BY <1>1, CarrierType, FailedType DEF Shipment

\* A call of order detail changes what its actor holds and nothing else.
LEMMA OrderDetailType ==
    ASSUME LocalTypes, RemoteTypes, NEW a \in Actors, NEW s \in Shipment,
           NEW l \in PC, NEW k \in PC, OrderDetail(a, s, l, k)
    PROVE  LocalTypes' /\ UNCHANGED <<ledgerVars, omsVars, orderVars, heldVars, temuVars, cycleVars, boundVars>>
<1>0. UNCHANGED <<ledgerVars, omsVars, orderVars, heldVars, temuVars, localVars, cycleVars, boundVars>>
  BY DEF OrderDetail
<1>1. CASE \E e \in CallErrors("detail") : Return(a, s, e)
  BY <1>0, <1>1, ReturnType, CallErrorsType, LocalFacts DEF Calls, Replies
<1>2. CASE \E d \in Details : Move(a, IF d = {} THEN k ELSE l, snap[a], "none", d)
  BY <1>0, <1>2, DetailsType, MovedType, LocalFacts DEF Replies
<1> QED  BY <1>0, <1>1, <1>2 DEF OrderDetail

\* The steps of Purchase and submitReservedShipment.
LEMMA PurchaseType ==
    ASSUME TypeOK, NEW a \in Actors,
           \/ CheckPurchase(a) \/ ReserveInventory(a) \/ ReserveShipment(a) \/ Recheck(a)
           \/ AdoptRecheck(a) \/ PrepareShipmentRetry(a) \/ CreateShipment(a)
           \/ FindExisting(a) \/ AdoptExisting(a) \/ RecordSubmission(a)
    PROVE  TypeOK'
<1>1. CASE CheckPurchase(a)
  <2>1. RowTypes' /\ RemoteTypes' /\ CounterTypes'
    BY <1>1 DEF CheckPurchase, TypeOK, RowTypes, RemoteTypes, CounterTypes
  <2>2. LocalTypes'
    BY <1>1, GotoType, ReturnType, NoShipmentType, CallErrorsType, LocalFacts
    DEF CheckPurchase, TypeOK, RowTypes, PC, Replies, Calls
  <2> QED  BY <2>1, <2>2 DEF TypeOK
<1>2. CASE ReserveInventory(a)
  <2>1. RowTypes' /\ RemoteTypes' /\ CounterTypes'
    BY <1>2 DEF ReserveInventory, TypeOK, RowTypes, RemoteTypes, CounterTypes
  <2>2. LocalTypes'
    BY <1>2, GotoType, ReturnType, NoShipmentType, CallErrorsType, LocalFacts
    DEF ReserveInventory, TypeOK, PC, Replies, Calls
  <2> QED  BY <2>1, <2>2 DEF TypeOK
<1>3. CASE ReserveShipment(a)
  <2>1. RowTypes' /\ RemoteTypes' /\ CounterTypes'
    BY <1>3, NoShipmentType, ResubmitType, EnsureJobType, LocalFacts
    DEF ReserveShipment, TypeOK, RowTypes, RemoteTypes, CounterTypes
  <2>2. LocalTypes'
    BY <1>3, MovedType, ReturnType, NoShipmentType, ResubmitType, LocalFacts
    DEF ReserveShipment, TypeOK, RowTypes, PC, Replies
  <2> QED  BY <2>1, <2>2 DEF TypeOK
<1>4. CASE Recheck(a)
  <2>1. RowTypes' /\ RemoteTypes' /\ CounterTypes'
    BY <1>4 DEF Recheck, OrderDetail, TypeOK, RowTypes, RemoteTypes, CounterTypes
  <2>2. LocalTypes'
    BY <1>4, OrderDetailType, NoShipmentType, LocalFacts
    DEF Recheck, TypeOK, PC
  <2> QED  BY <2>1, <2>2 DEF TypeOK
<1>5. CASE AdoptRecheck(a)
  <2>1. RowTypes' /\ RemoteTypes' /\ CounterTypes'
    BY <1>5, WriteSubmissionType, LocalFacts
    DEF AdoptRecheck, ShipmentStatus, TypeOK, RowTypes, RemoteTypes, CounterTypes
  <2>2. LocalTypes'
    BY <1>5, <2>1, ReturnType, LocalFacts
    DEF AdoptRecheck, TypeOK, RowTypes, Replies
  <2> QED  BY <2>1, <2>2 DEF TypeOK
<1>6. CASE PrepareShipmentRetry(a)
  <2>1. RowTypes' /\ RemoteTypes' /\ CounterTypes'
    BY <1>6, ResubmitType, EnsureJobType, LocalFacts
    DEF PrepareShipmentRetry, TypeOK, RowTypes, RemoteTypes, CounterTypes
  <2>2. LocalTypes'
    BY <1>6, <2>1, MovedType, ReturnType, NoShipmentType, LocalFacts
    DEF PrepareShipmentRetry, TypeOK, RowTypes, PC, Replies
  <2> QED  BY <2>1, <2>2 DEF TypeOK
<1>7. CASE CreateShipment(a)
  <2>1. \/ \E p \in Packages : TemuCreates(p, "pending") \/ TemuCreates(p, "address")
        \/ UNCHANGED <<labels, print>>
    BY <1>7 DEF CreateShipment
  <2>2. labels' \in SUBSET Packages /\ print' \in {"pending", "ready", "untracked", "failed", "address"}
    BY <2>1 DEF TemuCreates, TypeOK, RemoteTypes
  <2>3. late' \in Nat
    BY <1>7 DEF CreateShipment, TypeOK, RemoteTypes
  <2>4. RowTypes' /\ RemoteTypes' /\ CounterTypes'
    BY <1>7, <2>2, <2>3 DEF CreateShipment, TypeOK, RowTypes, RemoteTypes, CounterTypes
  <2>5. \E l \in {"record", "existing"}, r \in {"created", "temporary", "address", "permanent", "none"},
           f \in SUBSET Packages : Move(a, l, snap[a], r, f)
    BY <1>7 DEF CreateShipment
  <2>6. LocalTypes'
    BY <1>7, <2>5, MovedType, LocalFacts DEF CreateShipment, TypeOK, PC, Replies
  <2> QED  BY <2>4, <2>6 DEF TypeOK
<1>8. CASE FindExisting(a)
  <2>1. RowTypes' /\ RemoteTypes' /\ CounterTypes'
    BY <1>8 DEF FindExisting, TypeOK, RowTypes, RemoteTypes, CounterTypes
  <2>2. LocalTypes'
    BY <1>8, <2>1, MovedType, DetailsType, CallErrorsType, LocalFacts
    DEF FindExisting, TypeOK, PC, Replies, Calls
  <2> QED  BY <2>1, <2>2 DEF TypeOK
<1>9. CASE AdoptExisting(a)
  <2>1. RowTypes' /\ RemoteTypes' /\ CounterTypes'
    BY <1>9, WriteSubmissionType, LocalFacts
    DEF AdoptExisting, ShipmentStatus, TypeOK, RowTypes, RemoteTypes, CounterTypes
  <2>2. LocalTypes'
    BY <1>9, GotoType, LocalFacts
    DEF AdoptExisting, TypeOK, PC
  <2> QED  BY <2>1, <2>2 DEF TypeOK
<1>10. CASE RecordSubmission(a)
  <2>1. RowTypes' /\ RemoteTypes' /\ CounterTypes'
    BY <1>10, RecordedType, EnsureJobType, LocalFacts
    DEF RecordSubmission, TypeOK, RowTypes, RemoteTypes, CounterTypes
  <2>2. \E r \in {"ok", "temporary", "permanent"} : Return(a, ship', r)
    BY <1>10 DEF RecordSubmission
  <2>3. LocalTypes'
    BY <1>10, <2>1, <2>2, ReturnType, LocalFacts DEF RecordSubmission, TypeOK, RowTypes, Replies
  <2> QED  BY <2>1, <2>3 DEF TypeOK
<1> QED  BY <1>1, <1>2, <1>3, <1>4, <1>5, <1>6, <1>7, <1>8, <1>9, <1>10

\* The steps of RefreshShipment.
LEMMA RefreshType ==
    ASSUME TypeOK, NEW a \in Actors,
           \/ BeginRefresh(a) \/ LookUpPackages(a) \/ RecordMissing(a) \/ AdoptRefresh(a)
           \/ QueryResult(a) \/ RecordResult(a) \/ AnnotateResult(a) \/ Settle(a)
    PROVE  TypeOK'
<1>1. CASE BeginRefresh(a)
  <2>1. RowTypes' /\ RemoteTypes' /\ CounterTypes'
    BY <1>1, UpdateJobType DEF BeginRefresh, JobStatus, TypeOK, RowTypes, RemoteTypes, CounterTypes
  <2>2. Return(a, ship, "ok") \/ \E l \in {"detail", "result"} : Move(a, l, ship, "none", {})
    BY <1>1 DEF BeginRefresh
  <2>3. LocalTypes'
    BY <1>1, <2>2, MovedType, ReturnType, LocalFacts DEF BeginRefresh, TypeOK, RowTypes, PC, Replies
  <2> QED  BY <2>1, <2>3 DEF TypeOK
<1>2. CASE LookUpPackages(a)
  <2>1. RowTypes' /\ RemoteTypes' /\ CounterTypes'
    BY <1>2 DEF LookUpPackages, OrderDetail, TypeOK, RowTypes, RemoteTypes, CounterTypes
  <2>2. LocalTypes'
    BY <1>2, OrderDetailType, LocalFacts
    DEF LookUpPackages, TypeOK, PC
  <2> QED  BY <2>1, <2>2 DEF TypeOK
<1>3. CASE RecordMissing(a)
  <2>1. RowTypes' /\ RemoteTypes' /\ CounterTypes'
    BY <1>3, WriteSubmissionType, LocalFacts
    DEF RecordMissing, ShipmentStatus, TypeOK, RowTypes, RemoteTypes, CounterTypes
  <2>2. LocalTypes'
    BY <1>3, <2>1, ReturnType, LocalFacts
    DEF RecordMissing, TypeOK, RowTypes, Replies
  <2> QED  BY <2>1, <2>2 DEF TypeOK
<1>4. CASE AdoptRefresh(a)
  <2>1. RowTypes' /\ RemoteTypes' /\ CounterTypes'
    BY <1>4, WriteSubmissionType, LocalFacts
    DEF AdoptRefresh, ShipmentStatus, TypeOK, RowTypes, RemoteTypes, CounterTypes
  <2>2. LocalTypes'
    BY <1>4, <2>1, MovedType, LocalFacts
    DEF AdoptRefresh, TypeOK, RowTypes, PC, Replies
  <2> QED  BY <2>1, <2>2 DEF TypeOK
<1>5. CASE QueryResult(a)
  <2>1. RowTypes' /\ RemoteTypes' /\ CounterTypes'
    BY <1>5 DEF QueryResult, TypeOK, RowTypes, RemoteTypes, CounterTypes
  <2>2. LocalTypes'
    BY <1>5, MovedType, ReturnType, CallErrorsType, LocalFacts
    DEF QueryResult, TypeOK, RemoteTypes, PC, Replies, Calls
  <2> QED  BY <2>1, <2>2 DEF TypeOK
<1>6. CASE RecordResult(a)
  <2>1. RowTypes' /\ RemoteTypes' /\ CounterTypes'
    BY <1>6, WriteResultType, LocalFacts
    DEF RecordResult, ResultStatus, ResultError, ShipmentStatus, TypeOK, RowTypes, RemoteTypes, CounterTypes
  <2>2. LocalTypes'
    BY <1>6, MovedType, LocalFacts DEF RecordResult, TypeOK, PC
  <2> QED  BY <2>1, <2>2 DEF TypeOK
<1>7. CASE AnnotateResult(a)
  <2>1. PICK c \in Carriers : ship' = [ship EXCEPT !.carrier = c,
                                  !.failed = IF reply[a] = "address" THEN @ \cup {c} ELSE @]
    BY <1>7 DEF AnnotateResult
  <2>2. ship' \in Shipment
    BY <2>1 DEF TypeOK, RowTypes, Shipment
  <2>3. manual' \in BOOLEAN
    BY <1>7, Zenon DEF AnnotateResult, TypeOK, RemoteTypes
  <2>4. RowTypes' /\ RemoteTypes' /\ CounterTypes'
    BY <1>7, <2>2, <2>3 DEF AnnotateResult, TypeOK, RowTypes, RemoteTypes, CounterTypes
  <2>5. LocalTypes'
    BY <1>7, GotoType, LocalFacts DEF AnnotateResult, TypeOK, PC
  <2> QED  BY <2>4, <2>5 DEF TypeOK
<1>8. CASE Settle(a)
  <2>1. RowTypes' /\ RemoteTypes' /\ CounterTypes'
    BY <1>8, UpdateJobType DEF Settle, JobStatus, TypeOK, RowTypes, RemoteTypes, CounterTypes
  <2>2. LocalTypes'
    BY <1>8, ReturnType, LocalFacts
    DEF Settle, TypeOK, RowTypes, Replies
  <2> QED  BY <2>1, <2>2 DEF TypeOK
<1> QED  BY <1>1, <1>2, <1>3, <1>4, <1>5, <1>6, <1>7, <1>8

\* The steps of ConfirmShipped and CheckOMSSync.
LEMMA ConfirmType ==
    ASSUME TypeOK, NEW a \in Actors,
           \/ BeginConfirm(a) \/ RecordShipmentConfirmationAttempt(a) \/ CallConfirm(a)
           \/ RecordConfirm(a) \/ BeginCheckOMS(a) \/ UpdateOMSSync(a)
           \/ ReleaseVerified(a)
    PROVE  TypeOK'
<1>1. CASE BeginConfirm(a)
  <2>1. RowTypes' /\ RemoteTypes' /\ CounterTypes'
    BY <1>1, UpdateJobType DEF BeginConfirm, JobStatus, TypeOK, RowTypes, RemoteTypes, CounterTypes
  <2>2. \/ \E r \in {"ok", "permanent"} : Return(a, ship, r)
        \/ Move(a, "attempt", ship, "none", {})
    BY <1>1 DEF BeginConfirm
  <2>3. LocalTypes'
    BY <1>1, <2>2, MovedType, ReturnType, LocalFacts DEF BeginConfirm, TypeOK, RowTypes, PC, Replies
  <2> QED  BY <2>1, <2>3 DEF TypeOK
<1>2. CASE RecordShipmentConfirmationAttempt(a)
  <2>1. RowTypes' /\ RemoteTypes' /\ CounterTypes'
    BY <1>2, CountType
    DEF RecordShipmentConfirmationAttempt, TypeOK, RowTypes, RemoteTypes, CounterTypes
  <2>2. LocalTypes'
    BY <1>2, GotoType, ReturnType, LocalFacts
    DEF RecordShipmentConfirmationAttempt, TypeOK, PC, Replies
  <2> QED  BY <2>1, <2>2 DEF TypeOK
<1>3. CASE CallConfirm(a)
  <2>1. RowTypes' /\ RemoteTypes' /\ CounterTypes'
    BY <1>3 DEF CallConfirm, TypeOK, RowTypes, RemoteTypes, CounterTypes
  <2>2. LocalTypes'
    BY <1>3, MovedType, LocalFacts
    DEF CallConfirm, TypeOK, PC, Replies
  <2> QED  BY <2>1, <2>2 DEF TypeOK
<1>4. CASE RecordConfirm(a)
  <2>1. RowTypes' /\ RemoteTypes' /\ CounterTypes'
    BY <1>4, WriteResultType, MarkConfirmedType, LocalFacts
    DEF RecordConfirm, Shipment, ShipmentStatus, TypeOK, RowTypes, RemoteTypes, CounterTypes
  <2>2. Goto(a, "settle") \/ Return(a, ship', "ok") \/ Return(a, ship', reply[a])
    BY <1>4 DEF RecordConfirm
  <2>3. "settle" \in PC /\ "ok" \in Replies
    BY DEF PC, Replies
  <2>4. LocalTypes'
    BY <1>4, <2>1, <2>2, <2>3, GotoType, ReturnType, LocalFacts DEF RecordConfirm, TypeOK, RowTypes
  <2> QED  BY <2>1, <2>4 DEF TypeOK
<1>5. CASE BeginCheckOMS(a)
  <2>1. RowTypes' /\ RemoteTypes' /\ CounterTypes'
    BY <1>5 DEF BeginCheckOMS, OMSStatus, TypeOK, RowTypes, RemoteTypes, CounterTypes
  <2>2. LocalTypes'
    BY <1>5, MovedType, ReturnType, LocalFacts
    DEF BeginCheckOMS, TypeOK, RowTypes, PC, Replies
  <2> QED  BY <2>1, <2>2 DEF TypeOK
<1>6. CASE UpdateOMSSync(a)
  <2>1. RowTypes' /\ RemoteTypes' /\ CounterTypes'
    BY <1>6 DEF UpdateOMSSync, OMSStatus, OMSAnswers, TypeOK, RowTypes, RemoteTypes, CounterTypes
  <2>2. LocalTypes'
    BY <1>6, GotoType, ReturnType, LocalFacts
    DEF UpdateOMSSync, TypeOK, PC, Replies, OMSAnswers
  <2> QED  BY <2>1, <2>2 DEF TypeOK
<1>7. CASE ReleaseVerified(a)
  <2>1. RowTypes' /\ RemoteTypes' /\ CounterTypes'
    BY <1>7 DEF ReleaseVerified, TypeOK, RowTypes, RemoteTypes, CounterTypes
  <2>2. LocalTypes'
    BY <1>7, ReturnType, CallErrorsType, LocalFacts
    DEF ReleaseVerified, TypeOK, Replies, Calls
  <2> QED  BY <2>1, <2>2 DEF TypeOK
<1> QED  BY <1>1, <1>2, <1>3, <1>4, <1>5, <1>6, <1>7

\* The steps of RecoverFailedShipment.
LEMMA RecoverType ==
    ASSUME TypeOK, NEW a \in Actors,
           \/ BeginRecover(a) \/ RecoverDetail(a) \/ AdoptRecover(a)
           \/ CheckRecoveryQuote(a) \/ PrepareFailedShipmentRecovery(a)
    PROVE  TypeOK'
<1>1. CASE BeginRecover(a)
  <2>1. RowTypes' /\ RemoteTypes' /\ CounterTypes'
    BY <1>1 DEF BeginRecover, TypeOK, RowTypes, RemoteTypes, CounterTypes
  <2>2. LocalTypes'
    BY <1>1, MovedType, ReturnType, NoShipmentType, LocalFacts
    DEF BeginRecover, TypeOK, RowTypes, PC, Replies
  <2> QED  BY <2>1, <2>2 DEF TypeOK
<1>2. CASE RecoverDetail(a)
  <2>1. RowTypes' /\ RemoteTypes' /\ CounterTypes'
    BY <1>2 DEF RecoverDetail, OrderDetail, TypeOK, RowTypes, RemoteTypes, CounterTypes
  <2>2. LocalTypes'
    BY <1>2, OrderDetailType, NoShipmentType, LocalFacts
    DEF RecoverDetail, TypeOK, PC
  <2> QED  BY <2>1, <2>2 DEF TypeOK
<1>3. CASE AdoptRecover(a)
  <2>1. RowTypes' /\ RemoteTypes' /\ CounterTypes'
    BY <1>3, WriteSubmissionType, LocalFacts
    DEF AdoptRecover, ShipmentStatus, TypeOK, RowTypes, RemoteTypes, CounterTypes
  <2>2. LocalTypes'
    BY <1>3, ReturnType, NoShipmentType, LocalFacts
    DEF AdoptRecover, TypeOK, Replies
  <2> QED  BY <2>1, <2>2 DEF TypeOK
<1>4. CASE CheckRecoveryQuote(a)
  <2>1. RowTypes' /\ RemoteTypes' /\ CounterTypes'
    BY <1>4 DEF CheckRecoveryQuote, TypeOK, RowTypes, RemoteTypes, CounterTypes
  <2>2. LocalTypes'
    BY <1>4, GotoType, ReturnType, NoShipmentType, CallErrorsType, LocalFacts
    DEF CheckRecoveryQuote, TypeOK, PC, Replies, Calls
  <2> QED  BY <2>1, <2>2 DEF TypeOK
<1>5. CASE PrepareFailedShipmentRecovery(a)
  <2>1. RowTypes' /\ RemoteTypes' /\ CounterTypes'
    BY <1>5, RecoveredType, EnsureJobType, LocalFacts
    DEF PrepareFailedShipmentRecovery, TypeOK, RowTypes, RemoteTypes, CounterTypes
  <2>2. LocalTypes'
    BY <1>5, <2>1, MovedType, ReturnType, NoShipmentType, LocalFacts
    DEF PrepareFailedShipmentRecovery, TypeOK, RowTypes, PC, Replies
  <2> QED  BY <2>1, <2>2 DEF TypeOK
<1> QED  BY <1>1, <1>2, <1>3, <1>4, <1>5

(***************************************************************************)
(* The same for requests, the environment and the worker's own steps.      *)
(***************************************************************************)

\* An actor that goes to rest keeps the local state typed.
LEMMA RestType ==
    ASSUME LocalTypes, NEW a \in Actors, Rest(a)
    PROVE  LocalTypes'
<1>1. op' \in [Actors -> Ops] /\ choice' \in [Actors -> Carriers \cup {NoCarrier}]
  BY DEF Rest, LocalTypes, Ops
<1> QED  BY <1>1, MovedType, NoShipmentType DEF Rest, PC, Replies

\* The first and the last step of an HTTP request.
LEMMA RequestType ==
    ASSUME TypeOK, NEW h \in Handlers, EndRequest(h) \/ \E o \in HandlerOps : BeginRequest(h, o)
    PROVE  TypeOK'
<1>0. h \in Actors  BY DEF Actors
<1>1. CASE EndRequest(h)
  <2>1. job' \in Job
    BY <1>1, EnsureJobType DEF EndRequest, TypeOK, RowTypes
  <2>2. LocalTypes'
    BY <1>0, <1>1, RestType DEF EndRequest, TypeOK
  <2> QED  BY <1>1, <2>1, <2>2 DEF EndRequest, TypeOK, RowTypes, RemoteTypes, CounterTypes
<1>2. ASSUME NEW o \in HandlerOps, BeginRequest(h, o) PROVE TypeOK'
  <2>1. o \in PC /\ o \in Ops
    BY ActorsAssumption DEF AllHandlerOps, PC, Ops
  <2>2. op' \in [Actors -> Ops] /\ choice' \in [Actors -> Carriers \cup {NoCarrier}]
    BY <1>2, <2>1 DEF BeginRequest, TypeOK, LocalTypes
  <2>3. LocalTypes'
    BY <1>0, <1>2, <2>1, <2>2, GotoType DEF BeginRequest, TypeOK
  <2>4. requests' \in 0 .. MaxRequests
    BY <1>2, BoundsAssumption DEF BeginRequest, TypeOK, CounterTypes
  <2> QED  BY <1>2, <2>3, <2>4 DEF BeginRequest, TypeOK, RowTypes, RemoteTypes, CounterTypes
<1> QED  BY <1>1, <1>2

\* The steps of order synchronisation, the operator and Temu.
LEMMA EnvironmentType ==
    ASSUME TypeOK, Environment
    PROVE  TypeOK'
<1> USE DEF TypeOK, RowTypes, RemoteTypes, CounterTypes
<1>0. UNCHANGED <<pc, op, snap, reply, found, choice>> => (LocalTypes => LocalTypes')
  BY DEF LocalTypes
<1>1. CASE EnqueueAutoFulfillment
  <2>1. job' \in Job  BY <1>1 DEF EnqueueAutoFulfillment, EnqueueJob, Job, JobStatus
  <2> QED  BY <1>0, <1>1, <2>1 DEF EnqueueAutoFulfillment
<1>2. CASE ResolveMissingOMSPlatformOrder
  <2>1. job' \in Job  BY <1>2 DEF ResolveMissingOMSPlatformOrder, Job, JobStatus
  <2> QED  BY <1>0, <1>2, <2>1 DEF ResolveMissingOMSPlatformOrder, OMSStatus
<1>3. CASE SyncOrder
  BY <1>0, <1>3 DEF SyncOrder
<1>4. CASE ApproveManualReview
  BY <1>0, <1>4 DEF ApproveManualReview
<1>5. CASE PrintLabel
  <2>1. print' \in {"pending", "ready", "untracked", "failed", "address"}
    BY <1>5, ActorsAssumption DEF PrintLabel
  <2> QED  BY <1>0, <1>5, <2>1 DEF PrintLabel
<1>6. CASE ApplyLateCreate
  BY <1>0, <1>6 DEF ApplyLateCreate, TemuCreates
<1> QED  BY <1>1, <1>2, <1>3, <1>4, <1>5, <1>6 DEF Environment

\* An interruption resets what the actor held, and its loop counter.
LEMMA InterruptType ==
    ASSUME TypeOK, NEW a \in Actors, Interrupt(a)
    PROVE  TypeOK'
<1>1. LocalTypes'  BY RestType DEF Interrupt, TypeOK
<1>2. step' \in 0 .. MaxSteps /\ due' \in Nat /\ interrupts' \in 0 .. MaxInterrupts
  BY BoundsAssumption DEF Interrupt, TypeOK, CounterTypes
<1> QED  BY <1>1, <1>2 DEF Interrupt, TypeOK, RowTypes, RemoteTypes, CounterTypes

\* What the worker's own steps write.
WorkerTypes == job \in Job /\ LocalTypes /\ step \in 0 .. MaxSteps /\ due \in Nat

\* The worker is an actor.
LEMMA WorkerActor == Worker \in Actors  BY DEF Actors

\* The worker's ways to leave or go on, one lemma each: end the run,
LEMMA StopType ==
    ASSUME WorkerTypes, NEW st \in JobStatus, NEW r, Stop(st, r)
    PROVE  WorkerTypes'
<1>1. PICK t \in BOOLEAN : job' = UpdateJob(job, snap[Worker].status # "none", st, t)
  BY DEF Stop, Markers, W
<1>2. job' \in Job
  BY <1>1, UpdateJobType DEF WorkerTypes
<1>3. LocalTypes'
  BY RestType, WorkerActor DEF Stop, Sleep, WorkerTypes, W
<1> QED  BY <1>2, <1>3, BoundsAssumption DEF Stop, Sleep, WorkerTypes

\* fail the job and go on to release the reservation,
LEMMA StopAndReleaseType ==
    ASSUME WorkerTypes, NEW r, StopAndRelease(r)
    PROVE  WorkerTypes'
<1>1. PICK t \in BOOLEAN : job' = UpdateJob(job, snap[Worker].status # "none", "failed", t)
  BY DEF StopAndRelease, Markers, W
<1>2. job' \in Job
  BY <1>1, UpdateJobType DEF WorkerTypes, JobStatus
<1>3. LocalTypes'
  BY GotoType, WorkerActor, LocalFacts DEF StopAndRelease, WorkerTypes, W, PC
<1> QED  BY <1>2, <1>3 DEF StopAndRelease, WorkerTypes

\* end the run or release, as the status says,
LEMMA StopReleasingFailedType ==
    ASSUME WorkerTypes, NEW st \in JobStatus, NEW r, StopReleasingFailed(st, r)
    PROVE  WorkerTypes'
BY StopType, StopAndReleaseType DEF StopReleasingFailed

\* begin another iteration (the loop counter is below its bound there),
LEMMA IterateType ==
    ASSUME WorkerTypes, step < MaxSteps, Iterate
    PROVE  WorkerTypes'
<1>1. LocalTypes'
  BY GotoType, WorkerActor, LocalFacts DEF Iterate, WorkerTypes, W, PC
<1> QED  BY <1>1, BoundsAssumption DEF Iterate, WorkerTypes

\* and begin an operation of the service.
LEMMA BeginType ==
    ASSUME WorkerTypes, NEW o \in Ops, NEW l \in PC, Begin(o, l), job' \in Job, due' \in Nat
    PROVE  WorkerTypes'
<1>1. op' \in [Actors -> Ops] /\ choice' \in [Actors -> Carriers \cup {NoCarrier}]
  BY DEF Begin, WorkerTypes, LocalTypes
<1>2. LocalTypes'
  BY <1>1, GotoType, WorkerActor DEF Begin, WorkerTypes, W
<1> QED  BY <1>2 DEF Begin, WorkerTypes
\* Outside the dispatch the loop counter is below its bound.
StepBelow == pc[Worker] # "dispatch" => step < MaxSteps

\* The rest of the state does not follow from the worker's types.
OtherTypes ==
    /\ ship \in Shipment /\ oms \in OMSStatus /\ RemoteTypes
    /\ requests \in 0 .. MaxRequests /\ interrupts \in 0 .. MaxInterrupts

\* The row PrepareUnknownShipmentRetry writes.
LEMMA RetriedType ==
    ASSUME NEW s \in Shipment
    PROVE  [Submission(s, "submitting", {}, "none") EXCEPT !.attempts = @ + 1] \in Shipment
<1>1. Submission(s, "submitting", {}, "none") \in Shipment
  BY SubmissionType DEF ShipmentStatus
<1> QED  BY <1>1 DEF Shipment

\* The worker's own steps.
LEMMA RunType ==
    ASSUME TypeOK, StepBelow, RunAutoFulfillment
    PROVE  TypeOK'
<1>0. WorkerTypes /\ OtherTypes /\ snap[Worker] \in Shipment /\ reply[Worker] \in Replies
  BY LocalFacts, WorkerActor DEF TypeOK, RowTypes, CounterTypes, WorkerTypes, OtherTypes
<1>a. WorkerTypes' /\ OtherTypes' => TypeOK'
  BY DEF TypeOK, RowTypes, CounterTypes, WorkerTypes, OtherTypes
<1>1. CASE AfterPurchase
  <2>1. /\ \A st \in JobStatus : Stop(st, reply[Worker]) => WorkerTypes'
        /\ StopAndRelease(reply[Worker]) => WorkerTypes'
    BY <1>0, StopType, StopAndReleaseType
  <2>2. ErrorStatus(reply[Worker], "queued") \in JobStatus /\ "skipped" \in JobStatus
    BY DEF ErrorStatus, JobStatus
  <2>3. /\ Goto(Worker, "dispatch") /\ UNCHANGED <<localVars, cycleVars>>
        /\ job' \in Job \/ UNCHANGED job
        => WorkerTypes'
    BY <1>0, GotoType, WorkerActor, LocalFacts DEF WorkerTypes, PC
  <2>4. \A t \in BOOLEAN, st \in {"running", "waiting_label"} : UpdateJob(job, TRUE, st, t) \in Job
    BY <1>0, UpdateJobType DEF WorkerTypes, JobStatus
  <2>5. \/ \E st \in {"skipped", ErrorStatus(reply[Worker], "queued")} : Stop(st, reply[Worker])
        \/ StopAndRelease(reply[Worker])
        \/ /\ Goto(Worker, "dispatch") /\ UNCHANGED <<localVars, cycleVars>>
           /\ job' \in Job \/ UNCHANGED job
    BY <1>1, <2>4 DEF AfterPurchase, W, Markers
  <2>6. WorkerTypes'
    BY <2>1, <2>2, <2>3, <2>5
  <2> QED  BY <1>0, <1>a, <1>1, <2>6 DEF AfterPurchase, workerFrame, OtherTypes, RemoteTypes
<1>2. CASE DispatchExhausted
  <2>1. WorkerTypes'  BY <1>0, <1>2, StopType DEF DispatchExhausted, JobStatus
  <2> QED  BY <1>0, <1>a, <1>2, <2>1 DEF DispatchExhausted, workerFrame, OtherTypes, RemoteTypes
<1>3. CASE DispatchUnknown
  <2>1. snap[Worker].attempts \in Nat  BY <1>0 DEF Shipment
  <2>2. Begin("unknown", "refresh") /\ due' = snap[Worker].attempts /\ UNCHANGED job => WorkerTypes'
    BY <1>0, <2>1, BeginType DEF WorkerTypes, Ops, AllHandlerOps, PC
  <2>3. Stop("waiting_label", "none") => WorkerTypes'
    BY <1>0, StopType DEF JobStatus
  <2>4. WorkerTypes'  BY <1>3, <2>2, <2>3 DEF DispatchUnknown, W
  <2> QED  BY <1>0, <1>a, <1>3, <2>4 DEF DispatchUnknown, workerFrame, OtherTypes, RemoteTypes
<1>4. CASE DispatchPending
  <2>1. WorkerTypes'  BY <1>0, <1>4, BeginType DEF DispatchPending, WorkerTypes, Ops, AllHandlerOps, PC
  <2> QED  BY <1>0, <1>a, <1>4, <2>1 DEF DispatchPending, workerFrame, OtherTypes, RemoteTypes
<1>5. CASE DispatchReady
  <2>1. job' \in Job  BY <1>0, <1>5, UpdateJobType DEF DispatchReady, WorkerTypes, JobStatus
  <2>2. WorkerTypes'  BY <1>0, <1>5, <2>1, BeginType DEF DispatchReady, WorkerTypes, Ops, AllHandlerOps, PC
  <2> QED  BY <1>0, <1>a, <1>5, <2>2 DEF DispatchReady, workerFrame, OtherTypes, RemoteTypes
<1>6. CASE DispatchShipped
  <2>1. WorkerTypes'  BY <1>0, <1>6, BeginType DEF DispatchShipped, WorkerTypes, Ops, AllHandlerOps, PC
  <2> QED  BY <1>0, <1>a, <1>6, <2>1 DEF DispatchShipped, workerFrame, OtherTypes, RemoteTypes
<1>7. CASE DispatchFailed
  <2>1. WorkerTypes'  BY <1>0, <1>7, BeginType DEF DispatchFailed, WorkerTypes, Ops, AllHandlerOps, PC
  <2> QED  BY <1>0, <1>a, <1>7, <2>1 DEF DispatchFailed, workerFrame, OtherTypes, RemoteTypes
<1>8. pc[Worker] = "done" \/ pc[Worker] = "failedLabel" => step < MaxSteps
  BY DEF StepBelow
<1>9. /\ \A r : ErrorStatus(r, "waiting_label") \in JobStatus /\ ErrorStatus(r, "confirming") \in JobStatus
      /\ {"failed", "waiting_label", "waiting_oms", "completed", "skipped"} \subseteq JobStatus
  BY DEF ErrorStatus, JobStatus
<1>10. CASE AfterVerify
  <2>1. UNCHANGED <<job, localVars, cycleVars>> 
           /\ Move(Worker, "retryUnknown", snap[Worker], reply[Worker], {})
           => WorkerTypes'
    BY <1>0, MovedType, WorkerActor, LocalFacts DEF WorkerTypes, PC
  <2>2. WorkerTypes'
    BY <1>0, <1>8, <1>9, <1>10, <2>1, StopType, StopAndReleaseType, StopReleasingFailedType, IterateType
    DEF AfterVerify, W
  <2> QED  BY <1>0, <1>a, <1>10, <2>2 DEF AfterVerify, workerFrame, OtherTypes, RemoteTypes
<1>11. CASE PrepareUnknownShipmentRetry
  <2>1. CASE UnknownPreparable(ship)
    <3>1. ship' \in Shipment
      BY <1>0, <1>11, <2>1, RetriedType DEF PrepareUnknownShipmentRetry, OtherTypes
    <3>2. op' \in [Actors -> Ops] /\ choice' \in [Actors -> Carriers \cup {NoCarrier}]
      BY <1>0, <1>11, <2>1 DEF PrepareUnknownShipmentRetry, WorkerTypes, LocalTypes, Ops, AllHandlerOps
    <3>3. LocalTypes'
      BY <1>0, <1>11, <2>1, <3>1, <3>2, MovedType, WorkerActor
      DEF PrepareUnknownShipmentRetry, WorkerTypes, W, PC, Replies
    <3> QED  BY <1>0, <1>a, <1>11, <2>1, <3>1, <3>3
             DEF PrepareUnknownShipmentRetry, workerFrame, WorkerTypes, OtherTypes, RemoteTypes
  <2>2. CASE ~UnknownPreparable(ship)
    <3>1. WorkerTypes'  BY <1>0, <1>11, <2>2, StopAndReleaseType DEF PrepareUnknownShipmentRetry
    <3> QED  BY <1>0, <1>a, <1>11, <2>2, <3>1
             DEF PrepareUnknownShipmentRetry, workerFrame, OtherTypes, RemoteTypes
  <2> QED  BY <2>1, <2>2
<1>12. CASE AfterResubmit
  <2>1. WorkerTypes'
    BY <1>0, <1>8, <1>9, <1>12, StopType, StopReleasingFailedType, IterateType DEF AfterResubmit, W
  <2> QED  BY <1>0, <1>a, <1>12, <2>1 DEF AfterResubmit, workerFrame, OtherTypes, RemoteTypes
<1>13. CASE AfterPending
  <2>1. WorkerTypes'
    BY <1>0, <1>8, <1>9, <1>13, StopType, StopReleasingFailedType, IterateType DEF AfterPending, W
  <2> QED  BY <1>0, <1>a, <1>13, <2>1 DEF AfterPending, workerFrame, OtherTypes, RemoteTypes
<1>14. CASE AfterConfirm
  <2>1. WorkerTypes'
    BY <1>0, <1>8, <1>9, <1>14, StopType, IterateType DEF AfterConfirm, W
  <2> QED  BY <1>0, <1>a, <1>14, <2>1 DEF AfterConfirm, workerFrame, OtherTypes, RemoteTypes
<1>15. CASE AfterCheckOMS
  <2>1. PICK st \in {"failed", "completed", "waiting_oms"} : Stop(st, reply[Worker])
    BY <1>15 DEF AfterCheckOMS, W
  <2>2. WorkerTypes'  BY <1>0, <1>9, <2>1, StopType
  <2> QED  BY <1>0, <1>a, <1>15, <2>2 DEF AfterCheckOMS, workerFrame, OtherTypes, RemoteTypes
<1>16. CASE AfterCoverage
  <2>1. Goto(Worker, "failedLabel") /\ UNCHANGED <<job, localVars, cycleVars>> => WorkerTypes'
    BY <1>0, GotoType, WorkerActor, LocalFacts DEF WorkerTypes, PC
  <2>2. WorkerTypes'
    BY <1>0, <1>8, <1>9, <1>16, <2>1, StopType, IterateType DEF AfterCoverage, W
  <2> QED  BY <1>0, <1>a, <1>16, <2>2 DEF AfterCoverage, workerFrame, OtherTypes, RemoteTypes
<1>17. CASE FailedLabel
  <2>1. [ship EXCEPT !.failed = @ \cup {snap[Worker].carrier}] \in Shipment
    BY <1>0, FailedType, CarrierType DEF OtherTypes
  <2>2. ship' \in Shipment /\ manual' \in BOOLEAN
    BY <1>0, <1>17, <2>1 DEF FailedLabel, W, OtherTypes, RemoteTypes
  <2>3. UpdateJob(job, TRUE, "skipped", FALSE) \in Job
    BY <1>0, <1>9, UpdateJobType DEF WorkerTypes
  <2>4. Goto(Worker, "release") /\ UNCHANGED <<localVars, cycleVars>> /\ job' \in Job => WorkerTypes'
    BY <1>0, GotoType, WorkerActor, LocalFacts DEF WorkerTypes, PC
  <2>5. Begin("fallback", "fallbackQuote") /\ UNCHANGED <<job, due>> => WorkerTypes'
    BY <1>0, BeginType DEF WorkerTypes, Ops, AllHandlerOps, PC
  <2>6. WorkerTypes'
    BY <1>0, <1>17, <2>3, <2>4, <2>5, StopAndReleaseType DEF FailedLabel, W
  <2> QED  BY <1>0, <1>a, <1>17, <2>2, <2>6 DEF FailedLabel, OtherTypes, RemoteTypes
<1>18. CASE QuoteFallback
  <2>1. ASSUME NEW c \in Carriers, choice' = [choice EXCEPT ![Worker] = c],
               Goto(Worker, "recover"), UNCHANGED <<job, op, cycleVars>>
        PROVE  WorkerTypes'
    <3>1. op' \in [Actors -> Ops] /\ choice' \in [Actors -> Carriers \cup {NoCarrier}]
      BY <1>0, <2>1 DEF WorkerTypes, LocalTypes
    <3> QED  BY <1>0, <2>1, <3>1, GotoType, WorkerActor DEF WorkerTypes, PC
  <2>2. WorkerTypes'
    BY <1>0, <1>9, <1>18, <2>1, StopType DEF QuoteFallback, W
  <2> QED  BY <1>0, <1>a, <1>18, <2>2 DEF QuoteFallback, workerFrame, OtherTypes, RemoteTypes
<1>19. CASE AfterFallback
  <2>1. WorkerTypes'
    BY <1>0, <1>8, <1>9, <1>19, StopType, IterateType DEF AfterFallback, W
  <2> QED  BY <1>0, <1>a, <1>19, <2>1 DEF AfterFallback, workerFrame, OtherTypes, RemoteTypes
<1>20. CASE ReleaseReservation
  <2>1. LocalTypes'
    BY <1>0, <1>20, RestType, WorkerActor DEF ReleaseReservation, Sleep, W, WorkerTypes
  <2>2. held' \in BOOLEAN
    BY <1>0, <1>20 DEF ReleaseReservation, OtherTypes, RemoteTypes
  <2> QED  BY <1>0, <1>a, <1>20, <2>1, <2>2, BoundsAssumption
           DEF ReleaseReservation, Sleep, workerFrame, WorkerTypes, OtherTypes, RemoteTypes
<1> QED
  BY <1>1, <1>2, <1>3, <1>4, <1>5, <1>6, <1>7, <1>10, <1>11, <1>12, <1>13, <1>14, <1>15, <1>16, <1>17,
     <1>18, <1>19, <1>20 DEF RunAutoFulfillment

\* Repairing and claiming, between two runs.
LEMMA CycleType ==
    ASSUME TypeOK, RepairShipmentCompletionJobs \/ ClaimAutoFulfillment
    PROVE  TypeOK'
<1> USE DEF TypeOK, RowTypes, RemoteTypes, CounterTypes
<1>1. CASE RepairShipmentCompletionJobs
  <2>1. job' \in Job  BY <1>1 DEF RepairShipmentCompletionJobs, RepairJob, Job, JobStatus
  <2>2. LocalTypes'   BY <1>1 DEF RepairShipmentCompletionJobs, LocalTypes
  <2> QED  BY <1>1, <2>1, <2>2 DEF RepairShipmentCompletionJobs
<1>2. CASE ClaimAutoFulfillment
  <2>1. job' \in Job  BY <1>2 DEF ClaimAutoFulfillment, ClaimJob, Job, JobStatus
  <2>2. op' \in [Actors -> Ops] /\ choice' \in [Actors -> Carriers \cup {NoCarrier}]
    BY <1>2 DEF ClaimAutoFulfillment, LocalTypes, Ops, AllHandlerOps
  <2>3. \E l \in {"purchase", "dispatch"} : Move(Worker, l, ship, "none", {})
    BY <1>2 DEF ClaimAutoFulfillment, W
  <2>4. LocalTypes'
    BY <2>2, <2>3, MovedType, WorkerActor DEF PC, Replies
  <2> QED  BY <1>2, <2>1, <2>4 DEF ClaimAutoFulfillment, workerFrame
<1> QED  BY <1>1, <1>2

(***************************************************************************)
(* The loop counter, and type correctness of the specification.            *)
(***************************************************************************)

\* A move changes its own actor's label and answer only.
LEMMA MoveFacts ==
    ASSUME LocalTypes, NEW a \in Actors, NEW l, NEW s, NEW r, NEW f, Move(a, l, s, r, f)
    PROVE  /\ pc'[a] = l /\ reply'[a] = r
           /\ \A b \in Actors \ {a} : pc'[b] = pc[b] /\ reply'[b] = reply[b]
BY DEF LocalTypes, Move

\* A service step leaves the loop counter and the other actors alone, and the
\* actor that takes it is not in the dispatch.
LEMMA ServiceFrame ==
    ASSUME LocalTypes, NEW a \in Actors, Service(a)
    PROVE  /\ UNCHANGED cycleVars /\ pc[a] # "dispatch"
           /\ \A b \in Actors \ {a} : pc'[b] = pc[b] /\ reply'[b] = reply[b]
<1> USE MoveFacts DEF Goto, Return, OrderDetail
<1>1. CASE CheckPurchase(a) \/ ReserveInventory(a) \/ ReserveShipment(a)
  BY <1>1 DEF CheckPurchase, ReserveInventory, ReserveShipment
<1>2. CASE Recheck(a) \/ AdoptRecheck(a) \/ PrepareShipmentRetry(a)
  BY <1>2 DEF Recheck, AdoptRecheck, PrepareShipmentRetry
<1>3. CASE CreateShipment(a) \/ FindExisting(a) \/ AdoptExisting(a) \/ RecordSubmission(a)
  BY <1>3 DEF CreateShipment, FindExisting, AdoptExisting, RecordSubmission
<1>4. CASE BeginRefresh(a) \/ LookUpPackages(a) \/ RecordMissing(a) \/ AdoptRefresh(a)
  BY <1>4 DEF BeginRefresh, LookUpPackages, RecordMissing, AdoptRefresh
<1>5. CASE QueryResult(a) \/ RecordResult(a) \/ AnnotateResult(a) \/ Settle(a)
  BY <1>5 DEF QueryResult, RecordResult, AnnotateResult, Settle
<1>6. CASE \/ BeginConfirm(a) \/ RecordShipmentConfirmationAttempt(a) \/ CallConfirm(a)
           \/ RecordConfirm(a)
  BY <1>6 DEF BeginConfirm, RecordShipmentConfirmationAttempt, CallConfirm, RecordConfirm
<1>7. CASE BeginRecover(a) \/ RecoverDetail(a) \/ AdoptRecover(a)
  BY <1>7 DEF BeginRecover, RecoverDetail, AdoptRecover
<1>8. CASE CheckRecoveryQuote(a) \/ PrepareFailedShipmentRecovery(a)
  BY <1>8 DEF CheckRecoveryQuote, PrepareFailedShipmentRecovery
<1>9. CASE BeginCheckOMS(a) \/ UpdateOMSSync(a) \/ ReleaseVerified(a)
  BY <1>9 DEF BeginCheckOMS, UpdateOMSSync, ReleaseVerified
<1> QED  BY <1>1, <1>2, <1>3, <1>4, <1>5, <1>6, <1>7, <1>8, <1>9 DEF Service

\* The loop counter is below its bound outside the dispatch, by every step.
LEMMA StepBelowStep ==
    ASSUME TypeOK, StepBelow, Next
    PROVE  StepBelow'
<1> USE WorkerActor DEF StepBelow
<1>0. LocalTypes /\ 0 < MaxSteps  BY BoundsAssumption DEF TypeOK
<1>1. ASSUME NEW a \in Actors, Service(a) PROVE StepBelow'
  BY <1>0, <1>1, ServiceFrame
<1>2. ASSUME NEW a \in Actors, Interrupt(a) PROVE StepBelow'
  BY <1>0, <1>2, MoveFacts DEF Interrupt, Rest
<1>3. CASE RepairShipmentCompletionJobs
  BY <1>3 DEF RepairShipmentCompletionJobs
<1>4. CASE ClaimAutoFulfillment
  BY <1>4 DEF ClaimAutoFulfillment, W
<1>5. CASE RunAutoFulfillment
  <2>1. \A st, r : Stop(st, r) => step' = 0
    BY DEF Stop, Sleep
  <2>2. \A r : StopAndRelease(r) => UNCHANGED step
    BY DEF StopAndRelease
  <2>3. \A st, r : StopReleasingFailed(st, r) => step' = 0 \/ UNCHANGED step
    BY <2>1, <2>2 DEF StopReleasingFailed
  <2>4. Iterate => pc'[Worker] = "dispatch"
    BY <1>0, MoveFacts DEF Iterate, Goto, W
  <2>5. \A o, l : Begin(o, l) => UNCHANGED step
    BY DEF Begin
  <2>6. CASE \/ DispatchExhausted \/ DispatchUnknown \/ DispatchPending
             \/ DispatchReady \/ DispatchShipped \/ DispatchFailed
    BY <1>0, <2>1, <2>5, <2>6 DEF DispatchExhausted, DispatchUnknown, DispatchPending,
       DispatchReady, DispatchShipped, DispatchFailed
  <2>7. CASE AfterPurchase \/ AfterVerify \/ PrepareUnknownShipmentRetry \/ AfterResubmit
    BY <1>0, <2>1, <2>2, <2>3, <2>4, <2>7
    DEF AfterPurchase, AfterVerify, PrepareUnknownShipmentRetry, AfterResubmit, W
  <2>8. CASE AfterPending \/ AfterConfirm \/ AfterCheckOMS \/ AfterCoverage
    BY <1>0, <2>1, <2>2, <2>3, <2>4, <2>8
    DEF AfterPending, AfterConfirm, AfterCheckOMS, AfterCoverage, W
  <2>9. CASE FailedLabel \/ QuoteFallback \/ AfterFallback \/ ReleaseReservation
    BY <1>0, <2>1, <2>2, <2>4, <2>5, <2>9
    DEF FailedLabel, QuoteFallback, AfterFallback, ReleaseReservation, Sleep, W
  <2> QED  BY <1>5, <2>6, <2>7, <2>8, <2>9 DEF RunAutoFulfillment
<1>6. CASE Requests
  <2>1. PICK h \in Handlers : EndRequest(h) \/ \E o \in HandlerOps : BeginRequest(h, o)
    BY <1>6 DEF Requests
  <2>2. h \in Actors /\ h # Worker  BY ActorsAssumption DEF Actors
  <2> QED  BY <1>0, <2>1, <2>2, MoveFacts DEF EndRequest, BeginRequest, Rest, Goto
<1>7. CASE Environment
  BY <1>7 DEF Environment, EnqueueAutoFulfillment, ResolveMissingOMSPlatformOrder, SyncOrder,
              ApproveManualReview, PrintLabel, ApplyLateCreate
<1> QED  BY <1>1, <1>2, <1>3, <1>4, <1>5, <1>6, <1>7 DEF Next

\* Every step keeps the types.
LEMMA TypeStep ==
    ASSUME TypeOK, StepBelow, Next
    PROVE  TypeOK'
<1>1. ASSUME NEW a \in Actors, Service(a) PROVE TypeOK'
  BY <1>1, PurchaseType, RefreshType, ConfirmType, RecoverType DEF Service
<1> QED
  BY <1>1, InterruptType, CycleType, RunType, RequestType, EnvironmentType DEF Next, Requests

\* The initial state has them.
LEMMA InitType == Init => TypeOK /\ StepBelow
<1> SUFFICES ASSUME Init PROVE TypeOK /\ StepBelow
  OBVIOUS
<1>1. RowTypes
  BY NoShipmentType DEF Init, RowTypes, NoJob, Job, OMSStatus
<1>2. LocalTypes
  BY NoShipmentType DEF Init, LocalTypes, PC, Ops, Replies
<1>3. RemoteTypes
  BY DEF Init, RemoteTypes
<1>4. CounterTypes
  BY BoundsAssumption DEF Init, CounterTypes
<1>5. StepBelow
  BY BoundsAssumption DEF Init, StepBelow
<1> QED  BY <1>1, <1>2, <1>3, <1>4, <1>5 DEF TypeOK

\* The inductive invariant behind TypeCorrect.
LEMMA TypeInvariance == Spec => [](TypeOK /\ StepBelow)
<1>1. TypeOK /\ StepBelow /\ UNCHANGED vars => TypeOK' /\ StepBelow'
  BY DEF TypeOK, RowTypes, RemoteTypes, LocalTypes, CounterTypes, StepBelow, vars
<1> QED  BY <1>1, InitType, TypeStep, StepBelowStep, PTL DEF Spec

\* Every reachable state is well typed: the two rows satisfy the constraints of
\* the schema and a run never iterates past the bound of its loop.
THEOREM TypeCorrect == Spec => []TypeOK
BY TypeInvariance, PTL

(***************************************************************************)
(* Nothing is called shipped before Temu took the confirmation.  Until     *)
(* then no row says so, and nobody holds an answer that would make it so.  *)
(***************************************************************************)
QuietRows == ship.status # "shipped" /\ ~ship.confirmed /\ job.status # "completed"

QuietLocal(a) ==
    /\ pc[a] \notin {"omsAnswer", "omsRelease"}
    /\ pc[a] = "recordConfirm" => reply[a] \in {"temporary", "permanent"}
    /\ pc[a] = "done" => reply[a] \notin {"verified", "terminal"}

Quiet == QuietRows /\ \A a \in Actors : QuietLocal(a)

QuietUntilAccepted == ~accepted => Quiet

\* A move that brings no such answer leaves every actor without one;
LEMMA MoveQuiet ==
    ASSUME LocalTypes, NEW a \in Actors, \A b \in Actors : QuietLocal(b),
           NEW l, NEW s, NEW r, NEW f, Move(a, l, s, r, f),
           l \notin {"omsAnswer", "omsRelease"},
           l = "recordConfirm" => r \in {"temporary", "permanent"},
           l = "done" => r \notin {"verified", "terminal"}
    PROVE  \A b \in Actors : QuietLocal(b)'
BY MoveFacts DEF QuietLocal

\* so do a step to an ordinary label,
LEMMA GotoQuiet ==
    ASSUME LocalTypes, NEW a \in Actors, \A b \in Actors : QuietLocal(b),
           NEW l, Goto(a, l), l \notin {"omsAnswer", "omsRelease", "recordConfirm", "done"}
    PROVE  \A b \in Actors : QuietLocal(b)'
BY MoveQuiet DEF Goto

\* a return with an ordinary answer,
LEMMA ReturnQuiet ==
    ASSUME LocalTypes, NEW a \in Actors, \A b \in Actors : QuietLocal(b),
           NEW s, NEW r, Return(a, s, r), r \notin {"verified", "terminal"}
    PROVE  \A b \in Actors : QuietLocal(b)'
BY MoveQuiet DEF Return

\* and a call of order detail.
LEMMA OrderDetailQuiet ==
    ASSUME LocalTypes, NEW a \in Actors, \A b \in Actors : QuietLocal(b),
           NEW s, NEW l, NEW k, OrderDetail(a, s, l, k),
           {l, k} \cap {"omsAnswer", "omsRelease", "recordConfirm", "done"} = {}
    PROVE  \A b \in Actors : QuietLocal(b)'
<1>1. \A e \in CallErrors("detail") : e \notin {"verified", "terminal"}
  BY CallErrorsType DEF Calls
<1> QED  BY <1>1, ReturnQuiet, MoveQuiet DEF OrderDetail

\* The upsert of the ledger writes completes no job.
LEMMA EnsureJobQuiet ==
    ASSUME NEW j \in Job, j.status # "completed", NEW st
    PROVE  EnsureJob(j, st).status # "completed"
BY DEF EnsureJob, CompletionJobStatus

\* An update completes a job only when it is told to.
LEMMA UpdateJobQuiet ==
    ASSUME NEW j \in Job, j.status # "completed", NEW link, NEW st, NEW t, st # "completed"
    PROVE  UpdateJob(j, link, st, t).status # "completed"
BY DEF UpdateJob

\* UpdateShipmentSubmission confirms nothing.
LEMMA SubmissionQuiet ==
    ASSUME RowTypes, QuietRows, NEW st, NEW p, NEW e, st # "shipped", UpdateShipmentSubmission(st, p, e)
    PROVE  QuietRows'
<1>1. ship'.status = st /\ ship'.confirmed = ship.confirmed
  BY DEF UpdateShipmentSubmission, Submission, RowTypes, Shipment
<1> QED  BY <1>1, EnsureJobQuiet DEF UpdateShipmentSubmission, RowTypes, QuietRows

\* UpdateShipmentResult confirms nothing.
LEMMA ResultQuiet ==
    ASSUME RowTypes, QuietRows, NEW st, NEW t, NEW e, st # "shipped", UpdateShipmentResult(st, t, e)
    PROVE  QuietRows'
<1>1. ship'.status = st /\ ship'.confirmed = ship.confirmed
  BY DEF UpdateShipmentResult, RowTypes, Shipment
<1> QED  BY <1>1, EnsureJobQuiet DEF UpdateShipmentResult, RowTypes, QuietRows

\* Nor does a new attempt.
LEMMA ResubmitQuiet ==
    ASSUME NEW s, NEW c
    PROVE  Resubmit(s, c).status = "submitting" /\ ~Resubmit(s, c).confirmed
BY DEF Resubmit

\* The steps of the service functions, before Temu takes the confirmation.
LEMMA ServiceQuiet ==
    ASSUME TypeOK, ~accepted, ~accepted', Quiet, NEW a \in Actors, Service(a)
    PROVE  Quiet'
<1>0. RowTypes /\ LocalTypes /\ QuietRows /\ (\A b \in Actors : QuietLocal(b))
  BY DEF TypeOK, Quiet
<1>r. UNCHANGED ledgerVars => QuietRows'
  BY <1>0 DEF QuietRows
<1>e. \A c \in Calls : \A e \in CallErrors(c) : e \notin {"verified", "terminal"}
  BY CallErrorsType
<1>1. CASE CheckPurchase(a)
  <2>1. \A b \in Actors : QuietLocal(b)'
    BY <1>0, <1>e, <1>1, GotoQuiet, ReturnQuiet DEF CheckPurchase, Calls
  <2> QED  BY <1>r, <1>1, <2>1 DEF CheckPurchase, Quiet
<1>2. CASE ReserveInventory(a)
  <2>1. \A b \in Actors : QuietLocal(b)'
    BY <1>0, <1>e, <1>2, GotoQuiet, ReturnQuiet DEF ReserveInventory, Calls
  <2> QED  BY <1>r, <1>2, <2>1 DEF ReserveInventory, Quiet
<1>3. CASE ReserveShipment(a)
  <2>1. \A b \in Actors : QuietLocal(b)'
    BY <1>0, <1>3, MoveQuiet, ReturnQuiet DEF ReserveShipment
  <2>2. QuietRows'
    BY <1>0, <1>3, EnsureJobQuiet, ResubmitQuiet DEF ReserveShipment, QuietRows, RowTypes
  <2> QED  BY <2>1, <2>2 DEF Quiet
<1>4. CASE Recheck(a) \/ LookUpPackages(a) \/ RecoverDetail(a)
  <2>1. \A b \in Actors : QuietLocal(b)'
    BY <1>0, <1>4, OrderDetailQuiet DEF Recheck, LookUpPackages, RecoverDetail
  <2> QED  BY <1>r, <1>4, <2>1 DEF Recheck, LookUpPackages, RecoverDetail, OrderDetail, Quiet
<1>5. CASE AdoptRecheck(a) \/ AdoptRecover(a) \/ RecordMissing(a)
  <2>1. \A b \in Actors : QuietLocal(b)'
    BY <1>0, <1>5, ReturnQuiet DEF AdoptRecheck, AdoptRecover, RecordMissing
  <2>2. QuietRows'
    BY <1>0, <1>5, SubmissionQuiet DEF AdoptRecheck, AdoptRecover, RecordMissing
  <2> QED  BY <2>1, <2>2 DEF Quiet
<1>6. CASE AdoptExisting(a) \/ AdoptRefresh(a)
  <2>1. \A b \in Actors : QuietLocal(b)'
    BY <1>0, <1>6, MoveQuiet, GotoQuiet DEF AdoptExisting, AdoptRefresh
  <2>2. QuietRows'
    BY <1>0, <1>6, SubmissionQuiet DEF AdoptExisting, AdoptRefresh
  <2> QED  BY <2>1, <2>2 DEF Quiet
<1>7. CASE PrepareShipmentRetry(a)
  <2>1. \A b \in Actors : QuietLocal(b)'
    BY <1>0, <1>7, MoveQuiet, ReturnQuiet DEF PrepareShipmentRetry
  <2>2. QuietRows'
    BY <1>0, <1>r, <1>7, EnsureJobQuiet, ResubmitQuiet DEF PrepareShipmentRetry, QuietRows, RowTypes
  <2> QED  BY <2>1, <2>2 DEF Quiet
<1>8. CASE CreateShipment(a)
  <2>1. \E l \in {"record", "existing"} : \E r, f : Move(a, l, snap[a], r, f)
    BY <1>8 DEF CreateShipment
  <2>2. \A b \in Actors : QuietLocal(b)'
    BY <1>0, <2>1, MoveQuiet
  <2> QED  BY <1>r, <1>8, <2>2 DEF CreateShipment, Quiet
<1>9. CASE FindExisting(a)
  <2>1. \E l \in {"record", "adoptExisting"} : \E r, f : Move(a, l, snap[a], r, f)
    BY <1>9 DEF FindExisting
  <2>2. \A b \in Actors : QuietLocal(b)'
    BY <1>0, <2>1, MoveQuiet
  <2> QED  BY <1>r, <1>9, <2>2 DEF FindExisting, Quiet
<1>10. CASE RecordSubmission(a)
  <2>1. \E r \in {"ok", "temporary", "permanent"} : Return(a, ship', r)
    BY <1>10 DEF RecordSubmission
  <2>2. \A b \in Actors : QuietLocal(b)'
    BY <1>0, <2>1, ReturnQuiet
  <2>3. ship'.status # "shipped" /\ ship'.confirmed = ship.confirmed /\ \E st : job' = EnsureJob(job, st)
    BY <1>0, <1>10 DEF RecordSubmission, Submission, SubmissionStatus, RowTypes, Shipment
  <2>4. QuietRows'
    BY <1>0, <2>3, EnsureJobQuiet DEF QuietRows, RowTypes
  <2> QED  BY <2>2, <2>4 DEF Quiet
<1>11. CASE BeginRefresh(a)
  <2>1. ~(ship.status = "shipped")  BY <1>0 DEF QuietRows
  <2>2. \E l \in {"detail", "result"} : Move(a, l, ship, "none", {})
    BY <1>11, <2>1 DEF BeginRefresh
  <2>3. \A b \in Actors : QuietLocal(b)'
    BY <1>0, <2>2, MoveQuiet
  <2> QED  BY <1>r, <1>11, <2>1, <2>3 DEF BeginRefresh, Quiet
<1>12. CASE QueryResult(a)
  <2>1. \A b \in Actors : QuietLocal(b)'
    BY <1>0, <1>e, <1>12, MoveQuiet, ReturnQuiet DEF QueryResult, Calls
  <2> QED  BY <1>r, <1>12, <2>1 DEF QueryResult, Quiet
<1>13. CASE RecordResult(a)
  <2>1. \A b \in Actors : QuietLocal(b)'
    BY <1>0, <1>13, MoveQuiet DEF RecordResult
  <2>2. QuietRows'
    BY <1>0, <1>13, ResultQuiet DEF RecordResult, ResultStatus
  <2> QED  BY <2>1, <2>2 DEF Quiet
<1>14. CASE AnnotateResult(a)
  <2>1. \A b \in Actors : QuietLocal(b)'
    BY <1>0, <1>14, GotoQuiet DEF AnnotateResult
  <2>2. QuietRows'
    BY <1>0, <1>14 DEF AnnotateResult, QuietRows, RowTypes, Shipment
  <2> QED  BY <2>1, <2>2 DEF Quiet
<1>15. CASE Settle(a)
  <2>1. \A b \in Actors : QuietLocal(b)'
    BY <1>0, <1>15, ReturnQuiet DEF Settle
  <2>2. QuietRows'
    BY <1>0, <1>15, UpdateJobQuiet DEF Settle, QuietRows, RowTypes
  <2> QED  BY <2>1, <2>2 DEF Quiet
<1>16. CASE BeginConfirm(a)
  <2>1. ~(ship.status = "shipped")  BY <1>0 DEF QuietRows
  <2>2. UNCHANGED ledgerVars /\ (Move(a, "attempt", ship, "none", {}) \/ Return(a, ship, "permanent"))
    BY <1>16, <2>1 DEF BeginConfirm
  <2>3. \A b \in Actors : QuietLocal(b)'
    BY <1>0, <2>2, MoveQuiet, ReturnQuiet
  <2> QED  BY <1>r, <2>2, <2>3 DEF Quiet
<1>17. CASE RecordShipmentConfirmationAttempt(a)
  <2>1. \A b \in Actors : QuietLocal(b)'
    BY <1>0, <1>17, GotoQuiet, ReturnQuiet DEF RecordShipmentConfirmationAttempt
  <2>2. QuietRows'
    BY <1>0, <1>17
    DEF RecordShipmentConfirmationAttempt, CountConfirmation, QuietRows, RowTypes, Shipment
  <2> QED  BY <2>1, <2>2 DEF Quiet
<1>18. CASE CallConfirm(a)
  <2>1. \E r \in {"temporary", "permanent"} : Move(a, "recordConfirm", snap[a], r, {})
    BY <1>18 DEF CallConfirm
  <2>2. \A b \in Actors : QuietLocal(b)'
    BY <1>0, <2>1, MoveQuiet
  <2> QED  BY <1>r, <1>18, <2>2 DEF CallConfirm, Quiet
<1>19. CASE RecordConfirm(a)
  <2>1. reply[a] \in {"temporary", "permanent"}
    BY <1>0, <1>19 DEF RecordConfirm, QuietLocal
  <2>2. UpdateShipmentResult("confirm_failed", snap[a].tracked, "other") /\ Return(a, ship', reply[a])
    BY <1>19, <2>1 DEF RecordConfirm
  <2>3. \A b \in Actors : QuietLocal(b)'
    BY <1>0, <2>1, <2>2, ReturnQuiet
  <2> QED  BY <1>0, <2>2, <2>3, ResultQuiet DEF Quiet
<1>20. CASE BeginRecover(a)
  <2>1. \A b \in Actors : QuietLocal(b)'
    BY <1>0, <1>20, MoveQuiet, ReturnQuiet DEF BeginRecover
  <2> QED  BY <1>r, <1>20, <2>1 DEF BeginRecover, Quiet
<1>21. CASE CheckRecoveryQuote(a)
  <2>1. \A b \in Actors : QuietLocal(b)'
    BY <1>0, <1>e, <1>21, GotoQuiet, ReturnQuiet DEF CheckRecoveryQuote, Calls
  <2> QED  BY <1>r, <1>21, <2>1 DEF CheckRecoveryQuote, Quiet
<1>22. CASE PrepareFailedShipmentRecovery(a)
  <2>1. \A b \in Actors : QuietLocal(b)'
    BY <1>0, <1>22, MoveQuiet, ReturnQuiet DEF PrepareFailedShipmentRecovery
  <2>2. QuietRows'
    BY <1>0, <1>r, <1>22, EnsureJobQuiet
    DEF PrepareFailedShipmentRecovery, Resubmit, QuietRows, RowTypes
  <2> QED  BY <2>1, <2>2 DEF Quiet
<1>23. CASE BeginCheckOMS(a)
  <2>1. Return(a, ship, "permanent") /\ UNCHANGED ledgerVars
    BY <1>0, <1>23 DEF BeginCheckOMS, QuietRows
  <2> QED  BY <1>0, <1>r, <2>1, ReturnQuiet DEF Quiet
<1>24. ~UpdateOMSSync(a) /\ ~ReleaseVerified(a)
  BY <1>0 DEF UpdateOMSSync, ReleaseVerified, QuietLocal
<1> QED
  BY <1>1, <1>2, <1>3, <1>4, <1>5, <1>6, <1>7, <1>8, <1>9, <1>10, <1>11, <1>12, <1>13, <1>14, <1>15,
     <1>16, <1>17, <1>18, <1>19, <1>20, <1>21, <1>22, <1>23, <1>24 DEF Service

\* An actor at rest holds no answer.
LEMMA RestQuiet ==
    ASSUME LocalTypes, NEW a \in Actors, \A b \in Actors : QuietLocal(b), Rest(a)
    PROVE  \A b \in Actors : QuietLocal(b)'
BY MoveQuiet DEF Rest

\* The worker's ways to leave or go on complete no job unless told to: Stop,
LEMMA StopQuiet ==
    ASSUME TypeOK, Quiet, NEW st, NEW r, st # "completed", Stop(st, r), UNCHANGED ship
    PROVE  Quiet'
<1>1. \A b \in Actors : QuietLocal(b)'
  BY RestQuiet, WorkerActor DEF Stop, Sleep, W, TypeOK, Quiet
<1>2. job'.status # "completed"
  BY UpdateJobQuiet DEF Stop, TypeOK, RowTypes, Quiet, QuietRows
<1> QED  BY <1>1, <1>2 DEF Quiet, QuietRows

\* StopAndRelease,
LEMMA StopAndReleaseQuiet ==
    ASSUME TypeOK, Quiet, NEW r, StopAndRelease(r), UNCHANGED ship
    PROVE  Quiet'
<1>1. \A b \in Actors : QuietLocal(b)'
  BY GotoQuiet, WorkerActor DEF StopAndRelease, W, TypeOK, Quiet
<1>2. job'.status # "completed"
  BY UpdateJobQuiet DEF StopAndRelease, TypeOK, RowTypes, Quiet, QuietRows
<1> QED  BY <1>1, <1>2 DEF Quiet, QuietRows

\* StopReleasingFailed,
LEMMA StopReleasingFailedQuiet ==
    ASSUME TypeOK, Quiet, NEW st, NEW r, st # "completed", StopReleasingFailed(st, r), UNCHANGED ship
    PROVE  Quiet'
BY StopQuiet, StopAndReleaseQuiet DEF StopReleasingFailed

\* A step of the worker to label l that leaves the rows alone.
LEMMA WorkerGotoQuiet ==
    ASSUME TypeOK, Quiet, NEW l, Goto(Worker, l),
           l \notin {"omsAnswer", "omsRelease", "recordConfirm", "done"}, UNCHANGED ledgerVars
    PROVE  Quiet'
<1>1. \A b \in Actors : QuietLocal(b)'
  BY GotoQuiet, WorkerActor DEF TypeOK, Quiet
<1> QED  BY <1>1 DEF Quiet, QuietRows

\* Iterate,
LEMMA IterateQuiet ==
    ASSUME TypeOK, Quiet, Iterate, UNCHANGED ship
    PROVE  Quiet'
BY WorkerGotoQuiet DEF Iterate, W

\* and Begin.
LEMMA BeginQuiet ==
    ASSUME TypeOK, Quiet, NEW o, NEW l, Begin(o, l), UNCHANGED ledgerVars,
           l \notin {"omsAnswer", "omsRelease", "recordConfirm", "done"}
    PROVE  Quiet'
BY WorkerGotoQuiet DEF Begin, W

\* The worker's own steps.
LEMMA RunQuiet ==
    ASSUME TypeOK, Quiet, RunAutoFulfillment
    PROVE  Quiet'
<1>0. LocalTypes /\ RowTypes /\ QuietRows /\ (\A b \in Actors : QuietLocal(b))
  BY DEF TypeOK, Quiet
<1>e. \A r : /\ ErrorStatus(r, "queued") # "completed" /\ ErrorStatus(r, "confirming") # "completed"
             /\ ErrorStatus(r, "waiting_label") # "completed"
  BY DEF ErrorStatus
<1>1. CASE AfterPurchase
  <2>0. UNCHANGED ship  BY <1>1 DEF AfterPurchase
  <2>1. \/ \E st \in {"skipped", ErrorStatus(reply[Worker], "queued")} : Stop(st, reply[Worker])
        \/ StopAndRelease(reply[Worker])
        \/ /\ Goto(Worker, "dispatch")
           /\ \/ UNCHANGED job
              \/ \E st \in {"running", "waiting_label"} : \E t : job' = UpdateJob(job, TRUE, st, t)
    BY <1>1 DEF AfterPurchase, W
  <2>2. Goto(Worker, "dispatch") => \A b \in Actors : QuietLocal(b)'
    BY <1>0, GotoQuiet, WorkerActor
  <2>3. ASSUME \/ UNCHANGED job
               \/ \E st \in {"running", "waiting_label"} : \E t : job' = UpdateJob(job, TRUE, st, t)
        PROVE  QuietRows'
    <3>1. job'.status # "completed"
      BY <1>0, <2>3, UpdateJobQuiet DEF QuietRows, RowTypes
    <3> QED  BY <1>0, <2>0, <3>1 DEF QuietRows
  <2> QED  BY <1>0, <1>e, <2>0, <2>1, <2>2, <2>3, StopQuiet, StopAndReleaseQuiet DEF Quiet
<1>2. CASE DispatchExhausted
  BY <1>2, StopQuiet DEF DispatchExhausted
<1>3. CASE DispatchUnknown
  BY <1>3, StopQuiet, BeginQuiet DEF DispatchUnknown
<1>4. CASE DispatchPending \/ DispatchShipped \/ DispatchFailed
  BY <1>4, BeginQuiet DEF DispatchPending, DispatchShipped, DispatchFailed
<1>5. CASE DispatchReady
  <2>1. \A b \in Actors : QuietLocal(b)'
    BY <1>0, <1>5, GotoQuiet, WorkerActor DEF DispatchReady, Begin, W
  <2>2. QuietRows'
    BY <1>0, <1>5, UpdateJobQuiet DEF DispatchReady, QuietRows, RowTypes
  <2> QED  BY <2>1, <2>2 DEF Quiet
<1>6. CASE AfterVerify
  <2>1. Move(Worker, "retryUnknown", snap[Worker], reply[Worker], {}) => \A b \in Actors : QuietLocal(b)'
    BY <1>0, MoveQuiet, WorkerActor
  <2>2. UNCHANGED ledgerVars => QuietRows'
    BY <1>0 DEF QuietRows
  <2> QED
    BY <1>e, <1>6, <2>1, <2>2, StopQuiet, StopAndReleaseQuiet, StopReleasingFailedQuiet, IterateQuiet
    DEF AfterVerify, W, Quiet
<1>7. CASE PrepareUnknownShipmentRetry
  <2>1. CASE UnknownPreparable(ship)
    <3>1. \A b \in Actors : QuietLocal(b)'
      BY <1>0, <1>7, <2>1, MoveQuiet, WorkerActor DEF PrepareUnknownShipmentRetry, W
    <3>2. QuietRows'
      BY <1>0, <1>7, <2>1 DEF PrepareUnknownShipmentRetry, Submission, QuietRows, RowTypes, Shipment
    <3> QED  BY <3>1, <3>2 DEF Quiet
  <2> QED  BY <1>7, <2>1, StopAndReleaseQuiet DEF PrepareUnknownShipmentRetry
<1>8. CASE AfterResubmit
  BY <1>e, <1>8, StopQuiet, StopReleasingFailedQuiet, IterateQuiet DEF AfterResubmit, W
<1>9. CASE AfterPending
  BY <1>e, <1>9, StopQuiet, StopReleasingFailedQuiet, IterateQuiet DEF AfterPending, W
<1>10. CASE AfterConfirm
  BY <1>e, <1>10, StopQuiet, IterateQuiet DEF AfterConfirm, W
<1>11. CASE AfterCheckOMS
  <2>1. reply[Worker] \notin {"verified", "terminal"}
    BY <1>0, <1>11, WorkerActor DEF AfterCheckOMS, QuietLocal, W
  <2>2. \E st \in {"failed", "waiting_oms"} : Stop(st, reply[Worker])
    BY <1>11, <2>1 DEF AfterCheckOMS, W
  <2> QED  BY <1>11, <2>2, StopQuiet DEF AfterCheckOMS
<1>12. CASE AfterCoverage
  BY <1>e, <1>12, StopQuiet, IterateQuiet, WorkerGotoQuiet DEF AfterCoverage, W
<1>13. CASE FailedLabel
  <2>1. \A b \in Actors : QuietLocal(b)'
    BY <1>0, <1>13, GotoQuiet, WorkerActor DEF FailedLabel, Begin, StopAndRelease, W
  <2>2. ship'.status = ship.status /\ ship'.confirmed = ship.confirmed
    BY <1>0, <1>13 DEF FailedLabel, RowTypes, Shipment
  <2>3. \/ job' = job
        \/ job' = UpdateJob(job, TRUE, "skipped", FALSE)
        \/ \E t \in Markers("none") : job' = UpdateJob(job, snap[Worker].status # "none", "failed", t)
    BY <1>13, Zenon DEF FailedLabel, StopAndRelease, W
  <2>4. job'.status # "completed"
    BY <1>0, <2>3, UpdateJobQuiet DEF QuietRows, RowTypes
  <2> QED  BY <1>0, <2>1, <2>2, <2>4 DEF Quiet, QuietRows
<1>14. CASE QuoteFallback
  BY <1>14, StopQuiet, WorkerGotoQuiet DEF QuoteFallback, W
<1>15. CASE AfterFallback
  BY <1>15, StopQuiet, IterateQuiet DEF AfterFallback, W
<1>16. CASE ReleaseReservation
  <2>1. \A b \in Actors : QuietLocal(b)'
    BY <1>0, <1>16, RestQuiet, WorkerActor DEF ReleaseReservation, Sleep, W
  <2> QED  BY <1>0, <1>16, <2>1 DEF ReleaseReservation, Quiet, QuietRows
<1> QED
  BY <1>1, <1>2, <1>3, <1>4, <1>5, <1>6, <1>7, <1>8, <1>9, <1>10, <1>11, <1>12, <1>13, <1>14, <1>15,
     <1>16 DEF RunAutoFulfillment

\* accepted never turns back, so the antecedent of the invariant can only go away.
LEMMA AcceptedStays ==
    ASSUME TypeOK, accepted, Next
    PROVE  accepted'
<1>1. ASSUME NEW a \in Actors, CallConfirm(a) PROVE accepted'
  BY <1>1 DEF CallConfirm
<1>2. ASSUME NEW a \in Actors, Service(a), ~CallConfirm(a) PROVE accepted' = accepted
  BY <1>2 DEF Service, CheckPurchase, ReserveInventory, ReserveShipment, Recheck, AdoptRecheck,
     PrepareShipmentRetry, CreateShipment, FindExisting, AdoptExisting, RecordSubmission, BeginRefresh,
     LookUpPackages, RecordMissing, AdoptRefresh, QueryResult, RecordResult, AnnotateResult, Settle,
     BeginConfirm, RecordShipmentConfirmationAttempt, RecordConfirm, BeginRecover, RecoverDetail,
     AdoptRecover, CheckRecoveryQuote, PrepareFailedShipmentRecovery, BeginCheckOMS, UpdateOMSSync,
     ReleaseVerified, OrderDetail
<1>3. RunAutoFulfillment => accepted' = accepted
  BY DEF RunAutoFulfillment, AfterPurchase, DispatchExhausted, DispatchUnknown, DispatchPending,
     DispatchReady, DispatchShipped, DispatchFailed, AfterVerify, PrepareUnknownShipmentRetry,
     AfterResubmit, AfterPending, AfterConfirm, AfterCheckOMS, AfterCoverage, FailedLabel,
     QuoteFallback, AfterFallback, ReleaseReservation, workerFrame
<1>4. (\E a \in Actors : Interrupt(a)) \/ RepairShipmentCompletionJobs \/ ClaimAutoFulfillment
         \/ Requests \/ Environment => accepted' = accepted
  BY DEF Interrupt, RepairShipmentCompletionJobs, ClaimAutoFulfillment, workerFrame, Requests,
     BeginRequest, EndRequest, Environment, EnqueueAutoFulfillment, ResolveMissingOMSPlatformOrder,
     SyncOrder, ApproveManualReview, PrintLabel, ApplyLateCreate
<1> QED  BY <1>1, <1>2, <1>3, <1>4 DEF Next

\* Every step keeps the invariant.
LEMMA QuietStep ==
    ASSUME TypeOK, QuietUntilAccepted, Next
    PROVE  QuietUntilAccepted'
<1> SUFFICES ASSUME ~accepted' PROVE Quiet'
  BY DEF QuietUntilAccepted
<1>1. ~accepted /\ Quiet
  BY AcceptedStays DEF QuietUntilAccepted
<1>0. LocalTypes /\ RowTypes /\ QuietRows /\ (\A b \in Actors : QuietLocal(b))
  BY <1>1 DEF TypeOK, Quiet
<1>2. ASSUME NEW a \in Actors, Service(a) PROVE Quiet'
  BY <1>1, <1>2, ServiceQuiet
<1>3. ASSUME NEW a \in Actors, Interrupt(a) PROVE Quiet'
  BY <1>0, <1>3, RestQuiet DEF Interrupt, Quiet, QuietRows
<1>4. CASE RepairShipmentCompletionJobs
  BY <1>0, <1>4 DEF RepairShipmentCompletionJobs, RepairJob, Quiet, QuietRows, QuietLocal
<1>5. CASE ClaimAutoFulfillment
  <2>1. \E l \in {"purchase", "dispatch"} : Move(Worker, l, ship, "none", {})
    BY <1>5 DEF ClaimAutoFulfillment, W
  <2>2. \A b \in Actors : QuietLocal(b)'
    BY <1>0, <2>1, MoveQuiet, WorkerActor
  <2>3. job'.status = "running"
    BY <1>0, <1>5 DEF ClaimAutoFulfillment, ClaimJob, RowTypes, Job
  <2> QED  BY <1>0, <1>5, <2>2, <2>3 DEF ClaimAutoFulfillment, Quiet, QuietRows
<1>6. CASE RunAutoFulfillment
  BY <1>1, <1>6, RunQuiet
<1>7. CASE Requests
  <2>1. PICK h \in Handlers : EndRequest(h) \/ \E o \in HandlerOps : BeginRequest(h, o)
    BY <1>7 DEF Requests
  <2>2. h \in Actors  BY DEF Actors
  <2>3. CASE EndRequest(h)
    <3>1. job' = job \/ \E st : job' = EnsureJob(job, st)
      BY <2>3 DEF EndRequest
    <3>2. QuietRows'
      BY <1>0, <2>3, <3>1, EnsureJobQuiet DEF EndRequest, QuietRows, RowTypes
    <3> QED  BY <1>0, <2>2, <2>3, <3>2, RestQuiet DEF EndRequest, Quiet
  <2>4. ASSUME NEW o \in HandlerOps, BeginRequest(h, o) PROVE Quiet'
    <3>1. o \notin {"omsAnswer", "omsRelease", "recordConfirm", "done"}
      BY ActorsAssumption DEF AllHandlerOps
    <3>2. \A b \in Actors : QuietLocal(b)'
      BY <1>0, <2>2, <2>4, <3>1, GotoQuiet DEF BeginRequest
    <3> QED  BY <1>0, <2>4, <3>2 DEF BeginRequest, Quiet, QuietRows
  <2> QED  BY <2>1, <2>3, <2>4
<1>8. CASE Environment
  <2>1. UNCHANGED <<ship, pc, reply>>
    BY <1>8 DEF Environment, EnqueueAutoFulfillment, ResolveMissingOMSPlatformOrder, SyncOrder,
                ApproveManualReview, PrintLabel, ApplyLateCreate
  <2>2. ~ResolveMissingOMSPlatformOrder
    BY <1>0 DEF ResolveMissingOMSPlatformOrder, QuietRows
  <2>3. job' = job \/ job'.status = "queued"
    BY <1>0, <1>8, <2>2 DEF Environment, EnqueueAutoFulfillment, EnqueueJob, SyncOrder,
                ApproveManualReview, PrintLabel, ApplyLateCreate, RowTypes
  <2> QED  BY <1>0, <2>1, <2>3 DEF Quiet, QuietRows, QuietLocal
<1> QED  BY <1>2, <1>3, <1>4, <1>5, <1>6, <1>7, <1>8 DEF Next

\* The invariant behind ShippedMeansConfirmed.
LEMMA QuietInvariance == Spec => []QuietUntilAccepted
<1>1. Init => QuietUntilAccepted
  BY DEF Init, QuietUntilAccepted, Quiet, QuietRows, QuietLocal, NoShipment, NoJob
<1>2. QuietUntilAccepted /\ UNCHANGED vars => QuietUntilAccepted'
  BY DEF QuietUntilAccepted, Quiet, QuietRows, QuietLocal, vars
<1> QED  BY <1>1, <1>2, QuietStep, TypeCorrect, PTL DEF Spec

\* The ledger never says shipped or confirmed, and the job never says completed,
\* before Temu has taken the confirmation: for any number of concurrent requests,
\* any timeouts and refusals, late and lagging answers, and any interruptions.
THEOREM ShippedMeansConfirmed == Spec => []ShippedIsConfirmed
<1>1. QuietUntilAccepted => ShippedIsConfirmed
  BY DEF QuietUntilAccepted, Quiet, QuietRows, ShippedIsConfirmed
<1> QED  BY <1>1, QuietInvariance, PTL
===========================================================================
