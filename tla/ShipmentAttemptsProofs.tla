----------------------- MODULE ShipmentAttemptsProofs -----------------------
(***************************************************************************)
(* What the counters of the ledger are worth: whoever buys, refreshes and  *)
(* confirms next to whom, Temu never has more labels than the ledger has   *)
(* attempts, is never asked to confirm before that was counted, and the    *)
(* shipment keeps its completion job; a confirmed shipment stays confirmed *)
(* if requests do not overlap and Temu's order detail does not lag.  Taken *)
(* together: the ledger implements ShipmentOutcome.                        *)
(***************************************************************************)
EXTENDS ShipmentLedgerProofs, FiniteSetTheorems

USE DEF ledgerVars, orderVars, omsVars, heldVars, temuVars, cycleVars, boundVars, localVars

(***************************************************************************)
(* What the row operators do to the two counters and to the job.           *)
(***************************************************************************)

Counters(s) == <<s.attempts, s.confirms>>

Linked(j) == j.status # "none" /\ j.linked

\* The upsert of the completion job leaves a job that knows its shipment.
LEMMA EnsureJobLinks ==
    ASSUME NEW j \in Job, NEW st
    PROVE  Linked(EnsureJob(j, st))
<1>1. \A t : KeptFor(t) \subseteq JobStatus \ {"none"}
  BY DEF KeptFor, JobStatus
<1>2. CompletionJobStatus(st) # "none"
  BY DEF CompletionJobStatus
<1> QED  BY <1>1, <1>2 DEF EnsureJob, Linked

\* UpdateAutoFulfillment never unlinks it.
LEMMA UpdateJobLinks ==
    ASSUME NEW j \in Job, Linked(j), NEW link \in BOOLEAN, NEW st, st # "none", NEW t
    PROVE  Linked(UpdateJob(j, link, st, t))
BY DEF UpdateJob, Linked, Job

\* A recorded submission keeps the counters,
LEMMA SubmissionCounters ==
    ASSUME NEW s \in Shipment, NEW st, NEW p, NEW e
    PROVE  Submission(s, st, p, e).status = st /\ Counters(Submission(s, st, p, e)) = Counters(s)
BY DEF Submission, Shipment, Counters

\* with its transaction too,
LEMMA WriteSubmissionRows ==
    ASSUME RowTypes, NEW st, st # "none", NEW p, NEW e, UpdateShipmentSubmission(st, p, e)
    PROVE  Counters(ship') = Counters(ship) /\ ship'.status # "none" /\ Linked(job')
BY SubmissionCounters, EnsureJobLinks DEF UpdateShipmentSubmission, RowTypes

\* so does a label result,
LEMMA WriteResultRows ==
    ASSUME RowTypes, NEW st, st # "none", NEW t, NEW e, UpdateShipmentResult(st, t, e)
    PROVE  Counters(ship') = Counters(ship) /\ ship'.status # "none" /\ Linked(job')
<1>1. Counters(ship') = Counters(ship) /\ ship'.status = st
  BY DEF UpdateShipmentResult, RowTypes, Shipment, Counters
<1> QED  BY <1>1, EnsureJobLinks DEF UpdateShipmentResult, RowTypes

\* and the confirmation.
LEMMA MarkConfirmedRows ==
    ASSUME RowTypes, MarkShipmentConfirmed
    PROVE  Counters(ship') = Counters(ship) /\ ship'.status # "none" /\ Linked(job')
<1>1. Counters(ship') = Counters(ship) /\ ship'.status = "shipped"
  BY DEF MarkShipmentConfirmed, RowTypes, Shipment, Counters
<1> QED  BY <1>1, EnsureJobLinks DEF MarkShipmentConfirmed, RowTypes

\* A prepared attempt is one attempt more and no confirmation more.
LEMMA ResubmitCounters ==
    ASSUME NEW s, NEW c
    PROVE  /\ Resubmit(s, c).status = "submitting"
           /\ Resubmit(s, c).attempts = s.attempts + 1 /\ Resubmit(s, c).confirms = s.confirms
BY DEF Resubmit

----------------------------------------------------------------------------
(***************************************************************************)
(* What one step of actor a does to the rows and to its label.             *)
(***************************************************************************)

\* The row is not lost, its counters stay unless a begins a submission or the
\* confirmation, and a row that appears comes with its job.
RowsKept ==
    /\ ship.status # "none" => ship'.status # "none"
    /\ \/ Linked(job')
       \/ /\ ship'.status # "none" => ship.status # "none"
          /\ Linked(job) => Linked(job')

Quietly(a) ==
    /\ RowsKept
    /\ Counters(ship') = Counters(ship)
    /\ UNCHANGED <<labels, late, accepted>>
    /\ pc'[a] \notin {"create", "confirmCall"}

\* The attempt is in the ledger before the create is sent.
Submits(a) ==
    /\ RowsKept
    /\ pc[a] # "create" /\ pc'[a] = "create"
    /\ ship'.status # "none"
    /\ \/ ship'.attempts = ship.attempts + 1 /\ ship'.confirms = ship.confirms
       \/ ship.status = "none" /\ ship'.attempts = 1 /\ ship'.confirms = 0
    /\ UNCHANGED <<labels, late, accepted>>

\* The confirmation is counted before it is sent.
Counts(a) ==
    /\ RowsKept
    /\ ship'.status # "none"
    /\ ship'.attempts = ship.attempts /\ ship'.confirms > 0
    /\ pc'[a] = "confirmCall"
    /\ UNCHANGED <<labels, late, accepted>>

\* An answer of Temu: one label or one late create more at most.
Creates(a) ==
    /\ UNCHANGED <<ship, job, accepted>>
    /\ pc[a] = "create" /\ pc'[a] \notin {"create", "confirmCall"}
    /\ \/ late' = late /\ \E p : labels' = labels \cup {p}
       \/ labels' = labels /\ late' \in {late, late + 1}

Confirms(a) ==
    /\ UNCHANGED <<ship, job, labels, late>>
    /\ pc[a] = "confirmCall" /\ pc'[a] \notin {"create", "confirmCall"}

Does(a) == Quietly(a) \/ Submits(a) \/ Counts(a) \/ Creates(a) \/ Confirms(a)

\* Steps that leave the rows and Temu alone are quiet.
LEMMA Untouched ==
    ASSUME UNCHANGED <<ship, job, labels, late, accepted>>, NEW a,
           pc'[a] \notin {"create", "confirmCall"}
    PROVE  Quietly(a)
BY DEF Quietly, RowsKept, Counters

\* So are steps that only update the job.
LEMMA OnlyUpdated ==
    ASSUME RowTypes, UNCHANGED <<ship, labels, late, accepted>>, NEW a,
           pc'[a] \notin {"create", "confirmCall"},
           NEW link \in BOOLEAN, NEW st \in JobStatus, NEW t, job' = UpdateJob(job, link, st, t)
    PROVE  Quietly(a)
<1>1. Linked(job) => Linked(job')
  BY UpdateJobLinks DEF RowTypes, JobStatus
<1> QED  BY <1>1 DEF Quietly, RowsKept, Counters

\* So are those that write a row with its job.
LEMMA Written ==
    ASSUME Counters(ship') = Counters(ship), ship'.status # "none", Linked(job'),
           UNCHANGED <<labels, late, accepted>>, NEW a, pc'[a] \notin {"create", "confirmCall"}
    PROVE  Quietly(a)
BY DEF Quietly, RowsKept

\* A new submission.
LEMMA Prepared ==
    ASSUME UNCHANGED <<labels, late, accepted>>, NEW a, pc[a] # "create", pc'[a] = "create",
           Linked(job'), ship'.status # "none",
           \/ ship'.attempts = ship.attempts + 1 /\ ship'.confirms = ship.confirms
           \/ ship.status = "none" /\ ship'.attempts = 1 /\ ship'.confirms = 0
    PROVE  Submits(a)
BY DEF Submits, RowsKept

\* The steps of the service functions.
LEMMA ServiceDoes ==
    ASSUME TypeOK, NEW a \in Actors, Service(a)
    PROVE  Does(a)
<1> USE DEF Does
<1>0. RowTypes /\ LocalTypes /\ ship \in Shipment /\ job \in Job /\ late \in Nat
  BY DEF TypeOK, RowTypes, RemoteTypes
<1>m. \A l, s, r, f : Move(a, l, s, r, f) => pc'[a] = l
  BY <1>0, MoveFacts
<1>g. \A l : Goto(a, l) => pc'[a] = l
  BY <1>m DEF Goto
<1>r. \A s, r : Return(a, s, r) => pc'[a] = "done"
  BY <1>m DEF Return
<1>1. CASE CheckPurchase(a) \/ ReserveInventory(a)
  <2>1. pc'[a] \in {"done", "inventory", "reserve"}
    BY <1>1, <1>g, <1>r DEF CheckPurchase, ReserveInventory
  <2> QED  BY <1>1, <2>1, Untouched DEF CheckPurchase, ReserveInventory
<1>2. CASE ReserveShipment(a)
  <2>1. CASE ship.status = "none"
    <3>1. ship' = Resubmit(NoShipment, choice[a]) /\ pc'[a] = "create" /\ pc[a] = "reserve" /\ Linked(job')
      BY <1>0, <1>2, <1>m, <2>1, EnsureJobLinks DEF ReserveShipment
    <3>2. ship'.status # "none" /\ ship'.attempts = 1 /\ ship'.confirms = 0
      BY <3>1, ResubmitCounters DEF NoShipment
    <3> QED  BY <1>2, <2>1, <3>1, <3>2, Prepared DEF ReserveShipment
  <2>2. CASE ship.status # "none"
    <3>1. ship' = ship /\ pc'[a] \in {"recheck", "done"} /\ Linked(job')
      BY <1>0, <1>2, <1>m, <1>r, <2>2, EnsureJobLinks DEF ReserveShipment
    <3> QED  BY <1>2, <2>2, <3>1, Written DEF ReserveShipment, Counters
  <2> QED  BY <2>1, <2>2
<1>3. CASE Recheck(a) \/ LookUpPackages(a) \/ RecoverDetail(a)
  <2>1. pc'[a] \in {"done", "adoptRecheck", "prepareRetry", "adoptRefresh", "missing", "adoptRecover", "recoverQuote"}
    BY <1>3, <1>m, <1>r DEF Recheck, LookUpPackages, RecoverDetail, OrderDetail
  <2> QED  BY <1>3, <2>1, Untouched DEF Recheck, LookUpPackages, RecoverDetail, OrderDetail
<1>4. CASE AdoptRecheck(a) \/ AdoptRecover(a) \/ AdoptExisting(a) \/ AdoptRefresh(a) \/ RecordMissing(a)
  <2>1. pc'[a] \in {"done", "refresh", "result"}
    BY <1>4, <1>m, <1>g, <1>r DEF AdoptRecheck, AdoptRecover, AdoptExisting, AdoptRefresh, RecordMissing
  <2>2. \E st \in {"label_pending", "submission_unknown"} : \E p, e : UpdateShipmentSubmission(st, p, e)
    BY <1>4 DEF AdoptRecheck, AdoptRecover, AdoptExisting, AdoptRefresh, RecordMissing
  <2>3. Counters(ship') = Counters(ship) /\ ship'.status # "none" /\ Linked(job')
    BY <1>0, <2>2, WriteSubmissionRows
  <2> QED
    BY <1>4, <2>1, <2>3, Written DEF AdoptRecheck, AdoptRecover, AdoptExisting, AdoptRefresh, RecordMissing
<1>5. CASE PrepareShipmentRetry(a)
  <2>1. CASE ShipmentRetryable(ship)
    <3>1. ship' = Resubmit(ship, choice[a]) /\ pc'[a] = "create" /\ pc[a] = "prepareRetry" /\ Linked(job')
      BY <1>0, <1>5, <1>m, <2>1, EnsureJobLinks DEF PrepareShipmentRetry
    <3> QED  BY <1>5, <3>1, ResubmitCounters, Prepared DEF PrepareShipmentRetry
  <2> QED  BY <1>5, <1>r, <2>1, Untouched DEF PrepareShipmentRetry
<1>6. CASE CreateShipment(a)
  <2>1. pc[a] = "create" /\ pc'[a] \in {"record", "existing"}
    BY <1>6, <1>m DEF CreateShipment
  <2>2. \/ late' = late /\ \E p : labels' = labels \cup {p}
        \/ labels' = labels /\ late' \in {late, late + 1}
    BY <1>6 DEF CreateShipment, TemuCreates
  <2> QED  BY <1>6, <2>1, <2>2 DEF CreateShipment, Creates
<1>7. CASE FindExisting(a)
  <2>1. pc'[a] \in {"adoptExisting", "record"}
    BY <1>7, <1>m DEF FindExisting
  <2> QED  BY <1>7, <2>1, Untouched DEF FindExisting
<1>8. CASE RecordSubmission(a)
  <2>1. pc'[a] = "done"
    BY <1>8, <1>r DEF RecordSubmission
  <2> DEFINE u == Submission(ship, SubmissionStatus(reply[a], found[a]), found[a], SubmissionError(reply[a]))
             f == IF reply[a] = "address" THEN u.failed \cup {snap[a].carrier} ELSE u.failed
  <2>2. ship' = [u EXCEPT !.failed = f] /\ job' = EnsureJob(job, ship'.status)
    BY <1>8 DEF RecordSubmission
  <2>3. u.status # "none" /\ Counters(u) = Counters(ship)
    BY <1>0, SubmissionCounters DEF SubmissionStatus
  <2>4. ship'.status = u.status /\ Counters(ship') = Counters(u)
    <3>1. u = [ship EXCEPT !.status = u.status, !.pkgs = u.pkgs, !.error = u.error]
      BY <1>0 DEF Submission, Shipment
    <3> HIDE DEF f, u
    <3> QED  BY <1>0, <2>2, <3>1 DEF Counters, Shipment
  <2> QED  BY <1>0, <1>8, <2>1, <2>2, <2>3, <2>4, EnsureJobLinks, Written DEF RecordSubmission
<1>9. CASE BeginRefresh(a) \/ BeginConfirm(a) \/ Settle(a)
  <2>1. pc'[a] \in {"done", "detail", "result", "attempt"}
    BY <1>9, <1>m, <1>r DEF BeginRefresh, BeginConfirm, Settle
  <2>2. job' = job \/ job' = UpdateJob(job, TRUE, "waiting_oms", FALSE)
    BY <1>9 DEF BeginRefresh, BeginConfirm, Settle
  <2> QED
    BY <1>0, <1>9, <2>1, <2>2, Untouched, OnlyUpdated DEF BeginRefresh, BeginConfirm, Settle, JobStatus
<1>10. CASE QueryResult(a)
  <2>1. pc'[a] \in {"done", "recordResult"}
    BY <1>10, <1>m, <1>r DEF QueryResult
  <2> QED  BY <1>10, <2>1, Untouched DEF QueryResult
<1>11. CASE RecordResult(a)
  <2>1. pc'[a] = "annotate"
    BY <1>11, <1>m DEF RecordResult
  <2>2. \E st \in {"label_pending", "label_ready", "label_failed"} : \E t, e : UpdateShipmentResult(st, t, e)
    BY <1>11 DEF RecordResult, ResultStatus
  <2> QED  BY <1>0, <1>11, <2>1, <2>2, WriteResultRows, Written DEF RecordResult
<1>12. CASE AnnotateResult(a)
  <2>1. pc'[a] = "settle"
    BY <1>12, <1>g DEF AnnotateResult
  <2>2. ship'.status = ship.status /\ Counters(ship') = Counters(ship)
    BY <1>0, <1>12 DEF AnnotateResult, Shipment, Counters
  <2> QED  BY <1>12, <2>1, <2>2 DEF AnnotateResult, Quietly, RowsKept
<1>13. CASE RecordShipmentConfirmationAttempt(a)
  <2>1. CASE ship.status \in {"label_ready", "confirm_failed"}
    <3>1. ship' = CountConfirmation(ship) /\ pc'[a] = "confirmCall"
      BY <1>13, <1>g, <2>1 DEF RecordShipmentConfirmationAttempt
    <3>2. ship'.status = ship.status /\ ship'.attempts = ship.attempts /\ ship'.confirms > 0
      BY <1>0, <3>1, BoundsAssumption DEF CountConfirmation, Shipment
    <3> QED  BY <1>13, <2>1, <3>1, <3>2 DEF RecordShipmentConfirmationAttempt, Counts, RowsKept
  <2> QED  BY <1>13, <1>r, <2>1, Untouched DEF RecordShipmentConfirmationAttempt
<1>14. CASE CallConfirm(a)
  <2>1. pc[a] = "confirmCall" /\ pc'[a] = "recordConfirm"
    BY <1>14, <1>m DEF CallConfirm
  <2> QED  BY <1>14, <2>1 DEF CallConfirm, Confirms
<1>15. CASE RecordConfirm(a)
  <2>1. pc'[a] \in {"settle", "done"}
    BY <1>15, <1>g, <1>r DEF RecordConfirm
  <2>2. MarkShipmentConfirmed \/ \E t : UpdateShipmentResult("confirm_failed", t, "other")
    BY <1>15 DEF RecordConfirm
  <2> QED  BY <1>0, <1>15, <2>1, <2>2, WriteResultRows, MarkConfirmedRows, Written DEF RecordConfirm
<1>16. CASE BeginRecover(a) \/ CheckRecoveryQuote(a)
  <2>1. pc'[a] \in {"done", "recoverDetail", "prepareRecovery"}
    BY <1>16, <1>m, <1>g, <1>r DEF BeginRecover, CheckRecoveryQuote
  <2> QED  BY <1>16, <2>1, Untouched DEF BeginRecover, CheckRecoveryQuote
<1>17. CASE PrepareFailedShipmentRecovery(a)
  <2>1. CASE RecoveryPreparable(ship)
    <3> DEFINE u == Resubmit(ship, choice[a])
               f == u.failed \cup {snap[a].carrier}
    <3>1. ship' = [u EXCEPT !.failed = f] /\ pc'[a] = "create" /\ pc[a] = "prepareRecovery" /\ Linked(job')
      BY <1>0, <1>17, <1>m, <2>1, EnsureJobLinks DEF PrepareFailedShipmentRecovery
    <3>2. ship'.status = u.status /\ Counters(ship') = Counters(u)
      BY <3>1 DEF Resubmit, Counters
    <3>3. u.status # "none" /\ u.attempts = ship.attempts + 1 /\ u.confirms = ship.confirms
      BY ResubmitCounters
    <3> QED  BY <1>17, <3>1, <3>2, <3>3, Prepared DEF PrepareFailedShipmentRecovery, Counters
  <2> QED  BY <1>17, <1>r, <2>1, Untouched DEF PrepareFailedShipmentRecovery
<1>18. CASE BeginCheckOMS(a) \/ UpdateOMSSync(a) \/ ReleaseVerified(a)
  <2>1. pc'[a] \in {"done", "omsAnswer", "omsRelease"}
    BY <1>18, <1>m, <1>g, <1>r DEF BeginCheckOMS, UpdateOMSSync, ReleaseVerified
  <2> QED  BY <1>18, <2>1, Untouched DEF BeginCheckOMS, UpdateOMSSync, ReleaseVerified
<1> HIDE DEF Does
<1> QED
  BY <1>1, <1>2, <1>3, <1>4, <1>5, <1>6, <1>7, <1>8, <1>9, <1>10, <1>11, <1>12, <1>13, <1>14, <1>15,
     <1>16, <1>17, <1>18 DEF Service

\* Only actor a moves.
Alone(a) == \A b \in Actors \ {a} : pc'[b] = pc[b]

\* What nobody's step does: a late create that Temu applies, another row.
Outside ==
    /\ UNCHANGED <<pc, accepted>>
    /\ RowsKept /\ Counters(ship') = Counters(ship)
    /\ \/ UNCHANGED <<labels, late>>
       \/ UNCHANGED ship /\ late > 0 /\ late' = late - 1 /\ \E p : labels' \subseteq labels \cup {p}

\* The ways in which a run of the worker ends or goes on keep rows and labels.
LEMMA StopDoes ==
    ASSUME RowTypes, LocalTypes, NEW st \in JobStatus, NEW r, Stop(st, r),
           UNCHANGED <<ship, labels, late, accepted>>
    PROVE  Quietly(Worker) /\ Alone(Worker)
<1>1. PICK t \in BOOLEAN : job' = UpdateJob(job, snap[Worker].status # "none", st, t)
  BY DEF Stop, Markers, W
<1>2. pc'[Worker] = "idle" /\ Alone(Worker)
  BY MoveFacts, WorkerActor DEF Stop, Sleep, Rest, W, Alone
<1> QED  BY <1>1, <1>2, OnlyUpdated

\* StopAndRelease,
LEMMA StopAndReleaseDoes ==
    ASSUME RowTypes, LocalTypes, NEW r, StopAndRelease(r), UNCHANGED <<ship, labels, late, accepted>>
    PROVE  Quietly(Worker) /\ Alone(Worker)
<1>1. PICK t \in BOOLEAN : job' = UpdateJob(job, snap[Worker].status # "none", "failed", t)
  BY DEF StopAndRelease, Markers, W
<1>2. pc'[Worker] = "release" /\ Alone(Worker)
  BY MoveFacts, WorkerActor DEF StopAndRelease, Goto, W, Alone
<1> QED  BY <1>1, <1>2, OnlyUpdated DEF JobStatus

\* one of the two,
LEMMA StopReleasingFailedDoes ==
    ASSUME RowTypes, LocalTypes, NEW st \in JobStatus, NEW r, StopReleasingFailed(st, r),
           UNCHANGED <<ship, labels, late, accepted>>
    PROVE  Quietly(Worker) /\ Alone(Worker)
BY StopDoes, StopAndReleaseDoes DEF StopReleasingFailed

\* a step to another label, whether it updates the job or not.
LEMMA GoesOn ==
    ASSUME RowTypes, LocalTypes, NEW l, l \notin {"create", "confirmCall"}, NEW s, NEW r, NEW f,
           Move(Worker, l, s, r, f), UNCHANGED <<ship, labels, late, accepted>>,
           \/ UNCHANGED job
           \/ \E st \in JobStatus : \E t : job' = UpdateJob(job, TRUE, st, t)
    PROVE  Quietly(Worker) /\ Alone(Worker)
<1>1. pc'[Worker] = l /\ Alone(Worker)
  BY MoveFacts, WorkerActor DEF Alone
<1> QED  BY <1>1, Untouched, OnlyUpdated

\* The worker's own steps.
LEMMA RunDoes ==
    ASSUME TypeOK, RunAutoFulfillment
    PROVE  Does(Worker) /\ Alone(Worker)
<1>0. RowTypes /\ LocalTypes /\ ship \in Shipment /\ job \in Job
  BY DEF TypeOK, RowTypes
<1>e. \A r : /\ ErrorStatus(r, "queued") \in JobStatus /\ ErrorStatus(r, "confirming") \in JobStatus
             /\ ErrorStatus(r, "waiting_label") \in JobStatus
  BY DEF ErrorStatus, JobStatus
<1>j. {"skipped", "failed", "waiting_label", "waiting_oms", "completed", "running", "confirming"} \subseteq JobStatus
  BY DEF JobStatus
<1>d. Quietly(Worker) => Does(Worker)
  BY DEF Does
<1>g. \A l : Goto(Worker, l) => Move(Worker, l, snap[Worker], "none", {})
  BY DEF Goto
<1>1. CASE AfterPurchase
  <2>0. UNCHANGED <<ship, labels, late, accepted>>  BY <1>1 DEF AfterPurchase, workerFrame
  <2>1. \/ \E st \in {"skipped", ErrorStatus(reply[Worker], "queued")} : Stop(st, reply[Worker])
        \/ StopAndRelease(reply[Worker])
        \/ /\ Goto(Worker, "dispatch")
           /\ \/ UNCHANGED job
              \/ \E st \in {"running", "waiting_label"} : \E t : job' = UpdateJob(job, TRUE, st, t)
    BY <1>1 DEF AfterPurchase, W
  <2> QED  BY <1>0, <1>e, <1>j, <1>d, <1>g, <2>0, <2>1, StopDoes, StopAndReleaseDoes, GoesOn
<1>2. CASE DispatchExhausted
  BY <1>0, <1>j, <1>d, <1>2, StopDoes DEF DispatchExhausted, workerFrame
<1>3. CASE DispatchUnknown \/ DispatchPending \/ DispatchReady \/ DispatchShipped \/ DispatchFailed
  <2>0. UNCHANGED <<ship, labels, late, accepted>>
    BY <1>3 DEF DispatchUnknown, DispatchPending, DispatchReady, DispatchShipped, DispatchFailed, workerFrame
  <2>1. \/ Stop("waiting_label", "none")
        \/ /\ \E l \in {"refresh", "confirm", "checkOMS", "failedLabel"} : Goto(Worker, l)
           /\ UNCHANGED job \/ job' = UpdateJob(job, TRUE, "confirming", FALSE)
    BY <1>3 DEF DispatchUnknown, DispatchPending, DispatchReady, DispatchShipped, DispatchFailed, Begin, W
  <2> QED  BY <1>0, <1>j, <1>d, <1>g, <2>0, <2>1, StopDoes, GoesOn
<1>4. CASE AfterVerify
  <2>0. UNCHANGED <<ship, labels, late, accepted>>  BY <1>4 DEF AfterVerify, workerFrame
  <2>1. \/ Goto(Worker, "dispatch") /\ UNCHANGED job
        \/ Stop("waiting_label", "none")
        \/ StopAndRelease("none")
        \/ \E st \in {"failed", ErrorStatus(reply[Worker], "waiting_label")} : StopReleasingFailed(st, reply[Worker])
        \/ Move(Worker, "retryUnknown", snap[Worker], reply[Worker], {}) /\ UNCHANGED job
    BY <1>4 DEF AfterVerify, Iterate, W
  <2> QED
    BY <1>0, <1>e, <1>j, <1>d, <1>g, <2>0, <2>1, StopDoes, StopAndReleaseDoes, StopReleasingFailedDoes, GoesOn
<1>5. CASE PrepareUnknownShipmentRetry
  <2>0. UNCHANGED <<labels, late, accepted>> /\ pc[Worker] = "retryUnknown"
    BY <1>5 DEF PrepareUnknownShipmentRetry, workerFrame, W
  <2>1. CASE UnknownPreparable(ship)
    <3> DEFINE u == Submission(ship, "submitting", {}, "none")
    <3>1. ship' = [u EXCEPT !.attempts = @ + 1] /\ Move(Worker, "create", ship', "none", {}) /\ job' = job
      BY <1>5, <2>1 DEF PrepareUnknownShipmentRetry, W
    <3>2. u \in Shipment /\ u.status = "submitting" /\ Counters(u) = Counters(ship)
      BY <1>0, SubmissionCounters, SubmissionType DEF ShipmentStatus
    <3>3. ship'.status = "submitting" /\ ship'.attempts = ship.attempts + 1 /\ ship'.confirms = ship.confirms
      <4> HIDE DEF u
      <4> QED  BY <3>1, <3>2 DEF Shipment, Counters
    <3>4. ship.status # "none"
      BY <2>1 DEF UnknownPreparable
    <3>5. pc'[Worker] = "create" /\ Alone(Worker)
      BY <1>0, <3>1, MoveFacts, WorkerActor DEF Alone
    <3> QED  BY <2>0, <3>1, <3>3, <3>4, <3>5 DEF Does, Submits, RowsKept
  <2> QED
    BY <1>0, <1>d, <1>5, <2>0, <2>1, StopAndReleaseDoes DEF PrepareUnknownShipmentRetry
<1>6. CASE AfterResubmit \/ AfterPending
  <2>0. UNCHANGED <<ship, labels, late, accepted>>  BY <1>6 DEF AfterResubmit, AfterPending, workerFrame
  <2>1. \/ Goto(Worker, "dispatch") /\ UNCHANGED job
        \/ Stop("waiting_label", "none")
        \/ \E st \in {"waiting_label", "failed", ErrorStatus(reply[Worker], "waiting_label")} :
              StopReleasingFailed(st, reply[Worker])
    BY <1>6 DEF AfterResubmit, AfterPending, Iterate, W
  <2> QED  BY <1>0, <1>e, <1>j, <1>d, <1>g, <2>0, <2>1, StopDoes, StopReleasingFailedDoes, GoesOn
<1>7. CASE AfterConfirm \/ AfterCoverage \/ AfterFallback
  <2>0. UNCHANGED <<ship, labels, late, accepted>>
    BY <1>7 DEF AfterConfirm, AfterCoverage, AfterFallback, workerFrame
  <2>1. \/ \E l \in {"dispatch", "failedLabel"} : Goto(Worker, l) /\ UNCHANGED job
        \/ \E st \in {"failed", ErrorStatus(reply[Worker], "confirming"),
                      ErrorStatus(reply[Worker], "waiting_label")} : Stop(st, reply[Worker])
    BY <1>7 DEF AfterConfirm, AfterCoverage, AfterFallback, Iterate, W
  <2> QED  BY <1>0, <1>e, <1>j, <1>d, <1>g, <2>0, <2>1, StopDoes, GoesOn
<1>8. CASE AfterCheckOMS
  <2>0. UNCHANGED <<ship, labels, late, accepted>>  BY <1>8 DEF AfterCheckOMS, workerFrame
  <2>1. \E st \in {"failed", "completed", "waiting_oms"} : Stop(st, reply[Worker])
    BY <1>8 DEF AfterCheckOMS, W
  <2> QED  BY <1>0, <1>j, <1>d, <2>0, <2>1, StopDoes
<1>9. CASE FailedLabel
  <2>0. UNCHANGED <<labels, late, accepted>>  BY <1>9 DEF FailedLabel
  <2>1. CASE UNCHANGED ship /\ StopAndRelease("none")
    BY <1>0, <1>d, <2>0, <2>1, StopAndReleaseDoes
  <2>2. CASE /\ ship' = [ship EXCEPT !.failed = @ \cup {snap[Worker].carrier}]
             /\ UNCHANGED job \/ job' = UpdateJob(job, TRUE, "skipped", FALSE)
             /\ \E l \in {"release", "fallbackQuote"} : Goto(Worker, l)
    <3>1. ship'.status = ship.status /\ Counters(ship') = Counters(ship)
      BY <1>0, <2>2 DEF Shipment, Counters
    <3>2. pc'[Worker] \notin {"create", "confirmCall"} /\ Alone(Worker)
      BY <1>0, <2>2, MoveFacts, WorkerActor DEF Alone, Goto
    <3>3. Linked(job) => Linked(job')
      BY <1>0, <2>2, UpdateJobLinks
    <3> QED  BY <2>0, <3>1, <3>2, <3>3 DEF Does, Quietly, RowsKept
  <2> QED  BY <1>9, <2>1, <2>2, Zenon DEF FailedLabel, Begin, W
<1>10. CASE QuoteFallback
  <2>0. UNCHANGED <<ship, labels, late, accepted>>  BY <1>10 DEF QuoteFallback, workerFrame
  <2>1. (Goto(Worker, "recover") /\ UNCHANGED job) \/ \E r : Stop("failed", r)
    BY <1>10 DEF QuoteFallback, W
  <2> QED  BY <1>0, <1>j, <1>d, <1>g, <2>0, <2>1, StopDoes, GoesOn
<1>11. CASE ReleaseReservation
  <2>0. UNCHANGED <<ship, job, labels, late, accepted>> /\ Move(Worker, "idle", NoShipment, "none", {})
    BY <1>11 DEF ReleaseReservation, workerFrame, Sleep, Rest, W
  <2> QED  BY <1>0, <1>d, <2>0, GoesOn
<1> QED
  BY <1>1, <1>2, <1>3, <1>4, <1>5, <1>6, <1>7, <1>8, <1>9, <1>10, <1>11 DEF RunAutoFulfillment

\* Every step is one of these.
LEMMA StepDoes ==
    ASSUME TypeOK, Next
    PROVE  Outside \/ \E a \in Actors : Does(a) /\ Alone(a)
<1>0. RowTypes /\ LocalTypes /\ ship \in Shipment /\ job \in Job
  BY DEF TypeOK, RowTypes
<1>d. \A a : Quietly(a) => Does(a)
  BY DEF Does
<1>1. ASSUME NEW a \in Actors, Service(a) PROVE Does(a) /\ Alone(a)
  BY <1>0, <1>1, ServiceDoes, ServiceFrame DEF Alone
<1>2. ASSUME NEW a \in Actors, Interrupt(a) PROVE Quietly(a) /\ Alone(a)
  <2>1. pc'[a] = "idle" /\ Alone(a) /\ UNCHANGED <<ship, job, labels, late, accepted>>
    BY <1>0, <1>2, MoveFacts DEF Interrupt, Rest, Alone
  <2> QED  BY <2>1, Untouched
<1>3. CASE RepairShipmentCompletionJobs
  <2>1. Linked(job')
    BY <1>3 DEF RepairShipmentCompletionJobs, RepairJob, Linked
  <2> QED  BY <1>3, <2>1 DEF RepairShipmentCompletionJobs, Outside, RowsKept, Counters
<1>4. CASE ClaimAutoFulfillment
  <2>1. pc'[Worker] \in {"purchase", "dispatch"} /\ Alone(Worker)
    BY <1>0, <1>4, MoveFacts, WorkerActor DEF ClaimAutoFulfillment, W, Alone
  <2>2. Linked(job) => Linked(job')
    BY <1>0, <1>4 DEF ClaimAutoFulfillment, ClaimJob, Linked, Job
  <2>3. Quietly(Worker)
    BY <1>4, <2>1, <2>2 DEF ClaimAutoFulfillment, workerFrame, Quietly, RowsKept, Counters
  <2> QED  BY <1>d, <2>1, <2>3, WorkerActor
<1>5. CASE RunAutoFulfillment
  BY <1>5, RunDoes, WorkerActor
<1>6. ASSUME NEW h \in Handlers, EndRequest(h) PROVE Quietly(h) /\ Alone(h) /\ h \in Actors
  <2>1. h \in Actors  BY DEF Actors
  <2>2. pc'[h] = "idle" /\ Alone(h)
    BY <1>0, <1>6, <2>1, MoveFacts DEF EndRequest, Rest, Alone
  <2>3. Linked(job) => Linked(job')
    BY <1>0, <1>6, EnsureJobLinks DEF EndRequest
  <2> QED  BY <1>6, <2>1, <2>2, <2>3 DEF EndRequest, Quietly, RowsKept, Counters
<1>7. ASSUME NEW h \in Handlers, NEW o \in HandlerOps, BeginRequest(h, o)
      PROVE  Quietly(h) /\ Alone(h) /\ h \in Actors
  <2>1. h \in Actors  BY DEF Actors
  <2>2. pc'[h] = o /\ Alone(h) /\ o \notin {"create", "confirmCall"}
    BY <1>0, <1>7, <2>1, MoveFacts, ActorsAssumption DEF BeginRequest, Goto, Alone, AllHandlerOps
  <2> QED  BY <1>7, <2>1, <2>2, Untouched DEF BeginRequest
<1>8. CASE EnqueueAutoFulfillment \/ ResolveMissingOMSPlatformOrder
  <2>1. EnqueueAutoFulfillment => (Linked(job) => Linked(job'))
    BY <1>0 DEF EnqueueAutoFulfillment, EnqueueJob, Linked, Job
  <2>2. ResolveMissingOMSPlatformOrder => job'.status = "completed" /\ job'.linked = job.linked
    BY <1>0 DEF ResolveMissingOMSPlatformOrder, Job
  <2> QED
    BY <1>8, <2>1, <2>2
    DEF EnqueueAutoFulfillment, ResolveMissingOMSPlatformOrder, Outside, RowsKept, Counters, Linked
<1>9. CASE SyncOrder \/ ApproveManualReview \/ PrintLabel
  BY <1>9 DEF SyncOrder, ApproveManualReview, PrintLabel, Outside, RowsKept, Counters
<1>10. CASE ApplyLateCreate
  BY <1>10 DEF ApplyLateCreate, TemuCreates, Outside, RowsKept, Counters
<1> QED
  BY <1>d, <1>1, <1>2, <1>3, <1>4, <1>5, <1>6, <1>7, <1>8, <1>9, <1>10 DEF Next, Requests, Environment

(***************************************************************************)
(* The three invariants.                                                   *)
(***************************************************************************)

\* A row comes with a job, and no statement takes the job away again.
LEMMA HasJobStep ==
    ASSUME TypeOK, ShipmentHasJob, Next
    PROVE  ShipmentHasJob'
<1>1. RowsKept \/ UNCHANGED <<ship, job>>
  BY StepDoes DEF Outside, Does, Quietly, Submits, Counts, Creates, Confirms
<1> QED  BY <1>1 DEF RowsKept, ShipmentHasJob, Linked

\* Whoever refreshes, confirms, recovers or runs the job next to whom, an order
\* with a shipment has a completion job that is bound to it: an error path that saw
\* no shipment unbinds none that another actor has made.
THEOREM ShipmentsHaveJobs == Spec => []ShipmentHasJob
<1>1. Init => ShipmentHasJob
  BY DEF Init, ShipmentHasJob, NoShipment
<1>2. ShipmentHasJob /\ UNCHANGED vars => ShipmentHasJob'
  BY DEF ShipmentHasJob, vars
<1> QED  BY <1>1, <1>2, HasJobStep, TypeCorrect, PTL DEF Spec

\* The counter is ahead of whoever is about to ask Temu, and of Temu's answer.
Counted ==
    /\ ship.status = "none" => ship.confirms = 0
    /\ accepted \/ (\E a \in Actors : pc[a] = "confirmCall") => ship.confirms > 0

\* Only the confirmation attempt brings an actor into the call.
LEMMA CountedStep ==
    ASSUME TypeOK, Counted, Next
    PROVE  Counted'
<1>0. ship.confirms \in Nat
  BY BoundsAssumption DEF TypeOK, RowTypes, Shipment
<1>1. CASE Outside
  <2>1. ship'.confirms = ship.confirms /\ (ship'.status = "none" => ship.status = "none")
    BY <1>1 DEF Outside, RowsKept, Counters
  <2> QED  BY <1>1, <2>1 DEF Outside, Counted
<1>2. ASSUME NEW a \in Actors, Does(a), Alone(a) PROVE Counted'
  <2>1. CASE Quietly(a)
    <3>1. ship'.confirms = ship.confirms /\ (ship'.status = "none" => ship.status = "none")
      BY <2>1 DEF Quietly, RowsKept, Counters
    <3>2. \A b \in Actors : pc'[b] = "confirmCall" => pc[b] = "confirmCall"
      BY <1>2, <2>1 DEF Quietly, Alone
    <3> QED  BY <2>1, <3>1, <3>2 DEF Quietly, Counted
  <2>2. CASE Submits(a)
    <3>1. ship'.confirms = ship.confirms
      BY <2>2 DEF Submits, Counted
    <3>2. \A b \in Actors : pc'[b] = "confirmCall" => pc[b] = "confirmCall"
      BY <1>2, <2>2 DEF Submits, Alone
    <3> QED  BY <2>2, <3>1, <3>2 DEF Submits, Counted
  <2>3. CASE Counts(a)
    BY <2>3 DEF Counts, Counted
  <2>4. CASE Creates(a)
    <3>1. \A b \in Actors : pc'[b] = "confirmCall" => pc[b] = "confirmCall"
      BY <1>2, <2>4 DEF Creates, Alone
    <3> QED  BY <2>4, <3>1 DEF Creates, Counted
  <2>5. CASE Confirms(a)
    BY <2>5 DEF Confirms, Counted
  <2> QED  BY <1>2, <2>1, <2>2, <2>3, <2>4, <2>5 DEF Does
<1> QED  BY <1>1, <1>2, StepDoes

\* A confirmation is counted before it is asked for.
LEMMA CountedInvariance == Spec => []Counted
<1>1. Init => Counted
  BY DEF Init, Counted, NoShipment
<1>2. Counted /\ UNCHANGED vars => Counted'
  BY DEF Counted, vars
<1> QED  BY <1>1, <1>2, CountedStep, TypeCorrect, PTL DEF Spec

\* As long as no confirmation is counted, Temu was not asked for one: the repair of
\* jobs, which goes by the counter, never confirms twice.
THEOREM UncountedAreUnconfirmed == Spec => []UncountedIsUnconfirmed
<1>1. Counted => UncountedIsUnconfirmed
  BY DEF Counted, UncountedIsUnconfirmed
<1> QED  BY <1>1, CountedInvariance, PTL

\* The actors that have written an attempt down and not heard of it yet.
Creating == {a \in Actors : pc[a] = "create"}

\* Every label, every late create and every create under way has its attempt.
Covered ==
    /\ ship.status = "none" => ship.attempts = 0
    /\ IsFiniteSet(labels) /\ IsFiniteSet(Creating)
    /\ Cardinality(labels) + late + Cardinality(Creating) <= ship.attempts

\* The size of what a step adds to or takes from a finite set.
LEMMA SizeOf ==
    ASSUME NEW S, IsFiniteSet(S)
    PROVE  /\ Cardinality(S) \in Nat
           /\ \A T : T \subseteq S => IsFiniteSet(T) /\ Cardinality(T) <= Cardinality(S) /\ Cardinality(T) \in Nat
           /\ \A x : IsFiniteSet(S \cup {x}) /\ Cardinality(S \cup {x}) <= Cardinality(S) + 1
                                             /\ Cardinality(S \cup {x}) \in Nat
           /\ \A x \in S : IsFiniteSet(S \ {x}) /\ Cardinality(S \ {x}) = Cardinality(S) - 1
<1>1. Cardinality(S) \in Nat
  BY FS_CardinalityType
<1>2. ASSUME NEW T, T \subseteq S
      PROVE  IsFiniteSet(T) /\ Cardinality(T) <= Cardinality(S) /\ Cardinality(T) \in Nat
  BY <1>2, FS_Subset, FS_CardinalityType
<1>3. ASSUME NEW x
      PROVE  IsFiniteSet(S \cup {x}) /\ Cardinality(S \cup {x}) <= Cardinality(S) + 1
                                     /\ Cardinality(S \cup {x}) \in Nat
  <2>1. /\ IsFiniteSet(S \cup {x})
        /\ Cardinality(S \cup {x}) = IF x \in S THEN Cardinality(S) ELSE Cardinality(S) + 1
    BY FS_AddElement
  <2> QED  BY <1>1, <2>1
<1>4. ASSUME NEW x \in S
      PROVE  IsFiniteSet(S \ {x}) /\ Cardinality(S \ {x}) = Cardinality(S) - 1
  <2>1. /\ IsFiniteSet(S \ {x})
        /\ Cardinality(S \ {x}) = IF x \in S THEN Cardinality(S) - 1 ELSE Cardinality(S)
    BY FS_RemoveElement
  <2> QED  BY <2>1
<1> QED  BY <1>1, <1>2, <1>3, <1>4

\* An attempt is written down before a create is sent, and used up by its answer.
LEMMA CoveredStep ==
    ASSUME TypeOK, Covered, Next
    PROVE  Covered'
<1>0. /\ late \in Nat /\ ship.attempts \in Nat
      /\ IsFiniteSet(labels) /\ IsFiniteSet(Creating)
      /\ Cardinality(labels) \in Nat /\ Cardinality(Creating) \in Nat
      /\ Cardinality(labels) + late + Cardinality(Creating) <= ship.attempts
  BY SizeOf DEF TypeOK, RowTypes, RemoteTypes, Shipment, Covered
<1>1. CASE Outside
  <2>1. Creating' = Creating
    BY <1>1 DEF Outside, Creating
  <2>2. ship'.attempts = ship.attempts /\ (ship'.status = "none" => ship.status = "none")
    BY <1>1 DEF Outside, RowsKept, Counters
  <2>3. CASE UNCHANGED <<labels, late>>
    BY <1>0, <2>1, <2>2, <2>3 DEF Covered
  <2>4. ASSUME late > 0, late' = late - 1, NEW p, labels' \subseteq labels \cup {p} PROVE Covered'
    <3>1. IsFiniteSet(labels') /\ Cardinality(labels') \in Nat /\ Cardinality(labels') <= Cardinality(labels) + 1
      <4>1. /\ IsFiniteSet(labels \cup {p}) /\ Cardinality(labels \cup {p}) \in Nat
            /\ Cardinality(labels \cup {p}) <= Cardinality(labels) + 1
        BY <1>0, SizeOf
      <4>2. IsFiniteSet(labels') /\ Cardinality(labels') \in Nat /\ Cardinality(labels') <= Cardinality(labels \cup {p})
        BY <4>1, <2>4, SizeOf
      <4> QED  BY <1>0, <4>1, <4>2
    <3> QED  BY <1>0, <2>1, <2>2, <2>4, <3>1 DEF Covered
  <2> QED  BY <1>1, <2>3, <2>4 DEF Outside
<1>2. ASSUME NEW a \in Actors, Does(a), Alone(a) PROVE Covered'
  <2>1. CASE Quietly(a) \/ Counts(a) \/ Confirms(a)
    <3>1. Creating' \subseteq Creating
      BY <1>2, <2>1 DEF Quietly, Counts, Confirms, Alone, Creating
    <3>2. IsFiniteSet(Creating') /\ Cardinality(Creating') \in Nat /\ Cardinality(Creating') <= Cardinality(Creating)
      BY <1>0, <3>1, SizeOf
    <3>3. /\ ship'.attempts = ship.attempts /\ (ship'.status = "none" => ship.status = "none")
          /\ UNCHANGED <<labels, late>>
      BY <2>1 DEF Quietly, Counts, Confirms, RowsKept, Counters
    <3> QED  BY <1>0, <3>2, <3>3 DEF Covered
  <2>2. CASE Submits(a)
    <3>1. Creating' = Creating \cup {a}
      BY <1>2, <2>2 DEF Submits, Alone, Creating
    <3>2. /\ IsFiniteSet(Creating') /\ Cardinality(Creating') \in Nat
          /\ Cardinality(Creating') <= Cardinality(Creating) + 1
      BY <1>0, <3>1, SizeOf
    <3>3. ship'.attempts = ship.attempts + 1 /\ ship'.status # "none" /\ UNCHANGED <<labels, late>>
      BY <2>2 DEF Submits, Covered
    <3> QED  BY <1>0, <3>2, <3>3 DEF Covered
  <2>3. CASE Creates(a)
    <3>1. Creating' = Creating \ {a} /\ a \in Creating
      BY <1>2, <2>3 DEF Creates, Alone, Creating
    <3>2. IsFiniteSet(Creating') /\ Cardinality(Creating') = Cardinality(Creating) - 1
      BY <1>0, <3>1, SizeOf
    <3>3. UNCHANGED ship
      BY <2>3 DEF Creates
    <3>4. CASE labels' = labels /\ late' \in {late, late + 1}
      BY <1>0, <3>2, <3>3, <3>4 DEF Covered
    <3>5. ASSUME late' = late, NEW p, labels' = labels \cup {p} PROVE Covered'
      <4>1. /\ IsFiniteSet(labels') /\ Cardinality(labels') \in Nat
            /\ Cardinality(labels') <= Cardinality(labels) + 1
        BY <1>0, <3>5, SizeOf
      <4> QED  BY <1>0, <3>2, <3>3, <3>5, <4>1 DEF Covered
    <3> QED  BY <2>3, <3>4, <3>5 DEF Creates
  <2> QED  BY <1>2, <2>1, <2>2, <2>3 DEF Does
<1> QED  BY <1>1, <1>2, StepDoes

\* Recorded attempts cover the packages there are and may still be.
LEMMA CoveredInvariance == Spec => []Covered
<1>1. Init => Covered
  <2> SUFFICES ASSUME Init PROVE Covered
    OBVIOUS
  <2>1. Creating = {} /\ labels = {} /\ late = 0 /\ ship = NoShipment
    BY DEF Init, Creating
  <2> QED  BY <2>1, FS_EmptySet DEF Covered, NoShipment
<1>2. Covered /\ UNCHANGED vars => Covered'
  BY DEF Covered, Creating, vars
<1> QED  BY <1>1, <1>2, CoveredStep, TypeCorrect, PTL DEF Spec

\* However many buy at once, are timed out, crash or are applied late: what the
\* ledger has counted covers every label the shop may have to pay for.
THEOREM LabelsAreCovered == Spec => []LabelsWithinAttempts
<1>1. TypeOK /\ Covered => LabelsWithinAttempts
  BY SizeOf DEF Covered, LabelsWithinAttempts, TypeOK, RemoteTypes, RowTypes, Shipment
<1> QED  BY <1>1, CoveredInvariance, TypeCorrect, PTL

(***************************************************************************)
(* A confirmed shipment stays confirmed, if operators make one request at  *)
(* a time and Temu's order detail shows the packages it created.           *)
(***************************************************************************)

\* The labels from which an actor goes on with what it read or heard before, and
\* may write over a status it has not looked at.  From all others it looks first.
Overwriting == {"recheck", "adoptRecheck", "prepareRetry", "create", "existing", "adoptExisting", "record",
                "detail", "missing", "adoptRefresh", "result", "recordResult", "confirmCall", "recordConfirm",
                "recoverDetail", "adoptRecover"}

\* What a step of actor a does to a confirmed row: only a prepared retry clears the
\* confirmation, and counts as a submission; a confirmation is written with the status, and nothing is left to be
\* written over it; who looks at a shipped row leaves it; and a retry is prepared
\* only while Temu shows no package.
Respects(a) ==
    /\ ship.confirmed /\ ~ship'.confirmed =>
          /\ pc[a] = "prepareRetry" /\ ship.status # "shipped"
          /\ ship'.attempts = ship.attempts + 1 /\ ship'.confirms = ship.confirms
          /\ UNCHANGED <<labels, accepted>>
    /\ ~ship.confirmed /\ ship'.confirmed =>
          /\ ship'.status = "shipped" /\ pc'[a] \notin Overwriting
          /\ Counters(ship') = Counters(ship) /\ UNCHANGED <<labels, accepted>>
    /\ ship.status = "shipped" /\ pc[a] \notin Overwriting =>
          ship'.status = "shipped" /\ pc'[a] \notin Overwriting
    /\ "lag" \notin Faults /\ pc'[a] = "prepareRetry" => labels = {} /\ UNCHANGED ship

\* An order without a row is not confirmed.
RowFirst == ship.status = "none" => ~ship.confirmed

\* Steps that leave status and confirmation alone respect them, unless they go on to
\* write.
LEMMA Looks ==
    ASSUME NEW a, ship'.confirmed = ship.confirmed, ship'.status = ship.status,
           pc'[a] \notin Overwriting
    PROVE  Respects(a)
BY DEF Respects, Overwriting

\* Steps that go on to write, or write, must have something to write.
LEMMA Writes ==
    ASSUME NEW a, ship'.confirmed = ship.confirmed, pc'[a] # "prepareRetry",
           ship.status # "shipped" \/ pc[a] \in Overwriting
    PROVE  Respects(a)
BY DEF Respects

\* The three ways to write the row of a submission or of a label result.
LEMMA WritesKeepConfirmed ==
    ASSUME ship \in Shipment
    PROVE  /\ \A st, p, e : UpdateShipmentSubmission(st, p, e) => ship'.confirmed = ship.confirmed
           /\ \A st, t, e : UpdateShipmentResult(st, t, e) => ship'.confirmed = ship.confirmed
           /\ MarkShipmentConfirmed => ship'.status = "shipped"
BY DEF UpdateShipmentSubmission, UpdateShipmentResult, MarkShipmentConfirmed, Submission, Shipment

\* The service functions respect the confirmation.
LEMMA ServiceRespects ==
    ASSUME TypeOK, RowFirst, NEW a \in Actors, Service(a)
    PROVE  Respects(a)
<1>0. LocalTypes /\ ship \in Shipment
  BY DEF TypeOK, RowTypes
<1>m. \A l, s, r, f : Move(a, l, s, r, f) => pc'[a] = l
  BY <1>0, MoveFacts
<1>g. \A l : Goto(a, l) => pc'[a] = l
  BY <1>m DEF Goto
<1>r. \A s, r : Return(a, s, r) => pc'[a] = "done"
  BY <1>m DEF Return
<1>o. "lag" \notin Faults => Details = {labels}
  BY DEF Details
<1>1. CASE CheckPurchase(a) \/ ReserveInventory(a)
  <2>1. pc'[a] \in {"done", "inventory", "reserve"} /\ UNCHANGED ship
    BY <1>1, <1>g, <1>r DEF CheckPurchase, ReserveInventory
  <2> QED  BY <2>1, Looks DEF Overwriting
<1>2. CASE ReserveShipment(a)
  <2>1. CASE ship.status = "none"
    <3>1. ~ship'.confirmed /\ pc'[a] = "create" /\ ~ship.confirmed
      BY <1>2, <1>m, <2>1 DEF ReserveShipment, Resubmit, RowFirst
    <3> QED  BY <2>1, <3>1 DEF Respects
  <2>2. CASE ship.status # "none" /\ ShipmentRetryable(ship)
    <3>1. ship' = ship /\ pc'[a] = "recheck" /\ ship.status # "shipped"
      BY <1>2, <1>m, <2>2 DEF ReserveShipment, ShipmentRetryable
    <3> QED  BY <3>1, Writes
  <2>3. CASE ship.status # "none" /\ ~ShipmentRetryable(ship)
    <3>1. ship' = ship /\ pc'[a] = "done"
      BY <1>2, <1>r, <2>3 DEF ReserveShipment
    <3> QED  BY <3>1, Looks DEF Overwriting
  <2> QED  BY <2>1, <2>2, <2>3
<1>3. CASE Recheck(a)
  <2>1. /\ ship' = ship /\ pc[a] = "recheck"
        /\ pc'[a] \in {"done", "adoptRecheck", "prepareRetry"}
        /\ "lag" \notin Faults /\ pc'[a] = "prepareRetry" => labels = {}
    BY <1>3, <1>m, <1>r, <1>o DEF Recheck, OrderDetail
  <2> QED  BY <2>1 DEF Respects, Overwriting
<1>4. CASE LookUpPackages(a) \/ RecoverDetail(a)
  <2>1. /\ ship' = ship /\ pc[a] \in {"detail", "recoverDetail"}
        /\ pc'[a] \in {"done", "adoptRefresh", "missing", "adoptRecover", "recoverQuote"}
    BY <1>4, <1>m, <1>r DEF LookUpPackages, RecoverDetail, OrderDetail
  <2> QED  BY <2>1, Writes DEF Overwriting
<1>5. CASE AdoptRecheck(a) \/ AdoptRecover(a) \/ AdoptExisting(a) \/ AdoptRefresh(a) \/ RecordMissing(a)
  <2>1. /\ pc[a] \in {"adoptRecheck", "adoptRecover", "adoptExisting", "adoptRefresh", "missing"}
        /\ pc'[a] \in {"done", "refresh", "result"}
    BY <1>5, <1>m, <1>g, <1>r DEF AdoptRecheck, AdoptRecover, AdoptExisting, AdoptRefresh, RecordMissing
  <2>2. ship'.confirmed = ship.confirmed
    BY <1>0, <1>5, WritesKeepConfirmed
    DEF AdoptRecheck, AdoptRecover, AdoptExisting, AdoptRefresh, RecordMissing
  <2> QED  BY <2>1, <2>2, Writes DEF Overwriting
<1>6. CASE PrepareShipmentRetry(a)
  <2>1. CASE ShipmentRetryable(ship)
    <3>1. ~ship'.confirmed /\ pc[a] = "prepareRetry" /\ pc'[a] = "create" /\ ship.status # "shipped"
      BY <1>6, <1>m, <2>1 DEF PrepareShipmentRetry, Resubmit, ShipmentRetryable
    <3>2. /\ ship'.attempts = ship.attempts + 1 /\ ship'.confirms = ship.confirms
          /\ UNCHANGED <<labels, accepted>>
      BY <1>6, <2>1 DEF PrepareShipmentRetry, Resubmit, temuVars
    <3> QED  BY <3>1, <3>2 DEF Respects
  <2>2. CASE ~ShipmentRetryable(ship)
    <3>1. ship' = ship /\ pc'[a] = "done"
      BY <1>6, <1>r, <2>2 DEF PrepareShipmentRetry
    <3> QED  BY <3>1, Looks DEF Overwriting
  <2> QED  BY <2>1, <2>2
<1>7. CASE CreateShipment(a) \/ FindExisting(a) \/ QueryResult(a) \/ CallConfirm(a)
  <2>1. /\ ship' = ship /\ pc[a] \in {"create", "existing", "result", "confirmCall"}
        /\ pc'[a] \in {"record", "existing", "adoptExisting", "done", "recordResult", "recordConfirm"}
    BY <1>7, <1>m, <1>r DEF CreateShipment, FindExisting, QueryResult, CallConfirm
  <2> QED  BY <2>1, Writes DEF Overwriting
<1>8. CASE RecordSubmission(a)
  <2> DEFINE u == Submission(ship, SubmissionStatus(reply[a], found[a]), found[a], SubmissionError(reply[a]))
             f == IF reply[a] = "address" THEN u.failed \cup {snap[a].carrier} ELSE u.failed
  <2>1. ship' = [u EXCEPT !.failed = f] /\ pc[a] = "record" /\ pc'[a] = "done"
    BY <1>8, <1>r DEF RecordSubmission
  <2>2. u.confirmed = ship.confirmed
        /\ DOMAIN u = {"status", "pkgs", "tracked", "attempts", "confirms", "confirmed", "carrier", "failed", "error"}
    BY <1>0 DEF Submission, Shipment
  <2>3. ship'.confirmed = u.confirmed
    <3> HIDE DEF f, u
    <3> QED  BY <2>1, <2>2
  <2> QED  BY <2>1, <2>2, <2>3, Writes DEF Overwriting
<1>9. CASE BeginRefresh(a)
  <2>1. CASE ship.status = "shipped"
    <3>1. ship' = ship /\ pc'[a] = "done"
      BY <1>9, <1>r, <2>1 DEF BeginRefresh
    <3> QED  BY <3>1, Looks DEF Overwriting
  <2>2. CASE ship.status # "shipped"
    <3>1. ship' = ship /\ pc'[a] \in {"detail", "result"}
      BY <1>9, <1>m, <2>2 DEF BeginRefresh
    <3> QED  BY <2>2, <3>1, Writes
  <2> QED  BY <2>1, <2>2
<1>10. CASE RecordResult(a)
  <2>1. pc[a] = "recordResult" /\ pc'[a] = "annotate" /\ ship'.confirmed = ship.confirmed
    BY <1>0, <1>10, <1>m, WritesKeepConfirmed DEF RecordResult
  <2> QED  BY <2>1, Writes DEF Overwriting
<1>11. CASE AnnotateResult(a)
  <2>1. ship'.status = ship.status /\ ship'.confirmed = ship.confirmed /\ pc'[a] = "settle"
    BY <1>0, <1>11, <1>g DEF AnnotateResult, Shipment
  <2> QED  BY <2>1, Looks DEF Overwriting
<1>12. CASE BeginConfirm(a) \/ Settle(a)
  <2>1. ship' = ship /\ pc'[a] \in {"done", "attempt"}
    BY <1>12, <1>m, <1>r DEF BeginConfirm, Settle
  <2> QED  BY <2>1, Looks DEF Overwriting
<1>13. CASE RecordShipmentConfirmationAttempt(a)
  <2>1. CASE ship.status \in {"label_ready", "confirm_failed"}
    <3>1. ship'.status = ship.status /\ ship'.confirmed = ship.confirmed /\ pc'[a] = "confirmCall"
      BY <1>0, <1>13, <1>g, <2>1 DEF RecordShipmentConfirmationAttempt, CountConfirmation, Shipment
    <3> QED  BY <2>1, <3>1, Writes
  <2>2. CASE ship.status \notin {"label_ready", "confirm_failed"}
    <3>1. ship' = ship /\ pc'[a] = "done"
      BY <1>13, <1>r, <2>2 DEF RecordShipmentConfirmationAttempt
    <3> QED  BY <3>1, Looks DEF Overwriting
  <2> QED  BY <2>1, <2>2
<1>14. CASE RecordConfirm(a)
  <2>1. pc[a] = "recordConfirm" /\ pc'[a] \in {"settle", "done"} /\ UNCHANGED <<labels, accepted>>
    BY <1>14, <1>g, <1>r DEF RecordConfirm
  <2>2. \/ ship'.status = "shipped" /\ ship'.confirmed /\ Counters(ship') = Counters(ship)
        \/ ship'.confirmed = ship.confirmed
    BY <1>0, <1>14, WritesKeepConfirmed DEF RecordConfirm, MarkShipmentConfirmed, Shipment, Counters
  <2> QED  BY <2>1, <2>2 DEF Respects, Overwriting
<1>15. CASE BeginRecover(a)
  <2>1. CASE RecoveryAllowed(ship)
    <3>1. ship' = ship /\ pc'[a] = "recoverDetail" /\ ship.status # "shipped"
      BY <1>15, <1>m, <2>1 DEF BeginRecover, RecoveryAllowed
    <3> QED  BY <3>1, Writes
  <2>2. CASE ~RecoveryAllowed(ship)
    <3>1. ship' = ship /\ pc'[a] = "done"
      BY <1>15, <1>r, <2>2 DEF BeginRecover
    <3> QED  BY <3>1, Looks DEF Overwriting
  <2> QED  BY <2>1, <2>2
<1>16. CASE CheckRecoveryQuote(a)
  <2>1. ship' = ship /\ pc'[a] \in {"done", "prepareRecovery"}
    BY <1>16, <1>g, <1>r DEF CheckRecoveryQuote
  <2> QED  BY <2>1, Looks DEF Overwriting
<1>17. CASE PrepareFailedShipmentRecovery(a)
  <2>1. CASE RecoveryPreparable(ship)
    <3> DEFINE u == Resubmit(ship, choice[a])
               f == u.failed \cup {snap[a].carrier}
    <3>1. ship' = [u EXCEPT !.failed = f] /\ pc'[a] = "create"
      BY <1>17, <1>m, <2>1 DEF PrepareFailedShipmentRecovery
    <3>2. ship'.confirmed = FALSE
      BY <3>1 DEF Resubmit
    <3> QED  BY <2>1, <3>1, <3>2 DEF RecoveryPreparable, Respects
  <2>2. CASE ~RecoveryPreparable(ship)
    <3>1. ship' = ship /\ pc'[a] = "done"
      BY <1>17, <1>r, <2>2 DEF PrepareFailedShipmentRecovery
    <3> QED  BY <3>1, Looks DEF Overwriting
  <2> QED  BY <2>1, <2>2
<1>18. CASE BeginCheckOMS(a) \/ UpdateOMSSync(a) \/ ReleaseVerified(a)
  <2>1. ship' = ship /\ pc'[a] \in {"done", "omsAnswer", "omsRelease"}
    BY <1>18, <1>m, <1>g, <1>r DEF BeginCheckOMS, UpdateOMSSync, ReleaseVerified
  <2> QED  BY <2>1, Looks DEF Overwriting
<1> QED
  BY <1>1, <1>2, <1>3, <1>4, <1>5, <1>6, <1>7, <1>8, <1>9, <1>10, <1>11, <1>12, <1>13, <1>14, <1>15,
     <1>16, <1>17, <1>18 DEF Service

\* Every step of the worker's own respects it too.
LEMMA RunRespects ==
    ASSUME TypeOK, RunAutoFulfillment
    PROVE  Respects(Worker) /\ Alone(Worker)
<1>0. LocalTypes /\ ship \in Shipment /\ W = Worker
  BY DEF TypeOK, RowTypes, W
<1>m. \A l, s, r, f : Move(Worker, l, s, r, f) => pc'[Worker] = l
  BY <1>0, MoveFacts, WorkerActor
<1>s. /\ \A st, r : Stop(st, r) => pc'[Worker] = "idle"
      /\ \A r : StopAndRelease(r) => pc'[Worker] = "release"
      /\ \A st, r : StopReleasingFailed(st, r) => pc'[Worker] \in {"idle", "release"}
      /\ Iterate => pc'[Worker] = "dispatch"
      /\ \A l : Goto(Worker, l) => pc'[Worker] = l
      /\ \A o, l : Begin(o, l) => pc'[Worker] = l
  BY <1>0, <1>m DEF Stop, StopAndRelease, StopReleasingFailed, Sleep, Rest, Iterate, Begin, Goto
<1>a. Alone(Worker)
  BY RunDoes
<1>1. CASE PrepareUnknownShipmentRetry
  <2>1. CASE UnknownPreparable(ship)
    <3> DEFINE u == Submission(ship, "submitting", {}, "none")
    <3>1. ship' = [u EXCEPT !.attempts = @ + 1] /\ pc'[Worker] = "create"
      BY <1>0, <1>1, <1>m, <2>1 DEF PrepareUnknownShipmentRetry
    <3>2. u \in Shipment
      BY <1>0, SubmissionType DEF ShipmentStatus
    <3>3. u.confirmed = ship.confirmed
      BY <1>0 DEF Submission, Shipment
    <3>4. ship'.confirmed = ship.confirmed
      <4> HIDE DEF u
      <4> QED  BY <3>1, <3>2, <3>3 DEF Shipment
    <3> QED  BY <1>a, <2>1, <3>1, <3>4, Writes DEF UnknownPreparable
  <2>2. CASE ~UnknownPreparable(ship)
    <3>1. ship' = ship /\ pc'[Worker] = "release"
      BY <1>1, <1>s, <2>2 DEF PrepareUnknownShipmentRetry
    <3> QED  BY <1>a, <3>1, Looks DEF Overwriting
  <2> QED  BY <2>1, <2>2
<1>2. CASE FailedLabel
  <2>0. ship' = ship \/ ship' = [ship EXCEPT !.failed = @ \cup {snap[Worker].carrier}]
    BY <1>2, <1>0, Zenon DEF FailedLabel, Begin
  <2>1. ship'.status = ship.status /\ ship'.confirmed = ship.confirmed
    BY <1>0, <2>0 DEF Shipment
  <2>2. pc'[Worker] \in {"release", "fallbackQuote"}
    BY <1>0, <1>2, <1>s DEF FailedLabel
  <2> QED  BY <1>a, <2>1, <2>2, Looks DEF Overwriting
<1>3. CASE AfterPurchase \/ AfterVerify
  <2>1. ship' = ship /\ pc'[Worker] \in {"idle", "release", "dispatch", "retryUnknown"}
    BY <1>0, <1>3, <1>m, <1>s DEF AfterPurchase, AfterVerify
  <2> QED  BY <1>a, <2>1, Looks DEF Overwriting
<1>4. CASE DispatchExhausted \/ DispatchUnknown \/ DispatchPending \/ DispatchReady \/ DispatchShipped \/ DispatchFailed
  <2>1. ship' = ship /\ pc'[Worker] \in {"idle", "refresh", "confirm", "checkOMS", "failedLabel"}
    BY <1>4, <1>s
    DEF DispatchExhausted, DispatchUnknown, DispatchPending, DispatchReady, DispatchShipped, DispatchFailed
  <2> QED  BY <1>a, <2>1, Looks DEF Overwriting
<1>5. CASE AfterResubmit \/ AfterPending \/ AfterConfirm \/ AfterCheckOMS \/ AfterCoverage \/ AfterFallback
  <2>1. ship' = ship /\ pc'[Worker] \in {"idle", "release", "dispatch", "failedLabel"}
    BY <1>0, <1>5, <1>s DEF AfterResubmit, AfterPending, AfterConfirm, AfterCheckOMS, AfterCoverage, AfterFallback
  <2> QED  BY <1>a, <2>1, Looks DEF Overwriting
<1>6. CASE QuoteFallback \/ ReleaseReservation
  <2>1. ship' = ship /\ pc'[Worker] \in {"idle", "recover"}
    BY <1>0, <1>6, <1>m, <1>s DEF QuoteFallback, ReleaseReservation, Sleep, Rest
  <2> QED  BY <1>a, <2>1, Looks DEF Overwriting
<1> QED  BY <1>1, <1>2, <1>3, <1>4, <1>5, <1>6 DEF RunAutoFulfillment

\* The steps in which no actor runs.
Environs == UNCHANGED <<ship, pc, snap, found, accepted>> /\ labels \subseteq labels'

\* Every step respects a confirmation.
LEMMA StepRespects ==
    ASSUME TypeOK, RowFirst, Next
    PROVE  Environs \/ \E a \in Actors : Respects(a) /\ Alone(a)
<1>0. LocalTypes
  BY DEF TypeOK
<1>1. ASSUME NEW a \in Actors, Service(a) PROVE Respects(a) /\ Alone(a)
  BY <1>0, <1>1, ServiceRespects, ServiceFrame DEF Alone
<1>2. ASSUME NEW a \in Actors, Interrupt(a) PROVE Respects(a) /\ Alone(a)
  <2>1. pc'[a] = "idle" /\ Alone(a) /\ UNCHANGED ship
    BY <1>0, <1>2, MoveFacts DEF Interrupt, Rest, Alone
  <2> QED  BY <2>1, Looks DEF Overwriting
<1>3. CASE ClaimAutoFulfillment
  <2>1. pc'[Worker] \in {"purchase", "dispatch"} /\ Alone(Worker) /\ UNCHANGED ship
    BY <1>0, <1>3, MoveFacts, WorkerActor DEF ClaimAutoFulfillment, W, Alone
  <2> QED  BY <2>1, Looks, WorkerActor DEF Overwriting
<1>4. CASE RunAutoFulfillment
  BY <1>4, RunRespects, WorkerActor
<1>5. ASSUME NEW h \in Handlers, EndRequest(h) \/ \E o \in HandlerOps : BeginRequest(h, o)
      PROVE  h \in Actors /\ Respects(h) /\ Alone(h)
  <2>1. h \in Actors  BY DEF Actors
  <2>2. pc'[h] \in HandlerOps \cup {"idle"} /\ Alone(h) /\ UNCHANGED ship
    BY <1>0, <1>5, <2>1, MoveFacts DEF EndRequest, BeginRequest, Rest, Goto, Alone
  <2>3. pc'[h] \notin Overwriting
    BY <2>2, ActorsAssumption DEF AllHandlerOps, Overwriting
  <2> QED  BY <2>1, <2>2, <2>3, Looks
<1>6. CASE RepairShipmentCompletionJobs \/ Environment
  <2>1. Environs
    BY <1>6 DEF RepairShipmentCompletionJobs, Environment, EnqueueAutoFulfillment,
       ResolveMissingOMSPlatformOrder, SyncOrder, ApproveManualReview, PrintLabel, ApplyLateCreate,
       TemuCreates, Environs
  <2> QED  BY <2>1
<1> QED  BY <1>1, <1>2, <1>3, <1>4, <1>5, <1>6 DEF Next, Requests

\* Nobody has seen a package, and nothing was confirmed.
Blank(a) == snap[a].pkgs = {} /\ found[a] = {}

AllBlank == ~accepted /\ ship.pkgs = {} /\ \A a \in Actors : Blank(a)

\* Packages come from Temu: as long as it has created none, no row, snapshot or
\* answer names one, and no confirmation was taken.
Labelled == labels = {} => AllBlank

\* Labels are not withdrawn.
LEMMA LabelsStay ==
    ASSUME Next
    PROVE  labels \subseteq labels'
<1>1. ASSUME NEW a \in Actors, Service(a) PROVE labels \subseteq labels'
  BY <1>1 DEF Service, CheckPurchase, ReserveInventory, ReserveShipment, Recheck, AdoptRecheck,
     PrepareShipmentRetry, CreateShipment, TemuCreates, FindExisting, AdoptExisting, RecordSubmission,
     BeginRefresh, LookUpPackages, RecordMissing, AdoptRefresh, QueryResult, RecordResult, AnnotateResult,
     Settle, BeginConfirm, RecordShipmentConfirmationAttempt, CallConfirm, RecordConfirm, BeginRecover,
     RecoverDetail, AdoptRecover, CheckRecoveryQuote, PrepareFailedShipmentRecovery, BeginCheckOMS,
     UpdateOMSSync, ReleaseVerified, OrderDetail
<1>2. RunAutoFulfillment => labels' = labels
  BY DEF RunAutoFulfillment, AfterPurchase, DispatchExhausted, DispatchUnknown, DispatchPending,
     DispatchReady, DispatchShipped, DispatchFailed, AfterVerify, PrepareUnknownShipmentRetry,
     AfterResubmit, AfterPending, AfterConfirm, AfterCheckOMS, AfterCoverage, FailedLabel,
     QuoteFallback, AfterFallback, ReleaseReservation, workerFrame
<1>3. (\E a \in Actors : Interrupt(a)) \/ RepairShipmentCompletionJobs \/ ClaimAutoFulfillment
         \/ Requests \/ Environment => labels \subseteq labels'
  BY DEF Interrupt, RepairShipmentCompletionJobs, ClaimAutoFulfillment, workerFrame, Requests,
     BeginRequest, EndRequest, Environment, EnqueueAutoFulfillment, ResolveMissingOMSPlatformOrder,
     SyncOrder, ApproveManualReview, PrintLabel, ApplyLateCreate, TemuCreates
<1> QED  BY <1>1, <1>2, <1>3 DEF Next

\* An actor that moves with nothing in its hands keeps them all blank.
LEMMA BlankMove ==
    ASSUME LocalTypes, \A b \in Actors : Blank(b), NEW a \in Actors,
           NEW l, NEW s, s.pkgs = {}, NEW r, Move(a, l, s, r, {})
    PROVE  \A b \in Actors : Blank(b)'
BY DEF LocalTypes, Move, Blank

\* So does every step of a service function to which Temu shows no package.
LEMMA ServiceBlank ==
    ASSUME TypeOK, AllBlank, labels = {}, labels' = {}, NEW a \in Actors, Service(a)
    PROVE  AllBlank'
<1>0. LocalTypes /\ ship \in Shipment /\ ~accepted /\ ship.pkgs = {} /\ (\A b \in Actors : Blank(b))
      /\ snap[a].pkgs = {} /\ found[a] = {} /\ NoShipment.pkgs = {}
  BY DEF TypeOK, RowTypes, AllBlank, Blank, NoShipment
<1>d. Details = {{}}
  BY DEF Details
<1>m. \A l, s, r : Move(a, l, s, r, {}) /\ s.pkgs = {} => \A b \in Actors : Blank(b)'
  BY <1>0, BlankMove
<1>g. \A l : Goto(a, l) => \A b \in Actors : Blank(b)'
  BY <1>0, <1>m DEF Goto
<1>r. \A s, r : Return(a, s, r) /\ s.pkgs = {} => \A b \in Actors : Blank(b)'
  BY <1>m DEF Return
<1>q. ASSUME ship'.pkgs = {}, accepted' = accepted, \A b \in Actors : Blank(b)' PROVE AllBlank'
  BY <1>0, <1>q DEF AllBlank
<1>1. CASE CheckPurchase(a) \/ ReserveInventory(a)
  <2>1. UNCHANGED <<ship, accepted>> /\ \A b \in Actors : Blank(b)'
    BY <1>0, <1>1, <1>g, <1>r DEF CheckPurchase, ReserveInventory
  <2> QED  BY <1>0, <1>q, <2>1
<1>2. CASE ReserveShipment(a)
  <2>1. ship' = ship \/ \E c : ship' = Resubmit(NoShipment, c)
    BY <1>2 DEF ReserveShipment
  <2>2. ship'.pkgs = {} /\ accepted' = accepted
    BY <1>0, <1>2, <2>1 DEF ReserveShipment, Resubmit
  <2>3. \E l, r : Move(a, l, ship', r, {})
    BY <1>2 DEF ReserveShipment, Return
  <2> QED  BY <1>m, <1>q, <2>2, <2>3
<1>3. CASE Recheck(a) \/ LookUpPackages(a) \/ RecoverDetail(a)
  <2>1. UNCHANGED <<ship, accepted>>
    BY <1>3 DEF Recheck, LookUpPackages, RecoverDetail, OrderDetail
  <2>2. \E l, s, r : Move(a, l, s, r, {}) /\ s \in {snap[a], NoShipment}
    BY <1>3, <1>d DEF Recheck, LookUpPackages, RecoverDetail, OrderDetail, Return
  <2> QED  BY <1>0, <1>m, <1>q, <2>1, <2>2
<1>4. CASE AdoptRecheck(a) \/ AdoptRecover(a) \/ AdoptExisting(a) \/ AdoptRefresh(a) \/ RecordMissing(a)
  <2>1. accepted' = accepted /\ \E st, e : UpdateShipmentSubmission(st, {}, e)
    BY <1>0, <1>4 DEF AdoptRecheck, AdoptRecover, AdoptExisting, AdoptRefresh, RecordMissing
  <2>2. ship'.pkgs = {}
    BY <1>0, <2>1 DEF UpdateShipmentSubmission, Submission, Shipment
  <2>3. \E l, s, r : Move(a, l, s, r, {}) /\ s \in {snap[a], ship', NoShipment}
    BY <1>4 DEF AdoptRecheck, AdoptRecover, AdoptExisting, AdoptRefresh, RecordMissing, Return, Goto
  <2> QED  BY <1>0, <1>m, <1>q, <2>1, <2>2, <2>3
<1>5. CASE PrepareShipmentRetry(a) \/ PrepareFailedShipmentRecovery(a)
  <2>1. \/ ship' = ship
        \/ \E c : ship' = Resubmit(ship, c)
        \/ \E c, f : ship' = [Resubmit(ship, c) EXCEPT !.failed = f]
    BY <1>5 DEF PrepareShipmentRetry, PrepareFailedShipmentRecovery
  <2>2. ship'.pkgs = {} /\ accepted' = accepted
    BY <1>0, <1>5, <2>1 DEF PrepareShipmentRetry, PrepareFailedShipmentRecovery, Resubmit
  <2>3. \E l, s, r : Move(a, l, s, r, {}) /\ s \in {ship', NoShipment}
    BY <1>5 DEF PrepareShipmentRetry, PrepareFailedShipmentRecovery, Return
  <2> QED  BY <1>0, <1>m, <1>q, <2>2, <2>3
<1>6. CASE CreateShipment(a) \/ FindExisting(a)
  <2>1. \A p, st : ~TemuCreates(p, st)
    BY DEF TemuCreates
  <2>2. UNCHANGED <<ship, accepted>>
    BY <1>6 DEF CreateShipment, FindExisting
  <2>3. \E l, r : Move(a, l, snap[a], r, {})
    BY <1>6, <1>d, <2>1 DEF CreateShipment, FindExisting
  <2> QED  BY <1>0, <1>m, <1>q, <2>2, <2>3
<1>7. CASE RecordSubmission(a)
  <2> DEFINE u == Submission(ship, SubmissionStatus(reply[a], found[a]), found[a], SubmissionError(reply[a]))
             f == IF reply[a] = "address" THEN u.failed \cup {snap[a].carrier} ELSE u.failed
  <2>1. ship' = [u EXCEPT !.failed = f] /\ accepted' = accepted /\ \E r : Return(a, ship', r)
    BY <1>7 DEF RecordSubmission
  <2>2. u.pkgs = {}
        /\ DOMAIN u = {"status", "pkgs", "tracked", "attempts", "confirms", "confirmed", "carrier", "failed", "error"}
    BY <1>0 DEF Submission, Shipment
  <2>3. ship'.pkgs = {}
    <3> HIDE DEF f, u
    <3> QED  BY <2>1, <2>2
  <2> QED  BY <1>0, <1>q, <1>r, <2>1, <2>3
<1>8. CASE BeginRefresh(a) \/ BeginConfirm(a) \/ Settle(a) \/ BeginRecover(a)
  <2>1. UNCHANGED <<ship, accepted>> /\ \E l, s, r : Move(a, l, s, r, {}) /\ s \in {ship, NoShipment}
    BY <1>8 DEF BeginRefresh, BeginConfirm, Settle, BeginRecover, Return
  <2> QED  BY <1>0, <1>m, <1>q, <2>1
<1>9. CASE QueryResult(a) \/ RecordResult(a) \/ AnnotateResult(a) \/ RecordShipmentConfirmationAttempt(a)
  <2>1. ship'.pkgs = ship.pkgs /\ accepted' = accepted
    BY <1>0, <1>9
    DEF QueryResult, RecordResult, UpdateShipmentResult, AnnotateResult, RecordShipmentConfirmationAttempt,
        CountConfirmation, Shipment
  <2>2. \E l, r : Move(a, l, snap[a], r, {})
    BY <1>9 DEF QueryResult, RecordResult, AnnotateResult, RecordShipmentConfirmationAttempt, Return, Goto
  <2> QED  BY <1>0, <1>m, <1>q, <2>1, <2>2
<1>10. CASE CallConfirm(a)
  <2>1. ship' = ship /\ \E l, r : Move(a, l, snap[a], r, {})
    BY <1>10 DEF CallConfirm
  <2>2. accepted = FALSE /\ (accepted \/ snap[a].pkgs # {}) = FALSE
    BY <1>0
  <2>3. accepted' = accepted
    BY <1>0, <1>10, <2>2 DEF CallConfirm
  <2> QED  BY <1>0, <1>m, <1>q, <2>1, <2>3
<1>11. CASE RecordConfirm(a)
  <2>1. ship'.pkgs = ship.pkgs /\ accepted' = accepted
    BY <1>0, <1>11 DEF RecordConfirm, MarkShipmentConfirmed, UpdateShipmentResult, Shipment
  <2>2. \E l, s, r : Move(a, l, s, r, {}) /\ s \in {snap[a], ship'}
    BY <1>11 DEF RecordConfirm, Return, Goto
  <2> QED  BY <1>0, <1>m, <1>q, <2>1, <2>2
<1>12. CASE CheckRecoveryQuote(a) \/ BeginCheckOMS(a) \/ UpdateOMSSync(a) \/ ReleaseVerified(a)
  <2>1. UNCHANGED <<ship, accepted>>
    BY <1>12 DEF CheckRecoveryQuote, BeginCheckOMS, UpdateOMSSync, ReleaseVerified
  <2>2. \/ \E l : Goto(a, l)
        \/ \E s, r : Return(a, s, r) /\ s \in {snap[a], ship, NoShipment}
        \/ \E l : Move(a, l, ship, "none", {})
    BY <1>12 DEF CheckRecoveryQuote, BeginCheckOMS, UpdateOMSSync, ReleaseVerified
  <2>3. \A b \in Actors : Blank(b)'
    BY <1>0, <1>m, <1>g, <1>r, <2>2
  <2> QED  BY <1>0, <1>q, <2>1, <2>3
<1> QED
  BY <1>1, <1>2, <1>3, <1>4, <1>5, <1>6, <1>7, <1>8, <1>9, <1>10, <1>11, <1>12 DEF Service

\* And every other step.
LEMMA LabelledStep ==
    ASSUME TypeOK, Labelled, Next
    PROVE  Labelled'
<1> SUFFICES ASSUME labels' = {} PROVE AllBlank'
  BY DEF Labelled
<1>1. labels = {} /\ AllBlank
  BY LabelsStay DEF Labelled
<1>0. LocalTypes /\ ship \in Shipment /\ NoShipment.pkgs = {} /\ ship.pkgs = {} /\ ~accepted
      /\ (\A b \in Actors : Blank(b)) /\ snap[Worker].pkgs = {} /\ W = Worker
  BY <1>1, WorkerActor DEF TypeOK, RowTypes, NoShipment, AllBlank, Blank, W
<1>m. \A a \in Actors : \A l, s, r : Move(a, l, s, r, {}) /\ s.pkgs = {} => \A b \in Actors : Blank(b)'
  BY <1>0, BlankMove
<1>q. ASSUME ship'.pkgs = {}, accepted' = accepted, \A b \in Actors : Blank(b)' PROVE AllBlank'
  BY <1>0, <1>q DEF AllBlank
<1>2. ASSUME NEW a \in Actors, Service(a) PROVE AllBlank'
  BY <1>1, <1>2, ServiceBlank
<1>3. ASSUME NEW a \in Actors, Interrupt(a) PROVE AllBlank'
  BY <1>0, <1>3, <1>m, <1>q DEF Interrupt, Rest
<1>4. CASE ClaimAutoFulfillment
  <2>1. UNCHANGED <<ship, accepted>> /\ \E l : Move(Worker, l, ship, "none", {})
    BY <1>0, <1>4 DEF ClaimAutoFulfillment, workerFrame
  <2> QED  BY <1>0, <1>m, <1>q, <2>1, WorkerActor
<1>5. CASE RunAutoFulfillment
  <2>1. accepted' = accepted
    BY <1>5 DEF RunAutoFulfillment, AfterPurchase, DispatchExhausted, DispatchUnknown, DispatchPending,
       DispatchReady, DispatchShipped, DispatchFailed, AfterVerify, PrepareUnknownShipmentRetry,
       AfterResubmit, AfterPending, AfterConfirm, AfterCheckOMS, AfterCoverage, FailedLabel,
       QuoteFallback, AfterFallback, ReleaseReservation, workerFrame
  <2>2. ship'.pkgs = {}
    <3>1. CASE PrepareUnknownShipmentRetry
      <4> DEFINE u == Submission(ship, "submitting", {}, "none")
      <4>1. ship' = ship \/ ship' = [u EXCEPT !.attempts = @ + 1]
        BY <3>1 DEF PrepareUnknownShipmentRetry
      <4>2. u \in Shipment
        BY <1>0, SubmissionType DEF ShipmentStatus
      <4>3. u.pkgs = {}
        BY <1>0 DEF Submission, Shipment
      <4> HIDE DEF u
      <4> QED  BY <1>0, <4>1, <4>2, <4>3 DEF Shipment
    <3>2. CASE FailedLabel
      <4>1. ship' = ship \/ ship' = [ship EXCEPT !.failed = @ \cup {snap[W].carrier}]
        BY <3>2, Zenon DEF FailedLabel
      <4> QED  BY <1>0, <4>1 DEF Shipment
    <3>3. CASE ~PrepareUnknownShipmentRetry /\ ~FailedLabel
      <4>1. ship' = ship
        BY <1>5, <3>3 DEF RunAutoFulfillment, AfterPurchase, DispatchExhausted, DispatchUnknown,
           DispatchPending, DispatchReady, DispatchShipped, DispatchFailed, AfterVerify, AfterResubmit,
           AfterPending, AfterConfirm, AfterCheckOMS, AfterCoverage, QuoteFallback, AfterFallback,
           ReleaseReservation
      <4> QED  BY <1>0, <4>1
    <3> QED  BY <3>1, <3>2, <3>3
  <2>3. /\ \A st, r : Stop(st, r) => \A b \in Actors : Blank(b)'
        /\ \A r : StopAndRelease(r) => \A b \in Actors : Blank(b)'
        /\ \A st, r : StopReleasingFailed(st, r) => \A b \in Actors : Blank(b)'
        /\ Iterate => \A b \in Actors : Blank(b)'
        /\ \A l : Goto(Worker, l) => \A b \in Actors : Blank(b)'
        /\ \A o, l : Begin(o, l) => \A b \in Actors : Blank(b)'
    BY <1>0, <1>m, WorkerActor
    DEF Stop, StopAndRelease, StopReleasingFailed, Sleep, Rest, Iterate, Begin, Goto
  <2>4. CASE AfterPurchase
    BY <1>0, <1>q, <2>1, <2>2, <2>3, <2>4 DEF AfterPurchase
  <2>5. CASE \/ DispatchExhausted \/ DispatchUnknown \/ DispatchPending \/ DispatchReady \/ DispatchShipped
             \/ DispatchFailed
    BY <1>q, <2>1, <2>2, <2>3, <2>5
    DEF DispatchExhausted, DispatchUnknown, DispatchPending, DispatchReady, DispatchShipped, DispatchFailed
  <2>6. CASE AfterVerify \/ PrepareUnknownShipmentRetry
    <3>1. \/ Iterate \/ \E st, r : Stop(st, r) \/ StopAndRelease(r) \/ StopReleasingFailed(st, r)
          \/ \E l, s, r : Move(Worker, l, s, r, {}) /\ s \in {snap[Worker], ship'}
      BY <1>0, <2>6 DEF AfterVerify, PrepareUnknownShipmentRetry
    <3> QED  BY <1>0, <1>m, <1>q, <2>1, <2>2, <2>3, <3>1, WorkerActor
  <2>7. CASE AfterResubmit \/ AfterPending \/ AfterConfirm \/ AfterCheckOMS \/ AfterCoverage \/ AfterFallback
    BY <1>0, <1>q, <2>1, <2>2, <2>3, <2>7
    DEF AfterResubmit, AfterPending, AfterConfirm, AfterCheckOMS, AfterCoverage, AfterFallback
  <2>8. CASE FailedLabel
    <3>1. StopAndRelease("none") \/ (\E o, l : Begin(o, l)) \/ \E l : Goto(Worker, l)
      BY <1>0, <2>8, Zenon DEF FailedLabel
    <3> QED  BY <1>q, <2>1, <2>2, <2>3, <3>1
  <2>9. CASE QuoteFallback \/ ReleaseReservation
    <3>1. (\E st, r : Stop(st, r)) \/ (\E l : Goto(Worker, l)) \/ Rest(Worker)
      BY <1>0, <2>9 DEF QuoteFallback, ReleaseReservation, Sleep
    <3> QED  BY <1>0, <1>m, <1>q, <2>1, <2>2, <2>3, <3>1, WorkerActor DEF Rest
  <2> QED  BY <1>5, <2>4, <2>5, <2>6, <2>7, <2>8, <2>9 DEF RunAutoFulfillment
<1>6. ASSUME NEW h \in Handlers, EndRequest(h) \/ \E o \in HandlerOps : BeginRequest(h, o)
      PROVE  AllBlank'
  <2>1. h \in Actors /\ snap[h].pkgs = {}
    BY <1>0 DEF Actors, Blank
  <2>2. UNCHANGED <<ship, accepted>> /\ \E l, s : Move(h, l, s, "none", {}) /\ s \in {snap[h], NoShipment}
    BY <1>6 DEF EndRequest, BeginRequest, Rest, Goto
  <2> QED  BY <1>0, <1>m, <1>q, <2>1, <2>2
<1>7. CASE RepairShipmentCompletionJobs \/ Environment
  <2>1. UNCHANGED <<ship, snap, found, accepted>>
    BY <1>7 DEF RepairShipmentCompletionJobs, Environment, EnqueueAutoFulfillment,
       ResolveMissingOMSPlatformOrder, SyncOrder, ApproveManualReview, PrintLabel, ApplyLateCreate
  <2> QED  BY <1>1, <2>1 DEF AllBlank, Blank
<1> QED  BY <1>2, <1>3, <1>4, <1>5, <1>6, <1>7 DEF Next, Requests

\* The invariant in every state that can be reached.
LEMMA LabelledInvariance == Spec => []Labelled
<1>1. Init => Labelled
  BY DEF Init, Labelled, AllBlank, Blank, NoShipment
<1>2. Labelled /\ UNCHANGED vars => Labelled'
  BY DEF Labelled, AllBlank, Blank, vars
<1> QED  BY <1>1, <1>2, LabelledStep, TypeCorrect, PTL DEF Spec

\* While a retry is about to be prepared, a confirmed row says shipped, and no other
\* actor is still going to write something else over it.
Sealed ==
    \A a \in Actors : pc[a] = "prepareRetry" /\ ship.confirmed =>
        /\ ship.status = "shipped"
        /\ \A b \in Actors \ {a} : pc[b] \notin Overwriting

\* Rows do not get lost, and none is confirmed before it is written.
LEMMA RowFirstStep ==
    ASSUME TypeOK, RowFirst, Next
    PROVE  RowFirst'
<1>1. ship'.status = "none" => ship.status = "none"
  BY StepDoes DEF Outside, Does, Quietly, Submits, Counts, Creates, Confirms, RowsKept
<1>2. ~ship.confirmed /\ ship'.confirmed => ship'.status = "shipped"
  BY StepRespects DEF Respects, Environs
<1> QED  BY <1>1, <1>2 DEF RowFirst

\* A retry is prepared only after Temu has shown no package, and then there is one
\* other actor at most, who starts from the row after it has confirmed it.
LEMMA SealedStep ==
    ASSUME \A g, h \in Handlers : g = h, "lag" \notin Faults,
           TypeOK, QuietUntilAccepted, Labelled, RowFirst, Sealed, Next
    PROVE  Sealed' /\ (ship.confirmed => ship'.confirmed)
<1>1. ship.confirmed => labels # {}
  BY DEF QuietUntilAccepted, Quiet, QuietRows, Labelled, AllBlank
<1>2. CASE Environs
  BY <1>2 DEF Environs, Sealed
<1>3. ASSUME NEW b \in Actors, Respects(b), Alone(b)
      PROVE  Sealed' /\ (ship.confirmed => ship'.confirmed)
  <2>1. ship.confirmed => ship'.confirmed
    BY <1>3 DEF Respects, Sealed
  <2>2. ASSUME NEW a \in Actors, pc'[a] = "prepareRetry", ship'.confirmed
        PROVE  ship'.status = "shipped" /\ \A c \in Actors \ {a} : pc'[c] \notin Overwriting
    <3>1. a # b
      BY <1>1, <1>3, <2>2 DEF Respects
    <3>2. pc[a] = "prepareRetry"
      BY <1>3, <2>2, <3>1 DEF Alone
    <3>3. CASE ship.confirmed
      <4>1. ship.status = "shipped" /\ \A c \in Actors \ {a} : pc[c] \notin Overwriting
        BY <3>2, <3>3 DEF Sealed
      <4>2. ship'.status = "shipped" /\ pc'[b] \notin Overwriting
        BY <1>3, <3>1, <4>1 DEF Respects
      <4> QED  BY <1>3, <4>1, <4>2 DEF Alone
    <3>4. CASE ~ship.confirmed
      <4>1. ship'.status = "shipped" /\ pc'[b] \notin Overwriting
        BY <1>3, <2>2, <3>4 DEF Respects
      <4>2. ASSUME NEW c \in Actors \ {a} PROVE c = b \/ pc'[c] \notin Overwriting
        <5>1. CASE pc[c] \notin Overwriting
          BY <1>3, <5>1 DEF Alone
        <5>2. CASE Handlers = {}
          BY <3>1, <5>2 DEF Actors
        <5>3. CASE Handlers # {}
          <6>1. PICK h \in Handlers : Handlers = {h}
            BY <5>3
          <6> QED  BY <3>1, <6>1 DEF Actors
        <5> QED  BY <5>2, <5>3
      <4> QED  BY <4>1, <4>2
    <3> QED  BY <3>3, <3>4
  <2> QED  BY <2>1, <2>2 DEF Sealed
<1> QED  BY <1>2, <1>3, StepRespects DEF Environs

\* Their invariance.
LEMMA RowFirstInvariance == Spec => []RowFirst
<1>1. Init => RowFirst
  BY DEF Init, RowFirst, NoShipment
<1>2. RowFirst /\ UNCHANGED vars => RowFirst'
  BY DEF RowFirst, vars
<1> QED  BY <1>1, <1>2, RowFirstStep, TypeCorrect, PTL DEF Spec

LEMMA SealedInvariance ==
    ASSUME \A g, h \in Handlers : g = h, "lag" \notin Faults
    PROVE  Spec => []Sealed
<1>1. Init => Sealed
  BY DEF Init, Sealed
<1>2. Sealed /\ UNCHANGED vars => Sealed'
  BY DEF Sealed, vars
<1>3. TypeOK /\ QuietUntilAccepted /\ Labelled /\ RowFirst /\ Sealed /\ Next => Sealed'
  BY SealedStep
<1> QED
  BY <1>1, <1>2, <1>3, TypeCorrect, QuietInvariance, LabelledInvariance, RowFirstInvariance, PTL DEF Spec

\* ConfirmedStays, for the worker next to operators who make one request at a time,
\* whatever they request: no crash, timeout, refusal, late create or duplicate lets a
\* purchase reopen what has been confirmed, as long as Temu's order detail shows the
\* packages it created.
THEOREM ConfirmedIsKept ==
    ASSUME \A g, h \in Handlers : g = h, "lag" \notin Faults
    PROVE  Spec => ConfirmedStays
<1>1. TypeOK /\ QuietUntilAccepted /\ Labelled /\ RowFirst /\ Sealed /\ [Next]_vars
         => [ship.confirmed => ship'.confirmed]_ship
  BY SealedStep DEF vars
<1> QED
  BY <1>1, TypeCorrect, QuietInvariance, LabelledInvariance, RowFirstInvariance, SealedInvariance, PTL
  DEF Spec, ConfirmedStays

(***************************************************************************)
(* The ledger implements ShipmentOutcome: every step is one of the promise *)
(* or leaves alone what the promise speaks of.                             *)
(***************************************************************************)

Promised == [Outcome!Next]_(Outcome!outcomeVars)

\* What the refinement mapping hides.
LEMMA PromisedFrame ==
    ASSUME Counters(ship') = Counters(ship), ship'.confirmed = ship.confirmed, UNCHANGED <<labels, accepted>>
    PROVE  Promised
BY DEF Promised, Outcome!outcomeVars, Counters

\* A set to which a step adds one element at most.
LEMMA OneMore ==
    ASSUME IsFiniteSet(labels), labels \subseteq labels', NEW p, labels' \subseteq labels \cup {p}
    PROVE  labels' = labels \/ Cardinality(labels') = Cardinality(labels) + 1
<1>1. SUFFICES ASSUME labels' # labels PROVE Cardinality(labels') = Cardinality(labels) + 1
  OBVIOUS
<1>2. labels' = labels \cup {p} /\ p \notin labels
  BY <1>1
<1> QED  BY <1>2, FS_AddElement

\* A label behind an attempt that was recorded for it.
LEMMA PromisedBuy ==
    ASSUME Covered, Cardinality(labels) < ship.attempts, labels \subseteq labels',
           NEW p, labels' \subseteq labels \cup {p}, UNCHANGED <<ship, accepted>>
    PROVE  Promised
<1>1. CASE labels' = labels
  BY <1>1, PromisedFrame DEF Counters
<1>2. CASE Cardinality(labels') = Cardinality(labels) + 1
  BY <1>2 DEF Promised, Outcome!Next, Outcome!Buy
<1> QED  BY <1>1, <1>2, OneMore DEF Covered

\* A step that does not change what the ledger says of the confirmation.
LEMMA PromisedKind ==
    ASSUME TypeOK, TypeOK', Covered, Counted, Labelled', Next, ship'.confirmed = ship.confirmed
    PROVE  Promised
<1>0. /\ late \in Nat /\ ship.attempts \in Nat /\ ship.confirms \in Nat /\ ship'.confirms \in Nat
      /\ accepted \in BOOLEAN /\ accepted' \in BOOLEAN
      /\ IsFiniteSet(labels) /\ IsFiniteSet(Creating)
      /\ Cardinality(labels) \in Nat /\ Cardinality(Creating) \in Nat
      /\ Cardinality(labels) + late + Cardinality(Creating) <= ship.attempts
      /\ labels \subseteq labels'
  BY SizeOf, LabelsStay, BoundsAssumption DEF TypeOK, RowTypes, RemoteTypes, Shipment, Covered
<1>1. CASE Outside
  <2>1. CASE UNCHANGED labels
    BY <1>1, <2>1, PromisedFrame DEF Outside
  <2>2. ASSUME late > 0, UNCHANGED ship, NEW p, labels' \subseteq labels \cup {p} PROVE Promised
    BY <1>0, <1>1, <2>2, PromisedBuy DEF Outside
  <2> QED  BY <1>1, <2>1, <2>2 DEF Outside
<1>2. ASSUME NEW a \in Actors, Does(a) PROVE Promised
  <2>1. CASE Quietly(a)
    BY <2>1, PromisedFrame DEF Quietly
  <2>2. CASE Submits(a)
    <3>1. ship'.attempts = ship.attempts + 1 /\ ship'.confirms = ship.confirms /\ UNCHANGED <<labels, accepted>>
      BY <2>2 DEF Submits, Covered, Counted
    <3> QED  BY <3>1 DEF Promised, Outcome!Next, Outcome!Submit
  <2>3. CASE Counts(a)
    <3>1. ship'.attempts = ship.attempts /\ ship'.confirms > 0 /\ UNCHANGED <<labels, accepted>>
      BY <2>3 DEF Counts
    <3> QED  BY <3>1 DEF Promised, Outcome!Next, Outcome!Count
  <2>4. CASE Creates(a)
    <3>1. CASE labels' = labels
      BY <2>4, <3>1, PromisedFrame DEF Creates, Counters
    <3>2. ASSUME NEW p, labels' = labels \cup {p} PROVE Promised
      <4>1. a \in Creating
        BY <2>4 DEF Creates, Creating
      <4>2. Cardinality(Creating) > 0
        BY <1>0, <4>1, FS_EmptySet
      <4> QED  BY <1>0, <2>4, <3>2, <4>2, PromisedBuy DEF Creates
    <3> QED  BY <2>4, <3>1, <3>2 DEF Creates
  <2>5. CASE Confirms(a)
    <3>1. ship' = ship /\ labels' = labels /\ ship.confirms > 0
      BY <2>5 DEF Confirms, Counted
    <3>2. CASE accepted' = accepted
      BY <3>1, <3>2, PromisedFrame DEF Counters
    <3>3. CASE accepted' # accepted
      <4>1. accepted' = TRUE
        BY <1>0, <3>3, AcceptedStays
      <4>2. labels # {}
        BY <3>1, <4>1 DEF Labelled, AllBlank
      <4>3. Cardinality(labels) > 0
        BY <1>0, <4>2, FS_EmptySet
      <4> QED  BY <3>1, <4>1, <4>3 DEF Promised, Outcome!Next, Outcome!Take
    <3> QED  BY <3>2, <3>3
  <2> QED  BY <1>2, <2>1, <2>2, <2>3, <2>4, <2>5 DEF Does
<1> QED  BY <1>1, <1>2, StepDoes

\* The steps that change it are the acknowledgement and, where that may happen, the
\* retry that reopens the row.
LEMMA PromisedStep ==
    ASSUME TypeOK, TypeOK', QuietUntilAccepted, QuietUntilAccepted', Covered, Counted, Labelled, Labelled',
           RowFirst, ~Overlapping => Sealed, Next
    PROVE  Promised
<1>0. ship.confirmed \in BOOLEAN /\ ship'.confirmed \in BOOLEAN
  BY DEF TypeOK, RowTypes, Shipment
<1>1. CASE ship'.confirmed = ship.confirmed
  BY <1>1, PromisedKind
<1>2. CASE ~ship.confirmed /\ ship'.confirmed
  <2>1. Counters(ship') = Counters(ship) /\ UNCHANGED <<labels, accepted>>
    BY <1>2, StepRespects DEF Respects, Environs
  <2>2. accepted
    BY <1>2, <2>1 DEF QuietUntilAccepted, Quiet, QuietRows
  <2> QED  BY <1>0, <1>2, <2>1, <2>2 DEF Promised, Outcome!Next, Outcome!Acknowledge, Counters
<1>3. CASE ship.confirmed /\ ~ship'.confirmed
  <2>1. ship'.attempts = ship.attempts + 1 /\ ship'.confirms = ship.confirms /\ UNCHANGED <<labels, accepted>>
    BY <1>3, StepRespects DEF Respects, Environs
  <2>2. Overlapping
    BY <1>3, SealedStep DEF Overlapping
  <2> QED  BY <1>0, <1>3, <2>1, <2>2 DEF Promised, Outcome!Next, Outcome!Reopen
<1> QED  BY <1>0, <1>1, <1>2, <1>3

\* Whoever writes the row, and whatever fails: a label is created only behind a
\* recorded submission, a confirmation is taken only for an order with a label and
\* after it was counted, and acknowledged only then; no step withdraws any of it,
\* except that overlapping purchases or a lagging order detail may reopen the row.
THEOREM LedgerKeepsItsPromise == Spec => OutcomeKept
<1>1. Init => Outcome!Init
  BY FS_EmptySet DEF Init, Outcome!Init, NoShipment
<1>2. /\ TypeOK /\ TypeOK' /\ QuietUntilAccepted /\ QuietUntilAccepted' /\ Covered /\ Counted
      /\ Labelled /\ Labelled' /\ RowFirst /\ (~Overlapping => Sealed) /\ [Next]_vars
      => [Outcome!Next]_(Outcome!outcomeVars)
  <2>1. UNCHANGED vars => Promised
    BY PromisedFrame DEF vars, Counters
  <2> QED  BY <2>1, PromisedStep DEF Promised
<1>3. Spec => [](~Overlapping => Sealed)
  <2>1. CASE Overlapping
    BY <2>1, PTL
  <2>2. CASE ~Overlapping
    <3>1. Spec => []Sealed
      BY <2>2, SealedInvariance DEF Overlapping
    <3> QED  BY <3>1, PTL
  <2> QED  BY <2>1, <2>2
<1> QED
  BY <1>1, <1>2, <1>3, TypeCorrect, QuietInvariance, CoveredInvariance, CountedInvariance, LabelledInvariance,
     RowFirstInvariance, PTL
  DEF Spec, OutcomeKept, Outcome!Spec
=============================================================================
