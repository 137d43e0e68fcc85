------------------------ MODULE WorkerAloneProofs ------------------------
(***************************************************************************)
(* What the background worker promises as long as no operator interferes   *)
(* (Handlers = {}): whatever the remote services answer and wherever the   *)
(* process dies, a bounded number of submissions, no carrier twice, and,   *)
(* if Temu shows every label it created, one label only.                   *)
(***************************************************************************)
EXTENDS ShipmentLedgerProofs

USE DEF ledgerVars, orderVars, omsVars, heldVars, temuVars, cycleVars, boundVars, localVars

(***************************************************************************)
(* The invariants.                                                         *)
(***************************************************************************)

Buying     == {"purchase", "inventory", "reserve"}
Rechecking == {"recheck", "adoptRecheck", "prepareRetry"}
Recovering == {"recoverDetail", "recoverQuote", "prepareRecovery"}
Fallback   == {"fallbackQuote", "recover"} \cup Recovering
Unlabelled == {"create", "recoverQuote", "prepareRecovery", "retryUnknown", "missing"}

\* The worker buys only what was never bought, so it never has to recheck.
FirstBuy ==
    /\ pc[W] \in Buying => ship.status = "none" /\ op[W] = "purchase"
    /\ pc[W] \notin Rechecking

\* What it holds is the row as far as the attempts go, and a fallback has one left.
Bounded ==
    /\ snap[W].status # "none" => snap[W].attempts = ship.attempts
    /\ ship.attempts <= MaxSubmissionAttempts
    /\ pc[W] \in Fallback => ship.attempts < MaxSubmissionAttempts

\* The carrier was chosen against the failures that are in the row.
Avoiding ==
    /\ pc[W] \in Recovering => snap[W].failed = ship.failed
    /\ pc[W] = "prepareRecovery" => choice[W] \notin ExcludedCarriers(snap[W])
    /\ pc[W] = "create" /\ op[W] = "fallback" => snap[W].carrier \notin snap[W].failed

Careful == FirstBuy /\ Bounded /\ Avoiding

\* Whoever may submit, and whoever reads that the package is missing, does so while
\* Temu has no label.
Single ==
    /\ late = 0 /\ AtMostOneLabel
    /\ pc[W] \in Unlabelled => labels = {}
    /\ pc[W] = "create" => ship.status # "none" /\ ship.error = "none" /\ snap[W].error = "none"
    /\ ship.error = "missing" \/ snap[W].error = "missing" \/ ship.status = "none" => labels = {}

(***************************************************************************)
(* Most steps go to a label the invariants do not mention and hold a value *)
(* of the row that is current or was held before.                          *)
(***************************************************************************)

Watched == Buying \cup Rechecking \cup Fallback \cup Unlabelled

PlainStep ==
    /\ pc'[W] \notin Watched
    /\ snap'[W] \in {snap[W], ship, ship', NoShipment}
    /\ ship'.attempts = ship.attempts
    /\ ship.status # "none" => ship'.status # "none"
    /\ ship'.error = "missing" => ship.error = "missing"
    /\ UNCHANGED <<labels, late>>

Elsewhere ==
    /\ UNCHANGED <<ship, pc, op, snap, choice>>
    /\ UNCHANGED <<labels, late>> \/ late > 0

\* The steps that do not.
Delicate ==
    \/ CheckPurchase(W) \/ ReserveInventory(W) \/ ReserveShipment(W)
    \/ Recheck(W) \/ AdoptRecheck(W) \/ PrepareShipmentRetry(W) \/ CreateShipment(W)
    \/ LookUpPackages(W) \/ RecordMissing(W)
    \/ BeginRecover(W) \/ RecoverDetail(W) \/ CheckRecoveryQuote(W) \/ PrepareFailedShipmentRecovery(W)
    \/ ClaimAutoFulfillment \/ AfterVerify \/ PrepareUnknownShipmentRetry
    \/ FailedLabel \/ QuoteFallback

\* What a step that moves the worker leaves it with.
LEMMA Moved ==
    ASSUME LocalTypes, NEW l, NEW s, NEW r, NEW f, Move(W, l, s, r, f)
    PROVE  pc'[W] = l /\ snap'[W] = s
BY WorkerActor DEF LocalTypes, Move, W

\* A step to a label that is not watched keeps what the worker knows,
LEMMA PlainCareful ==
    ASSUME Careful, pc'[W] \notin Watched, snap'[W] \in {snap[W], ship, ship', NoShipment},
           ship'.attempts = ship.attempts
    PROVE  Careful'
<1> USE DEF Careful, Watched, Buying, Rechecking, Recovering, Fallback, Unlabelled
<1>1. FirstBuy' /\ Avoiding'
  BY DEF FirstBuy, Avoiding
<1>2. Bounded'
  <2>1. snap'[W].status # "none" => snap'[W].attempts = ship'.attempts
    BY DEF Bounded, NoShipment
  <2> QED  BY <2>1 DEF Bounded
<1> QED  BY <1>1, <1>2

\* and what it has labelled.
LEMMA PlainSingle ==
    ASSUME Single, pc'[W] \notin Unlabelled, snap'[W] \in {snap[W], ship, ship', NoShipment},
           ship.status # "none" => ship'.status # "none",
           ship'.error = "missing" => ship.error = "missing", UNCHANGED <<labels, late>>
    PROVE  Single'
<1>1. pc'[W] # "create"
  BY DEF Unlabelled
<1>2. snap'[W].error = "missing" => snap[W].error = "missing" \/ ship.error = "missing"
  BY DEF NoShipment
<1> QED  BY <1>1, <1>2 DEF Single, AtMostOneLabel

\* As long as Temu has no label, only a submission has something to keep.
LEMMA EmptySingle ==
    ASSUME labels = {}, late = 0, UNCHANGED <<labels, late>>,
           pc'[W] = "create" => /\ ship'.status # "none" /\ ship'.error = "none"
                                /\ snap'[W].error = "none"
    PROVE  Single'
BY DEF Single, AtMostOneLabel

\* The ways in which a run of the worker ends or goes on are plain: Stop,
LEMMA StopPlain ==
    ASSUME LocalTypes, NEW st, NEW r, Stop(st, r), UNCHANGED <<ship, labels, late>>
    PROVE  PlainStep
<1>1. pc'[W] = "idle" /\ snap'[W] = NoShipment
  BY Moved DEF Stop, Sleep, Rest
<1> QED
  BY <1>1 DEF PlainStep, Watched, Buying, Rechecking, Recovering, Fallback, Unlabelled

\* a step to a label that is not watched,
LEMMA GotoPlain ==
    ASSUME LocalTypes, NEW l, l \notin Watched, NEW s, s \in {snap[W], ship}, NEW r, NEW f,
           Move(W, l, s, r, f), UNCHANGED <<ship, labels, late>>
    PROVE  PlainStep
<1>1. pc'[W] = l /\ snap'[W] = s
  BY Moved
<1> QED  BY <1>1 DEF PlainStep

\* and StopAndRelease.
LEMMA StopAndReleasePlain ==
    ASSUME LocalTypes, NEW r, StopAndRelease(r), UNCHANGED <<ship, labels, late>>
    PROVE  PlainStep
<1>1. "release" \notin Watched
  BY DEF Watched, Buying, Rechecking, Recovering, Fallback, Unlabelled
<1> QED  BY <1>1, GotoPlain DEF StopAndRelease, Goto

\* The steps of the service functions that are plain.
LEMMA ServicePlain ==
    ASSUME TypeOK, Service(W), ~Delicate
    PROVE  PlainStep
<1>0. LocalTypes /\ ship \in Shipment
  BY DEF TypeOK, RowTypes
<1>m. \A l, s, r, f : Move(W, l, s, r, f) => pc'[W] = l /\ snap'[W] = s
  BY <1>0, Moved
<1>g. \A l : Goto(W, l) => pc'[W] = l /\ snap'[W] = snap[W]
  BY <1>m DEF Goto
<1>r. \A s, r : Return(W, s, r) => pc'[W] = "done" /\ snap'[W] = s
  BY <1>m DEF Return
<1> DEFINE Label(l) == l \notin Watched
<1>w. /\ \A l \in {"done", "record", "adoptExisting", "refresh", "detail", "result", "recordResult", "annotate",
                   "settle", "attempt", "confirmCall", "recordConfirm", "omsAnswer", "omsRelease"} : Label(l)
  BY DEF Watched, Buying, Rechecking, Recovering, Fallback, Unlabelled
<1> HIDE DEF Label
<1>q. ASSUME Label(pc'[W]), snap'[W] \in {snap[W], ship, ship', NoShipment}, UNCHANGED <<labels, late>>,
             ship'.attempts = ship.attempts, ship.status # "none" => ship'.status # "none",
             ship'.error = "missing" => ship.error = "missing"
      PROVE  PlainStep
  BY <1>q DEF PlainStep, Label
<1>1. CASE FindExisting(W)
  BY <1>1, <1>m, <1>w, <1>q DEF FindExisting
<1>2. CASE AdoptExisting(W) \/ AdoptRefresh(W) \/ AdoptRecover(W)
  <2>1. \E p : UpdateShipmentSubmission("label_pending", p, "none")
    BY <1>2 DEF AdoptExisting, AdoptRefresh, AdoptRecover
  <2>2. ship'.attempts = ship.attempts /\ ship'.status = "label_pending" /\ ship'.error = "none"
    BY <1>0, <2>1 DEF UpdateShipmentSubmission, Submission, Shipment
  <2> QED  BY <1>2, <1>m, <1>g, <1>r, <1>w, <1>q, <2>2 DEF AdoptExisting, AdoptRefresh, AdoptRecover
<1>3. CASE RecordSubmission(W)
  <2> DEFINE st == SubmissionStatus(reply[W], found[W])
             e  == SubmissionError(reply[W])
             u  == Submission(ship, st, found[W], e)
             f  == IF reply[W] = "address" THEN u.failed \cup {snap[W].carrier} ELSE u.failed
  <2>1. ship' = [u EXCEPT !.failed = f] /\ \E r : Return(W, ship', r)
    BY <1>3 DEF RecordSubmission
  <2>2. st # "none" /\ e # "missing"
    BY DEF SubmissionStatus, SubmissionError
  <2>3. u.attempts = ship.attempts /\ u.status = st /\ u.error = e
        /\ DOMAIN u = {"status", "pkgs", "tracked", "attempts", "confirms", "confirmed", "carrier", "failed", "error"}
    <3> HIDE DEF st, e
    <3> QED  BY <1>0 DEF Submission, Shipment
  <2>4. ship'.attempts = u.attempts /\ ship'.status = u.status /\ ship'.error = u.error
    <3> HIDE DEF f, u
    <3> QED  BY <2>1, <2>3
  <2> QED  BY <1>3, <1>r, <1>w, <1>q, <2>1, <2>2, <2>3, <2>4 DEF RecordSubmission
<1>4. CASE BeginRefresh(W) \/ BeginConfirm(W) \/ Settle(W)
  BY <1>4, <1>m, <1>r, <1>w, <1>q DEF BeginRefresh, BeginConfirm, Settle
<1>5. CASE QueryResult(W)
  BY <1>5, <1>m, <1>r, <1>w, <1>q DEF QueryResult
<1>6. CASE RecordResult(W)
  <2>1. /\ ship'.attempts = ship.attempts /\ ship'.status = ResultStatus(reply[W])
        /\ ship'.error = ResultError(reply[W])
    BY <1>0, <1>6 DEF RecordResult, UpdateShipmentResult, Shipment
  <2>2. ship'.status # "none" /\ ship'.error # "missing"
    BY <2>1 DEF ResultStatus, ResultError
  <2> QED  BY <1>6, <1>m, <1>w, <1>q, <2>1, <2>2 DEF RecordResult
<1>7. CASE AnnotateResult(W)
  <2>1. ship'.attempts = ship.attempts /\ ship'.status = ship.status /\ ship'.error = ship.error
    BY <1>0, <1>7 DEF AnnotateResult, Shipment
  <2> QED  BY <1>7, <1>g, <1>w, <1>q, <2>1 DEF AnnotateResult
<1>8. CASE RecordShipmentConfirmationAttempt(W)
  <2>1. ship'.attempts = ship.attempts /\ ship'.status = ship.status /\ ship'.error = ship.error
    BY <1>0, <1>8 DEF RecordShipmentConfirmationAttempt, CountConfirmation, Shipment
  <2> QED  BY <1>8, <1>g, <1>r, <1>w, <1>q, <2>1 DEF RecordShipmentConfirmationAttempt
<1>9. CASE CallConfirm(W)
  BY <1>9, <1>m, <1>w, <1>q DEF CallConfirm
<1>10. CASE RecordConfirm(W)
  <2>1. MarkShipmentConfirmed \/ \E t : UpdateShipmentResult("confirm_failed", t, "other")
    BY <1>10 DEF RecordConfirm
  <2>2. ship'.attempts = ship.attempts /\ ship'.status # "none" /\ ship'.error # "missing"
    BY <1>0, <2>1 DEF MarkShipmentConfirmed, UpdateShipmentResult, Shipment
  <2> QED  BY <1>10, <1>g, <1>r, <1>w, <1>q, <2>2 DEF RecordConfirm
<1>11. CASE BeginCheckOMS(W) \/ UpdateOMSSync(W) \/ ReleaseVerified(W)
  BY <1>11, <1>m, <1>g, <1>r, <1>w, <1>q DEF BeginCheckOMS, UpdateOMSSync, ReleaseVerified
<1> QED
  BY <1>1, <1>2, <1>3, <1>4, <1>5, <1>6, <1>7, <1>8, <1>9, <1>10, <1>11 DEF Service, Delicate

\* The steps of a run that are plain.
LEMMA RunPlain ==
    ASSUME TypeOK, RunAutoFulfillment, ~Delicate
    PROVE  PlainStep
<1>0. LocalTypes
  BY DEF TypeOK
<1>w. {"idle", "release", "dispatch", "refresh", "confirm", "checkOMS", "failedLabel"} \cap Watched = {}
  BY DEF Watched, Buying, Rechecking, Recovering, Fallback, Unlabelled
<1>g. \A l \in {"dispatch", "refresh", "confirm", "checkOMS", "failedLabel"} :
         Goto(W, l) /\ UNCHANGED <<ship, labels, late>> => PlainStep
  BY <1>0, <1>w, GotoPlain DEF Goto
<1>s. \A st, r : /\ Stop(st, r) /\ UNCHANGED <<ship, labels, late>> => PlainStep
                 /\ StopReleasingFailed(st, r) /\ UNCHANGED <<ship, labels, late>> => PlainStep
  BY <1>0, StopPlain, StopAndReleasePlain DEF StopReleasingFailed
<1>1. UNCHANGED <<ship, labels, late>>
  BY DEF RunAutoFulfillment, Delicate, AfterPurchase, DispatchExhausted, DispatchUnknown, DispatchPending,
     DispatchReady, DispatchShipped, DispatchFailed, AfterResubmit, AfterPending, AfterConfirm,
     AfterCheckOMS, AfterCoverage, AfterFallback, ReleaseReservation, workerFrame
<1>2. CASE AfterPurchase
  BY <1>0, <1>1, <1>2, <1>g, <1>s, StopAndReleasePlain DEF AfterPurchase
<1>3. CASE DispatchExhausted \/ DispatchUnknown \/ DispatchPending \/ DispatchReady \/ DispatchShipped \/ DispatchFailed
  BY <1>1, <1>3, <1>g, <1>s
  DEF DispatchExhausted, DispatchUnknown, DispatchPending, DispatchReady, DispatchShipped, DispatchFailed, Begin
<1>4. CASE AfterResubmit \/ AfterPending
  BY <1>1, <1>4, <1>g, <1>s DEF AfterResubmit, AfterPending, Iterate
<1>5. CASE AfterConfirm \/ AfterCheckOMS \/ AfterCoverage \/ AfterFallback
  BY <1>1, <1>5, <1>g, <1>s DEF AfterConfirm, AfterCheckOMS, AfterCoverage, AfterFallback, Iterate
<1>6. CASE ReleaseReservation
  <2>1. pc'[W] = "idle" /\ snap'[W] = NoShipment
    BY <1>0, <1>6, Moved DEF ReleaseReservation, Sleep, Rest
  <2> QED  BY <1>1, <1>w, <2>1 DEF PlainStep
<1> QED
  BY <1>2, <1>3, <1>4, <1>5, <1>6 DEF RunAutoFulfillment, Delicate

\* Every step of the worker without operators.
LEMMA StepKinds ==
    ASSUME Handlers = {}, TypeOK, Next
    PROVE  Delicate \/ PlainStep \/ Elsewhere
<1>0. LocalTypes /\ late \in Nat /\ Actors = {W}
  BY DEF TypeOK, RemoteTypes, Actors, W
<1>1. CASE Service(W)
  BY <1>1, ServicePlain
<1>2. CASE Interrupt(W)
  <2>1. pc'[W] = "idle" /\ snap'[W] = NoShipment
    BY <1>0, <1>2, Moved DEF Interrupt, Rest
  <2> QED
    BY <1>2, <2>1 DEF Interrupt, PlainStep, Watched, Buying, Rechecking, Recovering, Fallback, Unlabelled
<1>3. CASE RepairShipmentCompletionJobs
  BY <1>3 DEF RepairShipmentCompletionJobs, Elsewhere
<1>4. CASE ClaimAutoFulfillment
  BY <1>4 DEF Delicate
<1>5. CASE RunAutoFulfillment
  BY <1>5, RunPlain
<1>6. CASE Environment
  BY <1>6 DEF Environment, EnqueueAutoFulfillment, ResolveMissingOMSPlatformOrder, SyncOrder,
     ApproveManualReview, PrintLabel, ApplyLateCreate, Elsewhere
<1>7. ~Requests
  BY DEF Requests
<1> QED  BY <1>0, <1>1, <1>2, <1>3, <1>4, <1>5, <1>6, <1>7 DEF Next

\* A prepared attempt in detail.
LEMMA ResubmitFacts ==
    ASSUME NEW s, NEW c
    PROVE  LET u == Resubmit(s, c)
           IN  /\ u.status = "submitting" /\ u.attempts = s.attempts + 1 /\ u.error = "none"
               /\ u.carrier = c /\ u.failed = s.failed
               /\ DOMAIN u = {"status", "pkgs", "tracked", "attempts", "confirms", "confirmed",
                              "carrier", "failed", "error"}
BY DEF Resubmit

\* The delicate steps keep what the worker knows.
LEMMA DelicateCareful ==
    ASSUME TypeOK, Careful, Delicate
    PROVE  Careful'
<1>0. LocalTypes /\ ship \in Shipment /\ ship.attempts \in Nat /\ W \in Actors
  BY WorkerActor DEF TypeOK, RowTypes, Shipment, W
<1>b. MaxSubmissionAttempts \in Nat \ {0}
  BY BoundsAssumption
<1>m. \A l, s, r, f : Move(W, l, s, r, f) => pc'[W] = l /\ snap'[W] = s
  BY <1>0, Moved
<1>g. \A l : Goto(W, l) => pc'[W] = l /\ snap'[W] = snap[W]
  BY <1>m DEF Goto
<1>r. \A s, r : Return(W, s, r) => pc'[W] = "done" /\ snap'[W] = s
  BY <1>m DEF Return
<1>w. {"done", "record", "existing", "adoptRefresh", "adoptRecover", "dispatch", "release", "idle"} \cap Watched = {}
  BY DEF Watched, Buying, Rechecking, Recovering, Fallback, Unlabelled
<1>u. Careful <=> FirstBuy /\ Bounded /\ Avoiding
  BY DEF Careful
<1>p. PlainStep => Careful'
  BY PlainCareful DEF PlainStep
<1> USE DEF Buying, Rechecking, Recovering, Fallback
<1>1. CASE CheckPurchase(W) \/ ReserveInventory(W)
  <2>1. ship' = ship /\ op' = op /\ snap'[W] \in {snap[W], ship, NoShipment}
        /\ pc[W] \in {"purchase", "inventory"} /\ pc'[W] \in {"done", "inventory", "reserve"}
    BY <1>1, <1>g, <1>r DEF CheckPurchase, ReserveInventory
  <2>2. snap'[W].status # "none" => snap'[W].attempts = ship'.attempts
    BY <1>u, <2>1 DEF Bounded, NoShipment
  <2> QED  BY <1>u, <2>1, <2>2 DEF Careful, FirstBuy, Bounded, Avoiding
<1>2. CASE ReserveShipment(W)
  <2>1. ship.status = "none" /\ op[W] = "purchase"
    BY <1>2, <1>u DEF ReserveShipment, FirstBuy
  <2>2. /\ ship' = Resubmit(NoShipment, choice[W]) /\ snap'[W] = ship' /\ pc'[W] = "create" /\ op' = op
    BY <1>2, <1>m, <2>1 DEF ReserveShipment
  <2>3. ship'.attempts = 1
    BY <2>2, ResubmitFacts DEF NoShipment
  <2> QED  BY <1>b, <2>1, <2>2, <2>3 DEF Careful, FirstBuy, Bounded, Avoiding
<1>3. ~Recheck(W) /\ ~AdoptRecheck(W) /\ ~PrepareShipmentRetry(W)
  BY <1>u DEF FirstBuy, Recheck, AdoptRecheck, PrepareShipmentRetry
<1>4. CASE CreateShipment(W)
  <2>1. ship' = ship /\ snap'[W] = snap[W] /\ pc'[W] \in {"record", "existing"}
    BY <1>4, <1>m DEF CreateShipment
  <2> QED  BY <1>w, <2>1, PlainCareful
<1>5. CASE LookUpPackages(W)
  <2>1. ship' = ship /\ snap'[W] = snap[W] /\ pc'[W] \in {"done", "adoptRefresh", "missing"}
    BY <1>5, <1>m, <1>r DEF LookUpPackages, OrderDetail
  <2> QED  BY <1>u, <2>1 DEF Careful, FirstBuy, Bounded, Avoiding
<1>6. CASE RecordMissing(W)
  <2>1. ship'.attempts = ship.attempts /\ snap'[W] = ship' /\ pc'[W] = "done"
    BY <1>0, <1>6, <1>r DEF RecordMissing, UpdateShipmentSubmission, Submission, Shipment
  <2> QED  BY <1>w, <2>1, PlainCareful
<1>7. CASE BeginRecover(W)
  <2>1. ship' = ship /\ pc[W] = "recover"
        /\ \/ pc'[W] = "recoverDetail" /\ snap'[W] = ship
           \/ pc'[W] = "done" /\ snap'[W] = NoShipment
    BY <1>7, <1>m, <1>r DEF BeginRecover
  <2> QED  BY <1>u, <2>1 DEF Careful, FirstBuy, Bounded, Avoiding, NoShipment
<1>8. CASE RecoverDetail(W)
  <2>1. ship' = ship /\ pc[W] = "recoverDetail"
        /\ \/ pc'[W] \in {"recoverQuote", "adoptRecover"} /\ snap'[W] = snap[W]
           \/ pc'[W] = "done" /\ snap'[W] = NoShipment
    BY <1>8, <1>m, <1>r DEF RecoverDetail, OrderDetail
  <2> QED  BY <1>u, <2>1 DEF Careful, FirstBuy, Bounded, Avoiding, NoShipment
<1>9. CASE CheckRecoveryQuote(W)
  <2>1. ship' = ship /\ pc[W] = "recoverQuote"
        /\ \/ /\ pc'[W] = "prepareRecovery" /\ snap'[W] = snap[W]
              /\ \E c \in Carriers \ ExcludedCarriers(snap[W]) : choice' = [choice EXCEPT ![W] = c]
           \/ pc'[W] = "done" /\ snap'[W] \in {snap[W], NoShipment}
    BY <1>9, <1>g, <1>r DEF CheckRecoveryQuote
  <2>2. pc'[W] = "prepareRecovery" => choice'[W] \notin ExcludedCarriers(snap'[W])
    BY <1>0, <2>1 DEF LocalTypes
  <2> QED  BY <1>u, <2>1, <2>2 DEF Careful, FirstBuy, Bounded, Avoiding, NoShipment
<1>10. CASE PrepareFailedShipmentRecovery(W)
  <2>1. pc[W] = "prepareRecovery"
    BY <1>10 DEF PrepareFailedShipmentRecovery
  <2>2. CASE RecoveryPreparable(ship)
    <3> DEFINE u == Resubmit(ship, choice[W])
               f == u.failed \cup {snap[W].carrier}
    <3>1. ship' = [u EXCEPT !.failed = f] /\ snap'[W] = ship' /\ pc'[W] = "create" /\ op' = op
      BY <1>10, <1>m, <2>2 DEF PrepareFailedShipmentRecovery
    <3>2. f = ship.failed \cup {snap[W].carrier}
      BY ResubmitFacts
    <3>3. ship'.attempts = ship.attempts + 1 /\ ship'.carrier = choice[W] /\ ship'.failed = f
      <4>1. u.attempts = ship.attempts + 1 /\ u.carrier = choice[W]
            /\ DOMAIN u = {"status", "pkgs", "tracked", "attempts", "confirms", "confirmed",
                           "carrier", "failed", "error"}
        BY ResubmitFacts
      <4> HIDE DEF u, f
      <4> QED  BY <3>1, <4>1
    <3>4. choice[W] \notin f
      BY <1>u, <2>1, <3>2 DEF Avoiding, ExcludedCarriers
    <3>5. ship'.attempts <= MaxSubmissionAttempts
      BY <1>0, <1>b, <1>u, <2>1, <3>3 DEF Bounded
    <3> HIDE DEF f
    <3> QED  BY <3>1, <3>3, <3>4, <3>5 DEF Careful, FirstBuy, Bounded, Avoiding
  <2>3. CASE ~RecoveryPreparable(ship)
    <3>1. ship' = ship /\ pc'[W] = "done" /\ snap'[W] = NoShipment
      BY <1>10, <1>r, <2>3 DEF PrepareFailedShipmentRecovery
    <3> QED  BY <1>w, <3>1, PlainCareful
  <2> QED  BY <2>2, <2>3
<1>11. CASE ClaimAutoFulfillment
  <2>1. /\ ship' = ship /\ snap'[W] = ship /\ op'[W] = "purchase"
        /\ pc'[W] = IF ship.status = "none" THEN "purchase" ELSE "dispatch"
    BY <1>0, <1>11, <1>m DEF ClaimAutoFulfillment, LocalTypes
  <2> QED  BY <1>u, <2>1 DEF Careful, FirstBuy, Bounded, Avoiding
<1>12. CASE AfterVerify
  <2>1. UNCHANGED <<ship, labels, late>>
    BY <1>12 DEF AfterVerify, workerFrame
  <2>2. CASE Move(W, "retryUnknown", snap[W], reply[W], {})
    <3>1. pc'[W] = "retryUnknown" /\ snap'[W] = snap[W]
      BY <1>m, <2>2
    <3> QED  BY <1>u, <2>1, <3>1 DEF Careful, FirstBuy, Bounded, Avoiding
  <2> QED
    BY <1>0, <1>p, <1>w, <1>12, <2>1, <2>2, StopPlain, StopAndReleasePlain, GotoPlain
    DEF AfterVerify, StopReleasingFailed, Iterate, Goto
<1>13. CASE PrepareUnknownShipmentRetry
  <2>1. CASE UnknownPreparable(ship)
    <3> DEFINE u == Submission(ship, "submitting", {}, "none")
    <3>1. ship' = [u EXCEPT !.attempts = @ + 1] /\ snap'[W] = ship' /\ pc'[W] = "create" /\ op'[W] = "resubmit"
      BY <1>0, <1>13, <1>m, <2>1 DEF PrepareUnknownShipmentRetry, LocalTypes
    <3>2. u.attempts = ship.attempts
          /\ DOMAIN u = {"status", "pkgs", "tracked", "attempts", "confirms", "confirmed",
                         "carrier", "failed", "error"}
      BY <1>0 DEF Submission, Shipment
    <3>3. ship'.attempts = ship.attempts + 1
      <4> HIDE DEF u
      <4> QED  BY <3>1, <3>2
    <3>4. ship'.attempts <= MaxSubmissionAttempts
      BY <1>0, <1>b, <2>1, <3>3 DEF UnknownPreparable
    <3> QED  BY <3>1, <3>4 DEF Careful, FirstBuy, Bounded, Avoiding
  <2>2. CASE ~UnknownPreparable(ship)
    BY <1>0, <1>p, <1>13, <2>2, StopAndReleasePlain DEF PrepareUnknownShipmentRetry, workerFrame
  <2> QED  BY <2>1, <2>2
<1>14. CASE FailedLabel
  <2>1. CASE UNCHANGED ship /\ StopAndRelease("none")
    BY <1>0, <1>p, <1>14, <2>1, StopAndReleasePlain DEF FailedLabel
  <2>2. ASSUME ship' = [ship EXCEPT !.failed = @ \cup {snap[W].carrier}], Goto(W, "release")
        PROVE  Careful'
    <3>1. ship'.attempts = ship.attempts
      BY <1>0, <2>2 DEF Shipment
    <3> QED  BY <1>g, <1>w, <2>2, <3>1, PlainCareful
  <2>3. ASSUME ship' = [ship EXCEPT !.failed = @ \cup {snap[W].carrier}], Goto(W, "fallbackQuote"),
               CarrierFallbackAllowed(snap[W], MaxSubmissionAttempts)
        PROVE  Careful'
    <3>1. ship'.attempts = ship.attempts
      BY <1>0, <2>3 DEF Shipment
    <3>2. ship.attempts < MaxSubmissionAttempts
      BY <1>u, <2>3 DEF Bounded, CarrierFallbackAllowed, RecoveryAllowed
    <3>3. pc'[W] = "fallbackQuote" /\ snap'[W] = snap[W]
      BY <1>g, <2>3
    <3> QED  BY <1>u, <3>1, <3>2, <3>3 DEF Careful, FirstBuy, Bounded, Avoiding
  <2> QED  BY <1>14, <2>1, <2>2, <2>3, Zenon DEF FailedLabel, Begin
<1>15. CASE QuoteFallback
  <2>1. UNCHANGED <<ship, labels, late>> /\ pc[W] = "fallbackQuote"
    BY <1>15 DEF QuoteFallback, workerFrame
  <2>2. CASE Goto(W, "recover")
    <3>1. pc'[W] = "recover" /\ snap'[W] = snap[W]
      BY <1>g, <2>2
    <3> QED  BY <1>u, <2>1, <3>1 DEF Careful, FirstBuy, Bounded, Avoiding
  <2> QED  BY <1>0, <1>p, <1>15, <2>1, <2>2, StopPlain DEF QuoteFallback
<1> QED
  BY <1>1, <1>2, <1>3, <1>4, <1>5, <1>6, <1>7, <1>8, <1>9, <1>10, <1>11, <1>12, <1>13, <1>14, <1>15
  DEF Delicate

\* The delicate steps keep what the worker has labelled.
LEMMA DelicateSingle ==
    ASSUME {"late", "lag"} \cap Faults = {}, TypeOK, Careful, Single, Delicate
    PROVE  Single'
<1>0. LocalTypes /\ ship \in Shipment /\ W \in Actors
  BY WorkerActor DEF TypeOK, RowTypes, W
<1>d. Details = {labels} /\ "late" \notin Faults
  BY DEF Details
<1>s. late = 0 /\ (pc[W] \in Unlabelled => labels = {})
  BY DEF Single
<1>m. \A l, s, r, f : Move(W, l, s, r, f) => pc'[W] = l /\ snap'[W] = s
  BY <1>0, Moved
<1>g. \A l : Goto(W, l) => pc'[W] = l /\ snap'[W] = snap[W]
  BY <1>m DEF Goto
<1>r. \A s, r : Return(W, s, r) => pc'[W] = "done" /\ snap'[W] = s
  BY <1>m DEF Return
<1>p. PlainStep => Single'
  BY PlainSingle DEF PlainStep, Watched
<1>w. {"dispatch", "release", "idle"} \cap Watched = {}
  BY DEF Watched, Buying, Rechecking, Recovering, Fallback, Unlabelled
<1>1. CASE CheckPurchase(W) \/ ReserveInventory(W) \/ BeginRecover(W) \/ ClaimAutoFulfillment
  <2>1. UNCHANGED <<ship, labels, late>>
    BY <1>1 DEF CheckPurchase, ReserveInventory, BeginRecover, ClaimAutoFulfillment, workerFrame
  <2>2. /\ pc'[W] \in {"inventory", "reserve", "recoverDetail", "purchase", "dispatch", "done"}
        /\ snap'[W] \in {snap[W], ship, NoShipment}
    BY <1>1, <1>m, <1>g, <1>r DEF CheckPurchase, ReserveInventory, BeginRecover, ClaimAutoFulfillment
  <2> QED  BY <2>1, <2>2, PlainSingle DEF Unlabelled
<1>2. CASE ReserveShipment(W)
  <2>1. ship.status = "none"
    BY <1>2 DEF ReserveShipment, Careful, FirstBuy, Buying
  <2>2. ship' = Resubmit(NoShipment, choice[W]) /\ snap'[W] = ship' /\ UNCHANGED <<labels, late>>
    BY <1>2, <1>m, <2>1 DEF ReserveShipment
  <2>3. ship'.status # "none" /\ ship'.error = "none"
    BY <2>2, ResubmitFacts
  <2>4. labels = {}
    BY <2>1 DEF Single
  <2> QED  BY <1>s, <2>2, <2>3, <2>4, EmptySingle
<1>3. ~Recheck(W) /\ ~AdoptRecheck(W) /\ ~PrepareShipmentRetry(W)
  BY DEF Careful, FirstBuy, Rechecking, Recheck, AdoptRecheck, PrepareShipmentRetry
<1>4. CASE CreateShipment(W)
  <2>1. /\ labels = {} /\ ship.status # "none" /\ ship.error = "none" /\ snap[W].error = "none"
    BY <1>4 DEF CreateShipment, Single, Unlabelled
  <2>2. UNCHANGED <<ship, late>> /\ snap'[W] = snap[W] /\ pc'[W] \in {"record", "existing"}
    BY <1>4, <1>d, <1>m DEF CreateShipment
  <2>3. labels' = {} \/ \E p : labels' = {p}
    BY <1>4, <2>1 DEF CreateShipment, TemuCreates
  <2> QED  BY <1>s, <2>1, <2>2, <2>3 DEF Single, AtMostOneLabel, Unlabelled
<1>5. CASE LookUpPackages(W) \/ RecoverDetail(W)
  <2>1. UNCHANGED <<ship, labels, late>>
    BY <1>5 DEF LookUpPackages, RecoverDetail, OrderDetail
  <2>2. /\ pc'[W] \in {"done", "adoptRefresh", "adoptRecover", "missing", "recoverQuote"}
        /\ pc'[W] \in {"missing", "recoverQuote"} => labels = {}
        /\ snap'[W] \in {snap[W], NoShipment}
    BY <1>5, <1>d, <1>m, <1>r DEF LookUpPackages, RecoverDetail, OrderDetail
  <2>3. CASE labels = {}
    BY <1>s, <2>1, <2>2, <2>3, EmptySingle
  <2> QED  BY <2>1, <2>2, <2>3, PlainSingle DEF Unlabelled
<1>6. CASE RecordMissing(W)
  <2>1. labels = {} /\ UNCHANGED <<labels, late>> /\ pc'[W] = "done"
    BY <1>6, <1>r, <1>s DEF RecordMissing, Unlabelled
  <2> QED  BY <1>s, <2>1, EmptySingle
<1>7. CASE CheckRecoveryQuote(W)
  <2>1. labels = {} /\ UNCHANGED <<labels, late>> /\ pc'[W] \in {"prepareRecovery", "done"}
    BY <1>7, <1>g, <1>r, <1>s DEF CheckRecoveryQuote, Unlabelled
  <2> QED  BY <1>s, <2>1, EmptySingle
<1>8. CASE PrepareFailedShipmentRecovery(W)
  <2>1. labels = {} /\ UNCHANGED <<labels, late>>
    BY <1>8, <1>s DEF PrepareFailedShipmentRecovery, Unlabelled
  <2>2. CASE RecoveryPreparable(ship)
    <3> DEFINE u == Resubmit(ship, choice[W])
               f == u.failed \cup {snap[W].carrier}
    <3>1. ship' = [u EXCEPT !.failed = f] /\ snap'[W] = ship'
      BY <1>8, <1>m, <2>2 DEF PrepareFailedShipmentRecovery
    <3>2. u.status = "submitting" /\ u.error = "none"
          /\ DOMAIN u = {"status", "pkgs", "tracked", "attempts", "confirms", "confirmed",
                         "carrier", "failed", "error"}
      BY ResubmitFacts
    <3> HIDE DEF u, f
    <3>3. ship'.status = "submitting" /\ ship'.error = "none"
      BY <3>1, <3>2
    <3> QED  BY <1>s, <2>1, <3>1, <3>3, EmptySingle
  <2>3. CASE ~RecoveryPreparable(ship)
    <3>1. pc'[W] = "done"
      BY <1>8, <1>r, <2>3 DEF PrepareFailedShipmentRecovery
    <3> QED  BY <1>s, <2>1, <3>1, EmptySingle
  <2> QED  BY <2>2, <2>3
<1>9. CASE AfterVerify
  <2>1. UNCHANGED <<ship, labels, late>>
    BY <1>9 DEF AfterVerify, workerFrame
  <2>2. CASE Move(W, "retryUnknown", snap[W], reply[W], {}) /\ snap[W].error = "missing"
    <3>1. pc'[W] = "retryUnknown" /\ labels = {}
      BY <1>m, <2>2 DEF Single
    <3> QED  BY <1>s, <2>1, <3>1, EmptySingle
  <2> QED
    BY <1>0, <1>p, <1>w, <1>9, <2>1, <2>2, StopPlain, StopAndReleasePlain, GotoPlain
    DEF AfterVerify, StopReleasingFailed, Iterate, Goto
<1>10. CASE PrepareUnknownShipmentRetry
  <2>1. labels = {} /\ UNCHANGED <<labels, late>>
    BY <1>10, <1>s DEF PrepareUnknownShipmentRetry, workerFrame, Unlabelled
  <2>2. CASE UnknownPreparable(ship)
    <3> DEFINE u == Submission(ship, "submitting", {}, "none")
    <3>1. ship' = [u EXCEPT !.attempts = @ + 1] /\ snap'[W] = ship'
      BY <1>10, <1>m, <2>2 DEF PrepareUnknownShipmentRetry
    <3>2. u.status = "submitting" /\ u.error = "none"
          /\ DOMAIN u = {"status", "pkgs", "tracked", "attempts", "confirms", "confirmed",
                         "carrier", "failed", "error"}
      BY <1>0 DEF Submission, Shipment
    <3> HIDE DEF u
    <3>3. ship'.status = "submitting" /\ ship'.error = "none"
      BY <3>1, <3>2
    <3> QED  BY <1>s, <2>1, <3>1, <3>3, EmptySingle
  <2>3. CASE ~UnknownPreparable(ship)
    BY <1>0, <1>p, <1>10, <2>1, <2>3, StopAndReleasePlain DEF PrepareUnknownShipmentRetry, workerFrame
  <2> QED  BY <2>2, <2>3
<1>11. CASE FailedLabel
  <2>1. CASE UNCHANGED ship /\ StopAndRelease("none")
    BY <1>0, <1>p, <1>11, <2>1, StopAndReleasePlain DEF FailedLabel
  <2>2. ASSUME ship' = [ship EXCEPT !.failed = @ \cup {snap[W].carrier}],
               NEW l \in {"release", "fallbackQuote"}, Goto(W, l)
        PROVE  Single'
    <3>1. ship'.status = ship.status /\ ship'.error = ship.error
      BY <1>0, <2>2 DEF Shipment
    <3>2. UNCHANGED <<labels, late>>
      BY <1>11 DEF FailedLabel
    <3> QED  BY <1>g, <2>2, <3>1, <3>2, PlainSingle DEF Unlabelled
  <2> QED  BY <1>11, <2>1, <2>2, Zenon DEF FailedLabel, Begin
<1>12. CASE QuoteFallback
  <2>1. UNCHANGED <<ship, labels, late>>
    BY <1>12 DEF QuoteFallback, workerFrame
  <2>2. CASE Goto(W, "recover")
    BY <1>g, <2>1, <2>2, PlainSingle DEF Unlabelled
  <2> QED  BY <1>0, <1>p, <1>12, <2>1, <2>2, StopPlain DEF QuoteFallback
<1> QED
  BY <1>1, <1>2, <1>3, <1>4, <1>5, <1>6, <1>7, <1>8, <1>9, <1>10, <1>11, <1>12 DEF Delicate

(***************************************************************************)
(* The theorems.                                                           *)
(***************************************************************************)

\* Without operators the worker stays careful.
LEMMA CarefulStep ==
    ASSUME Handlers = {}, TypeOK, Careful, Next
    PROVE  Careful'
<1>1. Elsewhere => Careful'
  BY DEF Elsewhere, Careful, FirstBuy, Bounded, Avoiding
<1>2. PlainStep => Careful'
  BY PlainCareful DEF PlainStep
<1> QED  BY <1>1, <1>2, StepKinds, DelicateCareful

\* It is in the beginning.
LEMMA CarefulInit == Init => Careful
<1> SUFFICES ASSUME Init PROVE Careful
  OBVIOUS
<1>1. pc[W] = "idle" /\ snap[W] = NoShipment /\ ship = NoShipment
  BY WorkerActor DEF Init, W
<1> QED
  BY <1>1, BoundsAssumption
  DEF Careful, FirstBuy, Bounded, Avoiding, Buying, Rechecking, Recovering, Fallback, NoShipment

\* And always.
LEMMA CarefulInvariance ==
    ASSUME Handlers = {}
    PROVE  Spec => []Careful
<1>1. Careful /\ UNCHANGED vars => Careful'
  BY DEF Careful, FirstBuy, Bounded, Avoiding, vars
<1>2. TypeOK /\ Careful /\ Next => Careful'
  BY CarefulStep
<1> QED  BY <1>1, <1>2, CarefulInit, TypeCorrect, PTL DEF Spec

\* The first purchase, the retries of unknown results and the fallbacks to other
\* carriers, over all runs and restarts of the worker: no more submissions than
\* maxShipmentSubmissionAttempts.
THEOREM SubmissionsAreBounded ==
    ASSUME Handlers = {}
    PROVE  Spec => []AutomaticSubmissionsBounded
<1>1. Careful => AutomaticSubmissionsBounded
  BY DEF Careful, Bounded, AutomaticSubmissionsBounded
<1> QED  BY <1>1, CarefulInvariance, PTL

\* A fallback never submits a carrier that has failed, whichever of the four
\* statements recorded the failure.
THEOREM FailedCarriersAreAvoided ==
    ASSUME Handlers = {}
    PROVE  Spec => []FallbackAvoidsFailedCarriers
<1>1. Careful => FallbackAvoidsFailedCarriers
  BY DEF Careful, Avoiding, FallbackAvoidsFailedCarriers, W
<1> QED  BY <1>1, CarefulInvariance, PTL

\* If Temu applies no create after it was given up and shows every package in its
\* order detail, the worker buys one label, whatever else fails and wherever the
\* process dies.
THEOREM WorkerBuysOnce ==
    ASSUME Handlers = {}, {"late", "lag"} \cap Faults = {}
    PROVE  Spec => []AtMostOneLabel
<1>1. Init => Single
  <2> SUFFICES ASSUME Init PROVE Single
    OBVIOUS
  <2>1. labels = {} /\ late = 0 /\ pc[W] = "idle"
    BY WorkerActor DEF Init, W
  <2> QED  BY <2>1 DEF Single, AtMostOneLabel, Unlabelled
<1>2. Single /\ UNCHANGED vars => Single'
  BY DEF Single, AtMostOneLabel, vars
<1>3. TypeOK /\ Careful /\ Single /\ Next => Single'
  <2> SUFFICES ASSUME TypeOK, Careful, Single, Next PROVE Single'
    OBVIOUS
  <2>1. Elsewhere => Single'
    BY DEF Elsewhere, Single, AtMostOneLabel
  <2>2. PlainStep => Single'
    BY PlainSingle DEF PlainStep, Watched
  <2> QED  BY <2>1, <2>2, StepKinds, DelicateSingle
<1>4. Single => AtMostOneLabel
  BY DEF Single
<1> QED  BY <1>1, <1>2, <1>3, <1>4, CarefulInvariance, TypeCorrect, PTL DEF Spec
==========================================================================
