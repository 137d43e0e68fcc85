--------------------------- MODULE CompletionJob ---------------------------
(***************************************************************************)
(* The two rows PostgreSQL keeps for an order once it enters fulfilment,   *)
(* and the SQL statements that move the second one along with the first:   *)
(*                                                                         *)
(*   temu_shipments              the purchase ledger (one row per order,   *)
(*                               temu_shipment_orders has the order as     *)
(*                               its primary key)                          *)
(*   temu_auto_fulfillment_jobs  the durable completion job that the       *)
(*                               background worker claims                  *)
(*                                                                         *)
(* Every operator here is a pure function of rows; ShipmentLedger gives    *)
(* them to the actions of the service.  Ages (updated_at < now() - ...)    *)
(* are left out: the time between two steps is arbitrary, so an age guard  *)
(* is true in some schedule and only delays the statement.                 *)
(***************************************************************************)
EXTENDS Naturals, FiniteSets

ShipmentStatus == {"submitting", "label_pending", "label_ready", "label_failed",
                   "submission_unknown", "shipped", "confirm_failed"}

JobStatus == {"queued", "running", "waiting_label", "confirming",
              "waiting_oms", "completed", "skipped", "failed"}

\* No row yet.  linked: shipment_id is not NULL.  transient: last_error
\* contains one of the markers of a temporary Temu failure.
NoJob == [status |-> "none", linked |-> FALSE, transient |-> FALSE]

Job == [status : JobStatus \cup {"none"}, linked : BOOLEAN, transient : BOOLEAN]

\* Mutant: the job is given a status of the shipment.
MutCompletionJobStatus(status) ==
    CASE status \in {"submitting", "label_pending", "submission_unknown"} -> "waiting_label"
      [] status = "label_ready"                                           -> "confirming"
      [] status = "label_failed"                                          -> "failed"
      [] status = "confirm_failed"                                        -> status
      [] OTHER                                                            -> "waiting_oms"

CompletionJobStatus(status) ==
    CASE status \in {"submitting", "label_pending", "submission_unknown"} -> "waiting_label"
      [] status \in {"label_ready", "confirm_failed"}                     -> "confirming"
      [] status = "label_failed"                                          -> "failed"
      [] OTHER                                                            -> "waiting_oms"

\* The statuses an existing job of the same shipment keeps when the statement
\* would set it to target.
KeptFor(target) ==
    CASE target = "waiting_label" -> {"queued", "running", "waiting_label"}
      [] target = "confirming"    -> {"running", "confirming"}
      [] target = "waiting_oms"   -> {"waiting_oms", "completed"}
      [] OTHER                    -> {}

\* The upsert every ledger write runs in its own transaction.  Any status that is
\* not kept, completed included, is overwritten and its error cleared.
EnsureJob(job, status) ==
    LET target == CompletionJobStatus(status)
    IN  IF job.linked /\ job.status \in KeptFor(target)
        THEN job
        ELSE [status |-> target, linked |-> TRUE, transient |-> FALSE]

\* Mutant: an update without a shipment unlinks the one the job has.
MutUpdateJob(job, link, status, transient) ==
    IF job.status \in {"none", "completed"} THEN job
    ELSE [status |-> status, linked |-> link, transient |-> transient]

\* UpdateAutoFulfillment: a completed job only changes to completed.
UpdateJob(job, link, status, transient) ==
    IF job.status = "none" \/ (job.status = "completed" /\ status # "completed")
    THEN job
    ELSE [status    |-> status,
          linked    |-> job.linked \/ link,
          transient |-> transient]

EnqueueJob(job) ==
    IF job.status \in {"none", "failed"}
    THEN [status |-> "queued", linked |-> job.linked, transient |-> FALSE]
    ELSE job

----------------------------------------------------------------------------
(* Which shipments may be bought again, and by whom.                       *)

ShipmentRetryable(s) ==
    s.pkgs = {} /\ s.status \in {"submission_unknown", "label_failed"}

RecoveryAllowed(s) ==
    /\ s.status = "label_failed"
    /\ ~s.tracked
    /\ ~s.confirmed
    /\ s.pkgs = {}

\* Mutant: off by one.
MutCarrierFallbackAllowed(s, maxSubmissions) ==
    RecoveryAllowed(s) /\ s.error = "address" /\ s.attempts <= maxSubmissions

CarrierFallbackAllowed(s, maxSubmissions) ==
    /\ RecoveryAllowed(s)
    /\ s.error = "address"
    /\ s.attempts < maxSubmissions

CoverageNeedsManual(s) ==
    /\ s.status = "label_failed"
    /\ s.pkgs # {}
    /\ ~s.tracked
    /\ ~s.confirmed
    /\ s.error = "address"

\* Mutant: only the last carrier is left out.
MutExcludedCarriers(s) == {s.carrier}

ExcludedCarriers(s) == s.failed \cup {s.carrier}

----------------------------------------------------------------------------
(* The worker's two audits of the job table.                               *)

RetryableFailure(job, s, orderOpen, maxSubmissions) ==
    \/ /\ job.transient
       /\ IF job.linked
          THEN s.status \in {"submitting", "label_pending", "label_ready",
                             "confirm_failed", "submission_unknown"}
          ELSE orderOpen
    \/ job.linked /\ CarrierFallbackAllowed(s, maxSubmissions)

Claimable(job, s, orderOpen, maxSubmissions) ==
    \/ job.status \in {"queued", "waiting_oms", "waiting_label", "confirming", "running"}
    \/ job.status = "failed" /\ RetryableFailure(job, s, orderOpen, maxSubmissions)

ClaimJob(job) == [job EXCEPT !.status = "running"]

\* Mutant: only a missing job is repaired.
MutRepairable(job, s) ==
    /\ s.status = "label_ready" /\ s.confirms = 0
    /\ s.pkgs # {} /\ s.tracked
    /\ ~job.linked

Repairable(job, s) ==
    /\ s.status = "label_ready"
    /\ ~s.confirmed
    /\ s.confirms = 0
    /\ s.pkgs # {}
    /\ s.tracked
    /\ \/ ~job.linked
       \/ job.status \notin {"running", "waiting_label", "confirming"}

RepairJob == [status |-> "confirming", linked |-> TRUE, transient |-> FALSE]
============================================================================
