---------------------------- MODULE ManualReview ----------------------------
(***************************************************************************)
(* The manual review of an order: the row of temu_order_manual_reviews and *)
(* the statements that write it (internal/store: postgres.go,              *)
(* order_detail.go), and what the service reads out of it                  *)
(* (internal/service/service.go).  A row is                                *)
(*   [reasons, status, active, outcome]                                    *)
(* with outcome TRUE once a person has completed the order by hand; its    *)
(* wording, the note and the timestamps are left out.  Every operator maps *)
(* a row, or NoReview, to the row after one statement.                     *)
(***************************************************************************)
EXTENDS FiniteSets

CONSTANT NoReview   \* the order has no row

(* Reasons read off the order itself and off its warehouse decision.       *)
Found == {"sku_unbound", "multi_item", "merge_candidate"}

Recheckable == {"sku_unbound", "inventory_rule", "inventory_scope_incomplete",
                "warehouse_sku_spec_incomplete",
                "platform_sku_warehouse_restriction"}

Address == "delivery_address_unsupported"

Blocking == Recheckable \cup {Address}

Reasons == Found \cup Blocking

(* The list written out in every statement: the reasons it carries over.   *)
Dynamic == {"sku_unbound", "inventory_rule", "inventory_scope_incomplete",
            "warehouse_sku_spec_incomplete", Address}

Hard(reasons) == reasons \cap Dynamic # {}

Review == [reasons : SUBSET Reasons,
           status : {"detected", "manual_pending", "approved", "resolved"},
           active : BOOLEAN, outcome : BOOLEAN]

Completed(review) ==
    review # NoReview /\ review.status = "resolved" /\ review.outcome

(* manualOrderReason, as far as it reads the review: nothing keeps the     *)
(* order from being quoted.                                                *)
Passes(review) ==
    /\ ~Completed(review)
    /\ review # NoReview /\ review.active =>
          review.status = "approved" /\ review.reasons \cap Blocking = {}

(* warehouseManualReviewCanBeRechecked.                                    *)
CanBeRechecked(review) ==
    /\ review # NoReview
    /\ review.active /\ review.reasons # {} /\ review.reasons \subseteq Recheckable

Detected(reasons) ==
    [reasons |-> reasons, status |-> "detected", active |-> TRUE, outcome |-> FALSE]

Kept(review) == IF review.active THEN review.reasons \cap Dynamic ELSE {}

Reopened(review, reasons, hard) ==
    [review EXCEPT !.reasons = reasons \cup Kept(review), !.active = TRUE,
        !.status = IF @ = "detected" THEN "detected"
                   ELSE IF hard THEN "manual_pending"
                   ELSE IF @ = "resolved" THEN "detected" ELSE @]

(* UpsertManualReview: adds reasons and keeps the dynamic ones of an       *)
(* active review; one that a person has completed is left alone.           *)
MutUpsertManualReview(review, reasons) ==
    IF reasons = {} THEN review
    ELSE IF review = NoReview THEN Detected(reasons)
    ELSE Reopened(review, reasons, Hard(reasons) \/ Hard(Kept(review)))

UpsertManualReview(review, reasons) ==
    IF reasons = {} THEN review
    ELSE IF review = NoReview THEN Detected(reasons)
    ELSE IF Completed(review) THEN review
    ELSE Reopened(review, reasons, Hard(reasons) \/ Hard(Kept(review)))

(* ReplaceOpenOrders for an order Temu lists: like the statement above     *)
(* when the order has reasons, except that those of an inactive review     *)
(* count; without reasons a review that only had found ones is over.       *)
MutReplaceReview(review, reasons) ==
    IF review = NoReview
    THEN IF reasons = {} THEN NoReview ELSE Detected(reasons)
    ELSE IF reasons # {}
    THEN IF Completed(review) THEN review
         ELSE [Reopened(review, reasons, Hard(reasons) \/ Hard(review.reasons))
                  EXCEPT !.reasons = reasons]
    ELSE [review EXCEPT !.active = FALSE, !.status = "resolved"]

ReplaceReview(review, reasons) ==
    IF review = NoReview
    THEN IF reasons = {} THEN NoReview ELSE Detected(reasons)
    ELSE IF reasons # {}
    THEN IF Completed(review) THEN review
         ELSE Reopened(review, reasons, Hard(reasons) \/ Hard(review.reasons))
    ELSE IF review.active
    THEN [review EXCEPT
             !.active = Hard(review.reasons),
             !.status = IF Hard(review.reasons)
                        THEN IF @ = "detected" THEN "detected" ELSE "manual_pending"
                        ELSE IF @ = "approved" THEN @ ELSE "resolved"]
    ELSE review

(* The end of ReplaceOpenOrders: the review of a closed order is over.     *)
CloseReview(review) ==
    IF review # NoReview /\ review.active
    THEN [review EXCEPT !.active = FALSE, !.status = "resolved"] ELSE review

(* ClearManualReviewReason.                                                *)
ClearManualReviewReason(review, reason) ==
    IF review = NoReview \/ Completed(review) THEN review
    ELSE IF reason \notin review.reasons THEN review
    ELSE LET left == review.reasons \ {reason}
         IN  [review EXCEPT
                 !.reasons = left, !.active = left # {},
                 !.status = IF left = {} THEN "resolved"
                            ELSE IF @ = "approved" THEN "manual_pending" ELSE @]

(* UpdateManualReview: the rows its WHERE admits, and what becomes of one. *)
Updatable(review, status) ==
    /\ review # NoReview
    /\ IF status = "resolved" THEN review.active /\ review.status = "manual_pending"
                              ELSE ~Completed(review)

UpdateManualReview(review, status) ==
    [review EXCEPT !.status = status, !.active = status # "resolved",
                   !.outcome = status = "resolved"]
=============================================================================
