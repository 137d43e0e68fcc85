---------------------------- MODULE OMSOutcome -----------------------------
(***************************************************************************)
(* What the OMS reconciliation of a shipped order promises to the rest of  *)
(* the service, without actors, leases, queries and rows: one verdict, and *)
(* an inventory reservation that is given back only behind a verdict that  *)
(* XLWMS has the order.                                                    *)
(*                                                                         *)
(* late: an answer of XLWMS may be recorded after somebody else has taken  *)
(* the query over; only then a verdict, except the operator's, may be      *)
(* taken back.                                                             *)
(***************************************************************************)

VARIABLES outcome, held, late

outcomeVars == <<outcome, held, late>>

Verdicts == {"open", "verified", "manual_required", "terminal"}

Init == outcome = "open" /\ held = TRUE /\ late \in BOOLEAN

Judge ==
    /\ outcome = "open"
    /\ outcome' \in {"verified", "manual_required"}
    /\ UNCHANGED <<held, late>>

\* The operator closes an order that XLWMS does not have.
Resolve ==
    /\ outcome \in {"open", "manual_required"}
    /\ outcome' = "terminal"
    /\ UNCHANGED <<held, late>>

Release ==
    /\ outcome = "verified" \/ late
    /\ held' = FALSE
    /\ UNCHANGED <<outcome, late>>

LateAnswer ==
    /\ late
    /\ outcome # "terminal"
    /\ outcome' \in Verdicts \ {"terminal"}
    /\ UNCHANGED <<held, late>>

Next == Judge \/ Resolve \/ Release \/ LateAnswer

Spec == Init /\ [][Next]_outcomeVars
============================================================================
