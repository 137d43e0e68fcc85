-------------------------- MODULE ShipmentOutcome --------------------------
(***************************************************************************)
(* What the purchase ledger promises the shop about one order, without     *)
(* actors, jobs, statuses and calls: a label is paid for only behind a     *)
(* submission that was recorded before; Temu takes a confirmation only     *)
(* after the attempt was recorded and for an order that has a label; the   *)
(* ledger says confirmed only when Temu has taken the confirmation; and    *)
(* nothing of it is withdrawn.                                             *)
(*                                                                         *)
(* MayReopen: purchases may overlap, or Temu's order detail may miss a     *)
(* package; only then a new submission may forget that the order is        *)
(* confirmed, but neither its labels nor its attempts.                     *)
(***************************************************************************)
EXTENDS Naturals

CONSTANT MayReopen

VARIABLES
    submissions,    \* attempts to buy that the ledger has recorded
    bought,         \* labels Temu has created for the order
    counted,        \* the ledger has recorded an attempt to confirm
    taken,          \* Temu has taken the confirmation
    confirmed       \* the ledger says so

outcomeVars == <<submissions, bought, counted, taken, confirmed>>

Init ==
    /\ submissions = 0 /\ bought = 0
    /\ counted = FALSE /\ taken = FALSE /\ confirmed = FALSE

Submit ==
    /\ submissions' = submissions + 1
    /\ UNCHANGED <<bought, counted, taken, confirmed>>

Buy ==
    /\ bought < submissions
    /\ bought' = bought + 1
    /\ UNCHANGED <<submissions, counted, taken, confirmed>>

Count ==
    /\ counted' = TRUE
    /\ UNCHANGED <<submissions, bought, taken, confirmed>>

Take ==
    /\ counted /\ bought > 0
    /\ taken' = TRUE
    /\ UNCHANGED <<submissions, bought, counted, confirmed>>

Acknowledge ==
    /\ taken
    /\ confirmed' = TRUE
    /\ UNCHANGED <<submissions, bought, counted, taken>>

Reopen ==
    /\ MayReopen
    /\ submissions' = submissions + 1
    /\ confirmed' = FALSE
    /\ UNCHANGED <<bought, counted, taken>>

Next == Submit \/ Buy \/ Count \/ Take \/ Acknowledge \/ Reopen

Spec == Init /\ [][Next]_outcomeVars
============================================================================
