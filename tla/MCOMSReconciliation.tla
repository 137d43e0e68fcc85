------------------------ MODULE MCOMSReconciliation ------------------------
(***************************************************************************)
(* OMSReconciliation for TLC: an order XLWMS does not know yet, that is    *)
(* pending, is processed where the label was bought or in another          *)
(* warehouse, or exists twice.                                             *)
(***************************************************************************)
EXTENDS OMSReconciliation

View1(s, w) == [count |-> 1, status |-> s, warehouse |-> w]

MCViews == {NoOrder, View1(0, "none"), View1(2, "bought"), View1(2, "other"),
            [View1(0, "none") EXCEPT !.count = 2]}
============================================================================
