---------------------------- MODULE MCOrderSync ----------------------------
(***************************************************************************)
(* OrderSync for TLC: an order that is worked on and another that only     *)
(* enters and leaves Temu's list, on pages of one order; XLWMS answers     *)
(* that it can be shipped, that its SKU is not bound, or that the platform *)
(* forbids the only warehouse.                                             *)
(***************************************************************************)
EXTENDS OrderSync

MCQuantities == [a |-> 1]

Warehouse(found, selectable, disabled) ==
    [region |-> "east", active |-> TRUE, answered |-> TRUE, found |-> found,
     selectable |-> selectable, available |-> 5, account |-> "dps",
     disabled |-> disabled, code |-> "x"]

Decision(at) ==
    [complete |-> TRUE, spec |-> TRUE, lead |-> "a",
     records |-> [a |-> [manual |-> FALSE, at |-> [w |-> at]]]]

MCDecisions == {Decision(Warehouse(TRUE, TRUE, FALSE)),
                Decision(Warehouse(FALSE, FALSE, FALSE)),
                Decision(Warehouse(TRUE, FALSE, TRUE))}

FewDecisions == {Decision(Warehouse(TRUE, TRUE, FALSE)),
                 Decision(Warehouse(TRUE, FALSE, TRUE))}

Plain == [unbound |-> FALSE, multi |-> FALSE, merged |-> FALSE]

MCContents == {Plain, [Plain EXCEPT !.multi = TRUE, !.merged = TRUE],
               [Plain EXCEPT !.unbound = TRUE]}

FewContents == {Plain, [Plain EXCEPT !.unbound = TRUE, !.merged = TRUE]}
============================================================================
