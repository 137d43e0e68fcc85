------------------------- MODULE WarehouseDecision -------------------------
(***************************************************************************)
(* What the service reads out of an XLWMS warehouse decision               *)
(* (internal/inventory/client.go, internal/service: service.go,            *)
(* api_binding.go, substitution.go).  A decision is                        *)
(*   [complete |-> every warehouse answered,                               *)
(*    spec     |-> the package of the order is fully measured,             *)
(*    lead     |-> the SKU whose record comes first,                       *)
(*    records  |-> a function from the SKUs XLWMS knows to [manual, at]]   *)
(* where at is a function from warehouses to                               *)
(* [region, active, answered, found, selectable, available, account,       *)
(* disabled, code]; account and code are "" when missing.  Quantities are  *)
(* a function from the SKUs of an order to positive numbers.               *)
(***************************************************************************)
EXTENDS Integers, FiniteSets

AnyRegion == "auto"

InRegion(w, region) == region \in {AnyRegion, w.region}

(* decisionWarehouseKeys: the candidates of the first record.              *)
DecisionWarehouses(decision, region) ==
    LET at == decision.records[decision.lead].at
    IN  IF decision.records = << >> THEN {}
        ELSE {key \in DOMAIN at : InRegion(at[key], region)}

(* One warehouse of one record can take the quantity.                      *)
Carries(record, key, quantity) ==
    /\ key \in DOMAIN record.at
    /\ record.at[key].selectable
    /\ record.at[key].available >= quantity

(* SelectWarehouse for a named warehouse: it must be a candidate of the    *)
(* first record in the region, no SKU may need manual review, and it must  *)
(* cover all of them.                                                      *)
Selectable(decision, region, quantities, key) ==
    /\ DOMAIN quantities \subseteq DOMAIN decision.records
    /\ key \in DecisionWarehouses(decision, region)
    /\ \A sku \in DOMAIN quantities :
          /\ ~decision.records[sku].manual
          /\ Carries(decision.records[sku], key, quantities[sku])

(* selectWarehouseForPriceComparison: a substitution does not ask whether  *)
(* a record needs manual review.                                           *)
Comparable(decision, quantities, key) ==
    \A sku \in DOMAIN quantities :
        /\ sku \in DOMAIN decision.records
        /\ Carries(decision.records[sku], key, quantities[sku])

(* fulfillmentAccountForWarehouse: one OMS account for every SKU, read     *)
(* from bindings that answered; "" when there is none.                     *)
Account(decision, key) ==
    LET bound == {IF key \in DOMAIN decision.records[sku].at
                  THEN decision.records[sku].at[key] ELSE [account |-> ""]
                  : sku \in DOMAIN decision.records}
    IN  IF \/ Cardinality({w.account : w \in bound}) # 1
           \/ \E w \in bound : w.account = "" \/ ~w.active \/ ~w.answered
        THEN ""
        ELSE (CHOOSE w \in bound : TRUE).account

(* fulfillmentInventoryReservationRequest: the physical warehouse of all   *)
(* records; "" when it is missing or they disagree.                        *)
PhysicalCode(decision, quantities, key) ==
    LET at == {sku \in DOMAIN decision.records :
                  key \in DOMAIN decision.records[sku].at}
        codes == {decision.records[sku].at[key].code : sku \in at}
    IN  IF Cardinality(codes) = 1 /\ DOMAIN quantities \subseteq at
        THEN CHOOSE c \in codes : TRUE ELSE ""

(* inventoryUnboundSKUs: every active warehouse answered and none has it.  *)
UnboundSKUs(decision) ==
    {sku \in DOMAIN decision.records :
        LET at == decision.records[sku].at
            active == {key \in DOMAIN at : at[key].active}
        IN  /\ active # {}
            /\ \A key \in active : at[key].answered /\ ~at[key].found}

(* decisionHasPlatformSKUWarehouseRestrictions.                            *)
Restricted(decision) ==
    \E sku \in DOMAIN decision.records :
        \E key \in DOMAIN decision.records[sku].at :
            decision.records[sku].at[key].disabled

(* warehouseClassificationFromDecision: why a person must look at the      *)
(* order, from a decision that could be read.                              *)
Categories(decision, quantities) ==
    LET unbound == UnboundSKUs(decision)
        manual == \E sku \in DOMAIN decision.records \ unbound :
                      decision.records[sku].manual
        uncovered == \A key \in DecisionWarehouses(decision, AnyRegion) :
                         ~Selectable(decision, AnyRegion, quantities, key)
    IN  IF ~decision.complete THEN {"inventory_scope_incomplete"}
        ELSE {c \in {"sku_unbound", "inventory_rule",
                     "platform_sku_warehouse_restriction",
                     "warehouse_sku_spec_incomplete"} :
                \/ c = "sku_unbound" /\ unbound # {}
                \/ c = "inventory_rule" /\ manual
                \/ /\ c = "platform_sku_warehouse_restriction"
                   /\ ~manual /\ unbound = {} /\ Restricted(decision)
                   /\ uncovered
                \/ c = "warehouse_sku_spec_incomplete" /\ ~decision.spec}
============================================================================
