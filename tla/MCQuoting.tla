----------------------------- MODULE MCQuoting -----------------------------
(***************************************************************************)
(* Quoting for TLC: an order of two SKUs, or of one SKU that two pieces of *)
(* another replace, a warehouse in the east and one in the west, and worlds *)
(* that differ from the plain one in a single respect: one that matters to *)
(* an order shipped as it is, and one that matters to a substitution.      *)
(***************************************************************************)
EXTENDS Quoting

MCRegionOf == [DPS002 |-> "east", ARP_WEST |-> "west"]
MCOrder == [a |-> 1, b |-> 2]
MCSingle == [a |-> 1]
MCCombination == [id |-> 1, items |-> [b |-> 2], measures |-> 1]

At(region, amount) ==
    [region |-> region, active |-> TRUE, answered |-> TRUE, found |-> TRUE,
     selectable |-> TRUE, available |-> amount, account |-> "dps",
     disabled |-> FALSE, code |-> "x"]

MCRecord == [manual |-> FALSE,
             at |-> [DPS002 |-> At("east", 3), ARP_WEST |-> At("west", 3)]]

MCDecision == [complete |-> TRUE, spec |-> TRUE, lead |-> "a",
               records |-> [a |-> MCRecord, b |-> MCRecord]]

MCSpare == [complete |-> TRUE, spec |-> FALSE, lead |-> "b",
            records |-> [b |-> [MCRecord EXCEPT !.manual = TRUE]]]

Rules(mode, tie) ==
    [mode |-> mode, delta |-> 50, tie |-> tie,
     allowed |-> {"GOFO", "SWIFTX", "UPS"}, signature |-> FALSE,
     currencies |-> {"USD"}]

Carriers == [GOFO |-> [priority |-> 1, enabled |-> TRUE],
             SWIFTX |-> [priority |-> 2, enabled |-> TRUE]]

MCGroup(mode, tie) ==
    [enabled |-> TRUE, rules |-> Rules(mode, tie), carriers |-> Carriers]

Groups(east, west) ==
    [DPS002 |-> MCGroup(east, 1), ARP_WEST |-> MCGroup(west, 2)]

Bound(temu, revision) ==
    [enabled |-> TRUE, temu |-> temu, buyLabel |-> TRUE, revision |-> revision]

Plain(policy) ==
    [open |-> TRUE, decision |-> MCDecision, disabled |-> {},
     policy |-> [sku \in DOMAIN MCOrder |-> policy],
     binding |-> [DPS002 |-> Bound("t1", 1), ARP_WEST |-> Bound("t2", 1)],
     combination |-> MCCombination, spare |-> MCSpare, paired |-> {"dps"}]

MCBase == Plain(Groups(WithinDelta, WithinDelta))

MCWorlds ==
    {MCBase,
     Plain(Groups(Gofo, Gofo)),
     Plain(Groups(WithinDelta, LowestPrice)),
     [MCBase EXCEPT !.open = FALSE],
     [MCBase EXCEPT !.policy.b.DPS002.carriers.GOFO.enabled = FALSE,
                    !.policy.b.ARP_WEST.enabled = FALSE],
     [MCBase EXCEPT !.decision.records.b.at.DPS002.selectable = FALSE,
                    !.decision.records.b.at.DPS002.disabled = TRUE,
                    !.disabled = {<<"b", "DPS002">>}, !.paired = {}],
     [MCBase EXCEPT !.decision.records.b.at.ARP_WEST.available = 1,
                    !.spare.records.b.at.DPS002.available = 1],
     [MCBase EXCEPT !.decision.complete = FALSE,
                    !.combination.items = [b |-> 1]],
     [MCBase EXCEPT !.binding.DPS002.revision = 2],
     [MCBase EXCEPT !.decision.records.a.at.ARP_WEST.account = "arp",
                    !.spare.records.b.at.ARP_WEST.account = "arp"]}

Channel(id, carrier, amount) ==
    [id |-> id, company |-> id, carrier |-> carrier, amount |-> amount,
     currency |-> "USD", signed |-> FALSE, pickup |-> FALSE]

MCOffers ==
    {<< >>,
     <<Channel(1, "GOFO", 500), Channel(2, "SWIFTX", 460)>>,
     <<[Channel(3, "UPS", 440) EXCEPT !.signed = TRUE], Channel(1, "GOFO", 520)>>,
     <<[Channel(2, "SWIFTX", 480) EXCEPT !.pickup = TRUE], Channel(4, "UPS", 450)>>,
     <<Channel(1, "GOFO", 540), Channel(4, "UPS", 500),
       Channel(2, "SWIFTX", 510), Channel(5, "", 100)>>}

MCRequest(worker, region, warehouse, preferred, failed) ==
    [worker |-> worker, order |-> MCOrder, substitute |-> FALSE,
     region |-> region, warehouse |-> warehouse,
     preferred |-> preferred, failed |-> failed]

MCSubstitution(worker, warehouse, preferred) ==
    [worker |-> worker, order |-> MCSingle, substitute |-> TRUE,
     region |-> AnyRegion, warehouse |-> warehouse,
     preferred |-> preferred, failed |-> {}]

MCRequests ==
    {MCRequest(TRUE, AnyRegion, None, 0, {}),
     MCRequest(FALSE, AnyRegion, None, 0, {"GOFO"}),
     MCRequest(FALSE, "east", None, 2, {}),
     MCRequest(FALSE, AnyRegion, "ARP_WEST", 0, {}),
     MCSubstitution(TRUE, None, 0),
     MCSubstitution(FALSE, "ARP_WEST", 0),
     MCSubstitution(FALSE, "DPS002", 2)}
============================================================================
