--------------------------- MODULE CarrierChoice ---------------------------
(***************************************************************************)
(* Carrier selection (internal/service/service.go, gofo_premium.go): which *)
(* of the channels Temu offers are allowed by the rules XLWMS keeps for a  *)
(* warehouse, and which of the allowed ones is bought.                     *)
(*                                                                         *)
(* A channel is [id, company, carrier, amount, currency, signed]: carrier  *)
(* is the code carrierCode reads from its names ("" for none it knows),    *)
(* the amount is in cents or NoPrice.  The rules of a warehouse are        *)
(* [mode, delta, tie, allowed, signature, currencies]; its carrier policy  *)
(* is a function from the configured carriers to [priority, enabled].  A   *)
(* candidate is [warehouse, channel, priority, rules].                     *)
(***************************************************************************)
EXTENDS Integers, Sequences, FiniteSets, FiniteSetsExt, SequencesExt

NoChoice == << >>   \* a candidate is a record

NoPrice == -1

Gofo == "gofo_over_swiftx_speedx"
WithinDelta == "carrier_priority_within_delta"
LowestPrice == "lowest_price"

(* filterAutomaticChannels: the base rules of the warehouse.               *)
RulesAllow(channel, rules) ==
    /\ channel.carrier \in rules.allowed
    /\ channel.signed => rules.signature
    /\ channel.amount # NoPrice
    /\ \/ channel.currency = ""
       \/ rules.currencies = {}
       \/ channel.currency \in rules.currencies

(* filterChannelsByCarrierPolicy: a carrier switched off for the           *)
(* warehouse; one that is not configured is left alone.                    *)
PolicyAllows(channel, carriers) ==
    channel.carrier \in DOMAIN carriers => carriers[channel.carrier].enabled

ConfiguredPriority(carriers, code) ==
    IF code \in DOMAIN carriers THEN carriers[code].priority
                                ELSE Cardinality(DOMAIN carriers) + 1

EffectivePriority(item) == IF item.priority > 0 THEN item.priority ELSE 1000

(* betterChannelCandidate: price, the tie priority of the warehouse, id.   *)
MutBetter(left, right) == left.channel.amount < right.channel.amount

Better(left, right) ==
    LET a == left.channel
        b == right.channel
    IN  IF a.amount # b.amount THEN a.amount < b.amount
        ELSE IF left.rules.tie # right.rules.tie
             THEN left.rules.tie < right.rules.tie
             ELSE a.id < b.id

(* The two orders of the second sort.  The one for carrier priorities      *)
(* compares priorities only when both warehouses use that mode.            *)
Preferred(left, right) ==
    IF /\ left.rules.mode = WithinDelta /\ right.rules.mode = WithinDelta
       /\ EffectivePriority(left) # EffectivePriority(right)
    THEN EffectivePriority(left) < EffectivePriority(right)
    ELSE Better(left, right)

CheaperThenPriority(left, right) ==
    IF left.channel.amount # right.channel.amount
    THEN left.channel.amount < right.channel.amount
    ELSE IF EffectivePriority(left) # EffectivePriority(right)
         THEN EffectivePriority(left) < EffectivePriority(right)
         ELSE Better(left, right)

(* The elements of a finite set in a strict total order.                   *)
Ordered(S, Before(_, _)) ==
    [k \in 1 .. Cardinality(S) |->
        CHOOSE x \in S : Cardinality({y \in S : Before(y, x)}) = k - 1]

(* The items of a sequence at some of its indices.                         *)
Only(items, among) ==
    LET order == Ordered(among, LAMBDA i, j : i < j)
    IN  [k \in 1 .. Cardinality(among) |-> items[order[k]]]

(* sort.SliceStable under Better, a strict weak order: equals stay in the  *)
(* order they came in.  Below, items is a sequence sorted like this.       *)
ByBetter(s) ==
    LET order == Ordered(DOMAIN s,
                         LAMBDA i, j : \/ Better(s[i], s[j])
                                       \/ ~Better(s[j], s[i]) /\ i < j)
    IN  [k \in DOMAIN s |-> s[order[k]]]

Currencies(s) == {s[i].channel.currency : i \in DOMAIN s} \ {""}

(* The first of some candidates under the second order of the premium.     *)
Cheapest(items, among) ==
    items[CHOOSE i \in among : \A j \in among :
             \/ CheaperThenPriority(items[i], items[j])
             \/ ~CheaperThenPriority(items[j], items[i]) /\ i <= j]

Of(items, codes) == {i \in DOMAIN items : items[i].channel.carrier \in codes}

(* selectGOFOPremiumChannel: the cheapest GOFO channel, unless the         *)
(* cheapest SWIFTX or SPEEDX one is cheaper by more than the premium.      *)
MutGOFOPremium(items) ==
    LET gofo == Of(items, {"GOFO"})
    IN  Cheapest(items, IF gofo # {} THEN gofo ELSE DOMAIN items)

GOFOPremium(items) ==
    LET gofo == Of(items, {"GOFO"})
        rival == Of(items, {"SWIFTX", "SPEEDX"})
    IN  IF \E i \in DOMAIN items : items[i].channel.currency # "USD"
        THEN NoChoice
        ELSE IF /\ gofo # {} /\ rival # {}
                /\ Cheapest(items, gofo).channel.amount
                     <= Cheapest(items, rival).channel.amount
                        + Cheapest(items, gofo).rules.delta
             THEN Cheapest(items, gofo)
             ELSE Cheapest(items, DOMAIN items)

(* The price window of a candidate above the cheapest one.                 *)
Window(item) ==
    IF item.rules.mode = LowestPrice THEN 0 ELSE item.rules.delta

(* The head of a second sort of those within their window, by Preferred.   *)
(* That relation need not be transitive: sort.SliceStable inserts up to 20 *)
(* elements from left to right, and one comes first when it is less than   *)
(* all before it.                                                          *)
NearChoice(items) ==
    LET near == {i \in DOMAIN items :
                    items[i].channel.amount <=
                        items[1].channel.amount + Window(items[i])}
    IN  items[Max({i \in near : \A j \in near :
                      j < i => Preferred(items[i], items[j])})]

(* selectAutomaticChannel; preferred is the channel that was asked for, 0  *)
(* for none.                                                               *)
AutomaticChoice(items) ==
    IF items[1].rules.mode # Gofo THEN NearChoice(items)
    ELSE IF \E i \in DOMAIN items : items[i].rules.mode # Gofo THEN NoChoice
    ELSE GOFOPremium(items)

SelectAutomaticChannel(items, preferred) ==
    LET manual == {i \in DOMAIN items : items[i].channel.id = preferred}
    IN  IF items = << >> \/ Cardinality(Currencies(items)) > 1 THEN NoChoice
        ELSE IF preferred = 0 THEN AutomaticChoice(items)
        ELSE IF manual = {} THEN NoChoice ELSE items[Min(manual)]

(* sameChannelCandidate and its twin in the store.                         *)
SameChannel(left, right) ==
    /\ left.warehouse = right.warehouse
    /\ left.channel.id = right.channel.id
    /\ left.channel.company = right.channel.company

(* selectSubstitutionPriceQuotes: the channel each warehouse would choose; *)
(* the one chosen among these first, the others as Better has them.        *)
(* Warehouses that are equal to Better keep the order of their names; here *)
(* they keep any.                                                          *)
ChosenAt(items) ==
    LET At(key) == Only(items, {i \in DOMAIN items : items[i].warehouse = key})
    IN  IF items = << >> THEN {}
        ELSE {SelectAutomaticChannel(part, 0) :
                 part \in {At(items[i].warehouse) : i \in DOMAIN items}}
             \ {NoChoice}

MutPriceQuotes(choices, best) == choices

PriceQuotes(choices, best) ==
    IF best = NoChoice THEN choices
    ELSE <<best>> \o Only(choices, {i \in DOMAIN choices :
                                       ~SameChannel(choices[i], best)})

(* buildLabelPurchaseChoice: the three cheapest candidates and the rank of *)
(* the selected one among them, 0 when it is dearer.                       *)
MutPurchaseChoice(items, selected, manual) ==
    LET ranks == {i \in DOMAIN items : SameChannel(items[i], selected)}
    IN  [source |-> IF manual THEN "manual" ELSE "automatic",
         selected |-> selected,
         top |-> SubSeq(items, 1, IF Len(items) > 3 THEN 3 ELSE Len(items)),
         rank |-> IF ranks = {} THEN 0 ELSE Max(ranks)]

PurchaseChoice(items, selected, manual) ==
    LET top == SubSeq(items, 1, IF Len(items) > 3 THEN 3 ELSE Len(items))
        ranks == {i \in DOMAIN top : SameChannel(top[i], selected)}
    IN  [source |-> IF manual THEN "manual" ELSE "automatic",
         selected |-> selected, top |-> top,
         rank |-> IF ranks = {} THEN 0 ELSE Max(ranks)]

(* recordLabelPurchaseChoice: what the purchase transaction insists on.    *)
Recordable(choice) ==
    /\ choice.source \in {"automatic", "manual"}
    /\ choice.selected.channel.id # 0
    /\ Len(choice.top) \in 1 .. 3
    /\ choice.selected.channel.amount >= 0
    /\ choice.rank > 0 => /\ choice.rank \in DOMAIN choice.top
                          /\ SameChannel(choice.selected, choice.top[choice.rank])
    /\ \A i \in DOMAIN choice.top : /\ choice.top[i].channel.id # 0
                                    /\ choice.top[i].channel.amount >= 0
============================================================================
