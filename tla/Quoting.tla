------------------------------ MODULE Quoting ------------------------------
(***************************************************************************)
(* One quote and the purchase made from it (internal/service/service.go:   *)
(* Quote, Purchase and the loops of runAutoFulfillment around them;        *)
(* substitution.go), for one order, whose SKUs are shipped themselves or   *)
(* replaced by a combination of others.  Everything the steps ask is       *)
(* remote and may change between two steps: the inventory decision,        *)
(* carrier rules, combinations and registry of XLWMS, the warehouses of    *)
(* the shop, the order itself.  Such a world is                            *)
(*   [open, decision, disabled, policy, binding, combination, spare,       *)
(*    paired]                                                              *)
(* with disabled a set of pairs of SKU and warehouse, policy a function    *)
(* from SKUs to functions from warehouses to [enabled, rules, carriers],   *)
(* binding a function from warehouses to                                   *)
(* [enabled, temu, buyLabel, revision], combination the active one for the *)
(* order's SKU, [id, items, measures] (measures 0: not measured) or None,  *)
(* spare the decision over its items, and paired the OMS accounts that     *)
(* know it.  What happens to the shipment once it is recorded is           *)
(* ShipmentLedger.                                                         *)
(***************************************************************************)
EXTENDS WarehouseDecision, CarrierChoice

CONSTANTS
    RegionOf,     \* warehouseRegion, AnyRegion for a key it does not know
    Worlds,       \* the worlds the remote systems can be in
    Offers,       \* the channel lists Temu can answer with
    Requests,     \* the requests: [worker, order, substitute, region, warehouse,
                  \* preferred, failed], order the SKUs and how many of each
    MaxChanges,   \* bound: how often the world changes
    None          \* no value

ASSUME ChangesAssumption == MaxChanges \in Nat

Warehouse == DOMAIN RegionOf

(* None is none of the values it stands for the absence of.                *)
ASSUME NoneAssumption ==
    /\ None \notin {"bought", "queued", "failed", "skipped", "refused"}
    /\ \A w \in Worlds : w.decision # None /\ w.spare # None
    /\ \A w \in Worlds, r \in Requests : \A sku \in DOMAIN r.order :
          w.policy[sku] # None

(* A decision about anything has a first record; a binding is of a         *)
(* warehouse that warehouseRegion is asked for.                            *)
ASSUME WorldAssumption ==
    \A w \in Worlds :
        /\ w.decision.records # << >> => w.decision.lead \in DOMAIN w.decision.records
        /\ DOMAIN w.binding \subseteq Warehouse

(* The price window of a warehouse is not negative; it configures finitely *)
(* many carriers.                                                          *)
ASSUME PolicyAssumption ==
    \A w \in Worlds, r \in Requests : \A sku \in DOMAIN r.order :
        \A key \in DOMAIN w.policy[sku] :
            LET group == w.policy[sku][key]
            IN  /\ group.rules.tie \in Int /\ group.rules.delta \in Nat
                /\ IsFiniteSet(DOMAIN group.carriers)
                /\ \A code \in DOMAIN group.carriers :
                      group.carriers[code].priority \in Int

(* Temu gives no channel the number 0 and quotes no price below 0.         *)
ASSUME OfferAssumption ==
    \A offer \in Offers :
        /\ offer \in Seq({offer[i] : i \in DOMAIN offer})
        /\ \A i \in DOMAIN offer : /\ offer[i].id \in Int \ {0}
                                   /\ offer[i].amount \in Nat \cup {NoPrice}

(* An operator names a warehouse for a replacement.                        *)
ASSUME RequestAssumption ==
    \A r \in Requests : r.substitute /\ ~r.worker => r.warehouse \in Warehouse

NoQuote == << >>   \* a quote is a record

VARIABLES
    world,        \* what the remote systems answer now
    changes,      \* how often that has changed
    seen,         \* the worlds since the quote was chosen (history)
    pc,           \* the step of Quote or Purchase
    request,      \* the request being served
    excluded,     \* the worker's ExcludedWarehouseKeys
    options,      \* the substitution quotes still to be tried
    combination,  \* the combination QuoteSubstitution read
    decision,     \* the decision Quote read
    policies,     \* the carrier policies Quote read
    jobs,         \* the warehouses asked, and the binding of each
    answers,      \* the channels of each warehouse that answered
    arrived,      \* the warehouses in the order their answers came
    quote,        \* the stored quote
    unchecked,    \* the SKUs whose policy Purchase has yet to check
    reservation,  \* the order's inventory reservation at XLWMS
    outcome       \* how the request ended

remote == <<world, changes, seen>>
quoting == <<options, combination, decision, policies, jobs, answers, arrived>>
vars == <<remote, pc, request, excluded, quoting, quote, unchecked,
          reservation, outcome>>

Init ==
    /\ world \in Worlds
    /\ changes = 0 /\ seen = {}
    /\ pc = "idle" /\ request \in Requests
    /\ excluded = {} /\ options = << >> /\ combination = None
    /\ decision = None /\ policies = None
    /\ jobs = << >> /\ answers = << >> /\ arrived = << >>
    /\ quote = NoQuote /\ unchecked = {} /\ reservation = None
    /\ outcome = None

(* Something the service depends on changes.                               *)
Change ==
    /\ changes < MaxChanges
    /\ outcome = None
    /\ changes' = changes + 1
    /\ world' \in Worlds \ {world}
    /\ seen' = seen \cup {world'}
    /\ UNCHANGED <<pc, request, excluded, quoting, quote, unchecked,
                   reservation, outcome>>

Sku == DOMAIN request.order

(* The locals of a handler go when it returns.                             *)
MutReturned == UNCHANGED <<combination, decision, policies, jobs, answers, arrived>>

Returned ==
    /\ combination' = None /\ decision' = None /\ policies' = None
    /\ jobs' = << >> /\ answers' = << >> /\ arrived' = << >>

(* The request ends.                                                       *)
Stop(how) ==
    /\ pc' = "done" /\ outcome' = how
    /\ options' = << >> /\ unchecked' = {}
    /\ combination' = None /\ decision' = None /\ policies' = None
    /\ jobs' = << >> /\ answers' = << >> /\ arrived' = << >>

(* An error of the worker ends the job unless it is temporary; an operator *)
(* is shown it.                                                            *)
Error(temporary) ==
    IF ~request.worker THEN "refused"
    ELSE IF temporary THEN "queued" ELSE "failed"

Closed == IF request.worker THEN "skipped" ELSE "refused"

(* An error that is no closed order sends the worker of a substitution to  *)
(* its next option.                                                        *)
Fail(temporary) ==
    IF Len(options) > 1
    THEN /\ pc' = "option" /\ options' = Tail(options)
         /\ Returned /\ unchecked' = {}
         /\ UNCHANGED outcome
    ELSE Stop(Error(temporary))

----------------------------------------------------------------------------
(* Quote, CompareSubstitutionPrices and QuoteSubstitution *)

Comparing == request.substitute /\ options = << >>

(* The order in which each of them reads.                                  *)
Reads ==
    IF ~request.substitute THEN <<"decision", "policies", "bindings", "asking">>
    ELSE IF Comparing
    THEN <<"catalog", "policies", "decision", "bindings", "asking">>
    ELSE <<"catalog", "decision", "bindings", "policies", "asking">>

Following(step) == Reads[1 + CHOOSE i \in DOMAIN Reads : Reads[i] = step]

(* They read the order before they ask XLWMS anything.  An operator names  *)
(* one warehouse, and perhaps a channel, for the replacement.              *)
Start ==
    /\ pc = "idle"
    /\ IF request.substitute /\ ~request.worker
       THEN /\ pc' = "option"
            /\ options' = <<[warehouse |-> request.warehouse,
                             preferred |-> request.preferred]>>
            /\ UNCHANGED <<combination, decision, policies, jobs, answers,
                           arrived, unchecked, outcome>>
       ELSE IF world.open
       THEN pc' = Reads[1] /\ UNCHANGED <<quoting, unchecked, outcome>>
       ELSE Stop(Closed)
    /\ UNCHANGED <<remote, request, excluded, quote, reservation>>

(* The next option is quoted, and the quote of the last one forgotten.     *)
TakeOption ==
    /\ pc = "option"
    /\ IF world.open
       THEN pc' = Reads[1] /\ Returned /\ UNCHANGED <<options, unchecked, outcome>>
       ELSE Stop(Closed)
    /\ quote' = NoQuote /\ seen' = {}
    /\ UNCHANGED <<world, changes, request, excluded, reservation>>

(* activeSubstitutionCatalog and validateSubstitutionCombination, for one  *)
(* piece of one SKU.                                                       *)
ReadCatalog ==
    /\ pc = "catalog"
    /\ IF /\ world.combination # None
          /\ world.combination.measures # 0
          /\ Cardinality(Sku) = 1 /\ \A sku \in Sku : request.order[sku] = 1
       THEN /\ pc' = Following("catalog") /\ combination' = world.combination
            /\ UNCHANGED <<options, decision, policies, jobs, answers, arrived,
                           unchecked, outcome>>
       ELSE Fail(FALSE)
    /\ UNCHANGED <<remote, request, excluded, quote, reservation>>

(* What leaves the warehouse.                                              *)
Shipped == IF request.substitute THEN combination.items ELSE request.order

Stock == IF request.substitute THEN world.spare ELSE world.decision

(* quoteWarehouseKeys, decisionWarehouseKeys and filterWarehouseKeys; an   *)
(* option is quoted in its warehouse.                                      *)
QuoteWarehouses(read) ==
    IF options # << >> THEN {Head(options).warehouse}
    ELSE (IF request.warehouse # None THEN {request.warehouse}
          ELSE DecisionWarehouses(read, request.region)) \ excluded

(* The decision must be complete and the package measured (that of a       *)
(* combination is, by now); without a warehouse left the quote fails.      *)
QueryInventory ==
    /\ pc = "decision"
    /\ IF /\ Stock.complete /\ (Stock.spec \/ request.substitute)
          /\ QuoteWarehouses(Stock) # {}
       THEN /\ pc' = Following("decision") /\ decision' = Stock
            /\ UNCHANGED <<options, combination, policies, jobs, answers,
                           arrived, unchecked, outcome>>
       ELSE Fail(FALSE)
    /\ UNCHANGED <<remote, request, excluded, quote, reservation>>

(* The carrier policies of one SKU of the order: the first that ranging    *)
(* over the map of quantities yields, which can be any of them.            *)
ReadPolicies ==
    /\ pc = "policies"
    /\ \E sku \in Sku : policies' = world.policy[sku]
    /\ pc' = Following("policies")
    /\ UNCHANGED <<remote, request, excluded, options, combination, decision,
                   jobs, answers, arrived, quote, unchecked, reservation,
                   outcome>>

SelectionRegion(key) ==
    IF request.region = AnyRegion THEN RegionOf[key] ELSE request.region

(* MappedWarehouse knows the warehouse and it sells labels.                *)
Mapped(key) ==
    /\ key \in DOMAIN world.binding
    /\ world.binding[key].enabled
    /\ world.binding[key].buyLabel

(* The warehouses worth asking: they cover what is shipped, share one      *)
(* account, which knows the combination, and are mapped.                   *)
Quotable(key) ==
    /\ IF request.substitute
       THEN Comparable(decision, Shipped, key) /\ Account(decision, key) \in world.paired
       ELSE Selectable(decision, SelectionRegion(key), Shipped, key)
    /\ Account(decision, key) # ""
    /\ Mapped(key)

AskTemu ==
    /\ pc = "bindings"
    /\ LET asked == {key \in QuoteWarehouses(decision) : Quotable(key)}
       IN  IF asked = {} THEN Fail(FALSE)
           ELSE /\ jobs' = [key \in asked |-> world.binding[key]]
                /\ pc' = Following("bindings")
                /\ UNCHANGED <<options, combination, decision, policies,
                               answers, arrived, unchecked, outcome>>
    /\ UNCHANGED <<remote, request, excluded, quote, reservation>>

(* One of the concurrent ShippingServices calls ends; << >> when it failed *)
(* or offers nothing.                                                      *)
Answer(key) ==
    /\ pc = "asking"
    /\ key \in DOMAIN jobs \ DOMAIN answers
    /\ \E offer \in Offers :
          answers' = [k \in DOMAIN answers \cup {key} |->
                         IF k = key THEN offer ELSE answers[k]]
    /\ arrived' = Append(arrived, key)
    /\ UNCHANGED <<remote, pc, request, excluded, options, combination,
                   decision, policies, jobs, quote, unchecked, reservation,
                   outcome>>

NoRules == [mode |-> "", delta |-> 0, tie |-> 0, allowed |-> {},
            signature |-> FALSE, currencies |-> {}]

Group(key) ==
    IF key \in DOMAIN policies THEN policies[key]
    ELSE [enabled |-> TRUE, rules |-> NoRules, carriers |-> << >>]

(* The channels of one warehouse that may be bought: allowed by its rules  *)
(* and policy, and not of a carrier that failed before.                    *)
MutEligible(channel, key) ==
    /\ PolicyAllows(channel, Group(key).carriers)
    /\ channel.carrier \notin request.failed

Eligible(channel, key) ==
    /\ RulesAllow(channel, Group(key).rules)
    /\ PolicyAllows(channel, Group(key).carriers)
    /\ channel.carrier \notin request.failed

Candidate(key, channel) ==
    [warehouse |-> key, channel |-> channel,
     priority |-> ConfiguredPriority(Group(key).carriers, channel.carrier),
     rules |-> Group(key).rules]

(* The candidates, each with its place in the answer of its warehouse.     *)
Offered ==
    UNION {{<<i, Candidate(key, answers[key][i])>> :
               i \in {j \in DOMAIN answers[key] : Eligible(answers[key][j], key)}}
           : key \in DOMAIN answers}

(* The candidates, put together in the order of the answers and sorted.    *)
Candidates(order) ==
    LET Earlier(x, y) ==
            IF x[2].warehouse = y[2].warehouse THEN x[1] < y[1]
            ELSE \E m, n \in DOMAIN order :
                    m < n /\ order[m] = x[2].warehouse /\ order[n] = y[2].warehouse
        sorted == Ordered(Offered,
                          LAMBDA x, y : \/ Better(x[2], y[2])
                                        \/ ~Better(y[2], x[2]) /\ Earlier(x, y))
    IN  [k \in 1 .. Cardinality(Offered) |-> sorted[k][2]]

(* The worker compares first: what selectSubstitutionPriceQuotes lists is  *)
(* tried one by one.                                                       *)
AsOptions(listed) ==
    [i \in DOMAIN listed |-> [warehouse |-> listed[i].warehouse,
                              preferred |-> listed[i].channel.id]]

ListOptions ==
    /\ pc = "asking" /\ DOMAIN answers = DOMAIN jobs /\ Comparing
    /\ \E items \in {Candidates(arrived)} :
       \E named \in {SetToSeq(ChosenAt(items))} :
       \E choices \in {ByBetter(named)} :
       \E best \in {SelectAutomaticChannel(choices, 0)} :
       \E listed \in {PriceQuotes(choices, best)} :
          IF listed = << >> THEN Stop(Error(FALSE))
          ELSE /\ options' = AsOptions(listed)
               /\ pc' = "option"
               /\ UNCHANGED <<combination, decision, policies, jobs, answers,
                              arrived, unchecked, outcome>>
    /\ UNCHANGED <<remote, request, excluded, quote, reservation>>

Wanted == IF options # << >> THEN Head(options).preferred ELSE request.preferred

(* All answers are in: Quote chooses a channel and stores the quote.       *)
Choose ==
    /\ pc = "asking" /\ DOMAIN answers = DOMAIN jobs /\ ~Comparing
    /\ \E items \in {Candidates(arrived)} :
       \E choice \in {SelectAutomaticChannel(items, Wanted)} :
          \/ /\ choice = NoChoice
             /\ \E temporary \in BOOLEAN : Fail(temporary)
             /\ UNCHANGED <<quote, seen>>
          \/ /\ choice # NoChoice
             /\ quote' = [warehouse |-> choice.warehouse,
                          channel |-> choice.channel,
                          temu |-> jobs[choice.warehouse].temu,
                          revision |-> jobs[choice.warehouse].revision,
                          signature |-> choice.rules.signature,
                          account |-> Account(decision, choice.warehouse),
                          combination |-> combination,
                          choice |-> PurchaseChoice(items, choice, Wanted # 0)]
             /\ seen' = {world}
             /\ pc' = "quoted"
             /\ UNCHANGED <<quoting, unchecked, outcome>>
    /\ UNCHANGED <<world, changes, request, excluded, reservation>>

----------------------------------------------------------------------------
(* Purchase *)

(* GetQuote and GetOrder: only an operator can come back with a quote that *)
(* has expired.                                                            *)
Buy ==
    /\ pc = "quoted"
    /\ \/ /\ world.open
          /\ pc' = IF request.substitute THEN "recipe" ELSE "restrictions"
          /\ Returned
          /\ UNCHANGED <<options, unchecked, outcome>>
       \/ ~world.open /\ Stop(Closed)
       \/ ~request.worker /\ ~request.substitute /\ Stop("refused")
    /\ UNCHANGED <<remote, request, excluded, quote, reservation>>

(* What the quote says leaves the warehouse.                               *)
Bought == IF quote.combination = None THEN request.order ELSE quote.combination.items

(* A check of Purchase: on to the next one, or the purchase is refused.    *)
Check(at, next, ok) ==
    /\ pc = at
    /\ IF ok THEN /\ pc' = next
                  /\ UNCHANGED <<quoting, outcome>>
                  /\ unchecked' = IF next = "carrier" THEN DOMAIN Bought ELSE unchecked
             ELSE Fail(FALSE)
    /\ UNCHANGED <<remote, request, excluded, quote, reservation>>

(* validateOrderWarehouseAllowed: the platform forbids no SKU there.       *)
CheckRestrictions ==
    Check("restrictions", "binding",
          \A sku \in Sku : <<sku, quote.warehouse>> \notin world.disabled)

(* validateStoredSubstitutionQuote: the combination is the one quoted, the *)
(* warehouse covers it, its account is the same and still knows it, and    *)
(* the Temu warehouse is the same.                                         *)
SpareStands ==
    /\ world.spare.complete
    /\ Comparable(world.spare, Bought, quote.warehouse)
    /\ Account(world.spare, quote.warehouse) = quote.account

MappingStands ==
    Mapped(quote.warehouse) /\ world.binding[quote.warehouse].temu = quote.temu

CheckRecipe == Check("recipe", "spare", world.combination = quote.combination)

CheckSpare == Check("spare", "pairing", SpareStands)

CheckPairing == Check("pairing", "mapping", quote.account \in world.paired)

CheckMapping == Check("mapping", "binding", MappingStands)

(* validateCurrentWarehouseBinding: the registration is the one quoted.    *)
BindingStands ==
    /\ quote.warehouse \in DOMAIN world.binding
    /\ LET now == world.binding[quote.warehouse]
       IN  /\ now.enabled /\ now.temu = quote.temu
           /\ quote.revision \in {0, now.revision}

CheckBinding == Check("binding", "carrier", BindingStands)

(* The warehouse is on and the channel allowed by the policy of one SKU.   *)
CarrierStands(policy) ==
    /\ quote.warehouse \in DOMAIN policy
    /\ policy[quote.warehouse].enabled
    /\ RulesAllow(quote.channel, policy[quote.warehouse].rules)
    /\ PolicyAllows(quote.channel, policy[quote.warehouse].carriers)

(* validateStoredQuoteCarrier asks for every SKU that is shipped.          *)
MutCheckCarrier ==
    /\ pc = "carrier" /\ unchecked # {}
    /\ \E sku \in unchecked :
          IF CarrierStands(world.policy[sku])
          THEN unchecked' = {} /\ UNCHANGED <<pc, quoting, outcome>>
          ELSE Fail(FALSE)
    /\ UNCHANGED <<remote, request, excluded, quote, reservation>>

CheckCarrier ==
    /\ pc = "carrier" /\ unchecked # {}
    /\ \E sku \in unchecked :
          IF CarrierStands(world.policy[sku])
          THEN /\ unchecked' = unchecked \ {sku}
               /\ UNCHANGED <<pc, quoting, outcome>>
          ELSE Fail(FALSE)
    /\ UNCHANGED <<remote, request, excluded, quote, reservation>>

(* shipmentCreateRequest: a signature the rules did not allow when the     *)
(* quote was made; a pickup slot that is over by the time of an operator's *)
(* purchase.                                                               *)
BuildRequest ==
    /\ pc = "carrier" /\ unchecked = {}
    /\ \/ /\ quote.channel.signed => quote.signature
          /\ pc' = "stock"
          /\ UNCHANGED <<quoting, unchecked, outcome>>
       \/ /\ \/ quote.channel.signed /\ ~quote.signature
             \/ quote.channel.pickup
          /\ Fail(FALSE)
    /\ UNCHANGED <<remote, request, excluded, quote, reservation>>

(* ErrReservationCapacity: the worker quotes again without the warehouse,  *)
(* or takes its next option.                                               *)
MutExhausted ==
    IF request.worker
    THEN /\ pc' = "idle" /\ quote' = NoQuote
         /\ UNCHANGED <<excluded, quoting, unchecked, outcome>>
    ELSE Stop("refused") /\ UNCHANGED <<excluded, quote>>

Exhausted ==
    IF request.worker /\ ~request.substitute
    THEN /\ excluded' = excluded \cup {quote.warehouse}
         /\ pc' = "idle" /\ quote' = NoQuote
         /\ UNCHANGED <<quoting, unchecked, outcome>>
    ELSE Fail(FALSE) /\ UNCHANGED <<excluded, quote>>

(* reserveFulfillmentInventory reads a fresh decision first.               *)
Covers ==
    IF request.substitute
    THEN Comparable(Stock, Bought, quote.warehouse)
    ELSE Selectable(Stock, RegionOf[quote.warehouse], Bought, quote.warehouse)

RefreshInventory ==
    /\ pc = "stock"
    /\ IF ~Stock.complete THEN Fail(FALSE) /\ UNCHANGED <<excluded, quote>>
       ELSE IF Covers /\ PhysicalCode(Stock, Bought, quote.warehouse) # ""
            THEN /\ pc' = "reserve"
                 /\ UNCHANGED <<excluded, quoting, quote, unchecked, outcome>>
            ELSE Exhausted
    /\ UNCHANGED <<remote, request, reservation>>

(* ReserveFulfillmentInventory: granted, refused because other orders took *)
(* the stock, or the answer is lost with or without the reservation made.  *)
Granted == [warehouse |-> quote.warehouse, items |-> Bought]

Reserve ==
    /\ pc = "reserve"
    /\ \/ /\ reservation' = Granted /\ pc' = "record"
          /\ UNCHANGED <<excluded, quoting, quote, unchecked, outcome>>
       \/ Exhausted /\ UNCHANGED reservation
       \/ /\ reservation' \in {reservation, Granted}
          /\ \E temporary \in BOOLEAN : Fail(temporary)
          /\ UNCHANGED <<excluded, quote>>
    /\ UNCHANGED <<remote, request>>

(* ReserveShipment records the shipment and the analysis of the choice, or *)
(* fails: then the reservation is released, unless that call fails too.    *)
Record ==
    /\ pc = "record"
    /\ \/ /\ Recordable(quote.choice)
          /\ Stop("bought") /\ UNCHANGED reservation
       \/ /\ \E temporary \in BOOLEAN : Fail(temporary)
          /\ reservation' \in {None, reservation}
    /\ UNCHANGED <<remote, request, excluded, quote>>

(* A remote read of any step fails.  The comparison keeps of a failure     *)
(* that it has nothing to offer, except for its first two reads.           *)
Unreachable ==
    /\ pc \in {"catalog", "decision", "policies", "bindings", "restrictions",
              "recipe", "spare", "pairing", "mapping", "binding", "carrier",
              "stock"}
    /\ \E temporary \in BOOLEAN :
          /\ Comparing /\ pc \in {"decision", "bindings"} => ~temporary
          /\ Fail(temporary)
    /\ UNCHANGED <<remote, request, excluded, quote, reservation>>

(* The steps of a request, and of the worker, that always come.            *)
Steps ==
    \/ Start \/ TakeOption \/ ReadCatalog \/ QueryInventory \/ ReadPolicies
    \/ AskTemu \/ \E key \in Warehouse : Answer(key)
    \/ ListOptions \/ Choose \/ Buy \/ CheckRestrictions
    \/ CheckRecipe \/ CheckSpare \/ CheckPairing \/ CheckMapping
    \/ CheckBinding \/ CheckCarrier
    \/ BuildRequest \/ RefreshInventory \/ Reserve \/ Record \/ Unreachable

Next == Change \/ Steps

Spec == Init /\ [][Next]_vars

(* The code that serves a request runs on; an operator may never buy.      *)
FairSpec == Spec /\ WF_vars(Steps /\ (pc = "quoted" => request.worker))

----------------------------------------------------------------------------
(* Properties *)

Labels == {"idle", "option", "catalog", "decision", "policies", "bindings",
           "asking", "quoted", "restrictions", "recipe", "spare", "pairing",
           "mapping", "binding", "carrier", "stock", "reserve", "record",
           "done"}

(* The options of a comparison have just been listed.                      *)
Listed == pc = "option" /\ jobs # << >>

(* A handler that quotes has already made this read.                       *)
HasRead(step) ==
    \/ pc = "quoted" \/ Listed
    \/ \E i, j \in DOMAIN Reads : i < j /\ Reads[i] = step /\ Reads[j] = pc

(* Type invariant: every local of the handlers is set exactly while it is  *)
(* needed, and the worker's exclusions are warehouses it knows.            *)
TypeOK ==
    /\ world \in Worlds /\ seen \subseteq Worlds
    /\ changes \in 0 .. MaxChanges
    /\ pc \in Labels /\ request \in Requests
    /\ excluded \subseteq Warehouse
    /\ outcome \in {None, "bought", "queued", "failed", "skipped", "refused"}
    /\ (pc = "done") <=> (outcome # None)
    /\ (combination # None) <=> (request.substitute /\ HasRead("catalog"))
    /\ (decision # None) <=> HasRead("decision")
    /\ (policies # None) <=> HasRead("policies")
    /\ DOMAIN answers \subseteq DOMAIN jobs /\ DOMAIN jobs \subseteq Warehouse
    /\ {arrived[i] : i \in DOMAIN arrived} = DOMAIN answers
    /\ options # << >> => request.substitute /\ options[1].warehouse \in Warehouse
    /\ quote # NoQuote => unchecked \subseteq DOMAIN Bought
    /\ pc \in {"quoted", "restrictions", "recipe", "spare", "pairing",
               "mapping", "binding", "carrier", "stock", "reserve", "record"}
         => quote # NoQuote
    /\ outcome = "bought" => quote # NoQuote

(* Whatever changes between the steps, a label is bought only at a place,  *)
(* and with a carrier, that were allowed for every SKU that is shipped at  *)
(* some moment after the quote: the platform's restrictions, or the        *)
(* combination, its stock, account and pairing; the registration that was  *)
(* quoted; the rules and policy of each SKU; and the stock.  The           *)
(* reservation held is for that warehouse and all that is shipped (the     *)
(* checks of Purchase, service.go:1490-1513, substitution.go:373).         *)
BoughtWasAllowed ==
    outcome = "bought" =>
        LET w == quote.warehouse
        IN  /\ IF quote.combination = None
               THEN /\ ~request.substitute
                    /\ \A sku \in Sku : \E then \in seen :
                          <<sku, w>> \notin then.disabled
                    /\ \E then \in seen :
                          Selectable(then.decision, AnyRegion, Bought, w)
               ELSE /\ \E then \in seen : then.combination = quote.combination
                    /\ \E then \in seen : quote.account \in then.paired
                    /\ \E then \in seen : /\ Comparable(then.spare, Bought, w)
                                          /\ Account(then.spare, w) = quote.account
            /\ \E then \in seen :
                  /\ w \in DOMAIN then.binding /\ then.binding[w].enabled
                  /\ then.binding[w].temu = quote.temu
                  /\ quote.revision \in {0, then.binding[w].revision}
            /\ \A sku \in DOMAIN Bought : \E then \in seen :
                  /\ w \in DOMAIN then.policy[sku]
                  /\ RulesAllow(quote.channel, then.policy[sku][w].rules)
                  /\ PolicyAllows(quote.channel, then.policy[sku][w].carriers)
            /\ quote.channel.carrier \notin request.failed
            /\ w \notin excluded
            /\ reservation = [warehouse |-> w, items |-> Bought]

(* What could have been chosen.                                            *)
Choosable == {x[2] : x \in Offered}

Ties == {Group(key).rules.tie : key \in DOMAIN answers}

(* A candidate is within its own price window above all others.            *)
Close(x) == \A y \in Choosable : x.channel.amount <= y.channel.amount + Window(x)

(* Neither the choice nor the list of options depends on which warehouse   *)
(* answered first, although the candidates are compared in the order of    *)
(* the answers (service.go:1027, substitution.go:602): as long as no two   *)
(* warehouses have the same tie priority.  README.md:203 calls the         *)
(* tie-breaking deterministic.                                             *)
ChoiceIgnoresArrival ==
    Cardinality(Ties) = Cardinality(DOMAIN answers) =>
        \A order \in [DOMAIN arrived -> DOMAIN answers] :
            {order[i] : i \in DOMAIN order} = DOMAIN answers =>
                /\ pc = "quoted" =>
                      LET choice == SelectAutomaticChannel(Candidates(order), Wanted)
                      IN  /\ choice.warehouse = quote.warehouse
                          /\ choice.channel = quote.channel
                /\ Listed =>
                      LET choices == ByBetter(SetToSeq(ChosenAt(
                                         Candidates(order))))
                      IN  options = AsOptions(PriceQuotes(
                              choices, SelectAutomaticChannel(choices, 0)))

(* An automatic choice that is not the cheapest is justified by the rules  *)
(* of its warehouse: it is within its price window, and no carrier that is *)
(* cheaper and within the window of its own warehouse has a better         *)
(* priority, or is to be taken for its price alone; or it is GOFO at most  *)
(* the premium above SWIFTX and SPEEDX (docs/fulfillment.md:17).           *)
PriceIsJustified ==
    pc = "quoted" /\ Wanted = 0 =>
        LET chosen == Candidate(quote.warehouse, quote.channel)
            paid == quote.channel.amount
            cheaper == {x \in Choosable : x.channel.amount < paid}
            rivals == {x \in Choosable : x.channel.carrier \in {"SWIFTX", "SPEEDX"}}
        IN  \/ cheaper = {}
            \/ /\ chosen.rules.mode = WithinDelta /\ Close(chosen)
               /\ \A x \in cheaper : Close(x) =>
                     /\ x.rules.mode = WithinDelta
                     /\ EffectivePriority(x) >= EffectivePriority(chosen)
            \/ /\ chosen.rules.mode = Gofo /\ quote.channel.carrier = "GOFO"
               /\ rivals # {}
               /\ \A x \in rivals : paid <= x.channel.amount + chosen.rules.delta

(* The first option the worker tries for a substitution is the one the     *)
(* carrier priorities prefer among those close to the cheapest option, and *)
(* is dearer than any channel by at most the windows of the two            *)
(* warehouses: both, because each warehouse first chooses for itself and   *)
(* one is chosen among these (substitution.go:662).  docs/fulfillment.md:19 *)
(* speaks of a single window above the live minimum, which would not hold. *)
OptionIsJustified ==
    /\ Listed
    /\ \A key \in DOMAIN answers : Group(key).rules.mode = WithinDelta
    /\ Cardinality({x.channel.currency : x \in Choosable} \ {""}) <= 1
    =>  \E listed \in [DOMAIN options -> Choosable] :
            /\ \A i \in DOMAIN options :
                  /\ listed[i].warehouse = options[i].warehouse
                  /\ listed[i].channel.id = options[i].preferred
            /\ \A x \in Choosable :
                  listed[1].channel.amount <=
                      x.channel.amount + Window(listed[1]) + Window(x)
            /\ \A i \in DOMAIN listed :
                  EffectivePriority(listed[i]) < EffectivePriority(listed[1]) =>
                      \E j \in DOMAIN listed :
                          listed[i].channel.amount >
                              listed[j].channel.amount + Window(listed[i])

(* XLWMS contradicts neither itself nor warehouseRegion: what is shipped   *)
(* has one policy; a warehouse is where warehouseRegion has it; one that   *)
(* is off, or that the SKU may not leave, is not offered for it.           *)
Consistent ==
    /\ \A sku, other \in Sku \cup DOMAIN Bought : world.policy[sku] = world.policy[other]
    /\ \A sku \in DOMAIN Stock.records : \A key \in DOMAIN Stock.records[sku].at :
          LET w == Stock.records[sku].at[key]
          IN  /\ key \in Warehouse => InRegion(w, RegionOf[key])
              /\ w.selectable =>
                    /\ request.substitute \/ <<sku, key>> \notin world.disabled
                    /\ \A any \in Sku : key \in DOMAIN world.policy[any] =>
                                         world.policy[any][key].enabled

(* While nothing has changed, no check of Purchase refuses what was just   *)
(* quoted: the filters of the two are written apart.  A quote reads the    *)
(* policies of one SKU of the order, Purchase those of all that are        *)
(* shipped; a quote does not ask whether the warehouse is on, nor for the  *)
(* restrictions of the platform, nor, for a region that was asked for,     *)
(* what warehouseRegion says: hence the condition.                         *)
UnchangedQuoteStands ==
    changes = 0 /\ quote # NoQuote /\ Consistent =>
        /\ pc = "restrictions" =>
              \A sku \in Sku : <<sku, quote.warehouse>> \notin world.disabled
        /\ pc = "recipe" => world.combination = quote.combination
        /\ pc = "spare" => SpareStands
        /\ pc = "pairing" => quote.account \in world.paired
        /\ pc = "mapping" => MappingStands
        /\ pc = "binding" => BindingStands
        /\ pc = "carrier" => \A sku \in unchecked : CarrierStands(world.policy[sku])
        /\ pc = "stock" => Covers

(* What Quote stores of its choice is accepted by the transaction that     *)
(* records it: the rank is computed in one file and verified in another    *)
(* (service.go:1359, postgres.go:553), and a mismatch would fail every     *)
(* purchase of the order.                                                  *)
SnapshotIsRecordable == quote # NoQuote => Recordable(quote.choice)

(* The worker's loops over the warehouses and over the options end,        *)
(* whatever runs out of stock (service.go:2422-2455).                      *)
WorkerStops == request.worker ~> outcome # None
============================================================================
