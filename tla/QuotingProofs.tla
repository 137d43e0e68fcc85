--------------------------- MODULE QuotingProofs ---------------------------
(***************************************************************************)
(* The properties of Quoting, for any warehouses, offers, worlds and       *)
(* requests, and however often the worlds change.                          *)
(***************************************************************************)
EXTENDS Quoting, CarrierChoiceProofs, SequenceTheorems

USE DEF remote, quoting, vars

----------------------------------------------------------------------------
(* The inductive invariants *)

Preferences == Int \cup {r.preferred : r \in Requests}

Options == Seq([warehouse : Warehouse, preferred : Preferences])

(* The types of what the handlers hold, and when.                          *)
Holds ==
    /\ options \in Options
    /\ arrived \in Seq(Warehouse)
    /\ \A i, j \in DOMAIN arrived : arrived[i] = arrived[j] => i = j
    /\ \A key \in DOMAIN answers : answers[key] \in Offers
    /\ IF HasRead("bindings") THEN DOMAIN jobs # {}
       ELSE jobs = << >> /\ answers = << >> /\ arrived = << >>
    /\ DOMAIN jobs \cap excluded = {}
    /\ policies # None => \E w \in Worlds, sku \in Sku : policies = w.policy[sku]
    /\ request.substitute => excluded = {}
    /\ pc = "catalog" => request.substitute
    /\ unchecked # {} => pc = "carrier"

Purchasing == {"restrictions", "recipe", "spare", "pairing", "mapping",
               "binding", "carrier", "stock", "reserve", "record"}

(* What a stored quote has in common with the request and the worlds.      *)
Quoted ==
    quote # NoQuote =>
        /\ pc \in Purchasing \cup {"quoted", "option", "done"}
        /\ quote.warehouse \in Warehouse \ excluded
        /\ quote.channel.carrier \notin request.failed
        /\ (quote.combination = None) <=> ~request.substitute
        /\ world \in seen

(* The last steps of a purchase, and its success.                          *)
From(labels) == pc \in labels \/ outcome = "bought"

(* What each check of a purchase asks, of some world that was seen.        *)
WasUnrestricted ==
    \A sku \in Sku : \E then \in seen : <<sku, quote.warehouse>> \notin then.disabled

WasInStock ==
    \E then \in seen : Selectable(then.decision, AnyRegion, Bought, quote.warehouse)

WasRecipe == \E then \in seen : then.combination = quote.combination

WasSpare ==
    \E then \in seen : /\ Comparable(then.spare, Bought, quote.warehouse)
                       /\ Account(then.spare, quote.warehouse) = quote.account

WasPaired == \E then \in seen : quote.account \in then.paired

WasBound ==
    \E then \in seen :
        /\ quote.warehouse \in DOMAIN then.binding
        /\ then.binding[quote.warehouse].enabled
        /\ then.binding[quote.warehouse].temu = quote.temu
        /\ quote.revision \in {0, then.binding[quote.warehouse].revision}

CarrierWasAllowed(sku) ==
    \E then \in seen :
        /\ quote.warehouse \in DOMAIN then.policy[sku]
        /\ RulesAllow(quote.channel, then.policy[sku][quote.warehouse].rules)
        /\ PolicyAllows(quote.channel, then.policy[sku][quote.warehouse].carriers)

(* Each check that is behind the purchase was passed in a world that was   *)
(* seen.                                                                   *)
Passed ==
    quote # NoQuote =>
        /\ ~request.substitute =>
              /\ pc \notin {"recipe", "spare", "pairing", "mapping"}
              /\ From({"binding", "carrier", "stock", "reserve", "record"})
                    => WasUnrestricted
              /\ From({"reserve", "record"}) => WasInStock
        /\ request.substitute =>
              /\ pc # "restrictions"
              /\ From(Purchasing \ {"recipe"}) => WasRecipe
              /\ From(Purchasing \ {"recipe", "spare"}) => WasSpare
              /\ From(Purchasing \ {"recipe", "spare", "pairing"}) => WasPaired
        /\ From({"carrier", "stock", "reserve", "record"}) =>
              /\ WasBound
              /\ \A sku \in DOMAIN Bought \ unchecked : CarrierWasAllowed(sku)
        /\ From({"record"}) => reservation = Granted

(* What was chosen, and listed, is still the choice among the answers.     *)
ChoiceAgrees ==
    /\ pc = "quoted" =>
         LET choice == SelectAutomaticChannel(Candidates(arrived), Wanted)
         IN  /\ choice # NoChoice
             /\ quote.warehouse = choice.warehouse
             /\ quote.channel = choice.channel
    /\ Listed =>
         LET choices == BetterFirst(Candidates(arrived))
             listed == PriceQuotes(choices, SelectAutomaticChannel(choices, 0))
         IN  listed # << >> /\ options = AsOptions(listed)

(* While nothing changes, what was read is what there is.                  *)
Current ==
    changes = 0 =>
        /\ combination # None => combination = world.combination
        /\ decision # None => decision = Stock /\ Stock.complete
        /\ policies # None => \E sku \in Sku : policies = world.policy[sku]
        /\ \A key \in DOMAIN jobs : jobs[key] = world.binding[key] /\ Quotable(key)

(* While nothing changes, a quote says what the world says.                *)
QuoteStands ==
    changes = 0 /\ quote # NoQuote =>
        LET w == quote.warehouse
        IN  /\ IF request.substitute
               THEN /\ quote.combination = world.combination
                    /\ Comparable(Stock, Bought, w)
                    /\ Account(Stock, w) = quote.account
                    /\ quote.account \in world.paired
               ELSE Selectable(Stock, SelectionRegion(w), Bought, w)
            /\ Stock.complete
            /\ Mapped(w)
            /\ quote.temu = world.binding[w].temu
            /\ quote.revision = world.binding[w].revision
            /\ \E sku \in Sku : LET policy == world.policy[sku]
                                IN  /\ w \in DOMAIN policy
                                    /\ RulesAllow(quote.channel, policy[w].rules)
                                    /\ PolicyAllows(quote.channel, policy[w].carriers)

----------------------------------------------------------------------------
(* The steps, each with what it does when it does not end the attempt *)

(* The attempt ends: the next option is taken, or the request is over      *)
(* without a purchase.                                                     *)
Ended ==
    /\ pc # "done"
    /\ \/ /\ Len(options) > 1 /\ pc' = "option" /\ options' = Tail(options)
          /\ UNCHANGED outcome
       \/ /\ pc' = "done" /\ options' = << >>
          /\ outcome' \in {"queued", "failed", "skipped", "refused"}
    /\ Returned /\ unchecked' = {}
    /\ UNCHANGED <<world, changes, request, excluded>>
    /\ UNCHANGED <<quote, seen>> \/ (quote' = NoQuote /\ seen' = {})

AskedFor == <<[warehouse |-> request.warehouse, preferred |-> request.preferred]>>

Began ==
    /\ pc = "idle"
    /\ \/ /\ request.substitute /\ ~request.worker
          /\ pc' = "option" /\ options' = AskedFor
       \/ pc' = Reads[1] /\ UNCHANGED options
    /\ UNCHANGED <<remote, request, excluded, combination, decision, policies,
                   jobs, answers, arrived, quote, unchecked, reservation, outcome>>

Took ==
    /\ pc = "option" /\ pc' = Reads[1] /\ Returned
    /\ quote' = NoQuote /\ seen' = {}
    /\ UNCHANGED <<world, changes, request, excluded, options, unchecked,
                   reservation, outcome>>

Cataloged ==
    /\ pc = "catalog" /\ pc' = Following("catalog")
    /\ world.combination # None /\ combination' = world.combination
    /\ UNCHANGED <<remote, request, excluded, options, decision, policies, jobs,
                   answers, arrived, quote, unchecked, reservation, outcome>>

Queried ==
    /\ pc = "decision" /\ pc' = Following("decision")
    /\ Stock.complete /\ decision' = Stock
    /\ UNCHANGED <<remote, request, excluded, options, combination, policies,
                   jobs, answers, arrived, quote, unchecked, reservation, outcome>>

Asked ==
    /\ pc = "bindings" /\ pc' = Following("bindings")
    /\ LET asked == {key \in QuoteWarehouses(decision) : Quotable(key)}
       IN  asked # {} /\ jobs' = [key \in asked |-> world.binding[key]]
    /\ UNCHANGED <<remote, request, excluded, options, combination, decision,
                   policies, answers, arrived, quote, unchecked, reservation,
                   outcome>>

OptionsListed ==
    /\ pc = "asking" /\ DOMAIN answers = DOMAIN jobs /\ Comparing
    /\ pc' = "option"
    /\ LET choices == BetterFirst(Candidates(arrived))
           listed == PriceQuotes(choices, SelectAutomaticChannel(choices, 0))
       IN  listed # << >> /\ options' = AsOptions(listed)
    /\ UNCHANGED <<remote, request, excluded, combination, decision, policies,
                   jobs, answers, arrived, quote, unchecked, reservation, outcome>>

Chosen ==
    /\ pc = "asking" /\ DOMAIN answers = DOMAIN jobs /\ ~Comparing
    /\ pc' = "quoted" /\ seen' = {world}
    /\ LET items == Candidates(arrived)
           choice == SelectAutomaticChannel(items, Wanted)
       IN  /\ choice # NoChoice
           /\ quote' = [warehouse |-> choice.warehouse,
                        channel |-> choice.channel,
                        temu |-> jobs[choice.warehouse].temu,
                        revision |-> jobs[choice.warehouse].revision,
                        signature |-> choice.rules.signature,
                        account |-> Account(decision, choice.warehouse),
                        combination |-> combination,
                        choice |-> PurchaseChoice(items, choice, Wanted # 0)]
    /\ UNCHANGED <<world, changes, request, excluded, quoting, unchecked,
                   reservation, outcome>>

Started ==
    /\ pc = "quoted"
    /\ pc' = IF request.substitute THEN "recipe" ELSE "restrictions"
    /\ Returned
    /\ UNCHANGED <<remote, request, excluded, options, quote, unchecked,
                   reservation, outcome>>

Checked(at, next, ok) ==
    /\ pc = at /\ ok /\ pc' = next
    /\ unchecked' = IF next = "carrier" THEN DOMAIN Bought ELSE unchecked
    /\ UNCHANGED <<remote, request, excluded, quoting, quote, reservation, outcome>>

CarrierChecked ==
    /\ pc = "carrier" /\ UNCHANGED pc
    /\ \E sku \in unchecked : /\ CarrierStands(world.policy[sku])
                              /\ unchecked' = unchecked \ {sku}
    /\ UNCHANGED <<remote, request, excluded, quoting, quote, reservation, outcome>>

Built ==
    /\ pc = "carrier" /\ unchecked = {} /\ pc' = "stock"
    /\ UNCHANGED <<remote, request, excluded, quoting, quote, unchecked,
                   reservation, outcome>>

Refreshed ==
    /\ pc = "stock" /\ Covers /\ pc' = "reserve"
    /\ UNCHANGED <<remote, request, excluded, quoting, quote, unchecked,
                   reservation, outcome>>

Reserved ==
    /\ pc = "reserve" /\ reservation' = Granted /\ pc' = "record"
    /\ UNCHANGED <<remote, request, excluded, quoting, quote, unchecked, outcome>>

Excluded ==
    /\ pc \in {"stock", "reserve"} /\ ~request.substitute
    /\ excluded' = excluded \cup {quote.warehouse}
    /\ pc' = "idle" /\ quote' = NoQuote
    /\ UNCHANGED <<remote, request, quoting, unchecked, reservation, outcome>>

Recorded ==
    /\ pc = "record" /\ pc' = "done" /\ outcome' = "bought"
    /\ options' = << >> /\ unchecked' = {} /\ Returned
    /\ UNCHANGED <<remote, request, excluded, quote, reservation>>

Reading ==
    \/ Began \/ Took \/ Cataloged \/ Queried \/ ReadPolicies \/ Asked
    \/ (\E key \in Warehouse : Answer(key)) \/ OptionsListed

Checking ==
    \/ Checked("restrictions", "binding",
               \A sku \in Sku : <<sku, quote.warehouse>> \notin world.disabled)
    \/ Checked("recipe", "spare", world.combination = quote.combination)
    \/ Checked("spare", "pairing", SpareStands)
    \/ Checked("pairing", "mapping", quote.account \in world.paired)
    \/ Checked("mapping", "binding", MappingStands)
    \/ Checked("binding", "carrier", BindingStands)

Purchase ==
    \/ Started \/ Checking \/ CarrierChecked \/ Built \/ Refreshed \/ Reserved
    \/ Excluded \/ Recorded

(* A failure ends the attempt.                                             *)
LEMMA FailEnds ==
    ASSUME NEW temporary, Fail(temporary), pc # "done",
           UNCHANGED <<remote, request, excluded, quote>>
    PROVE  Ended
BY DEF Fail, Stop, Error, Returned, Ended

(* Stopping, with whatever outcome but a purchase, ends the attempt.       *)
LEMMA StopEnds ==
    ASSUME NEW how \in {"queued", "failed", "skipped", "refused"}, Stop(how),
           pc # "done",
           UNCHANGED <<world, changes, request, excluded>>,
           UNCHANGED <<quote, seen>> \/ (quote' = NoQuote /\ seen' = {})
    PROVE  Ended
BY DEF Stop, Returned, Ended

(* No way to give an attempt up counts as a purchase.                      *)
LEMMA ClosedIsNoPurchase == Closed \in {"queued", "failed", "skipped", "refused"}
BY DEF Closed

LEMMA ErrorIsNoPurchase ==
    \A temporary : Error(temporary) \in {"queued", "failed", "skipped", "refused"}
BY DEF Error

(* Every step is a change of the world, the end of an attempt, or one of   *)
(* these.                                                                  *)
LEMMA StepCases ==
    ASSUME [Next]_vars
    PROVE  UNCHANGED vars \/ Change \/ Ended \/ Reading \/ Chosen \/ Purchase
<1>1. CASE Start
  <2>1. Start => Began \/ (Stop(Closed) /\ UNCHANGED <<remote, request, excluded, quote>>)
    BY DEF Start, Began, AskedFor
  <2>2. pc # "done"
    BY <1>1 DEF Start
  <2> QED
    BY <1>1, <2>1, <2>2, ClosedIsNoPurchase, StopEnds DEF Reading
<1>2. CASE TakeOption
  <2>1. TakeOption => Took \/ (/\ Stop(Closed) /\ quote' = NoQuote /\ seen' = {}
                               /\ UNCHANGED <<world, changes, request, excluded>>)
    BY DEF TakeOption, Took, Returned
  <2>2. pc # "done"
    BY <1>2 DEF TakeOption
  <2> QED
    BY <1>2, <2>1, <2>2, ClosedIsNoPurchase, StopEnds DEF Reading
<1>3. CASE ReadCatalog
  BY <1>3, FailEnds DEF ReadCatalog, Cataloged, Reading
<1>4. CASE QueryInventory
  BY <1>4, FailEnds DEF QueryInventory, Queried, Reading
<1>5. CASE ReadPolicies
  BY <1>5 DEF Reading
<1>6. CASE AskTemu
  <2> DEFINE asked == {key \in QuoteWarehouses(decision) : Quotable(key)}
  <2>1. CASE asked = {}
    <3>1. Fail(FALSE) /\ pc # "done" /\ UNCHANGED <<remote, request, excluded, quote>>
      BY <1>6, <2>1 DEF AskTemu
    <3> QED
      BY <3>1, FailEnds
  <2>2. CASE asked # {}
    <3>1. Asked
      BY <1>6, <2>2 DEF AskTemu, Asked
    <3> QED
      BY <3>1 DEF Reading
  <2> QED
    BY <2>1, <2>2
<1>7. CASE \E key \in Warehouse : Answer(key)
  BY <1>7 DEF Reading
<1>8. CASE ListOptions
  <2> DEFINE choices == BetterFirst(Candidates(arrived))
             listed == PriceQuotes(choices, SelectAutomaticChannel(choices, 0))
  <2>1. /\ pc = "asking" /\ DOMAIN answers = DOMAIN jobs /\ Comparing
        /\ UNCHANGED <<remote, request, excluded, quote, reservation>>
        /\ IF listed = << >> THEN Stop(Error(FALSE))
           ELSE /\ options' = AsOptions(listed)
                /\ pc' = "option"
                /\ UNCHANGED <<combination, decision, policies, jobs, answers,
                               arrived, unchecked, outcome>>
    BY <1>8 DEF ListOptions, BetterFirst
  <2> HIDE DEF listed
  <2>2. CASE listed = << >>
    BY <2>1, <2>2, ErrorIsNoPurchase, StopEnds
  <2>3. CASE listed # << >>
    <3>1. OptionsListed
      BY <2>1, <2>3 DEF OptionsListed, listed, choices
    <3> QED
      BY <3>1 DEF Reading
  <2> QED
    BY <2>2, <2>3
<1>9. CASE Choose
  <2> DEFINE items == Candidates(arrived)
             choice == SelectAutomaticChannel(items, Wanted)
  <2>1. CASE choice = NoChoice
    <3>1. \E temporary \in BOOLEAN : Fail(temporary)
      BY <1>9, <2>1 DEF Choose
    <3>2. pc # "done" /\ UNCHANGED <<remote, request, excluded, quote>>
      BY <1>9, <2>1 DEF Choose
    <3> QED
      BY <3>1, <3>2, FailEnds
  <2>2. CASE choice # NoChoice
    BY <1>9, <2>2 DEF Choose, Chosen
  <2> QED
    BY <2>1, <2>2
<1>10. CASE Buy
  <2>1. Buy => \/ Started
               \/ /\ Stop(Closed) \/ Stop("refused")
                  /\ pc # "done" /\ UNCHANGED <<remote, request, excluded, quote>>
    BY DEF Buy, Started
  <2> QED
    BY <1>10, <2>1, ClosedIsNoPurchase, StopEnds DEF Purchase
<1>11. CASE \/ CheckRestrictions \/ CheckRecipe \/ CheckSpare \/ CheckPairing
            \/ CheckMapping \/ CheckBinding
  <2>1. ASSUME NEW at, NEW next, NEW ok, Check(at, next, ok)
        PROVE  Checked(at, next, ok) \/ Ended \/ at = "done"
    BY <2>1, FailEnds DEF Check, Checked
  <2> QED
    BY <1>11, <2>1 DEF CheckRestrictions, CheckRecipe, CheckSpare, CheckPairing,
                       CheckMapping, CheckBinding, Checking, Purchase
<1>12. CASE CheckCarrier
  BY <1>12, FailEnds DEF CheckCarrier, CarrierChecked, Purchase
<1>13. CASE BuildRequest
  BY <1>13, FailEnds DEF BuildRequest, Built, Purchase
<1>14. ASSUME Exhausted, pc \in {"stock", "reserve"},
              UNCHANGED <<remote, request, reservation>>
       PROVE  Excluded \/ Ended
  BY <1>14, FailEnds DEF Exhausted, Excluded
<1>15. CASE RefreshInventory
  BY <1>14, <1>15, FailEnds DEF RefreshInventory, Refreshed, Purchase
<1>16. CASE Reserve
  BY <1>14, <1>16, FailEnds DEF Reserve, Reserved, Purchase
<1>17. CASE Record
  BY <1>17, FailEnds DEF Record, Recorded, Stop, Returned, Purchase
<1>18. CASE Unreachable
  BY <1>18, FailEnds DEF Unreachable
<1> QED
  BY <1>1, <1>2, <1>3, <1>4, <1>5, <1>6, <1>7, <1>8, <1>9, <1>10, <1>11, <1>12,
     <1>13, <1>15, <1>16, <1>17, <1>18, Zenon DEF Next, Steps

----------------------------------------------------------------------------
(* The candidates *)

(* The answers are offers, under policies that were read.                  *)
Answered ==
    /\ request \in Requests
    /\ \E w \in Worlds, sku \in Sku : policies = w.policy[sku]
    /\ \A key \in DOMAIN answers : answers[key] \in Offers
    /\ IsFiniteSet(DOMAIN answers)

(* The rules under which a warehouse's channels are judged are well        *)
(* formed.                                                                 *)
LEMMA GroupType ==
    ASSUME Answered, NEW key
    PROVE  /\ Group(key).rules.tie \in Int /\ Group(key).rules.delta \in Nat
           /\ \A code : ConfiguredPriority(Group(key).carriers, code) \in Int
<1>1. PICK w \in Worlds, sku \in Sku : policies = w.policy[sku]
  BY DEF Answered
<1>2. CASE key \in DOMAIN policies
  <2> DEFINE group == policies[key]
  <2>1. /\ group.rules.tie \in Int /\ group.rules.delta \in Nat
        /\ IsFiniteSet(DOMAIN group.carriers)
        /\ \A code \in DOMAIN group.carriers : group.carriers[code].priority \in Int
    BY <1>1, <1>2, PolicyAssumption DEF Answered, Sku
  <2>2. Group(key) = group
    BY <1>2 DEF Group
  <2> HIDE DEF group
  <2>3. Cardinality(DOMAIN group.carriers) \in Nat
    BY <2>1, FS_CardinalityType
  <2> QED
    BY <2>1, <2>2, <2>3 DEF ConfiguredPriority
<1>3. CASE key \notin DOMAIN policies
  <2>1. Group(key) = [enabled |-> TRUE, rules |-> NoRules, carriers |-> << >>]
    BY <1>3 DEF Group
  <2>2. Group(key).rules.tie = 0 /\ Group(key).rules.delta = 0 /\ Group(key).carriers = << >>
    <3>1. Group(key).rules = NoRules /\ Group(key).carriers = << >>
      BY <2>1
    <3>2. NoRules.tie = 0 /\ NoRules.delta = 0
      BY DEF NoRules
    <3> QED
      BY <3>1, <3>2
  <2>3. DOMAIN Group(key).carriers = {}
    BY <2>2
  <2>4. Cardinality(DOMAIN Group(key).carriers) = 0
    BY <2>3, FS_EmptySet
  <2> QED
    BY <2>2, <2>3, <2>4 DEF ConfiguredPriority
<1> QED
  BY <1>2, <1>3

(* What Temu offers: finitely many channels, none of them numbered 0.      *)
LEMMA OfferType ==
    ASSUME NEW offer \in Offers
    PROVE  /\ DOMAIN offer \subseteq Nat /\ IsFiniteSet(DOMAIN offer)
           /\ \A i \in DOMAIN offer : /\ offer[i].id \in Int \ {0}
                                      /\ offer[i].amount \in Nat \cup {NoPrice}
<1>1. /\ offer \in Seq({offer[i] : i \in DOMAIN offer})
      /\ \A i \in DOMAIN offer : /\ offer[i].id \in Int \ {0}
                                 /\ offer[i].amount \in Nat \cup {NoPrice}
  BY OfferAssumption
<1>2. Len(offer) \in Nat /\ DOMAIN offer = 1 .. Len(offer)
  BY <1>1
<1> QED
  BY <1>1, <1>2, FS_Interval

(* The candidates are finitely many; each is of a channel of an answer, an *)
(* eligible one, with what its warehouse says about it.                    *)
LEMMA OfferedType ==
    ASSUME Answered
    PROVE  /\ IsFiniteSet(Offered)
           /\ \A x \in Offered :
                 /\ x = <<x[1], x[2]>> /\ x[2].warehouse \in DOMAIN answers
                 /\ x[1] \in DOMAIN answers[x[2].warehouse] /\ x[1] \in Nat
                 /\ x[2] = Candidate(x[2].warehouse, answers[x[2].warehouse][x[1]])
                 /\ Eligible(x[2].channel, x[2].warehouse)
                 /\ x[2].channel.id # 0
                 /\ IsCandidate(x[2])
<1> DEFINE at == [key \in DOMAIN answers |->
                     {<<i, Candidate(key, answers[key][i])>> :
                         i \in {j \in DOMAIN answers[key] : Eligible(answers[key][j], key)}}]
<1>1. Offered = UNION {at[key] : key \in DOMAIN answers}
  BY DEF Offered
<1>2. ASSUME NEW key \in DOMAIN answers PROVE IsFiniteSet(at[key])
  <2> DEFINE eligible == {j \in DOMAIN answers[key] : Eligible(answers[key][j], key)}
             f == [i \in eligible |-> <<i, Candidate(key, answers[key][i])>>]
  <2>1. at[key] = {f[i] : i \in eligible}
    OBVIOUS
  <2>2. IsFiniteSet(eligible)
    <3>1. IsFiniteSet(DOMAIN answers[key])
      BY OfferType DEF Answered
    <3>2. eligible \in SUBSET DOMAIN answers[key]
      OBVIOUS
    <3> HIDE DEF eligible
    <3> QED
      BY <3>1, <3>2, FS_Subset
  <2> HIDE DEF f, at, eligible
  <2> QED
    BY <2>1, <2>2, ImageIsFinite
<1>3. IsFiniteSet(Offered)
  <2>1. IsFiniteSet({at[key] : key \in DOMAIN answers})
    <3> HIDE DEF at
    <3> QED
      BY ImageIsFinite DEF Answered
  <2> HIDE DEF at
  <2> QED
    BY <1>1, <1>2, <2>1, FS_UNION
<1>4. ASSUME NEW x \in Offered
      PROVE  \E key \in DOMAIN answers : \E i \in DOMAIN answers[key] :
                /\ x = <<i, Candidate(key, answers[key][i])>>
                /\ Eligible(answers[key][i], key)
  <2>1. PICK key \in DOMAIN answers : x \in at[key]
    BY <1>1
  <2> QED
    BY <2>1
<1>5. ASSUME NEW x \in Offered
      PROVE  /\ x = <<x[1], x[2]>> /\ x[2].warehouse \in DOMAIN answers
             /\ x[1] \in DOMAIN answers[x[2].warehouse] /\ x[1] \in Nat
             /\ x[2] = Candidate(x[2].warehouse, answers[x[2].warehouse][x[1]])
             /\ Eligible(x[2].channel, x[2].warehouse)
             /\ x[2].channel.id # 0
             /\ IsCandidate(x[2])
  <2>0. PICK key \in DOMAIN answers : \E i \in DOMAIN answers[key] :
           /\ x = <<i, Candidate(key, answers[key][i])>>
           /\ Eligible(answers[key][i], key)
    BY <1>4
  <2>1. PICK i \in DOMAIN answers[key] :
           /\ x = <<i, Candidate(key, answers[key][i])>>
           /\ Eligible(answers[key][i], key)
    BY <2>0
  <2> DEFINE channel == answers[key][i]
             c == Candidate(key, channel)
  <2>2. /\ c.warehouse = key /\ c.channel = channel /\ c.rules = Group(key).rules
        /\ c.priority = ConfiguredPriority(Group(key).carriers, channel.carrier)
    BY DEF Candidate
  <2>3. /\ channel.id \in Int \ {0} /\ channel.amount \in Nat \cup {NoPrice} /\ i \in Nat
    BY OfferType DEF Answered
  <2>4. channel.amount # NoPrice
    BY <2>1 DEF Eligible, RulesAllow
  <2>5. x[1] = i /\ x[2] = c
    BY <2>1
  <2> HIDE DEF channel, c
  <2>6. IsCandidate(c)
    BY <2>2, <2>3, <2>4, GroupType DEF IsCandidate
  <2>7. c = Candidate(key, channel) /\ channel = answers[key][i]
    BY DEF c, channel
  <2> QED
    BY <2>1, <2>2, <2>3, <2>5, <2>6, <2>7
<1> QED
  BY <1>3, <1>5

(* An order in which the answers can have come.                            *)
Arrival(order) ==
    /\ order \in Seq(Warehouse)
    /\ {order[i] : i \in DOMAIN order} = DOMAIN answers
    /\ \A i, j \in DOMAIN order : order[i] = order[j] => i = j

Sooner(order, x, y) ==
    IF x[2].warehouse = y[2].warehouse THEN x[1] < y[1]
    ELSE \E m, n \in DOMAIN order :
            m < n /\ order[m] = x[2].warehouse /\ order[n] = y[2].warehouse

Soonest(order) == {p \in Offered \X Offered : Sooner(order, p[1], p[2])}

Cheapness == {p \in Offered \X Offered : Better(p[1][2], p[2][2])}

(* The offers in the order in which the answers came, whichever that was.  *)
LEMMA SoonestIsOrder ==
    ASSUME Answered, NEW order, Arrival(order)
    PROVE  IsOrder(Soonest(order), Offered)
<1>1. PICK place \in [DOMAIN answers -> DOMAIN order] :
         \A key \in DOMAIN answers : order[place[key]] = key
  <2> DEFINE f == [key \in DOMAIN answers |-> CHOOSE i \in DOMAIN order : order[i] = key]
  <2>1. \A key \in DOMAIN answers : \E i \in DOMAIN order : order[i] = key
    BY DEF Arrival
  <2>2. \A key \in DOMAIN answers : f[key] \in DOMAIN order /\ order[f[key]] = key
    BY <2>1
  <2>3. f \in [DOMAIN answers -> DOMAIN order]
    BY <2>2
  <2> QED
    BY <2>2, <2>3
<1>2. DOMAIN order \subseteq Nat
  BY DEF Arrival
<1>3. ASSUME NEW x \in Offered, NEW y \in Offered
      PROVE  Sooner(order, x, y) <=>
                IF x[2].warehouse = y[2].warehouse THEN x[1] < y[1]
                ELSE place[x[2].warehouse] < place[y[2].warehouse]
  <2>1. x[2].warehouse \in DOMAIN answers /\ y[2].warehouse \in DOMAIN answers
    BY OfferedType
  <2>2. \A m \in DOMAIN order : \A key \in DOMAIN answers :
           order[m] = key <=> m = place[key]
    BY <1>1 DEF Arrival
  <2> QED
    BY <1>1, <2>1, <2>2 DEF Sooner
<1>4. \A x, y \in Offered : <<x, y>> \in Soonest(order) <=>
         IF x[2].warehouse = y[2].warehouse THEN x[1] < y[1]
         ELSE place[x[2].warehouse] < place[y[2].warehouse]
  BY <1>3 DEF Soonest
<1>5. \A x \in Offered : /\ x[2].warehouse \in DOMAIN answers /\ x[1] \in Nat
                         /\ place[x[2].warehouse] \in Nat
  BY <1>1, <1>2, OfferedType
<1>6. \A x \in Offered : <<x, x>> \notin Soonest(order)
  BY <1>4, <1>5
<1>7. ASSUME NEW x \in Offered, NEW y \in Offered, NEW z \in Offered,
             <<x, y>> \in Soonest(order), <<y, z>> \in Soonest(order)
      PROVE  <<x, z>> \in Soonest(order)
  <2>1. CASE x[2].warehouse = y[2].warehouse
    BY <1>4, <1>5, <1>7, <2>1
  <2>2. CASE x[2].warehouse # y[2].warehouse
    <3>1. place[x[2].warehouse] < place[y[2].warehouse]
      BY <1>4, <1>7, <2>2
    <3>2. place[y[2].warehouse] <= place[z[2].warehouse]
      BY <1>4, <1>5, <1>7
    <3>3. place[x[2].warehouse] < place[z[2].warehouse]
      BY <1>5, <3>1, <3>2
    <3>4. x[2].warehouse # z[2].warehouse
      BY <1>5, <3>3
    <3> QED
      BY <1>4, <3>3, <3>4
  <2> QED
    BY <2>1, <2>2
<1>8. ASSUME NEW x \in Offered, NEW y \in Offered
      PROVE  x = y \/ <<x, y>> \in Soonest(order) \/ <<y, x>> \in Soonest(order)
  <2>1. CASE x[2].warehouse = y[2].warehouse
    <3>1. CASE x[1] = y[1]
      <4>1. x[2] = y[2]
        BY <2>1, <3>1, OfferedType
      <4>2. x = <<x[1], x[2]>> /\ y = <<y[1], y[2]>>
        BY OfferedType
      <4> QED
        BY <3>1, <4>1, <4>2
    <3>2. CASE x[1] # y[1]
      BY <1>4, <1>5, <2>1, <3>2
    <3> QED
      BY <3>1, <3>2
  <2>2. CASE x[2].warehouse # y[2].warehouse
    <3>1. place[x[2].warehouse] # place[y[2].warehouse]
      BY <1>1, <1>5, <2>2
    <3> QED
      BY <1>4, <1>5, <2>2, <3>1
  <2> QED
    BY <2>1, <2>2
<1> QED
  BY <1>6, <1>7, <1>8 DEF IsOrder

(* The candidates in the order of the answers, sorted: all of them, the    *)
(* better ones first.                                                      *)
LEMMA CandidatesSorted ==
    ASSUME Answered, NEW order, Arrival(order)
    PROVE  /\ Candidates(order) \in Seq(Choosable)
           /\ RangeOf(Candidates(order)) = Choosable
           /\ Sorted(Candidates(order))
           /\ \A x \in Choosable : IsCandidate(x)
<1> DEFINE R == Stable(Cheapness, Soonest(order), Offered)
           n == Cardinality(Offered)
           Before(x, y) == \/ Better(x[2], y[2])
                           \/ ~Better(y[2], x[2]) /\ Sooner(order, x, y)
           f == [k \in 1 .. n |->
                    CHOOSE x \in Offered : Cardinality({y \in Offered : Before(y, x)}) = k - 1]
<1>1. IsFiniteSet(Offered) /\ n \in Nat /\ \A x \in Offered : IsCandidate(x[2])
  BY OfferedType, FS_CardinalityType
<1>2. IsOrder(R, Offered)
  <2>1. \A x, y \in Offered : <<x, y>> \in Cheapness <=> Better(x[2], y[2])
    BY DEF Cheapness
  <2>2. IsWeakOrder(Cheapness, Offered)
    BY <1>1, <2>1, BetterIsWeakOrder DEF IsWeakOrder
  <2> QED
    BY <2>2, SoonestIsOrder, StableIsOrder
<1>3. \A x, y \in Offered : <<x, y>> \in R <=> Before(x, y)
  BY DEF Stable, Cheapness, Soonest
<1> HIDE DEF Before, R
<1>4. \A x \in Offered : {y \in Offered : Before(y, x)} = Below(R, Offered, x)
  BY <1>3 DEF Below
<1>5. ASSUME NEW k \in 1 .. n
      PROVE  f[k] \in Offered /\ Cardinality(Below(R, Offered, f[k])) = k - 1
  <2>1. PICK x \in Offered : Cardinality(Below(R, Offered, x)) = k - 1
    BY <1>1, <1>2, EachRankOnce
  <2>2. Cardinality({y \in Offered : Before(y, x)}) = k - 1
    BY <1>4, <2>1
  <2>3. f[k] = CHOOSE z \in Offered : Cardinality({y \in Offered : Before(y, z)}) = k - 1
    OBVIOUS
  <2>4. f[k] \in Offered /\ Cardinality({y \in Offered : Before(y, f[k])}) = k - 1
    <3> HIDE DEF f
    <3> QED
      BY <2>2, <2>3
  <2> QED
    BY <1>4, <2>4
<1>6. f \in [1 .. n -> Offered]
  BY <1>5
<1>7. Candidates(order) = [k \in 1 .. n |-> f[k][2]]
  BY DEF Candidates, Ordered, Before, Sooner
<1> HIDE DEF f
<1>8. Lists(f, Offered, R)
  BY <1>1, <1>2, <1>5, <1>6, RankedIsListed
<1>9. /\ \A x \in Offered : \E k \in 1 .. n : f[k] = x
      /\ \A j, k \in 1 .. n : j < k => <<f[j], f[k]>> \in R
  BY <1>8 DEF Lists
<1> HIDE DEF n
<1>10. Candidates(order) \in Seq(Choosable) /\ DOMAIN Candidates(order) = 1 .. n
  <2>1. \A k \in 1 .. n : f[k][2] \in Choosable
    BY <1>6 DEF Choosable
  <2> QED
    BY <1>1, <1>7, <2>1
<1>11. RangeOf(Candidates(order)) = Choosable
  <2>1. \A k \in 1 .. n : Candidates(order)[k] \in Choosable
    BY <1>6, <1>7 DEF Choosable
  <2>2. ASSUME NEW x \in Offered PROVE x[2] \in RangeOf(Candidates(order))
    <3>1. PICK k \in 1 .. n : f[k] = x
      BY <1>9
    <3> QED
      BY <1>7, <1>10, <3>1 DEF RangeOf
  <2> QED
    BY <1>10, <2>1, <2>2 DEF Choosable, RangeOf
<1>12. Sorted(Candidates(order))
  <2> SUFFICES ASSUME NEW j \in 1 .. n, NEW k \in 1 .. n, j < k
               PROVE  ~Better(f[k][2], f[j][2])
    BY <1>7, <1>10 DEF Sorted
  <2>1. f[j] \in Offered /\ f[k] \in Offered /\ Before(f[j], f[k])
    BY <1>3, <1>6, <1>9
  <2>2. Better(f[j][2], f[k][2]) \/ ~Better(f[k][2], f[j][2])
    BY <2>1 DEF Before
  <2> QED
    BY <1>1, <2>1, <2>2, BetterIsWeakOrder
<1>13. \A x \in Choosable : IsCandidate(x)
  BY <1>1 DEF Choosable
<1> QED
  BY <1>10, <1>11, <1>12, <1>13

(* Candidates that no two warehouses tie for come in one order, whatever   *)
(* the order of the answers.                                               *)
LEMMA OrderOfAnswersIsIrrelevant ==
    ASSUME Answered, Cardinality(Ties) = Cardinality(DOMAIN answers),
           NEW order, NEW other
    PROVE  Candidates(order) = Candidates(other)
<1> DEFINE tie == [key \in DOMAIN answers |-> Group(key).rules.tie]
<1>1. tie \in Surjection(DOMAIN answers, Ties)
  BY DEF Surjection, Ties
<1>2. tie \in Injection(DOMAIN answers, Ties)
  <2> HIDE DEF tie
  <2> QED
    BY <1>1, FS_SurjSameCardinalityImpliesInj DEF Answered
<1>3. \A k, l \in DOMAIN answers : Group(k).rules.tie = Group(l).rules.tie => k = l
  BY <1>2 DEF Injection, IsInjective
<1>4. ASSUME NEW x \in Offered, NEW y \in Offered,
             ~Better(x[2], y[2]), ~Better(y[2], x[2])
      PROVE  x[2].warehouse = y[2].warehouse
  <2>1. IsCandidate(x[2]) /\ IsCandidate(y[2])
    BY OfferedType
  <2>2. x[2].rules.tie = y[2].rules.tie
    BY <1>4, <2>1 DEF Better, IsCandidate
  <2>3. /\ x[2].rules = Group(x[2].warehouse).rules
        /\ y[2].rules = Group(y[2].warehouse).rules
        /\ x[2].warehouse \in DOMAIN answers /\ y[2].warehouse \in DOMAIN answers
    <3>1. \A key, channel : Candidate(key, channel).rules = Group(key).rules
      BY DEF Candidate
    <3> QED
      BY <3>1, OfferedType
  <2> QED
    BY <1>3, <2>2, <2>3
<1>5. ASSUME NEW x \in Offered
      PROVE  {y \in Offered : \/ Better(y[2], x[2])
                              \/ ~Better(x[2], y[2]) /\ Sooner(order, y, x)}
           = {y \in Offered : \/ Better(y[2], x[2])
                              \/ ~Better(x[2], y[2]) /\ Sooner(other, y, x)}
  BY <1>4 DEF Sooner
<1> DEFINE rank(o, x) == {y \in Offered : \/ Better(y[2], x[2])
                                          \/ ~Better(x[2], y[2]) /\ Sooner(o, y, x)}
           list(o) == [k \in 1 .. Cardinality(Offered) |->
                         CHOOSE x \in Offered : Cardinality(rank(o, x)) = k - 1]
<1>6. \A x \in Offered : rank(order, x) = rank(other, x)
  BY <1>5
<1>7. /\ Candidates(order) = [k \in 1 .. Cardinality(Offered) |-> list(order)[k][2]]
      /\ Candidates(other) = [k \in 1 .. Cardinality(Offered) |-> list(other)[k][2]]
  BY DEF Candidates, Ordered, Sooner
<1>8. list(order) = list(other)
  <2> HIDE DEF rank
  <2> QED
    BY <1>6
<1> QED
  BY <1>7, <1>8

----------------------------------------------------------------------------
(* What has been read at each step *)

ReadTable ==
    /\ HasRead("catalog") <=>
         \/ pc = "quoted" \/ Listed
         \/ request.substitute /\ pc \in {"decision", "policies", "bindings", "asking"}
    /\ HasRead("decision") <=>
         \/ pc = "quoted" \/ Listed
         \/ pc \in {"bindings", "asking"}
         \/ pc = "policies" /\ ~Comparing
    /\ HasRead("policies") <=>
         \/ pc = "quoted" \/ Listed
         \/ pc = "asking"
         \/ pc = "bindings" /\ (Comparing \/ ~request.substitute)
         \/ pc = "decision" /\ Comparing
    /\ HasRead("bindings") <=>
         \/ pc = "quoted" \/ Listed
         \/ pc = "asking"
         \/ pc = "policies" /\ request.substitute /\ ~Comparing

FollowingTable ==
    /\ Reads[1] = IF request.substitute THEN "catalog" ELSE "decision"
    /\ request.substitute => Following("catalog") = IF Comparing THEN "policies" ELSE "decision"
    /\ Following("decision") = IF ~request.substitute THEN "policies" ELSE "bindings"
    /\ Following("policies") = IF ~request.substitute THEN "bindings"
                               ELSE IF Comparing THEN "decision" ELSE "asking"
    /\ Following("bindings") = IF request.substitute /\ ~Comparing THEN "policies"
                               ELSE "asking"

(* Which reads lie behind a handler at each place, for an order and for a  *)
(* substitution.                                                           *)
LEMMA ReadTableHolds == ReadTable
<1>1. CASE ~request.substitute
  <2>1. Reads = <<"decision", "policies", "bindings", "asking">> /\ ~Comparing
    BY <1>1 DEF Reads, Comparing
  <2>2. \A step : (\E i, j \in DOMAIN Reads : i < j /\ Reads[i] = step /\ Reads[j] = pc) <=>
           \/ step = "decision" /\ pc \in {"policies", "bindings", "asking"}
           \/ step = "policies" /\ pc \in {"bindings", "asking"}
           \/ step = "bindings" /\ pc = "asking"
    <3>1. DOMAIN Reads = 1 .. 4
      BY <2>1
    <3>2. Reads[1] = "decision" /\ Reads[2] = "policies" /\ Reads[3] = "bindings" /\ Reads[4] = "asking"
      BY <2>1
    <3> QED
      BY <3>1, <3>2
  <2> QED
    BY <1>1, <2>1, <2>2 DEF ReadTable, HasRead
<1>2. CASE request.substitute /\ Comparing
  <2>1. Reads = <<"catalog", "policies", "decision", "bindings", "asking">>
    BY <1>2 DEF Reads
  <2>2. \A step : (\E i, j \in DOMAIN Reads : i < j /\ Reads[i] = step /\ Reads[j] = pc) <=>
           \/ step = "catalog" /\ pc \in {"policies", "decision", "bindings", "asking"}
           \/ step = "policies" /\ pc \in {"decision", "bindings", "asking"}
           \/ step = "decision" /\ pc \in {"bindings", "asking"}
           \/ step = "bindings" /\ pc = "asking"
    <3>1. DOMAIN Reads = 1 .. 5
      BY <2>1
    <3>2. /\ Reads[1] = "catalog" /\ Reads[2] = "policies" /\ Reads[3] = "decision"
          /\ Reads[4] = "bindings" /\ Reads[5] = "asking"
      BY <2>1
    <3> QED
      BY <3>1, <3>2
  <2> QED
    BY <1>2, <2>2 DEF ReadTable, HasRead
<1>3. CASE request.substitute /\ ~Comparing
  <2>1. Reads = <<"catalog", "decision", "bindings", "policies", "asking">>
    BY <1>3 DEF Reads
  <2>2. \A step : (\E i, j \in DOMAIN Reads : i < j /\ Reads[i] = step /\ Reads[j] = pc) <=>
           \/ step = "catalog" /\ pc \in {"decision", "bindings", "policies", "asking"}
           \/ step = "decision" /\ pc \in {"bindings", "policies", "asking"}
           \/ step = "bindings" /\ pc \in {"policies", "asking"}
           \/ step = "policies" /\ pc = "asking"
    <3>1. DOMAIN Reads = 1 .. 5
      BY <2>1
    <3>2. /\ Reads[1] = "catalog" /\ Reads[2] = "decision" /\ Reads[3] = "bindings"
          /\ Reads[4] = "policies" /\ Reads[5] = "asking"
      BY <2>1
    <3> QED
      BY <3>1, <3>2
  <2> QED
    BY <1>3, <2>2 DEF ReadTable, HasRead
<1> QED
  BY <1>1, <1>2, <1>3

LEMMA ReadTableNext == ReadTable'
BY ReadTableHolds, PTL

(* The place that follows each read.                                       *)
LEMMA FollowingTableHolds == FollowingTable
<1>1. ASSUME NEW list, NEW n \in Nat, DOMAIN list = 1 .. n, NEW k \in 1 .. n,
             \A i, j \in 1 .. n : list[i] = list[j] => i = j
      PROVE  list[1 + CHOOSE i \in DOMAIN list : list[i] = list[k]] = list[k + 1]
  <2> DEFINE c == CHOOSE i \in DOMAIN list : list[i] = list[k]
  <2>1. c = k
    BY <1>1
  <2> HIDE DEF c
  <2>2. list[1 + c] = list[k + 1]
    BY <1>1, <2>1
  <2> QED
    BY <2>2 DEF c
<1>2. CASE ~request.substitute
  <2>1. Reads = <<"decision", "policies", "bindings", "asking">> /\ ~Comparing
    BY <1>2 DEF Reads, Comparing
  <2>2. DOMAIN Reads = 1 .. 4
    BY <2>1
  <2>3. Reads[1] = "decision" /\ Reads[2] = "policies" /\ Reads[3] = "bindings" /\ Reads[4] = "asking"
    BY <2>1
  <2>4. \A i, j \in 1 .. 4 : Reads[i] = Reads[j] => i = j
    BY <2>3
  <2>5. \A k \in 1 .. 4 : Following(Reads[k]) = Reads[k + 1]
    BY <1>1, <2>2, <2>4 DEF Following
  <2>6. Following("decision") = Reads[1 + 1] /\ Following("policies") = Reads[2 + 1]
        /\ Following("bindings") = Reads[3 + 1]
    BY <2>3, <2>5
  <2> QED
    BY <1>2, <2>3, <2>6 DEF FollowingTable
<1>3. CASE request.substitute /\ Comparing
  <2>1. Reads = <<"catalog", "policies", "decision", "bindings", "asking">>
    BY <1>3 DEF Reads
  <2>2. DOMAIN Reads = 1 .. 5
    BY <2>1
  <2>3. /\ Reads[1] = "catalog" /\ Reads[2] = "policies" /\ Reads[3] = "decision"
        /\ Reads[4] = "bindings" /\ Reads[5] = "asking"
    BY <2>1
  <2>4. \A i, j \in 1 .. 5 : Reads[i] = Reads[j] => i = j
    BY <2>3
  <2>5. \A k \in 1 .. 5 : Following(Reads[k]) = Reads[k + 1]
    BY <1>1, <2>2, <2>4 DEF Following
  <2>6. /\ Following("catalog") = Reads[1 + 1] /\ Following("policies") = Reads[2 + 1]
        /\ Following("decision") = Reads[3 + 1] /\ Following("bindings") = Reads[4 + 1]
    BY <2>3, <2>5
  <2> QED
    BY <1>3, <2>3, <2>6 DEF FollowingTable
<1>4. CASE request.substitute /\ ~Comparing
  <2>1. Reads = <<"catalog", "decision", "bindings", "policies", "asking">>
    BY <1>4 DEF Reads
  <2>2. DOMAIN Reads = 1 .. 5
    BY <2>1
  <2>3. /\ Reads[1] = "catalog" /\ Reads[2] = "decision" /\ Reads[3] = "bindings"
        /\ Reads[4] = "policies" /\ Reads[5] = "asking"
    BY <2>1
  <2>4. \A i, j \in 1 .. 5 : Reads[i] = Reads[j] => i = j
    BY <2>3
  <2>5. \A k \in 1 .. 5 : Following(Reads[k]) = Reads[k + 1]
    BY <1>1, <2>2, <2>4 DEF Following
  <2>6. /\ Following("catalog") = Reads[1 + 1] /\ Following("decision") = Reads[2 + 1]
        /\ Following("bindings") = Reads[3 + 1] /\ Following("policies") = Reads[4 + 1]
    BY <2>3, <2>5
  <2> QED
    BY <1>4, <2>3, <2>6 DEF FollowingTable
<1> QED
  BY <1>2, <1>3, <1>4

----------------------------------------------------------------------------
(* Types *)

TypeInv == TypeOK /\ Holds /\ Quoted

(* An option names a warehouse and what the operator prefers there.        *)
LEMMA OptionType ==
    ASSUME NEW s \in Options, NEW i \in DOMAIN s
    PROVE  s[i].warehouse \in Warehouse /\ s[i].preferred \in Preferences
<1> DEFINE O == [warehouse : Warehouse, preferred : Preferences]
<1>1. s \in Seq(O)
  BY DEF Options
<1>2. s[i] \in O
  <2> HIDE DEF O
  <2> QED
    BY <1>1
<1> QED
  BY <1>2

(* TypeInv holds at first, and each kind of step preserves it.             *)
LEMMA TypeInvInit ==
    ASSUME Init
    PROVE  TypeInv
<1>1. /\ ~HasRead("catalog") /\ ~HasRead("decision")
      /\ ~HasRead("policies") /\ ~HasRead("bindings")
  BY ReadTableHolds DEF ReadTable, Init, Listed
<1>2. TypeOK
  <2>1. MaxChanges \in Nat /\ 0 \in 0 .. MaxChanges
    BY ChangesAssumption
  <2>2. DOMAIN answers = {} /\ DOMAIN jobs = {} /\ DOMAIN arrived = {}
    BY DEF Init
  <2>3. {arrived[i] : i \in DOMAIN arrived} = DOMAIN answers
    BY <2>2
  <2>4. /\ None \in {None, "bought", "queued", "failed", "skipped", "refused"}
        /\ outcome # "bought"
    BY NoneAssumption DEF Init
  <2> QED
    BY <1>1, <2>1, <2>2, <2>3, <2>4 DEF Init, TypeOK, Labels
<1>3. Holds
  <2>1. options \in Options /\ arrived \in Seq(Warehouse)
    BY DEF Init, Options
  <2>2. DOMAIN answers = {} /\ DOMAIN jobs = {} /\ DOMAIN arrived = {}
    BY DEF Init
  <2> QED
    BY <1>1, <2>1, <2>2 DEF Init, Holds
<1> QED
  BY <1>2, <1>3 DEF Init, TypeInv, Quoted

LEMMA TypeInvChange ==
    ASSUME TypeInv, Change
    PROVE  TypeInv'
<1>1. /\ UNCHANGED <<pc, request, excluded, quoting, quote, unchecked, reservation, outcome>>
      /\ changes' \in 0 .. MaxChanges /\ world' \in Worlds /\ seen' = seen \cup {world'}
  BY ChangesAssumption DEF Change, TypeInv, TypeOK
<1>2. /\ HasRead("catalog")' = HasRead("catalog") /\ HasRead("decision")' = HasRead("decision")
      /\ HasRead("policies")' = HasRead("policies") /\ HasRead("bindings")' = HasRead("bindings")
  BY <1>1 DEF HasRead, Listed, Reads, Comparing
<1>3. TypeOK'
  BY <1>1, <1>2 DEF TypeInv, TypeOK, Bought
<1>4. Holds'
  BY <1>1, <1>2 DEF TypeInv, Holds, Sku
<1>5. Quoted'
  BY <1>1 DEF TypeInv, Quoted
<1> QED
  BY <1>3, <1>4, <1>5 DEF TypeInv

LEMMA TypeInvEnded ==
    ASSUME TypeInv, Ended
    PROVE  TypeInv'
<1>1. /\ UNCHANGED <<world, changes, request, excluded>>
      /\ combination' = None /\ decision' = None /\ policies' = None
      /\ jobs' = << >> /\ answers' = << >> /\ arrived' = << >> /\ unchecked' = {}
      /\ pc' \in {"option", "done"}
      /\ UNCHANGED <<quote, seen>> \/ (quote' = NoQuote /\ seen' = {})
  BY DEF Ended, Returned
<1>2. /\ ~HasRead("catalog")' /\ ~HasRead("decision")'
      /\ ~HasRead("policies")' /\ ~HasRead("bindings")'
  BY <1>1, ReadTableNext DEF ReadTable, Listed
<1>3. options' \in Options /\ (options' # << >> => request.substitute)
  <2>1. options \in Options
    BY DEF TypeInv, Holds, Options
  <2>2. CASE options' = << >>
    BY <2>2 DEF Options
  <2>3. CASE Len(options) > 1 /\ options' = Tail(options)
    <3>1. options # << >>
      BY <2>1, <2>3
    <3>2. options' \in Options
      BY <2>1, <2>3, <3>1 DEF Options
    <3> QED
      BY <3>1, <3>2 DEF TypeInv, TypeOK
  <2> QED
    BY <2>2, <2>3 DEF Ended
<1>4. options' # << >> => options'[1].warehouse \in Warehouse
  <2> SUFFICES ASSUME options' # << >> PROVE options'[1].warehouse \in Warehouse
    OBVIOUS
  <2>1. 1 \in DOMAIN options'
    BY <1>3 DEF Options
  <2> QED
    BY <1>3, <2>1, OptionType
<1>5. /\ outcome' \in {None, "bought", "queued", "failed", "skipped", "refused"}
      /\ pc' = "done" <=> outcome' # None
      /\ outcome' = "bought" => quote' # NoQuote
  <2>1. CASE pc' = "option" /\ UNCHANGED outcome
    BY <2>1, NoneAssumption DEF TypeInv, TypeOK, Ended
  <2>2. CASE pc' = "done" /\ outcome' \in {"queued", "failed", "skipped", "refused"}
    BY <2>2, NoneAssumption
  <2> QED
    BY <2>1, <2>2 DEF Ended
<1>6. TypeOK'
  BY <1>1, <1>2, <1>3, <1>4, <1>5 DEF TypeInv, TypeOK, Labels
<1>7. Holds'
  BY <1>1, <1>2, <1>3 DEF TypeInv, Holds, Options
<1>8. Quoted'
  BY <1>1 DEF TypeInv, Quoted
<1> QED
  BY <1>6, <1>7, <1>8 DEF TypeInv

(* While the answers are needed, they are those of the warehouses that     *)
(* were asked.                                                             *)
LEMMA AnswersAreIn ==
    ASSUME TypeInv, pc \in {"asking", "quoted"} \/ Listed
    PROVE  Answered /\ Arrival(arrived)
<1>1. HasRead("policies")
  BY ReadTableHolds DEF ReadTable
<1>2. policies # None
  BY <1>1 DEF TypeInv, TypeOK
<1>3. IsFiniteSet(DOMAIN answers)
  <2>1. IsFiniteSet(DOMAIN arrived)
    <3>1. DOMAIN arrived = 1 .. Len(arrived) /\ Len(arrived) \in Nat
      BY DEF TypeInv, Holds
    <3> QED
      BY <3>1, FS_Interval
  <2>2. IsFiniteSet({arrived[i] : i \in DOMAIN arrived})
    BY <2>1, ImageIsFinite
  <2> QED
    BY <2>2 DEF TypeInv, TypeOK
<1>4. Answered
  BY <1>2, <1>3 DEF TypeInv, TypeOK, Holds, Answered
<1>5. Arrival(arrived)
  BY DEF TypeInv, TypeOK, Holds, Arrival
<1> QED
  BY <1>4, <1>5

(* What the choice is made from is what CarrierChoiceProofs assumes of     *)
(* its items.                                                              *)
LEMMA CandidatesAreItems ==
    ASSUME Answered, NEW order, Arrival(order)
    PROVE  Candidates(order) = << >> \/ IsItems(Candidates(order), Choosable)
BY CandidatesSorted DEF IsItems

(* The choice is one of the candidates: of a warehouse that was asked, and *)
(* eligible.                                                               *)
LEMMA ChosenIsChoosable ==
    ASSUME Answered, NEW order, Arrival(order), NEW preferred,
           SelectAutomaticChannel(Candidates(order), preferred) # NoChoice
    PROVE  LET choice == SelectAutomaticChannel(Candidates(order), preferred)
           IN  /\ choice \in Choosable
               /\ choice.warehouse \in DOMAIN answers
               /\ Eligible(choice.channel, choice.warehouse)
               /\ choice = Candidate(choice.warehouse, choice.channel)
<1> DEFINE choice == SelectAutomaticChannel(Candidates(order), preferred)
<1>1. PICK m \in DOMAIN Candidates(order) : choice = Candidates(order)[m]
  BY CandidatesAreItems, SelectedIsItem
<1> HIDE DEF choice
<1>2. choice \in Choosable
  BY <1>1, CandidatesSorted
<1>3. PICK x \in Offered : choice = x[2]
  BY <1>2 DEF Choosable
<1>4. /\ choice.warehouse \in DOMAIN answers
      /\ Eligible(choice.channel, choice.warehouse)
      /\ choice = Candidate(choice.warehouse, answers[choice.warehouse][x[1]])
  BY <1>3, OfferedType
<1>5. \A key, channel : Candidate(key, channel).channel = channel
  BY DEF Candidate
<1>6. choice = Candidate(choice.warehouse, choice.channel)
  BY <1>4, <1>5
<1> QED
  BY <1>2, <1>4, <1>6 DEF choice

(* A read leaves no quote behind.                                          *)
LEMMA ReadingForgets ==
    ASSUME TypeInv, Reading
    PROVE  /\ UNCHANGED <<world, changes, request, excluded, reservation>>
           /\ seen' \in {seen, {}} /\ quote' = NoQuote
           /\ unchecked' = {} /\ outcome' = None /\ outcome = None
           /\ pc \notin Purchasing \cup {"quoted", "done"}
<1>1. /\ UNCHANGED <<world, changes, request, excluded, reservation, unchecked, outcome>>
      /\ pc \in {"idle", "option", "catalog", "decision", "policies", "bindings", "asking"}
      /\ \/ seen' = {} /\ quote' = NoQuote
         \/ UNCHANGED <<seen, quote>> /\ pc # "option"
  <2>1. CASE Began
    BY <2>1 DEF Began
  <2>2. CASE Took
    BY <2>2 DEF Took
  <2>3. CASE Cataloged
    BY <2>3 DEF Cataloged
  <2>4. CASE Queried
    BY <2>4 DEF Queried
  <2>5. CASE ReadPolicies
    BY <2>5 DEF ReadPolicies
  <2>6. CASE Asked
    BY <2>6 DEF Asked
  <2>7. CASE \E key \in Warehouse : Answer(key)
    BY <2>7 DEF Answer
  <2>8. CASE OptionsListed
    BY <2>8 DEF OptionsListed
  <2> QED
    BY <2>1, <2>2, <2>3, <2>4, <2>5, <2>6, <2>7, <2>8, Zenon DEF Reading
<1>2. pc \notin Purchasing \cup {"quoted", "done"}
  BY <1>1 DEF Purchasing
<1>3. quote' = NoQuote
  BY <1>1, <1>2 DEF TypeInv, Quoted
<1>4. unchecked = {} /\ outcome = None
  BY <1>1 DEF TypeInv, TypeOK, Holds
<1> QED
  BY <1>1, <1>2, <1>3, <1>4

(* What remains to be shown of a read.                                     *)
LEMMA ReadingIsTyped ==
    ASSUME TypeInv, Reading, pc' \in Labels \ (Purchasing \cup {"quoted", "done"}),
           (combination' # None) <=> (request.substitute /\ HasRead("catalog")'),
           (decision' # None) <=> HasRead("decision")',
           (policies' # None) <=> HasRead("policies")',
           policies' # None => \E w \in Worlds, sku \in Sku : policies' = w.policy[sku],
           DOMAIN answers' \subseteq DOMAIN jobs', DOMAIN jobs' \subseteq Warehouse,
           DOMAIN jobs' \cap excluded = {},
           {arrived'[i] : i \in DOMAIN arrived'} = DOMAIN answers',
           arrived' \in Seq(Warehouse),
           \A i, j \in DOMAIN arrived' : arrived'[i] = arrived'[j] => i = j,
           \A key \in DOMAIN answers' : answers'[key] \in Offers,
           IF HasRead("bindings")' THEN DOMAIN jobs' # {}
           ELSE jobs' = << >> /\ answers' = << >> /\ arrived' = << >>,
           options' \in Options, options' # << >> => request.substitute,
           pc' = "catalog" => request.substitute
    PROVE  TypeInv'
<1>1. /\ UNCHANGED <<world, changes, request, excluded, reservation>>
      /\ seen' \in {seen, {}} /\ quote' = NoQuote
      /\ unchecked' = {} /\ outcome' = None
  BY ReadingForgets
<1>2. options' # << >> => options'[1].warehouse \in Warehouse
  <2> SUFFICES ASSUME options' # << >> PROVE options'[1].warehouse \in Warehouse
    OBVIOUS
  <2>1. 1 \in DOMAIN options'
    BY DEF Options
  <2> QED
    BY <2>1, OptionType
<1>3. TypeOK'
  <2>1. /\ pc' \in Labels
        /\ pc' \notin {"done", "quoted", "restrictions", "recipe", "spare",
                       "pairing", "mapping", "binding", "carrier", "stock",
                       "reserve", "record"}
    BY DEF Purchasing
  <2> QED
    BY <1>1, <1>2, <2>1, NoneAssumption DEF TypeInv, TypeOK
<1>4. Holds'
  BY <1>1 DEF TypeInv, Holds, Sku
<1>5. Quoted'
  BY <1>1 DEF Quoted
<1> QED
  BY <1>3, <1>4, <1>5 DEF TypeInv

(* Before anything is read, the handlers hold nothing.                     *)
LEMMA NothingRead ==
    ASSUME TypeInv, pc \in {"idle", "option"}, ~Listed
    PROVE  /\ combination = None /\ decision = None /\ policies = None
           /\ jobs = << >> /\ answers = << >> /\ arrived = << >>
BY ReadTableHolds DEF ReadTable, TypeInv, TypeOK, Holds

(* A state before the first read of the next option, or of the request.    *)
LEMMA UnreadIsTyped ==
    ASSUME TypeInv, Reading,
           pc' \in {"option", "catalog", "decision"},
           pc' = "decision" => ~request.substitute,
           pc' = "catalog" => request.substitute,
           combination' = None, decision' = None, policies' = None,
           jobs' = << >>, answers' = << >>, arrived' = << >>,
           options' \in Options, options' # << >> => request.substitute
    PROVE  TypeInv'
<1>1. UNCHANGED request
  BY ReadingForgets
<1>2. /\ ~HasRead("catalog")' /\ ~HasRead("decision")'
      /\ ~HasRead("policies")' /\ ~HasRead("bindings")'
  BY <1>1, ReadTableNext DEF ReadTable, Listed, Comparing
<1>3. pc' \in Labels \ (Purchasing \cup {"quoted", "done"})
  BY DEF Labels, Purchasing
<1>4. DOMAIN jobs' = {} /\ DOMAIN answers' = {} /\ DOMAIN arrived' = {}
  OBVIOUS
<1>5. arrived' \in Seq(Warehouse) /\ {arrived'[i] : i \in DOMAIN arrived'} = DOMAIN answers'
  BY <1>4
<1> QED
  BY <1>2, <1>3, <1>4, <1>5, ReadingIsTyped

LEMMA TypeInvBegan ==
    ASSUME TypeInv, Began
    PROVE  TypeInv'
<1>1. /\ combination = None /\ decision = None /\ policies = None
      /\ jobs = << >> /\ answers = << >> /\ arrived = << >>
  BY NothingRead DEF Began, Listed
<1>2. options' \in Options /\ (options' # << >> => request.substitute)
  <2>1. CASE UNCHANGED options
    BY <2>1 DEF TypeInv, TypeOK, Holds
  <2>2. CASE /\ request.substitute /\ ~request.worker /\ options' = AskedFor
    <3>1. request.warehouse \in Warehouse /\ request.preferred \in Preferences
      BY <2>2, RequestAssumption DEF TypeInv, TypeOK, Preferences
    <3>2. AskedFor \in Options
      BY <3>1 DEF AskedFor, Options
    <3> QED
      BY <2>2, <3>2
  <2> QED
    BY <2>1, <2>2 DEF Began
<1>3. /\ pc' \in {"option", "catalog", "decision"}
      /\ pc' = "decision" => ~request.substitute
      /\ pc' = "catalog" => request.substitute
  BY FollowingTableHolds DEF FollowingTable, Began
<1> QED
  BY <1>1, <1>2, <1>3, UnreadIsTyped DEF Began, Reading

LEMMA TypeInvTook ==
    ASSUME TypeInv, Took
    PROVE  TypeInv'
<1>1. /\ pc' \in {"option", "catalog", "decision"}
      /\ pc' = "decision" => ~request.substitute
      /\ pc' = "catalog" => request.substitute
  BY FollowingTableHolds DEF FollowingTable, Took
<1>2. options' \in Options /\ (options' # << >> => request.substitute)
  BY DEF Took, TypeInv, TypeOK, Holds
<1> QED
  BY <1>1, <1>2, UnreadIsTyped DEF Took, Returned, Reading

LEMMA TypeInvCataloged ==
    ASSUME TypeInv, Cataloged
    PROVE  TypeInv'
<1>1. /\ pc = "catalog" /\ combination' # None /\ request.substitute
      /\ UNCHANGED <<request, options, decision, policies, jobs, answers, arrived>>
  BY DEF Cataloged, TypeInv, Holds
<1>2. pc' = IF Comparing THEN "policies" ELSE "decision"
  BY <1>1, FollowingTableHolds DEF FollowingTable, Cataloged
<1>3. Comparing' = Comparing
  BY <1>1 DEF Comparing
<1>4. /\ HasRead("catalog")' /\ ~HasRead("decision")'
      /\ ~HasRead("policies")' /\ ~HasRead("bindings")'
  BY <1>1, <1>2, <1>3, ReadTableNext DEF ReadTable, Listed
<1>5. /\ ~HasRead("decision") /\ ~HasRead("policies") /\ ~HasRead("bindings")
  BY <1>1, ReadTableHolds DEF ReadTable, Listed
<1>6. pc' \in Labels \ (Purchasing \cup {"quoted", "done"}) /\ pc' # "catalog"
  BY <1>2 DEF Labels, Purchasing
<1> QED
  BY <1>1, <1>4, <1>5, <1>6, ReadingIsTyped DEF TypeInv, TypeOK, Holds, Reading

LEMMA TypeInvQueried ==
    ASSUME TypeInv, Queried
    PROVE  TypeInv'
<1>1. /\ pc = "decision" /\ decision' = Stock /\ pc' = Following("decision")
      /\ UNCHANGED <<request, options, combination, policies, jobs, answers, arrived>>
  BY DEF Queried
<1>2. pc' = IF request.substitute THEN "bindings" ELSE "policies"
  BY <1>1, FollowingTableHolds DEF FollowingTable
<1>3. Comparing' = Comparing /\ (Comparing => request.substitute)
  BY <1>1 DEF Comparing
<1>4. /\ (HasRead("catalog")' <=> HasRead("catalog")) /\ HasRead("decision")'
      /\ (HasRead("policies")' <=> HasRead("policies")) /\ ~HasRead("bindings")'
      /\ ~HasRead("bindings")
  BY <1>1, <1>2, <1>3, ReadTableNext, ReadTableHolds DEF ReadTable, Listed
<1>5. decision' # None
  BY <1>1, NoneAssumption DEF Stock, TypeInv, TypeOK
<1>6. pc' \in Labels \ (Purchasing \cup {"quoted", "done"}) /\ pc' # "catalog"
  BY <1>2 DEF Labels, Purchasing
<1> QED
  BY <1>1, <1>4, <1>5, <1>6, ReadingIsTyped DEF TypeInv, TypeOK, Holds, Reading

LEMMA TypeInvReadPolicies ==
    ASSUME TypeInv, ReadPolicies
    PROVE  TypeInv'
<1>1. /\ pc = "policies" /\ pc' = Following("policies")
      /\ \E sku \in Sku : policies' = world.policy[sku]
      /\ UNCHANGED <<request, options, combination, decision, jobs, answers, arrived>>
  BY DEF ReadPolicies
<1>2. pc' = IF ~request.substitute THEN "bindings"
            ELSE IF Comparing THEN "decision" ELSE "asking"
  BY <1>1, FollowingTableHolds DEF FollowingTable
<1>3. Comparing' = Comparing /\ (Comparing => request.substitute)
  BY <1>1 DEF Comparing
<1>4. /\ (HasRead("catalog")' <=> HasRead("catalog")) /\ (HasRead("decision")' <=> HasRead("decision"))
      /\ HasRead("policies")' /\ (HasRead("bindings")' <=> HasRead("bindings"))
  BY <1>1, <1>2, <1>3, ReadTableNext, ReadTableHolds DEF ReadTable, Listed
<1>5. policies' # None /\ \E w \in Worlds, sku \in Sku : policies' = w.policy[sku]
  BY <1>1, NoneAssumption DEF Sku, TypeInv, TypeOK
<1>6. pc' \in Labels \ (Purchasing \cup {"quoted", "done"}) /\ pc' # "catalog"
  BY <1>2 DEF Labels, Purchasing
<1> QED
  BY <1>1, <1>4, <1>5, <1>6, ReadingIsTyped DEF TypeInv, TypeOK, Holds, Reading

(* Only warehouses that may be asked are.                                  *)
LEMMA AskedMayBe ==
    ASSUME TypeInv, NEW key \in QuoteWarehouses(decision), Quotable(key)
    PROVE  key \in Warehouse \ excluded
<1>1. key \in Warehouse
  BY WorldAssumption DEF Quotable, Mapped, TypeInv, TypeOK
<1>2. key \notin excluded
  <2>1. CASE options # << >>
    BY <2>1 DEF TypeInv, TypeOK, Holds
  <2>2. CASE options = << >>
    BY <2>2 DEF QuoteWarehouses
  <2> QED
    BY <2>1, <2>2
<1> QED
  BY <1>1, <1>2

LEMMA TypeInvAsked ==
    ASSUME TypeInv, Asked
    PROVE  TypeInv'
<1> DEFINE asked == {key \in QuoteWarehouses(decision) : Quotable(key)}
<1>1. /\ pc = "bindings" /\ pc' = Following("bindings") /\ DOMAIN jobs' = asked
      /\ asked # {}
      /\ UNCHANGED <<request, options, combination, decision, policies, answers, arrived>>
  BY DEF Asked
<1>2. pc' = IF request.substitute /\ ~Comparing THEN "policies" ELSE "asking"
  BY <1>1, FollowingTableHolds DEF FollowingTable
<1>3. Comparing' = Comparing /\ (Comparing => request.substitute)
  BY <1>1 DEF Comparing
<1>4. /\ (HasRead("catalog")' <=> HasRead("catalog")) /\ (HasRead("decision")' <=> HasRead("decision"))
      /\ (HasRead("policies")' <=> HasRead("policies")) /\ HasRead("bindings")'
      /\ ~HasRead("bindings")
  BY <1>1, <1>2, <1>3, ReadTableNext, ReadTableHolds DEF ReadTable, Listed
<1>5. asked \subseteq Warehouse \ excluded
  BY AskedMayBe
<1> HIDE DEF asked
<1>6. pc' \in Labels \ (Purchasing \cup {"quoted", "done"}) /\ pc' # "catalog"
  BY <1>2 DEF Labels, Purchasing
<1>7. answers = << >> /\ arrived = << >> /\ DOMAIN answers = {} /\ DOMAIN arrived = {}
  BY <1>4 DEF TypeInv, Holds
<1>8. DOMAIN answers' \subseteq DOMAIN jobs' /\ DOMAIN jobs' \subseteq Warehouse
      /\ DOMAIN jobs' \cap excluded = {} /\ DOMAIN jobs' # {}
  BY <1>1, <1>5, <1>7
<1> QED
  BY <1>1, <1>4, <1>6, <1>8, ReadingIsTyped DEF TypeInv, TypeOK, Holds, Reading

LEMMA TypeInvAnswer ==
    ASSUME TypeInv, NEW key \in Warehouse, Answer(key)
    PROVE  TypeInv'
<1>1. /\ pc = "asking" /\ pc' = "asking" /\ key \in DOMAIN jobs \ DOMAIN answers
      /\ UNCHANGED <<request, options, combination, decision, policies, jobs>>
      /\ arrived' = Append(arrived, key)
  BY DEF Answer
<1>2. PICK offer \in Offers :
         answers' = [k \in DOMAIN answers \cup {key} |-> IF k = key THEN offer ELSE answers[k]]
  BY DEF Answer
<1>3. Comparing' = Comparing
  BY <1>1 DEF Comparing
<1>4. /\ (HasRead("catalog")' <=> HasRead("catalog")) /\ (HasRead("decision")' <=> HasRead("decision"))
      /\ (HasRead("policies")' <=> HasRead("policies")) /\ HasRead("bindings")'
      /\ HasRead("bindings")
  BY <1>1, <1>3, ReadTableNext, ReadTableHolds DEF ReadTable, Listed
<1>5. /\ arrived \in Seq(Warehouse) /\ {arrived[i] : i \in DOMAIN arrived} = DOMAIN answers
      /\ \A i, j \in DOMAIN arrived : arrived[i] = arrived[j] => i = j
      /\ \A k \in DOMAIN answers : answers[k] \in Offers
  BY DEF TypeInv, TypeOK, Holds
<1>6. /\ arrived' \in Seq(Warehouse) /\ DOMAIN arrived' = DOMAIN arrived \cup {Len(arrived) + 1}
      /\ Len(arrived) + 1 \notin DOMAIN arrived
      /\ \A i \in DOMAIN arrived : arrived'[i] = arrived[i]
      /\ arrived'[Len(arrived) + 1] = key
  BY <1>1, <1>5
<1>7. /\ {arrived'[i] : i \in DOMAIN arrived'} = DOMAIN answers'
      /\ \A k \in DOMAIN answers' : answers'[k] \in Offers
  BY <1>2, <1>5, <1>6
<1>8. \A i, j \in DOMAIN arrived' : arrived'[i] = arrived'[j] => i = j
  <2>1. \A i \in DOMAIN arrived : arrived[i] # key
    BY <1>1, <1>5
  <2> QED
    BY <1>5, <1>6, <2>1
<1>9. pc' \in Labels \ (Purchasing \cup {"quoted", "done"}) /\ pc' # "catalog"
  BY <1>1 DEF Labels, Purchasing
<1>10. DOMAIN answers' \subseteq DOMAIN jobs'
  BY <1>1, <1>2 DEF TypeInv, TypeOK
<1> QED
  BY <1>1, <1>4, <1>6, <1>7, <1>8, <1>9, <1>10, ReadingIsTyped
  DEF TypeInv, TypeOK, Holds, Reading

(* What is listed are candidates.                                          *)
LEMMA ListedAreChoosable ==
    ASSUME Answered, NEW order, Arrival(order), NEW choices, NEW listed,
           choices = BetterFirst(Candidates(order)),
           listed = PriceQuotes(choices, SelectAutomaticChannel(choices, 0)),
           listed # << >>
    PROVE  /\ IsItems(Candidates(order), Choosable) /\ IsItems(choices, Choosable)
           /\ listed \in Seq(Choosable)
<1>1. choices # << >> =>
         IsItems(Candidates(order), Choosable) /\ IsItems(choices, Choosable)
  BY CandidatesAreItems, ChoicesAreItems
<1>2. choices # << >>
  <2> SUFFICES ASSUME choices = << >> PROVE FALSE
    OBVIOUS
  <2>1. SelectAutomaticChannel(choices, 0) = NoChoice
    BY DEF SelectAutomaticChannel
  <2>2. PriceQuotes(choices, SelectAutomaticChannel(choices, 0)) = choices
    BY <2>1 DEF PriceQuotes
  <2> QED
    BY <2>2
<1> DEFINE best == SelectAutomaticChannel(choices, 0)
<1>3. best = NoChoice \/ best \in RangeOf(choices)
  BY <1>1, <1>2, SelectedIsItem DEF RangeOf
<1> HIDE DEF best
<1>4. PriceQuotes(choices, best) \in Seq(Choosable)
  BY <1>1, <1>2, <1>3, PriceQuotesAreChoices
<1> QED
  BY <1>1, <1>2, <1>4 DEF best

(* The list of options that is kept of the ranked candidates.              *)
LEMMA AsOptionsType ==
    ASSUME Answered, DOMAIN answers \subseteq Warehouse, NEW listed \in Seq(Choosable)
    PROVE  AsOptions(listed) \in Options
<1> DEFINE O == [warehouse : Warehouse, preferred : Preferences]
<1>1. \A x \in Choosable : x.warehouse \in Warehouse /\ x.channel.id \in Preferences
  <2> SUFFICES ASSUME NEW x \in Choosable
               PROVE  x.warehouse \in Warehouse /\ x.channel.id \in Preferences
    OBVIOUS
  <2>1. PICK y \in Offered : x = y[2]
    BY DEF Choosable
  <2>2. x.warehouse \in DOMAIN answers /\ IsCandidate(x)
    BY <2>1, OfferedType
  <2> QED
    BY <2>2 DEF IsCandidate, Preferences
<1>2. DOMAIN listed = 1 .. Len(listed) /\ Len(listed) \in Nat
  OBVIOUS
<1>3. \A i \in 1 .. Len(listed) : listed[i] \in Choosable
  OBVIOUS
<1>4. \A i \in 1 .. Len(listed) :
         [warehouse |-> listed[i].warehouse, preferred |-> listed[i].channel.id] \in O
  BY <1>1, <1>3
<1>5. AsOptions(listed) \in [1 .. Len(listed) -> O]
  <2> HIDE DEF O
  <2> QED
    BY <1>2, <1>4 DEF AsOptions
<1> HIDE DEF O
<1>6. AsOptions(listed) \in Seq(O)
  BY <1>2, <1>5, SeqDef
<1> QED
  BY <1>6 DEF Options, O

LEMMA TypeInvOptionsListed ==
    ASSUME TypeInv, OptionsListed
    PROVE  TypeInv'
<1> DEFINE choices == BetterFirst(Candidates(arrived))
           listed == PriceQuotes(choices, SelectAutomaticChannel(choices, 0))
<1>1. /\ pc = "asking" /\ pc' = "option" /\ Comparing
      /\ UNCHANGED <<request, combination, decision, policies, jobs, answers, arrived>>
  BY DEF OptionsListed
<1>2. listed # << >> /\ options' = AsOptions(listed)
  BY DEF OptionsListed
<1>3. Answered /\ Arrival(arrived)
  BY <1>1, AnswersAreIn
<1>4. DOMAIN answers \subseteq Warehouse
  BY DEF TypeInv, TypeOK
<1>5. options' \in Options
  <2>1. listed \in Seq(Choosable)
    BY <1>2, <1>3, ListedAreChoosable
  <2> HIDE DEF listed
  <2> QED
    BY <1>2, <1>3, <1>4, <2>1, AsOptionsType
<1> HIDE DEF listed
<1>6. /\ HasRead("catalog") /\ HasRead("decision")
      /\ HasRead("policies") /\ HasRead("bindings") /\ request.substitute
  BY <1>1, ReadTableHolds DEF ReadTable, Comparing
<1>7. jobs # << >>
  BY <1>6 DEF TypeInv, Holds
<1>8. /\ HasRead("catalog")' /\ HasRead("decision")'
      /\ HasRead("policies")' /\ HasRead("bindings")'
  BY <1>1, <1>7, ReadTableNext DEF ReadTable, Listed
<1>9. pc' \in Labels \ (Purchasing \cup {"quoted", "done"}) /\ pc' # "catalog"
  BY <1>1 DEF Labels, Purchasing
<1> QED
  BY <1>1, <1>5, <1>6, <1>8, <1>9, ReadingIsTyped DEF TypeInv, TypeOK, Holds, Reading

LEMMA TypeInvReading ==
    ASSUME TypeInv, Reading
    PROVE  TypeInv'
BY TypeInvBegan, TypeInvTook, TypeInvCataloged, TypeInvQueried, TypeInvReadPolicies,
   TypeInvAsked, TypeInvAnswer, TypeInvOptionsListed DEF Reading

LEMMA TypeInvChosen ==
    ASSUME TypeInv, Chosen
    PROVE  TypeInv'
<1> DEFINE choice == SelectAutomaticChannel(Candidates(arrived), Wanted)
<1>1. /\ pc = "asking" /\ pc' = "quoted" /\ seen' = {world}
      /\ UNCHANGED <<world, changes, request, excluded, options, combination, decision,
                     policies, jobs, answers, arrived, unchecked, outcome>>
  BY DEF Chosen
<1>2. /\ choice # NoChoice
      /\ quote'.warehouse = choice.warehouse /\ quote'.channel = choice.channel
      /\ quote'.combination = combination
      /\ quote' # NoQuote
  BY DEF Chosen, NoQuote
<1>3. /\ choice.warehouse \in DOMAIN answers
      /\ Eligible(choice.channel, choice.warehouse)
  BY <1>1, <1>2, AnswersAreIn, ChosenIsChoosable
<1> HIDE DEF choice
<1>4. /\ quote'.warehouse \in Warehouse \ excluded
      /\ quote'.channel.carrier \notin request.failed
  BY <1>2, <1>3 DEF TypeInv, TypeOK, Holds, Eligible
<1>5. /\ HasRead("catalog") <=> request.substitute
      /\ HasRead("decision") /\ HasRead("policies") /\ HasRead("bindings")
  BY <1>1, ReadTableHolds DEF ReadTable, Listed
<1>6. /\ HasRead("catalog")' /\ HasRead("decision")'
      /\ HasRead("policies")' /\ HasRead("bindings")'
  BY <1>1, ReadTableNext DEF ReadTable
<1>7. (combination # None) <=> request.substitute
  BY <1>1, <1>5, ReadTableHolds DEF TypeInv, TypeOK, ReadTable, Listed
<1>8. unchecked' = {} /\ outcome' = None
  BY <1>1 DEF TypeInv, TypeOK, Holds
<1>9. TypeOK'
  <2>1. (decision # None) /\ (policies # None)
    BY <1>5 DEF TypeInv, TypeOK
  <2>2. world \in Worlds /\ seen' \subseteq Worlds
    BY <1>1 DEF TypeInv, TypeOK
  <2>3. pc' \in Labels /\ pc' # "done" /\ outcome' \notin {"bought"}
    BY <1>1, <1>8, NoneAssumption DEF Labels
  <2> QED
    BY <1>1, <1>2, <1>6, <1>7, <1>8, <2>1, <2>2, <2>3 DEF TypeInv, TypeOK
<1>10. Holds'
  BY <1>1, <1>5, <1>6, <1>8, ReadTableHolds DEF TypeInv, TypeOK, Holds, Sku, ReadTable
<1>11. Quoted'
  BY <1>1, <1>2, <1>4, <1>7, <1>8 DEF Quoted
<1> QED
  BY <1>9, <1>10, <1>11 DEF TypeInv

(* A purchase holds nothing of what the quote read.                        *)
LEMMA PurchaseHoldsNothing ==
    ASSUME TypeInv, pc \in Purchasing
    PROVE  /\ combination = None /\ decision = None /\ policies = None
           /\ jobs = << >> /\ answers = << >> /\ arrived = << >>
<1>1. /\ ~HasRead("catalog") /\ ~HasRead("decision")
      /\ ~HasRead("policies") /\ ~HasRead("bindings")
  BY ReadTableHolds DEF ReadTable, Listed, Purchasing
<1> QED
  BY <1>1 DEF TypeInv, TypeOK, Holds

(* What remains to be shown of a step of a purchase.                       *)
LEMMA PurchaseIsTyped ==
    ASSUME TypeInv, UNCHANGED <<remote, request>>, pc \in Purchasing \cup {"quoted"},
           pc' \in Purchasing \cup {"idle", "done"}, Returned,
           options' \in {options, << >>},
           unchecked' # {} => pc' = "carrier" /\ unchecked' \subseteq DOMAIN Bought,
           outcome' = IF pc' = "done" THEN "bought" ELSE None,
           IF pc' = "idle"
           THEN /\ quote' = NoQuote /\ excluded' \subseteq Warehouse
                /\ ~request.substitute
           ELSE UNCHANGED <<quote, excluded>>
    PROVE  TypeInv'
<1>1. /\ combination' = None /\ decision' = None /\ policies' = None
      /\ jobs' = << >> /\ answers' = << >> /\ arrived' = << >>
  BY DEF Returned
<1>2. /\ ~HasRead("catalog")' /\ ~HasRead("decision")'
      /\ ~HasRead("policies")' /\ ~HasRead("bindings")'
  BY ReadTableNext DEF ReadTable, Listed, Purchasing
<1>3. quote # NoQuote
  BY DEF TypeInv, TypeOK, Purchasing
<1>4. DOMAIN jobs' = {} /\ DOMAIN answers' = {} /\ DOMAIN arrived' = {}
  BY <1>1
<1>5. /\ options' \in Options
      /\ options' # << >> => request.substitute /\ options'[1].warehouse \in Warehouse
  <2>1. CASE options' = << >>
    BY <2>1 DEF Options
  <2>2. CASE options' = options
    BY <2>2 DEF TypeInv, TypeOK, Holds
  <2> QED
    BY <2>1, <2>2
<1>6. quote' # NoQuote => unchecked' \subseteq DOMAIN Bought'
  <2>1. pc' # "idle" => Bought' = Bought
    BY DEF Bought
  <2> QED
    BY <2>1
<1>7. pc' \in Labels
  BY DEF Labels, Purchasing
<1>8. TypeOK'
  <2>1. /\ world' \in Worlds /\ seen' \subseteq Worlds /\ changes' \in 0 .. MaxChanges
        /\ request' \in Requests /\ excluded' \subseteq Warehouse
    BY DEF TypeInv, TypeOK
  <2>2. /\ pc' # "idle" => quote' # NoQuote
        /\ outcome' \in {None, "bought"} /\ (outcome' = "bought" => quote' # NoQuote)
        /\ pc' = "done" <=> outcome' # None
    BY <1>3, NoneAssumption DEF Purchasing
  <2>3. {arrived'[i] : i \in DOMAIN arrived'} = DOMAIN answers'
    BY <1>4
  <2>4. pc' \in Labels
    BY <1>7
  <2>5. UNCHANGED request
    OBVIOUS
  <2> QED
    BY <1>1, <1>2, <1>4, <1>5, <1>6, <2>1, <2>2, <2>3, <2>4, <2>5 DEF TypeOK
<1>9. Holds'
  <2>1. request.substitute => excluded' = {}
    BY DEF TypeInv, Holds
  <2>2. pc' # "catalog"
    BY DEF Purchasing
  <2>3. arrived' \in Seq(Warehouse)
    BY <1>1
  <2> QED
    BY <1>1, <1>2, <1>4, <1>5, <2>1, <2>2, <2>3 DEF Holds
<1>10. Quoted'
  <2>1. pc' # "idle" => pc' \in Purchasing \cup {"quoted", "option", "done"}
    OBVIOUS
  <2> QED
    BY <1>3, <2>1 DEF TypeInv, Quoted
<1> QED
  BY <1>8, <1>9, <1>10 DEF TypeInv

LEMMA TypeInvPurchase ==
    ASSUME TypeInv, Purchase
    PROVE  TypeInv'
<1>1. pc \in Purchasing /\ UNCHANGED quoting => Returned
  BY PurchaseHoldsNothing DEF Returned
<1>2. CASE Started
  <2>1. outcome = None /\ unchecked = {}
    BY <1>2 DEF TypeInv, TypeOK, Holds, Started
  <2>2. pc' \in Purchasing /\ pc' # "done" /\ pc' # "idle" /\ unchecked' = {}
    BY <1>2, <2>1 DEF Started, Purchasing
  <2> QED
    BY <1>2, <2>1, <2>2, PurchaseIsTyped DEF Started
<1>3. ASSUME NEW at \in Purchasing, NEW next \in Purchasing, NEW ok,
             Checked(at, next, ok), at # "carrier"
      PROVE  TypeInv'
  <2>1. outcome = None /\ unchecked = {}
    BY <1>3 DEF TypeInv, TypeOK, Holds, Checked, Purchasing
  <2>2. /\ pc \in Purchasing /\ pc' \in Purchasing /\ pc' # "done" /\ pc' # "idle"
        /\ unchecked' # {} => pc' = "carrier" /\ unchecked' \subseteq DOMAIN Bought
    BY <1>3, <2>1 DEF Checked, Purchasing
  <2> QED
    BY <1>1, <1>3, <2>1, <2>2, PurchaseIsTyped DEF Checked
<1>4. CASE Checking
  <2>1. /\ "restrictions" \in Purchasing /\ "recipe" \in Purchasing
        /\ "spare" \in Purchasing /\ "pairing" \in Purchasing
        /\ "mapping" \in Purchasing /\ "binding" \in Purchasing
        /\ "carrier" \in Purchasing
    BY DEF Purchasing
  <2> QED
    BY <1>3, <1>4, <2>1 DEF Checking
<1>5. CASE CarrierChecked
  <2>1. outcome = None /\ unchecked \subseteq DOMAIN Bought
    BY <1>5 DEF TypeInv, TypeOK, CarrierChecked
  <2>2. pc = "carrier" /\ pc' = "carrier" /\ pc \in Purchasing
        /\ unchecked' \subseteq DOMAIN Bought
    BY <1>5, <2>1 DEF CarrierChecked, Purchasing
  <2> QED
    BY <1>1, <1>5, <2>1, <2>2, PurchaseIsTyped DEF CarrierChecked
<1>6. CASE Built \/ Refreshed \/ Reserved
  <2>1. /\ pc \in Purchasing /\ pc' \in Purchasing /\ pc' # "done" /\ pc' # "idle"
        /\ UNCHANGED <<remote, request, excluded, quoting, quote, unchecked, outcome>>
        /\ pc # "done" /\ unchecked = {}
    BY <1>6 DEF Built, Refreshed, Reserved, Purchasing, TypeInv, Holds
  <2>2. outcome = None
    BY <2>1 DEF TypeInv, TypeOK
  <2> QED
    BY <1>1, <2>1, <2>2, PurchaseIsTyped
<1>7. CASE Excluded
  <2>1. /\ pc \in Purchasing /\ pc # "done" /\ unchecked = {} /\ quote # NoQuote
    BY <1>7 DEF Excluded, Purchasing, TypeInv, TypeOK, Holds
  <2>2. outcome = None /\ excluded' \subseteq Warehouse
    BY <1>7, <2>1 DEF TypeInv, TypeOK, Quoted, Excluded
  <2> QED
    BY <1>1, <1>7, <2>1, <2>2, PurchaseIsTyped DEF Excluded
<1>8. CASE Recorded
  <2>1. pc \in Purchasing
    BY <1>8 DEF Recorded, Purchasing
  <2> QED
    BY <1>8, <2>1, PurchaseIsTyped DEF Recorded
<1> QED
  BY <1>2, <1>4, <1>5, <1>6, <1>7, <1>8 DEF Purchase

(* All the kinds together.                                                 *)
LEMMA TypeInvNext ==
    ASSUME TypeInv, [Next]_vars
    PROVE  TypeInv'
<1>1. CASE UNCHANGED vars
  <2>1. /\ HasRead("catalog")' = HasRead("catalog") /\ HasRead("decision")' = HasRead("decision")
        /\ HasRead("policies")' = HasRead("policies") /\ HasRead("bindings")' = HasRead("bindings")
    BY <1>1 DEF HasRead, Listed, Reads, Comparing
  <2>2. TypeOK'
    BY <1>1, <2>1 DEF TypeInv, TypeOK, Bought
  <2>3. Holds'
    BY <1>1, <2>1 DEF TypeInv, Holds, Sku
  <2>4. Quoted'
    BY <1>1 DEF TypeInv, Quoted
  <2> QED
    BY <2>2, <2>3, <2>4 DEF TypeInv
<1> QED
  BY <1>1, StepCases, TypeInvChange, TypeInvEnded, TypeInvReading, TypeInvChosen,
     TypeInvPurchase

(* The handlers hold what they need, as long as they need it, and nothing  *)
(* else.                                                                   *)
THEOREM QuotingTypes == Spec => []TypeInv
<1>1. Init => TypeInv
  BY TypeInvInit
<1>2. TypeInv /\ [Next]_vars => TypeInv'
  BY TypeInvNext
<1> QED
  BY <1>1, <1>2, PTL DEF Spec

(* Handlers hold each of what they read exactly as long as they need it,   *)
(* and quote, options and outcome fit together, for any data.              *)
THEOREM QuotingTypeOK == Spec => []TypeOK
BY QuotingTypes, PTL DEF TypeInv

----------------------------------------------------------------------------
(* What is bought was allowed *)

(* More worlds seen allow no less.                                         *)
LEMMA SeenAllows ==
    ASSUME UNCHANGED <<request, quote>>, seen \subseteq seen'
    PROVE  /\ Bought' = Bought
           /\ WasUnrestricted => WasUnrestricted'
           /\ WasInStock => WasInStock'
           /\ WasRecipe => WasRecipe'
           /\ WasSpare => WasSpare'
           /\ WasPaired => WasPaired'
           /\ WasBound => WasBound'
           /\ \A sku : CarrierWasAllowed(sku) => CarrierWasAllowed(sku)'
<1>1. Bought' = Bought
  BY DEF Bought
<1>2. WasUnrestricted => WasUnrestricted'
  BY DEF WasUnrestricted, Sku
<1>3. WasInStock => WasInStock'
  BY <1>1 DEF WasInStock
<1>4. (WasRecipe => WasRecipe') /\ (WasPaired => WasPaired')
  BY DEF WasRecipe, WasPaired
<1>5. WasSpare => WasSpare'
  BY <1>1 DEF WasSpare
<1>6. WasBound => WasBound'
  BY DEF WasBound
<1>7. \A sku : CarrierWasAllowed(sku) => CarrierWasAllowed(sku)'
  BY DEF CarrierWasAllowed
<1> QED
  BY <1>1, <1>2, <1>3, <1>4, <1>5, <1>6, <1>7

(* What a check found in this world was so in a world that was seen.       *)
LEMMA CheckedWasAllowed ==
    ASSUME world \in seen
    PROVE  /\ (\A sku \in Sku : <<sku, quote.warehouse>> \notin world.disabled)
                => WasUnrestricted
           /\ world.combination = quote.combination => WasRecipe
           /\ SpareStands => WasSpare
           /\ quote.account \in world.paired => WasPaired
           /\ BindingStands => WasBound
           /\ \A sku : CarrierStands(world.policy[sku]) => CarrierWasAllowed(sku)
           /\ ~request.substitute /\ Covers => WasInStock
<1>1. ~request.substitute /\ Covers => WasInStock
  BY DEF Covers, Stock, WasInStock, Selectable, DecisionWarehouses, InRegion
<1>2. BindingStands => WasBound
  BY DEF BindingStands, WasBound
<1>3. \A sku : CarrierStands(world.policy[sku]) => CarrierWasAllowed(sku)
  BY DEF CarrierStands, CarrierWasAllowed
<1> QED
  BY <1>1, <1>2, <1>3 DEF WasUnrestricted, WasRecipe, WasSpare, SpareStands, WasPaired

(* Each check that is passed is remembered, in the world in which it was   *)
(* made.                                                                   *)
LEMMA PassedPurchase ==
    ASSUME TypeInv, Passed, Purchase
    PROVE  Passed'
<1>1. UNCHANGED request /\ pc # "done" /\ outcome = None
  <2>1. UNCHANGED request /\ pc \in Purchasing \cup {"quoted"}
    BY DEF Purchase, Started, Checking, Checked, CarrierChecked, Built, Refreshed,
           Reserved, Excluded, Recorded, Purchasing
  <2> QED
    BY <2>1 DEF TypeInv, TypeOK, Purchasing
<1> SUFFICES ASSUME quote' # NoQuote PROVE Passed'
  BY DEF Passed
<1>2. /\ UNCHANGED <<remote, request, quote>> /\ quote # NoQuote /\ ~Excluded
      /\ world \in seen
  BY DEF Purchase, Started, Checking, Checked, CarrierChecked, Built, Refreshed,
         Reserved, Excluded, Recorded, TypeInv, Quoted
<1>3. /\ Bought' = Bought
      /\ WasUnrestricted => WasUnrestricted'
      /\ WasInStock => WasInStock'
      /\ WasRecipe => WasRecipe'
      /\ WasSpare => WasSpare'
      /\ WasPaired => WasPaired'
      /\ WasBound => WasBound'
      /\ \A sku : CarrierWasAllowed(sku) => CarrierWasAllowed(sku)'
  BY <1>2, SeenAllows
<1>4. Granted' = Granted
  BY <1>2, <1>3 DEF Granted
<1>5. None # "bought"
  BY NoneAssumption
<1>6. CASE Started
  BY <1>1, <1>2, <1>3, <1>5, <1>6 DEF Started, Passed, From, Purchasing
<1>7. CASE Checked("restrictions", "binding",
                   \A sku \in Sku : <<sku, quote.warehouse>> \notin world.disabled)
  BY <1>1, <1>2, <1>3, <1>5, <1>7, CheckedWasAllowed DEF Checked, Passed, From, Purchasing
<1>8. CASE Checked("recipe", "spare", world.combination = quote.combination)
  BY <1>1, <1>2, <1>3, <1>5, <1>8, CheckedWasAllowed DEF Checked, Passed, From, Purchasing
<1>9. CASE Checked("spare", "pairing", SpareStands)
  BY <1>1, <1>2, <1>3, <1>5, <1>9, CheckedWasAllowed DEF Checked, Passed, From, Purchasing
<1>10. CASE Checked("pairing", "mapping", quote.account \in world.paired)
  BY <1>1, <1>2, <1>3, <1>5, <1>10, CheckedWasAllowed DEF Checked, Passed, From, Purchasing
<1>11. CASE Checked("mapping", "binding", MappingStands)
  BY <1>1, <1>2, <1>3, <1>5, <1>11 DEF Checked, Passed, From, Purchasing
<1>12. CASE Checked("binding", "carrier", BindingStands)
  BY <1>1, <1>2, <1>3, <1>5, <1>12, CheckedWasAllowed DEF Checked, Passed, From, Purchasing
<1>13. CASE CarrierChecked
  BY <1>1, <1>2, <1>3, <1>5, <1>13, CheckedWasAllowed
  DEF CarrierChecked, Passed, From, Purchasing
<1>14. CASE Built
  BY <1>1, <1>2, <1>3, <1>5, <1>14 DEF Built, Passed, From, Purchasing
<1>15. CASE Refreshed
  BY <1>1, <1>2, <1>3, <1>5, <1>15, CheckedWasAllowed DEF Refreshed, Passed, From, Purchasing
<1>16. CASE Reserved
  BY <1>1, <1>2, <1>3, <1>4, <1>5, <1>16 DEF Reserved, Passed, From, Purchasing
<1>17. CASE Recorded
  <2>1. unchecked = {} /\ unchecked' = {}
    BY <1>17 DEF Recorded, TypeInv, Holds
  <2> QED
    BY <1>1, <1>2, <1>3, <1>4, <1>5, <1>17, <2>1 DEF Recorded, Passed, From, Purchasing
<1> QED
  BY <1>2, <1>6, <1>7, <1>8, <1>9, <1>10, <1>11, <1>12, <1>13, <1>14, <1>15, <1>16,
     <1>17 DEF Purchase, Checking

(* A change of the world, or a read, takes back no check that was passed.  *)
LEMMA PassedNext ==
    ASSUME TypeInv, Passed, [Next]_vars
    PROVE  Passed'
<1>1. None # "bought"
  BY NoneAssumption
<1>2. CASE UNCHANGED vars \/ Change
  <2>1. /\ UNCHANGED <<pc, request, unchecked, quote, reservation, outcome>>
        /\ seen \subseteq seen'
    BY <1>2 DEF Change
  <2>2. /\ Bought' = Bought
        /\ WasUnrestricted => WasUnrestricted'
        /\ WasInStock => WasInStock'
        /\ WasRecipe => WasRecipe'
        /\ WasSpare => WasSpare'
        /\ WasPaired => WasPaired'
        /\ WasBound => WasBound'
        /\ \A sku : CarrierWasAllowed(sku) => CarrierWasAllowed(sku)'
    BY <2>1, SeenAllows
  <2>3. Granted' = Granted
    BY <2>1, <2>2 DEF Granted
  <2> QED
    BY <2>1, <2>2, <2>3 DEF Passed, From
<1>3. CASE Ended
  <2>1. outcome' # "bought" /\ pc' \in {"option", "done"}
    <3>1. pc # "done" /\ outcome = None
      BY <1>3 DEF Ended, TypeInv, TypeOK
    <3> QED
      BY <1>1, <1>3, <3>1 DEF Ended
  <2> QED
    BY <2>1 DEF Passed, From, Purchasing
<1>4. CASE Reading
  BY <1>4, ReadingForgets DEF Passed
<1>5. CASE Chosen
  <2>1. outcome' # "bought" /\ pc' = "quoted"
    BY <1>1, <1>5 DEF Chosen, TypeInv, TypeOK
  <2> QED
    BY <2>1 DEF Passed, From, Purchasing
<1>6. CASE Purchase
  BY <1>6, PassedPurchase
<1> QED
  BY <1>2, <1>3, <1>4, <1>5, <1>6, StepCases

(* BoughtWasAllowed: whatever changes, and however often, between the      *)
(* steps of a quote and of the purchase from it, what is bought was        *)
(* allowed at some moment after the quote.                                 *)
THEOREM BoughtIsAllowed == Spec => []BoughtWasAllowed
<1>1. Init => Passed
  BY DEF Init, Passed
<1>2. TypeInv /\ Passed => BoughtWasAllowed
  <2> SUFFICES ASSUME TypeInv, Passed, outcome = "bought" PROVE BoughtWasAllowed
    BY DEF BoughtWasAllowed
  <2>1. quote # NoQuote /\ pc = "done" /\ unchecked = {}
    BY NoneAssumption DEF TypeInv, TypeOK, Holds
  <2>2. /\ (quote.combination = None) <=> ~request.substitute
        /\ quote.warehouse \notin excluded
        /\ quote.channel.carrier \notin request.failed
    BY <2>1 DEF TypeInv, Quoted
  <2>3. /\ ~request.substitute => WasUnrestricted /\ WasInStock
        /\ request.substitute => WasRecipe /\ WasSpare /\ WasPaired
        /\ WasBound /\ reservation = Granted
        /\ \A sku \in DOMAIN Bought : CarrierWasAllowed(sku)
    BY <2>1 DEF Passed, From
  <2> QED
    BY <2>2, <2>3
    DEF BoughtWasAllowed, WasUnrestricted, WasInStock, WasRecipe, WasSpare, WasPaired,
        WasBound, CarrierWasAllowed, Granted
<1> QED
  BY <1>1, <1>2, QuotingTypes, PassedNext, PTL DEF Spec

----------------------------------------------------------------------------
(* What is stored of a choice can be recorded *)

(* The analysis of a choice is computed where the quote is made.           *)
LEMMA ChosenIsRecordable ==
    ASSUME TypeInv, Chosen
    PROVE  Recordable(quote'.choice)
<1> DEFINE items == Candidates(arrived)
           choice == SelectAutomaticChannel(items, Wanted)
<1>1. choice # NoChoice /\ quote'.choice = PurchaseChoice(items, choice, Wanted # 0)
  BY DEF Chosen
<1>2. Answered /\ Arrival(arrived)
  BY AnswersAreIn DEF Chosen
<1>3. IsItems(items, Choosable) /\ \E m \in DOMAIN items : choice = items[m]
  BY <1>1, <1>2, CandidatesAreItems, SelectedIsItem
<1>4. \A x \in Choosable : x.channel.id # 0
  BY <1>2, OfferedType DEF Choosable
<1> HIDE DEF items, choice
<1>5. PICK m \in DOMAIN items : choice = items[m]
  BY <1>3
<1>6. Recordable(PurchaseChoice(items, items[m], Wanted # 0))
  BY <1>3, <1>4, ChoiceIsRecordable
<1> QED
  BY <1>1, <1>5, <1>6 DEF choice, items

(* After that a quote is kept as it is or dropped.                         *)
LEMMA RecordableNext ==
    ASSUME TypeInv, SnapshotIsRecordable, [Next]_vars
    PROVE  SnapshotIsRecordable'
<1>1. quote' \in {quote, NoQuote} \/ Chosen
  <2>1. UNCHANGED vars \/ Change \/ Ended \/ Reading \/ Purchase =>
           quote' \in {quote, NoQuote}
    BY ReadingForgets DEF Change, Ended, Purchase, Started, Checking, Checked,
       CarrierChecked, Built, Refreshed, Reserved, Excluded, Recorded
  <2> QED
    BY <2>1, StepCases
<1> QED
  BY <1>1, ChosenIsRecordable DEF SnapshotIsRecordable

(* SnapshotIsRecordable: no purchase fails because of what the quote stored *)
(* of its choice.                                                          *)
THEOREM SnapshotsAreRecordable == Spec => []SnapshotIsRecordable
<1>1. Init => SnapshotIsRecordable
  BY DEF Init, SnapshotIsRecordable
<1> QED
  BY <1>1, QuotingTypes, RecordableNext, PTL DEF Spec

----------------------------------------------------------------------------
(* The choice *)

(* The candidates depend on nothing but what was read.                     *)
LEMMA CandidatesKept ==
    ASSUME UNCHANGED <<request, policies, answers, arrived>>
    PROVE  Candidates(arrived)' = Candidates(arrived) /\ Offered' = Offered
<1>1. \A key : Group(key)' = Group(key)
  BY DEF Group
<1>2. \A key, channel : /\ Eligible(channel, key)' <=> Eligible(channel, key)
                        /\ Candidate(key, channel)' = Candidate(key, channel)
  BY <1>1 DEF Eligible, Candidate
<1>3. Offered' = Offered
  BY <1>2 DEF Offered
<1> DEFINE rank(O, o, x) == {y \in O : \/ Better(y[2], x[2])
                                       \/ ~Better(x[2], y[2]) /\ Sooner(o, y, x)}
           list(O, o) == [k \in 1 .. Cardinality(O) |->
                             CHOOSE x \in O : Cardinality(rank(O, o, x)) = k - 1]
           sorted(O, o) == [k \in 1 .. Cardinality(O) |-> list(O, o)[k][2]]
<1>4. Candidates(arrived) = sorted(Offered, arrived)
  BY DEF Candidates, Ordered, Sooner
<1>5. Candidates(arrived)' = sorted(Offered', arrived')
  BY DEF Candidates, Ordered, Sooner
<1> HIDE DEF sorted
<1> QED
  BY <1>3, <1>4, <1>5

(* What a choice was made from is kept until the choice is used.           *)
LEMMA AgreesNext ==
    ASSUME TypeInv, TypeInv', ChoiceAgrees, [Next]_vars
    PROVE  ChoiceAgrees'
<1>1. CASE UNCHANGED vars \/ Change
  <2>1. UNCHANGED <<pc, request, excluded, quoting, quote>>
    BY <1>1 DEF Change
  <2> QED
    BY <2>1, CandidatesKept DEF ChoiceAgrees, Wanted, Listed
<1>2. CASE Ended
  BY <1>2 DEF Ended, Returned, ChoiceAgrees, Listed
<1>3. CASE Reading
  <2>1. pc' # "quoted"
    BY <1>3, ReadingForgets DEF TypeInv, TypeOK
  <2>2. CASE OptionsListed
    <3>1. pc' = "option" /\ UNCHANGED <<request, policies, jobs, answers, arrived>>
      BY <2>2 DEF OptionsListed
    <3>2. Candidates(arrived)' = Candidates(arrived)
      BY <3>1, CandidatesKept
    <3> DEFINE choices == BetterFirst(Candidates(arrived))
               listed == PriceQuotes(choices, SelectAutomaticChannel(choices, 0))
    <3>3. listed # << >> /\ options' = AsOptions(listed)
      BY <2>2 DEF OptionsListed
    <3>4. listed' # << >> /\ options' = AsOptions(listed)'
      <4>1. choices' = choices
        BY <3>2 DEF BetterFirst
      <4>2. listed' = listed
        BY <4>1
      <4> HIDE DEF listed
      <4> QED
        BY <3>3, <4>2 DEF AsOptions
    <3> QED
      BY <3>1, <3>4 DEF ChoiceAgrees
  <2>3. CASE ~OptionsListed
    <3>1. ~Listed'
      <4>1. CASE Began
        <5>1. jobs = << >>
          BY <4>1, NothingRead DEF Began, Listed
        <5> QED
          BY <4>1, <5>1 DEF Began, Listed
      <4>2. CASE Took
        BY <4>2 DEF Took, Returned, Listed
      <4>3. CASE ~Began /\ ~Took
        <5>1. pc' # "option"
          BY <1>3, <2>3, <4>3, FollowingTableHolds
          DEF Reading, Cataloged, Queried, ReadPolicies, Asked, Answer, FollowingTable,
              TypeInv, Holds
        <5> QED
          BY <5>1 DEF Listed
      <4> QED
        BY <4>1, <4>2, <4>3
    <3> QED
      BY <2>1, <3>1 DEF ChoiceAgrees
  <2> QED
    BY <2>2, <2>3
<1>4. CASE Chosen
  <2>1. /\ pc' = "quoted" /\ UNCHANGED <<request, quoting>>
    BY <1>4 DEF Chosen
  <2>2. Candidates(arrived)' = Candidates(arrived) /\ Wanted' = Wanted
    BY <2>1, CandidatesKept DEF Wanted
  <2> QED
    BY <1>4, <2>1, <2>2 DEF ChoiceAgrees, Chosen, Listed
<1>5. CASE Purchase
  <2>1. pc' \notin {"quoted", "option"}
    BY <1>5 DEF Purchase, Started, Checking, Checked,
       CarrierChecked, Built, Refreshed, Reserved, Excluded, Recorded
  <2> QED
    BY <2>1 DEF ChoiceAgrees, Listed
<1> QED
  BY <1>1, <1>2, <1>3, <1>4, <1>5, StepCases

(* What was chosen, or listed, follows from the answers for as long as it  *)
(* is waiting.                                                             *)
THEOREM ChoiceKept == Spec => []ChoiceAgrees
<1>1. Init => ChoiceAgrees
  BY DEF Init, ChoiceAgrees, Listed
<1>2. TypeInv /\ ChoiceAgrees /\ [Next]_vars => ChoiceAgrees'
  BY AgreesNext, TypeInvNext
<1> QED
  BY <1>1, <1>2, QuotingTypes, PTL DEF Spec

(* What each candidate says of its warehouse.                              *)
LEMMA ChoosableType ==
    ASSUME Answered, NEW x \in Choosable
    PROVE  /\ x.warehouse \in DOMAIN answers /\ x.rules = Group(x.warehouse).rules
           /\ x = Candidate(x.warehouse, x.channel) /\ x # NoChoice
           /\ Eligible(x.channel, x.warehouse) /\ IsCandidate(x)
<1>1. PICK y \in Offered : x = y[2]
  BY DEF Choosable
<1>2. /\ x.warehouse \in DOMAIN answers /\ Eligible(x.channel, x.warehouse)
      /\ x = Candidate(x.warehouse, answers[x.warehouse][y[1]]) /\ IsCandidate(x)
  BY <1>1, OfferedType
<1>3. \A key, channel : /\ Candidate(key, channel).channel = channel
                        /\ Candidate(key, channel).rules = Group(key).rules
                        /\ Candidate(key, channel) # NoChoice
  BY DEF Candidate, NoChoice
<1> QED
  BY <1>2, <1>3

(* PriceIsJustified: an automatic choice that is not the cheapest has the  *)
(* reason that the rules of its warehouse give.                            *)
LEMMA QuoteIsJustified ==
    ASSUME TypeInv, ChoiceAgrees
    PROVE  PriceIsJustified
<1> SUFFICES ASSUME pc = "quoted", Wanted = 0 PROVE PriceIsJustified
  BY DEF PriceIsJustified
<1> DEFINE items == Candidates(arrived)
           choice == SelectAutomaticChannel(items, 0)
<1>1. Answered /\ Arrival(arrived)
  BY AnswersAreIn
<1>2. /\ choice # NoChoice
      /\ quote.warehouse = choice.warehouse /\ quote.channel = choice.channel
  BY DEF ChoiceAgrees
<1>3. IsItems(items, Choosable) /\ RangeOf(items) = Choosable
  BY <1>1, <1>2, CandidatesAreItems, CandidatesSorted, SelectedIsItem
<1>4. choice = Candidate(quote.warehouse, quote.channel)
  BY <1>1, <1>2, ChosenIsChoosable
<1> HIDE DEF items
<1>5. Choosable = {items[i] : i \in DOMAIN items}
  BY <1>3 DEF RangeOf
<1>6. Justified(choice, Choosable)
  <2>1. IsItems(items, {items[i] : i \in DOMAIN items})
    BY <1>3, <1>5
  <2> QED
    BY <1>2, <1>5, <2>1, ChoiceIsJustified
<1> HIDE DEF choice
<1>7. choice.channel = quote.channel
  BY <1>2
<1> QED
  BY <1>4, <1>6, <1>7 DEF PriceIsJustified, Justified, Within, Close

(* PriceIsJustified, in every state that can be reached.                   *)
THEOREM PricesAreJustified == Spec => []PriceIsJustified
BY QuotingTypes, ChoiceKept, QuoteIsJustified, PTL

(* ChoiceIgnoresArrival: where no two warehouses have the same tie         *)
(* priority, neither the choice nor the options depend on the order in     *)
(* which the answers came.                                                 *)
LEMMA ArrivalIsIgnored ==
    ASSUME TypeInv, ChoiceAgrees
    PROVE  ChoiceIgnoresArrival
<1> SUFFICES ASSUME Cardinality(Ties) = Cardinality(DOMAIN answers),
                    NEW order, pc = "quoted" \/ Listed
             PROVE  /\ pc = "quoted" =>
                         LET choice == SelectAutomaticChannel(Candidates(order), Wanted)
                         IN  /\ choice.warehouse = quote.warehouse
                             /\ choice.channel = quote.channel
                    /\ Listed =>
                         LET choices == BetterFirst(Candidates(order))
                         IN  options = AsOptions(PriceQuotes(
                                 choices, SelectAutomaticChannel(choices, 0)))
  BY DEF ChoiceIgnoresArrival, BetterFirst
<1>1. Answered
  BY AnswersAreIn
<1>2. Candidates(order) = Candidates(arrived)
  BY <1>1, OrderOfAnswersIsIrrelevant
<1> QED
  BY <1>2 DEF ChoiceAgrees

(* ChoiceIgnoresArrival, in every state that can be reached.               *)
THEOREM ArrivalDoesNotMatter == Spec => []ChoiceIgnoresArrival
BY QuotingTypes, ChoiceKept, ArrivalIsIgnored, PTL

(* OptionIsJustified: the first option is close to the cheapest channel,   *)
(* and no option with a better priority is.                                *)
LEMMA OptionsListedAreJustified ==
    ASSUME TypeInv, ChoiceAgrees
    PROVE  OptionIsJustified
<1> SUFFICES ASSUME Listed, \A key \in DOMAIN answers : Group(key).rules.mode = WithinDelta,
                    Cardinality({x.channel.currency : x \in Choosable} \ {""}) <= 1
             PROVE  OptionIsJustified
  BY DEF OptionIsJustified
<1> DEFINE items == Candidates(arrived)
           choices == BetterFirst(items)
           listed == PriceQuotes(choices, SelectAutomaticChannel(choices, 0))
<1>1. Answered /\ Arrival(arrived)
  BY AnswersAreIn
<1>2. options = AsOptions(listed) /\ listed # << >>
  BY DEF ChoiceAgrees
<1>3. IsItems(items, Choosable)
  <2>1. /\ choices = BetterFirst(Candidates(arrived))
        /\ listed = PriceQuotes(choices, SelectAutomaticChannel(choices, 0))
    OBVIOUS
  <2> HIDE DEF listed, choices
  <2> QED
    BY <1>1, <1>2, <2>1, ListedAreChoosable
<1>4. RangeOf(items) = Choosable
  BY <1>1, CandidatesSorted
<1> HIDE DEF listed, choices
<1> HIDE DEF items
<1>5. /\ \A i \in DOMAIN items : items[i] \in Choosable
      /\ \A x \in Choosable : \E i \in DOMAIN items : items[i] = x
  <2>1. \A i \in DOMAIN items : items[i] \in RangeOf(items)
    BY DEF RangeOf
  <2>2. \A x \in RangeOf(items) : \E i \in DOMAIN items : items[i] = x
    BY DEF RangeOf
  <2> QED
    BY <1>4, <2>1, <2>2
<1>6. ASSUME NEW i \in DOMAIN items PROVE items[i].rules.mode = WithinDelta
  <2>1. items[i] \in Choosable
    BY <1>5
  <2>2. items[i].warehouse \in DOMAIN answers /\ items[i].rules = Group(items[i].warehouse).rules
    BY <1>1, <2>1, ChoosableType
  <2> QED
    BY <2>2
<1>7. \A i, j \in DOMAIN items :
         items[i].warehouse = items[j].warehouse => items[i].rules = items[j].rules
  BY <1>1, <1>5, ChoosableType
<1>8. Cardinality(Currencies(items)) <= 1
  <2>1. {items[i].channel.currency : i \in DOMAIN items} = {x.channel.currency : x \in Choosable}
    BY <1>5
  <2> QED
    BY <2>1 DEF Currencies
<1>9. NoChoice \notin Choosable
  BY <1>1, ChoosableType
<1>10. /\ listed \in Seq(Choosable) /\ listed # << >>
       /\ \A i \in DOMAIN items :
             listed[1].channel.amount <=
                 items[i].channel.amount + Window(listed[1]) + Window(items[i])
       /\ \A i \in DOMAIN listed :
             EffectivePriority(listed[i]) < EffectivePriority(listed[1]) =>
                 \E j \in DOMAIN listed :
                     listed[i].channel.amount >
                         listed[j].channel.amount + Window(listed[i])
  BY <1>3, <1>6, <1>7, <1>8, <1>9, OptionsAreJustified DEF listed, choices
<1>11. /\ DOMAIN options = DOMAIN listed
       /\ \A i \in DOMAIN options : /\ listed[i].warehouse = options[i].warehouse
                                    /\ listed[i].channel.id = options[i].preferred
  BY <1>2 DEF AsOptions
<1>12. listed \in [DOMAIN options -> Choosable]
  <2>1. PICK n \in Nat : listed \in [1 .. n -> Choosable]
    <3>1. listed \in UNION {[1 .. n -> Choosable] : n \in Nat}
      BY <1>10, SeqDef, Zenon
    <3> QED
      BY <3>1, Zenon
  <2> QED
    BY <1>11, <2>1
<1>13. \A x \in Choosable :
          listed[1].channel.amount <= x.channel.amount + Window(listed[1]) + Window(x)
  BY <1>5, <1>10
<1> QED
  BY <1>10, <1>11, <1>12, <1>13 DEF OptionIsJustified

(* OptionIsJustified, in every state that can be reached.                  *)
THEOREM OptionsOfferedAreJustified == Spec => []OptionIsJustified
BY QuotingTypes, ChoiceKept, OptionsListedAreJustified, PTL

----------------------------------------------------------------------------
(* While nothing changes, a quote stands *)

(* Whether a warehouse can be quoted depends on what has been read and on  *)
(* the world alone.                                                        *)
LEMMA QuotableKept ==
    ASSUME UNCHANGED <<world, request, decision, combination>>
    PROVE  \A key : Quotable(key)' <=> Quotable(key)
BY DEF Quotable, Shipped, SelectionRegion, Mapped

(* What is kept, or dropped, is as current as it was.                      *)
LEMMA CurrentKept ==
    ASSUME Current, UNCHANGED <<world, changes, request>>,
           UNCHANGED quoting \/ Returned
    PROVE  Current'
<1>1. CASE UNCHANGED quoting
  <2>1. \A key : Quotable(key)' <=> Quotable(key)
    BY <1>1, QuotableKept
  <2> QED
    BY <1>1, <2>1 DEF Current, Stock, Sku
<1>2. CASE Returned
  <2>1. DOMAIN jobs' = {}
    BY <1>2 DEF Returned
  <2> QED
    BY <1>2, <2>1 DEF Current, Returned
<1> QED
  BY <1>1, <1>2

(* What is read while nothing has changed is what there is.                *)
LEMMA CurrentReading ==
    ASSUME TypeInv, Current, Reading
    PROVE  Current'
<1>1. UNCHANGED <<world, changes, request>>
  BY ReadingForgets
<1>2. CASE Began
  <2>1. \A key : Quotable(key)' <=> Quotable(key)
    BY <1>2, QuotableKept DEF Began
  <2> QED
    BY <1>1, <1>2, <2>1 DEF Began, Current, Stock, Sku
<1>3. CASE Took
  BY <1>1, <1>3, CurrentKept DEF Took
<1>4. ASSUME pc \in {"catalog", "decision"} PROVE DOMAIN jobs = {}
  <2>1. ~HasRead("bindings")
    BY <1>4, ReadTableHolds DEF ReadTable, Listed
  <2> QED
    BY <2>1 DEF TypeInv, Holds
<1>5. CASE Cataloged
  BY <1>1, <1>4, <1>5 DEF Cataloged, Current, Stock, Sku
<1>6. CASE Queried
  BY <1>1, <1>4, <1>6 DEF Queried, Current, Stock, Sku
<1>7. CASE ReadPolicies
  <2>1. \A key : Quotable(key)' <=> Quotable(key)
    BY <1>1, <1>7, QuotableKept DEF ReadPolicies
  <2> QED
    BY <1>1, <1>7, <2>1 DEF ReadPolicies, Current, Stock, Sku
<1>8. CASE Asked
  <2>1. \A key : Quotable(key)' <=> Quotable(key)
    BY <1>1, <1>8, QuotableKept DEF Asked
  <2> DEFINE asked == {key \in QuoteWarehouses(decision) : Quotable(key)}
  <2>2. jobs' = [key \in asked |-> world.binding[key]]
    BY <1>8 DEF Asked
  <2>3. \A key \in DOMAIN jobs' : jobs'[key] = world.binding[key] /\ Quotable(key)
    BY <2>2
  <2> QED
    BY <1>1, <1>8, <2>1, <2>3 DEF Asked, Current, Stock, Sku
<1>9. CASE \E key \in Warehouse : Answer(key)
  <2>1. \A key : Quotable(key)' <=> Quotable(key)
    BY <1>1, <1>9, QuotableKept DEF Answer
  <2> QED
    BY <1>1, <1>9, <2>1 DEF Answer, Current, Stock, Sku
<1>10. CASE OptionsListed
  <2>1. \A key : Quotable(key)' <=> Quotable(key)
    BY <1>1, <1>10, QuotableKept DEF OptionsListed
  <2> QED
    BY <1>1, <1>10, <2>1 DEF OptionsListed, Current, Stock, Sku
<1> QED
  BY <1>2, <1>3, <1>5, <1>6, <1>7, <1>8, <1>9, <1>10 DEF Reading

(* No other step changes what was read, except that it is dropped.         *)
LEMMA CurrentNext ==
    ASSUME TypeInv, Current, [Next]_vars
    PROVE  Current'
<1>1. CASE Change
  <2>1. changes' # 0
    BY <1>1, ChangesAssumption DEF Change, TypeInv, TypeOK
  <2> QED
    BY <2>1 DEF Current
<1>2. CASE UNCHANGED vars
  BY <1>2, CurrentKept
<1>3. CASE Ended
  BY <1>3, CurrentKept DEF Ended
<1>4. CASE Chosen
  BY <1>4, CurrentKept DEF Chosen
<1>5. CASE Purchase
  <2>1. UNCHANGED <<world, changes, request>> /\ (UNCHANGED quoting \/ Returned)
    BY <1>5 DEF Purchase, Started, Checking, Checked, CarrierChecked, Built, Refreshed,
       Reserved, Excluded, Recorded
  <2> QED
    BY <2>1, CurrentKept
<1> QED
  BY <1>1, <1>2, <1>3, <1>4, <1>5, CurrentReading, StepCases

(* What is quoted from a world that did not change.                        *)
LEMMA QuoteStandsChosen ==
    ASSUME TypeInv, Current, Chosen
    PROVE  QuoteStands'
<1> SUFFICES ASSUME changes = 0 PROVE QuoteStands'
  BY DEF QuoteStands, Chosen
<1>0. PICK w : w = quote'.warehouse
  OBVIOUS
<1> DEFINE choice == SelectAutomaticChannel(Candidates(arrived), Wanted)
<1>1. /\ UNCHANGED <<world, changes, request>> /\ pc = "asking"
      /\ choice # NoChoice /\ w = choice.warehouse /\ quote'.channel = choice.channel
      /\ quote'.temu = jobs[w].temu /\ quote'.revision = jobs[w].revision
      /\ quote'.account = Account(decision, w) /\ quote'.combination = combination
  BY <1>0 DEF Chosen
<1>2. Answered /\ Arrival(arrived)
  BY <1>1, AnswersAreIn
<1>3. w \in DOMAIN answers /\ Eligible(quote'.channel, w)
  BY <1>1, <1>2, ChosenIsChoosable
<1> HIDE DEF choice
<1>4. w \in DOMAIN jobs
  BY <1>3 DEF TypeInv, TypeOK
<1>5. jobs[w] = world.binding[w] /\ Quotable(w)
  BY <1>4 DEF Current
<1>6. HasRead("decision") /\ HasRead("policies") /\ (request.substitute => HasRead("catalog"))
  BY <1>1, ReadTableHolds DEF ReadTable
<1>7. (decision # None) /\ (policies # None) /\ (request.substitute <=> combination # None)
  BY <1>1, <1>6, ReadTableHolds DEF TypeInv, TypeOK, ReadTable, Listed
<1>8. /\ decision = Stock /\ Stock.complete
      /\ request.substitute => combination = world.combination
      /\ \E sku \in Sku : policies = world.policy[sku]
  BY <1>7 DEF Current
<1>9. PICK sku \in Sku : policies = world.policy[sku]
  BY <1>8
<1>10. /\ w \in DOMAIN policies /\ RulesAllow(quote'.channel, policies[w].rules)
       /\ PolicyAllows(quote'.channel, policies[w].carriers)
  <2>1. w \in DOMAIN policies
    <3> SUFFICES ASSUME w \notin DOMAIN policies PROVE FALSE
      OBVIOUS
    <3>1. Group(w).rules = NoRules /\ NoRules.allowed = {}
      BY DEF Group, NoRules
    <3> QED
      BY <1>3, <3>1 DEF Eligible, RulesAllow
  <2> QED
    BY <1>3, <2>1 DEF Eligible, Group
<1>11. /\ Bought' = Shipped /\ Stock' = Stock /\ Sku' = Sku
       /\ \A key : SelectionRegion(key)' = SelectionRegion(key)
  BY <1>1, <1>7 DEF Bought, Shipped, Stock, Sku, SelectionRegion
<1>12. IF request.substitute
       THEN /\ Comparable(Stock, Shipped, w) /\ Account(Stock, w) \in world.paired
       ELSE Selectable(Stock, SelectionRegion(w), Shipped, w)
  BY <1>5, <1>8 DEF Quotable
<1>13. Mapped(w) /\ \A key : Mapped(key)' <=> Mapped(key)
  BY <1>1, <1>5 DEF Quotable, Mapped
<1>14. /\ sku \in Sku' /\ w \in DOMAIN world'.policy[sku]
       /\ RulesAllow(quote'.channel, world'.policy[sku][w].rules)
       /\ PolicyAllows(quote'.channel, world'.policy[sku][w].carriers)
  BY <1>1, <1>9, <1>10, <1>11
<1>15. /\ quote'.temu = world'.binding[w].temu
       /\ quote'.revision = world'.binding[w].revision
  BY <1>1, <1>5
<1>16. IF request'.substitute
       THEN /\ quote'.combination = world'.combination
            /\ Comparable(Stock', Bought', w)
            /\ Account(Stock', w) = quote'.account
            /\ quote'.account \in world'.paired
       ELSE Selectable(Stock', SelectionRegion(w), Bought', w)
  BY <1>1, <1>8, <1>11, <1>12
<1> QED
  BY <1>0, <1>8, <1>11, <1>13, <1>14, <1>15, <1>16 DEF QuoteStands

(* A quote made from what there is agrees with it as long as nothing       *)
(* changes.                                                                *)
LEMMA QuoteStandsNext ==
    ASSUME TypeInv, Current, QuoteStands, [Next]_vars
    PROVE  QuoteStands'
<1>1. CASE Chosen
  BY <1>1, QuoteStandsChosen
<1>2. CASE Change
  <2>1. changes' # 0
    BY <1>2, ChangesAssumption DEF Change, TypeInv, TypeOK
  <2> QED
    BY <2>1 DEF QuoteStands
<1>3. CASE UNCHANGED vars \/ Ended \/ Reading \/ Purchase
  <2>1. UNCHANGED <<world, changes, request>> /\ quote' \in {quote, NoQuote}
    BY <1>3, ReadingForgets DEF Ended, Purchase, Started, Checking, Checked,
       CarrierChecked, Built, Refreshed, Reserved, Excluded, Recorded
  <2> SUFFICES ASSUME quote' = quote, quote # NoQuote PROVE QuoteStands'
    BY <2>1 DEF QuoteStands
  <2> DEFINE w == quote.warehouse
  <2>2. /\ Bought' = Bought /\ Stock' = Stock /\ Sku' = Sku
        /\ SelectionRegion(w)' = SelectionRegion(w)
        /\ (Mapped(w)' <=> Mapped(w))
    BY <2>1 DEF Bought, Stock, Sku, SelectionRegion, Mapped
  <2> QED
    BY <2>1, <2>2 DEF QuoteStands
<1> QED
  BY <1>1, <1>2, <1>3, StepCases

(* UnchangedQuoteStands, where the quote says what the world says.         *)
LEMMA StandingQuoteIsAccepted ==
    ASSUME TypeInv, Passed, QuoteStands
    PROVE  UnchangedQuoteStands
<1> SUFFICES ASSUME changes = 0, quote # NoQuote, Consistent PROVE UnchangedQuoteStands
  BY DEF UnchangedQuoteStands
<1> DEFINE w == quote.warehouse
<1>1. /\ request.substitute =>
            /\ quote.combination = world.combination /\ Comparable(Stock, Bought, w)
            /\ Account(Stock, w) = quote.account /\ quote.account \in world.paired
      /\ ~request.substitute => Selectable(Stock, SelectionRegion(w), Bought, w)
      /\ Stock.complete /\ Mapped(w)
      /\ quote.temu = world.binding[w].temu /\ quote.revision = world.binding[w].revision
      /\ \E sku \in Sku : /\ w \in DOMAIN world.policy[sku]
                          /\ RulesAllow(quote.channel, world.policy[sku][w].rules)
                          /\ PolicyAllows(quote.channel, world.policy[sku][w].carriers)
  BY DEF QuoteStands
<1>2. /\ w \in Warehouse /\ (quote.combination = None) <=> ~request.substitute
  BY DEF TypeInv, Quoted
<1>3. \A sku \in DOMAIN Bought : /\ sku \in DOMAIN Stock.records
                                 /\ w \in DOMAIN Stock.records[sku].at
                                 /\ Stock.records[sku].at[w].selectable
  BY <1>1 DEF Selectable, Comparable, Carries
<1>4. /\ ~request.substitute => pc \notin {"recipe", "spare", "pairing", "mapping"}
      /\ request.substitute => pc # "restrictions"
  BY DEF Passed
<1>5. ASSUME pc = "restrictions", NEW sku \in Sku
      PROVE  <<sku, w>> \notin world.disabled
  <2>1. ~request.substitute /\ sku \in DOMAIN Bought
    BY <1>4, <1>5, <1>2 DEF TypeInv, Quoted, Bought, Sku
  <2> QED
    BY <1>3, <2>1 DEF Consistent
<1>6. pc = "recipe" => world.combination = quote.combination
  BY <1>1, <1>4
<1>7. pc = "spare" => SpareStands
  BY <1>1, <1>4 DEF SpareStands, Stock
<1>8. pc = "pairing" => quote.account \in world.paired
  BY <1>1, <1>4
<1>9. MappingStands /\ BindingStands
  BY <1>1 DEF MappingStands, BindingStands, Mapped
<1>10. ASSUME NEW sku \in unchecked PROVE CarrierStands(world.policy[sku])
  <2>1. sku \in DOMAIN Bought
    BY DEF TypeInv, TypeOK
  <2>2. PICK any \in Sku : /\ w \in DOMAIN world.policy[any]
                           /\ RulesAllow(quote.channel, world.policy[any][w].rules)
                           /\ PolicyAllows(quote.channel, world.policy[any][w].carriers)
    BY <1>1
  <2>3. world.policy[sku] = world.policy[any]
    BY <2>1 DEF Consistent
  <2>4. world.policy[any][w].enabled
    BY <1>3, <2>1, <2>2 DEF Consistent
  <2> QED
    BY <2>2, <2>3, <2>4 DEF CarrierStands
<1>11. Covers
  <2>1. CASE request.substitute
    BY <1>1, <2>1 DEF Covers
  <2>2. CASE ~request.substitute
    <3>1. Stock = world.decision /\ Selectable(Stock, SelectionRegion(w), Bought, w)
      BY <1>1, <2>2 DEF Stock
    <3>2. /\ Stock.records # << >>
          /\ w \in DOMAIN Stock.records[Stock.lead].at
      BY <3>1 DEF Selectable, DecisionWarehouses
    <3>3. Stock.lead \in DOMAIN Stock.records
      BY <3>1, <3>2, WorldAssumption DEF TypeInv, TypeOK
    <3>4. InRegion(Stock.records[Stock.lead].at[w], RegionOf[w])
      BY <1>2, <3>2, <3>3 DEF TypeInv, Quoted, Consistent
    <3>5. w \in DecisionWarehouses(Stock, RegionOf[w])
      BY <3>2, <3>4 DEF DecisionWarehouses
    <3>6. Selectable(Stock, RegionOf[w], Bought, w)
      BY <3>1, <3>5 DEF Selectable
    <3> QED
      BY <2>2, <3>6 DEF Covers
  <2> QED
    BY <2>1, <2>2
<1> QED
  BY <1>5, <1>6, <1>7, <1>8, <1>9, <1>10, <1>11 DEF UnchangedQuoteStands

(* UnchangedQuoteStands: as long as nothing changes, and XLWMS does not    *)
(* contradict itself, no check of a purchase refuses what was quoted.      *)
THEOREM UnchangedIsAccepted == Spec => []UnchangedQuoteStands
<1>1. Init => Passed /\ Current /\ QuoteStands
  <2>1. Init => DOMAIN jobs = {}
    BY DEF Init
  <2> QED
    BY <2>1 DEF Init, Passed, Current, QuoteStands
<1>2. TypeInv /\ Passed /\ Current /\ QuoteStands /\ [Next]_vars =>
         Passed' /\ Current' /\ QuoteStands'
  BY PassedNext, CurrentNext, QuoteStandsNext
<1> QED
  BY <1>1, <1>2, QuotingTypes, StandingQuoteIsAccepted, PTL DEF Spec
============================================================================
