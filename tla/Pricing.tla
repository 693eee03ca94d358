-------------------------------- MODULE Pricing --------------------------------
(***************************************************************************)
(* Prices: the rules for sales and purchases, the invoice that prices the  *)
(* missions of a customer by them, and the credit note that takes an       *)
(* invoice back (backend/app/modules/billing/router.py and                 *)
(* router_extensions.py).  Numbers and PDFs of these documents are the     *)
(* subject of Invoicing.  Amounts are multiples of a fraction of a cent;   *)
(* VAT, payment terms and texts are left out.                              *)
(***************************************************************************)
EXTENDS Calls, Integers, Sequences, FiniteSets, Functions

CONSTANTS Customers,
          Jobs,           \* the missions
          Owner,          \* Owner[j]: the customer of mission j
          Distances,      \* values of distance_km
          RuleBodies,     \* rule_type, rate, min_km and max_km of a rule
          Cent,           \* a cent, in units of the rates
          MaxRules, MaxPriced, MaxCredits   \* bound rules, invoices and credit notes

RuleTypes == {"km", "flat", "surcharge", "tonne"}

ASSUME PricingAssumption ==
    /\ IsFiniteSet(Jobs) /\ Owner \in [Jobs -> Customers]
    /\ Distances \subseteq Nat
    /\ RuleBodies \subseteq [type : RuleTypes, rate : Int, min : Nat \union {None},
                             max : Nat \union {None}]
    /\ Cent \in Nat \ {0}
    /\ {MaxRules, MaxPriced, MaxCredits} \subseteq Nat
    /\ None \notin Nat \union Customers

VARIABLES rules,        \* pricing_rules, in the order of their INSERT
          distance,     \* distance[j]: jobs.distance_km
          priced,       \* invoices with their lines
          credits,      \* credit_notes with their lines
          priceCall     \* priceCall[s]: where create_invoice of s is

pricingVars == <<rules, distance, priced, credits, priceCall>>

Rules == [customer : Customers \union {None}, direction : {"VENTE", "ACHAT"},
          active : BOOLEAN, body : RuleBodies]

\* f gives a value of S to some missions: a line of an invoice or of a credit
\* note, or the distance that was read.
Of(S, f) == DOMAIN f \subseteq Jobs /\ \A j \in DOMAIN f : f[j] \in S

\* A line of an invoice: the distance, which the description quotes, and the amount.
Line == [km : Nat \union {None}, amount : Int]

NoPriceCall == [step |-> "idle"]

PricingInit ==
    /\ rules = << >> /\ priced = << >> /\ credits = << >>
    /\ distance \in [Jobs -> Distances \union {None}]
    /\ priceCall = [s \in Sessions |-> NoPriceCall]

-----------------------------------------------------------------------------
(* Rules                                                                     *)

NewRule(customer, direction, body) ==
    /\ Len(rules) < MaxRules
    /\ rules' = Append(rules, [customer |-> customer, direction |-> direction,
                               active |-> TRUE, body |-> body])
    /\ UNCHANGED <<distance, priced, credits, priceCall>>

\* direction is VENTE by default; a purchase rule names no customer.
CreatePricingRule(customer, body) == NewRule(customer, "VENTE", body)
CreatePurchaseRule(body)          == NewRule(None, "ACHAT", body)

\* The endpoint of the sales rules takes the id of a purchase rule as well.
UpdatePricingRule(r, customer, body) ==
    /\ r \in DOMAIN rules
    /\ rules' = [rules EXCEPT ![r].customer = customer, ![r].body = body]
    /\ UNCHANGED <<distance, priced, credits, priceCall>>

UpdatePurchaseRule(r, body) ==
    /\ r \in DOMAIN rules /\ rules[r].direction = "ACHAT"
    /\ rules' = [rules EXCEPT ![r].body = body]
    /\ UNCHANGED <<distance, priced, credits, priceCall>>

DeletePurchaseRule(r) ==
    /\ r \in DOMAIN rules /\ rules[r].direction = "ACHAT"
    /\ rules' = [rules EXCEPT ![r].active = FALSE]
    /\ UNCHANGED <<distance, priced, credits, priceCall>>

\* update_job
ChangeDistance(j, km) ==
    /\ distance' = [distance EXCEPT ![j] = km]
    /\ UNCHANGED <<rules, priced, credits, priceCall>>

-----------------------------------------------------------------------------
(* What a mission costs                                                      *)

\* NULL and 0 both mean that there is no bound; both bounds are inclusive.
InRange(body, km) == /\ body.min \in {None, 0} \/ km >= body.min
                     /\ body.max \in {None, 0} \/ km <= body.max

\* A rule of another type than these three charges nothing.
Charge(body, km) ==
    CASE body.type \in {"flat", "surcharge"} -> body.rate
      [] body.type = "km" /\ km \notin {None, 0} /\ InRange(body, km) -> km * body.rate
      [] OTHER -> 0

\* The rules that create_invoice loads for a customer: whatever direction.
RulesFor(rs, customer) ==
    {r \in DOMAIN rs : rs[r].active /\ rs[r].customer \in {customer, None}}

JobPrice(rs, customer, km) == SumFunction([r \in RulesFor(rs, customer) |-> Charge(rs[r].body, km)])

\* NUMERIC(12, 2) rounds to the nearest cent, and halves away from zero.
Rounded(x) == LET cents == (2 * (IF x < 0 THEN -x ELSE x) + Cent) \div (2 * Cent)
              IN  (IF x < 0 THEN -1 ELSE 1) * cents * Cent

-----------------------------------------------------------------------------
(* create_invoice                                                            *)

ReadJobs(s, customer, js) ==
    /\ priceCall[s] = NoPriceCall /\ Len(priced) < MaxPriced
    /\ js # {} /\ \A j \in js : Owner[j] = customer
    /\ priceCall' = [priceCall EXCEPT ![s] =
                        [step |-> "jobs", customer |-> customer, km |-> [j \in js |-> distance[j]]]]
    /\ UNCHANGED <<rules, distance, priced, credits>>

ReadRules(s) ==
    LET call == priceCall[s] IN
    /\ call.step = "jobs"
    /\ priceCall' = [priceCall EXCEPT ![s] = [step |-> "rules", customer |-> call.customer,
                                              km |-> call.km, rules |-> rules]]
    /\ UNCHANGED <<rules, distance, priced, credits>>

\* Each line is rounded when it is stored, and so is the total of what they were.
InvoiceOf(customer, km, rs) ==
    LET price == [j \in DOMAIN km |-> JobPrice(rs, customer, km[j])]
    IN  [customer |-> customer, status |-> "draft",
         lines |-> [j \in DOMAIN km |-> [km |-> km[j], amount |-> Rounded(price[j])]],
         total |-> Rounded(SumFunction(price))]

\* Mistake ruled out by SameDistanceSamePrice: the rules are loaded mission by mission.
InsertInvoiceReloading(s) ==
    LET call == priceCall[s] IN
    /\ call.step = "rules" /\ Len(priced) < MaxPriced
    /\ \E j \in DOMAIN call.km :
        priced' = Append(priced,
            [InvoiceOf(call.customer, call.km, call.rules) EXCEPT
                !.lines[j] = InvoiceOf(call.customer, call.km, rules).lines[j]])
    /\ priceCall' = [priceCall EXCEPT ![s] = NoPriceCall]
    /\ UNCHANGED <<rules, distance, credits>>

\* Nothing asks whether a mission is on an invoice already, or closed.
InsertInvoice(s) ==
    LET call == priceCall[s] IN
    /\ call.step = "rules" /\ Len(priced) < MaxPriced
    /\ priced' = Append(priced, InvoiceOf(call.customer, call.km, call.rules))
    /\ priceCall' = [priceCall EXCEPT ![s] = NoPriceCall]
    /\ UNCHANGED <<rules, distance, credits>>

PriceCallFails(s) ==
    /\ priceCall[s] # NoPriceCall
    /\ priceCall' = [priceCall EXCEPT ![s] = NoPriceCall]
    /\ UNCHANGED <<rules, distance, priced, credits>>

\* What Invoicing models in detail.
ValidatePriced(i) ==
    /\ i \in DOMAIN priced /\ priced[i].status = "draft"
    /\ priced' = [priced EXCEPT ![i].status = "validated"]
    /\ UNCHANGED <<rules, distance, credits, priceCall>>

\* create_credit_note, as often as one likes: minus the absolute value of the
\* total and of each line.
Minus(x) == IF x < 0 THEN x ELSE -x

CreateCreditNote(i) ==
    /\ Len(credits) < MaxCredits
    /\ i \in DOMAIN priced /\ priced[i].status = "validated"
    /\ credits' = Append(credits,
            [invoice |-> i, total |-> Minus(priced[i].total),
             lines |-> [j \in DOMAIN priced[i].lines |-> Minus(priced[i].lines[j].amount)]])
    /\ UNCHANGED <<rules, distance, priced, priceCall>>

-----------------------------------------------------------------------------

PricingNext ==
    \/ \E body \in RuleBodies :
        \/ CreatePurchaseRule(body)
        \/ \E customer \in Customers \union {None} :
            \/ CreatePricingRule(customer, body)
            \/ \E r \in DOMAIN rules : UpdatePricingRule(r, customer, body)
        \/ \E r \in DOMAIN rules : UpdatePurchaseRule(r, body) \/ DeletePurchaseRule(r)
    \/ \E j \in Jobs, km \in Distances : ChangeDistance(j, km)
    \/ \E s \in Sessions :
        \/ \E customer \in Customers, js \in SUBSET Jobs : ReadJobs(s, customer, js)
        \/ ReadRules(s) \/ InsertInvoice(s) \/ PriceCallFails(s)
    \/ \E i \in DOMAIN priced : ValidatePriced(i) \/ CreateCreditNote(i)

PricingSpec == PricingInit /\ [][PricingNext]_pricingVars

-----------------------------------------------------------------------------

PricingTypeOK ==
    /\ rules \in Seq(Rules)
    /\ distance \in [Jobs -> Distances \union {None}]
    /\ \A i \in DOMAIN priced : /\ priced[i].customer \in Customers /\ priced[i].total \in Int
                                /\ priced[i].status \in {"draft", "validated"}
                                /\ Of(Line, priced[i].lines)
    /\ \A c \in DOMAIN credits : /\ credits[c].invoice \in DOMAIN priced
                                 /\ credits[c].total \in Int
                                 /\ Of(Int, credits[c].lines)
    /\ \A s \in Sessions : \/ priceCall[s] = NoPriceCall
                           \/ /\ priceCall[s].customer \in Customers
                              /\ Of(Nat \union {None}, priceCall[s].km)

\* Two missions of the same distance on one invoice cost the same, whatever
\* happens to the rules while it is made (create_invoice).
SameDistanceSamePrice ==
    \A i \in DOMAIN priced : \A j, k \in DOMAIN priced[i].lines :
        priced[i].lines[j].km = priced[i].lines[k].km
            => priced[i].lines[j].amount = priced[i].lines[k].amount

\* A sales invoice charges no purchase rule: the rules for the customer
\* (create_invoice).
\* The code does not keep this.
OnlySalesRulesArePriced ==
    \A s \in Sessions : priceCall[s].step = "rules" =>
        \A r \in RulesFor(priceCall[s].rules, priceCall[s].customer) :
            priceCall[s].rules[r].direction = "VENTE"

\* The lines of an invoice add up to its total.
\* The code does not keep this.
LinesAddUp ==
    \A i \in DOMAIN priced :
        priced[i].total = SumFunction([j \in DOMAIN priced[i].lines |-> priced[i].lines[j].amount])

\* A credit note has the lines of its invoice with negated amounts
\* (create_credit_note).
\* The code does not keep this.
CreditsNegate ==
    \A c \in DOMAIN credits : \A j \in DOMAIN credits[c].lines :
        credits[c].lines[j] = - priced[credits[c].invoice].lines[j].amount

=============================================================================
