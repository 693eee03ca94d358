------------------------------ MODULE Purchasing ------------------------------
(***************************************************************************)
(* Offers of missions to subcontractors (backend/app/modules/              *)
(* subcontracting/router.py): an offer is sent, refused, countered,        *)
(* cancelled or accepted, and its acceptance turns the mission into a      *)
(* purchase.  Every call but accept_offer and cancel_offer is one          *)
(* statement.  An amount stands for an offer's subcontractor and price,    *)
(* and no offer is ever VUE: nothing sets that statut.                     *)
(***************************************************************************)
EXTENDS Calls, Naturals, Sequences, FiniteSets

CONSTANTS Orders,       \* the missions that are offered
          Prices,       \* values of montant_propose
          MaxOffers     \* bounds the offers

ASSUME PurchasingAssumption == None \notin Prices /\ MaxOffers \in Nat

VARIABLES offers,       \* subcontractor_offers, in the order of their INSERT
          sent,         \* the tasks notification_dispatch, by the offer they are about
          purchase,     \* purchase[j]: montant_achat_ht of mission j, None for a mission
                        \* that is not subcontracted
          offerCall,    \* offerCall[s]: where an acceptance or cancellation is
          late          \* late[s], observed and not stored: the offers that were sent
                        \* or countered after the acceptance s looked for rivals

purchasingVars == <<offers, sent, purchase, offerCall, late>>

StatutsOffre == {"ENVOYEE", "CONTRE_OFFRE", "ACCEPTEE", "REFUSEE", "ANNULEE"}
Pending      == {"ENVOYEE", "CONTRE_OFFRE"}
Cancellable  == {"ENVOYEE"}

Offers == [order : Orders, price : Prices, statut : StatutsOffre]

NoOfferCall == [step |-> "idle"]

\* read: the offer was read; own: its row is written; job: the mission's too;
\* rivals: the UPDATE of the rivals has looked for them, those left it has not
\* come to yet, those refused it has written.
OfferCalls ==
    {NoOfferCall}
        \union [step : {"rivals"}, kind : {"accept"}, offer : 1..MaxOffers,
                left : SUBSET (1..MaxOffers), refused : SUBSET (1..MaxOffers)]
        \union [step : {"read", "own", "job"}, kind : {"accept"}, offer : 1..MaxOffers]
        \union [step : {"read"}, kind : {"cancel"}, offer : 1..MaxOffers]

PurchasingInit ==
    /\ offers = << >> /\ sent = {}
    /\ purchase = [j \in Orders |-> None]
    /\ offerCall = [s \in Sessions |-> NoOfferCall]
    /\ late = [s \in Sessions |-> {}]

\* An open acceptance holds its offer, then its mission, then the rivals it has
\* refused.
OfferLocked(o) ==
    \E s \in Sessions :
        \/ offerCall[s].step \in {"own", "job", "rivals"} /\ offerCall[s].offer = o
        \/ offerCall[s].step = "rivals" /\ o \in offerCall[s].refused

OrderLocked(j) == \E s \in Sessions : /\ offerCall[s].step \in {"job", "rivals"}
                                      /\ offers[offerCall[s].offer].order = j

\* Offer o now waits for an answer, too late for the acceptances that have looked.
Arrives(o) ==
    late' = [s \in Sessions |-> IF offerCall[s].step = "rivals" THEN late[s] \union {o}
                                ELSE late[s]]

\* The call of s is over.
EndsCall(s) ==
    /\ offerCall' = [offerCall EXCEPT ![s] = NoOfferCall]
    /\ late' = [late EXCEPT ![s] = {}]

-----------------------------------------------------------------------------

\* create_offer: the offer and its notification commit together.
CreateOffer(j, price) ==
    /\ Len(offers) < MaxOffers
    /\ offers' = Append(offers, [order |-> j, price |-> price, statut |-> "ENVOYEE"])
    /\ sent' = sent \union {Len(offers) + 1}
    /\ Arrives(Len(offers) + 1)
    /\ UNCHANGED <<purchase, offerCall>>

\* reject_offer and counter_offer take an offer in any statut.
RejectOffer(o) ==
    /\ o \in DOMAIN offers /\ ~ OfferLocked(o)
    /\ offers' = [offers EXCEPT ![o].statut = "REFUSEE"]
    /\ UNCHANGED <<sent, purchase, offerCall, late>>

CounterOffer(o) ==
    /\ o \in DOMAIN offers /\ ~ OfferLocked(o)
    /\ offers' = [offers EXCEPT ![o].statut = "CONTRE_OFFRE"]
    /\ Arrives(o)
    /\ UNCHANGED <<sent, purchase, offerCall>>

-----------------------------------------------------------------------------
(* cancel_offer                                                              *)

ReadToCancel(s, o) ==
    /\ offerCall[s] = NoOfferCall
    /\ o \in DOMAIN offers /\ offers[o].statut \in Cancellable
    /\ offerCall' = [offerCall EXCEPT ![s] = [step |-> "read", kind |-> "cancel", offer |-> o]]
    /\ UNCHANGED <<offers, sent, purchase, late>>

\* The UPDATE does not ask for the statut again.
CancelOffer(s) ==
    LET call == offerCall[s] IN
    /\ call.step = "read" /\ call.kind = "cancel" /\ ~ OfferLocked(call.offer)
    /\ offers' = [offers EXCEPT ![call.offer].statut = "ANNULEE"]
    /\ EndsCall(s)
    /\ UNCHANGED <<sent, purchase>>

-----------------------------------------------------------------------------
(* accept_offer                                                              *)

\* It accepts an offer in any statut.
ReadToAccept(s, o) ==
    /\ offerCall[s] = NoOfferCall
    /\ o \in DOMAIN offers
    /\ offerCall' = [offerCall EXCEPT ![s] = [step |-> "read", kind |-> "accept", offer |-> o]]
    /\ UNCHANGED <<offers, sent, purchase, late>>

WriteOwnOffer(s) ==
    LET call == offerCall[s] IN
    /\ call.step = "read" /\ call.kind = "accept" /\ ~ OfferLocked(call.offer)
    /\ offerCall' = [offerCall EXCEPT ![s].step = "own"]
    /\ UNCHANGED <<offers, sent, purchase, late>>

WriteOrder(s) ==
    LET call == offerCall[s] IN
    /\ call.step = "own" /\ ~ OrderLocked(offers[call.offer].order)
    /\ offerCall' = [offerCall EXCEPT ![s].step = "job"]
    /\ UNCHANGED <<offers, sent, purchase, late>>

\* The offers that the acceptance of o is to refuse.
Rivals(o) == {p \in DOMAIN offers : /\ p # o /\ offers[p].order = offers[o].order
                                    /\ offers[p].statut \in Pending}

\* The UPDATE of the rivals finds those that are committed when it starts.
LookForRivals(s) ==
    LET call == offerCall[s] IN
    /\ call.step = "job"
    /\ offerCall' = [offerCall EXCEPT ![s] =
            [step |-> "rivals", kind |-> "accept", offer |-> call.offer,
             left |-> Rivals(call.offer), refused |-> {}]]
    /\ UNCHANGED <<offers, sent, purchase, late>>

\* Mistake ruled out by AcceptanceSettles: it does not wait for a rival that
\* another call holds, and passes it over.
RefuseRivalUnlocked(s, p) ==
    /\ offerCall[s].step = "rivals" /\ p \in offerCall[s].left
    /\ offerCall' = [offerCall EXCEPT
            ![s].left = @ \ {p},
            ![s].refused = IF OfferLocked(p) THEN @
                           ELSE @ \union ({p} \intersect Rivals(offerCall[s].offer))]
    /\ UNCHANGED <<offers, sent, purchase, late>>

\* It comes to one of them, waits for the call that holds it, and writes it if it
\* still waits for an answer.
RefuseRival(s, p) ==
    /\ offerCall[s].step = "rivals" /\ p \in offerCall[s].left
    /\ ~ OfferLocked(p)
    /\ offerCall' = [offerCall EXCEPT
            ![s].left = @ \ {p},
            ![s].refused = @ \union ({p} \intersect Rivals(offerCall[s].offer))]
    /\ UNCHANGED <<offers, sent, purchase, late>>

\* What an acceptance of o has written once it has refused these rivals.
Accepted(o, refused) ==
    [p \in DOMAIN offers |->
        IF p = o THEN [offers[p] EXCEPT !.statut = "ACCEPTEE"]
        ELSE IF p \in refused THEN [offers[p] EXCEPT !.statut = "REFUSEE"]
        ELSE offers[p]]

\* The commit shows the writes of all three statements.
CommitAcceptance(s) ==
    LET call == offerCall[s] IN
    /\ call.step = "rivals" /\ call.left = {}
    /\ offers' = Accepted(call.offer, call.refused)
    /\ purchase' = [purchase EXCEPT ![offers[call.offer].order] = offers[call.offer].price]
    /\ EndsCall(s)
    /\ UNCHANGED sent

\* A call is cut off, or is the one that PostgreSQL picks of two that wait for
\* each other: it rolls back.
OfferCallFails(s) ==
    /\ offerCall[s] # NoOfferCall
    /\ EndsCall(s)
    /\ UNCHANGED <<offers, sent, purchase>>

-----------------------------------------------------------------------------

PurchasingNext ==
    \/ \E j \in Orders, price \in Prices : CreateOffer(j, price)
    \/ \E o \in DOMAIN offers :
        \/ RejectOffer(o) \/ CounterOffer(o)
        \/ \E s \in Sessions : ReadToCancel(s, o) \/ ReadToAccept(s, o) \/ RefuseRival(s, o)
    \/ \E s \in Sessions :
        \/ CancelOffer(s) \/ WriteOwnOffer(s) \/ WriteOrder(s) \/ LookForRivals(s)
        \/ CommitAcceptance(s) \/ OfferCallFails(s)

PurchasingSpec == PurchasingInit /\ [][PurchasingNext]_purchasingVars

-----------------------------------------------------------------------------

PurchasingTypeOK ==
    /\ offers \in Seq(Offers) /\ Len(offers) <= MaxOffers
    /\ sent \subseteq 1..MaxOffers
    /\ purchase \in [Orders -> Prices \union {None}]
    /\ offerCall \in [Sessions -> OfferCalls]
    /\ late \in [Sessions -> SUBSET (1..MaxOffers)]

\* A mission changes its price only at the commit of an acceptance, together with
\* the offer that becomes ACCEPTEE at that price, and of the other offers of the
\* mission that step leaves none waiting for an answer but those that were sent or
\* countered after the acceptance looked for them: whatever other calls did to the
\* rivals while its three UPDATEs waited for them, it misses no older one
\* (accept_offer).
AcceptanceSettles ==
    [][\A j \in Orders : purchase'[j] # purchase[j] =>
        \E s \in Sessions : LET o == offerCall[s].offer IN
            /\ offerCall[s].step = "rivals" /\ offerCall'[s] = NoOfferCall
            /\ offers[o].order = j /\ purchase'[j] = offers[o].price
            /\ offers'[o].statut = "ACCEPTEE"
            /\ \A p \in DOMAIN offers' \ {o} :
                    (offers'[p].order = j /\ offers'[p].statut \in Pending) => p \in late[s]
      ]_purchasingVars

\* An acceptance leaves no other offer of the mission waiting for an answer: the
\* comment above the UPDATE of the rivals (accept_offer).
\* The code does not keep this.
NoneIsLeftPending ==
    [][\A j \in Orders : purchase'[j] # purchase[j] =>
        \A p \in DOMAIN offers' : offers'[p].order = j => offers'[p].statut \notin Pending
      ]_purchasingVars

\* A mission has one accepted offer at most: what the refusal of the other
\* offers of the mission is for (accept_offer).
\* The code does not keep this.
OneAcceptedOffer ==
    \A o, p \in DOMAIN offers :
        (/\ offers[o].order = offers[p].order
         /\ {offers[o].statut, offers[p].statut} = {"ACCEPTEE"}) => o = p

\* Only offers that wait for an answer are cancelled: what cancel_offer
\* answers to a call about another offer.
\* The code does not keep this.
OnlyPendingIsCancelled ==
    [][\A o \in DOMAIN offers :
        (offers'[o].statut = "ANNULEE" /\ offers[o].statut # "ANNULEE")
            => offers[o].statut \in Cancellable]_purchasingVars

=============================================================================
