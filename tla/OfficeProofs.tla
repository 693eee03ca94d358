----------------------------- MODULE OfficeProofs -----------------------------
(***************************************************************************)
(* Proofs about the components of the office for any number of rows, calls *)
(* and days: types, claims without holes, acceptances that settle their    *)
(* mission, bills approved after their matching, equal prices for equal    *)
(* distances, and runs that are generated once.                            *)
(***************************************************************************)
EXTENDS MCOffice, TLAPS, FiniteSetTheorems, SequenceTheorems

-----------------------------------------------------------------------------
(* Tables: sequences of rows                                                 *)

\* One row of a table is written.
LEMMA RowWritten ==
  ASSUME NEW S, NEW table \in Seq(S), NEW i \in DOMAIN table, NEW row \in S
  PROVE  /\ [table EXCEPT ![i] = row] \in Seq(S)
         /\ Len([table EXCEPT ![i] = row]) = Len(table)
         /\ DOMAIN [table EXCEPT ![i] = row] = DOMAIN table
         /\ \A k \in DOMAIN table : [table EXCEPT ![i] = row][k] = IF k = i THEN row ELSE table[k]
  OBVIOUS

\* All rows of a table are written at once.
LEMMA RowsWritten ==
  ASSUME NEW S, NEW table \in Seq(S), NEW new \in [DOMAIN table -> S]
  PROVE  new \in Seq(S) /\ Len(new) = Len(table) /\ DOMAIN new = DOMAIN table
  <1>1. DOMAIN table = 1..Len(table) /\ Len(table) \in Nat
    OBVIOUS
  <1>2. new \in [1..Len(table) -> S]
    BY <1>1
  <1> QED
    BY <1>1, <1>2

\* A row is added at the end.
LEMMA RowAdded ==
  ASSUME NEW S, NEW table \in Seq(S), NEW row \in S
  PROVE  /\ Append(table, row) \in Seq(S)
         /\ Len(Append(table, row)) = Len(table) + 1 /\ Len(table) \in Nat
         /\ DOMAIN table = 1..Len(table)
         /\ DOMAIN Append(table, row) = DOMAIN table \union {Len(table) + 1}
         /\ \A k \in DOMAIN table : Append(table, row)[k] = table[k]
         /\ Append(table, row)[Len(table) + 1] = row
  OBVIOUS

-----------------------------------------------------------------------------
(* Claims                                                                    *)

\* The numbers are the places of the claims.
NumberedInOrder == \A i \in DOMAIN claims : claims[i].numero = i

\* What a call has counted is the number of claims of that moment or now.
CountsLag == \A s \in Sessions : counted[s] # None => /\ counted[s] <= Len(claims)
                                                      /\ counted[s] < MaxClaims

ClaimsInv == ClaimsTypeOK /\ NumberedInOrder /\ CountsLag

LEMMA ClaimsInvInit == ClaimsInit => ClaimsInv
  BY ClaimsAssumption
  DEF ClaimsInit, ClaimsInv, ClaimsTypeOK, SettledClaimsAreDated, NumberedInOrder, CountsLag

\* The index lets an INSERT through only if nothing was inserted since the count.
LEMMA IndexAdmitsTheNext ==
  ASSUME ClaimsInv, NEW s \in Sessions, InsertClaim(s)
  PROVE  counted[s] = Len(claims) /\ Len(claims) < MaxClaims
  <1>1. counted[s] \in Nat /\ counted[s] <= Len(claims) /\ counted[s] < MaxClaims
    BY DEF ClaimsInv, ClaimsTypeOK, CountsLag, InsertClaim
  <1>2. Len(claims) \in Nat /\ DOMAIN claims = 1..Len(claims)
    BY DEF ClaimsInv, ClaimsTypeOK
  <1>3. counted[s] + 1 \notin DOMAIN claims
    BY DEF ClaimsInv, NumberedInOrder, InsertClaim, Bearing
  <1> QED
    BY <1>1, <1>2, <1>3

\* A step that changes one claim and not its number.
LEMMA ChangeKeeps ==
  ASSUME ClaimsInv, NEW i \in DOMAIN claims, NEW row \in Claims,
         row.numero = claims[i].numero,
         row.statut \in Settled => row.cloture # None,
         claims' = [claims EXCEPT ![i] = row],
         UNCHANGED <<counted, claimDay>>
  PROVE  ClaimsInv'
  <1> USE DEF ClaimsInv, ClaimsTypeOK
  <1>1. claims' \in Seq(Claims) /\ DOMAIN claims' = DOMAIN claims /\ Len(claims') = Len(claims)
    OBVIOUS
  <1>2. \A k \in DOMAIN claims : claims'[k] = IF k = i THEN row ELSE claims[k]
    OBVIOUS
  <1>3. SettledClaimsAreDated' /\ NumberedInOrder'
    BY <1>1, <1>2 DEF SettledClaimsAreDated, NumberedInOrder
  <1>4. CountsLag'
    BY <1>1 DEF CountsLag
  <1> QED
    BY <1>1, <1>3, <1>4

LEMMA ClaimsInvStep == ClaimsInv /\ [ClaimsNext]_claimVars => ClaimsInv'
  <1> SUFFICES ASSUME ClaimsInv, [ClaimsNext]_claimVars PROVE ClaimsInv'
    OBVIOUS
  <1> USE ClaimsAssumption
  <1>1. ASSUME NEW s \in Sessions, CountClaims(s) PROVE ClaimsInv'
    <2>1. Len(claims) \in Nat
      BY DEF ClaimsInv, ClaimsTypeOK
    <2> QED
      BY <1>1, <2>1 DEF ClaimsInv, ClaimsTypeOK, SettledClaimsAreDated, NumberedInOrder, CountsLag,
                        CountClaims
  <1>2. ASSUME NEW s \in Sessions, InsertClaim(s) PROVE ClaimsInv'
    <2>1. counted[s] = Len(claims) /\ Len(claims) \in Nat
      BY <1>2, IndexAdmitsTheNext DEF ClaimsInv, ClaimsTypeOK
    <2>2. /\ claims' = Append(claims, NewClaim(Len(claims) + 1))
          /\ NewClaim(Len(claims) + 1) \in Claims
      BY <1>2, <2>1 DEF InsertClaim, NewClaim, Claims, StatutsSinistre
    <2>3. /\ claims' \in Seq(Claims) /\ Len(claims') = Len(claims) + 1
          /\ \A k \in DOMAIN claims' :
                IF k = Len(claims) + 1 THEN claims'[k] = NewClaim(k) ELSE k \in DOMAIN claims /\ claims'[k] = claims[k]
      BY <2>1, <2>2 DEF ClaimsInv, ClaimsTypeOK
    <2>4. SettledClaimsAreDated' /\ NumberedInOrder'
      BY <2>3 DEF ClaimsInv, ClaimsTypeOK, SettledClaimsAreDated, NumberedInOrder, NewClaim, Settled
    <2>5. counted' \in [Sessions -> Nat \union {None}] /\ CountsLag'
      BY <1>2, <2>1, <2>3 DEF ClaimsInv, ClaimsTypeOK, CountsLag, InsertClaim
    <2> QED
      BY <1>2, <2>3, <2>4, <2>5 DEF ClaimsInv, ClaimsTypeOK, InsertClaim
  <1>3. ASSUME NEW s \in Sessions, ClaimCallFails(s) PROVE ClaimsInv'
    BY <1>3 DEF ClaimsInv, ClaimsTypeOK, SettledClaimsAreDated, NumberedInOrder, CountsLag,
                ClaimCallFails
  <1>4. ASSUME NEW i \in DOMAIN claims, NEW day \in 0..MaxClaimDay, UpdateClaim(i, day)
        PROVE  ClaimsInv'
    <2>1. claims[i] \in Claims /\ day # None
      BY DEF ClaimsInv, ClaimsTypeOK
    <2>2. [claims[i] EXCEPT !.cloture = day] \in Claims
      BY <2>1 DEF Claims
    <2>3. claims' = [claims EXCEPT ![i] = [claims[i] EXCEPT !.cloture = day]]
      BY <1>4 DEF UpdateClaim
    <2> QED
      BY <1>4, <2>1, <2>2, <2>3, ChangeKeeps DEF UpdateClaim, Claims
  <1>5. ASSUME NEW i \in DOMAIN claims, NEW statut \in StatutsSinistre, ChangeClaimStatus(i, statut)
        PROVE  ClaimsInv'
    <2> DEFINE row == [claims[i] EXCEPT !.statut = statut,
                                        !.cloture = IF statut \in Settled THEN claimDay ELSE @]
    <2>1. claims[i] \in Claims /\ claimDay \in Nat
      BY DEF ClaimsInv, ClaimsTypeOK
    <2>2. row \in Claims /\ row.numero = claims[i].numero
      BY <2>1 DEF Claims
    <2>3. row.statut \in Settled => row.cloture # None
      BY <2>1 DEF Claims
    <2>4. claims' = [claims EXCEPT ![i] = row] /\ UNCHANGED <<counted, claimDay>>
      BY <1>5 DEF ChangeClaimStatus
    <2> HIDE DEF row
    <2> QED
      BY <2>2, <2>3, <2>4, ChangeKeeps
  <1>6. CASE NextClaimDay
    BY <1>6 DEF ClaimsInv, ClaimsTypeOK, SettledClaimsAreDated, NumberedInOrder, CountsLag,
                NextClaimDay
  <1>7. CASE UNCHANGED claimVars
    BY <1>7 DEF ClaimsInv, ClaimsTypeOK, SettledClaimsAreDated, NumberedInOrder, CountsLag, claimVars
  <1> QED
    BY <1>1, <1>2, <1>3, <1>4, <1>5, <1>6, <1>7 DEF ClaimsNext

LEMMA ClaimsInvAlways == ClaimsSpec => []ClaimsInv
  BY ClaimsInvInit, ClaimsInvStep, PTL DEF ClaimsSpec

-----------------------------------------------------------------------------

\* Claims, counts and the calendar keep their types, and settled claims their
\* closing dates (create_claim, update_claim, change_claim_status).
THEOREM ClaimsTypeCorrect == ClaimsSpec => []ClaimsTypeOK
  BY ClaimsInvAlways, PTL DEF ClaimsInv

\* Claims are numbered 1, 2, 3, ... without a hole, though create_claim counts
\* them without a lock: the unique index admits the next number and no other.
THEOREM ClaimsAreGapless == ClaimsSpec => GaplessClaims
  <1>1. ClaimsInit => ClaimNumbering!Init
    BY DEF ClaimsInit, ClaimNumbering!Init
  <1>2. ClaimsInv /\ [ClaimsNext]_claimVars => [ClaimNumbering!Next]_(ClaimNumbering!vars)
    <2> SUFFICES ASSUME ClaimsInv, [ClaimsNext]_claimVars
                 PROVE  [ClaimNumbering!Next]_(ClaimNumbering!vars)
      OBVIOUS
    <2>1. ASSUME NEW s \in Sessions, InsertClaim(s) PROVE ClaimNumbering!Next
      <3>1. counted[s] = Len(claims) /\ Len(claims) \in Nat /\ Len(claims) < MaxClaims
        BY <2>1, IndexAdmitsTheNext DEF ClaimsInv, ClaimsTypeOK
      <3>2. claims' = Append(claims, NewClaim(Len(claims) + 1)) /\ claims \in Seq(Claims)
        BY <2>1, <3>1 DEF InsertClaim, ClaimsInv, ClaimsTypeOK
      <3>3. Len(claims') = Len(claims) + 1 /\ DOMAIN claims' = DOMAIN claims \union {Len(claims) + 1}
        BY <3>1, <3>2
      <3>4. /\ \A k \in DOMAIN claims : claims'[k] = claims[k]
            /\ claims'[Len(claims) + 1].numero = Len(claims) + 1
        BY <3>1, <3>2 DEF NewClaim
      <3>5. {<<k, "SIN", claims'[k].numero>> : k \in DOMAIN claims'}
              = {<<k, "SIN", claims[k].numero>> : k \in DOMAIN claims}
                  \union {<<Len(claims) + 1, "SIN", Len(claims) + 1>>}
        BY <3>3, <3>4
      <3>6. ClaimNumbering!Issue(Len(claims) + 1, "SIN")
        BY <3>1, <3>3, <3>5 DEF ClaimNumbering!Issue
      <3>7. Len(claims) + 1 \in 1..MaxClaims
        BY <3>1, ClaimsAssumption
      <3> QED
        BY <3>6, <3>7 DEF ClaimNumbering!Next
    <2>2. ASSUME NEW i \in DOMAIN claims, NEW row, row.numero = claims[i].numero,
                 claims' = [claims EXCEPT ![i] = row]
          PROVE  UNCHANGED ClaimNumbering!vars
      <3>1. DOMAIN claims' = DOMAIN claims /\ Len(claims') = Len(claims)
        BY <2>2 DEF ClaimsInv, ClaimsTypeOK
      <3>2. \A k \in DOMAIN claims : claims'[k].numero = claims[k].numero
        BY <2>2 DEF ClaimsInv, ClaimsTypeOK
      <3> QED
        BY <3>1, <3>2 DEF ClaimNumbering!vars
    <2>3. ASSUME NEW i \in DOMAIN claims, NEW day \in 0..MaxClaimDay, UpdateClaim(i, day)
          PROVE  UNCHANGED ClaimNumbering!vars
      <3>1. claims[i] \in Claims
        BY DEF ClaimsInv, ClaimsTypeOK
      <3>2. [claims[i] EXCEPT !.cloture = day].numero = claims[i].numero
        BY <3>1 DEF Claims
      <3>3. claims' = [claims EXCEPT ![i] = [claims[i] EXCEPT !.cloture = day]]
        BY <2>3 DEF UpdateClaim
      <3> QED
        BY <2>2, <3>2, <3>3
    <2>4. ASSUME NEW i \in DOMAIN claims, NEW statut \in StatutsSinistre,
                 ChangeClaimStatus(i, statut)
          PROVE  UNCHANGED ClaimNumbering!vars
      <3> DEFINE row == [claims[i] EXCEPT !.statut = statut,
                                          !.cloture = IF statut \in Settled THEN claimDay ELSE @]
      <3>1. claims[i] \in Claims
        BY DEF ClaimsInv, ClaimsTypeOK
      <3>2. row.numero = claims[i].numero
        BY <3>1 DEF Claims
      <3>3. claims' = [claims EXCEPT ![i] = row]
        BY <2>4 DEF ChangeClaimStatus
      <3> HIDE DEF row
      <3> QED
        BY <2>2, <3>2, <3>3
    <2>5. CASE UNCHANGED claims
      BY <2>5 DEF ClaimNumbering!vars
    <2> QED
      BY <2>1, <2>3, <2>4, <2>5
      DEF ClaimsNext, claimVars, CountClaims, ClaimCallFails, NextClaimDay
  <1> QED
    BY <1>1, <1>2, ClaimsInvAlways, PTL DEF ClaimsSpec, GaplessClaims, ClaimNumbering!Spec

-----------------------------------------------------------------------------
(* Purchasing                                                                *)

\* A call under way is about an offer that was sent.
CallsHaveOffers ==
    \A s \in Sessions : offerCall[s] # NoOfferCall => offerCall[s].offer \in DOMAIN offers

PurchasingInv == PurchasingTypeOK /\ CallsHaveOffers

LEMMA PurchasingInvInit == PurchasingInit => PurchasingInv
  BY PurchasingAssumption
  DEF PurchasingInit, PurchasingInv, PurchasingTypeOK, CallsHaveOffers, OfferCalls

\* What a call is about, by its step.
LEMMA OfferCallShape ==
  ASSUME PurchasingInv, NEW s \in Sessions,
         offerCall[s].step \in {"read", "own", "job", "rivals"}
  PROVE  /\ offerCall[s].offer \in DOMAIN offers
         /\ offerCall[s].kind \in {"accept", "cancel"}
         /\ offerCall[s].kind = "cancel" => offerCall[s].step = "read"
         /\ offers[offerCall[s].offer] \in Offers
  BY DEF PurchasingInv, PurchasingTypeOK, CallsHaveOffers, OfferCalls, NoOfferCall

\* A call goes on: its offer stays the same.
LEMMA OfferCallMoves ==
  ASSUME PurchasingInv, NEW s \in Sessions, NEW call \in OfferCalls,
         call # NoOfferCall => call.offer \in DOMAIN offers,
         offerCall' = [offerCall EXCEPT ![s] = call],
         late' = late \/ late' = [late EXCEPT ![s] = {}],
         UNCHANGED <<offers, sent, purchase>>
  PROVE  PurchasingInv'
  BY DEF PurchasingInv, PurchasingTypeOK, CallsHaveOffers

\* Rows change and calls end: no offer is lost.
LEMMA OffersChange ==
  ASSUME PurchasingInv, offers' \in Seq(Offers), Len(offers') = Len(offers),
         purchase' \in [Orders -> Prices \union {None}], UNCHANGED sent,
         late' \in [Sessions -> SUBSET (1..MaxOffers)],
         \/ UNCHANGED offerCall
         \/ \E s \in Sessions : offerCall' = [offerCall EXCEPT ![s] = NoOfferCall]
  PROVE  PurchasingInv'
  <1>1. DOMAIN offers' = DOMAIN offers
    BY DEF PurchasingInv, PurchasingTypeOK
  <1>2. offerCall' \in [Sessions -> OfferCalls]
    BY DEF PurchasingInv, PurchasingTypeOK, OfferCalls
  <1>3. CallsHaveOffers'
    BY <1>1 DEF PurchasingInv, PurchasingTypeOK, CallsHaveOffers
  <1> QED
    BY <1>2, <1>3 DEF PurchasingInv, PurchasingTypeOK

LEMMA StatutChanges ==
  ASSUME PurchasingInv, NEW o \in DOMAIN offers, NEW statut \in StatutsOffre
  PROVE  /\ [offers EXCEPT ![o].statut = statut] \in Seq(Offers)
         /\ Len([offers EXCEPT ![o].statut = statut]) = Len(offers)
  <1>1. offers \in Seq(Offers) /\ offers[o] \in Offers
    BY DEF PurchasingInv, PurchasingTypeOK
  <1>2. [offers[o] EXCEPT !.statut = statut] \in Offers
    BY <1>1 DEF Offers
  <1> QED
    BY <1>1, <1>2, RowWritten

\* Offers that arrive late are offers.
LEMMA ArrivalTyped ==
  ASSUME PurchasingInv, NEW o \in 1..MaxOffers, Arrives(o)
  PROVE  late' \in [Sessions -> SUBSET (1..MaxOffers)]
  BY DEF Arrives, PurchasingInv, PurchasingTypeOK

\* What it changes of the rows.
LEMMA StatutKept ==
  ASSUME PurchasingInv, NEW o \in DOMAIN offers, NEW statut,
         offers' = [offers EXCEPT ![o].statut = statut]
  PROVE  /\ DOMAIN offers' = DOMAIN offers /\ offers'[o].statut = statut
         /\ \A p \in DOMAIN offers : offers'[p].order = offers[p].order
         /\ \A p \in DOMAIN offers \ {o} : offers'[p] = offers[p]
  <1>1. offers[o] \in Offers
    BY DEF PurchasingInv, PurchasingTypeOK
  <1> QED
    BY <1>1 DEF Offers, PurchasingInv, PurchasingTypeOK

LEMMA AcceptanceChanges ==
  ASSUME PurchasingInv, NEW o \in DOMAIN offers, NEW refused
  PROVE  /\ Accepted(o, refused) \in Seq(Offers) /\ Len(Accepted(o, refused)) = Len(offers)
         /\ DOMAIN Accepted(o, refused) = DOMAIN offers
         /\ Accepted(o, refused)[o].statut = "ACCEPTEE"
         /\ \A p \in DOMAIN offers \ {o} :
                Accepted(o, refused)[p].statut \in Pending
                    => p \notin refused /\ offers[p].statut \in Pending
         /\ \A p \in DOMAIN offers : Accepted(o, refused)[p].order = offers[p].order
  <1> DEFINE after == Accepted(o, refused)
  <1>1. \A p \in DOMAIN offers : offers[p] \in Offers
    BY DEF PurchasingInv, PurchasingTypeOK
  <1>2. \A p \in DOMAIN offers : after[p] \in Offers /\ after[p].order = offers[p].order
    BY <1>1 DEF Accepted, Offers, StatutsOffre
  <1>3. offers \in Seq(Offers) /\ DOMAIN after = DOMAIN offers
    BY DEF PurchasingInv, PurchasingTypeOK, Accepted
  <1>4. after \in Seq(Offers) /\ Len(after) = Len(offers)
    <2>1. after \in [DOMAIN offers -> Offers]
      BY <1>2 DEF Accepted
    <2> QED
      BY <1>3, <2>1, RowsWritten
  <1>5. after[o].statut = "ACCEPTEE"
    BY <1>1 DEF Accepted, Offers
  <1>6. ASSUME NEW p \in DOMAIN offers \ {o}, after[p].statut \in Pending
        PROVE  p \notin refused /\ offers[p].statut \in Pending
    BY <1>1, <1>6 DEF Accepted, Offers, Pending
  <1> QED
    BY <1>2, <1>3, <1>4, <1>5, <1>6

LEMMA PurchasingInvStep == PurchasingInv /\ [PurchasingNext]_purchasingVars => PurchasingInv'
  <1> SUFFICES ASSUME PurchasingInv, [PurchasingNext]_purchasingVars PROVE PurchasingInv'
    OBVIOUS
  <1>1. ASSUME NEW j \in Orders, NEW price \in Prices, CreateOffer(j, price) PROVE PurchasingInv'
    <2> DEFINE new == [order |-> j, price |-> price, statut |-> "ENVOYEE"]
    <2>1. new \in Offers /\ Len(offers) \in Nat
      BY DEF Offers, StatutsOffre, PurchasingInv, PurchasingTypeOK
    <2>2. offers' = Append(offers, new)
      BY <1>1 DEF CreateOffer
    <2>3. /\ offers' \in Seq(Offers) /\ Len(offers') = Len(offers) + 1
          /\ DOMAIN offers \subseteq DOMAIN offers'
      BY <2>1, <2>2 DEF PurchasingInv, PurchasingTypeOK
    <2>4. Len(offers') <= MaxOffers /\ sent' \subseteq 1..MaxOffers
      BY <1>1, <2>1, <2>3, PurchasingAssumption DEF CreateOffer, PurchasingInv, PurchasingTypeOK
    <2>5. late' \in [Sessions -> SUBSET (1..MaxOffers)]
      BY <1>1, <2>1, ArrivalTyped, PurchasingAssumption DEF CreateOffer
    <2> QED
      BY <1>1, <2>3, <2>4, <2>5 DEF CreateOffer, PurchasingInv, PurchasingTypeOK, CallsHaveOffers
  <1>2. ASSUME NEW o \in DOMAIN offers, RejectOffer(o) \/ CounterOffer(o) PROVE PurchasingInv'
    <2>1. PICK statut \in {"REFUSEE", "CONTRE_OFFRE"} : offers' = [offers EXCEPT ![o].statut = statut]
      BY <1>2 DEF RejectOffer, CounterOffer
    <2>2. statut \in StatutsOffre
      BY <2>1 DEF StatutsOffre
    <2>3. offers' \in Seq(Offers) /\ Len(offers') = Len(offers)
      BY <2>1, <2>2, StatutChanges
    <2>4. late' \in [Sessions -> SUBSET (1..MaxOffers)]
      <3>1. o \in 1..MaxOffers
        BY PurchasingAssumption DEF PurchasingInv, PurchasingTypeOK
      <3> QED
        BY <1>2, <3>1, ArrivalTyped DEF RejectOffer, CounterOffer, PurchasingInv, PurchasingTypeOK
    <2> QED
      BY <1>2, <2>3, <2>4, OffersChange DEF RejectOffer, CounterOffer, PurchasingInv, PurchasingTypeOK
  <1>3. ASSUME NEW o \in DOMAIN offers, NEW s \in Sessions, ReadToCancel(s, o) \/ ReadToAccept(s, o)
        PROVE  PurchasingInv'
    <2>1. \A kind \in {"accept", "cancel"} : [step |-> "read", kind |-> kind, offer |-> o] \in OfferCalls
      BY PurchasingAssumption DEF OfferCalls, PurchasingInv, PurchasingTypeOK
    <2> QED
      BY <1>3, <2>1, OfferCallMoves DEF ReadToCancel, ReadToAccept
  <1>4. ASSUME NEW s \in Sessions, CancelOffer(s) PROVE PurchasingInv'
    <2>1. offerCall[s].offer \in DOMAIN offers
      BY <1>4, OfferCallShape DEF CancelOffer
    <2> QED
      BY <1>4, <2>1, StatutChanges, OffersChange
      DEF CancelOffer, EndsCall, StatutsOffre, PurchasingInv, PurchasingTypeOK
  <1>5. ASSUME NEW s \in Sessions, WriteOwnOffer(s) \/ WriteOrder(s) PROVE PurchasingInv'
    <2>1. /\ offerCall[s] \in OfferCalls /\ offerCall[s].step \in {"read", "own"}
          /\ offerCall[s].offer \in DOMAIN offers /\ offerCall[s].kind = "accept"
      BY <1>5, OfferCallShape
      DEF WriteOwnOffer, WriteOrder, PurchasingInv, PurchasingTypeOK, OfferCalls, NoOfferCall
    <2>2. \A step \in {"own", "job"} :
              /\ [offerCall[s] EXCEPT !.step = step] \in OfferCalls
              /\ [offerCall[s] EXCEPT !.step = step].offer = offerCall[s].offer
      BY <2>1 DEF OfferCalls, NoOfferCall
    <2> QED
      BY <1>5, <2>1, <2>2, OfferCallMoves DEF WriteOwnOffer, WriteOrder
  <1>6. ASSUME NEW s \in Sessions, LookForRivals(s) PROVE PurchasingInv'
    <2> DEFINE o == offerCall[s].offer
               call == [step |-> "rivals", kind |-> "accept", offer |-> o,
                        left |-> Rivals(o), refused |-> {}]
    <2>1. o \in DOMAIN offers /\ o \in 1..MaxOffers /\ Rivals(o) \subseteq 1..MaxOffers
      BY <1>6, OfferCallShape, PurchasingAssumption
      DEF LookForRivals, Rivals, PurchasingInv, PurchasingTypeOK
    <2>2. call \in OfferCalls /\ call.offer \in DOMAIN offers
      BY <2>1 DEF OfferCalls
    <2> HIDE DEF call
    <2> QED
      BY <1>6, <2>2, OfferCallMoves DEF LookForRivals, call
  <1>7. ASSUME NEW s \in Sessions, NEW p \in DOMAIN offers, RefuseRival(s, p) PROVE PurchasingInv'
    <2> DEFINE o == offerCall[s].offer
               call == [offerCall[s] EXCEPT !.left = @ \ {p},
                                            !.refused = @ \union ({p} \intersect Rivals(o))]
    <2>1. /\ offerCall[s] \in OfferCalls /\ offerCall[s].step = "rivals"
          /\ o \in DOMAIN offers /\ p \in 1..MaxOffers
      BY <1>7, OfferCallShape, PurchasingAssumption
      DEF RefuseRival, PurchasingInv, PurchasingTypeOK
    <2>2. /\ offerCall[s].left \subseteq 1..MaxOffers
          /\ offerCall[s].refused \subseteq 1..MaxOffers
      BY <2>1 DEF OfferCalls, NoOfferCall
    <2>3. call \in OfferCalls /\ call.offer \in DOMAIN offers
      BY <2>1, <2>2 DEF OfferCalls, NoOfferCall
    <2>4. offerCall' = [offerCall EXCEPT ![s] = call]
      BY <1>7 DEF RefuseRival
    <2> HIDE DEF call
    <2> QED
      BY <1>7, <2>3, <2>4, OfferCallMoves DEF RefuseRival
  <1>8. ASSUME NEW s \in Sessions, CommitAcceptance(s) PROVE PurchasingInv'
    <2> DEFINE o == offerCall[s].offer
    <2>1. o \in DOMAIN offers /\ offers[o] \in Offers
      BY <1>8, OfferCallShape DEF CommitAcceptance
    <2>2. purchase' \in [Orders -> Prices \union {None}]
      BY <1>8, <2>1 DEF CommitAcceptance, PurchasingInv, PurchasingTypeOK, Offers
    <2>3. late' \in [Sessions -> SUBSET (1..MaxOffers)]
      BY <1>8 DEF CommitAcceptance, EndsCall, PurchasingInv, PurchasingTypeOK
    <2>4. offers' \in Seq(Offers) /\ Len(offers') = Len(offers)
      BY <1>8, <2>1, AcceptanceChanges DEF CommitAcceptance
    <2>5. UNCHANGED sent /\ offerCall' = [offerCall EXCEPT ![s] = NoOfferCall]
      BY <1>8 DEF CommitAcceptance, EndsCall
    <2> QED
      BY <2>2, <2>3, <2>4, <2>5, OffersChange
  <1>9. ASSUME NEW s \in Sessions, OfferCallFails(s) PROVE PurchasingInv'
    BY <1>9, OfferCallMoves DEF OfferCallFails, EndsCall, OfferCalls
  <1>10. CASE UNCHANGED purchasingVars
    BY <1>10 DEF purchasingVars, PurchasingInv, PurchasingTypeOK, CallsHaveOffers
  <1> QED
    BY <1>1, <1>2, <1>3, <1>4, <1>5, <1>6, <1>7, <1>8, <1>9, <1>10 DEF PurchasingNext

LEMMA PurchasingInvAlways == PurchasingSpec => []PurchasingInv
  BY PurchasingInvInit, PurchasingInvStep, PTL DEF PurchasingSpec

\* Offers, prices of missions and calls keep their types, and no call is about an
\* offer that does not exist (create_offer, accept_offer, cancel_offer).
THEOREM PurchasingTypeCorrect == PurchasingSpec => []PurchasingTypeOK
  BY PurchasingInvAlways, PTL DEF PurchasingInv

\* An acceptance that has looked for its rivals misses none: every offer of the
\* mission that waits for an answer is one that it still comes to or has refused,
\* or arrived after it looked.
NoneMissed ==
    \A s \in Sessions : offerCall[s].step = "rivals" =>
        \A p \in Rivals(offerCall[s].offer) :
            p \in offerCall[s].left \union offerCall[s].refused \union late[s]

\* It stays so for a call that does not move, when offers arrive, are answered or
\* are cancelled.
LEMMA NoneMissedOf ==
  ASSUME PurchasingInv, NoneMissed, NEW s \in Sessions,
         offerCall'[s] = offerCall[s], late[s] \subseteq late'[s],
         DOMAIN offers \subseteq DOMAIN offers',
         \A p \in DOMAIN offers : offers'[p].order = offers[p].order,
         \A p \in DOMAIN offers' : offers'[p].statut \in Pending =>
             \/ p \in DOMAIN offers /\ offers[p].statut \in Pending
             \/ offerCall[s].step = "rivals" => p \in late'[s],
         offerCall'[s].step = "rivals"
  PROVE  \A p \in Rivals(offerCall[s].offer)' :
             p \in offerCall'[s].left \union offerCall'[s].refused \union late'[s]
  <1>1. offerCall[s].offer \in DOMAIN offers
    BY OfferCallShape
  <1> QED
    BY <1>1 DEF NoneMissed, Rivals

LEMMA NoneMissedStep ==
  ASSUME PurchasingInv, NoneMissed, [PurchasingNext]_purchasingVars PROVE NoneMissed'
  <1> DEFINE Stays(s) ==
        offerCall'[s].step = "rivals" =>
            \A p \in Rivals(offerCall[s].offer)' :
                p \in offerCall'[s].left \union offerCall'[s].refused \union late'[s]
  <1> SUFFICES ASSUME NEW t \in Sessions PROVE Stays(t)
    BY DEF NoneMissed
  <1>1. ASSUME NEW j \in Orders, NEW price \in Prices, CreateOffer(j, price) PROVE Stays(t)
    <2> DEFINE new == [order |-> j, price |-> price, statut |-> "ENVOYEE"]
    <2>1. offers' = Append(offers, new) /\ offers \in Seq(Offers) /\ new \in Offers
      BY <1>1 DEF CreateOffer, PurchasingInv, PurchasingTypeOK, Offers, StatutsOffre
    <2>2. /\ DOMAIN offers \subseteq DOMAIN offers'
          /\ \A p \in DOMAIN offers : offers'[p] = offers[p]
          /\ \A p \in DOMAIN offers' : p \notin DOMAIN offers => p = Len(offers) + 1
      BY <2>1
    <2>3. /\ offerCall'[t] = offerCall[t]
          /\ late'[t] = IF offerCall[t].step = "rivals" THEN late[t] \union {Len(offers) + 1}
                        ELSE late[t]
      BY <1>1 DEF CreateOffer, Arrives
    <2> QED
      BY <2>2, <2>3, NoneMissedOf
  <1>2. ASSUME NEW o \in DOMAIN offers, RejectOffer(o) \/ CounterOffer(o) PROVE Stays(t)
    <2>1. /\ DOMAIN offers' = DOMAIN offers
          /\ \A p \in DOMAIN offers : offers'[p].order = offers[p].order
          /\ \A p \in DOMAIN offers \ {o} : offers'[p] = offers[p]
      BY <1>2, StatutKept DEF RejectOffer, CounterOffer
    <2>2. CASE RejectOffer(o)
      <3>1. offers'[o].statut = "REFUSEE"
        BY <2>2, StatutKept DEF RejectOffer
      <3> QED
        BY <2>1, <2>2, <3>1, NoneMissedOf DEF RejectOffer, Pending
    <2>3. CASE CounterOffer(o)
      <3>1. /\ offerCall'[t] = offerCall[t]
            /\ late'[t] = IF offerCall[t].step = "rivals" THEN late[t] \union {o} ELSE late[t]
        BY <2>3 DEF CounterOffer, Arrives
      <3> QED
        BY <2>1, <3>1, NoneMissedOf
    <2> QED
      BY <1>2, <2>2, <2>3
  <1>3. ASSUME NEW s \in Sessions, NEW call, call.step # "rivals",
               offerCall' = [offerCall EXCEPT ![s] = call],
               UNCHANGED offers, \/ UNCHANGED late
                                 \/ late' = [late EXCEPT ![s] = {}]
        PROVE  Stays(t)
    <2>1. CASE t = s
      BY <1>3, <2>1 DEF PurchasingInv, PurchasingTypeOK
    <2>2. CASE t # s
      <3>1. offerCall'[t] = offerCall[t] /\ late'[t] = late[t]
        BY <1>3, <2>2 DEF PurchasingInv, PurchasingTypeOK
      <3> QED
        BY <1>3, <3>1, NoneMissedOf
    <2> QED
      BY <2>1, <2>2
  <1>4. ASSUME NEW s \in Sessions, CancelOffer(s) PROVE Stays(t)
    <2> DEFINE o == offerCall[s].offer
    <2>1. o \in DOMAIN offers
      BY <1>4, OfferCallShape DEF CancelOffer
    <2>2. /\ DOMAIN offers' = DOMAIN offers
          /\ \A p \in DOMAIN offers : offers'[p].order = offers[p].order
          /\ \A p \in DOMAIN offers \ {o} : offers'[p] = offers[p]
          /\ offers'[o].statut = "ANNULEE"
      BY <1>4, <2>1, StatutKept DEF CancelOffer
    <2>3. CASE t = s
      BY <1>4, <2>3 DEF CancelOffer, EndsCall, NoOfferCall, PurchasingInv, PurchasingTypeOK
    <2>4. CASE t # s
      <3>1. offerCall'[t] = offerCall[t] /\ late'[t] = late[t]
        BY <1>4, <2>4 DEF CancelOffer, EndsCall, PurchasingInv, PurchasingTypeOK
      <3> QED
        BY <2>2, <3>1, NoneMissedOf DEF Pending
    <2> QED
      BY <2>3, <2>4
  <1>5. ASSUME NEW s \in Sessions, NEW o \in DOMAIN offers, ReadToCancel(s, o) \/ ReadToAccept(s, o)
        PROVE  Stays(t)
    BY <1>3, <1>5 DEF ReadToCancel, ReadToAccept
  <1>6. ASSUME NEW s \in Sessions, WriteOwnOffer(s) \/ WriteOrder(s) PROVE Stays(t)
    <2>1. offerCall[s] \in OfferCalls /\ offerCall[s].step \in {"read", "own"}
      BY <1>6 DEF WriteOwnOffer, WriteOrder, PurchasingInv, PurchasingTypeOK
    <2>2. PICK step \in {"own", "job"} :
              offerCall' = [offerCall EXCEPT ![s] = [offerCall[s] EXCEPT !.step = step]]
      BY <1>6 DEF WriteOwnOffer, WriteOrder
    <2>3. [offerCall[s] EXCEPT !.step = step].step = step
      BY <2>1 DEF OfferCalls, NoOfferCall
    <2> QED
      BY <1>3, <1>6, <2>2, <2>3 DEF WriteOwnOffer, WriteOrder
  <1>7. ASSUME NEW s \in Sessions, LookForRivals(s) PROVE Stays(t)
    <2>1. CASE t = s
      <3>1. /\ offerCall'[t].offer = offerCall[t].offer
            /\ offerCall'[t].left = Rivals(offerCall[t].offer)
            /\ UNCHANGED offers
        BY <1>7, <2>1 DEF LookForRivals, PurchasingInv, PurchasingTypeOK
      <3> QED
        BY <3>1 DEF Rivals
    <2>2. CASE t # s
      <3>1. offerCall'[t] = offerCall[t] /\ late'[t] = late[t] /\ UNCHANGED offers
        BY <1>7, <2>2 DEF LookForRivals, PurchasingInv, PurchasingTypeOK
      <3> QED
        BY <3>1, NoneMissedOf
    <2> QED
      BY <2>1, <2>2
  <1>8. ASSUME NEW s \in Sessions, NEW p \in DOMAIN offers, RefuseRival(s, p) PROVE Stays(t)
    <2>1. CASE t = s
      <3>1. offerCall[t] \in OfferCalls /\ offerCall[t].step = "rivals"
        BY <1>8, <2>1 DEF RefuseRival, PurchasingInv, PurchasingTypeOK
      <3>2. offerCall'[t] = [offerCall[t] EXCEPT
                !.left = @ \ {p}, !.refused = @ \union ({p} \intersect Rivals(offerCall[t].offer))]
        BY <1>8, <2>1 DEF RefuseRival, PurchasingInv, PurchasingTypeOK
      <3>3. /\ offerCall'[t].offer = offerCall[t].offer
            /\ offerCall'[t].left = offerCall[t].left \ {p}
            /\ offerCall'[t].refused = offerCall[t].refused
                                        \union ({p} \intersect Rivals(offerCall[t].offer))
        BY <3>1, <3>2 DEF OfferCalls, NoOfferCall
      <3>4. UNCHANGED <<offers, late>>
        BY <1>8 DEF RefuseRival
      <3> QED
        BY <3>1, <3>3, <3>4 DEF NoneMissed, Rivals
    <2>2. CASE t # s
      <3>1. offerCall'[t] = offerCall[t] /\ late'[t] = late[t] /\ UNCHANGED offers
        BY <1>8, <2>2 DEF RefuseRival, PurchasingInv, PurchasingTypeOK
      <3> QED
        BY <3>1, NoneMissedOf
    <2> QED
      BY <2>1, <2>2
  <1>9. ASSUME NEW s \in Sessions, CommitAcceptance(s) PROVE Stays(t)
    <2> DEFINE o == offerCall[s].offer
    <2>1. o \in DOMAIN offers
      BY <1>9, OfferCallShape DEF CommitAcceptance
    <2>2. /\ DOMAIN offers' = DOMAIN offers
          /\ \A p \in DOMAIN offers : offers'[p].order = offers[p].order
          /\ \A p \in DOMAIN offers : offers'[p].statut \in Pending => offers[p].statut \in Pending
      <3>1. offers' = Accepted(o, offerCall[s].refused)
        BY <1>9 DEF CommitAcceptance
      <3> QED
        BY <2>1, <3>1, AcceptanceChanges DEF Pending
    <2>3. CASE t = s
      BY <1>9, <2>3 DEF CommitAcceptance, EndsCall, NoOfferCall, PurchasingInv, PurchasingTypeOK
    <2>4. CASE t # s
      <3>1. offerCall'[t] = offerCall[t] /\ late'[t] = late[t]
        BY <1>9, <2>4 DEF CommitAcceptance, EndsCall, PurchasingInv, PurchasingTypeOK
      <3> QED
        BY <2>2, <3>1, NoneMissedOf
    <2> QED
      BY <2>3, <2>4
  <1>10. ASSUME NEW s \in Sessions, OfferCallFails(s) PROVE Stays(t)
    BY <1>3, <1>10 DEF OfferCallFails, EndsCall, NoOfferCall
  <1>11. CASE UNCHANGED purchasingVars
    BY <1>11 DEF purchasingVars, NoneMissed, Rivals
  <1> QED
    BY <1>1, <1>2, <1>4, <1>5, <1>6, <1>7, <1>8, <1>9, <1>10, <1>11 DEF PurchasingNext

LEMMA NoneMissedAlways == PurchasingSpec => []NoneMissed
  <1>1. PurchasingInit => NoneMissed
    BY DEF PurchasingInit, NoneMissed, NoOfferCall
  <1> QED
    BY <1>1, PurchasingInvAlways, NoneMissedStep, PTL DEF PurchasingSpec

\* The price of a mission changes only with the offer that is accepted at that
\* price, and that commit leaves no other offer of the mission waiting for an
\* answer but those that arrived after the acceptance looked for them
\* (accept_offer).
THEOREM AcceptancesSettle == PurchasingSpec => AcceptanceSettles
  <1> DEFINE Settles ==
        \A j \in Orders : purchase'[j] # purchase[j] =>
            \E s \in Sessions : LET o == offerCall[s].offer IN
                /\ offerCall[s].step = "rivals" /\ offerCall'[s] = NoOfferCall
                /\ offers[o].order = j /\ purchase'[j] = offers[o].price
                /\ offers'[o].statut = "ACCEPTEE"
                /\ \A p \in DOMAIN offers' \ {o} :
                        (offers'[p].order = j /\ offers'[p].statut \in Pending) => p \in late[s]
  <1>1. PurchasingInv /\ NoneMissed /\ [PurchasingNext]_purchasingVars => [Settles]_purchasingVars
    <2> SUFFICES ASSUME PurchasingInv, NoneMissed, [PurchasingNext]_purchasingVars PROVE Settles
      OBVIOUS
    <2>1. ASSUME NEW s \in Sessions, CommitAcceptance(s) PROVE Settles
      <3> DEFINE o == offerCall[s].offer
                 refused == offerCall[s].refused
      <3>1. o \in DOMAIN offers
        BY <2>1, OfferCallShape DEF CommitAcceptance
      <3>2. /\ offerCall[s].step = "rivals" /\ offerCall'[s] = NoOfferCall
            /\ offerCall[s].left = {}
            /\ offers' = Accepted(o, refused)
            /\ purchase' = [purchase EXCEPT ![offers[o].order] = offers[o].price]
        BY <2>1 DEF CommitAcceptance, EndsCall, PurchasingInv, PurchasingTypeOK
      <3>3. ASSUME NEW j \in Orders, purchase'[j] # purchase[j]
            PROVE  j = offers[o].order /\ purchase'[j] = offers[o].price
        BY <3>2, <3>3 DEF PurchasingInv, PurchasingTypeOK
      <3>4. offers'[o].statut = "ACCEPTEE" /\ DOMAIN offers' = DOMAIN offers
        BY <3>1, <3>2, AcceptanceChanges
      <3>5. ASSUME NEW p \in DOMAIN offers' \ {o}, offers'[p].order = offers[o].order,
                   offers'[p].statut \in Pending
            PROVE  p \in late[s]
        <4>1. /\ p \in DOMAIN offers \ {o} /\ p \notin refused
              /\ offers[p].order = offers[o].order /\ offers[p].statut \in Pending
          BY <3>1, <3>2, <3>4, <3>5, AcceptanceChanges
        <4>2. p \in Rivals(o)
          BY <4>1 DEF Rivals
        <4> QED
          BY <3>2, <4>1, <4>2 DEF NoneMissed
      <3> QED
        BY <3>2, <3>3, <3>4, <3>5
    <2>2. CASE UNCHANGED purchase
      BY <2>2
    <2> QED
      BY <2>1, <2>2
      DEF PurchasingNext, purchasingVars, CreateOffer, RejectOffer, CounterOffer, ReadToCancel,
          ReadToAccept, CancelOffer, WriteOwnOffer, WriteOrder, LookForRivals, RefuseRival,
          OfferCallFails
  <1> QED
    BY <1>1, PurchasingInvAlways, NoneMissedAlways, PTL DEF PurchasingSpec, AcceptanceSettles

-----------------------------------------------------------------------------
(* Scans                                                                     *)

\* A call that has made its check works on a row that exists.
BillCallsHaveRows ==
    \A s \in Sessions :
        /\ billCall[s].step = "validate" => billCall[s].scan \in DOMAIN scans
        /\ billCall[s].step = "approve" => billCall[s].bill \in DOMAIN bills

\* What an approval has found matched stays matched, or is approved by another.
CheckedIsMatched ==
    \A s \in Sessions : billCall[s].step = "approve" =>
        bills[billCall[s].bill].rapprochement # "EN_ATTENTE"

\* A bill is approved only after its matching.
ApprovedIsMatched ==
    \A b \in DOMAIN bills : bills[b].status = "approved" => bills[b].rapprochement # "EN_ATTENTE"

ScansInv == ScansTypeOK /\ BillCallsHaveRows /\ CheckedIsMatched /\ ApprovedIsMatched

LEMMA ScansInvInit == ScansInit => ScansInv
  BY ScansAssumption
  DEF ScansInit, ScansInv, ScansTypeOK, ValidatedScansHaveBills, BillCallsHaveRows,
      CheckedIsMatched, ApprovedIsMatched, BillCalls, NoBillCall

\* A scan gets a status that claims no bill.
LEMMA ScanIsRead ==
  ASSUME ScansInv, NEW i \in DOMAIN scans, NEW status \in {"processing", "needs_review"},
         scans' = [scans EXCEPT ![i].status = status],
         inbox' \subseteq inbox, reader' \in [OcrWorkers -> DOMAIN scans \union {None}],
         UNCHANGED <<bills, billCall>>
  PROVE  ScansInv'
  <1> DEFINE row == [scans[i] EXCEPT !.status = status]
  <1>1. scans \in Seq(Scanned) /\ scans[i] \in Scanned
    BY DEF ScansInv, ScansTypeOK
  <1>2. row \in Scanned /\ row.status = status
    BY <1>1 DEF Scanned, ScanStatus
  <1>3. scans' = [scans EXCEPT ![i] = row]
    OBVIOUS
  <1> HIDE DEF row
  <1>4. /\ scans' \in Seq(Scanned) /\ Len(scans') = Len(scans) /\ DOMAIN scans' = DOMAIN scans
        /\ \A k \in DOMAIN scans : scans'[k] = IF k = i THEN row ELSE scans[k]
    BY <1>1, <1>2, <1>3, RowWritten
  <1>5. ValidatedScansHaveBills'
    BY <1>2, <1>4 DEF ScansInv, ScansTypeOK, ValidatedScansHaveBills
  <1> QED
    BY <1>4, <1>5 DEF ScansInv, ScansTypeOK, BillCallsHaveRows, CheckedIsMatched, ApprovedIsMatched

\* A bill changes, but neither its scan nor, once it is matched, back to unmatched.
LEMMA BillChanges ==
  ASSUME ScansInv, NEW b \in DOMAIN bills, NEW row \in Bills,
         row.scan = bills[b].scan, row.rapprochement # "EN_ATTENTE",
         bills' = [bills EXCEPT ![b] = row], UNCHANGED <<scans, inbox, reader>>,
         \/ UNCHANGED billCall
         \/ \E s \in Sessions : billCall' = [billCall EXCEPT ![s] = NoBillCall]
  PROVE  ScansInv'
  <1>1. /\ bills' \in Seq(Bills) /\ DOMAIN bills' = DOMAIN bills
        /\ \A k \in DOMAIN bills : bills'[k] = IF k = b THEN row ELSE bills[k]
    BY RowWritten DEF ScansInv, ScansTypeOK
  <1>2. ValidatedScansHaveBills'
    BY <1>1 DEF ScansInv, ScansTypeOK, ValidatedScansHaveBills
  <1>3. /\ billCall' \in [Sessions -> BillCalls]
        /\ \A t \in Sessions : billCall'[t] \in {billCall[t], NoBillCall}
    BY DEF ScansInv, ScansTypeOK, BillCalls
  <1>4. NoBillCall.step \notin {"validate", "approve"}
    BY DEF NoBillCall
  <1>5. BillCallsHaveRows'
    BY <1>1, <1>3, <1>4 DEF ScansInv, BillCallsHaveRows
  <1>6. CheckedIsMatched' /\ ApprovedIsMatched'
    BY <1>1, <1>3, <1>4 DEF ScansInv, BillCallsHaveRows, CheckedIsMatched, ApprovedIsMatched
  <1> QED
    BY <1>1, <1>2, <1>3, <1>5, <1>6 DEF ScansInv, ScansTypeOK

\* A call makes its check, or ends without a write.
LEMMA BillCallMoves ==
  ASSUME ScansInv, NEW s \in Sessions, NEW call \in BillCalls,
         call.step = "validate" => call.scan \in DOMAIN scans,
         call.step = "approve" => /\ call.bill \in DOMAIN bills
                                  /\ bills[call.bill].rapprochement # "EN_ATTENTE",
         billCall' = [billCall EXCEPT ![s] = call],
         UNCHANGED <<scans, inbox, reader, bills>>
  PROVE  ScansInv'
  <1>1. \A t \in Sessions : billCall'[t] = IF t = s THEN call ELSE billCall[t]
    BY DEF ScansInv, ScansTypeOK
  <1>2. BillCallsHaveRows' /\ CheckedIsMatched'
    BY <1>1 DEF ScansInv, BillCallsHaveRows, CheckedIsMatched
  <1> QED
    BY <1>2 DEF ScansInv, ScansTypeOK, ValidatedScansHaveBills, ApprovedIsMatched

LEMMA ScanCreated ==
  ASSUME ScansInv, NEW isSent \in BOOLEAN, CreateScan(isSent)
  PROVE  ScansInv'
  <1> DEFINE new == [status |-> "pending", bill |-> None]
  <1>1. new \in Scanned /\ new.status = "pending"
    BY DEF Scanned, ScanStatus
  <1>2. scans' = Append(scans, new) /\ Len(scans) < MaxScans
    BY DEF CreateScan
  <1> HIDE DEF new
  <1>3. /\ scans' \in Seq(Scanned) /\ Len(scans') = Len(scans) + 1 /\ Len(scans) \in Nat
        /\ DOMAIN scans' = DOMAIN scans \union {Len(scans) + 1}
        /\ \A k \in DOMAIN scans : scans'[k] = scans[k]
        /\ scans'[Len(scans) + 1] = new
    BY <1>1, <1>2, RowAdded DEF ScansInv, ScansTypeOK
  <1>4. ValidatedScansHaveBills'
    BY <1>1, <1>3 DEF CreateScan, ScansInv, ScansTypeOK, ValidatedScansHaveBills
  <1>5. inbox' \subseteq DOMAIN scans' /\ Len(scans') <= MaxScans
    BY <1>2, <1>3, ScansAssumption DEF CreateScan, ScansInv, ScansTypeOK
  <1>6. reader' \in [OcrWorkers -> DOMAIN scans' \union {None}]
    BY <1>3 DEF CreateScan, ScansInv, ScansTypeOK
  <1> QED
    BY <1>3, <1>4, <1>5, <1>6
    DEF CreateScan, ScansInv, ScansTypeOK, BillCallsHaveRows, CheckedIsMatched, ApprovedIsMatched

\* The new bill is the newest of its scan.
LEMMA ScanValidated ==
  ASSUME ScansInv, NEW s \in Sessions, ValidateScan(s)
  PROVE  ScansInv'
  <1> DEFINE i   == billCall[s].scan
             n   == Len(bills) + 1
             row == [scans[i] EXCEPT !.status = "validated", !.bill = n]
  <1>1. i \in DOMAIN scans /\ scans \in Seq(Scanned) /\ scans[i] \in Scanned
    BY DEF ValidateScan, ScansInv, ScansTypeOK, BillCallsHaveRows
  <1>2. i \in Nat /\ n \in Nat /\ bills \in Seq(Bills)
    BY <1>1 DEF ScansInv, ScansTypeOK
  <1>3. row \in Scanned /\ row.bill = n
    BY <1>1, <1>2 DEF Scanned, ScanStatus
  <1>4. NewBill(i) \in Bills /\ NewBill(i).scan = i /\ NewBill(i).status = "validated"
    BY <1>2, ScansAssumption DEF NewBill, Bills
  <1>5. /\ scans' = [scans EXCEPT ![i] = row] /\ bills' = Append(bills, NewBill(i))
        /\ billCall' = [billCall EXCEPT ![s] = NoBillCall] /\ UNCHANGED <<inbox, reader>>
    BY DEF ValidateScan
  <1>6. /\ bills' \in Seq(Bills) /\ DOMAIN bills' = DOMAIN bills \union {n}
        /\ DOMAIN bills = 1..Len(bills) /\ Len(bills) \in Nat
        /\ \A b \in DOMAIN bills : bills'[b] = bills[b]
        /\ bills'[n] = NewBill(i)
    BY <1>2, <1>4, <1>5, RowAdded
  <1> HIDE DEF row
  <1>7. /\ scans' \in Seq(Scanned) /\ Len(scans') = Len(scans) /\ DOMAIN scans' = DOMAIN scans
        /\ \A k \in DOMAIN scans : scans'[k] = IF k = i THEN row ELSE scans[k]
    BY <1>1, <1>3, <1>5, RowWritten
  <1>8. ValidatedScansHaveBills'
    <2> SUFFICES ASSUME NEW k \in DOMAIN scans, scans'[k].status = "validated"
                 PROVE  /\ scans'[k].bill \in DOMAIN bills'
                        /\ \A b \in DOMAIN bills' : bills'[b].scan = k => b <= scans'[k].bill
      BY <1>7 DEF ValidatedScansHaveBills
    <2>1. CASE k = i
      BY <1>3, <1>6, <1>7, <2>1
    <2>2. CASE k # i
      <3>1. scans'[k] = scans[k] /\ bills'[n].scan # k
        BY <1>4, <1>6, <1>7, <2>2
      <3> QED
        BY <1>6, <3>1 DEF ScansInv, ScansTypeOK, ValidatedScansHaveBills
    <2> QED
      BY <2>1, <2>2
  <1>9. /\ billCall' \in [Sessions -> BillCalls]
        /\ \A t \in Sessions : billCall'[t] \in {billCall[t], NoBillCall}
    BY <1>5 DEF ScansInv, ScansTypeOK, BillCalls
  <1>10. NoBillCall.step \notin {"validate", "approve"}
    BY DEF NoBillCall
  <1>11. BillCallsHaveRows'
    BY <1>6, <1>7, <1>9, <1>10 DEF ScansInv, BillCallsHaveRows
  <1>12. CheckedIsMatched' /\ ApprovedIsMatched'
    BY <1>4, <1>6, <1>9, <1>10 DEF ScansInv, BillCallsHaveRows, CheckedIsMatched, ApprovedIsMatched
  <1> QED
    BY <1>5, <1>6, <1>7, <1>8, <1>9, <1>11, <1>12 DEF ScansInv, ScansTypeOK

LEMMA ScansInvStep == ScansInv /\ [ScansNext]_scansVars => ScansInv'
  <1> SUFFICES ASSUME ScansInv, [ScansNext]_scansVars PROVE ScansInv'
    OBVIOUS
  <1>1. ASSUME NEW isSent \in BOOLEAN, CreateScan(isSent) PROVE ScansInv'
    BY <1>1, ScanCreated
  <1>2. ASSUME NEW w \in OcrWorkers, NEW i \in inbox, StartReading(w, i) PROVE ScansInv'
    <2>1. i \in DOMAIN scans
      BY DEF ScansInv, ScansTypeOK
    <2> QED
      BY <1>2, <2>1, ScanIsRead DEF StartReading, ScansInv, ScansTypeOK
  <1>3. ASSUME NEW w \in OcrWorkers, FinishReading(w) PROVE ScansInv'
    <2>1. reader[w] \in DOMAIN scans
      BY <1>3 DEF FinishReading, ScansInv, ScansTypeOK
    <2> QED
      BY <1>3, <2>1, ScanIsRead DEF FinishReading, ScansInv, ScansTypeOK
  <1>4. ASSUME NEW w \in OcrWorkers, ReadingFails(w) PROVE ScansInv'
    BY <1>4 DEF ReadingFails, ScansInv, ScansTypeOK, ValidatedScansHaveBills, BillCallsHaveRows,
                CheckedIsMatched, ApprovedIsMatched
  <1>5. ASSUME NEW s \in Sessions, NEW i \in DOMAIN scans, CheckScan(s, i) PROVE ScansInv'
    <2>1. i \in Nat
      BY DEF ScansInv, ScansTypeOK
    <2>2. [step |-> "validate", scan |-> i] \in BillCalls
      BY <2>1 DEF BillCalls
    <2> QED
      BY <1>5, <2>2, BillCallMoves DEF CheckScan
  <1>6. ASSUME NEW s \in Sessions, NEW b \in DOMAIN bills, CheckMatched(s, b) PROVE ScansInv'
    <2>1. b \in Nat
      BY DEF ScansInv, ScansTypeOK
    <2>2. [step |-> "approve", bill |-> b] \in BillCalls
      BY <2>1 DEF BillCalls
    <2> QED
      BY <1>6, <2>2, BillCallMoves DEF CheckMatched
  <1>7. ASSUME NEW s \in Sessions, ValidateScan(s) PROVE ScansInv'
    BY <1>7, ScanValidated
  <1>8. ASSUME NEW s \in Sessions, ApproveBill(s) PROVE ScansInv'
    <2> DEFINE b   == billCall[s].bill
               row == [bills[b] EXCEPT !.status = "approved", !.rapprochement = "APPROUVEE"]
    <2>1. b \in DOMAIN bills /\ bills[b] \in Bills
      BY <1>8 DEF ApproveBill, ScansInv, ScansTypeOK, BillCallsHaveRows
    <2>2. row \in Bills /\ row.scan = bills[b].scan /\ row.rapprochement # "EN_ATTENTE"
      BY <2>1 DEF Bills
    <2>3. bills' = [bills EXCEPT ![b] = row]
      BY <1>8 DEF ApproveBill
    <2> HIDE DEF b, row
    <2> QED
      BY <1>8, <2>1, <2>2, <2>3, BillChanges DEF ApproveBill
  <1>9. ASSUME NEW s \in Sessions, BillCallFails(s) PROVE ScansInv'
    <2>1. NoBillCall \in BillCalls /\ NoBillCall.step \notin {"validate", "approve"}
      BY DEF NoBillCall, BillCalls
    <2> QED
      BY <1>9, <2>1, BillCallMoves DEF BillCallFails
  <1>10. ASSUME NEW b \in DOMAIN bills, NEW n \in 0..MaxBills, MatchBill(b, n) PROVE ScansInv'
    <2> DEFINE row == [bills[b] EXCEPT !.lines = @ + n, !.rapprochement = "RAPPROCHEE"]
    <2>1. bills[b] \in Bills
      BY DEF ScansInv, ScansTypeOK
    <2>2. row \in Bills /\ row.scan = bills[b].scan /\ row.rapprochement # "EN_ATTENTE"
      BY <1>10, <2>1, ScansAssumption DEF Bills, MatchBill
    <2>3. bills' = [bills EXCEPT ![b] = row]
      BY <1>10 DEF MatchBill
    <2> HIDE DEF row
    <2> QED
      BY <1>10, <2>2, <2>3, BillChanges DEF MatchBill
  <1>11. CASE UNCHANGED scansVars
    BY <1>11 DEF scansVars, ScansInv, ScansTypeOK, ValidatedScansHaveBills, BillCallsHaveRows,
                 CheckedIsMatched, ApprovedIsMatched
  <1> QED
    BY <1>1, <1>2, <1>3, <1>4, <1>5, <1>6, <1>7, <1>8, <1>9, <1>10, <1>11 DEF ScansNext

LEMMA ScansInvAlways == ScansSpec => []ScansInv
  BY ScansInvInit, ScansInvStep, PTL DEF ScansSpec

\* Scans, bills and calls keep their types, and a validated scan points at the
\* newest bill made from it, however many validations overlap (validate_ocr_job).
THEOREM ScansTypeCorrect == ScansSpec => []ScansTypeOK
  BY ScansInvAlways, PTL DEF ScansInv

\* No bill is approved that was never matched, although the approval works from
\* an earlier read (match_supplier_invoice, approve_supplier_invoice).
THEOREM ApprovalsFollowMatchings == ScansSpec => ApprovalFollowsMatching
  <1> DEFINE Follows ==
        \A b \in DOMAIN bills : bills[b].rapprochement = "EN_ATTENTE"
            => bills'[b].rapprochement # "APPROUVEE" /\ bills'[b].status # "approved"
  <1>1. ScansInv /\ [ScansNext]_scansVars => [Follows]_scansVars
    <2> SUFFICES ASSUME ScansInv, [ScansNext]_scansVars PROVE Follows
      OBVIOUS
    <2>1. \A b \in DOMAIN bills : bills[b].rapprochement = "EN_ATTENTE" => bills[b].status # "approved"
      BY DEF ScansInv, ApprovedIsMatched
    <2>2. ASSUME NEW s \in Sessions, ApproveBill(s) PROVE Follows
      <3>1. \A b \in DOMAIN bills : bills[b].rapprochement = "EN_ATTENTE" => b # billCall[s].bill
        BY <2>2 DEF ApproveBill, ScansInv, CheckedIsMatched
      <3>2. \A b \in DOMAIN bills : b # billCall[s].bill => bills'[b] = bills[b]
        BY <2>2 DEF ApproveBill, ScansInv, ScansTypeOK
      <3> QED
        BY <2>1, <3>1, <3>2
    <2>3. ASSUME NEW s \in Sessions, ValidateScan(s) PROVE Follows
      <3>1. \A b \in DOMAIN bills : bills'[b] = bills[b]
        BY <2>3 DEF ValidateScan, ScansInv, ScansTypeOK
      <3> QED
        BY <2>1, <3>1
    <2>4. ASSUME NEW c \in DOMAIN bills, NEW n \in 0..MaxBills, MatchBill(c, n) PROVE Follows
      <3>1. \A b \in DOMAIN bills : /\ bills'[b].status = bills[b].status
                                    /\ bills'[b].rapprochement \in {bills[b].rapprochement, "RAPPROCHEE"}
        BY <2>4 DEF MatchBill, ScansInv, ScansTypeOK, Bills
      <3> QED
        BY <2>1, <3>1
    <2>5. CASE UNCHANGED bills
      BY <2>1, <2>5
    <2> QED
      BY <2>2, <2>3, <2>4, <2>5
      DEF ScansNext, scansVars, CreateScan, StartReading, FinishReading, ReadingFails, CheckScan,
          CheckMatched, BillCallFails
  <1> QED
    BY <1>1, ScansInvAlways, PTL DEF ScansSpec, ApprovalFollowsMatching

-----------------------------------------------------------------------------
(* RoutePlans                                                                *)

\* A set of natural numbers that is not empty has a least element.
LEMMA LeastNatural ==
  ASSUME NEW T \in SUBSET Nat, T # {}
  PROVE  Min(T) \in T /\ \A y \in T : Min(T) <= y
  <1>1. PICK x \in T : \A y \in T : ~ (<<y, x>> \in OpToRel(<, Nat))
    BY NatLessThanWellFounded, WFMin
  <1>2. ASSUME NEW y \in T PROVE x <= y
    <2>1. x \in Nat /\ y \in Nat /\ <<y, x>> \in Nat \X Nat
      OBVIOUS
    <2>2. ~ (y < x)
      BY <1>1, <2>1 DEF OpToRel
    <2> QED
      BY <2>1, <2>2
  <1> QED
    BY <1>2 DEF Min

\* A generation under way, and the rows it has inserted.
Generating(s) == generation[s] # NoGeneration
Made(s)       == generation[s].made

\* Whatever generate_runs inserts has the code of its template and date.
GeneratedCodes ==
    /\ \A i \in DOMAIN runs : runs[i].generated =>
            runs[i].code = GeneratedCode(runs[i].template, runs[i].date)
    /\ \A s \in Sessions : Generating(s) => \A k \in DOMAIN Made(s) :
            Made(s)[k].code = GeneratedCode(Made(s)[k].template, Made(s)[k].date)

\* The unique index: no two rows, committed or not, have one code.
CodesAreUnique ==
    /\ \A i, j \in DOMAIN runs : runs[i].code = runs[j].code => i = j
    /\ \A s \in Sessions : Generating(s) => \A k \in DOMAIN Made(s) :
            /\ \A i \in DOMAIN runs : runs[i].code # Made(s)[k].code
            /\ \A l \in DOMAIN Made(s) : Made(s)[l].code = Made(s)[k].code => l = k
    /\ \A s, t \in Sessions : s # t /\ Generating(s) /\ Generating(t) =>
            \A k \in DOMAIN Made(s), l \in DOMAIN Made(t) : Made(s)[k].code # Made(t)[l].code

\* An INSERT is about a date.
InsertsHaveDates ==
    \A s \in Sessions : Generating(s) /\ generation[s].step = "insert" => generation[s].left # {}

PlansInv == RoutePlansTypeOK /\ GeneratedCodes /\ CodesAreUnique /\ InsertsHaveDates

LEMMA PlansInvInit == RoutePlansInit => PlansInv
  BY DEF RoutePlansInit, PlansInv, RoutePlansTypeOK, GeneratedCodes, CodesAreUnique,
         InsertsHaveDates, Generating, Made

\* What a session that generates remembers.
LEMMA GenerationShape ==
  ASSUME PlansInv, NEW s \in Sessions, Generating(s)
  PROVE  LET g == generation[s] IN
         /\ g = Generation(g.step, g.template, g.left, g.withMissions, g.made)
         /\ g.step \in {"look", "insert"} /\ g.template \in Codes
         /\ g.left \subseteq Dates /\ g.withMissions \in BOOLEAN /\ g.made \in Seq(Runs)
  BY DEF PlansInv, RoutePlansTypeOK, Generating

\* A generation begins, goes on or ends without a new row.
LEMMA GenerationMoves ==
  ASSUME PlansInv, NEW s \in Sessions, NEW g,
         g = NoGeneration \/
            /\ g = Generation(g.step, g.template, g.left, g.withMissions, g.made)
            /\ g.step \in {"look", "insert"} /\ g.template \in Codes
            /\ g.left \subseteq Dates /\ g.withMissions \in BOOLEAN
            /\ g.step = "insert" => g.left # {}
            /\ g.made = << >> \/ (Generating(s) /\ g.made = Made(s)),
         generation' = [generation EXCEPT ![s] = g], UNCHANGED <<templates, runs>>
  PROVE  PlansInv'
  <1>1. \A t \in Sessions : generation'[t] = IF t = s THEN g ELSE generation[t]
    BY DEF PlansInv, RoutePlansTypeOK
  <1>2. ASSUME NEW t \in Sessions, Generating(t)'
        PROVE  /\ Made(t)' = << >> \/ (Generating(t) /\ Made(t)' = Made(t))
               /\ Made(t)' \in Seq(Runs)
    <2>1. CASE t # s
      BY <1>1, <1>2, <2>1, GenerationShape DEF Generating, Made
    <2>2. CASE t = s
      <3>1. generation'[t] = g /\ g # NoGeneration
        BY <1>1, <1>2, <2>2 DEF Generating
      <3>2. Made(t)' = g.made
        BY <3>1 DEF Made
      <3>3. Generating(s) => Made(s) \in Seq(Runs)
        BY GenerationShape DEF Made
      <3>4. CASE g.made = << >>
        <4>1. << >> \in Seq(Runs)
          OBVIOUS
        <4> QED
          BY <2>2, <3>2, <3>4, <4>1
      <3>5. CASE Generating(s) /\ g.made = Made(s)
        BY <2>2, <3>2, <3>3, <3>5
      <3> QED
        BY <3>1, <3>4, <3>5
    <2> QED
      BY <2>1, <2>2
  <1>3. RoutePlansTypeOK'
    BY <1>1, <1>2 DEF PlansInv, RoutePlansTypeOK, Generating, Made
  <1>4. GeneratedCodes'
    BY <1>2 DEF PlansInv, GeneratedCodes
  <1>5. CodesAreUnique'
    BY <1>2 DEF PlansInv, CodesAreUnique
  <1>6. InsertsHaveDates'
    BY <1>1 DEF PlansInv, InsertsHaveDates, Generating, NoGeneration
  <1> QED
    BY <1>3, <1>4, <1>5, <1>6 DEF PlansInv

LEMMA TemplatesChange ==
  ASSUME PlansInv, templates' \in [Codes -> Templates \union {None}], UNCHANGED <<runs, generation>>
  PROVE  PlansInv'
  BY DEF PlansInv, RoutePlansTypeOK, GeneratedCodes, CodesAreUnique, InsertsHaveDates, Generating,
         Made

\* The code of a generated run names its template and date.
LEMMA RunInserted ==
  ASSUME PlansInv, NEW s \in Sessions, InsertRun(s)
  PROVE  PlansInv'
  <1> DEFINE g   == generation[s]
             row == NewRun(g)
             h   == [g EXCEPT !.step = "look", !.left = @ \ {NextDate(g)},
                              !.made = Append(@, row)]
  <1>1. Generating(s) /\ g.step = "insert" /\ ~ Taken(row.code) /\ ~ Pended(row.code)
    BY DEF InsertRun, Generating, NoGeneration
  <1>2. /\ g = Generation(g.step, g.template, g.left, g.withMissions, g.made)
        /\ g.template \in Codes /\ g.left \subseteq Dates /\ g.withMissions \in BOOLEAN
        /\ g.made \in Seq(Runs)
    BY <1>1, GenerationShape
  <1>3. NextDate(g) \in g.left /\ NextDate(g) \in Dates
    <2>1. g.left # {} /\ g.left \in SUBSET Nat
      BY <1>1, <1>2, RoutePlansAssumption DEF PlansInv, InsertsHaveDates, Dates
    <2> QED
      BY <1>2, <2>1, LeastNatural DEF NextDate
  <1>4. row \in Runs /\ row.code = GeneratedCode(row.template, row.date)
    <2>1. GeneratedCode(g.template, NextDate(g)) \in RunCodes
      BY <1>2, <1>3 DEF RunCodes
    <2> QED
      BY <1>2, <1>3, <2>1 DEF NewRun, Run, Runs
  <1>5. /\ Append(g.made, row) \in Seq(Runs) /\ Len(g.made) \in Nat
        /\ DOMAIN Append(g.made, row) = DOMAIN g.made \union {Len(g.made) + 1}
        /\ DOMAIN g.made = 1..Len(g.made)
        /\ \A k \in DOMAIN g.made : Append(g.made, row)[k] = g.made[k]
        /\ Append(g.made, row)[Len(g.made) + 1] = row
    BY <1>2, <1>4, RowAdded
  <1>6. /\ \A t \in Sessions : generation'[t] = IF t = s THEN h ELSE generation[t]
        /\ UNCHANGED <<templates, runs>> /\ DOMAIN generation' = Sessions
    BY DEF InsertRun, PlansInv, RoutePlansTypeOK
  <1>7. h = Generation("look", g.template, g.left \ {NextDate(g)}, g.withMissions,
                       Append(g.made, row))
    <2> DEFINE left == g.left \ {NextDate(g)}
               made == Append(g.made, row)
               g1   == Generation("look", g.template, g.left, g.withMissions, g.made)
               g2   == Generation("look", g.template, left, g.withMissions, g.made)
               g3   == Generation("look", g.template, left, g.withMissions, made)
    <2> HIDE DEF g, row
    <2>1. g = Generation(g.step, g.template, g.left, g.withMissions, g.made)
      BY <1>2
    <2>2. h = [g EXCEPT !.step = "look", !.left = left, !.made = made]
      BY <2>1 DEF Generation
    <2> HIDE DEF left, made, h
    <2>3. [g EXCEPT !.step = "look", !.left = left, !.made = made] =
          [[[g EXCEPT !.step = "look"] EXCEPT !.left = left] EXCEPT !.made = made]
      OBVIOUS
    <2>4. [g EXCEPT !.step = "look"] = g1
      BY <2>1 DEF Generation
    <2>5. [g1 EXCEPT !.left = left] = g2 /\ [g2 EXCEPT !.made = made] = g3
      BY DEF Generation
    <2> HIDE DEF g1, g2, g3
    <2>6. h = g3
      BY <2>2, <2>3, <2>4, <2>5
    <2> QED
      BY <2>6 DEF g3, left, made
  <1>8. /\ h.step = "look" /\ h.template = g.template /\ h.left = g.left \ {NextDate(g)}
        /\ h.withMissions = g.withMissions /\ h.made = Append(g.made, row) /\ h # NoGeneration
    BY <1>7 DEF Generation, NoGeneration
  <1> HIDE DEF h, row
  <1>9. \A t \in Sessions : Generating(t)' <=> Generating(t)
    BY <1>1, <1>6, <1>8 DEF Generating
  <1>10. \A t \in Sessions : Made(t)' = IF t = s THEN Append(g.made, row) ELSE Made(t)
    BY <1>6, <1>8 DEF Made
  <1>11. RoutePlansTypeOK'
    <2>1. h = Generation(h.step, h.template, h.left, h.withMissions, h.made)
      BY <1>7, <1>8
    <2>2. /\ h.step \in {"look", "insert"} /\ h.template \in Codes /\ h.left \subseteq Dates
          /\ h.withMissions \in BOOLEAN /\ h.made \in Seq(Runs)
      BY <1>2, <1>5, <1>8
    <2> HIDE DEF g
    <2> QED
      BY <1>6, <2>1, <2>2 DEF PlansInv, RoutePlansTypeOK
  <1> HIDE DEF g
  <1>0. Made(s) = g.made
    BY DEF Made, g
  <1>12. GeneratedCodes'
    <2>1. \A i \in DOMAIN runs' : runs'[i].generated =>
            runs'[i].code = GeneratedCode(runs'[i].template, runs'[i].date)
      BY <1>6 DEF PlansInv, GeneratedCodes
    <2>2. ASSUME NEW t \in Sessions, Generating(t)', NEW k \in DOMAIN Made(t)'
          PROVE  Made(t)'[k].code = GeneratedCode(Made(t)'[k].template, Made(t)'[k].date)
      <3>1. CASE t # s
        BY <1>9, <1>10, <2>2, <3>1 DEF PlansInv, GeneratedCodes
      <3>2. CASE t = s /\ k = Len(g.made) + 1
        BY <1>4, <1>5, <1>10, <3>2
      <3>3. CASE t = s /\ k \in DOMAIN g.made
        <4>1. Made(t)'[k] = Made(s)[k]
          BY <1>0, <1>5, <1>10, <3>3
        <4> QED
          BY <1>0, <1>1, <3>3, <4>1 DEF PlansInv, GeneratedCodes
      <3> QED
        BY <1>5, <1>10, <2>2, <3>1, <3>2, <3>3
    <2> QED
      BY <2>1, <2>2 DEF GeneratedCodes
  <1>13. /\ \A i \in DOMAIN runs : runs[i].code # row.code
         /\ \A t \in Sessions : Generating(t) => \A k \in DOMAIN Made(t) : Made(t)[k].code # row.code
    BY <1>1 DEF Taken, Pended, Generating, Made
  <1>14. CodesAreUnique'
    <2>1. \A i, j \in DOMAIN runs' : runs'[i].code = runs'[j].code => i = j
      BY <1>6 DEF PlansInv, CodesAreUnique
    <2>2. ASSUME NEW t \in Sessions, Generating(t)', NEW k \in DOMAIN Made(t)'
          PROVE  /\ \A i \in DOMAIN runs' : runs'[i].code # Made(t)'[k].code
                 /\ \A l \in DOMAIN Made(t)' : Made(t)'[l].code = Made(t)'[k].code => l = k
      <3>1. CASE t # s
        BY <1>6, <1>9, <1>10, <2>2, <3>1 DEF PlansInv, CodesAreUnique
      <3>2. CASE t = s
        <4>1. Made(t)' = Append(g.made, row)
          BY <1>10, <3>2
        <4>2. \A l \in DOMAIN g.made : /\ g.made[l].code # row.code
                                       /\ \A i \in DOMAIN runs : runs[i].code # g.made[l].code
          BY <1>0, <1>1, <1>13 DEF PlansInv, CodesAreUnique
        <4>3. \A l, m \in DOMAIN g.made : g.made[l].code = g.made[m].code => l = m
          BY <1>0, <1>1 DEF PlansInv, CodesAreUnique
        <4> QED
          BY <1>5, <1>6, <1>13, <2>2, <4>1, <4>2, <4>3
      <3> QED
        BY <3>1, <3>2
    <2>3. ASSUME NEW t \in Sessions, NEW u \in Sessions, t # u, Generating(t)', Generating(u)',
                 NEW k \in DOMAIN Made(t)', NEW l \in DOMAIN Made(u)'
          PROVE  Made(t)'[k].code # Made(u)'[l].code
      <3>1. Generating(t) /\ Generating(u)
        BY <1>9, <2>3
      <3>2. \A v \in {t, u} : \A m \in DOMAIN Made(v)' :
                \/ m \in DOMAIN Made(v) /\ Made(v)'[m] = Made(v)[m]
                \/ v = s /\ Made(v)'[m] = row
        BY <1>0, <1>5, <1>10
      <3>3. CASE k \in DOMAIN Made(t) /\ Made(t)'[k] = Made(t)[k]
        BY <1>13, <2>3, <3>1, <3>2, <3>3 DEF PlansInv, CodesAreUnique
      <3>4. CASE t = s /\ Made(t)'[k] = row
        BY <1>10, <1>13, <2>3, <3>1, <3>4
      <3> QED
        BY <2>3, <3>2, <3>3, <3>4
    <2> QED
      BY <2>1, <2>2, <2>3 DEF CodesAreUnique
  <1>15. InsertsHaveDates'
    BY <1>6, <1>8 DEF PlansInv, InsertsHaveDates, Generating
  <1> QED
    BY <1>11, <1>12, <1>14, <1>15 DEF PlansInv

LEMMA GenerationCommitted ==
  ASSUME PlansInv, NEW s \in Sessions, CommitGeneration(s)
  PROVE  PlansInv'
  <1> DEFINE n == Len(runs)
  <1>1. Generating(s) /\ Made(s) \in Seq(Runs) /\ runs \in Seq(Runs)
    BY GenerationShape DEF CommitGeneration, Generating, Made, NoGeneration, PlansInv, RoutePlansTypeOK
  <1>2. runs' = runs \o Made(s)
    BY DEF CommitGeneration, Made
  <1>3. /\ runs' \in Seq(Runs) /\ n \in Nat /\ Len(Made(s)) \in Nat
        /\ DOMAIN runs = 1..n /\ DOMAIN Made(s) = 1..Len(Made(s))
        /\ DOMAIN runs' = 1..(n + Len(Made(s)))
        /\ \A i \in 1..(n + Len(Made(s))) : runs'[i] = IF i <= n THEN runs[i] ELSE Made(s)[i - n]
    BY <1>1, <1>2, ConcatProperties, LenProperties
  <1>4. /\ \A t \in Sessions : generation'[t] = IF t = s THEN NoGeneration ELSE generation[t]
        /\ UNCHANGED templates /\ DOMAIN generation' = Sessions
    BY DEF CommitGeneration, PlansInv, RoutePlansTypeOK
  <1>5. \A t \in Sessions : Generating(t)' => t # s /\ Generating(t) /\ Made(t)' = Made(t)
    BY <1>4 DEF Generating, Made
  <1>6. ASSUME NEW i \in DOMAIN runs'
        PROVE  \/ i \in DOMAIN runs /\ runs'[i] = runs[i]
               \/ i - n \in DOMAIN Made(s) /\ i > n /\ runs'[i] = Made(s)[i - n]
    BY <1>3
  <1>7. RoutePlansTypeOK'
    BY <1>3, <1>4 DEF PlansInv, RoutePlansTypeOK
  <1>8. GeneratedCodes'
    BY <1>1, <1>5, <1>6 DEF PlansInv, GeneratedCodes
  <1>9. ASSUME NEW i \in DOMAIN runs', NEW j \in DOMAIN runs', runs'[i].code = runs'[j].code
        PROVE  i = j
    <2>1. CASE i \in DOMAIN runs /\ runs'[i] = runs[i] /\ j \in DOMAIN runs /\ runs'[j] = runs[j]
      BY <1>9, <2>1 DEF PlansInv, CodesAreUnique
    <2>2. CASE /\ i - n \in DOMAIN Made(s) /\ i > n /\ runs'[i] = Made(s)[i - n]
               /\ j - n \in DOMAIN Made(s) /\ j > n /\ runs'[j] = Made(s)[j - n]
      <3>1. i - n = j - n
        BY <1>1, <1>9, <2>2 DEF PlansInv, CodesAreUnique
      <3> QED
        BY <1>3, <3>1
    <2> QED
      BY <1>1, <1>6, <1>9, <2>1, <2>2 DEF PlansInv, CodesAreUnique
  <1>10. ASSUME NEW t \in Sessions, Generating(t)', NEW k \in DOMAIN Made(t)'
         PROVE  /\ \A i \in DOMAIN runs' : runs'[i].code # Made(t)'[k].code
                /\ \A l \in DOMAIN Made(t)' : Made(t)'[l].code = Made(t)'[k].code => l = k
    BY <1>1, <1>5, <1>6, <1>10 DEF PlansInv, CodesAreUnique
  <1>11. CodesAreUnique'
    BY <1>5, <1>9, <1>10 DEF PlansInv, CodesAreUnique
  <1>12. InsertsHaveDates'
    BY <1>4 DEF PlansInv, InsertsHaveDates, Generating
  <1> QED
    BY <1>7, <1>8, <1>11, <1>12 DEF PlansInv

LEMMA RunCreated ==
  ASSUME PlansInv, NEW c \in Codes \union {None}, NEW d \in Dates, NEW code \in RunCodes,
         CreateRunByHand(c, d, code)
  PROVE  PlansInv'
  <1> DEFINE row == Run(c, d, code, FALSE, 0)
  <1>1. row \in Runs /\ row.code = code /\ row.generated = FALSE
    BY DEF Run, Runs
  <1>2. runs' = Append(runs, row) /\ UNCHANGED <<templates, generation>>
    BY DEF CreateRunByHand
  <1> HIDE DEF row
  <1>3. /\ runs' \in Seq(Runs) /\ DOMAIN runs = 1..Len(runs) /\ Len(runs) \in Nat
        /\ DOMAIN runs' = DOMAIN runs \union {Len(runs) + 1}
        /\ \A i \in DOMAIN runs : runs'[i] = runs[i]
        /\ runs'[Len(runs) + 1] = row
    BY <1>1, <1>2, RowAdded DEF PlansInv, RoutePlansTypeOK
  <1>4. /\ \A i \in DOMAIN runs : runs[i].code # code
        /\ \A s \in Sessions : Generating(s) => \A k \in DOMAIN Made(s) : Made(s)[k].code # code
    BY DEF CreateRunByHand, Taken, Pended, Generating, Made
  <1>5. GeneratedCodes'
    BY <1>1, <1>2, <1>3 DEF PlansInv, GeneratedCodes, Generating, Made
  <1>6. CodesAreUnique'
    BY <1>1, <1>2, <1>3, <1>4 DEF PlansInv, CodesAreUnique, Generating, Made
  <1> QED
    BY <1>2, <1>3, <1>5, <1>6 DEF PlansInv, RoutePlansTypeOK, InsertsHaveDates, Generating

LEMMA PlansInvStep == PlansInv /\ [RoutePlansNext]_routePlansVars => PlansInv'
  <1> SUFFICES ASSUME PlansInv, [RoutePlansNext]_routePlansVars PROVE PlansInv'
    OBVIOUS
  <1>1. ASSUME NEW c \in Codes, NEW recurrence \in Recurrences, NEW status \in TemplateStatuses,
               \/ CreateTemplate(c, recurrence) \/ UpdateTemplate(c, recurrence, status)
               \/ SetStatus(c, status)
        PROVE  PlansInv'
    <2>1. templates \in [Codes -> Templates \union {None}]
      BY DEF PlansInv, RoutePlansTypeOK
    <2>2. PICK row : templates' = [templates EXCEPT ![c] = row] /\ row \in Templates
      <3>1. CASE CreateTemplate(c, recurrence)
        <4> DEFINE row == [status |-> "ACTIVE", recurrence |-> recurrence]
        <4>1. row \in Templates
          BY DEF Templates, TemplateStatuses
        <4> QED
          BY <3>1, <4>1 DEF CreateTemplate
      <3>2. CASE UpdateTemplate(c, recurrence, status)
        <4> DEFINE row == [status |-> status, recurrence |-> recurrence]
        <4>1. row \in Templates
          BY DEF Templates
        <4> QED
          BY <3>2, <4>1 DEF UpdateTemplate
      <3>3. CASE SetStatus(c, status)
        <4>1. templates[c] \in Templates
          BY <2>1, <3>3 DEF SetStatus
        <4>2. [templates[c] EXCEPT !.status = status] \in Templates
          BY <4>1 DEF Templates
        <4> QED
          BY <3>3, <4>2 DEF SetStatus
      <3> QED
        BY <1>1, <3>1, <3>2, <3>3
    <2>3. templates' \in [Codes -> Templates \union {None}]
      BY <2>1, <2>2
    <2> QED
      BY <1>1, <2>3, TemplatesChange DEF CreateTemplate, UpdateTemplate, SetStatus
  <1>2. ASSUME NEW c \in Codes \union {None}, NEW d \in Dates, NEW code \in RunCodes,
               CreateRunByHand(c, d, code)
        PROVE  PlansInv'
    BY <1>2, RunCreated
  <1>3. ASSUME NEW s \in Sessions, NEW c \in Codes, NEW first \in Dates, NEW last \in Dates,
               NEW withMissions \in BOOLEAN, StartGeneration(s, c, first, last, withMissions)
        PROVE  PlansInv'
    <2> DEFINE dates == ExpandDates(templates[c].recurrence, first, last)
               g     == Generation("look", c, dates, withMissions, << >>)
    <2>1. dates \subseteq Dates
      BY RoutePlansAssumption DEF ExpandDates, Dates
    <2>2. /\ g.step = "look" /\ g.template = c /\ g.left = dates
          /\ g.withMissions = withMissions /\ g.made = << >>
      BY DEF Generation
    <2>3. generation' = [generation EXCEPT ![s] = g] /\ UNCHANGED <<templates, runs>>
      BY <1>3 DEF StartGeneration
    <2> HIDE DEF dates
    <2> QED
      BY <2>1, <2>2, <2>3, GenerationMoves
  <1>4. ASSUME NEW s \in Sessions, LookForRun(s) PROVE PlansInv'
    <2> DEFINE g == generation[s]
               skip == [g EXCEPT !.left = @ \ {NextDate(g)}]
               take == [g EXCEPT !.step = "insert"]
    <2>1. Generating(s) /\ g.step = "look" /\ g.left # {}
      BY <1>4 DEF LookForRun, Generating, NoGeneration
    <2>2. /\ g = Generation(g.step, g.template, g.left, g.withMissions, g.made)
          /\ g.template \in Codes /\ g.left \subseteq Dates /\ g.withMissions \in BOOLEAN
      BY <2>1, GenerationShape
    <2>3. /\ skip = Generation("look", g.template, g.left \ {NextDate(g)}, g.withMissions, g.made)
          /\ take = Generation("insert", g.template, g.left, g.withMissions, g.made)
      BY <2>1, <2>2 DEF Generation
    <2>4. /\ generation' = [generation EXCEPT ![s] = skip] \/ generation' = [generation EXCEPT ![s] = take]
          /\ UNCHANGED <<templates, runs>>
      BY <1>4 DEF LookForRun
    <2> HIDE DEF skip, take
    <2>5. CASE generation' = [generation EXCEPT ![s] = skip]
      <3>1. /\ skip.step = "look" /\ skip.template = g.template /\ skip.left \subseteq Dates
            /\ skip.withMissions = g.withMissions /\ skip.made = Made(s)
            /\ skip = Generation(skip.step, skip.template, skip.left, skip.withMissions, skip.made)
        BY <2>2, <2>3 DEF Generation, Made
      <3> QED
        BY <2>1, <2>2, <2>4, <2>5, <3>1, GenerationMoves
    <2>6. CASE generation' = [generation EXCEPT ![s] = take]
      <3>1. /\ take.step = "insert" /\ take.template = g.template /\ take.left = g.left
            /\ take.withMissions = g.withMissions /\ take.made = Made(s)
            /\ take = Generation(take.step, take.template, take.left, take.withMissions, take.made)
        BY <2>2, <2>3 DEF Generation, Made
      <3> QED
        BY <2>1, <2>2, <2>4, <2>6, <3>1, GenerationMoves
    <2> QED
      BY <2>4, <2>5, <2>6
  <1>5. ASSUME NEW s \in Sessions, InsertRun(s) PROVE PlansInv'
    BY <1>5, RunInserted
  <1>6. ASSUME NEW s \in Sessions, CommitGeneration(s) PROVE PlansInv'
    BY <1>6, GenerationCommitted
  <1>7. ASSUME NEW s \in Sessions, GenerationFails(s) PROVE PlansInv'
    BY <1>7, GenerationMoves DEF GenerationFails
  <1>8. CASE UNCHANGED routePlansVars
    BY <1>8, TemplatesChange DEF routePlansVars, PlansInv, RoutePlansTypeOK
  <1>9. Recurrences # {} /\ TemplateStatuses # {}
    BY DEF Recurrences, TemplateStatuses
  <1> QED
    BY <1>1, <1>2, <1>3, <1>4, <1>5, <1>6, <1>7, <1>8, <1>9 DEF RoutePlansNext

LEMMA PlansInvAlways == RoutePlansSpec => []PlansInv
  BY PlansInvInit, PlansInvStep, PTL DEF RoutePlansSpec

\* Templates, runs and generations keep their types (create_template,
\* generate_runs, create_run).
THEOREM RoutePlansTypeCorrect == RoutePlansSpec => []RoutePlansTypeOK
  BY PlansInvAlways, PTL DEF PlansInv

\* A template has one generated run at most for each date, however many
\* generations overlap: the code that generate_runs gives them is unique.
THEOREM RunsAreGeneratedOnce == RoutePlansSpec => []GeneratedOnce
  <1>1. PlansInv => GeneratedOnce
    BY DEF PlansInv, GeneratedCodes, CodesAreUnique, GeneratedOnce
  <1> QED
    BY <1>1, PlansInvAlways, PTL


-----------------------------------------------------------------------------
(* Pricing                                                                   *)

\* Every line of an invoice is priced by the rules that were read once.
LEMMA OneRuleBookPrices ==
  ASSUME NEW customer, NEW km, NEW rs,
         NEW j \in DOMAIN InvoiceOf(customer, km, rs).lines,
         NEW k \in DOMAIN InvoiceOf(customer, km, rs).lines
  PROVE  LET lines == InvoiceOf(customer, km, rs).lines
         IN  lines[j].km = lines[k].km => lines[j].amount = lines[k].amount
  <1> DEFINE price == [i \in DOMAIN km |-> JobPrice(rs, customer, km[i])]
             lines == [i \in DOMAIN km |-> [km |-> km[i], amount |-> Rounded(price[i])]]
  <1>1. InvoiceOf(customer, km, rs).lines = lines
    BY DEF InvoiceOf
  <1>2. /\ j \in DOMAIN km /\ k \in DOMAIN km
        /\ lines[j].km = km[j] /\ lines[j].amount = Rounded(price[j])
        /\ lines[k].km = km[k] /\ lines[k].amount = Rounded(price[k])
    BY <1>1
  <1>3. km[j] = km[k] => price[j] = price[k]
    BY <1>2
  <1> HIDE DEF price, lines
  <1> QED
    BY <1>1, <1>2, <1>3

\* The invoices form a sequence, as create_invoice appends them.
PricedInv == (\E rows : priced \in Seq(rows)) /\ SameDistanceSamePrice

LEMMA PricedInvStep == PricedInv /\ [PricingNext]_pricingVars => PricedInv'
  <1> SUFFICES ASSUME PricedInv, [PricingNext]_pricingVars PROVE PricedInv'
    OBVIOUS
  <1>1. PICK rows : priced \in Seq(rows)
    BY DEF PricedInv
  <1>2. ASSUME NEW s \in Sessions, InsertInvoice(s) PROVE PricedInv'
    <2> DEFINE call == priceCall[s]
               row  == InvoiceOf(call.customer, call.km, call.rules)
    <2>1. priced' = Append(priced, row)
      BY <1>2 DEF InsertInvoice
    <2>2. \A j, k \in DOMAIN row.lines :
            row.lines[j].km = row.lines[k].km => row.lines[j].amount = row.lines[k].amount
      BY OneRuleBookPrices
    <2> HIDE DEF call, row
    <2>3. priced \in Seq(rows \union {row})
      BY <1>1
    <2>4. /\ priced' \in Seq(rows \union {row}) /\ Len(priced) \in Nat
          /\ DOMAIN priced' = DOMAIN priced \union {Len(priced) + 1}
          /\ \A i \in DOMAIN priced : priced'[i] = priced[i]
          /\ priced'[Len(priced) + 1] = row
      BY <2>1, <2>3, RowAdded
    <2> QED
      BY <2>2, <2>4 DEF PricedInv, SameDistanceSamePrice
  <1>3. ASSUME NEW i \in DOMAIN priced, ValidatePriced(i) PROVE PricedInv'
    <2> DEFINE row == [priced[i] EXCEPT !.status = "validated"]
    <2>1. priced' = [priced EXCEPT ![i] = row]
      BY <1>3 DEF ValidatePriced
    <2>2. row.lines = priced[i].lines
      OBVIOUS
    <2> HIDE DEF row
    <2>3. priced \in Seq(rows \union {row})
      BY <1>1
    <2>4. /\ priced' \in Seq(rows \union {row}) /\ DOMAIN priced' = DOMAIN priced
          /\ \A k \in DOMAIN priced : priced'[k] = IF k = i THEN row ELSE priced[k]
      BY <1>3, <2>1, <2>3, RowWritten
    <2>5. \A k \in DOMAIN priced : priced'[k].lines = priced[k].lines
      BY <2>2, <2>4
    <2> QED
      BY <2>4, <2>5 DEF PricedInv, SameDistanceSamePrice
  <1>4. CASE UNCHANGED priced
    BY <1>4 DEF PricedInv, SameDistanceSamePrice
  <1> QED
    BY <1>2, <1>3, <1>4
    DEF PricingNext, pricingVars, CreatePurchaseRule, CreatePricingRule, NewRule, UpdatePricingRule,
        UpdatePurchaseRule, DeletePurchaseRule, ChangeDistance, ReadJobs, ReadRules, PriceCallFails,
        CreateCreditNote

\* Two missions of the same distance on one invoice cost the same, whatever
\* rules other calls write while create_invoice is under way.
THEOREM SameDistancesCostTheSame == PricingSpec => []SameDistanceSamePrice
  <1>1. PricingInit => PricedInv
    <2> SUFFICES ASSUME PricingInit PROVE PricedInv
      OBVIOUS
    <2>1. priced = << >> /\ priced \in Seq({})
      BY DEF PricingInit
    <2> QED
      BY <2>1 DEF PricedInv, SameDistanceSamePrice
  <1>2. PricedInv => SameDistanceSamePrice
    BY DEF PricedInv
  <1> QED
    BY <1>1, <1>2, PricedInvStep, PTL DEF PricingSpec

-----------------------------------------------------------------------------
(* RunOrder                                                                  *)

\* A row that a reorder has written is a row of the run, and no other call has it.
DraftsAreHeld ==
    \A s, t \in Sessions, m \in Stops : Draft(s)[m] # None =>
        /\ places[m] # None
        /\ Draft(t)[m] # None => s = t

\* No call sees one place twice, nor do two calls give one place to two missions.
PlacesAreDistinct ==
    /\ \A m, x \in Stops : places[m] # None /\ places[m] = places[x] => m = x
    /\ \A s \in Sessions, m, x \in Stops : Seen(s)[m] # None /\ Seen(s)[m] = Seen(s)[x] => m = x
    /\ \A s, t \in Sessions, m, x \in Stops :
            s # t /\ Draft(s)[m] # None /\ Draft(s)[m] = Draft(t)[x] => m = x

OrderInv == OrderTypeOK /\ DraftsAreHeld /\ PlacesAreDistinct

LEMMA OrderInvInit == OrderInit => OrderInv
  BY DEF OrderInit, OrderInv, OrderTypeOK, DraftsAreHeld, PlacesAreDistinct, Draft, Seen,
         NoPlaces, NoOrderCall, Placed

\* What a call has written, and what it sees, are places of missions.
LEMMA DraftTyped ==
  ASSUME OrderTypeOK, NEW s \in Sessions
  PROVE  /\ Draft(s) \in [Stops -> Int \union {None}]
         /\ Seen(s) \in [Stops -> Int \union {None}]
         /\ Draft(s) # NoPlaces => orderCall[s].step = "renumber"
         /\ \A m \in Stops : Seen(s)[m] = IF Draft(s)[m] # None THEN Draft(s)[m] ELSE places[m]
  <1>1. Draft(s) \in [Stops -> Int \union {None}]
    BY DEF OrderTypeOK, Draft, NoPlaces, NoOrderCall
  <1> QED
    BY <1>1 DEF OrderTypeOK, Draft, Seen

\* A step of one call changes only what that call has written.
LEMMA OrderCallMoves ==
  ASSUME OrderTypeOK, NEW s \in Sessions, NEW call, orderCall' = [orderCall EXCEPT ![s] = call]
  PROVE  /\ orderCall'[s] = call /\ DOMAIN orderCall' = Sessions
         /\ \A t \in Sessions \ {s} : orderCall'[t] = orderCall[t] /\ Draft(t)' = Draft(t)
         /\ Draft(s)' = IF call.step = "renumber" THEN call.draft ELSE NoPlaces
  BY DEF OrderTypeOK, Draft, NoPlaces

\* The types of the next state, when one call has moved.
LEMMA OrderTypesKept ==
  ASSUME OrderTypeOK, NEW s \in Sessions, NEW call, orderCall' = [orderCall EXCEPT ![s] = call],
         \/ call = NoOrderCall
         \/ call \in [step : {"insert"}, mission : Stops, place : Int]
         \/ /\ call \in [step : {"renumber"}, listed : Lists, next : Nat,
                         draft : [Stops -> Int \union {None}]]
            /\ call.next \in 1..(Len(call.listed) + 1),
         places' \in [Stops -> Int \union {None}],
         \A m, x \in Stops : places'[m] # None /\ places'[m] = places'[x] => m = x
  PROVE  OrderTypeOK'
  <1>1. /\ orderCall'[s] = call /\ DOMAIN orderCall' = Sessions
        /\ \A t \in Sessions \ {s} : orderCall'[t] = orderCall[t]
    BY OrderCallMoves
  <1> QED
    BY <1>1 DEF OrderTypeOK, Placed

\* A call that has written nothing, before or after its step, disturbs nobody.
LEMMA QuietOrderCall ==
  ASSUME OrderInv, NEW s \in Sessions, NEW call, orderCall' = [orderCall EXCEPT ![s] = call],
         call = NoOrderCall \/ call \in [step : {"insert"}, mission : Stops, place : Int],
         places' = places
  PROVE  OrderInv'
  <1>1. OrderTypeOK'
    BY OrderTypesKept DEF OrderInv, OrderTypeOK, PlacesAreDistinct
  <1>2. /\ Draft(s)' = NoPlaces
        /\ \A t \in Sessions \ {s} : Draft(t)' = Draft(t)
    <2>1. OrderTypeOK /\ call.step # "renumber"
      BY DEF OrderInv, NoOrderCall
    <2> QED
      BY <2>1, OrderCallMoves
  <1>3. /\ \A m \in Stops : (Seen(s)[m])' = places[m]
        /\ \A t \in Sessions \ {s}, m \in Stops : (Seen(t)[m])' = Seen(t)[m]
    BY <1>2 DEF Seen, NoPlaces
  <1>4. DraftsAreHeld'
    BY <1>2 DEF OrderInv, DraftsAreHeld, NoPlaces
  <1>5. PlacesAreDistinct'
    BY <1>2, <1>3 DEF OrderInv, PlacesAreDistinct, NoPlaces
  <1> QED
    BY <1>1, <1>4, <1>5 DEF OrderInv

\* The INSERT takes a place that nobody has, or is about to give away.
LEMMA PlaceInserted ==
  ASSUME OrderInv, NEW s \in Sessions, InsertPlace(s)
  PROVE  OrderInv'
  <1> DEFINE m == orderCall[s].mission
             n == orderCall[s].place
  <1>1. /\ places' = [places EXCEPT ![m] = n]
        /\ orderCall' = [orderCall EXCEPT ![s] = NoOrderCall]
        /\ orderCall[s].step = "insert"
        /\ Unheld(s, m) /\ places[m] = None /\ Free(s, m, n)
    BY DEF InsertPlace
  <1>2. m \in Stops /\ n \in Int /\ n # None
    BY <1>1, RunOrderAssumption DEF OrderInv, OrderTypeOK, NoOrderCall
  <1>3. Draft(s) = NoPlaces
    BY <1>1 DEF Draft
  <1> HIDE DEF m, n
  <1>4. /\ places'[m] = n /\ \A x \in Stops \ {m} : places'[x] = places[x]
        /\ places' \in [Stops -> Int \union {None}]
    BY <1>1, <1>2 DEF OrderInv, OrderTypeOK
  <1>5. \A x \in Stops \ {m} : /\ places[x] # n
                               /\ \A t \in Sessions : Draft(t)[x] # n /\ Seen(t)[x] # n
    <2> SUFFICES ASSUME NEW x \in Stops \ {m}
                 PROVE  /\ places[x] # n
                        /\ \A t \in Sessions : Draft(t)[x] # n /\ Seen(t)[x] # n
      OBVIOUS
    <2>1. Seen(s)[x] # n /\ \A t \in Sessions \ {s} : Draft(t)[x] # n
      BY <1>1 DEF Free
    <2>2. places[x] # n /\ Draft(s)[x] # n
      BY <1>2, <1>3, <2>1 DEF Seen, NoPlaces
    <2> QED
      BY <2>1, <2>2 DEF Seen
  <1>6. \A t \in Sessions : Draft(t)[m] = None
    BY <1>1, <1>2, <1>3 DEF Unheld, NoPlaces
  <1>7. \A t \in Sessions : Draft(t)' = Draft(t)
    <2>1. NoOrderCall.step # "renumber"
      BY DEF NoOrderCall
    <2> QED
      BY <1>1, <1>3, <2>1, OrderCallMoves DEF OrderInv
  <1>8. \A t \in Sessions, x \in Stops :
           (Seen(t)[x])' = IF x = m THEN n ELSE Seen(t)[x]
    <2> SUFFICES ASSUME NEW t \in Sessions, NEW x \in Stops
                 PROVE  (Seen(t)[x])' = IF x = m THEN n ELSE Seen(t)[x]
      OBVIOUS
    <2>1. (Seen(t)[x])' = IF Draft(t)[x] # None THEN Draft(t)[x] ELSE places'[x]
      BY <1>7 DEF Seen
    <2> QED
      BY <1>4, <1>6, <2>1 DEF Seen
  <1>9. \A x, y \in Stops : places'[x] # None /\ places'[x] = places'[y] => x = y
    BY <1>4, <1>5 DEF OrderInv, PlacesAreDistinct
  <1>10. OrderTypeOK'
    BY <1>1, <1>4, <1>9, OrderTypesKept DEF OrderInv
  <1>11. DraftsAreHeld'
    <2> SUFFICES ASSUME NEW t \in Sessions, NEW u \in Sessions, NEW x \in Stops,
                        Draft(t)[x] # None
                 PROVE  places'[x] # None /\ (Draft(u)[x] # None => t = u)
      BY <1>7 DEF DraftsAreHeld
    <2>1. x # m
      BY <1>6
    <2> QED
      BY <1>4, <2>1 DEF OrderInv, DraftsAreHeld
  <1>12. PlacesAreDistinct'
    <2>1. ASSUME NEW t \in Sessions, NEW x \in Stops, NEW y \in Stops,
                 (Seen(t)[x])' # None, (Seen(t)[x])' = (Seen(t)[y])'
          PROVE  x = y
      <3>1. \A z \in Stops : (Seen(t)[z])' = IF z = m THEN n ELSE Seen(t)[z]
        BY <1>8
      <3>2. \A z \in Stops \ {m} : Seen(t)[z] # n
        BY <1>5
      <3>3. \A z, v \in Stops : Seen(t)[z] # None /\ Seen(t)[z] = Seen(t)[v] => z = v
        BY DEF OrderInv, PlacesAreDistinct
      <3> QED
        BY <2>1, <3>1, <3>2, <3>3
    <2>2. ASSUME NEW t \in Sessions, NEW u \in Sessions, NEW x \in Stops, NEW y \in Stops,
                 t # u, (Draft(t)[x])' # None, (Draft(t)[x])' = (Draft(u)[y])'
          PROVE  x = y
      BY <1>7, <2>2 DEF OrderInv, PlacesAreDistinct
    <2> QED
      BY <1>9, <2>1, <2>2 DEF PlacesAreDistinct
  <1> QED
    BY <1>10, <1>11, <1>12 DEF OrderInv

LEMMA MissionRemoved ==
  ASSUME OrderInv, NEW m \in Stops, RemoveMission(m)
  PROVE  OrderInv'
  <1>1. /\ places' = [places EXCEPT ![m] = None] /\ orderCall' = orderCall
        /\ \A t \in Sessions : Draft(t)[m] = None
    BY DEF RemoveMission
  <1>2. /\ places'[m] = None /\ \A x \in Stops \ {m} : places'[x] = places[x]
        /\ places' \in [Stops -> Int \union {None}]
    BY <1>1 DEF OrderInv, OrderTypeOK
  <1>3. \A t \in Sessions : Draft(t)' = Draft(t)
    BY <1>1 DEF Draft, NoPlaces
  <1>4. \A t \in Sessions : /\ (Seen(t)[m])' = None
                            /\ \A x \in Stops \ {m} : (Seen(t)[x])' = Seen(t)[x]
    BY <1>1, <1>2, <1>3 DEF Seen
  <1>5. OrderTypeOK'
    BY <1>1, <1>2 DEF OrderInv, OrderTypeOK, PlacesAreDistinct, Placed
  <1>6. DraftsAreHeld'
    BY <1>1, <1>2, <1>3 DEF OrderInv, DraftsAreHeld
  <1>7. PlacesAreDistinct'
    <2>1. ASSUME NEW x \in Stops, NEW y \in Stops, places'[x] # None, places'[x] = places'[y]
          PROVE  x = y
      BY <1>2, <2>1 DEF OrderInv, PlacesAreDistinct
    <2>2. ASSUME NEW t \in Sessions, NEW x \in Stops, NEW y \in Stops,
                 (Seen(t)[x])' # None, (Seen(t)[x])' = (Seen(t)[y])'
          PROVE  x = y
      BY <1>4, <2>2 DEF OrderInv, PlacesAreDistinct
    <2>3. ASSUME NEW t \in Sessions, NEW u \in Sessions, NEW x \in Stops, NEW y \in Stops,
                 t # u, (Draft(t)[x])' # None, (Draft(t)[x])' = (Draft(u)[y])'
          PROVE  x = y
      BY <1>3, <2>3 DEF OrderInv, PlacesAreDistinct
    <2> QED
      BY <2>1, <2>2, <2>3 DEF PlacesAreDistinct
  <1> QED
    BY <1>5, <1>6, <1>7 DEF OrderInv

\* The first UPDATE of a reorder takes all rows of the run, so nobody else has one.
LEMMA PlacesNegated ==
  ASSUME OrderInv, NEW s \in Sessions, NEW listed \in Lists, Negate(s, listed)
  PROVE  OrderInv'
  <1> DEFINE draft == [m \in Stops |-> IF m \in Placed(places) THEN - places[m] ELSE None]
             call  == [step |-> "renumber", listed |-> listed, next |-> 1, draft |-> draft]
  <1>1. /\ orderCall' = [orderCall EXCEPT ![s] = call] /\ places' = places
        /\ orderCall[s] = NoOrderCall
        /\ \A m \in Placed(places) : Unheld(s, m)
    BY DEF Negate
  <1>2. \A m \in Stops : /\ places[m] = None => draft[m] = None
                         /\ places[m] # None => /\ draft[m] = - places[m]
                                                /\ draft[m] \in Int /\ places[m] \in Int
    BY DEF OrderInv, OrderTypeOK, Placed
  <1>3. draft \in [Stops -> Int \union {None}]
    BY <1>2
  <1>4. /\ call \in [step : {"renumber"}, listed : Lists, next : Nat,
                     draft : [Stops -> Int \union {None}]]
        /\ call.next \in 1..(Len(call.listed) + 1)
    <2>1. Len(listed) \in Nat
      <3>1. PICK n \in 0..MaxListed : listed \in [1..n -> Stops]
        BY DEF Lists
      <3>2. n \in Nat
        BY RunOrderAssumption
      <3> QED
        BY <3>1, <3>2
    <2> QED
      BY <1>3, <2>1
  <1>5. call.step = "renumber" /\ call.draft = draft
    OBVIOUS
  <1> HIDE DEF draft, call
  <1>6. OrderTypeOK'
    BY <1>1, <1>4, OrderTypesKept DEF OrderInv, OrderTypeOK, PlacesAreDistinct
  <1>7. /\ Draft(s)' = draft
        /\ \A t \in Sessions \ {s} : Draft(t)' = Draft(t)
    BY <1>1, <1>5, OrderCallMoves DEF OrderInv
  <1>8. \A t \in Sessions \ {s}, m \in Stops : Draft(t)[m] = None
    BY <1>1 DEF OrderInv, DraftsAreHeld, Placed, Unheld
  <1>9. \A m \in Stops : /\ (Seen(s)[m])' = draft[m]
                         /\ \A t \in Sessions \ {s} : (Seen(t)[m])' = places[m]
    <2> SUFFICES ASSUME NEW m \in Stops
                 PROVE  /\ (Seen(s)[m])' = draft[m]
                        /\ \A t \in Sessions \ {s} : (Seen(t)[m])' = places[m]
      OBVIOUS
    <2>1. (Seen(s)[m])' = IF draft[m] # None THEN draft[m] ELSE places[m]
      BY <1>1, <1>7 DEF Seen
    <2>2. \A t \in Sessions \ {s} : (Seen(t)[m])' = places[m]
      BY <1>1, <1>7, <1>8 DEF Seen
    <2> QED
      BY <1>2, <2>1, <2>2, RunOrderAssumption
  <1>10. \A m, x \in Stops : draft[m] # None /\ draft[m] = draft[x] => m = x
    <2> SUFFICES ASSUME NEW m \in Stops, NEW x \in Stops, draft[m] # None, draft[m] = draft[x]
                 PROVE  m = x
      OBVIOUS
    <2>1. places[m] = places[x] /\ places[m] # None
      BY <1>2
    <2> QED
      BY <2>1 DEF OrderInv, PlacesAreDistinct
  <1>11. DraftsAreHeld'
    BY <1>1, <1>2, <1>7, <1>8 DEF DraftsAreHeld
  <1>12. PlacesAreDistinct'
    BY <1>1, <1>7, <1>8, <1>9, <1>10 DEF OrderInv, PlacesAreDistinct
  <1> QED
    BY <1>6, <1>11, <1>12 DEF OrderInv

\* An UPDATE of a reorder gives a mission of the run a place that is free.
LEMMA MissionRenumbered ==
  ASSUME OrderInv, NEW s \in Sessions, Renumber(s)
  PROVE  OrderInv'
  <1> DEFINE old  == orderCall[s]
             m    == old.listed[old.next]
             n    == old.next
             draft == IF Seen(s)[m] = None THEN old.draft ELSE [old.draft EXCEPT ![m] = n]
             call == [step |-> "renumber", listed |-> old.listed, next |-> n + 1, draft |-> draft]
  <1>1. /\ orderCall' = [orderCall EXCEPT ![s] = call] /\ places' = places
        /\ old.step = "renumber" /\ n <= Len(old.listed)
        /\ Seen(s)[m] # None => Unheld(s, m) /\ Free(s, m, n)
    BY DEF Renumber
  <1>2. /\ old \in [step : {"renumber"}, listed : Lists, next : Nat,
                    draft : [Stops -> Int \union {None}]]
        /\ n \in 1..(Len(old.listed) + 1)
    BY <1>1 DEF OrderInv, OrderTypeOK, NoOrderCall
  <1>3. Len(old.listed) \in Nat /\ m \in Stops /\ n \in Nat
    <2>1. PICK k \in 0..MaxListed : old.listed \in [1..k -> Stops]
      BY <1>2 DEF Lists
    <2>2. k \in Nat
      BY RunOrderAssumption
    <2>3. Len(old.listed) = k
      BY <2>1, <2>2
    <2> QED
      BY <1>1, <1>2, <2>1, <2>2, <2>3
  <1>4. Draft(s) = old.draft
    BY <1>1 DEF Draft
  <1>5. draft \in [Stops -> Int \union {None}]
    BY <1>2, <1>3
  <1>6. /\ call \in [step : {"renumber"}, listed : Lists, next : Nat,
                     draft : [Stops -> Int \union {None}]]
        /\ call.next \in 1..(Len(call.listed) + 1)
    BY <1>1, <1>2, <1>3, <1>5
  <1>7. call.step = "renumber" /\ call.draft = draft
    OBVIOUS
  <1>8. \A x \in Stops : draft[x] = IF x = m /\ Seen(s)[m] # None THEN n ELSE Draft(s)[x]
    BY <1>2, <1>3, <1>4
  <1> HIDE DEF old, m, n, draft, call
  <1>9. n # None
    BY <1>3, RunOrderAssumption
  <1>10. OrderTypeOK'
    BY <1>1, <1>6, OrderTypesKept DEF OrderInv, OrderTypeOK, PlacesAreDistinct
  <1>11. /\ Draft(s)' = draft
         /\ \A t \in Sessions \ {s} : Draft(t)' = Draft(t)
    BY <1>1, <1>7, OrderCallMoves DEF OrderInv
  <1>12. \A x \in Stops : (Seen(s)[x])' = IF x = m /\ Seen(s)[m] # None THEN n ELSE Seen(s)[x]
    <2> SUFFICES ASSUME NEW x \in Stops
                 PROVE  (Seen(s)[x])' = IF x = m /\ Seen(s)[m] # None THEN n ELSE Seen(s)[x]
      OBVIOUS
    <2>1. (Seen(s)[x])' = IF draft[x] # None THEN draft[x] ELSE places[x]
      BY <1>1, <1>11 DEF Seen
    <2>2. Seen(s)[x] = IF Draft(s)[x] # None THEN Draft(s)[x] ELSE places[x]
      BY DEF Seen
    <2> QED
      BY <1>8, <1>9, <2>1, <2>2
  <1>13. \A t \in Sessions \ {s}, x \in Stops : (Seen(t)[x])' = Seen(t)[x]
    BY <1>1, <1>11 DEF Seen
  <1>14. DraftsAreHeld'
    <2>1. Seen(s)[m] # None => places[m] # None
      BY <1>3 DEF OrderInv, DraftsAreHeld, Seen
    <2>2. Seen(s)[m] # None => \A t \in Sessions \ {s} : Draft(t)[m] = None
      BY <1>1 DEF Unheld
    <2> QED
      BY <1>1, <1>8, <1>11, <2>1, <2>2 DEF OrderInv, DraftsAreHeld
  <1>15. PlacesAreDistinct'
    <2>1. Seen(s)[m] # None =>
             \A x \in Stops \ {m} : Seen(s)[x] # n /\ \A t \in Sessions \ {s} : Draft(t)[x] # n
      BY <1>1 DEF Free
    <2>2. \A x, y \in Stops : (Seen(s)[x])' # None /\ (Seen(s)[x])' = (Seen(s)[y])' => x = y
      <3>1. \A x, y \in Stops : Seen(s)[x] # None /\ Seen(s)[x] = Seen(s)[y] => x = y
        BY DEF OrderInv, PlacesAreDistinct
      <3> QED
        BY <1>12, <2>1, <3>1
    <2>3. \A t \in Sessions \ {s}, x, y \in Stops :
             draft[x] # None /\ draft[x] = Draft(t)[y] => x = y
      BY <1>8, <2>1 DEF OrderInv, PlacesAreDistinct
    <2>4. \A t \in Sessions \ {s}, x, y \in Stops :
             Draft(t)[x] # None /\ Draft(t)[x] = draft[y] => x = y
      BY <2>3
    <2> QED
      BY <1>1, <1>11, <1>13, <2>2, <2>3, <2>4 DEF OrderInv, PlacesAreDistinct
  <1> QED
    BY <1>10, <1>14, <1>15 DEF OrderInv

LEMMA ReorderCommitted ==
  ASSUME OrderInv, NEW s \in Sessions, CommitReorder(s)
  PROVE  OrderInv'
  <1>1. /\ places' = Seen(s) /\ orderCall' = [orderCall EXCEPT ![s] = NoOrderCall]
    BY DEF CommitReorder
  <1>2. Seen(s) \in [Stops -> Int \union {None}]
    BY DraftTyped DEF OrderInv
  <1>3. \A x, y \in Stops : places'[x] # None /\ places'[x] = places'[y] => x = y
    BY <1>1 DEF OrderInv, PlacesAreDistinct
  <1>4. OrderTypeOK'
    BY <1>1, <1>2, <1>3, OrderTypesKept DEF OrderInv
  <1>5. /\ Draft(s)' = NoPlaces
        /\ \A t \in Sessions \ {s} : Draft(t)' = Draft(t)
    <2>1. NoOrderCall.step # "renumber"
      BY DEF NoOrderCall
    <2> QED
      BY <1>1, <2>1, OrderCallMoves DEF OrderInv
  <1>6. \A x \in Stops : /\ places'[x] = IF Draft(s)[x] # None THEN Draft(s)[x] ELSE places[x]
                         /\ (Draft(s)[x])' = None
                         /\ (Seen(s)[x])' = places'[x]
    BY <1>1, <1>5 DEF Seen, NoPlaces
  <1>7. \A t \in Sessions \ {s}, x \in Stops :
           (Seen(t)[x])' = IF Draft(t)[x] # None THEN Draft(t)[x] ELSE places'[x]
    BY <1>5 DEF Seen
  <1>8. DraftsAreHeld'
    BY <1>5, <1>6 DEF OrderInv, DraftsAreHeld
  <1>9. \A t \in Sessions \ {s}, x, y \in Stops :
           (Seen(t)[x])' # None /\ (Seen(t)[x])' = (Seen(t)[y])' => x = y
    <2> SUFFICES ASSUME NEW t \in Sessions \ {s}, NEW x \in Stops, NEW y \in Stops,
                        (Seen(t)[x])' # None, (Seen(t)[x])' = (Seen(t)[y])'
                 PROVE  x = y
      OBVIOUS
    <2>1. CASE Draft(s)[x] = None /\ Draft(s)[y] = None
      <3>1. (Seen(t)[x])' = Seen(t)[x] /\ (Seen(t)[y])' = Seen(t)[y]
        BY <1>6, <1>7, <2>1 DEF Seen
      <3> QED
        BY <3>1 DEF OrderInv, PlacesAreDistinct
    <2>2. CASE Draft(t)[x] = None /\ Draft(t)[y] = None
      BY <1>3, <1>7, <2>2
    <2>3. CASE Draft(s)[x] # None /\ Draft(t)[y] # None
      <3>1. Draft(t)[x] = None
        BY <2>3 DEF OrderInv, DraftsAreHeld
      <3>2. Draft(s)[x] = Draft(t)[y]
        BY <1>6, <1>7, <2>3, <3>1
      <3> QED
        BY <2>3, <3>2 DEF OrderInv, PlacesAreDistinct
    <2>4. CASE Draft(s)[y] # None /\ Draft(t)[x] # None
      <3>1. Draft(t)[y] = None
        BY <2>4 DEF OrderInv, DraftsAreHeld
      <3>2. Draft(t)[x] = Draft(s)[y]
        BY <1>6, <1>7, <2>4, <3>1
      <3> QED
        BY <2>4, <3>2 DEF OrderInv, PlacesAreDistinct
    <2>5. CASE Draft(s)[x] # None /\ Draft(t)[x] # None
      BY <2>5 DEF OrderInv, DraftsAreHeld
    <2>6. CASE Draft(s)[y] # None /\ Draft(t)[y] # None
      BY <2>6 DEF OrderInv, DraftsAreHeld
    <2> QED
      BY <2>1, <2>2, <2>3, <2>4, <2>5, <2>6
  <1>10. \A t, u \in Sessions, x, y \in Stops :
            t # u /\ (Draft(t)[x])' # None /\ (Draft(t)[x])' = (Draft(u)[y])' => x = y
    <2> SUFFICES ASSUME NEW t \in Sessions, NEW u \in Sessions, NEW x \in Stops, NEW y \in Stops,
                        t # u, (Draft(t)[x])' # None, (Draft(t)[x])' = (Draft(u)[y])'
                 PROVE  x = y
      OBVIOUS
    <2>1. t # s /\ u # s
      BY <1>6
    <2> QED
      BY <1>5, <2>1 DEF OrderInv, PlacesAreDistinct
  <1>11. PlacesAreDistinct'
    BY <1>3, <1>6, <1>9, <1>10 DEF PlacesAreDistinct
  <1> QED
    BY <1>4, <1>8, <1>11 DEF OrderInv

LEMMA OrderInvStep == OrderInv /\ [OrderNext]_runOrderVars => OrderInv'
  <1> SUFFICES ASSUME OrderInv, [OrderNext]_runOrderVars PROVE OrderInv'
    OBVIOUS
  <1>1. ASSUME NEW s \in Sessions, NEW m \in Stops, ReadLastPlace(s, m) PROVE OrderInv'
    <2>1. PICK last \in {0} \union {places[x] : x \in Placed(places)} :
             /\ last < MaxPlace
             /\ orderCall' = [orderCall EXCEPT ![s] =
                    [step |-> "insert", mission |-> m, place |-> last + 1]]
      BY <1>1 DEF ReadLastPlace
    <2>2. last \in Int
      BY DEF OrderInv, OrderTypeOK, Placed
    <2> DEFINE call == [step |-> "insert", mission |-> m, place |-> last + 1]
    <2>3. call \in [step : {"insert"}, mission : Stops, place : Int]
      BY <2>2
    <2>4. orderCall' = [orderCall EXCEPT ![s] = call] /\ places' = places
      BY <1>1, <2>1 DEF ReadLastPlace
    <2> HIDE DEF call
    <2> QED
      BY <2>3, <2>4, QuietOrderCall
  <1>2. ASSUME NEW s \in Sessions, NEW m \in Stops, NEW n \in 1..MaxPlace, AskForPlace(s, m, n)
        PROVE  OrderInv'
    <2> DEFINE call == [step |-> "insert", mission |-> m, place |-> n]
    <2>1. call \in [step : {"insert"}, mission : Stops, place : Int]
      BY RunOrderAssumption
    <2>2. orderCall' = [orderCall EXCEPT ![s] = call] /\ places' = places
      BY <1>2 DEF AskForPlace
    <2> HIDE DEF call
    <2> QED
      BY <2>1, <2>2, QuietOrderCall
  <1>3. ASSUME NEW s \in Sessions, OrderCallFails(s) PROVE OrderInv'
    BY <1>3, QuietOrderCall DEF OrderCallFails
  <1>4. CASE UNCHANGED runOrderVars
    BY <1>4
    DEF runOrderVars, OrderInv, OrderTypeOK, DraftsAreHeld, PlacesAreDistinct, Draft, Seen,
        Placed, NoPlaces
  <1> QED
    BY <1>1, <1>2, <1>3, <1>4, PlaceInserted, MissionRemoved, PlacesNegated, MissionRenumbered,
       ReorderCommitted DEF OrderNext

\* No two missions of a run ever have one place, however assign_mission,
\* remove_mission and reorder_missions overlap.
THEOREM PlacesOfARunAreDistinct == OrderSpec => []OrderTypeOK
  <1>1. OrderInv => OrderTypeOK
    BY DEF OrderInv
  <1> QED
    BY <1>1, OrderInvInit, OrderInvStep, PTL DEF OrderSpec

-----------------------------------------------------------------------------
(* Settings                                                                  *)

SettingCalls == [table : SettingTables, id : Preset \union SettingIds, cleared : SUBSET SettingRows]

SettingsInv == SettingsTypeOK /\ setting \in [Sessions -> SettingCalls \union {None}]

\* SaveDefault writes over the row of the call and the rows the call has cleared.
LEMMA DefaultSaved ==
  ASSUME SettingsInv, NEW s \in Sessions, SaveDefault(s)
  PROVE  SettingsInv'
  <1> DEFINE call == setting[s]
             cleared == {r.id : r \in call.cleared}
             kept  == {r \in settings : ~ (r.table = call.table /\ r.id \in cleared \union {call.id})}
             ordinary == {[table |-> call.table, id |-> i, default |-> FALSE] : i \in cleared \ {call.id}}
             default == [table |-> call.table, id |-> call.id, default |-> TRUE]
  <1>1. /\ settings' = kept \union ordinary \union {default}
        /\ setting' = [setting EXCEPT ![s] = None]
        /\ call # None
    BY DEF SaveDefault
  <1>2. call \in SettingCalls
    BY <1>1 DEF SettingsInv
  <1>3. cleared \subseteq Preset \union SettingIds
    BY <1>2 DEF SettingCalls, SettingRows
  <1>4. /\ default \in SettingRows /\ default.table = call.table /\ default.id = call.id
        /\ \A r \in ordinary : /\ r \in SettingRows /\ r.table = call.table
                               /\ r.id \in cleared \ {call.id} /\ r.default = FALSE
    <2>1. call.table \in SettingTables /\ call.id \in Preset \union SettingIds
      BY <1>2 DEF SettingCalls
    <2>2. default \in SettingRows /\ default.table = call.table /\ default.id = call.id
      BY <2>1 DEF SettingRows
    <2> HIDE DEF call, cleared
    <2>3. ASSUME NEW r \in ordinary
          PROVE  /\ r \in SettingRows /\ r.table = call.table
                 /\ r.id \in cleared \ {call.id} /\ r.default = FALSE
      <3>1. PICK i \in cleared \ {call.id} :
               r = [table |-> call.table, id |-> i, default |-> FALSE]
        OBVIOUS
      <3>2. i \in Preset \union SettingIds
        BY <1>3
      <3> QED
        BY <2>1, <3>1, <3>2 DEF SettingRows
    <2> QED
      BY <2>2, <2>3
  <1>5. \A r \in kept : r \in settings /\ ~ (r.table = call.table /\ r.id \in cleared \union {call.id})
    OBVIOUS
  <1>6. \A r, x \in ordinary : r.id = x.id => r = x
    BY <1>4 DEF SettingRows
  <1> HIDE DEF call, cleared, kept, ordinary, default
  <1>7. settings' \subseteq SettingRows
    BY <1>1, <1>4, <1>5 DEF SettingsInv, SettingsTypeOK
  <1>8. \A r, x \in settings' : r.table = x.table /\ r.id = x.id => r = x
    BY <1>1, <1>4, <1>5, <1>6 DEF SettingsInv, SettingsTypeOK
  <1>9. setting' \in [Sessions -> SettingCalls \union {None}]
    BY <1>1 DEF SettingsInv
  <1> QED
    BY <1>7, <1>8, <1>9 DEF SettingsInv, SettingsTypeOK, SettingCalls

LEMMA SettingsInvStep == SettingsInv /\ [SettingsNext]_settingsVars => SettingsInv'
  <1> SUFFICES ASSUME SettingsInv, [SettingsNext]_settingsVars PROVE SettingsInv'
    OBVIOUS
  <1> USE DEF SettingsInv, SettingsTypeOK
  <1>1. ASSUME NEW s \in Sessions, NEW table \in SettingTables, NEW id \in RowIds(table),
               ClearDefaults(s, table, id)
        PROVE  SettingsInv'
    <2> DEFINE call == [table |-> table, id |-> id, cleared |-> RowsOf(table)]
    <2>1. id \in Preset \union SettingIds
      BY DEF RowIds
    <2>2. call \in SettingCalls
      BY <2>1 DEF SettingCalls, RowsOf
    <2>3. setting' = [setting EXCEPT ![s] = call] /\ settings' = settings
      BY <1>1 DEF ClearDefaults
    <2> HIDE DEF call
    <2>4. setting' \in [Sessions -> SettingCalls \union {None}]
      BY <2>2, <2>3
    <2> QED
      BY <2>3, <2>4 DEF SettingCalls
  <1>2. ASSUME NEW s \in Sessions, NEW table \in SettingTables, NEW id \in RowIds(table),
               SaveOrdinary(s, table, id)
        PROVE  SettingsInv'
    <2> DEFINE row == [table |-> table, id |-> id, default |-> FALSE]
               old == {r \in RowsOf(table) : r.id = id}
    <2>1. id \in Preset \union SettingIds
      BY DEF RowIds
    <2>2. row \in SettingRows /\ row.table = table /\ row.id = id
      BY <2>1 DEF SettingRows
    <2>3. settings' = (settings \ old) \union {row} /\ setting' = setting
      BY <1>2 DEF SaveOrdinary
    <2>4. \A r \in settings \ old : ~ (r.table = table /\ r.id = id)
      BY DEF RowsOf
    <2> HIDE DEF row, old
    <2> QED
      BY <2>2, <2>3, <2>4
  <1>3. ASSUME NEW s \in Sessions, NEW r \in settings, DeleteSetting(s, r) PROVE SettingsInv'
    BY <1>3 DEF DeleteSetting
  <1>4. ASSUME NEW s \in Sessions, SaveFails(s) PROVE SettingsInv'
    <2>1. setting' \in [Sessions -> SettingCalls \union {None}] /\ settings' = settings
      BY <1>4 DEF SaveFails
    <2> QED
      BY <2>1 DEF SettingCalls
  <1>5. CASE UNCHANGED settingsVars
    BY <1>5 DEF settingsVars
  <1> QED
    BY <1>1, <1>2, <1>3, <1>4, <1>5, DefaultSaved DEF SettingsNext

LEMMA SettingsInvInit == SettingsInit => SettingsInv
  <1> SUFFICES ASSUME SettingsInit PROVE SettingsInv
    OBVIOUS
  <1>1. settings = [table : {"vat_configs"}, id : Preset, default : {FALSE}]
    BY DEF SettingsInit
  <1>2. settings \subseteq SettingRows
    BY <1>1 DEF SettingRows, SettingTables
  <1>3. \A r, x \in settings : r.table = x.table /\ r.id = x.id => r = x
    <2> SUFFICES ASSUME NEW r \in settings, NEW x \in settings, r.id = x.id PROVE r = x
      OBVIOUS
    <2>1. r.table = x.table /\ r.default = x.default
      BY <1>1
    <2> QED
      BY <1>2, <2>1 DEF SettingRows
  <1> QED
    BY <1>2, <1>3 DEF SettingsInit, SettingsInv, SettingsTypeOK

\* A bank account and a VAT rate have one row each, however the calls that clear
\* the default rows and write over them overlap.
THEOREM SettingsTypeCorrect == SettingsSpec => []SettingsTypeOK
  <1>1. SettingsInv => SettingsTypeOK
    BY DEF SettingsInv
  <1> QED
    BY <1>1, SettingsInvInit, SettingsInvStep, PTL DEF SettingsSpec

-----------------------------------------------------------------------------
(* Operations                                                                *)

\* The upsert that a call has not committed is the only one of its key, and the
\* committed row of the key, if there is one, is the row that it writes over.
UpsertsAreExclusive ==
    /\ \A s, t \in Sessions :
            (/\ upsert[s] # None /\ upsert[t] # None
             /\ upsert[s].table = upsert[t].table /\ upsert[s].key = upsert[t].key) => s = t
    /\ \A s \in Sessions : upsert[s] # None =>
            \A e \in entries : (/\ e \in Keyed /\ e.table = upsert[s].table
                                /\ e.key = upsert[s].key) => e.id = upsert[s].id

OperationsInv == OperationsTypeOK /\ UpsertsAreExclusive

LEMMA OperationsInvInit == OperationsInit => OperationsInv
  BY DEF OperationsInit, OperationsInv, OperationsTypeOK, OneEntryPerKey, UpsertsAreExclusive

\* The rows of one INSERT that writes over nothing.
PlainRows == [id : Nat, table : Registers] \union [id : Nat, table : {"leaves"}, span : LeaveSpans]

LEMMA PlainRowsAreNotKeyed == \A e \in PlainRows : e \notin Keyed
  BY DEF PlainRows, Keyed, Registers

LEMMA RowIsAdded ==
  ASSUME OperationsInv, NEW row \in PlainRows, Add(row)
  PROVE  OperationsInv'
  <1>1. entries' = entries \union {row} /\ upsert' = upsert
        /\ lastEntry' = lastEntry + 1 /\ reports' = reports + 1
    BY DEF Add, Report
  <1>2. row \notin Keyed
    BY PlainRowsAreNotKeyed
  <1>3. OneEntryPerKey'
    BY <1>1, <1>2 DEF OperationsInv, OperationsTypeOK, OneEntryPerKey
  <1>4. OperationsTypeOK'
    BY <1>1, <1>3 DEF OperationsInv, OperationsTypeOK, PlainRows
  <1>5. UpsertsAreExclusive'
    BY <1>1, <1>2 DEF OperationsInv, UpsertsAreExclusive
  <1> QED
    BY <1>4, <1>5 DEF OperationsInv

LEMMA EntryWritten ==
  ASSUME OperationsInv, NEW s \in Sessions, NEW table, NEW key, NEW value \in Values,
         \/ table = "infractions" /\ key \in Months
         \/ table = "schedules" /\ key \in Shifts,
         WriteEntry(s, table, key, value)
  PROVE  OperationsInv'
  <1>1. PICK id \in IF EntryOf(table, key) = {} THEN {lastEntry'}
                    ELSE {e.id : e \in EntryOf(table, key)} :
           upsert' = [upsert EXCEPT ![s] = [id |-> id, table |-> table, key |-> key, value |-> value]]
    BY DEF WriteEntry
  <1>2. /\ entries' = entries /\ lastEntry' = lastEntry + 1 /\ reports' = reports + 1
        /\ Open(table, key) = {} /\ upsert[s] = None
    BY DEF WriteEntry, Report
  <1>3. \A e \in EntryOf(table, key) : e \in Keyed /\ e.id \in Nat
    BY DEF EntryOf, OperationsInv, OperationsTypeOK, Keyed, Registers
  <1>4. id \in Nat
    BY <1>2, <1>3 DEF OperationsInv, OperationsTypeOK
  <1> DEFINE row == [id |-> id, table |-> table, key |-> key, value |-> value]
  <1>5. /\ row \in Keyed /\ row.id = id /\ row.table = table /\ row.key = key
    BY <1>4 DEF Keyed
  <1>6. upsert' = [upsert EXCEPT ![s] = row]
    BY <1>1
  <1> HIDE DEF row
  <1>7. /\ upsert'[s] = row /\ \A t \in Sessions \ {s} : upsert'[t] = upsert[t]
        /\ upsert' \in [Sessions -> Keyed \union {None}]
    BY <1>5, <1>6 DEF OperationsInv, OperationsTypeOK
  <1>8. OperationsTypeOK'
    BY <1>2, <1>7 DEF OperationsInv, OperationsTypeOK, OneEntryPerKey
  <1>9. \A e \in entries : e \in Keyed /\ e.table = table /\ e.key = key => e.id = id
    <2> SUFFICES ASSUME NEW e \in entries, e \in Keyed, e.table = table, e.key = key
                 PROVE  e.id = id
      OBVIOUS
    <2>1. e \in EntryOf(table, key)
      BY DEF EntryOf
    <2>2. \A f \in EntryOf(table, key) : f = e
      BY <1>3, <2>1 DEF EntryOf, OperationsInv, OperationsTypeOK, OneEntryPerKey
    <2> QED
      BY <1>1, <2>1, <2>2
  <1>10. UpsertsAreExclusive'
    <2>1. \A t \in Sessions \ {s} :
             upsert[t] # None => ~ (upsert[t].table = table /\ upsert[t].key = key)
      BY <1>2 DEF Open
    <2> QED
      BY <1>2, <1>5, <1>7, <1>9, <2>1 DEF OperationsInv, UpsertsAreExclusive
  <1> QED
    BY <1>8, <1>10 DEF OperationsInv

LEMMA EntryCommitted ==
  ASSUME OperationsInv, NEW s \in Sessions, CommitEntry(s)
  PROVE  OperationsInv'
  <1> DEFINE row == upsert[s]
  <1>1. /\ entries' = {e \in entries : e.id # row.id} \union {row}
        /\ upsert' = [upsert EXCEPT ![s] = None]
        /\ row # None /\ UNCHANGED <<lastEntry, reports>>
    BY DEF CommitEntry
  <1>2. row \in Keyed
    BY <1>1 DEF OperationsInv, OperationsTypeOK
  <1>3. /\ upsert'[s] = None /\ \A t \in Sessions \ {s} : upsert'[t] = upsert[t]
        /\ upsert' \in [Sessions -> Keyed \union {None}]
    BY <1>1 DEF OperationsInv, OperationsTypeOK
  <1>4. \A e \in entries : e \in Keyed /\ e.table = row.table /\ e.key = row.key => e.id = row.id
    BY <1>1 DEF OperationsInv, UpsertsAreExclusive
  <1>5. \A t \in Sessions \ {s} : upsert[t] # None =>
           ~ (upsert[t].table = row.table /\ upsert[t].key = row.key)
    BY <1>1 DEF OperationsInv, UpsertsAreExclusive
  <1> HIDE DEF row
  <1>6. OneEntryPerKey'
    BY <1>1, <1>4 DEF OperationsInv, OperationsTypeOK, OneEntryPerKey
  <1>7. OperationsTypeOK'
    BY <1>1, <1>2, <1>3, <1>6 DEF OperationsInv, OperationsTypeOK
  <1>8. UpsertsAreExclusive'
    BY <1>1, <1>3, <1>5 DEF OperationsInv, UpsertsAreExclusive
  <1> QED
    BY <1>7, <1>8 DEF OperationsInv

LEMMA OperationsInvStep == OperationsInv /\ [OperationsNext]_operationsVars => OperationsInv'
  <1> SUFFICES ASSUME OperationsInv, [OperationsNext]_operationsVars PROVE OperationsInv'
    OBVIOUS
  <1>1. CASE CreateComplaint \/ CreateViolation \/ CreateRepair \/ CreateLeave
    <2>1. PICK row \in PlainRows : Add(row)
      <3>1. lastEntry' \in Nat
        BY <1>1 DEF OperationsInv, OperationsTypeOK, CreateComplaint, CreateViolation, CreateRepair,
                    CreateLeave, Add, Report
      <3> QED
        BY <1>1, <3>1 DEF CreateComplaint, CreateViolation, CreateRepair, CreateLeave, PlainRows,
                          Registers
    <2> QED
      BY <2>1, RowIsAdded
  <1>2. ASSUME NEW s \in Sessions, CreateInfraction(s) \/ CreateShift(s) PROVE OperationsInv'
    BY <1>2, EntryWritten DEF CreateInfraction, CreateShift
  <1>3. ASSUME NEW s \in Sessions, EntryFails(s) PROVE OperationsInv'
    BY <1>3 DEF EntryFails, OperationsInv, OperationsTypeOK, OneEntryPerKey, UpsertsAreExclusive
  <1>4. CASE UNCHANGED operationsVars
    BY <1>4 DEF operationsVars, OperationsInv, OperationsTypeOK, OneEntryPerKey, UpsertsAreExclusive
  <1> QED
    BY <1>1, <1>2, <1>3, <1>4, EntryCommitted DEF OperationsNext

\* Monthly infractions and daily schedules have one row per driver and month or
\* day, however calls are repeated and overlap (INSERT ... ON CONFLICT DO UPDATE).
THEOREM OperationsTypeCorrect == OperationsSpec => []OperationsTypeOK
  <1>1. OperationsInv => OperationsTypeOK
    BY DEF OperationsInv
  <1> QED
    BY <1>1, OperationsInvInit, OperationsInvStep, PTL DEF OperationsSpec

-----------------------------------------------------------------------------
(* Planning                                                                  *)

Assignments == [tour : Tours, who : Crew, overlaps : SUBSET Tours]

PlanningInv == /\ PlanningTypeOK
               /\ tours \in [Tours -> TourRows \union {None}]
               /\ assigning \in [Sessions -> Assignments \union {None}]

LEMMA PlanningInvInit == PlanningInit => PlanningInv
  BY DEF PlanningInit, PlanningInv, PlanningTypeOK, Stored

LEMMA PairsHaveTwo ==
  ASSUME NEW m, NEW n, m # n
  PROVE  Cardinality({m, n}) = 2
  <1>1. IsFiniteSet({m}) /\ Cardinality({m}) = 1
    BY FS_Singleton
  <1>2. Cardinality({m} \union {n}) = 2
    BY <1>1, FS_AddElement
  <1> QED
    BY <1>2

\* A mission is written; warnings and calls still name stored missions.
LEMMA TourWritten ==
  ASSUME PlanningInv, NEW m \in Tours, NEW row \in TourRows, tours' = [tours EXCEPT ![m] = row],
         warned' = warned, assigning' = assigning
  PROVE  PlanningInv'
  <1>1. tours' \in [Tours -> TourRows \union {None}]
    BY DEF PlanningInv
  <1>2. tours'[m] = row /\ \A n \in Tours \ {m} : tours'[n] = tours[n]
    BY DEF PlanningInv
  <1>3. Stored \subseteq Stored' /\ \A n \in Stored' : tours'[n] \in TourRows
    BY <1>1, <1>2, PlanningAssumption DEF Stored
  <1> QED
    BY <1>1, <1>3 DEF PlanningInv, PlanningTypeOK

\* The row that a call writes over, some of its columns changed.
LEMMA TourChanges ==
  ASSUME PlanningInv, NEW m \in Stored,
         NEW from \in HalfDays \union {None}, NEW to \in HalfDays \union {None},
         NEW who \in Crew \union {None},
         NEW status \in {"BROUILLON", "PLANIFIEE", "AFFECTEE", "EN_COURS", "LIVREE", "CLOTUREE",
                         "ANNULEE"}
  PROVE  /\ m \in Tours /\ tours[m] \in TourRows
         /\ [tours[m] EXCEPT !.from = from] \in TourRows
         /\ [tours[m] EXCEPT !.from = from].to = tours[m].to
         /\ [[tours[m] EXCEPT !.from = from] EXCEPT !.to = to] \in TourRows
         /\ [tours[m] EXCEPT !.who = who] \in TourRows
         /\ [[tours[m] EXCEPT !.who = who] EXCEPT !.status = status] \in TourRows
         /\ [tours[m] EXCEPT !.status = status] \in TourRows
  <1>1. m \in Tours /\ tours[m] \in TourRows
    BY DEF PlanningInv, PlanningTypeOK, Stored
  <1> QED
    BY <1>1 DEF TourRows

\* Two columns of a row are written one after the other.
LEMMA TwoColumns ==
  ASSUME PlanningInv, NEW m \in Tours, NEW one, NEW other
  PROVE  [[tours EXCEPT ![m] = one] EXCEPT ![m] = other] = [tours EXCEPT ![m] = other]
  BY DEF PlanningInv

LEMMA PlanningInvStep == PlanningInv /\ [PlanningNext]_planningVars => PlanningInv'
  <1> SUFFICES ASSUME PlanningInv, [PlanningNext]_planningVars PROVE PlanningInv'
    OBVIOUS
  <1>1. ASSUME NEW m \in Tours, NEW from \in HalfDays \union {None},
               NEW to \in HalfDays \union {None}, PlanTour(m, from, to)
        PROVE  PlanningInv'
    BY <1>1, TourWritten DEF PlanTour, TourRows
  <1>2. ASSUME NEW m \in Tours, NEW from \in HalfDays \union {None},
               NEW to \in HalfDays \union {None}, MoveTour(m, from, to)
        PROVE  PlanningInv'
    <2> DEFINE a == Given(from, tours[m].from)
               b == Given(to, tours[m].to)
               one == [tours[m] EXCEPT !.from = a]
               row == [one EXCEPT !.to = b]
    <2>1. m \in Stored /\ tours[m] \in TourRows
      BY <1>2 DEF MoveTour, PlanningInv, PlanningTypeOK
    <2>2. a \in HalfDays \union {None} /\ b \in HalfDays \union {None}
      BY <2>1 DEF Given, TourRows
    <2>3. one.to = tours[m].to /\ row \in TourRows
      BY <2>1, <2>2, TourChanges
    <2>4. tours' = [[tours EXCEPT ![m] = one] EXCEPT ![m] = row]
      BY <1>2, <2>3 DEF MoveTour, PlanningInv
    <2> HIDE DEF row, one
    <2>5. tours' = [tours EXCEPT ![m] = row]
      BY <2>4, TwoColumns
    <2> QED
      BY <1>2, <2>3, <2>5, TourWritten DEF MoveTour
  <1>3. ASSUME NEW m \in Tours, NEW day \in BoardDays, NEW w \in Crew, GenerateTour(m, day, w)
        PROVE  PlanningInv'
    <2>1. Midnight(day) \in HalfDays
      BY PlanningAssumption DEF BoardDays, HalfDays, Midnight
    <2> QED
      BY <1>3, <2>1, TourWritten DEF GenerateTour, TourRows
  <1>4. ASSUME NEW m \in Tours, UnassignTour(m) PROVE PlanningInv'
    <2> DEFINE one == [tours[m] EXCEPT !.who = None]
               row == [one EXCEPT !.status = "PLANIFIEE"]
    <2>1. m \in Stored
      BY <1>4 DEF UnassignTour
    <2>2. row \in TourRows
      BY <2>1, TourChanges
    <2>3. tours' = [[tours EXCEPT ![m] = one] EXCEPT ![m] = row]
      BY <1>4 DEF UnassignTour, PlanningInv
    <2> HIDE DEF row, one
    <2>4. tours' = [tours EXCEPT ![m] = row]
      BY <2>3, TwoColumns
    <2> QED
      BY <1>4, <2>2, <2>4, TourWritten DEF UnassignTour
  <1>5. ASSUME NEW m \in Tours, NEW status \in {t[2] : t \in Transitions}, AdvanceTour(m, status)
        PROVE  PlanningInv'
    <2>1. m \in Stored /\ status \in {"BROUILLON", "PLANIFIEE", "AFFECTEE", "EN_COURS", "LIVREE",
                                      "CLOTUREE", "ANNULEE"}
      BY <1>5 DEF AdvanceTour, Transitions
    <2> DEFINE row == [tours[m] EXCEPT !.status = status]
    <2>2. row \in TourRows
      BY <2>1, TourChanges
    <2>3. tours' = [tours EXCEPT ![m] = row]
      BY <1>5 DEF AdvanceTour
    <2> HIDE DEF row
    <2> QED
      BY <1>5, <2>2, <2>3, TourWritten DEF AdvanceTour
  <1>6. ASSUME NEW s \in Sessions, NEW m \in Tours, NEW w \in Crew, ReadOverlaps(s, m, w)
        PROVE  PlanningInv'
    <2> DEFINE call == [tour |-> m, who |-> w, overlaps |-> OverlapsOf(m, w)]
    <2>1. /\ call \in Assignments /\ call.tour \in Stored /\ call.who \in Crew
          /\ call.overlaps \subseteq Stored \ {call.tour}
      BY <1>6 DEF ReadOverlaps, Assignments, OverlapsOf, Stored
    <2>2. assigning' = [assigning EXCEPT ![s] = call] /\ tours' = tours /\ warned' = warned
      BY <1>6 DEF ReadOverlaps
    <2> HIDE DEF call
    <2> QED
      BY <2>1, <2>2 DEF PlanningInv, PlanningTypeOK, Stored
  <1>7. ASSUME NEW s \in Sessions, AssignTour(s) PROVE PlanningInv'
    <2> DEFINE call == assigning[s]
               one  == [tours[call.tour] EXCEPT !.who = call.who]
               row  == [one EXCEPT !.status = "AFFECTEE"]
    <2>1. /\ call.tour \in Stored /\ call.who \in Crew
          /\ call.overlaps \subseteq Stored \ {call.tour}
      BY <1>7 DEF AssignTour, PlanningInv, PlanningTypeOK
    <2>2. row \in TourRows /\ call.tour \in Tours
      BY <2>1, TourChanges
    <2>3. /\ tours' = [[tours EXCEPT ![call.tour] = one] EXCEPT ![call.tour] = row]
          /\ warned' = warned \union {{call.tour, n} : n \in call.overlaps}
          /\ assigning' = [assigning EXCEPT ![s] = None]
      BY <1>7, <2>2 DEF AssignTour, PlanningInv
    <2> HIDE DEF row, one, call
    <2>4. tours' = [tours EXCEPT ![call.tour] = row]
      BY <2>2, <2>3, TwoColumns
    <2>5. /\ tours' \in [Tours -> TourRows \union {None}]
          /\ tours'[call.tour] = row /\ \A n \in Tours \ {call.tour} : tours'[n] = tours[n]
      BY <2>2, <2>4 DEF PlanningInv
    <2>6. Stored \subseteq Stored' /\ \A n \in Stored' : tours'[n] \in TourRows
      BY <2>2, <2>5, PlanningAssumption DEF Stored
    <2>7. \A pair \in warned' : pair \subseteq Stored' /\ Cardinality(pair) = 2
      <3>1. ASSUME NEW n \in call.overlaps
            PROVE  {call.tour, n} \subseteq Stored' /\ Cardinality({call.tour, n}) = 2
        BY <2>1, <2>6, PairsHaveTwo
      <3>2. \A pair \in warned : pair \subseteq Stored' /\ Cardinality(pair) = 2
        BY <2>6 DEF PlanningInv, PlanningTypeOK
      <3> QED
        BY <2>3, <3>1, <3>2
    <2>8. assigning' \in [Sessions -> Assignments \union {None}]
      BY <2>3 DEF PlanningInv
    <2>9. \A t \in Sessions : assigning'[t] # None => assigning'[t] = assigning[t]
      BY <2>3 DEF PlanningInv
    <2> QED
      BY <2>5, <2>6, <2>7, <2>8, <2>9 DEF PlanningInv, PlanningTypeOK
  <1>8. ASSUME NEW s \in Sessions, AssignFails(s) PROVE PlanningInv'
    BY <1>8 DEF AssignFails, PlanningInv, PlanningTypeOK, Stored
  <1>9. CASE UNCHANGED planningVars
    BY <1>9 DEF planningVars, PlanningInv, PlanningTypeOK, Stored
  <1> QED
    BY <1>1, <1>2, <1>3, <1>4, <1>5, <1>6, <1>7, <1>8, <1>9 DEF PlanningNext

\* A warning names two missions of the board, however assign_mission overlaps with
\* itself and with the calls that move, advance and take back missions.
THEOREM PlanningTypeCorrect == PlanningSpec => []PlanningTypeOK
  <1>1. PlanningInv => PlanningTypeOK
    BY DEF PlanningInv
  <1> QED
    BY <1>1, PlanningInvInit, PlanningInvStep, PTL DEF PlanningSpec

-----------------------------------------------------------------------------
(* Fleet                                                                     *)

LEMMA FleetTypeInit == FleetInit => FleetTypeOK
  <1> SUFFICES ASSUME FleetInit PROVE FleetTypeOK
    OBVIOUS
  <1>1. NoFleetCall \in FleetCalls
    BY DEF FleetCalls
  <1>2. 0 \in FleetDates
    BY FleetAssumption DEF FleetDates
  <1> QED
    BY <1>1, <1>2 DEF FleetInit, FleetTypeOK

\* A column of a table is written where there is a row, and nowhere else.
LEMMA RowOverwritten ==
  ASSUME NEW S, NEW table \in Seq(S), NEW i, NEW row, i \in DOMAIN table => row \in S
  PROVE  [table EXCEPT ![i] = row] \in Seq(S)
  <1>1. [table EXCEPT ![i] = row] \in [DOMAIN table -> S]
    <2>1. \A k \in DOMAIN table : table[k] \in S
      OBVIOUS
    <2> QED
      BY <2>1
  <1> QED
    BY <1>1, RowsWritten

\* The columns that update_schedule writes.
LEMMA PlanUpdated ==
  ASSUME NEW plan \in Plans, NEW every \in Frequencies \union {None}, NEW due \in Nat \union {None}
  PROVE  /\ [plan EXCEPT !.every = every] \in Plans
         /\ [plan EXCEPT !.every = every].due = plan.due
         /\ [[plan EXCEPT !.every = every] EXCEPT !.due = due] \in Plans
  BY DEF Plans

\* What a completed record makes of its plan is a plan.
LEMMA PlanRealised ==
  ASSUME NEW plan \in Plans, NEW row \in Records
  PROVE  Realised(plan, row) \in Plans
  <1>1. row.day \in Nat
    BY FleetAssumption DEF Records, FleetDates
  <1>2. plan.every \notin {None, 0} => row.day + plan.every \in Nat
    <2>1. plan.every \in Nat \union {None}
      BY FleetAssumption DEF Plans
    <2> QED
      BY <1>1, <2>1
  <1> DEFINE one == [plan EXCEPT !.last = row.day]
             next == IF plan.every \in {None, 0} THEN plan.due ELSE row.day + plan.every
  <1>3. next \in Nat \union {None}
    BY <1>2 DEF Plans
  <1>4. Realised(plan, row) = [one EXCEPT !.due = next]
    BY DEF Realised, Plans
  <1>5. one \in Plans
    BY <1>1 DEF Plans
  <1> HIDE DEF one, next
  <1> QED
    BY <1>3, <1>4, <1>5 DEF Plans

\* The steps of a call of change_maintenance_status keep its shape.
LEMMA FleetCallMoves ==
  ASSUME FleetTypeOK, NEW s \in Sessions
  PROVE  /\ [fleetCall EXCEPT ![s] = NoFleetCall] \in [Sessions -> FleetCalls]
         /\ \A new \in FleetCalls : [fleetCall EXCEPT ![s] = new] \in [Sessions -> FleetCalls]
         /\ fleetCall[s].step \in {"read", "locked"} =>
                /\ [fleetCall[s] EXCEPT !.step = "locked"] \in FleetCalls
                /\ fleetCall[s].row \in Records /\ fleetCall[s].record \in Nat
                /\ fleetCall[s].statut \in StatutsMaintenance
  <1>1. fleetCall \in [Sessions -> FleetCalls] /\ NoFleetCall \in FleetCalls
    BY DEF FleetTypeOK, FleetCalls
  <1>2. fleetCall[s].step \in {"read", "locked"} =>
            fleetCall[s] \in [step : {"read", "locked"}, record : Nat, row : Records,
                              statut : StatutsMaintenance]
    BY <1>1 DEF FleetCalls, NoFleetCall
  <1>3. ASSUME fleetCall[s].step \in {"read", "locked"}
        PROVE  [fleetCall[s] EXCEPT !.step = "locked"] \in FleetCalls
    BY <1>2, <1>3 DEF FleetCalls
  <1> QED
    BY <1>1, <1>2, <1>3

LEMMA FleetTypeStep == FleetTypeOK /\ [FleetNext]_fleetVars => FleetTypeOK'
  <1> SUFFICES ASSUME FleetTypeOK, [FleetNext]_fleetVars PROVE FleetTypeOK'
    OBVIOUS
  <1>a. FleetDates \subseteq Nat
    BY FleetAssumption DEF FleetDates
  <1>1. ASSUME NEW every \in Frequencies \union {None}, NEW due \in FleetDates \union {None},
               CreateSchedule(every, due)
        PROVE  FleetTypeOK'
    <2> DEFINE row == [active |-> TRUE, every |-> every, last |-> None, due |-> due]
    <2>1. row \in Plans
      BY <1>a DEF Plans
    <2>2. plans' = Append(plans, row)
      BY <1>1 DEF CreateSchedule
    <2> HIDE DEF row
    <2>3. plans' \in Seq(Plans)
      BY <2>1, <2>2, RowAdded DEF FleetTypeOK
    <2> QED
      BY <1>1, <2>3 DEF CreateSchedule, FleetTypeOK
  <1>2. ASSUME NEW every \in Frequencies \union {None}, NEW due \in FleetDates \union {None},
               NEW p \in DOMAIN plans, UpdateSchedule(p, every, due)
        PROVE  FleetTypeOK'
    <2> DEFINE e == IF every = None THEN plans[p].every ELSE every
               d == IF due = None THEN plans[p].due ELSE due
               one == [plans[p] EXCEPT !.every = e]
               row == [one EXCEPT !.due = d]
    <2>1. plans[p] \in Plans
      BY DEF FleetTypeOK
    <2>2. e \in Frequencies \union {None} /\ d \in Nat \union {None}
      BY <1>a, <2>1 DEF Plans
    <2>3. one \in Plans /\ one.due = plans[p].due /\ row \in Plans
      BY <2>1, <2>2, PlanUpdated
    <2>4. plans' = [[plans EXCEPT ![p] = one] EXCEPT ![p] = row]
      BY <1>2, <2>3 DEF UpdateSchedule, FleetTypeOK
    <2> HIDE DEF one, row
    <2>5. plans' \in Seq(Plans)
      BY <2>3, <2>4, RowWritten DEF FleetTypeOK
    <2> QED
      BY <1>2, <2>5 DEF UpdateSchedule, FleetTypeOK
  <1>3. ASSUME NEW p \in DOMAIN plans, DeactivateSchedule(p) PROVE FleetTypeOK'
    <2> DEFINE row == [plans[p] EXCEPT !.active = FALSE]
    <2>1. row \in Plans
      <3>1. plans[p] \in Plans
        BY DEF FleetTypeOK
      <3> QED
        BY <3>1 DEF Plans
    <2>2. plans' = [plans EXCEPT ![p] = row]
      BY <1>3 DEF DeactivateSchedule
    <2> HIDE DEF row
    <2>3. plans' \in Seq(Plans)
      BY <2>1, <2>2, RowWritten DEF FleetTypeOK
    <2> QED
      BY <1>3, <2>3 DEF DeactivateSchedule, FleetTypeOK
  <1>4. ASSUME NEW day \in FleetDates, NEW cost \in Amounts \union {None},
               NEW statut \in StatutsMaintenance, NEW p \in DOMAIN plans \union {None},
               CreateMaintenance(p, day, cost, statut)
        PROVE  FleetTypeOK'
    <2> DEFINE row == [plan |-> p, day |-> day, cost |-> cost, statut |-> statut]
    <2>1. p \in Nat \union {None}
      BY DEF FleetTypeOK
    <2>2. row \in Records
      BY <2>1 DEF Records
    <2>3. records' = Append(records, row)
      BY <1>4 DEF CreateMaintenance
    <2> HIDE DEF row
    <2>4. records' \in Seq(Records)
      BY <2>2, <2>3, RowAdded DEF FleetTypeOK
    <2> QED
      BY <1>4, <2>4 DEF CreateMaintenance, FleetTypeOK
  <1>5. ASSUME NEW day \in FleetDates, NEW cost \in Amounts \union {None}, NEW r \in DOMAIN records,
               UpdateMaintenance(r, day, cost)
        PROVE  FleetTypeOK'
    <2> DEFINE c == IF cost = None THEN records[r].cost ELSE cost
               one == [records[r] EXCEPT !.day = day]
               row == [one EXCEPT !.cost = c]
    <2>1. records[r] \in Records
      BY DEF FleetTypeOK
    <2>2. c \in Amounts \union {None}
      BY <2>1 DEF Records
    <2>3. one \in Records /\ one.cost = records[r].cost
      BY <2>1 DEF Records
    <2>4. row \in Records
      BY <2>2, <2>3 DEF Records
    <2>5. records' = [[records EXCEPT ![r] = one] EXCEPT ![r] = row]
      BY <1>5, <2>3 DEF UpdateMaintenance, FleetTypeOK
    <2> HIDE DEF one, row
    <2>6. records' \in Seq(Records)
      BY <2>3, <2>4, <2>5, RowWritten DEF FleetTypeOK
    <2> QED
      BY <1>5, <2>6 DEF UpdateMaintenance, FleetTypeOK
  <1>6. ASSUME NEW s \in Sessions, NEW r \in DOMAIN records, NEW statut \in StatutsMaintenance,
               ReadRecord(s, r, statut)
        PROVE  FleetTypeOK'
    <2> DEFINE call == [step |-> "read", record |-> r, row |-> records[r], statut |-> statut]
    <2>1. r \in Nat /\ records[r] \in Records
      BY DEF FleetTypeOK
    <2>2. call \in FleetCalls
      BY <2>1 DEF FleetCalls
    <2>3. fleetCall' = [fleetCall EXCEPT ![s] = call]
      BY <1>6 DEF ReadRecord
    <2> HIDE DEF call
    <2> QED
      BY <1>6, <2>2, <2>3, FleetCallMoves DEF ReadRecord, FleetTypeOK
  <1>7. ASSUME NEW s \in Sessions, LockRecord(s) PROVE FleetTypeOK'
    <2> DEFINE call == [fleetCall[s] EXCEPT !.step = "locked"]
    <2>1. call \in FleetCalls
      BY <1>7, FleetCallMoves DEF LockRecord
    <2>2. fleetCall' = [fleetCall EXCEPT ![s] = call]
      BY <1>7 DEF LockRecord
    <2> HIDE DEF call
    <2> QED
      BY <1>7, <2>1, <2>2, FleetCallMoves DEF LockRecord, FleetTypeOK
  <1>8. ASSUME NEW s \in Sessions, FinishStatus(s) PROVE FleetTypeOK'
    <2> DEFINE call == fleetCall[s]
    <2>1. call.row \in Records /\ call.record \in Nat /\ call.statut \in StatutsMaintenance
      BY <1>8, FleetCallMoves DEF FinishStatus
    <2>2. records' \in Seq(Records)
      <3> DEFINE row == [records[call.record] EXCEPT !.statut = call.statut]
      <3>1. call.record \in DOMAIN records => row \in Records
        <4>1. call.record \in DOMAIN records => records[call.record] \in Records
          BY DEF FleetTypeOK
        <4> QED
          BY <2>1, <4>1 DEF Records
      <3>2. records' = [records EXCEPT ![call.record] = row]
        BY <1>8 DEF FinishStatus
      <3> HIDE DEF row, call
      <3> QED
        BY <3>1, <3>2, RowOverwritten DEF FleetTypeOK
    <2>3. plans' \in Seq(Plans)
      <3> DEFINE p == call.row.plan
                 row == Realised(plans[p], call.row)
      <3>1. p \in DOMAIN plans => row \in Plans
        <4> SUFFICES ASSUME p \in DOMAIN plans PROVE row \in Plans
          OBVIOUS
        <4>1. plans[p] \in Plans
          BY DEF FleetTypeOK
        <4> QED
          BY <2>1, <4>1, PlanRealised
      <3>2. plans' = [plans EXCEPT ![p] = row] \/ plans' = plans
        BY <1>8 DEF FinishStatus
      <3> HIDE DEF row, p
      <3>3. [plans EXCEPT ![p] = row] \in Seq(Plans)
        BY <3>1, RowOverwritten DEF FleetTypeOK
      <3> QED
        BY <3>2, <3>3 DEF FleetTypeOK
    <2>4. costs' \subseteq Costs /\ costIds' \in Nat
      <3> DEFINE cost == [id |-> costIds + 1, record |-> call.record, amount |-> call.row.cost,
                          day |-> call.row.day]
      <3>1. CASE call.statut = "TERMINE" /\ IsCharged(call.row)
        <4>1. costIds' = costIds + 1 /\ costs' = costs \union {cost}
          BY <1>8, <3>1 DEF FinishStatus
        <4>2. call.row.cost \in Amounts /\ call.row.day \in FleetDates
          BY <2>1, <3>1 DEF IsCharged, Records
        <4>3. costIds + 1 \in Nat
          BY DEF FleetTypeOK
        <4>4. cost \in Costs
          BY <2>1, <4>2, <4>3 DEF Costs
        <4> HIDE DEF cost
        <4> QED
          BY <4>1, <4>3, <4>4 DEF FleetTypeOK
      <3>2. CASE ~ (call.statut = "TERMINE" /\ IsCharged(call.row))
        BY <1>8, <3>2 DEF FinishStatus, FleetTypeOK
      <3> QED
        BY <3>1, <3>2
    <2>5. fleetCall' \in [Sessions -> FleetCalls]
      BY <1>8, FleetCallMoves DEF FinishStatus
    <2> QED
      BY <1>8, <2>2, <2>3, <2>4, <2>5 DEF FinishStatus, FleetTypeOK
  <1>9. ASSUME NEW s \in Sessions, FailFleetCall(s) PROVE FleetTypeOK'
    BY <1>9, FleetCallMoves DEF FailFleetCall, FleetTypeOK
  <1>10. ASSUME NEW amount \in Amounts, NEW day \in FleetDates, CreateCost(amount, day)
         PROVE  FleetTypeOK'
    <2> DEFINE cost == [id |-> costIds + 1, record |-> None, amount |-> amount, day |-> day]
    <2>1. cost \in Costs /\ costIds + 1 \in Nat
      BY DEF Costs, FleetTypeOK
    <2>2. costs' = costs \union {cost} /\ costIds' = costIds + 1
      BY <1>10 DEF CreateCost
    <2> HIDE DEF cost
    <2> QED
      BY <1>10, <2>1, <2>2 DEF CreateCost, FleetTypeOK
  <1>11. ASSUME NEW amount \in Amounts, NEW day \in FleetDates, NEW c \in costs,
                UpdateCost(c, amount, day)
         PROVE  FleetTypeOK'
    <2> DEFINE one == [c EXCEPT !.amount = amount]
               cost == [one EXCEPT !.day = day]
    <2>1. c \in Costs
      BY DEF FleetTypeOK
    <2>2. one \in Costs
      BY <2>1 DEF Costs
    <2>3. cost \in Costs
      BY <2>2 DEF Costs
    <2>4. costs' = (costs \ {c}) \union {cost}
      BY <1>11 DEF UpdateCost
    <2> HIDE DEF one, cost
    <2> QED
      BY <1>11, <2>3, <2>4 DEF UpdateCost, FleetTypeOK
  <1>12. ASSUME NEW c \in costs, DeleteCost(c) PROVE FleetTypeOK'
    BY <1>12 DEF DeleteCost, FleetTypeOK
  <1>13. CASE TriggerStarts \/ TriggerFails \/ NextFleetDay
    BY <1>13, FleetAssumption DEF TriggerStarts, TriggerFails, NextFleetDay, FleetTypeOK, FleetDates
  <1>14. CASE UNCHANGED fleetVars
    BY <1>14 DEF fleetVars, FleetTypeOK
  <1> QED
    BY <1>1, <1>2, <1>3, <1>4, <1>5, <1>6, <1>7, <1>8, <1>9, <1>10, <1>11, <1>12, <1>13, <1>14
    DEF FleetNext, PlanStep, RecordStep, CostStep

\* Plans, records and costs keep the types of their columns, however the calls of
\* change_maintenance_status, which write what they read before the lock, overlap.
THEOREM FleetTypeCorrect == FleetSpec => []FleetTypeOK
  BY FleetTypeInit, FleetTypeStep, PTL DEF FleetSpec

-----------------------------------------------------------------------------
(* Sums                                                                      *)

\* The element that a sum over s takes first.
First(s) == CHOOSE x \in s : TRUE

\* h[s] is the sum of f over s, for the sets s of T.
IsSum(h, f, T) ==
    \A s \in T : h[s] = IF s = {} THEN 0 ELSE f[First(s)] + h[s \ {First(s)}]

LEMMA SmallerByOne ==
  ASSUME NEW D, IsFiniteSet(D), NEW s \in SUBSET D, s # {}
  PROVE  /\ First(s) \in s /\ First(s) \in D
         /\ s \ {First(s)} \in SUBSET D
         /\ Cardinality(s) \in Nat /\ Cardinality(s \ {First(s)}) = Cardinality(s) - 1
         /\ Cardinality(s \ {First(s)}) \in Nat
  <1>1. First(s) \in s
    BY DEF First
  <1>2. IsFiniteSet(s) /\ IsFiniteSet(s \ {First(s)})
    BY FS_Subset, FS_RemoveElement
  <1> QED
    BY <1>1, <1>2, FS_CardinalityType, FS_RemoveElement

LEMMA SumsExist ==
  ASSUME NEW D, IsFiniteSet(D), NEW f \in [D -> Int]
  PROVE  \E h \in [SUBSET D -> Int] : IsSum(h, f, SUBSET D)
  <1> DEFINE Small(n) == {s \in SUBSET D : Cardinality(s) <= n}
             Summable(n) == \E h \in [Small(n) -> Int] : IsSum(h, f, Small(n))
             Stuck == {n \in Nat : ~ Summable(n)}
  <1>1. \A s \in SUBSET D : Cardinality(s) \in Nat /\ Cardinality(s) <= Cardinality(D)
    BY FS_Subset, FS_CardinalityType
  <1>2. Summable(0)
    <2> DEFINE h == [s \in Small(0) |-> 0]
    <2>1. \A s \in Small(0) : s = {}
      BY <1>1, FS_EmptySet, FS_Subset
    <2>2. h \in [Small(0) -> Int] /\ IsSum(h, f, Small(0))
      BY <2>1 DEF IsSum
    <2> QED
      BY <2>2
  <1>3. ASSUME NEW n \in Nat, Summable(n) PROVE Summable(n + 1)
    <2>1. PICK h \in [Small(n) -> Int] : IsSum(h, f, Small(n))
      BY <1>3
    <2> DEFINE Next(s) == IF s = {} THEN 0 ELSE f[First(s)] + h[s \ {First(s)}]
               g == [s \in Small(n + 1) |-> Next(s)]
    <2>2. \A s \in Small(n + 1) : s # {} => s \ {First(s)} \in Small(n) /\ First(s) \in D
      BY SmallerByOne
    <2>3. \A s \in Small(n + 1) : Next(s) \in Int
      BY <2>2
    <2>4. Small(n) \subseteq Small(n + 1)
      BY <1>1
    <2>5. \A s \in Small(n) : g[s] = h[s]
      BY <2>1, <2>4 DEF IsSum
    <2>6. g \in [Small(n + 1) -> Int]
      BY <2>3
    <2>7. IsSum(g, f, Small(n + 1))
      BY <2>2, <2>5 DEF IsSum
    <2> QED
      BY <2>6, <2>7
  <1>4. Stuck = {}
    <2> SUFFICES ASSUME Stuck # {} PROVE FALSE
      OBVIOUS
    <2>1. PICK n \in Stuck : \A k \in Stuck : n <= k
      BY LeastNatural
    <2> HIDE DEF Summable
    <2>2. n \in Nat /\ n # 0
      BY <1>2, <2>1
    <2>3. n - 1 \in Nat /\ n - 1 \notin Stuck
      BY <2>1, <2>2
    <2> QED
      BY <1>3, <2>1, <2>2, <2>3
  <1>5. Small(Cardinality(D)) = SUBSET D
    BY <1>1
  <1>6. Cardinality(D) \in Nat
    BY FS_CardinalityType
  <1>7. Summable(Cardinality(D))
    <2> HIDE DEF Summable
    <2> QED
      BY <1>4, <1>6
  <1> QED
    BY <1>5, <1>7

LEMMA SumsAreIntegers ==
  ASSUME NEW D, IsFiniteSet(D), NEW f \in [D -> Int], NEW h, IsSum(h, f, SUBSET D)
  PROVE  \A s \in SUBSET D : h[s] \in Int
  <1> DEFINE Odd == {s \in SUBSET D : h[s] \notin Int}
             Sizes == {Cardinality(s) : s \in Odd}
  <1> SUFFICES ASSUME Odd # {} PROVE FALSE
    OBVIOUS
  <1>1. \A s \in SUBSET D : Cardinality(s) \in Nat
    BY FS_Subset, FS_CardinalityType
  <1>2. Sizes \in SUBSET Nat /\ Sizes # {}
    BY <1>1
  <1>3. PICK n \in Sizes : \A k \in Sizes : n <= k
    BY <1>2, LeastNatural
  <1>4. PICK s \in Odd : Cardinality(s) = n
    BY <1>3
  <1>5. s # {}
    <2>1. h[{}] \in Int
      <3>1. h[{}] = 0
        BY DEF IsSum
      <3> QED
        BY <3>1
    <2>2. h[s] \notin Int
      BY <1>4
    <2> QED
      BY <2>1, <2>2, Zenon
  <1>6. /\ s \ {First(s)} \in SUBSET D /\ First(s) \in D
        /\ Cardinality(s \ {First(s)}) = n - 1 /\ n \in Nat
    BY <1>1, <1>4, <1>5, SmallerByOne
  <1>7. h[s \ {First(s)}] \in Int
    BY <1>3, <1>6
  <1>8. f[First(s)] + h[s \ {First(s)}] \in Int
    BY <1>6, <1>7
  <1>9. h[s] = f[First(s)] + h[s \ {First(s)}]
    BY <1>5 DEF IsSum
  <1> QED
    BY <1>8, <1>9

\* The sum of finitely many integers is an integer.
LEMMA SumIsInteger ==
  ASSUME NEW f, IsFiniteSet(DOMAIN f), f \in [DOMAIN f -> Int]
  PROVE  SumFunction(f) \in Int
  <1> DEFINE D == DOMAIN f
             Sums(h) == [s \in SUBSET D |-> IF s = {} THEN 0 ELSE f[First(s)] + h[s \ {First(s)}]]
             iter == CHOOSE h : h = Sums(h)
  <1>1. SumFunction(f) = iter[D]
    BY DEF SumFunction, SumFunctionOnSet, FoldFunctionOnSet, MapThenFoldSet, First
  <1>2. iter = Sums(iter)
    <2>1. PICK h \in [SUBSET D -> Int] : IsSum(h, f, SUBSET D)
      BY SumsExist
    <2>2. h = Sums(h)
      BY <2>1 DEF IsSum
    <2> HIDE DEF Sums
    <2> QED
      BY <2>2
  <1> HIDE DEF iter
  <1>3. IsSum(iter, f, SUBSET D)
    BY <1>2 DEF IsSum
  <1> QED
    BY <1>1, <1>3, SumsAreIntegers

-----------------------------------------------------------------------------
(* Pricing: the types                                                        *)

\* Functions that give a value of S to some missions.
PartOf(S) == UNION {[js -> S] : js \in SUBSET Jobs}

Kms == PartOf(Nat \union {None})

PricedRows == [customer : Customers, status : {"draft", "validated"}, lines : PartOf(Line),
               total : Int]

CreditRows == [invoice : Nat, total : Int, lines : PartOf(Int)]

PriceCalls == {NoPriceCall}
                  \union [step : {"jobs"}, customer : Customers, km : Kms]
                  \union [step : {"rules"}, customer : Customers, km : Kms, rules : Seq(Rules)]

PricingInv ==
    /\ rules \in Seq(Rules)
    /\ distance \in [Jobs -> Distances \union {None}]
    /\ priced \in Seq(PricedRows)
    /\ credits \in Seq(CreditRows)
    /\ \A c \in DOMAIN credits : credits[c].invoice \in DOMAIN priced
    /\ priceCall \in [Sessions -> PriceCalls]

LEMMA PartsHaveDomains ==
  ASSUME NEW S
  PROVE  /\ \A f \in PartOf(S) : Of(S, f) /\ f \in [DOMAIN f -> S] /\ IsFiniteSet(DOMAIN f)
         /\ \A js \in SUBSET Jobs : [js -> S] \subseteq PartOf(S)
  <1>1. ASSUME NEW f \in PartOf(S) PROVE Of(S, f) /\ f \in [DOMAIN f -> S] /\ IsFiniteSet(DOMAIN f)
    <2>1. PICK js \in SUBSET Jobs : f \in [js -> S]
      BY DEF PartOf
    <2>2. IsFiniteSet(js)
      BY FS_Subset, PricingAssumption
    <2> QED
      BY <2>1, <2>2 DEF Of
  <1> QED
    BY <1>1 DEF PartOf

LEMMA PricingInvImpliesTypes == PricingInv => PricingTypeOK
  <1> SUFFICES ASSUME PricingInv PROVE PricingTypeOK
    OBVIOUS
  <1>1. ASSUME NEW i \in DOMAIN priced
        PROVE  /\ priced[i].customer \in Customers /\ priced[i].total \in Int
               /\ priced[i].status \in {"draft", "validated"} /\ Of(Line, priced[i].lines)
    <2>1. priced[i] \in PricedRows
      BY DEF PricingInv
    <2> QED
      BY <2>1, PartsHaveDomains DEF PricedRows
  <1>2. ASSUME NEW c \in DOMAIN credits
        PROVE  credits[c].total \in Int /\ Of(Int, credits[c].lines)
    <2>1. credits[c] \in CreditRows
      BY DEF PricingInv
    <2> QED
      BY <2>1, PartsHaveDomains DEF CreditRows
  <1>3. ASSUME NEW s \in Sessions, priceCall[s] # NoPriceCall
        PROVE  priceCall[s].customer \in Customers /\ Of(Nat \union {None}, priceCall[s].km)
    <2>1. priceCall[s].customer \in Customers /\ priceCall[s].km \in Kms
      BY <1>3 DEF PricingInv, PriceCalls
    <2> QED
      BY <2>1, PartsHaveDomains DEF Kms
  <1> QED
    BY <1>1, <1>2, <1>3 DEF PricingInv, PricingTypeOK

LEMMA PricingInvInit == PricingInit => PricingInv
  BY DEF PricingInit, PricingInv, PriceCalls

LEMMA ChargesAreIntegers ==
  ASSUME NEW body \in RuleBodies, NEW km \in Nat \union {None}
  PROVE  Charge(body, km) \in Int
  <1>1. body.rate \in Int /\ body.type \in RuleTypes
    BY PricingAssumption
  <1>2. km \notin {None, 0} => km \in Int /\ km * body.rate \in Int
    BY <1>1
  <1> QED
    BY <1>1, <1>2 DEF Charge

\* What a mission costs is an integer: a sum over the rules that are loaded.
LEMMA PricesAreIntegers ==
  ASSUME NEW rs \in Seq(Rules), NEW customer, NEW km \in Nat \union {None}
  PROVE  JobPrice(rs, customer, km) \in Int
  <1> DEFINE charge == [r \in RulesFor(rs, customer) |-> Charge(rs[r].body, km)]
  <1>1. RulesFor(rs, customer) \subseteq 1..Len(rs) /\ Len(rs) \in Nat
    BY DEF RulesFor
  <1>2. IsFiniteSet(RulesFor(rs, customer))
    <2>1. IsFiniteSet(1..Len(rs))
      BY <1>1, FS_Interval
    <2> QED
      BY <1>1, <2>1, FS_Subset
  <1>3. ASSUME NEW r \in RulesFor(rs, customer) PROVE rs[r].body \in RuleBodies
    <2>1. rs[r] \in Rules
      BY <1>1
    <2> QED
      BY <2>1 DEF Rules
  <1>4. \A r \in RulesFor(rs, customer) : Charge(rs[r].body, km) \in Int
    BY <1>3, ChargesAreIntegers
  <1>5. DOMAIN charge = RulesFor(rs, customer) /\ charge \in [RulesFor(rs, customer) -> Int]
    BY <1>4
  <1>6. JobPrice(rs, customer, km) = SumFunction(charge)
    BY DEF JobPrice
  <1> HIDE DEF charge
  <1> QED
    BY <1>2, <1>5, <1>6, SumIsInteger

LEMMA RoundedIsInteger ==
  ASSUME NEW x \in Int
  PROVE  Rounded(x) \in Int
  <1> DEFINE size == IF x < 0 THEN -x ELSE x
             cents == (2 * size + Cent) \div (2 * Cent)
             sign == IF x < 0 THEN -1 ELSE 1
  <1>1. Cent \in Nat /\ Cent > 0
    BY PricingAssumption
  <1>2. size \in Int /\ sign \in Int
    OBVIOUS
  <1>3. 2 * size + Cent \in Int /\ 2 * Cent \in Nat /\ 2 * Cent > 0
    BY <1>1, <1>2
  <1>4. cents \in Int
    BY <1>3
  <1>5. Rounded(x) = sign * cents * Cent
    BY DEF Rounded
  <1> HIDE DEF sign, cents
  <1> QED
    BY <1>1, <1>2, <1>4, <1>5

\* The invoice that create_invoice makes is one.
LEMMA InvoiceTyped ==
  ASSUME NEW customer \in Customers, NEW km \in Kms, NEW rs \in Seq(Rules)
  PROVE  InvoiceOf(customer, km, rs) \in PricedRows
  <1> DEFINE price == [j \in DOMAIN km |-> JobPrice(rs, customer, km[j])]
             lines == [j \in DOMAIN km |-> [km |-> km[j], amount |-> Rounded(price[j])]]
             total == Rounded(SumFunction(price))
  <1>1. /\ DOMAIN km \in SUBSET Jobs /\ IsFiniteSet(DOMAIN km)
        /\ \A j \in DOMAIN km : km[j] \in Nat \union {None}
    BY PartsHaveDomains DEF Kms, Of
  <1>2. DOMAIN price = DOMAIN km /\ price \in [DOMAIN price -> Int]
    BY <1>1, PricesAreIntegers
  <1>3. ASSUME NEW j \in DOMAIN km PROVE [km |-> km[j], amount |-> Rounded(price[j])] \in Line
    <2>1. price[j] \in Int
      BY <1>2
    <2> HIDE DEF price
    <2>2. Rounded(price[j]) \in Int
      BY <2>1, RoundedIsInteger
    <2> QED
      BY <1>1, <2>2 DEF Line
  <1>4. lines \in PartOf(Line)
    <2>1. lines \in [DOMAIN km -> Line]
      BY <1>3
    <2> HIDE DEF lines
    <2> QED
      BY <1>1, <2>1, PartsHaveDomains
  <1>5. total \in Int
    <2> HIDE DEF price
    <2>1. SumFunction(price) \in Int
      BY <1>1, <1>2, SumIsInteger
    <2> QED
      BY <2>1, RoundedIsInteger
  <1>6. InvoiceOf(customer, km, rs) =
            [customer |-> customer, status |-> "draft", lines |-> lines, total |-> total]
    BY DEF InvoiceOf
  <1> HIDE DEF lines, total
  <1> QED
    BY <1>4, <1>5, <1>6 DEF PricedRows

\* Rules change: prices, credit notes and calls stay.
LEMMA RulesChange ==
  ASSUME PricingInv, rules' \in Seq(Rules), UNCHANGED <<distance, priced, credits, priceCall>>
  PROVE  PricingInv'
  BY DEF PricingInv

LEMMA RulesAreWritten ==
  ASSUME PricingInv, NEW r \in DOMAIN rules
  PROVE  /\ [rules[r] EXCEPT !.active = FALSE] \in Rules
         /\ \A body \in RuleBodies : [rules[r] EXCEPT !.body = body] \in Rules
         /\ \A customer \in Customers \union {None}, body \in RuleBodies :
                /\ [rules[r] EXCEPT !.customer = customer] \in Rules
                /\ [[rules[r] EXCEPT !.customer = customer] EXCEPT !.body = body] \in Rules
  <1>1. rules[r] \in Rules
    BY DEF PricingInv
  <1> QED
    BY <1>1 DEF Rules

LEMMA RuleIsWritten ==
  ASSUME PricingInv, NEW r \in DOMAIN rules, NEW row \in Rules,
         rules' = [rules EXCEPT ![r] = row], UNCHANGED <<distance, priced, credits, priceCall>>
  PROVE  PricingInv'
  BY RowWritten, RulesChange DEF PricingInv

LEMMA RuleIsAdded ==
  ASSUME PricingInv, NEW customer \in Customers \union {None}, NEW direction \in {"VENTE", "ACHAT"},
         NEW body \in RuleBodies, NewRule(customer, direction, body)
  PROVE  PricingInv'
  <1> DEFINE row == [customer |-> customer, direction |-> direction, active |-> TRUE, body |-> body]
  <1>1. row \in Rules
    BY DEF Rules
  <1>2. rules' = Append(rules, row) /\ UNCHANGED <<distance, priced, credits, priceCall>>
    BY DEF NewRule
  <1> HIDE DEF row
  <1> QED
    BY <1>1, <1>2, RowAdded, RulesChange DEF PricingInv

\* A call of create_invoice moves on.
LEMMA PriceCallMoves ==
  ASSUME PricingInv, NEW s \in Sessions, NEW call \in PriceCalls,
         priceCall' = [priceCall EXCEPT ![s] = call], UNCHANGED <<rules, distance, priced, credits>>
  PROVE  PricingInv'
  BY DEF PricingInv

LEMMA PriceCallShape ==
  ASSUME PricingInv, NEW s \in Sessions
  PROVE  /\ NoPriceCall \in PriceCalls
         /\ priceCall[s].step \in {"jobs", "rules"} =>
                priceCall[s].customer \in Customers /\ priceCall[s].km \in Kms
         /\ priceCall[s].step = "rules" => priceCall[s].rules \in Seq(Rules)
  <1>1. priceCall[s] \in PriceCalls
    BY DEF PricingInv
  <1> QED
    BY <1>1 DEF PriceCalls, NoPriceCall

LEMMA PricingInvStep == PricingInv /\ [PricingNext]_pricingVars => PricingInv'
  <1> SUFFICES ASSUME PricingInv, [PricingNext]_pricingVars PROVE PricingInv'
    OBVIOUS
  <1>1. ASSUME NEW body \in RuleBodies, CreatePurchaseRule(body) PROVE PricingInv'
    BY <1>1, RuleIsAdded DEF CreatePurchaseRule
  <1>2. ASSUME NEW body \in RuleBodies, NEW customer \in Customers \union {None},
               CreatePricingRule(customer, body)
        PROVE  PricingInv'
    BY <1>2, RuleIsAdded DEF CreatePricingRule
  <1>3. ASSUME NEW body \in RuleBodies, NEW customer \in Customers \union {None},
               NEW r \in DOMAIN rules, UpdatePricingRule(r, customer, body)
        PROVE  PricingInv'
    <2> DEFINE one == [rules[r] EXCEPT !.customer = customer]
               row == [one EXCEPT !.body = body]
    <2>1. one \in Rules /\ row \in Rules
      BY RulesAreWritten
    <2>2. rules' = [[rules EXCEPT ![r] = one] EXCEPT ![r] = row]
      BY <1>3, <2>1 DEF UpdatePricingRule, PricingInv
    <2> HIDE DEF one, row
    <2>3. rules' \in Seq(Rules)
      BY <2>1, <2>2, RowWritten DEF PricingInv
    <2> QED
      BY <1>3, <2>3, RulesChange DEF UpdatePricingRule
  <1>4. ASSUME NEW body \in RuleBodies, NEW r \in DOMAIN rules, UpdatePurchaseRule(r, body)
        PROVE  PricingInv'
    <2> DEFINE row == [rules[r] EXCEPT !.body = body]
    <2>1. row \in Rules
      BY RulesAreWritten
    <2>2. rules' = [rules EXCEPT ![r] = row]
      BY <1>4 DEF UpdatePurchaseRule
    <2> HIDE DEF row
    <2> QED
      BY <1>4, <2>1, <2>2, RuleIsWritten DEF UpdatePurchaseRule
  <1>5. ASSUME NEW r \in DOMAIN rules, DeletePurchaseRule(r) PROVE PricingInv'
    <2> DEFINE row == [rules[r] EXCEPT !.active = FALSE]
    <2>1. row \in Rules
      BY RulesAreWritten
    <2>2. rules' = [rules EXCEPT ![r] = row]
      BY <1>5 DEF DeletePurchaseRule
    <2> HIDE DEF row
    <2> QED
      BY <1>5, <2>1, <2>2, RuleIsWritten DEF DeletePurchaseRule
  <1>6. ASSUME NEW j \in Jobs, NEW km \in Distances, ChangeDistance(j, km) PROVE PricingInv'
    BY <1>6 DEF ChangeDistance, PricingInv
  <1>7. ASSUME NEW s \in Sessions, NEW customer \in Customers, NEW js \in SUBSET Jobs,
               ReadJobs(s, customer, js)
        PROVE  PricingInv'
    <2> DEFINE km == [j \in js |-> distance[j]]
               call == [step |-> "jobs", customer |-> customer, km |-> km]
    <2>1. km \in [js -> Nat \union {None}]
      BY PricingAssumption DEF PricingInv
    <2>2. km \in Kms
      BY <2>1, PartsHaveDomains DEF Kms
    <2>3. priceCall' = [priceCall EXCEPT ![s] = call]
      BY <1>7 DEF ReadJobs
    <2> HIDE DEF km
    <2>4. call \in PriceCalls
      BY <2>2 DEF PriceCalls
    <2> HIDE DEF call
    <2> QED
      BY <1>7, <2>3, <2>4, PriceCallMoves DEF ReadJobs
  <1>8. ASSUME NEW s \in Sessions, ReadRules(s) PROVE PricingInv'
    <2> DEFINE call == [step |-> "rules", customer |-> priceCall[s].customer,
                        km |-> priceCall[s].km, rules |-> rules]
    <2>1. call \in PriceCalls
      BY <1>8, PriceCallShape DEF ReadRules, PriceCalls, PricingInv
    <2>2. priceCall' = [priceCall EXCEPT ![s] = call]
      BY <1>8 DEF ReadRules
    <2> HIDE DEF call
    <2> QED
      BY <1>8, <2>1, <2>2, PriceCallMoves DEF ReadRules
  <1>9. ASSUME NEW s \in Sessions, InsertInvoice(s) PROVE PricingInv'
    <2> DEFINE row == InvoiceOf(priceCall[s].customer, priceCall[s].km, priceCall[s].rules)
    <2>1. row \in PricedRows
      BY <1>9, PriceCallShape, InvoiceTyped DEF InsertInvoice
    <2>2. priced' = Append(priced, row)
      BY <1>9 DEF InsertInvoice
    <2> HIDE DEF row
    <2>3. priced' \in Seq(PricedRows) /\ DOMAIN priced \subseteq DOMAIN priced'
      BY <2>1, <2>2, RowAdded DEF PricingInv
    <2>4. priceCall' \in [Sessions -> PriceCalls]
      BY <1>9, PriceCallShape DEF InsertInvoice, PricingInv
    <2> QED
      BY <1>9, <2>3, <2>4 DEF InsertInvoice, PricingInv
  <1>10. ASSUME NEW s \in Sessions, PriceCallFails(s) PROVE PricingInv'
    BY <1>10, PriceCallShape, PriceCallMoves DEF PriceCallFails
  <1>11. ASSUME NEW i \in DOMAIN priced, ValidatePriced(i) PROVE PricingInv'
    <2> DEFINE row == [priced[i] EXCEPT !.status = "validated"]
    <2>1. priced[i] \in PricedRows
      BY DEF PricingInv
    <2>2. row \in PricedRows
      BY <2>1 DEF PricedRows
    <2>3. priced' = [priced EXCEPT ![i] = row]
      BY <1>11 DEF ValidatePriced
    <2> HIDE DEF row
    <2>4. priced' \in Seq(PricedRows) /\ DOMAIN priced' = DOMAIN priced
      BY <2>2, <2>3, RowWritten DEF PricingInv
    <2> QED
      BY <1>11, <2>4 DEF ValidatePriced, PricingInv
  <1>12. ASSUME NEW i \in DOMAIN priced, CreateCreditNote(i) PROVE PricingInv'
    <2> DEFINE lines == [j \in DOMAIN priced[i].lines |-> Minus(priced[i].lines[j].amount)]
               row == [invoice |-> i, total |-> Minus(priced[i].total), lines |-> lines]
    <2>1. priced[i] \in PricedRows /\ i \in Nat
      BY DEF PricingInv
    <2>2. \A x \in Int : Minus(x) \in Int
      BY DEF Minus
    <2>3. /\ DOMAIN priced[i].lines \in SUBSET Jobs
          /\ \A j \in DOMAIN priced[i].lines : priced[i].lines[j].amount \in Int
      <3>1. Of(Line, priced[i].lines)
        BY <2>1, PartsHaveDomains DEF PricedRows
      <3> QED
        BY <3>1 DEF Of, Line
    <2>4. lines \in PartOf(Int)
      <3>1. lines \in [DOMAIN priced[i].lines -> Int]
        BY <2>2, <2>3
      <3> HIDE DEF lines
      <3> QED
        BY <2>3, <3>1, PartsHaveDomains
    <2>5. credits' = Append(credits, row)
      BY <1>12 DEF CreateCreditNote
    <2> HIDE DEF lines
    <2>6. row \in CreditRows /\ row.invoice = i
      BY <2>1, <2>2, <2>4 DEF CreditRows, PricedRows
    <2> HIDE DEF row
    <2>7. /\ credits' \in Seq(CreditRows) /\ Len(credits) \in Nat
          /\ DOMAIN credits' = DOMAIN credits \union {Len(credits) + 1}
          /\ \A c \in DOMAIN credits : credits'[c] = credits[c]
          /\ credits'[Len(credits) + 1] = row
      BY <2>5, <2>6, RowAdded DEF PricingInv
    <2> QED
      BY <1>12, <2>6, <2>7 DEF CreateCreditNote, PricingInv
  <1>13. CASE UNCHANGED pricingVars
    BY <1>13 DEF pricingVars, PricingInv
  <1> QED
    BY <1>1, <1>2, <1>3, <1>4, <1>5, <1>6, <1>7, <1>8, <1>9, <1>10, <1>11, <1>12, <1>13
    DEF PricingNext

\* Prices are integers however many rules a customer has and however many missions
\* an invoice: create_invoice and create_credit_note store what their columns hold.
THEOREM PricingTypeCorrect == PricingSpec => []PricingTypeOK
  BY PricingInvInit, PricingInvStep, PricingInvImpliesTypes, PTL DEF PricingSpec

-----------------------------------------------------------------------------
(* The office                                                                *)

OfficeInv == /\ FleetTypeOK /\ ClaimsInv /\ PurchasingInv /\ ScansInv /\ PricingInv
             /\ PlansInv /\ OrderInv /\ PlanningInv /\ SettingsInv /\ OperationsInv

LEMMA OfficeInvInit == OfficeInit => OfficeInv
  BY FleetTypeInit, ClaimsInvInit, PurchasingInvInit, ScansInvInit, PricingInvInit, PlansInvInit,
     OrderInvInit, PlanningInvInit, SettingsInvInit, OperationsInvInit
  DEF OfficeInit, OfficeInv

\* A step of the office is a step of one component; the others stutter.
LEMMA ComponentsMove ==
  ASSUME [OfficeNext]_OfficeVars
  PROVE  /\ [FleetNext]_fleetVars /\ [ClaimsNext]_claimVars /\ [PurchasingNext]_purchasingVars
         /\ [ScansNext]_scansVars /\ [PricingNext]_pricingVars
         /\ [RoutePlansNext]_routePlansVars /\ [OrderNext]_runOrderVars
         /\ [PlanningNext]_planningVars /\ [SettingsNext]_settingsVars
         /\ [OperationsNext]_operationsVars
  BY DEF OfficeNext, OfficeVars, Unmoved

LEMMA OfficeInvStep == OfficeInv /\ [OfficeNext]_OfficeVars => OfficeInv'
  BY ComponentsMove, FleetTypeStep, ClaimsInvStep, PurchasingInvStep, ScansInvStep, PricingInvStep,
     PlansInvStep, OrderInvStep, PlanningInvStep, SettingsInvStep, OperationsInvStep
  DEF OfficeInv

\* Every component of the office keeps the types of its tables and calls, for any
\* number of sessions, rows and days: the whole of what the run Office asks of types.
THEOREM OfficeTypesCorrect == OfficeSpec => []OfficeTypeOK
  <1>1. OfficeInv => OfficeTypeOK
    BY PricingInvImpliesTypes
    DEF OfficeInv, OfficeTypeOK, ClaimsInv, PurchasingInv, ScansInv, PlansInv, OrderInv, PlanningInv,
        SettingsInv, OperationsInv
  <1> QED
    BY <1>1, OfficeInvInit, OfficeInvStep, PTL DEF OfficeSpec

=============================================================================
