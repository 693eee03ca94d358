-------------------------------- MODULE Claims --------------------------------
(***************************************************************************)
(* Claims of the vehicles of a tenant: their numbers SIN-0001, SIN-0002,   *)
(* ..., their statut and their closing date (create_claim, update_claim    *)
(* and change_claim_status of backend/app/modules/fleet/router.py).  No    *)
(* claim is ever deleted.                                                  *)
(***************************************************************************)
EXTENDS Calls, Naturals, Sequences

CONSTANTS MaxClaims,    \* bounds the claims
          MaxClaimDay   \* bounds the calendar

ASSUME ClaimsAssumption == {MaxClaims, MaxClaimDay} \subseteq Nat /\ None \notin Nat

VARIABLES claims,       \* vehicle_claims, in the order of their INSERT
          counted,      \* counted[s]: what create_claim of s counted, or None
          claimDay      \* CURRENT_DATE

claimVars == <<claims, counted, claimDay>>

StatutsSinistre == {"DECLARE", "EN_EXPERTISE", "EN_REPARATION", "CLOS", "REMBOURSE"}
Settled         == {"CLOS", "REMBOURSE"}

Claims == [numero : Nat, statut : StatutsSinistre, cloture : Nat \union {None}]

ClaimsInit ==
    /\ claims = << >>
    /\ counted = [s \in Sessions |-> None]
    /\ claimDay = 0

\* create_claim: SELECT COUNT( * ) of the tenant's claims ...
CountClaims(s) ==
    /\ counted[s] = None /\ Len(claims) < MaxClaims
    /\ counted' = [counted EXCEPT ![s] = Len(claims)]
    /\ UNCHANGED <<claims, claimDay>>

\* The rows of number n that the unique index on (tenant_id, numero) would see.
Bearing(n) == {i \in DOMAIN claims : claims[i].numero = n}

NewClaim(n) == [numero |-> n, statut |-> "DECLARE", cloture |-> None]

\* Mistake ruled out by GaplessClaims: the index is not unique.
InsertClaimAnyway(s) ==
    /\ counted[s] # None
    /\ claims' = Append(claims, NewClaim(counted[s] + 1))
    /\ counted' = [counted EXCEPT ![s] = None]
    /\ UNCHANGED claimDay

\* ... and the INSERT of number count + 1.
InsertClaim(s) ==
    /\ counted[s] # None
    /\ Bearing(counted[s] + 1) = {}
    /\ claims' = Append(claims, NewClaim(counted[s] + 1))
    /\ counted' = [counted EXCEPT ![s] = None]
    /\ UNCHANGED claimDay

\* Another call was faster and the index refuses the row, or the call is cut off.
ClaimCallFails(s) ==
    /\ counted[s] # None
    /\ counted' = [counted EXCEPT ![s] = None]
    /\ UNCHANGED <<claims, claimDay>>

\* update_claim may set the closing date, never clear it, and not the statut.
UpdateClaim(i, day) ==
    /\ i \in DOMAIN claims
    /\ claims' = [claims EXCEPT ![i].cloture = day]
    /\ UNCHANGED <<counted, claimDay>>

ChangeClaimStatus(i, statut) ==
    /\ i \in DOMAIN claims
    /\ claims' = [claims EXCEPT ![i].statut = statut,
                                ![i].cloture = IF statut \in Settled THEN claimDay ELSE @]
    /\ UNCHANGED <<counted, claimDay>>

NextClaimDay ==
    /\ claimDay < MaxClaimDay
    /\ claimDay' = claimDay + 1
    /\ UNCHANGED <<claims, counted>>

ClaimsNext ==
    \/ \E s \in Sessions : CountClaims(s) \/ InsertClaim(s) \/ ClaimCallFails(s)
    \/ \E i \in DOMAIN claims :
        \/ \E day \in 0..MaxClaimDay : UpdateClaim(i, day)
        \/ \E statut \in StatutsSinistre : ChangeClaimStatus(i, statut)
    \/ NextClaimDay

ClaimsSpec == ClaimsInit /\ [][ClaimsNext]_claimVars

-----------------------------------------------------------------------------

\* A claim that is settled has a closing date, whatever updates and reopenings
\* come between (change_claim_status, update_claim).
SettledClaimsAreDated ==
    \A i \in DOMAIN claims : claims[i].statut \in Settled => claims[i].cloture # None

\* The rows and what the calls remember have the types of their columns.
ClaimsTypeOK ==
    /\ claims \in Seq(Claims) /\ SettledClaimsAreDated
    /\ counted \in [Sessions -> Nat \union {None}]
    /\ claimDay \in Nat

\* The claims of a tenant are numbered 1, 2, 3, ... in the order in which they
\* are stored, however many calls count them at once.  They keep the promise
\* that Invoicing keeps with a locked row by counting and a unique index
\* (create_claim).
ClaimNumbering ==
    INSTANCE GaplessNumbering WITH
        Documents <- 1..MaxClaims, Sequences <- {"SIN"},
        last <- [q \in {"SIN"} |-> Len(claims)],
        given <- {<<i, "SIN", claims[i].numero>> : i \in DOMAIN claims}
GaplessClaims == ClaimNumbering!Spec

=============================================================================
