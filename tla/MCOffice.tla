------------------------------- MODULE MCOffice -------------------------------
(***************************************************************************)
(* The components of the office whose tables no other component of this    *)
(* run reads or writes, in one run of TLC.  A behaviour is a behaviour of  *)
(* one of them, the component in focus, while the others stay as they are  *)
(* at first: every property below is about one component, and interleaving *)
(* two that share nothing shows nothing new.                               *)
(***************************************************************************)
EXTENDS Fleet, Claims, Purchasing, Scans, Pricing, RoutePlans, RunOrder, Planning, Settings,
        Operations, TLC

VARIABLE focus

OfficeVars == <<fleetVars, claimVars, purchasingVars, scansVars, pricingVars, routePlansVars,
                runOrderVars, planningVars, settingsVars, operationsVars, focus>>

Components == {"fleet", "claims", "purchasing", "scans", "pricing", "route plans", "run order",
               "planning", "settings", "operations"}

OfficeInit ==
    /\ focus \in Components
    /\ FleetInit /\ ClaimsInit /\ PurchasingInit /\ ScansInit /\ PricingInit /\ RoutePlansInit
    /\ OrderInit /\ PlanningInit /\ SettingsInit /\ OperationsInit
    /\ distance = [j \in Jobs |-> None]   \* calls give the missions their distances

\* The variables of all components but the one in focus.
Unmoved ==
    /\ focus # "fleet"       => UNCHANGED fleetVars
    /\ focus # "claims"      => UNCHANGED claimVars
    /\ focus # "purchasing"  => UNCHANGED purchasingVars
    /\ focus # "scans"       => UNCHANGED scansVars
    /\ focus # "pricing"     => UNCHANGED pricingVars
    /\ focus # "route plans" => UNCHANGED routePlansVars
    /\ focus # "run order"   => UNCHANGED runOrderVars
    /\ focus # "planning"    => UNCHANGED planningVars
    /\ focus # "settings"    => UNCHANGED settingsVars
    /\ focus # "operations"  => UNCHANGED operationsVars
    /\ UNCHANGED focus

OfficeNext ==
    \/ focus = "fleet"       /\ FleetNext      /\ Unmoved
    \/ focus = "claims"      /\ ClaimsNext     /\ Unmoved
    \/ focus = "purchasing"  /\ PurchasingNext /\ Unmoved
    \/ focus = "scans"       /\ ScansNext      /\ Unmoved
    \/ focus = "pricing"     /\ PricingNext    /\ Unmoved
    \/ focus = "route plans" /\ RoutePlansNext /\ Unmoved
    \/ focus = "run order"   /\ OrderNext      /\ Unmoved
    \/ focus = "planning"    /\ PlanningNext   /\ Unmoved
    \/ focus = "settings"    /\ SettingsNext   /\ Unmoved
    \/ focus = "operations"  /\ OperationsNext /\ Unmoved

OfficeSpec == OfficeInit /\ [][OfficeNext]_OfficeVars

-----------------------------------------------------------------------------

\* A price per km for the shorter of two distances.
SmallRules == {[type |-> "km", rate |-> 15, min |-> None, max |-> 1]}

OneOwner == [j \in Jobs |-> CHOOSE c \in Customers : TRUE]

\* A leave of a day, and one whose end comes before its beginning.
SmallSpans == {<<1, 1>>, <<2, 1>>}

Symmetry == Permutations(Sessions)

-----------------------------------------------------------------------------

\* Each component's rows, and what its calls remember, are of the kinds that its
\* tables and handlers hold.
OfficeTypeOK ==
    /\ FleetTypeOK /\ ClaimsTypeOK /\ PurchasingTypeOK /\ ScansTypeOK /\ PricingTypeOK
    /\ RoutePlansTypeOK /\ OrderTypeOK /\ PlanningTypeOK /\ SettingsTypeOK /\ OperationsTypeOK

=============================================================================
