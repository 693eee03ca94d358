--------------------------------- MODULE Fleet ---------------------------------
(***************************************************************************)
(* Maintenance plans, maintenance records and costs of the vehicles        *)
(* (backend/app/modules/fleet/router.py) and the daily task that should    *)
(* turn due plans into records (maintenance_auto_trigger).                 *)
(*                                                                         *)
(* Rows are numbered in the order of their INSERT.  A vehicle is never     *)
(* deleted and every row belongs to one, so vehicles are left out, as are  *)
(* kilometres, which are treated like days.  Every call is one statement   *)
(* and one step, except change_maintenance_status.                         *)
(***************************************************************************)
EXTENDS Calls, Naturals, Sequences, FiniteSets, SequencesExt

CONSTANTS Frequencies,  \* values of frequence_jours, None for none
          Amounts,      \* values of cout_total_ht and montant_ht
          AlertDays,    \* alerte_jours_avant
          MaxFleetCalls,    \* bounds the calls, and with them the rows
          MaxFleetDay   \* bounds the calendar and the dates

ASSUME FleetAssumption ==
    /\ Frequencies \subseteq Nat \union {None}
    /\ Amounts \subseteq Nat
    /\ {AlertDays, MaxFleetCalls, MaxFleetDay} \subseteq Nat
    /\ None \notin Nat

VARIABLES plans,        \* maintenance_schedules
          records,      \* maintenance_records
          costs,        \* vehicle_costs, a set: rows are deleted
          costIds,      \* how many costs were ever inserted
          fleetCall,    \* fleetCall[s]: where the call of session s is
          beat,         \* where maintenance_auto_trigger is
          fleetDay,     \* CURRENT_DATE
          fleetCalls    \* calls so far

fleetVars == <<plans, records, costs, costIds, fleetCall, beat, fleetDay, fleetCalls>>

StatutsMaintenance == {"PLANIFIE", "EN_COURS", "TERMINE", "ANNULE"}
FleetDates == 0..MaxFleetDay

Plans == [active : BOOLEAN, every : Frequencies \union {None},
          last : Nat \union {None}, due : Nat \union {None}]

\* day: date_fin, or date_debut while there is none.
Records == [plan : Nat \union {None}, day : FleetDates,
            cost : Amounts \union {None}, statut : StatutsMaintenance]

\* record: the maintenance a cost was generated by, None for a cost typed in.
Costs == [id : Nat, record : Nat \union {None}, amount : Amounts, day : FleetDates]

NoFleetCall == [step |-> "idle"]

FleetCalls ==
    {NoFleetCall}
        \union [step : {"read", "locked"}, record : Nat, row : Records,
                statut : StatutsMaintenance]

FleetInit ==
    /\ plans = << >> /\ records = << >> /\ costs = {} /\ costIds = 0
    /\ fleetCall = [s \in Sessions |-> NoFleetCall]
    /\ beat = "waiting" /\ fleetDay = 0 /\ fleetCalls = 0

\* A call begins.
NewFleetCall == fleetCalls < MaxFleetCalls /\ fleetCalls' = fleetCalls + 1

FleetIdle(s) == fleetCall[s].step = "idle"

\* Some call has written record r and has not committed.
RecordLocked(r) == \E s \in Sessions : fleetCall[s].step = "locked" /\ fleetCall[s].record = r

-----------------------------------------------------------------------------
(* Plans                                                                     *)

CreateSchedule(every, due) ==
    /\ NewFleetCall
    /\ plans' = Append(plans, [active |-> TRUE, every |-> every, last |-> None, due |-> due])
    /\ UNCHANGED <<records, costs, costIds, fleetCall, beat, fleetDay>>

\* Fields that are null in the body keep their value.
UpdateSchedule(p, every, due) ==
    /\ NewFleetCall
    /\ p \in DOMAIN plans
    /\ <<every, due>> # <<None, None>>
    /\ plans' = [plans EXCEPT ![p].every = IF every = None THEN @ ELSE every,
                              ![p].due   = IF due = None THEN @ ELSE due]
    /\ UNCHANGED <<records, costs, costIds, fleetCall, beat, fleetDay>>

DeactivateSchedule(p) ==
    /\ NewFleetCall
    /\ p \in DOMAIN plans
    /\ plans' = [plans EXCEPT ![p].active = FALSE]
    /\ UNCHANGED <<records, costs, costIds, fleetCall, beat, fleetDay>>

-----------------------------------------------------------------------------
(* Records                                                                   *)

\* A record may be created in any statut; only a change of statut to TERMINE
\* has effects on the plan and the costs.
CreateMaintenance(plan, day, cost, statut) ==
    /\ NewFleetCall
    /\ plan \in DOMAIN plans \union {None}
    /\ records' = Append(records, [plan |-> plan, day |-> day, cost |-> cost, statut |-> statut])
    /\ UNCHANGED <<plans, costs, costIds, fleetCall, beat, fleetDay>>

UpdateMaintenance(r, day, cost) ==
    /\ NewFleetCall
    /\ r \in DOMAIN records /\ ~ RecordLocked(r)
    /\ records' = [records EXCEPT ![r].day = day,
                                  ![r].cost = IF cost = None THEN @ ELSE cost]
    /\ UNCHANGED <<plans, costs, costIds, fleetCall, beat, fleetDay>>

\* change_maintenance_status: the SELECT.  What follows works from this row.
ReadRecord(s, r, statut) ==
    /\ NewFleetCall
    /\ FleetIdle(s) /\ r \in DOMAIN records
    /\ fleetCall' = [fleetCall EXCEPT ![s] =
                        [step |-> "read", record |-> r, row |-> records[r], statut |-> statut]]
    /\ UNCHANGED <<plans, records, costs, costIds, beat, fleetDay>>

\* The UPDATE of the statut waits for the row and then keeps it.
LockRecord(s) ==
    /\ fleetCall[s].step = "read"
    /\ ~ RecordLocked(fleetCall[s].record)
    /\ fleetCall' = [fleetCall EXCEPT ![s].step = "locked"]
    /\ UNCHANGED <<plans, records, costs, costIds, beat, fleetDay, fleetCalls>>

\* The plan of a completed record: the next date counts from the day of the
\* record, whatever the plan says now.
Realised(plan, row) ==
    [plan EXCEPT !.last = row.day,
                 !.due = IF plan.every \in {None, 0} THEN @ ELSE row.day + plan.every]

\* cout_total_ht NULL or 0 makes no cost.
IsCharged(row) == row.cost \notin {None, 0}

\* The rest of change_maintenance_status, and the commit.
FinishStatus(s) ==
    LET call == fleetCall[s]
        done == call.statut = "TERMINE"
    IN  /\ call.step = "locked"
        /\ records' = [records EXCEPT ![call.record].statut = call.statut]
        /\ plans' = IF done /\ call.row.plan # None
                    THEN [plans EXCEPT ![call.row.plan] = Realised(@, call.row)]
                    ELSE plans
        /\ IF done /\ IsCharged(call.row)
           THEN /\ costIds' = costIds + 1
                /\ costs' = costs \union {[id |-> costIds + 1, record |-> call.record,
                                           amount |-> call.row.cost, day |-> call.row.day]}
           ELSE UNCHANGED <<costs, costIds>>
        /\ fleetCall' = [fleetCall EXCEPT ![s] = NoFleetCall]
        /\ UNCHANGED <<beat, fleetDay, fleetCalls>>

\* A call that fails or is cut off rolls back.
FailFleetCall(s) ==
    /\ ~ FleetIdle(s)
    /\ fleetCall' = [fleetCall EXCEPT ![s] = NoFleetCall]
    /\ UNCHANGED <<plans, records, costs, costIds, beat, fleetDay, fleetCalls>>

-----------------------------------------------------------------------------
(* Costs                                                                     *)

CreateCost(amount, day) ==
    /\ NewFleetCall
    /\ costIds' = costIds + 1
    /\ costs' = costs \union {[id |-> costIds + 1, record |-> None, amount |-> amount, day |-> day]}
    /\ UNCHANGED <<plans, records, fleetCall, beat, fleetDay>>

UpdateCost(c, amount, day) ==
    /\ NewFleetCall
    /\ c \in costs
    /\ costs' = (costs \ {c}) \union {[c EXCEPT !.amount = amount, !.day = day]}
    /\ UNCHANGED <<plans, records, costIds, fleetCall, beat, fleetDay>>

DeleteCost(c) ==
    /\ NewFleetCall
    /\ c \in costs
    /\ costs' = costs \ {c}
    /\ UNCHANGED <<plans, records, costIds, fleetCall, beat, fleetDay>>

-----------------------------------------------------------------------------
(* The daily task                                                            *)

\* Plans whose next date is inside the alert window.
DuePlans == {p \in DOMAIN plans :
                /\ plans[p].active /\ plans[p].due # None
                /\ plans[p].due <= fleetDay + AlertDays}

TriggerStarts ==
    /\ beat = "waiting"
    /\ beat' = IF DuePlans = {} THEN "waiting" ELSE "checking"
    /\ UNCHANGED <<plans, records, costs, costIds, fleetCall, fleetDay, fleetCalls>>

\* The next statement asks for maintenance_schedule_id, a column that no
\* migration creates (it is schedule_id there): the task ends with an error,
\* and nothing is committed.
TriggerFails ==
    /\ beat = "checking"
    /\ beat' = "waiting"
    /\ UNCHANGED <<plans, records, costs, costIds, fleetCall, fleetDay, fleetCalls>>

NextFleetDay ==
    /\ fleetDay < MaxFleetDay
    /\ fleetDay' = fleetDay + 1
    /\ UNCHANGED <<plans, records, costs, costIds, fleetCall, beat, fleetCalls>>

-----------------------------------------------------------------------------

PlanStep ==
    \E every \in Frequencies \union {None}, due \in FleetDates \union {None} :
        \/ CreateSchedule(every, due)
        \/ \E p \in DOMAIN plans : UpdateSchedule(p, every, due) \/ DeactivateSchedule(p)

RecordStep ==
    \E day \in FleetDates, cost \in Amounts \union {None}, statut \in StatutsMaintenance :
        \/ \E p \in DOMAIN plans \union {None} : CreateMaintenance(p, day, cost, statut)
        \/ \E r \in DOMAIN records :
            \/ UpdateMaintenance(r, day, cost)
            \/ \E s \in Sessions : ReadRecord(s, r, statut)

CostStep ==
    \E amount \in Amounts, day \in FleetDates :
        \/ CreateCost(amount, day)
        \/ \E c \in costs : UpdateCost(c, amount, day) \/ DeleteCost(c)

FleetNext ==
    \/ PlanStep \/ RecordStep \/ CostStep
    \/ \E s \in Sessions : \/ LockRecord(s) \/ FinishStatus(s) \/ FailFleetCall(s)
    \/ TriggerStarts \/ TriggerFails \/ NextFleetDay

FleetSpec == FleetInit /\ [][FleetNext]_fleetVars

\* Celery beat starts the task every day and the worker runs it to its end.
FleetFairSpec == FleetSpec /\ WF_fleetVars(TriggerStarts) /\ WF_fleetVars(TriggerFails)

-----------------------------------------------------------------------------

\* Plans, records and costs have the types of their columns.
FleetTypeOK ==
    /\ plans \in Seq(Plans)
    /\ records \in Seq(Records)
    /\ costs \subseteq Costs
    /\ costIds \in Nat
    /\ fleetCall \in [Sessions -> FleetCalls]
    /\ beat \in {"waiting", "checking"}
    /\ fleetDay \in FleetDates

\* A maintenance is charged once: "Auto-create cost entry when maintenance is
\* completed with costs" (change_maintenance_status).
\* The code does not keep this.
ChargedOnce == \A c, d \in costs : c.record # None /\ c.record = d.record => c = d

\* A plan that is due gets a record, PLANIFIE or EN_COURS, unless it is moved
\* or switched off: what maintenance_auto_trigger says of itself.
IsPlanned(p) == \E r \in DOMAIN records : /\ records[r].plan = p
                                          /\ records[r].statut \in {"PLANIFIE", "EN_COURS"}
\* The code does not keep this.
DuePlansArePlanned ==
    \A p \in 1..MaxFleetCalls : (p \in DuePlans) ~> (p \notin DuePlans \/ IsPlanned(p))

=============================================================================
