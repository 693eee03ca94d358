---------------------------- MODULE MissionNumbers ----------------------------
(***************************************************************************)
(* The numero of a mission, MIS-YYYY-MM-..., unique in its tenant, is made *)
(* in three places: create_mission (modules/jobs/router.py) counts the     *)
(* missions of the month, generate_runs (modules/route_templates/router)   *)
(* ends it in the day and the code of the template, and the script         *)
(* core/generate_operations.py counts on from the last mission of all.     *)
(*                                                                         *)
(* A numero is [month, part, by]: part is what follows the last hyphen; by *)
(* tells the form with a day ("route") from the other ("count").           *)
(***************************************************************************)
EXTENDS Calls, Integers, FiniteSets, Sequences, SequencesExt

CONSTANTS RouteCodes,       \* codes of route templates, which are numbers
          SheetCodes,       \* the keys of ASSIGNMENTS
          SheetDays,        \* the days the script generates
          SheetMonth,       \* its month: April 2026
          MaxMonth,         \* bounds the calendar
          MaxNumbered       \* bounds the missions

ASSUME MissionNumbersAssumption ==
    /\ RouteCodes \union SheetDays \union {SheetMonth, MaxMonth, MaxNumbered} \subseteq Nat
    /\ IsFiniteSet(SheetCodes) /\ IsFiniteSet(SheetDays) /\ MaxMonth >= 1
    /\ None \notin Nat

VARIABLES batches,      \* the missions by transaction, in the order of created_at
          month,        \* the month of today
          numbering,    \* numbering[s]: the numero create_mission is about to insert, or None
          assigned,     \* routes of the sheet whose defaults the script has set
          sheetRuns,    \* <<code, day>> of the runs it has made
          script        \* where it is

missionNumbersVars == <<batches, month, numbering, assigned, sheetRuns, script>>

Numeros == [month : Nat, part : Nat, by : {"count", "route"}]

NoScript == [step |-> "idle"]

MissionNumbersInit ==
    /\ batches = << >> /\ month = 1 /\ numbering = [s \in Sessions |-> None]
    /\ assigned = {} /\ sheetRuns = {} /\ script = NoScript

Used == UNION {batches[i] : i \in DOMAIN batches}

\* ix_jobs_numero; a transaction that breaks it is rolled back as a whole.
Fits(batch) == batch \intersect Used = {} /\ Cardinality(Used \union batch) <= MaxNumbered

Numbered(batch) == batches' = IF batch = {} THEN batches ELSE Append(batches, batch)

-----------------------------------------------------------------------------

\* _gen_mission_numero: COUNT(*) + 1 over LIKE 'MIS-YYYY-MM-%'.
NextNumero == [month |-> month, by |-> "count",
               part |-> Cardinality({n \in Used : n.month = month}) + 1]

CountMissions(s) ==
    /\ numbering[s] = None
    /\ numbering' = [numbering EXCEPT ![s] = NextNumero]
    /\ UNCHANGED <<batches, month, assigned, sheetRuns, script>>

InsertMission(s) ==
    /\ numbering[s] # None
    /\ Fits({numbering[s]}) /\ Numbered({numbering[s]})
    /\ numbering' = [numbering EXCEPT ![s] = None]
    /\ UNCHANGED <<month, assigned, sheetRuns, script>>

\* The numero is taken, the customer is not active, or the call is cut off.
MissionRefused(s) ==
    /\ numbering[s] # None
    /\ numbering' = [numbering EXCEPT ![s] = None]
    /\ UNCHANGED <<batches, month, assigned, sheetRuns, script>>

\* generate_runs with missions: MIS-YYYY-MM-DD-code.  One day a month here.
GenerateRoute(code, m) ==
    LET batch == {[month |-> m, part |-> code, by |-> "route"]} IN
    /\ Fits(batch) /\ Numbered(batch)
    /\ UNCHANGED <<month, numbering, assigned, sheetRuns, script>>

-----------------------------------------------------------------------------
(* generate_operations                                                       *)

\* The defaults of the templates that exist, committed; routes is what was read.
AssignDefaults(routes) ==
    /\ script = NoScript
    /\ assigned \subseteq routes    \* no template is ever deleted
    /\ assigned' = assigned \union routes
    /\ script' = [step |-> "generate", routes |-> routes]
    /\ UNCHANGED <<batches, month, numbering, sheetRuns>>

\* int(numero.split("-")[-1]) + 1 of ORDER BY created_at DESC LIMIT 1: the
\* missions of one transaction have one created_at, so any of the last batch.
FirstParts == IF batches = << >> THEN {1} ELSE {n.part + 1 : n \in Last(batches)}

NewRuns(routes) == (routes \X SheetDays) \ sheetRuns

SheetBatch(first, size) ==
    {[month |-> SheetMonth, part |-> i, by |-> "count"] : i \in first..(first + size - 1)}

GenerateMonth ==
    /\ script.step = "generate"
    /\ LET new == NewRuns(script.routes) IN
        /\ \E first \in FirstParts :
            LET batch == SheetBatch(first, Cardinality(new))
            IN  Fits(batch) /\ Numbered(batch)
        /\ sheetRuns' = sheetRuns \union new
    /\ script' = NoScript
    /\ UNCHANGED <<month, numbering, assigned>>

\* A numero is taken, or the script is cut off.
MonthFails ==
    /\ script # NoScript /\ script' = NoScript
    /\ UNCHANGED <<batches, month, numbering, assigned, sheetRuns>>

NextMonth ==
    /\ month < MaxMonth /\ month' = month + 1
    /\ UNCHANGED <<batches, numbering, assigned, sheetRuns, script>>

-----------------------------------------------------------------------------

MissionNumbersNext ==
    \/ \E s \in Sessions : CountMissions(s) \/ InsertMission(s) \/ MissionRefused(s)
    \/ \E code \in RouteCodes, m \in 1..MaxMonth : GenerateRoute(code, m)
    \/ \E routes \in SUBSET SheetCodes : AssignDefaults(routes)
    \/ GenerateMonth \/ MonthFails \/ NextMonth

MissionNumbersSpec == MissionNumbersInit /\ [][MissionNumbersNext]_missionNumbersVars

-----------------------------------------------------------------------------

\* The stored missions have distinct numeros, and what is under way has its shape.
MissionNumbersTypeOK ==
    /\ \A i \in DOMAIN batches : batches[i] \subseteq Numeros
    /\ \A i, j \in DOMAIN batches : i # j => batches[i] \intersect batches[j] = {}
    /\ month \in 1..MaxMonth
    /\ \A s \in Sessions : numbering[s] # None => numbering[s] \in Numeros
    /\ assigned \subseteq SheetCodes /\ sheetRuns \subseteq SheetCodes \X SheetDays
    /\ script # NoScript => script.step = "generate" /\ script.routes \subseteq SheetCodes

\* A mission can be created: the number after the count of the month is free.
\* "Generate next mission number: MIS-YYYY-MM-NNNNN." (_gen_mission_numero).
\* The code does not keep this.
NextNumeroIsFree == NextNumero \notin Used

\* The script can generate what is missing of its month, as "Idempotency" promises
\* (generate): the runs that exist are passed over.
\* The code does not keep this.
MonthGoesThrough ==
    script # NoScript => \A first \in FirstParts :
        SheetBatch(first, Cardinality(NewRuns(script.routes))) \intersect Used = {}

=============================================================================
