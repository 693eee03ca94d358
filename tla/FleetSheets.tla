------------------------------ MODULE FleetSheets ------------------------------
(***************************************************************************)
(* load_all_data.py and push_vehicle_dates.py write what the papers of the *)
(* company say of its vehicles and drivers into the running system, with   *)
(* PUTs over HTTP, while the office works on the same rows.                *)
(*                                                                         *)
(* A row is the set of groups of columns that hold a value.  The PUT of    *)
(* masterdata/router.py (VehicleUpdate is VehicleCreate) gives every column *)
(* of its statement the value of the body, and a column that the body does *)
(* not mention becomes NULL or its default.                                *)
(***************************************************************************)
EXTENDS Naturals

CONSTANTS Plates,       \* plates of vehicles
          Certified,    \* those of VEHICLE_REGISTRATION_DATA
          Insured,      \* those of INSURANCE_DATA
          Dated,        \* those of VEHICLE_DATES
          TestCar,      \* test_immat
          Staff,        \* drivers
          Qualified,    \* Qualified[d]: what DRIVER_QUALIFICATIONS says of d
          InFleet,      \* vehicles that have a row at first
          MaxLoads, MaxPuts   \* bound the starts of the programs and the PUTs of the office

VARIABLES columns,      \* columns[v]: groups of columns of v that hold a value; Absent: no row
          flags,        \* flags[d]: columns of d that hold a value
          load,         \* where load_all_data stands
          push,         \* where push_vehicle_dates stands
          loads, puts

sheetVars == <<columns, flags, load, push, loads, puts>>

Groups == {"certificate", "insurance", "date", "rest"}   \* rest: mileage, inspection dates, ...
Flags  == {"fimo", "adr", "rest"}                        \* rest: telephone, licence, date_sortie, ...

Absent == {"absent"}
Known  == {v \in Plates : columns[v] # Absent}

ASSUME SheetsAssumption ==
    /\ Certified \union Insured \union Dated \union {TestCar} \union InFleet \subseteq Plates
    /\ TestCar \in Dated
    /\ Qualified \in [Staff -> SUBSET {"fimo", "adr"}]
    /\ {MaxLoads, MaxPuts} \subseteq Nat

\* left: what the current step has still to write; known: vehicle_map;
\* had: driver_map; errors: stats["errors"].
SheetsInit ==
    /\ columns \in {[v \in Plates |-> IF v \in InFleet THEN full ELSE Absent] : full \in {{}, Groups}}
    /\ flags \in [Staff -> SUBSET Flags]
    /\ load = [step |-> "off", known |-> {}, left |-> {}, had |-> [d \in Staff |-> {}], errors |-> 0]
    /\ push = [step |-> "off", known |-> {}, left |-> {}]
    /\ loads = 0 /\ puts = 0

StartProgram == loads < MaxLoads /\ loads' = loads + 1

-----------------------------------------------------------------------------
(* load_all_data                                                             *)

\* Steps 1 and 2: the vehicles are read, those with a certificate are written.
StartLoad ==
    /\ StartProgram
    /\ load.step \in {"off", "done"}
    /\ load' = [load EXCEPT !.step = "certificates", !.known = Known, !.errors = 0,
                            !.left = Certified \intersect Known]
    /\ UNCHANGED <<columns, flags, push, puts>>

\* A request of the program is answered, or an error is counted: then it has
\* been served or not.
Request(v, served) ==
    \/ /\ served
       /\ load' = [load EXCEPT !.left = @ \ {v}]
    \/ /\ served \/ UNCHANGED <<columns, flags>>
       /\ load' = [load EXCEPT !.left = @ \ {v}, !.errors = @ + 1]

LoadStep(step, v) == load.step = step /\ v \in load.left /\ UNCHANGED <<push, loads, puts>>

\* Step 2 sends the columns of the certificate and, where there is one, of the
\* insurance; neither the first registration nor anything else.
PutCertificate(v) ==
    /\ LoadStep("certificates", v)
    /\ Request(v, /\ columns' = [columns EXCEPT ![v] = {"certificate"} \union
                                    (IF v \in Insured THEN {"insurance"} ELSE {})]
                  /\ UNCHANGED flags)

\* Step 3: what has an insurance only, and what has no row.
BeginInsurance ==
    /\ load.step = "certificates" /\ load.left = {}
    /\ load' = [load EXCEPT !.step = "insurance", !.left = Insured \ (Certified \intersect load.known)]
    /\ UNCHANGED <<columns, flags, push, loads, puts>>

PutInsurance(v) ==
    /\ LoadStep("insurance", v)
    /\ v \in load.known
    /\ Request(v, columns' = [columns EXCEPT ![v] = {"insurance"}] /\ UNCHANGED flags)

\* The POST is refused (409) when the plate has got a row meanwhile.
CreateInsured(v) ==
    /\ LoadStep("insurance", v)
    /\ v \notin load.known
    /\ Request(v, /\ columns[v] = Absent
                  /\ columns' = [columns EXCEPT ![v] = {"insurance"}]
                  /\ UNCHANGED flags)

\* Step 7, after the uploads of steps 4 to 6: drivers who lack a flag.
BeginDrivers ==
    /\ load.step = "insurance" /\ load.left = {}
    /\ load' = [load EXCEPT !.step = "drivers", !.had = flags,
                            !.left = {d \in Staff : ~ Qualified[d] \subseteq flags[d]}]
    /\ UNCHANGED <<columns, flags, push, loads, puts>>

\* The body holds the name and the flags that were missing.
PutFlags(d) ==
    /\ LoadStep("drivers", d)
    /\ Request(d, flags' = [flags EXCEPT ![d] = Qualified[d] \ load.had[d]] /\ UNCHANGED columns)

EndLoad ==
    /\ load.step = "drivers" /\ load.left = {}
    /\ load' = [load EXCEPT !.step = "done"]
    /\ UNCHANGED <<columns, flags, push, loads, puts>>

-----------------------------------------------------------------------------
(* push_vehicle_dates                                                        *)

StartPush ==
    /\ StartProgram
    /\ push.step \in {"off", "done", "aborted"}
    /\ push' = [step  |-> IF TestCar \in Known THEN "smoke" ELSE "aborted",
                known |-> Known,
                left  |-> {v \in Dated \intersect Known : "date" \notin columns[v]}]
    /\ UNCHANGED <<columns, flags, load, puts>>

PutDate(v) == columns' = [columns EXCEPT ![v] = {"date"}]

\* The first PUT decides whether there are others.
SmokeTest ==
    /\ push.step = "smoke"
    /\ \/ PutDate(TestCar) /\ push' = [push EXCEPT !.step = "push"]
       \/ (PutDate(TestCar) \/ UNCHANGED columns) /\ push' = [push EXCEPT !.step = "aborted"]
    /\ UNCHANGED <<flags, load, loads, puts>>

\* One PUT of the list made before the smoke test; a failure is counted.
PushDate(v) ==
    /\ push.step = "push" /\ v \in push.left
    /\ PutDate(v) \/ UNCHANGED columns
    /\ push' = [push EXCEPT !.left = @ \ {v}]
    /\ UNCHANGED <<flags, load, loads, puts>>

EndPush ==
    /\ push.step = "push" /\ push.left = {}
    /\ push' = [push EXCEPT !.step = "done"]
    /\ UNCHANGED <<columns, flags, load, loads, puts>>

-----------------------------------------------------------------------------
(* The office                                                                *)

OfficePut == puts < MaxPuts /\ puts' = puts + 1 /\ UNCHANGED <<load, push, loads>>

\* create_vehicle and update_vehicle.
OfficeWritesVehicle(v, sent) ==
    OfficePut /\ columns' = [columns EXCEPT ![v] = sent] /\ UNCHANGED flags

OfficeWritesDriver(d, sent) ==
    OfficePut /\ flags' = [flags EXCEPT ![d] = sent] /\ UNCHANGED columns

LoadProgram ==
    \/ StartLoad \/ BeginInsurance \/ BeginDrivers \/ EndLoad
    \/ \E v \in Plates : PutCertificate(v) \/ PutInsurance(v) \/ CreateInsured(v)
    \/ \E d \in Staff : PutFlags(d)

PushProgram == StartPush \/ SmokeTest \/ EndPush \/ \E v \in Dated : PushDate(v)

OfficeWrites ==
    \/ \E v \in Plates, sent \in SUBSET Groups : OfficeWritesVehicle(v, sent)
    \/ \E d \in Staff, sent \in SUBSET Flags : OfficeWritesDriver(d, sent)

SheetsNext == LoadProgram \/ PushProgram \/ OfficeWrites

SheetsSpec == SheetsInit /\ [][SheetsNext]_sheetVars

-----------------------------------------------------------------------------

SheetsTypeOK ==
    /\ columns \in [Plates -> (SUBSET Groups) \union {Absent}]
    /\ flags \in [Staff -> SUBSET Flags]
    /\ load.step \in {"off", "certificates", "insurance", "drivers", "done"}
    /\ load.known \subseteq Plates /\ load.left \subseteq Plates \union Staff
    /\ load.had \in [Staff -> SUBSET Flags] /\ load.errors \in Nat
    /\ push.step \in {"off", "smoke", "push", "done", "aborted"}
    /\ push.known \subseteq Plates /\ push.left \subseteq push.known
    /\ {loads, puts} \subseteq Nat

\* What load_all_data.py says of its PUTs, "Only update fields that have values":
\* a program takes no value away that the office or another program has stored.
\* The code does not keep this.
PutKeepsTheRest ==
    [][LoadProgram \/ PushProgram =>
         /\ \A v \in Known : columns[v] \subseteq columns'[v]
         /\ \A d \in Staff : flags[d] \subseteq flags'[d]]_sheetVars

\* What load_all_data.py says of DRIVER_QUALIFICATIONS: drivers with the papers
\* have the flags, once it has ended without an error and nobody else wrote.
\* The code does not keep this.
SheetFlagsAreSet ==
    load.step = "done" /\ load.errors = 0 /\ puts = 0 =>
        \A d \in Staff : Qualified[d] \subseteq flags[d]

=============================================================================
