------------------------------- MODULE Registry -------------------------------
(***************************************************************************)
(* Customers, subcontractors, drivers and vehicles of a tenant             *)
(* (backend/app/modules/masterdata/router.py) and the daily task that      *)
(* retires drivers who have left.  The four tables are one set of rows     *)
(* here, told apart by their kind; none of these rows is ever deleted.     *)
(*                                                                         *)
(* A body that the Pydantic schemas refuse never reaches a handler: the    *)
(* inputs below are the ones they accept (Bodies).                         *)
(***************************************************************************)
EXTENDS Calls, Naturals, FiniteSets, FiniteSetsExt

CONSTANTS Numbers,      \* numbers in typed-in keys: CLI-001, SAF-001, a plate
          Nirs,         \* social security numbers
          Weights,      \* values of ptac_kg and charge_utile_kg
          CallBodies,   \* bodies that calls send
          CallStatuts,  \* statuts that calls ask for
          MaxRegistryCalls,     \* bounds the calls, previews and applications of files included
          MaxRegistryDay        \* bounds the calendar and date_sortie

VARIABLES rows,         \* the committed rows
          own,          \* own[s]: rows the open transaction of s has written
          draft,        \* draft[s]: the row a creation is about to INSERT, or None
          lastId,       \* ids given so far, and with them gen_random_uuid
          registryCalls,
          registryDay   \* CURRENT_DATE

registryVars == <<rows, own, draft, lastId, registryCalls, registryDay>>

Kinds == {"client", "subcontractor", "driver", "vehicle"}

ClientStatuts  == {"ACTIF", "INACTIF", "PROSPECT", "BLOQUE"}
SubStatuts     == {"ACTIF", "INACTIF", "EN_COURS_VALIDATION", "BLOQUE", "SUSPENDU"}
DriverStatuts  == {"ACTIF", "INACTIF", "SUSPENDU"}
VehicleStatuts == {"ACTIF", "INACTIF", "EN_MAINTENANCE", "IMMOBILISE", "VENDU", "RESTITUE"}
Conformites    == {"OK", "A_REGULARISER", "BLOQUANT"}

Statuts == ClientStatuts \union SubStatuts \union DriverStatuts \union VehicleStatuts

\* code, matricule or immatriculation: numbered ones and ones made from a uuid.
Keys == {"number", "uuid"} \X Nat
Number(n) == <<"number", n>>

Days == 0..MaxRegistryDay

\* What a body says of a row: its key, None for one the server shall choose, and
\* the columns the rules below are about.  The schemas refuse other bodies.
\* A vehicle's plate is in two columns, plate_number and immatriculation, that
\* every writer sets alike.
ClientBodies ==
    [kind : {"client"}, key : {Number(n) : n \in Numbers} \union {None}, statut : ClientStatuts]

SubcontractorBodies ==
    [kind : {"subcontractor"}, key : {Number(n) : n \in Numbers}, statut : SubStatuts,
     conformite : Conformites]

DriverBodies ==
    [kind : {"driver"}, key : {Number(n) : n \in Numbers} \union {None},
     nir : Nirs \union {None}, sortie : Days \union {None}]

\* RG-B-033, check_business_rules of VehicleCreate.
PayloadFits(v) == v.ptac \notin {None, 0} /\ v.charge \notin {None, 0} => v.charge <= v.ptac

VehicleBodies ==
    {v \in [kind : {"vehicle"}, key : {Number(n) : n \in Numbers},
            ptac : Weights \union {None}, charge : Weights \union {None}] : PayloadFits(v)}

Bodies == ClientBodies \union SubcontractorBodies \union DriverBodies \union VehicleBodies

ASSUME RegistryAssumption ==
    /\ Numbers \subseteq Nat \ {0} /\ Weights \subseteq Nat
    /\ {MaxRegistryCalls, MaxRegistryDay} \subseteq Nat
    /\ CallBodies \subseteq Bodies /\ CallStatuts \subseteq Statuts
    /\ None \notin Nat \union Nirs

\* A row as the INSERT leaves it: is_active is true by default, drivers and
\* vehicles begin as ACTIF, the others as the body says.
NewRow(id, key, body) ==
    CASE body.kind = "client" ->
            [id |-> id, kind |-> "client", key |-> key, statut |-> body.statut, active |-> TRUE]
      [] body.kind = "subcontractor" ->
            [id |-> id, kind |-> "subcontractor", key |-> key, statut |-> body.statut,
             conformite |-> body.conformite]
      [] body.kind = "driver" ->
            [id |-> id, kind |-> "driver", key |-> key, statut |-> "ACTIF", active |-> TRUE,
             nir |-> body.nir, sortie |-> body.sortie]
      [] body.kind = "vehicle" ->
            [id |-> id, kind |-> "vehicle", key |-> key, statut |-> "ACTIF", active |-> TRUE,
             ptac |-> body.ptac, charge |-> body.charge]

RegistryInit ==
    /\ rows = {} /\ lastId = 0
    /\ own = [s \in Sessions |-> {}]
    /\ draft = [s \in Sessions |-> None]
    /\ registryCalls = 0 /\ registryDay = 0

NewRegistryCall == registryCalls < MaxRegistryCalls /\ registryCalls' = registryCalls + 1

-----------------------------------------------------------------------------
(* Tables and transactions                                                  *)

Ids(set) == {r.id : r \in set}

\* The table after the rows of set are written to it.
Written(table, set) == {r \in table : r.id \notin Ids(set)} \union set

\* What the statements of s see.
Sees(s) == Written(rows, own[s])

\* Rows that other transactions have written and not committed.
OthersOf(s)  == UNION {own[t] : t \in Sessions \ {s}}
Locked(s, r) == r.id \in Ids(OthersOf(s))

\* The unique constraints on (tenant_id, key) of each table and on (tenant_id, nir).
SameKey(r, x) == r.kind = x.kind /\ r.key = x.key
SameNir(r, x) == r.kind = "driver" /\ x.kind = "driver" /\ r.nir # None /\ r.nir = x.nir
Clash(r, x)   == r.id # x.id /\ (SameKey(r, x) \/ SameNir(r, x))

\* A statement of s may write r: it waits for rows of others that r clashes
\* with, and is refused when r clashes with one that s sees.
MustWait(s, r) == Locked(s, r) \/ \E x \in OthersOf(s) : Clash(r, x)
Refused(s, r)  == \E x \in Sees(s) : Clash(r, x)

\* One statement that writes r, and the commit.
Commit(s, r) ==
    /\ ~ MustWait(s, r) /\ ~ Refused(s, r)
    /\ rows' = Written(rows, {r})
    /\ UNCHANGED own

-----------------------------------------------------------------------------
(* Creation                                                                  *)

RowsOfKind(kind) == {r \in rows : r.kind = kind}

\* The SELECTs of a creation: they look for a row that has the key (409) or,
\* for a driver, the nir.
CheckNew(s, key, body) ==
    LET r == NewRow(lastId + 1, key, body)
    IN  /\ NewRegistryCall
        /\ draft[s] = None /\ own[s] = {}
        /\ ~ \E x \in rows : Clash(r, x)
        /\ draft' = [draft EXCEPT ![s] = r]
        /\ lastId' = lastId + 1
        /\ UNCHANGED <<rows, own, registryDay>>

\* Without a code the client becomes CLI-<number of clients + 1>.
CreateClient(s, body) ==
    /\ body.kind = "client"
    /\ CheckNew(s, IF body.key # None THEN body.key
                   ELSE Number(Cardinality(RowsOfKind("client")) + 1), body)

CreateSubcontractor(s, body) == body.kind = "subcontractor" /\ CheckNew(s, body.key, body)

\* Without a matricule the driver becomes SAF-<highest number + 1>.
CreateDriver(s, body) ==
    LET numbers == {r.key[2] : r \in {x \in RowsOfKind("driver") : x.key[1] = "number"}}
    IN  /\ body.kind = "driver"
        /\ CheckNew(s, IF body.key # None THEN body.key
                       ELSE Number(Max(numbers \union {0}) + 1), body)

CreateVehicle(s, body) == body.kind = "vehicle" /\ CheckNew(s, body.key, body)

\* Mistake ruled out by TypeOK: only the SELECT before asks for the key.
InsertUnconstrained(s) ==
    /\ draft[s] # None
    /\ rows' = rows \union {draft[s]}
    /\ draft' = [draft EXCEPT ![s] = None]
    /\ UNCHANGED <<own, lastId, registryCalls, registryDay>>

\* ... and the INSERT, where the constraints decide.
InsertNew(s) ==
    /\ draft[s] # None
    /\ Commit(s, draft[s])
    /\ draft' = [draft EXCEPT ![s] = None]
    /\ UNCHANGED <<lastId, registryCalls, registryDay>>

\* The INSERT is refused (500), or the call is cut off.
CreationFails(s) ==
    /\ draft[s] # None
    /\ draft' = [draft EXCEPT ![s] = None]
    /\ UNCHANGED <<rows, own, lastId, registryCalls, registryDay>>

-----------------------------------------------------------------------------
(* Updates: one UPDATE by id, after a SELECT that only asks whether it exists *)

Update(s, r) ==
    /\ NewRegistryCall
    /\ draft[s] = None /\ own[s] = {}
    /\ Commit(s, r)
    /\ UNCHANGED <<draft, lastId, registryDay>>

\* The statut comes from the body, is_active and the code stay.
UpdateClient(s, r, body) ==
    r.kind = "client" /\ body.kind = "client" /\ Update(s, [r EXCEPT !.statut = body.statut])

\* conformite_statut too comes from the body, whatever the checklist says.
UpdateSubcontractor(s, r, body) ==
    /\ r.kind = "subcontractor" /\ body.kind = "subcontractor"
    /\ Update(s, [r EXCEPT !.statut = body.statut, !.conformite = body.conformite])

\* Neither matricule nor statut; the nir is checked by its constraint alone.
UpdateDriver(s, r, body) ==
    /\ r.kind = "driver" /\ body.kind = "driver"
    /\ Update(s, [r EXCEPT !.nir = body.nir, !.sortie = body.sortie])

\* The plate is checked by its constraint alone.
UpdateVehicle(s, r, body) ==
    /\ r.kind = "vehicle" /\ body.kind = "vehicle"
    /\ Update(s, [r EXCEPT !.key = body.key, !.ptac = body.ptac, !.charge = body.charge])

\* Mistake ruled out by ActiveAgrees: is_active is left as it was.
ChangeStatutOnly(s, r, statut) ==
    r.kind = "vehicle" /\ statut \in VehicleStatuts /\ Update(s, [r EXCEPT !.statut = statut])

\* change_..._status: is_active follows the statut; subcontractors have none.
ChangeClientStatus(s, r, statut) ==
    /\ r.kind = "client" /\ statut \in ClientStatuts
    /\ Update(s, [r EXCEPT !.statut = statut, !.active = (statut = "ACTIF")])

ChangeSubcontractorStatus(s, r, statut) ==
    /\ r.kind = "subcontractor" /\ statut \in SubStatuts
    /\ Update(s, [r EXCEPT !.statut = statut])

ChangeDriverStatus(s, r, statut) ==
    /\ r.kind = "driver" /\ statut \in DriverStatuts
    /\ Update(s, [r EXCEPT !.statut = statut, !.active = (statut = "ACTIF")])

ChangeVehicleStatus(s, r, statut) ==
    /\ r.kind = "vehicle" /\ statut \in VehicleStatuts
    /\ Update(s, [r EXCEPT !.statut = statut, !.active = (statut = "ACTIF")])

-----------------------------------------------------------------------------
(* driver_auto_inactivation                                                  *)

HasLeft(r) == r.kind = "driver" /\ r.sortie # None /\ r.sortie < registryDay /\ r.statut = "ACTIF"

\* One UPDATE of all of them; it waits for rows that calls have written.
InactivateDrivers ==
    LET left == {r \in rows : HasLeft(r)}
    IN  /\ left # {}
        /\ Ids(left) \intersect Ids(UNION {own[s] : s \in Sessions}) = {}
        /\ rows' = Written(rows, {[r EXCEPT !.statut = "INACTIF", !.active = FALSE] : r \in left})
        /\ UNCHANGED <<own, draft, lastId, registryCalls, registryDay>>

NextRegistryDay ==
    /\ registryDay < MaxRegistryDay
    /\ registryDay' = registryDay + 1
    /\ UNCHANGED <<rows, own, draft, lastId, registryCalls>>

-----------------------------------------------------------------------------

CreationStep(s) ==
    \/ \E body \in CallBodies : \/ CreateClient(s, body) \/ CreateSubcontractor(s, body)
                            \/ CreateDriver(s, body) \/ CreateVehicle(s, body)
    \/ InsertNew(s) \/ CreationFails(s)

UpdateStep(s, r) ==
    \/ \E body \in CallBodies : \/ UpdateClient(s, r, body) \/ UpdateSubcontractor(s, r, body)
                            \/ UpdateDriver(s, r, body) \/ UpdateVehicle(s, r, body)
    \/ \E statut \in CallStatuts : \/ ChangeClientStatus(s, r, statut)
                               \/ ChangeSubcontractorStatus(s, r, statut)
                               \/ ChangeDriverStatus(s, r, statut)
                               \/ ChangeVehicleStatus(s, r, statut)

RegistryNext ==
    \/ \E s \in Sessions : CreationStep(s) \/ \E r \in rows : UpdateStep(s, r)
    \/ InactivateDrivers \/ NextRegistryDay

RegistrySpec == RegistryInit /\ [][RegistryNext]_registryVars

-----------------------------------------------------------------------------

ClientRows == [id : Nat, kind : {"client"}, key : Keys, statut : ClientStatuts, active : BOOLEAN]

SubcontractorRows ==
    [id : Nat, kind : {"subcontractor"}, key : Keys, statut : SubStatuts, conformite : Conformites]

DriverRows == [id : Nat, kind : {"driver"}, key : Keys, statut : DriverStatuts, active : BOOLEAN,
               nir : Nirs \union {None}, sortie : Nat \union {None}]

VehicleRows == [id : Nat, kind : {"vehicle"}, key : Keys, statut : VehicleStatuts,
                active : BOOLEAN, ptac : Weights \union {None}, charge : Weights \union {None}]

Rows == ClientRows \union SubcontractorRows \union DriverRows \union VehicleRows

RegistryTypeOK ==
    /\ rows \subseteq Rows
    /\ own \in [Sessions -> SUBSET Rows]
    /\ draft \in [Sessions -> Rows \union {None}]
    /\ {lastId, registryCalls} \subseteq Nat /\ registryDay \in Days

\* No two rows of a table have one code, matricule, plate or social security
\* number (RG-B-001, RG-B-030), however calls that all found the key free, and
\* imports, overlap.
KeysAreUnique == \A r, x \in rows : ~ Clash(r, x)

\* A driver or a vehicle is_active exactly while its statut is ACTIF: the calls
\* of masterdata, imports and driver_auto_inactivation agree on it, although
\* each writes its own part of the row.
ActiveAgrees ==
    \A r \in rows : r.kind \in {"driver", "vehicle"} => (r.active <=> r.statut = "ACTIF")

=============================================================================
