---------------------------- MODULE ImportsProofs ----------------------------
(***************************************************************************)
(* Proofs about the master data and the imports of files for any number of *)
(* rows, files and overlapping calls: types and unique keys, is_active     *)
(* that agrees with the statut, and imports that are atomic and keep the   *)
(* statut.                                                                 *)
(***************************************************************************)
EXTENDS Imports, TLAPS, FiniteSetTheorems, SequenceTheorems, WellFoundedInduction

-----------------------------------------------------------------------------
(* Sets of rows                                                              *)

\* Two rows that may both stand in the tables.
Apart(r, x)  == r.id # x.id /\ ~ SameKey(r, x) /\ ~ SameNir(r, x)
Sound(table) == \A r, x \in table : r = x \/ Apart(r, x)

LEMMA ApartIsSymmetric == \A r, x : Apart(r, x) <=> Apart(x, r)
  BY DEF Apart, SameKey, SameNir

\* A row that clashes with no other is written.
LEMMA SoundAfterWrite ==
  ASSUME NEW table, NEW x, Sound(table), \A y \in table : ~ Clash(x, y)
  PROVE  Sound(Written(table, {x}))
  <1>1. \A y \in Written(table, {x}) : y = x \/ (y \in table /\ Apart(x, y))
    BY DEF Written, Ids, Clash, Apart
  <1> QED
    BY <1>1, ApartIsSymmetric DEF Sound

\* A write after a transaction is a write of the transaction.
LEMMA WriteAfter ==
  ASSUME NEW table, NEW set, NEW x
  PROVE  Written(table, Written(set, {x})) = Written(Written(table, set), {x})
  <1>1. Ids(Written(set, {x})) = Ids(set) \union {x.id}
    BY DEF Ids, Written
  <1> QED
    BY <1>1 DEF Written, Ids

\* Writes of rows that are not the same ones commute.
LEMMA WritesCommute ==
  ASSUME NEW table, NEW set, NEW x, x.id \notin Ids(set)
  PROVE  Written(Written(table, {x}), set) = Written(Written(table, set), {x})
  BY DEF Written, Ids

\* Two transactions that wrote rows apart from each other, one after the other.
LEMMA SoundAfterBoth ==
  ASSUME NEW table, NEW A, NEW B, Sound(Written(table, A)), Sound(Written(table, B)),
         \A x \in A, y \in B : Apart(x, y)
  PROVE  Sound(Written(Written(table, A), B))
  <1> SUFFICES ASSUME NEW r \in Written(Written(table, A), B), NEW x \in Written(Written(table, A), B)
               PROVE  r = x \/ Apart(r, x)
    BY DEF Sound
  <1>1. \A y \in Written(Written(table, A), B) :
            \/ y \in B
            \/ y \in A
            \/ y \in Written(table, A) /\ y \in Written(table, B)
    BY DEF Written
  <1>2. A \subseteq Written(table, A) /\ B \subseteq Written(table, B)
    BY DEF Written
  <1>3. CASE r \in Written(table, A) /\ x \in Written(table, A)
    BY <1>3 DEF Sound
  <1>4. CASE r \in Written(table, B) /\ x \in Written(table, B)
    BY <1>4 DEF Sound
  <1>5. CASE r \in A /\ x \in B
    BY <1>5
  <1>6. CASE r \in B /\ x \in A
    BY <1>6, ApartIsSymmetric
  <1> QED
    BY <1>1, <1>2, <1>3, <1>4, <1>5, <1>6

\* Rows that keep what the constraints are about stay apart.
Alike(y, r) == /\ y.id = r.id /\ y.kind = r.kind /\ y.key = r.key
               /\ r.kind = "driver" => y.nir = r.nir

LEMMA SoundAfterMap ==
  ASSUME NEW table, NEW new, Sound(table), \A y \in new : \E r \in table : Alike(y, r),
         \A y, z \in new : y.id = z.id => y = z
  PROVE  Sound(new)
  <1> SUFFICES ASSUME NEW y \in new, NEW z \in new, y # z PROVE Apart(y, z)
    BY DEF Sound
  <1>1. PICK r \in table : Alike(y, r)
    OBVIOUS
  <1>2. PICK x \in table : Alike(z, x)
    OBVIOUS
  <1>3. y.id # z.id
    OBVIOUS
  <1> QED
    BY <1>1, <1>2, <1>3 DEF Sound, Apart, SameKey, SameNir, Alike

LEMMA WrittenIsFinite ==
  ASSUME NEW table, NEW set, IsFiniteSet(table), IsFiniteSet(set)
  PROVE  IsFiniteSet(Written(table, set))
  <1>1. IsFiniteSet({r \in table : r.id \notin Ids(set)})
    BY FS_Subset
  <1> QED
    BY <1>1, FS_Union DEF Written

-----------------------------------------------------------------------------
(* Numbers                                                                   *)

\* A finite set of natural numbers that is not empty has a greatest element.
LEMMA GreatestNatural ==
  ASSUME NEW S \in SUBSET Nat, IsFiniteSet(S), S # {}
  PROVE  Max(S) \in S
  <1> DEFINE HasMax(T) == \E x \in T : \A y \in T : x >= y
             Bad       == {T \in FiniteSubsetsOf(Nat) : T # {} /\ ~ HasMax(T)}
  <1>1. S \in FiniteSubsetsOf(Nat)
    BY DEF FiniteSubsetsOf
  <1>2. ASSUME Bad # {} PROVE FALSE
    <2>1. IsWellFoundedOn(StrictSubsetOrdering(Nat), FiniteSubsetsOf(Nat))
      BY FS_StrictSubsetOrderingWellFounded
    <2>2. PICK T \in Bad : \A U \in Bad : ~ (<<U, T>> \in StrictSubsetOrdering(Nat))
      <3>1. Bad \subseteq FiniteSubsetsOf(Nat)
        OBVIOUS
      <3> HIDE DEF Bad
      <3> QED
        BY <1>2, <2>1, <3>1, WFMin
    <2>3. T \in SUBSET Nat /\ IsFiniteSet(T) /\ T # {} /\ ~ HasMax(T)
      BY DEF FiniteSubsetsOf
    <2>4. PICK x \in T : TRUE
      BY <2>3
    <2>5. T \ {x} \in FiniteSubsetsOf(Nat)
      BY <2>3, FS_Subset DEF FiniteSubsetsOf
    <2>6. <<T \ {x}, T>> \in StrictSubsetOrdering(Nat)
      BY <2>3, <2>4 DEF StrictSubsetOrdering
    <2>7. T \ {x} = {} \/ HasMax(T \ {x})
      BY <2>2, <2>5, <2>6
    <2>8. CASE T \ {x} = {}
      BY <2>3, <2>4, <2>8
    <2>9. CASE HasMax(T \ {x})
      <3>1. PICK m \in T \ {x} : \A y \in T \ {x} : m >= y
        BY <2>9
      <3>2. m \in Nat /\ x \in Nat /\ \A y \in T : y \in Nat
        BY <2>3, <2>4, <3>1
      <3>3. CASE m >= x
        BY <2>3, <2>4, <3>1, <3>2, <3>3
      <3>4. CASE x >= m
        BY <2>3, <2>4, <3>1, <3>2, <3>4
      <3> QED
        BY <3>2, <3>3, <3>4
    <2> QED
      BY <2>7, <2>8, <2>9
  <1>3. HasMax(S)
    BY <1>1, <1>2
  <1> QED
    BY <1>3 DEF Max

LEMMA ImageIsFinite ==
  ASSUME NEW S, IsFiniteSet(S), NEW f, DOMAIN f = S
  PROVE  IsFiniteSet({f[x] : x \in S})
  <1> DEFINE T == {f[x] : x \in S}
             g == [x \in S |-> f[x]]
  <1>1. g \in Surjection(S, T)
    BY DEF Surjection
  <1> QED
    BY <1>1, FS_Surjection


-----------------------------------------------------------------------------
(* Rows                                                                      *)

\* A driver or a vehicle that is_active exactly while it is ACTIF.
Agrees(r) == r.kind \in {"driver", "vehicle"} => (r.active <=> r.statut = "ACTIF")

\* What an import keeps of a row.
Kept(x, r) == x.id = r.id /\ x.kind = r.kind /\ x.statut = r.statut

LEMMA KindOfRow ==
  ASSUME NEW r \in Rows
  PROVE  /\ r.id \in Nat /\ r.key \in Keys /\ r.kind \in Kinds
         /\ r.kind = "client" => r \in ClientRows
         /\ r.kind = "subcontractor" => r \in SubcontractorRows
         /\ r.kind = "driver" => r \in DriverRows
         /\ r.kind = "vehicle" => r \in VehicleRows
  BY DEF Rows, ClientRows, SubcontractorRows, DriverRows, VehicleRows, Kinds

LEMMA KindOfBody ==
  ASSUME NEW body \in Bodies
  PROVE  /\ body.kind \in Kinds
         /\ body.key \in Keys \union {None}
         /\ body.kind = "client" => body \in ClientBodies
         /\ body.kind = "subcontractor" => body \in SubcontractorBodies
         /\ body.kind = "driver" => body \in DriverBodies
         /\ body.kind = "vehicle" => body \in VehicleBodies
  <1>1. \A n \in Numbers : Number(n) \in Keys
    BY RegistryAssumption DEF Number, Keys
  <1>2. CASE body \in ClientBodies
    BY <1>1, <1>2 DEF ClientBodies, Kinds
  <1>3. CASE body \in SubcontractorBodies
    BY <1>1, <1>3 DEF SubcontractorBodies, Kinds
  <1>4. CASE body \in DriverBodies
    BY <1>1, <1>4 DEF DriverBodies, Kinds
  <1>5. CASE body \in VehicleBodies
    BY <1>1, <1>5 DEF VehicleBodies, Kinds
  <1> QED
    BY <1>2, <1>3, <1>4, <1>5 DEF Bodies

\* What an INSERT makes of a body.
LEMMA NewRowIsRow ==
  ASSUME NEW id \in Nat, NEW key \in Keys, NEW body \in Bodies
  PROVE  LET r == NewRow(id, key, body) IN
         r \in Rows /\ r.id = id /\ r.kind = body.kind /\ r.key = key /\ Agrees(r)
  <1>1. CASE body.kind = "client"
    <2>1. body.statut \in ClientStatuts
      BY <1>1, KindOfBody DEF ClientBodies
    <2>2. NewRow(id, key, body) =
            [id |-> id, kind |-> "client", key |-> key, statut |-> body.statut, active |-> TRUE]
      BY <1>1 DEF NewRow
    <2> QED
      BY <1>1, <2>1, <2>2 DEF Rows, ClientRows, Agrees
  <1>2. CASE body.kind = "subcontractor"
    <2>1. body.statut \in SubStatuts /\ body.conformite \in Conformites
      BY <1>2, KindOfBody DEF SubcontractorBodies
    <2>2. NewRow(id, key, body) =
            [id |-> id, kind |-> "subcontractor", key |-> key, statut |-> body.statut,
             conformite |-> body.conformite]
      BY <1>2 DEF NewRow
    <2> QED
      BY <1>2, <2>1, <2>2 DEF Rows, SubcontractorRows, Agrees
  <1>3. CASE body.kind = "driver"
    <2>1. body.nir \in Nirs \union {None} /\ body.sortie \in Nat \union {None}
      BY <1>3, KindOfBody, RegistryAssumption DEF DriverBodies, Days
    <2>2. NewRow(id, key, body) =
            [id |-> id, kind |-> "driver", key |-> key, statut |-> "ACTIF", active |-> TRUE,
             nir |-> body.nir, sortie |-> body.sortie]
      BY <1>3 DEF NewRow
    <2> QED
      BY <1>3, <2>1, <2>2 DEF Rows, DriverRows, Agrees, DriverStatuts
  <1>4. CASE body.kind = "vehicle"
    <2>1. body.ptac \in Weights \union {None} /\ body.charge \in Weights \union {None}
      BY <1>4, KindOfBody DEF VehicleBodies
    <2>2. NewRow(id, key, body) =
            [id |-> id, kind |-> "vehicle", key |-> key, statut |-> "ACTIF", active |-> TRUE,
             ptac |-> body.ptac, charge |-> body.charge]
      BY <1>4 DEF NewRow
    <2> QED
      BY <1>4, <2>1, <2>2 DEF Rows, VehicleRows, Agrees, VehicleStatuts
  <1> QED
    BY <1>1, <1>2, <1>3, <1>4, KindOfBody DEF Kinds

\* What ON CONFLICT DO UPDATE makes of a row.
LEMMA MergedIsRow ==
  ASSUME NEW r \in Rows, NEW body \in Bodies, r.kind = body.kind
  PROVE  LET x == Merged(r, body) IN
         x \in Rows /\ Kept(x, r) /\ x.key = r.key /\ (Agrees(r) => Agrees(x))
  <1>1. CASE body.kind \in {"client", "subcontractor"}
    BY <1>1 DEF Merged, MergedClient, MergedSubcontractor, Kept
  <1>2. CASE body.kind = "driver"
    <2>1. r \in DriverRows /\ body.nir \in Nirs \union {None} /\ body.sortie \in Nat \union {None}
      BY <1>2, KindOfRow, KindOfBody, RegistryAssumption DEF DriverBodies, Days
    <2>2. Merged(r, body) = MergedDriver(r, body)
      BY <1>2 DEF Merged
    <2>3. MergedDriver(r, body) \in DriverRows
      BY <2>1 DEF MergedDriver, DriverRows, KeepOld
    <2>4. LET x == MergedDriver(r, body) IN Kept(x, r) /\ x.key = r.key /\ x.active = r.active
      BY <2>1 DEF MergedDriver, DriverRows, Kept
    <2> QED
      BY <2>2, <2>3, <2>4 DEF Rows, Agrees, Kept
  <1>3. CASE body.kind = "vehicle"
    <2>1. r \in VehicleRows /\ {body.ptac, body.charge} \subseteq Weights \union {None}
      BY <1>3, KindOfRow, KindOfBody DEF VehicleBodies
    <2>2. Merged(r, body) = MergedVehicle(r, body)
      BY <1>3 DEF Merged
    <2>3. MergedVehicle(r, body) \in VehicleRows
      BY <2>1 DEF MergedVehicle, VehicleRows, KeepOld
    <2>4. LET x == MergedVehicle(r, body) IN Kept(x, r) /\ x.key = r.key /\ x.active = r.active
      BY <2>1 DEF MergedVehicle, VehicleRows, Kept
    <2> QED
      BY <2>2, <2>3, <2>4 DEF Rows, Agrees, Kept
  <1> QED
    BY <1>1, <1>2, <1>3, KindOfBody DEF Kinds


\* Every call of masterdata that changes a row writes it with its id and kind,
\* and keeps is_active and statut in step.
LEMMA UpdatesWriteRows ==
  ASSUME NEW s \in Sessions, NEW r \in Rows, UpdateStep(s, r)
  PROVE  \E x \in Rows : /\ Update(s, x) /\ x.id = r.id
                         /\ Agrees(r) => Agrees(x)
  <1>1. ASSUME NEW body \in CallBodies, UpdateClient(s, r, body)
        PROVE  \E x \in Rows : Update(s, x) /\ x.id = r.id /\ (Agrees(r) => Agrees(x))
    <2> DEFINE x == [r EXCEPT !.statut = body.statut]
    <2>1. r \in ClientRows /\ body.statut \in ClientStatuts
      BY <1>1, KindOfRow, KindOfBody, RegistryAssumption DEF UpdateClient, ClientBodies
    <2>2. x \in ClientRows /\ x.id = r.id /\ x.kind = "client"
      BY <2>1 DEF ClientRows
    <2> QED
      BY <1>1, <2>2 DEF UpdateClient, Rows, Agrees
  <1>2. ASSUME NEW body \in CallBodies, UpdateSubcontractor(s, r, body)
        PROVE  \E x \in Rows : Update(s, x) /\ x.id = r.id /\ (Agrees(r) => Agrees(x))
    <2> DEFINE x == [r EXCEPT !.statut = body.statut, !.conformite = body.conformite]
    <2>1. r \in SubcontractorRows /\ body.statut \in SubStatuts /\ body.conformite \in Conformites
      BY <1>2, KindOfRow, KindOfBody, RegistryAssumption DEF UpdateSubcontractor, SubcontractorBodies
    <2>2. x \in SubcontractorRows /\ x.id = r.id /\ x.kind = "subcontractor"
      BY <2>1 DEF SubcontractorRows
    <2> QED
      BY <1>2, <2>2 DEF UpdateSubcontractor, Rows, Agrees
  <1>3. ASSUME NEW body \in CallBodies, UpdateDriver(s, r, body)
        PROVE  \E x \in Rows : Update(s, x) /\ x.id = r.id /\ (Agrees(r) => Agrees(x))
    <2> DEFINE x == [r EXCEPT !.nir = body.nir, !.sortie = body.sortie]
    <2>1. /\ r \in DriverRows
          /\ body.nir \in Nirs \union {None} /\ body.sortie \in Nat \union {None}
      BY <1>3, KindOfRow, KindOfBody, RegistryAssumption DEF UpdateDriver, DriverBodies, Days
    <2>2. /\ x \in DriverRows /\ x.id = r.id /\ x.kind = r.kind
          /\ x.statut = r.statut /\ x.active = r.active
      BY <2>1 DEF DriverRows
    <2>3. x \in Rows /\ (Agrees(r) => Agrees(x))
      BY <2>2 DEF Rows, Agrees
    <2> QED
      BY <1>3, <2>2, <2>3 DEF UpdateDriver
  <1>4. ASSUME NEW body \in CallBodies, UpdateVehicle(s, r, body)
        PROVE  \E x \in Rows : Update(s, x) /\ x.id = r.id /\ (Agrees(r) => Agrees(x))
    <2> DEFINE x == [r EXCEPT !.key = body.key, !.ptac = body.ptac, !.charge = body.charge]
    <2>1. /\ r \in VehicleRows /\ body.key \in Keys
          /\ {body.ptac, body.charge} \subseteq Weights \union {None}
      <3>1. body \in VehicleBodies /\ r \in VehicleRows
        BY <1>4, KindOfRow, KindOfBody, RegistryAssumption DEF UpdateVehicle
      <3>2. \A n \in Numbers : Number(n) \in Keys
        BY RegistryAssumption DEF Number, Keys
      <3> QED
        BY <3>1, <3>2 DEF VehicleBodies
    <2>2. /\ x \in VehicleRows /\ x.id = r.id /\ x.kind = r.kind
          /\ x.statut = r.statut /\ x.active = r.active
      BY <2>1 DEF VehicleRows
    <2>3. x \in Rows /\ (Agrees(r) => Agrees(x))
      BY <2>2 DEF Rows, Agrees
    <2> QED
      BY <1>4, <2>2, <2>3 DEF UpdateVehicle
  <1>5. ASSUME NEW statut \in CallStatuts,
               \/ ChangeClientStatus(s, r, statut) \/ ChangeDriverStatus(s, r, statut)
               \/ ChangeVehicleStatus(s, r, statut)
        PROVE  \E x \in Rows : Update(s, x) /\ x.id = r.id /\ (Agrees(r) => Agrees(x))
    <2> DEFINE x == [r EXCEPT !.statut = statut, !.active = (statut = "ACTIF")]
    <2>1. \/ r \in ClientRows /\ statut \in ClientStatuts
          \/ r \in DriverRows /\ statut \in DriverStatuts
          \/ r \in VehicleRows /\ statut \in VehicleStatuts
      BY <1>5, KindOfRow DEF ChangeClientStatus, ChangeDriverStatus, ChangeVehicleStatus
    <2>2. x \in Rows /\ x.id = r.id /\ x.statut = statut /\ x.active = (statut = "ACTIF")
      <3>1. CASE r \in ClientRows /\ statut \in ClientStatuts
        BY <3>1 DEF ClientRows, Rows
      <3>2. CASE r \in DriverRows /\ statut \in DriverStatuts
        BY <3>2 DEF DriverRows, Rows
      <3>3. CASE r \in VehicleRows /\ statut \in VehicleStatuts
        BY <3>3 DEF VehicleRows, Rows
      <3> QED
        BY <2>1, <3>1, <3>2, <3>3
    <2>3. Update(s, x)
      BY <1>5 DEF ChangeClientStatus, ChangeDriverStatus, ChangeVehicleStatus
    <2>4. Agrees(x)
      BY <2>2 DEF Agrees
    <2> QED
      BY <2>2, <2>3, <2>4
  <1>6. ASSUME NEW statut \in CallStatuts, ChangeSubcontractorStatus(s, r, statut)
        PROVE  \E x \in Rows : Update(s, x) /\ x.id = r.id /\ (Agrees(r) => Agrees(x))
    <2> DEFINE x == [r EXCEPT !.statut = statut]
    <2>1. r \in SubcontractorRows /\ statut \in SubStatuts
      BY <1>6, KindOfRow DEF ChangeSubcontractorStatus
    <2>2. x \in SubcontractorRows /\ x.id = r.id /\ x.kind = "subcontractor"
      BY <2>1 DEF SubcontractorRows
    <2> QED
      BY <1>6, <2>2 DEF ChangeSubcontractorStatus, Rows, Agrees
  <1> QED
    BY <1>1, <1>2, <1>3, <1>4, <1>5, <1>6 DEF UpdateStep

\* A driver whom driver_auto_inactivation retires.
Retired(r) == [r EXCEPT !.statut = "INACTIF", !.active = FALSE]

LEMMA RetiredIsRow ==
  ASSUME NEW r \in Rows, r.kind = "driver"
  PROVE  Retired(r) \in Rows /\ Alike(Retired(r), r) /\ Agrees(Retired(r))
  <1>1. r \in DriverRows
    BY KindOfRow
  <1>2. /\ Retired(r) \in DriverRows /\ Alike(Retired(r), r)
        /\ Retired(r).statut = "INACTIF" /\ Retired(r).active = FALSE
    BY <1>1 DEF Retired, DriverRows, DriverStatuts, Alike
  <1> QED
    BY <1>2 DEF Rows, Agrees

-----------------------------------------------------------------------------
(* The inductive invariant                                                   *)

\* The tables obey their constraints for each transaction: with the rows it has
\* written, they are as unique as the committed ones, and it holds off whoever
\* would write a row that is not apart from them.
TablesAreSound ==
    /\ Sound(rows)
    /\ \A s \in Sessions : Sound(Sees(s))
    /\ \A s, t \in Sessions : s # t => \A x \in own[s], y \in own[t] : Apart(x, y)

\* A row that an import has written holds the statut of the committed one.
ImportsKeep == \A s \in Sessions : \A x \in own[s], r \in rows : x.id = r.id => Kept(x, r)

\* An id is given once; the row that a creation is about to insert is new.
IdsAreGiven ==
    /\ \A r \in rows : r.id <= lastId
    /\ \A s \in Sessions : \A x \in own[s] : x.id <= lastId
    /\ \A s \in Sessions : draft[s] # None =>
            /\ draft[s].id <= lastId
            /\ \A r \in rows : r.id # draft[s].id
            /\ \A t \in Sessions : \A x \in own[t] : x.id # draft[s].id
            /\ \A t \in Sessions : t # s /\ draft[t] # None => draft[t].id # draft[s].id

\* Only an import under way keeps a transaction open, and a session serves one call.
OneCallEach ==
    \A s \in Sessions : /\ own[s] # {} => apply[s] # NoApply /\ apply[s].step = "rows"
                        /\ draft[s] # None => own[s] = {} /\ apply[s] = NoApply

AllAgree ==
    /\ \A r \in rows : Agrees(r)
    /\ \A s \in Sessions : \A x \in own[s] : Agrees(x)
    /\ \A s \in Sessions : draft[s] # None => Agrees(draft[s])

TablesAreFinite == IsFiniteSet(rows) /\ \A s \in Sessions : IsFiniteSet(own[s])

RowsInv == RegistryTypeOK /\ TablesAreSound /\ ImportsKeep /\ IdsAreGiven /\ AllAgree /\ TablesAreFinite
RegistryInv == RowsInv /\ OneCallEach


-----------------------------------------------------------------------------
(* Steps of the tables                                                       *)

LEMMA SeesNothingElse == \A s \in Sessions : own[s] = {} => Sees(s) = rows
  BY DEF Sees, Written, Ids

\* One statement and its commit.
LEMMA CommitKeepsTables ==
  ASSUME RowsInv, NEW s \in Sessions, own[s] = {}, NEW x \in Rows, Agrees(x), Commit(s, x)
  PROVE  /\ rows' \subseteq Rows /\ TablesAreSound' /\ ImportsKeep' /\ TablesAreFinite'
         /\ \A r \in rows' : r = x \/ r \in rows
         /\ UNCHANGED own
  <1>1. rows' = Written(rows, {x}) /\ own' = own /\ ~ MustWait(s, x) /\ ~ Refused(s, x)
    BY DEF Commit
  <1>2. \A y \in rows : ~ Clash(x, y)
    BY <1>1, SeesNothingElse DEF Refused
  <1>3. \A t \in Sessions : t # s => x.id \notin Ids(own[t]) /\ \A y \in own[t] : ~ Clash(x, y)
    <2>1. \A t \in Sessions : t # s => own[t] \subseteq OthersOf(s)
      BY DEF OthersOf
    <2> QED
      BY <1>1, <2>1 DEF MustWait, Locked, Ids
  <1>4. Sound(rows')
    BY <1>1, <1>2, SoundAfterWrite DEF RowsInv, TablesAreSound
  <1>5. ASSUME NEW t \in Sessions PROVE Sound(Sees(t)')
    <2>1. CASE t = s
      <3>1. Sees(t)' = rows'
        BY <1>1, <2>1 DEF Sees, Written, Ids
      <3> QED
        BY <1>4, <3>1
    <2>2. CASE t # s
      <3>1. Sees(t)' = Written(Sees(t), {x})
        <4>1. Sees(t)' = Written(Written(rows, {x}), own[t])
          BY <1>1 DEF Sees
        <4>2. Written(Written(rows, {x}), own[t]) = Written(Written(rows, own[t]), {x})
          BY <1>3, <2>2, WritesCommute
        <4> QED
          BY <4>1, <4>2 DEF Sees
      <3>2. \A y \in Sees(t) : ~ Clash(x, y)
        BY <1>2, <1>3, <2>2 DEF Sees, Written
      <3> QED
        BY <3>1, <3>2, SoundAfterWrite DEF RowsInv, TablesAreSound
    <2> QED
      BY <2>1, <2>2
  <1>6. TablesAreSound'
    BY <1>1, <1>4, <1>5 DEF RowsInv, TablesAreSound
  <1>7. \A r \in rows' : r = x \/ r \in rows
    BY <1>1 DEF Written
  <1>8. ImportsKeep'
    BY <1>1, <1>3, <1>7 DEF RowsInv, ImportsKeep, Ids
  <1>9. TablesAreFinite'
    BY <1>1, WrittenIsFinite, FS_Singleton DEF RowsInv, TablesAreFinite
  <1>10. rows' \subseteq Rows
    BY <1>7 DEF RowsInv, RegistryTypeOK
  <1> QED
    BY <1>1, <1>6, <1>7, <1>8, <1>9, <1>10

LEMMA InsertKeepsRows ==
  ASSUME RegistryInv, NEW s \in Sessions, InsertNew(s)
  PROVE  RowsInv'
  <1> DEFINE x == draft[s]
  <1>1. /\ x # None /\ own[s] = {} /\ x \in Rows /\ Agrees(x) /\ x.id <= lastId /\ Commit(s, x)
        /\ draft' = [draft EXCEPT ![s] = None] /\ UNCHANGED <<lastId, registryCalls, registryDay>>
    BY DEF InsertNew, RegistryInv, RowsInv, OneCallEach, RegistryTypeOK, AllAgree, IdsAreGiven
  <1>2. \A t \in Sessions : draft'[t] = IF t = s THEN None ELSE draft[t]
    BY <1>1 DEF RegistryInv, RowsInv, RegistryTypeOK
  <1>3. \A t \in Sessions : t # s /\ draft[t] # None => draft[t].id # x.id
    BY <1>1 DEF RegistryInv, RowsInv, IdsAreGiven
  <1> HIDE DEF x
  <1>4. /\ rows' \subseteq Rows /\ TablesAreSound' /\ ImportsKeep' /\ TablesAreFinite'
        /\ \A r \in rows' : r = x \/ r \in rows
        /\ UNCHANGED own
    BY <1>1, CommitKeepsTables DEF RegistryInv
  <1>5. RegistryTypeOK'
    BY <1>1, <1>2, <1>4 DEF RegistryInv, RowsInv, RegistryTypeOK
  <1>6. IdsAreGiven'
    BY <1>1, <1>2, <1>3, <1>4 DEF RegistryInv, RowsInv, IdsAreGiven
  <1>7. AllAgree'
    BY <1>1, <1>2, <1>4 DEF RegistryInv, RowsInv, AllAgree
  <1> QED
    BY <1>4, <1>5, <1>6, <1>7 DEF RowsInv

LEMMA UpdateKeepsRows ==
  ASSUME RowsInv, NEW s \in Sessions, NEW r \in rows, UpdateStep(s, r)
  PROVE  RowsInv' /\ UNCHANGED <<own, draft>>
  <1>1. r \in Rows /\ Agrees(r) /\ r.id <= lastId
    BY DEF RowsInv, RegistryTypeOK, AllAgree, IdsAreGiven
  <1>2. PICK x \in Rows : Update(s, x) /\ x.id = r.id /\ (Agrees(r) => Agrees(x))
    BY <1>1, UpdatesWriteRows
  <1>3. /\ own[s] = {} /\ Commit(s, x) /\ Agrees(x)
        /\ UNCHANGED <<draft, lastId, registryDay>> /\ registryCalls' = registryCalls + 1
    BY <1>1, <1>2 DEF Update, NewRegistryCall
  <1>4. /\ rows' \subseteq Rows /\ TablesAreSound' /\ ImportsKeep' /\ TablesAreFinite'
        /\ \A y \in rows' : y = x \/ y \in rows
        /\ UNCHANGED own
    BY <1>3, CommitKeepsTables
  <1>5. RegistryTypeOK'
    BY <1>3, <1>4 DEF RowsInv, RegistryTypeOK
  <1>6. IdsAreGiven'
    BY <1>1, <1>2, <1>3, <1>4 DEF RowsInv, IdsAreGiven
  <1>7. AllAgree'
    BY <1>3, <1>4 DEF RowsInv, AllAgree
  <1> QED
    BY <1>3, <1>4, <1>5, <1>6, <1>7 DEF RowsInv

\* A creation has found its key free and prepares its row.
LEMMA CheckKeepsRows ==
  ASSUME RowsInv, NEW s \in Sessions, NEW key \in Keys, NEW body \in Bodies, CheckNew(s, key, body)
  PROVE  RowsInv'
  <1> DEFINE r == NewRow(lastId + 1, key, body)
  <1>1. lastId \in Nat
    BY DEF RowsInv, RegistryTypeOK
  <1>2. r \in Rows /\ r.id = lastId + 1 /\ Agrees(r)
    BY <1>1, NewRowIsRow
  <1>3. /\ draft' = [draft EXCEPT ![s] = r] /\ lastId' = lastId + 1
        /\ UNCHANGED <<rows, own, registryDay>> /\ registryCalls' = registryCalls + 1
    BY DEF CheckNew, NewRegistryCall
  <1> HIDE DEF r
  <1>4. \A t \in Sessions : draft'[t] = IF t = s THEN r ELSE draft[t]
    BY <1>3 DEF RowsInv, RegistryTypeOK
  <1>5. RegistryTypeOK'
    BY <1>1, <1>2, <1>3 DEF RowsInv, RegistryTypeOK
  <1>6. IdsAreGiven'
    <2>1. \A x \in Rows : x.id \in Nat
      BY KindOfRow
    <2>2. /\ \A x \in rows : x.id <= lastId' /\ x.id # r.id
          /\ \A t \in Sessions : \A x \in own[t] : x.id <= lastId' /\ x.id # r.id
          /\ \A t \in Sessions : draft[t] # None => draft[t].id <= lastId' /\ draft[t].id # r.id
      BY <1>1, <1>2, <1>3, <2>1 DEF RowsInv, RegistryTypeOK, IdsAreGiven
    <2> QED
      BY <1>1, <1>2, <1>3, <1>4, <2>2 DEF RowsInv, IdsAreGiven
  <1>7. AllAgree'
    BY <1>2, <1>3, <1>4 DEF RowsInv, AllAgree
  <1>8. TablesAreSound' /\ ImportsKeep' /\ TablesAreFinite'
    BY <1>3 DEF RowsInv, TablesAreSound, ImportsKeep, TablesAreFinite, Sees
  <1> QED
    BY <1>5, <1>6, <1>7, <1>8 DEF RowsInv

\* The key of a new client or driver is the next number, of whatever rows there are.
LEMMA CreationKeepsRows ==
  ASSUME RegistryInv, NEW s \in Sessions, CreationStep(s)
  PROVE  RowsInv'
  <1> USE DEF RegistryInv
  <1>1. \A n \in Nat : Number(n) \in Keys
    BY DEF Number, Keys
  <1>2. ASSUME NEW body \in CallBodies, CreateClient(s, body) PROVE RowsInv'
    <2>1. body \in Bodies /\ body.key \in Keys \union {None}
      BY KindOfBody, RegistryAssumption
    <2>2. Cardinality(RowsOfKind("client")) \in Nat
      <3>1. IsFiniteSet(RowsOfKind("client"))
        BY FS_Subset DEF RowsOfKind, RowsInv, TablesAreFinite
      <3> QED
        BY <3>1, FS_CardinalityType
    <2>3. Number(Cardinality(RowsOfKind("client")) + 1) \in Keys
      BY <1>1, <2>2
    <2> QED
      BY <1>2, <2>1, <2>3, CheckKeepsRows DEF CreateClient
  <1>3. ASSUME NEW body \in CallBodies, CreateDriver(s, body) PROVE RowsInv'
    <2> DEFINE drivers == {x \in RowsOfKind("driver") : x.key[1] = "number"}
               last    == [x \in drivers |-> x.key[2]]
               numbers == {x.key[2] : x \in drivers}
    <2>1. body \in Bodies /\ body.key \in Keys \union {None}
      BY KindOfBody, RegistryAssumption
    <2>2. drivers \subseteq Rows /\ IsFiniteSet(drivers)
      <3>1. drivers \subseteq rows
        BY DEF RowsOfKind
      <3> QED
        BY <3>1, FS_Subset DEF RowsInv, TablesAreFinite, RegistryTypeOK
    <2>3. numbers \subseteq Nat
      BY <2>2, KindOfRow DEF Keys
    <2>4. IsFiniteSet(numbers)
      <3>1. numbers = {last[x] : x \in drivers} /\ DOMAIN last = drivers
        OBVIOUS
      <3> HIDE DEF last, drivers, numbers
      <3> QED
        BY <2>2, <3>1, ImageIsFinite
    <2>5. Max(numbers \union {0}) \in Nat
      <3>1. /\ numbers \union {0} \in SUBSET Nat /\ IsFiniteSet(numbers \union {0})
            /\ numbers \union {0} # {}
        <4> HIDE DEF numbers
        <4> QED
          BY <2>3, <2>4, FS_AddElement
      <3> HIDE DEF numbers
      <3> QED
        BY <3>1, GreatestNatural
    <2>6. Number(Max(numbers \union {0}) + 1) \in Keys
      BY <1>1, <2>5
    <2> QED
      BY <1>3, <2>1, <2>6, CheckKeepsRows DEF CreateDriver
  <1>4. ASSUME NEW body \in CallBodies, CreateSubcontractor(s, body) \/ CreateVehicle(s, body)
        PROVE  RowsInv'
    <2>1. body \in Bodies /\ body.key \in Keys
      <3>1. \A n \in Numbers : Number(n) \in Keys
        BY <1>1, RegistryAssumption
      <3> QED
        BY <1>4, <3>1, KindOfBody, RegistryAssumption
        DEF CreateSubcontractor, CreateVehicle, SubcontractorBodies, VehicleBodies
    <2> QED
      BY <1>4, <2>1, CheckKeepsRows DEF CreateSubcontractor, CreateVehicle
  <1>5. CASE InsertNew(s)
    BY <1>5, InsertKeepsRows
  <1>6. CASE CreationFails(s)
    <2>1. /\ \A t \in Sessions : draft'[t] = IF t = s THEN None ELSE draft[t]
          /\ draft' \in [Sessions -> Rows \union {None}]
          /\ UNCHANGED <<rows, own, lastId, registryCalls, registryDay>>
      BY <1>6 DEF CreationFails, RowsInv, RegistryTypeOK
    <2> QED
      BY <2>1
      DEF RowsInv, RegistryTypeOK, TablesAreSound, ImportsKeep, IdsAreGiven, AllAgree,
          TablesAreFinite, Sees
  <1> QED
    BY <1>2, <1>3, <1>4, <1>5, <1>6 DEF CreationStep


\* driver_auto_inactivation writes rows that no open transaction has written.
LEMMA InactivationKeepsRows ==
  ASSUME RowsInv, InactivateDrivers
  PROVE  RowsInv' /\ UNCHANGED <<own, draft>>
  <1> DEFINE left == {r \in rows : HasLeft(r)}
  <1>1. /\ rows' = Written(rows, {Retired(r) : r \in left})
        /\ \A s \in Sessions : \A x \in own[s] : \A r \in left : x.id # r.id
        /\ UNCHANGED <<own, draft, lastId, registryCalls, registryDay>>
    BY DEF InactivateDrivers, Retired, Ids
  <1>2. \A r \in left : /\ r \in rows /\ r \in Rows /\ r.kind = "driver"
                        /\ Retired(r) \in Rows /\ Alike(Retired(r), r) /\ Agrees(Retired(r))
    BY RetiredIsRow DEF HasLeft, RowsInv, RegistryTypeOK
  <1>3. \A x \in rows' : \/ x \in rows /\ \A r \in left : x.id # r.id
                         \/ \E r \in left : x = Retired(r)
    BY <1>1, <1>2 DEF Written, Ids, Alike
  <1> HIDE DEF left
  <1>4. \A x \in rows' : \E r \in rows : Alike(x, r)
    BY <1>2, <1>3 DEF Alike
  <1>5. \A r, x \in rows : r.id = x.id => r = x
    BY DEF RowsInv, TablesAreSound, Sound, Apart
  <1>6. \A x, y \in rows' : x.id = y.id => x = y
    BY <1>2, <1>3, <1>5 DEF Alike
  <1>7. Sound(rows')
    BY <1>4, <1>6, SoundAfterMap DEF RowsInv, TablesAreSound
  <1>8. ASSUME NEW s \in Sessions PROVE Sound(Sees(s)')
    <2>1. Sees(s)' = Written(rows', own[s])
      BY <1>1 DEF Sees
    <2>2. \A x \in Written(rows', own[s]) : \E r \in Sees(s) : Alike(x, r)
      <3> SUFFICES ASSUME NEW x \in Written(rows', own[s]) PROVE \E r \in Sees(s) : Alike(x, r)
        OBVIOUS
      <3>1. CASE x \in own[s]
        BY <3>1 DEF Sees, Written, Alike
      <3>2. CASE x \in rows' /\ x.id \notin Ids(own[s])
        <4>1. PICK r \in rows : Alike(x, r)
          BY <1>4, <3>2
        <4> QED
          BY <3>2, <4>1 DEF Sees, Written, Alike
      <3> QED
        BY <3>1, <3>2 DEF Written
    <2>3. \A x, y \in own[s] : x.id = y.id => x = y
      BY DEF RowsInv, TablesAreSound, Sound, Apart, Sees, Written
    <2>4. \A x, y \in Written(rows', own[s]) : x.id = y.id => x = y
      BY <1>6, <2>3 DEF Written, Ids
    <2>5. Sound(Written(rows', own[s]))
      BY <2>2, <2>4, SoundAfterMap DEF RowsInv, TablesAreSound
    <2> QED
      BY <2>1, <2>5
  <1>9. TablesAreSound'
    BY <1>1, <1>7, <1>8 DEF RowsInv, TablesAreSound
  <1>10. ImportsKeep'
    BY <1>1, <1>2, <1>3 DEF RowsInv, ImportsKeep, Alike
  <1>11. IdsAreGiven'
    BY <1>1, <1>4 DEF RowsInv, IdsAreGiven, Alike
  <1>12. AllAgree'
    BY <1>1, <1>2, <1>3 DEF RowsInv, AllAgree
  <1>13. RegistryTypeOK'
    BY <1>1, <1>2, <1>3 DEF RowsInv, RegistryTypeOK
  <1>14. TablesAreFinite'
    <2> DEFINE f == [r \in left |-> Retired(r)]
    <2>1. IsFiniteSet(left)
      BY <1>2, FS_Subset DEF RowsInv, TablesAreFinite
    <2>2. {Retired(r) : r \in left} = {f[r] : r \in left} /\ DOMAIN f = left
      OBVIOUS
    <2> HIDE DEF f
    <2>3. IsFiniteSet({Retired(r) : r \in left})
      BY <2>1, <2>2, ImageIsFinite
    <2> QED
      BY <1>1, <2>3, WrittenIsFinite DEF RowsInv, TablesAreFinite, left
  <1> QED
    BY <1>1, <1>9, <1>10, <1>11, <1>12, <1>13, <1>14 DEF RowsInv

LEMMA RegistryStepKeepsRows == RegistryInv /\ RegistryStep => RowsInv'
  <1> SUFFICES ASSUME RegistryInv, RegistryStep PROVE RowsInv'
    OBVIOUS
  <1>1. ASSUME NEW s \in Sessions, CreationStep(s) PROVE RowsInv'
    BY <1>1, CreationKeepsRows
  <1>2. ASSUME NEW s \in Sessions, NEW r \in rows, UpdateStep(s, r) PROVE RowsInv'
    BY <1>2, UpdateKeepsRows DEF RegistryInv
  <1>3. CASE InactivateDrivers
    BY <1>3, InactivationKeepsRows DEF RegistryInv
  <1>4. CASE NextRegistryDay
    <2>1. registryDay' \in Days /\ UNCHANGED <<rows, own, draft, lastId, registryCalls>>
      BY <1>4, RegistryAssumption DEF NextRegistryDay, Days, RegistryInv, RowsInv, RegistryTypeOK
    <2> QED
      BY <2>1
      DEF RegistryInv, RowsInv, RegistryTypeOK, TablesAreSound, ImportsKeep, IdsAreGiven, AllAgree,
          TablesAreFinite, Sees
  <1> QED
    BY <1>1, <1>2, <1>3, <1>4 DEF RegistryStep

-----------------------------------------------------------------------------
(* Steps of the imports                                                      *)

JobsType == jobs \in Seq(Jobs) /\ apply \in [Sessions -> Applies]

LEMMA ApplyShape ==
  ASSUME JobsType, NEW s \in Sessions, apply[s] # NoApply
  PROVE  /\ apply[s] \in [step : {"rows", "stored"}, job : Nat,
                          rest : Seq(Bodies \union {Invalid, Dated}),
                          inserted : Nat, updated : Nat, skipped : Nat, broken : BOOLEAN]
         /\ DOMAIN apply = Sessions
  BY DEF JobsType, Applies

\* The row that the upsert writes is a new one, or one that the import sees.
LEMMA UpsertedIsRow ==
  ASSUME RowsInv, JobsType, NEW s \in Sessions, Upserting(s)
  PROVE  LET x == Upserted(s) IN
         /\ x \in Rows /\ Agrees(x)
         /\ x.id = lastId + 1 \/ \E r \in Sees(s) : Kept(x, r)
  <1> DEFINE body == Head(apply[s].rest)
  <1>1. body \in Bodies /\ lastId \in Nat
    BY DEF Upserting, RowsInv, RegistryTypeOK
  <1> HIDE DEF body
  <1>2. \A r \in Sees(s) : r \in Rows /\ Agrees(r)
    <2>1. \A r \in Sees(s) : r \in rows \/ r \in own[s]
      BY DEF Sees, Written
    <2>2. \A r \in own[s] : r \in Rows /\ Agrees(r)
      BY DEF RowsInv, RegistryTypeOK, AllAgree
    <2>3. \A r \in rows : r \in Rows /\ Agrees(r)
      BY DEF RowsInv, RegistryTypeOK, AllAgree
    <2> QED
      BY <2>1, <2>2, <2>3
  <1>3. CASE Target(s, body) = {}
    <2>1. ImportKey(body) \in Keys
      BY <1>1, KindOfBody DEF ImportKey, Keys
    <2>2. Upserted(s) = NewRow(lastId + 1, ImportKey(body), body)
      BY <1>3 DEF Upserted, body
    <2> QED
      BY <1>1, <2>1, <2>2, NewRowIsRow
  <1>4. CASE Target(s, body) # {}
    <2> DEFINE r == CHOOSE r \in Target(s, body) : TRUE
    <2>1. r \in Target(s, body)
      BY <1>4
    <2>2. Upserted(s) = Merged(r, body)
      BY <1>4 DEF Upserted, body
    <2> HIDE DEF r
    <2>3. r \in Sees(s) /\ r.kind = body.kind
      BY <2>1 DEF Target
    <2> QED
      BY <1>1, <1>2, <2>2, <2>3, MergedIsRow
  <1> QED
    BY <1>3, <1>4

LEMMA UpsertKeepsRows ==
  ASSUME RowsInv, JobsType, NEW s \in Sessions, Upsert(s)
  PROVE  RowsInv'
  <1> DEFINE x == Upserted(s)
  <1>1. /\ Upserting(s) /\ ~ Waiting(s) /\ ~ Refused(s, x)
        /\ own' = [own EXCEPT ![s] = Written(@, {x})] /\ lastId' = lastId + 1
        /\ UNCHANGED <<rows, draft, registryCalls, registryDay>>
    BY DEF Upsert
  <1>2. /\ x \in Rows /\ Agrees(x)
        /\ x.id = lastId + 1 \/ \E r \in Sees(s) : Kept(x, r)
    BY <1>1, UpsertedIsRow
  <1>3. \A t \in Sessions : t # s => \A y \in own[t] : y.id # x.id /\ ~ Clash(y, x)
    BY <1>1 DEF Waiting, WaitsFor
  <1>4. \A y \in Sees(s) : ~ Clash(x, y)
    BY <1>1 DEF Refused
  <1> HIDE DEF x
  <1>5. /\ \A t \in Sessions : own'[t] = IF t = s THEN Written(own[s], {x}) ELSE own[t]
        /\ DOMAIN own' = Sessions /\ lastId \in Nat
    BY <1>1 DEF RowsInv, RegistryTypeOK
  <1>6. /\ \A y \in Written(own[s], {x}) : y = x \/ y \in own[s]
        /\ \A r \in rows : r \in Rows
        /\ \A t \in Sessions : \A y \in own[t] : y \in Rows
    BY DEF Written, RowsInv, RegistryTypeOK
  <1>7. \A r \in Rows : r.id \in Nat
    BY KindOfRow
  <1>8. TablesAreSound'
    <2>1. Sound(rows')
      BY <1>1 DEF RowsInv, TablesAreSound
    <2>2. ASSUME NEW t \in Sessions PROVE Sound(Sees(t)')
      <3>1. CASE t = s
        <4>1. Sees(t)' = Written(Sees(s), {x})
          <5>1. Sees(t)' = Written(rows, Written(own[s], {x}))
            BY <1>1, <1>5, <3>1 DEF Sees
          <5>2. Written(rows, Written(own[s], {x})) = Written(Written(rows, own[s]), {x})
            BY WriteAfter
          <5> QED
            BY <5>1, <5>2 DEF Sees
        <4> QED
          BY <1>4, <4>1, SoundAfterWrite DEF RowsInv, TablesAreSound
      <3>2. CASE t # s
        BY <1>1, <1>5, <3>2 DEF Sees, RowsInv, TablesAreSound
      <3> QED
        BY <3>1, <3>2
    <2>3. \A t \in Sessions : t # s => \A y \in own[t] : Apart(y, x) /\ Apart(x, y)
      BY <1>3, ApartIsSymmetric DEF Clash, Apart
    <2>4. ASSUME NEW t \in Sessions, NEW u \in Sessions, t # u, NEW y \in own'[t], NEW z \in own'[u]
          PROVE  Apart(y, z)
      BY <1>5, <1>6, <2>3, <2>4 DEF RowsInv, TablesAreSound
    <2> QED
      BY <2>1, <2>2, <2>4 DEF TablesAreSound
  <1>9. \A r \in rows : x.id = r.id => Kept(x, r)
    <2> SUFFICES ASSUME NEW r \in rows, x.id = r.id PROVE Kept(x, r)
      OBVIOUS
    <2>1. r.id <= lastId /\ r.id \in Nat
      BY <1>6, <1>7 DEF RowsInv, IdsAreGiven
    <2>2. PICK y \in Sees(s) : Kept(x, y)
      BY <1>2, <1>5, <2>1
    <2>3. CASE y \in own[s]
      BY <2>2, <2>3 DEF Kept, RowsInv, ImportsKeep
    <2>4. CASE y \in rows
      BY <2>2, <2>4 DEF Kept, RowsInv, TablesAreSound, Sound, Apart
    <2> QED
      BY <2>3, <2>4 DEF Sees, Written
  <1>0. \A t \in Sessions : \A y \in own'[t] : y \in own[t] \/ y = x
    BY <1>5, <1>6
  <1>10. ImportsKeep'
    <2> SUFFICES ASSUME NEW t \in Sessions, NEW y \in own'[t], NEW r \in rows, y.id = r.id
                 PROVE  Kept(y, r)
      BY <1>1 DEF ImportsKeep
    <2>1. y \in own[t] \/ y = x
      BY <1>0
    <2> QED
      BY <1>9, <2>1 DEF RowsInv, ImportsKeep
  <1>11. IdsAreGiven'
    <2>1. x.id <= lastId' /\ x.id \in Nat
      <3>1. \A y \in Sees(s) : y.id <= lastId /\ y.id \in Nat
        BY <1>6, <1>7 DEF Sees, Written, RowsInv, IdsAreGiven
      <3> QED
        BY <1>1, <1>2, <1>5, <1>7, <3>1 DEF Kept
    <2>2. \A t \in Sessions : draft[t] # None => x.id # draft[t].id
      <3> SUFFICES ASSUME NEW t \in Sessions, draft[t] # None PROVE x.id # draft[t].id
        OBVIOUS
      <3>1. draft[t].id <= lastId /\ draft[t].id \in Nat
        BY <1>7 DEF RowsInv, IdsAreGiven, RegistryTypeOK
      <3>2. \A y \in Sees(s) : y.id # draft[t].id
        BY DEF Sees, Written, RowsInv, IdsAreGiven
      <3> QED
        BY <1>2, <1>5, <3>1, <3>2 DEF Kept
    <2>3. \A t \in Sessions : draft[t] # None => draft[t].id <= lastId' /\ draft[t].id \in Nat
      BY <1>1, <1>5, <1>7 DEF RowsInv, IdsAreGiven, RegistryTypeOK
    <2>4. /\ \A r \in rows : r.id <= lastId'
          /\ \A t \in Sessions : \A y \in own[t] : y.id <= lastId'
      BY <1>1, <1>5, <1>6, <1>7 DEF RowsInv, IdsAreGiven
    <2>5. \A t \in Sessions : \A y \in own'[t] : y.id <= lastId'
      BY <1>0, <2>1, <2>4
    <2>6. \A t, u \in Sessions : draft[t] # None => \A y \in own'[u] : y.id # draft[t].id
      BY <1>0, <2>2 DEF RowsInv, IdsAreGiven
    <2> QED
      BY <1>1, <2>3, <2>4, <2>5, <2>6 DEF RowsInv, IdsAreGiven
  <1>12. AllAgree'
    <2>1. \A t \in Sessions : \A y \in own'[t] : Agrees(y)
      BY <1>0, <1>2 DEF RowsInv, AllAgree
    <2> QED
      BY <1>1, <2>1 DEF RowsInv, AllAgree
  <1>13. RegistryTypeOK'
    <2>1. own' \in [Sessions -> SUBSET Rows]
      BY <1>1, <1>2, <1>6 DEF RowsInv, RegistryTypeOK
    <2>2. lastId' \in Nat /\ registryCalls' \in Nat
      BY <1>1, <1>5 DEF RowsInv, RegistryTypeOK
    <2> QED
      BY <1>1, <2>1, <2>2 DEF RowsInv, RegistryTypeOK
  <1>14. TablesAreFinite'
    BY <1>1, <1>5, WrittenIsFinite, FS_Singleton DEF RowsInv, TablesAreFinite
  <1> QED
    BY <1>8, <1>10, <1>11, <1>12, <1>13, <1>14 DEF RowsInv


\* A transaction is rolled back.
LEMMA RollbackKeepsRows ==
  ASSUME RowsInv, NEW s \in Sessions, own' = [own EXCEPT ![s] = {}],
         UNCHANGED <<rows, draft, lastId, registryCalls, registryDay>>
  PROVE  RowsInv'
  <1>1. /\ \A t \in Sessions : own'[t] = IF t = s THEN {} ELSE own[t]
        /\ own' \in [Sessions -> SUBSET Rows]
    BY DEF RowsInv, RegistryTypeOK
  <1>2. \A t \in Sessions : Sees(t)' = IF t = s THEN rows ELSE Sees(t)
    BY <1>1 DEF Sees, Written, Ids
  <1>3. TablesAreSound'
    <2>1. \A t \in Sessions : Sound(Sees(t)')
      BY <1>2 DEF RowsInv, TablesAreSound
    <2> QED
      BY <1>1, <2>1 DEF RowsInv, TablesAreSound
  <1>4. TablesAreFinite'
    BY <1>1, FS_EmptySet DEF RowsInv, TablesAreFinite
  <1>5. ImportsKeep' /\ IdsAreGiven'
    BY <1>1 DEF RowsInv, ImportsKeep, IdsAreGiven
  <1>6. AllAgree' /\ RegistryTypeOK'
    BY <1>1 DEF RowsInv, AllAgree, RegistryTypeOK
  <1> QED
    BY <1>3, <1>4, <1>5, <1>6 DEF RowsInv

\* The commit after the loop shows all rows of the import at once.
LEMMA ImportCommitKeepsRows ==
  ASSUME RowsInv, NEW s \in Sessions, rows' = Sees(s), own' = [own EXCEPT ![s] = {}],
         UNCHANGED <<draft, lastId, registryCalls, registryDay>>
  PROVE  RowsInv'
  <1>1. /\ \A t \in Sessions : own'[t] = IF t = s THEN {} ELSE own[t]
        /\ own' \in [Sessions -> SUBSET Rows]
    BY DEF RowsInv, RegistryTypeOK
  <1>2. \A r \in rows' : r \in own[s] \/ r \in rows
    BY DEF Sees, Written
  <1>3. TablesAreSound'
    <2>1. Sound(rows')
      BY DEF RowsInv, TablesAreSound
    <2>2. ASSUME NEW t \in Sessions PROVE Sound(Sees(t)')
      <3>1. CASE t = s
        <4>1. Sees(t)' = rows'
          BY <1>1, <3>1 DEF Sees, Written, Ids
        <4> QED
          BY <2>1, <4>1
      <3>2. CASE t # s
        <4>1. Sees(t)' = Written(Written(rows, own[s]), own[t])
          BY <1>1, <3>2 DEF Sees
        <4>2. /\ Sound(Written(rows, own[s])) /\ Sound(Written(rows, own[t]))
              /\ \A x \in own[s], y \in own[t] : Apart(x, y)
          BY <3>2 DEF RowsInv, TablesAreSound, Sees
        <4>3. Sound(Written(Written(rows, own[s]), own[t]))
          BY <4>2, SoundAfterBoth
        <4> QED
          BY <4>1, <4>3
      <3> QED
        BY <3>1, <3>2
    <2>3. \A t, u \in Sessions : t # u => \A x \in own'[t], y \in own'[u] : Apart(x, y)
      BY <1>1 DEF RowsInv, TablesAreSound
    <2> QED
      BY <2>1, <2>2, <2>3 DEF TablesAreSound
  <1>4. ImportsKeep'
    <2> SUFFICES ASSUME NEW t \in Sessions, NEW x \in own'[t], NEW r \in rows', x.id = r.id
                 PROVE  Kept(x, r)
      BY DEF ImportsKeep
    <2>1. t # s /\ x \in own[t]
      BY <1>1
    <2>2. r \notin own[s]
      BY <2>1 DEF RowsInv, TablesAreSound, Apart
    <2> QED
      BY <1>2, <2>1, <2>2 DEF RowsInv, ImportsKeep
  <1>5. IdsAreGiven'
    BY <1>1, <1>2 DEF RowsInv, IdsAreGiven
  <1>6. AllAgree'
    BY <1>1, <1>2 DEF RowsInv, AllAgree
  <1>7. RegistryTypeOK'
    BY <1>1, <1>2 DEF RowsInv, RegistryTypeOK
  <1>8. TablesAreFinite'
    BY <1>1, WrittenIsFinite, FS_EmptySet DEF RowsInv, TablesAreFinite, Sees
  <1> QED
    BY <1>3, <1>4, <1>5, <1>6, <1>7, <1>8 DEF RowsInv

LEMMA ApplyStepKeepsRows ==
  ASSUME RegistryInv, JobsType, NEW s \in Sessions, ApplyStep(s)
  PROVE  RowsInv'
  <1> USE DEF RegistryInv
  <1>1. CASE Upsert(s)
    BY <1>1, UpsertKeepsRows
  <1>2. CASE RefuseRow(s) \/ ApplyStops(s)
    BY <1>2, RollbackKeepsRows DEF RefuseRow, ApplyStops
  <1>3. CASE ApplyCommit(s)
    BY <1>3, ImportCommitKeepsRows DEF ApplyCommit, Sees
  <1>4. CASE (\E j \in DOMAIN jobs : ApplyBegin(s, j)) \/ SkipRow(s) \/ ApplyFinish(s)
    <2>1. UNCHANGED <<rows, own, draft, lastId, registryDay>> /\ registryCalls' \in Nat
      BY <1>4
      DEF ApplyBegin, SkipRow, ApplyFinish, registryVars, NewRegistryCall, RowsInv, RegistryTypeOK
    <2> QED
      BY <2>1
      DEF RowsInv, RegistryTypeOK, TablesAreSound, ImportsKeep, IdsAreGiven, AllAgree,
          TablesAreFinite, Sees
  <1> QED
    BY <1>1, <1>2, <1>3, <1>4 DEF ApplyStep

-----------------------------------------------------------------------------
(* Jobs and their applications                                               *)

JobsInv == JobsType /\ \A s \in Sessions : apply[s] # NoApply => apply[s].job \in DOMAIN jobs

\* A job is written, and no other changes.
LEMMA JobWritten ==
  ASSUME JobsInv, NEW j \in DOMAIN jobs, NEW job \in Jobs, jobs' = [jobs EXCEPT ![j] = job]
  PROVE  jobs' \in Seq(Jobs) /\ DOMAIN jobs' = DOMAIN jobs
  BY DEF JobsInv, JobsType

LEMMA JobsInvStep == JobsInv /\ [Next]_vars => JobsInv'
  <1> SUFFICES ASSUME JobsInv, [Next]_vars PROVE JobsInv'
    OBVIOUS
  <1> DEFINE Lines == Bodies \union {Invalid, Dated}
             Calls == [step : {"rows", "stored"}, job : Nat, rest : Seq(Lines),
                       inserted : Nat, updated : Nat, skipped : Nat, broken : BOOLEAN]
  <1>1. ASSUME NEW s \in Sessions, NEW call \in Calls, apply' = [apply EXCEPT ![s] = call],
               call.job \in DOMAIN jobs, UNCHANGED jobs
        PROVE  JobsInv'
    BY <1>1 DEF JobsInv, JobsType, Applies
  <1>2. ASSUME NEW s \in Sessions, apply' = [apply EXCEPT ![s] = NoApply],
               jobs' \in Seq(Jobs), DOMAIN jobs' = DOMAIN jobs
        PROVE  JobsInv'
    BY <1>2 DEF JobsInv, JobsType, Applies
  <1>3. ASSUME NEW s \in Sessions, NEW j \in DOMAIN jobs, ApplyBegin(s, j) PROVE JobsInv'
    <2> DEFINE call == [step |-> "rows", job |-> j, rest |-> jobs[j].file, inserted |-> 0,
                        updated |-> 0, skipped |-> 0, broken |-> FALSE]
    <2>1. jobs[j] \in Jobs /\ j \in Nat
      BY DEF JobsInv, JobsType
    <2>2. jobs[j].file \in Seq(Lines)
      BY <2>1, ImportsAssumption DEF Jobs
    <2>3. call \in Calls /\ call.job = j
      BY <2>1, <2>2
    <2>4. apply' = [apply EXCEPT ![s] = call] /\ UNCHANGED jobs
      BY <1>3 DEF ApplyBegin
    <2> HIDE DEF call, Calls
    <2> QED
      BY <1>1, <2>3, <2>4
  <1>4. ASSUME NEW s \in Sessions, SkipRow(s) \/ Upsert(s) \/ RefuseRow(s) \/ ApplyCommit(s)
        PROVE  JobsInv'
    <2> DEFINE a == apply[s]
    <2>1. a # NoApply
      BY <1>4 DEF SkipRow, Upsert, RefuseRow, ApplyCommit, Upserting, AtRow, NoApply
    <2>2. a \in Calls /\ a.job \in DOMAIN jobs
      BY <2>1, ApplyShape DEF JobsInv
    <2>3. UNCHANGED jobs
      BY <1>4 DEF SkipRow, Upsert, RefuseRow, ApplyCommit
    <2>4. ASSUME a.rest # << >> PROVE Tail(a.rest) \in Seq(Lines)
      BY <2>2, <2>4
    <2>5. ASSUME NEW field, AtRow(s), Counted(s, field) PROVE JobsInv'
      <3> DEFINE call == [a EXCEPT !.rest = Tail(@),
                                   !.inserted = IF field = "inserted" THEN @ + 1 ELSE @,
                                   !.updated = IF field = "updated" THEN @ + 1 ELSE @,
                                   !.skipped = IF field = "skipped" THEN @ + 1 ELSE @]
      <3> DEFINE rest     == Tail(a.rest)
                 inserted == IF field = "inserted" THEN a.inserted + 1 ELSE a.inserted
                 updated  == IF field = "updated" THEN a.updated + 1 ELSE a.updated
                 skipped  == IF field = "skipped" THEN a.skipped + 1 ELSE a.skipped
      <3>1. apply' = [apply EXCEPT ![s] = call]
        BY <2>5 DEF Counted, JobsInv, JobsType
      <3>2. call \in Calls /\ call.job = a.job
        <4>1. {inserted, updated, skipped} \subseteq Nat
          <5>1. a.inserted \in Nat /\ a.updated \in Nat /\ a.skipped \in Nat
            BY <2>2
          <5> QED
            BY <5>1
        <4>2. rest \in Seq(Lines)
          BY <2>4, <2>5 DEF AtRow
        <4>3. call = [a EXCEPT !.rest = rest, !.inserted = inserted, !.updated = updated,
                               !.skipped = skipped]
          BY <2>2
        <4> HIDE DEF rest, inserted, updated, skipped
        <4> QED
          BY <2>2, <4>1, <4>2, <4>3
      <3> HIDE DEF call, a, Calls
      <3> QED
        BY <1>1, <2>2, <2>3, <3>1, <3>2
    <2>6. CASE SkipRow(s)
      BY <2>5, <2>6 DEF SkipRow
    <2>7. CASE Upsert(s)
      BY <2>5, <2>7 DEF Upsert, Upserting
    <2>8. CASE RefuseRow(s)
      <3> DEFINE call == [a EXCEPT !.rest = Tail(@), !.skipped = @ + 1, !.broken = TRUE]
      <3>1. apply' = [apply EXCEPT ![s] = call] /\ a.rest # << >>
        BY <2>8 DEF RefuseRow, Upserting, AtRow, JobsInv, JobsType
      <3>2. call \in Calls /\ call.job = a.job
        <4>1. Tail(a.rest) \in Seq(Lines) /\ a.skipped + 1 \in Nat
          BY <2>2, <2>4, <3>1
        <4>2. call = [a EXCEPT !.rest = Tail(a.rest), !.skipped = a.skipped + 1, !.broken = TRUE]
          BY <2>2
        <4> QED
          BY <2>2, <4>1, <4>2
      <3> HIDE DEF call, a, Calls
      <3> QED
        BY <1>1, <2>2, <2>3, <3>1, <3>2
    <2>9. CASE ApplyCommit(s)
      <3> DEFINE call == [a EXCEPT !.step = "stored"]
      <3>1. apply' = [apply EXCEPT ![s] = call]
        BY <2>9 DEF ApplyCommit, JobsInv, JobsType
      <3>2. call \in Calls /\ call.job = a.job
        BY <2>2
      <3> HIDE DEF call, a, Calls
      <3> QED
        BY <1>1, <2>2, <2>3, <3>1, <3>2
    <2> QED
      BY <1>4, <2>6, <2>7, <2>8, <2>9
  <1>5. ASSUME NEW s \in Sessions, ApplyFinish(s) PROVE JobsInv'
    <2> DEFINE a   == apply[s]
               job == [jobs[a.job] EXCEPT !.status = "applied", !.inserted = a.inserted,
                                          !.updated = a.updated, !.skipped = a.skipped]
    <2>1. a # NoApply
      BY <1>5 DEF ApplyFinish, NoApply
    <2>2. a \in Calls /\ a.job \in DOMAIN jobs
      BY <2>1, ApplyShape DEF JobsInv
    <2>3. jobs' = [jobs EXCEPT ![a.job] = job]
      BY <1>5, <2>2 DEF ApplyFinish, JobsInv, JobsType
    <2>4. jobs[a.job] \in Jobs
      BY <2>2 DEF JobsInv, JobsType
    <2>5. job \in Jobs
      BY <2>2, <2>4 DEF Jobs
    <2> HIDE DEF a, job
    <2>6. jobs' \in Seq(Jobs) /\ DOMAIN jobs' = DOMAIN jobs
      BY <2>2, <2>3, <2>5, JobWritten
    <2> QED
      BY <1>2, <1>5, <2>6 DEF ApplyFinish
  <1>6. ASSUME NEW s \in Sessions, ApplyStops(s) PROVE JobsInv'
    BY <1>2, <1>6 DEF ApplyStops, JobsInv, JobsType
  <1>7. ASSUME NEW file \in Files, Upload(file) PROVE JobsInv'
    <2> DEFINE job == [file |-> file, status |-> "uploaded", inserted |-> 0, updated |-> 0,
                       skipped |-> 0]
    <2>1. job \in Jobs
      BY DEF Jobs
    <2>2. jobs' = Append(jobs, job) /\ UNCHANGED apply
      BY <1>7 DEF Upload
    <2> HIDE DEF job
    <2>3. jobs' \in Seq(Jobs) /\ DOMAIN jobs \subseteq DOMAIN jobs'
      BY <2>1, <2>2 DEF JobsInv, JobsType
    <2> QED
      BY <2>2, <2>3 DEF JobsInv, JobsType
  <1>8. ASSUME NEW j \in DOMAIN jobs, PreviewJob(j) PROVE JobsInv'
    <2> DEFINE job == [jobs[j] EXCEPT !.status = "previewed"]
    <2>1. jobs[j] \in Jobs
      BY DEF JobsInv, JobsType
    <2>2. job \in Jobs
      BY <2>1 DEF Jobs
    <2>3. jobs' = [jobs EXCEPT ![j] = job] /\ UNCHANGED apply
      BY <1>8 DEF PreviewJob
    <2> HIDE DEF job
    <2>4. jobs' \in Seq(Jobs) /\ DOMAIN jobs' = DOMAIN jobs
      BY <2>2, <2>3, JobWritten
    <2> QED
      BY <2>3, <2>4 DEF JobsInv, JobsType
  <1>9. CASE UNCHANGED importVars
    BY <1>9 DEF importVars, JobsInv, JobsType
  <1> QED
    BY <1>3, <1>4, <1>5, <1>6, <1>7, <1>8, <1>9 DEF Next, ApplyStep, RegistryStep, vars


-----------------------------------------------------------------------------
(* Theorems                                                                  *)

ImportsInv == RegistryInv /\ JobsInv

LEMMA ImportsInvInit == Init => ImportsInv
  <1> SUFFICES ASSUME Init PROVE ImportsInv
    OBVIOUS
  <1> USE DEF Init, RegistryInit, ImportsInit
  <1>1. RegistryTypeOK
    BY RegistryAssumption DEF RegistryTypeOK, Days
  <1>2. TablesAreSound
    BY DEF TablesAreSound, Sound, Sees, Written
  <1>3. ImportsKeep /\ IdsAreGiven /\ AllAgree /\ OneCallEach
    BY DEF ImportsKeep, IdsAreGiven, AllAgree, OneCallEach
  <1>4. TablesAreFinite
    BY FS_EmptySet DEF TablesAreFinite
  <1>5. JobsInv
    BY DEF JobsInv, JobsType, Applies
  <1> QED
    BY <1>1, <1>2, <1>3, <1>4, <1>5 DEF ImportsInv, RegistryInv, RowsInv

LEMMA OneCallStep == ImportsInv /\ [Next]_vars => OneCallEach'
  <1> SUFFICES ASSUME ImportsInv, [Next]_vars PROVE OneCallEach'
    OBVIOUS
  <1> USE DEF ImportsInv, RegistryInv
  <1>1. ASSUME NEW s \in Sessions, apply[s] = NoApply, CreationStep(s), UNCHANGED apply
        PROVE  OneCallEach'
    <2>1. UNCHANGED own
      BY <1>1
      DEF CreationStep, CreateClient, CreateSubcontractor, CreateDriver, CreateVehicle, CheckNew,
          InsertNew, Commit, CreationFails
    <2>2. own[s] = {}
      BY <1>1 DEF OneCallEach
    <2>3. \A t \in Sessions : t # s => draft'[t] = draft[t]
      BY <1>1
      DEF CreationStep, CreateClient, CreateSubcontractor, CreateDriver, CreateVehicle, CheckNew,
          InsertNew, CreationFails, RowsInv, RegistryTypeOK
    <2> QED
      BY <1>1, <2>1, <2>2, <2>3 DEF OneCallEach
  <1>2. CASE UNCHANGED <<own, draft, apply>>
    BY <1>2 DEF OneCallEach
  <1>3. ASSUME NEW s \in Sessions, NEW r \in rows, UpdateStep(s, r), UNCHANGED apply
        PROVE  OneCallEach'
    BY <1>2, <1>3, UpdateKeepsRows
  <1>4. CASE InactivateDrivers /\ UNCHANGED apply
    BY <1>2, <1>4, InactivationKeepsRows
  <1>5. CASE RegistryStep
    <2>1. UNCHANGED apply
      BY <1>5 DEF RegistryStep, importVars
    <2>2. CASE NextRegistryDay
      BY <1>2, <2>1, <2>2 DEF NextRegistryDay
    <2> QED
      BY <1>1, <1>3, <1>4, <1>5, <2>1, <2>2 DEF RegistryStep
  <1>6. ASSUME NEW s \in Sessions, ApplyStep(s) PROVE OneCallEach'
    <2>1. /\ \A t \in Sessions : t # s => own'[t] = own[t] /\ apply'[t] = apply[t]
          /\ UNCHANGED draft
      BY <1>6
      DEF ApplyStep, ApplyBegin, SkipRow, Upsert, RefuseRow, ApplyCommit, ApplyFinish, ApplyStops,
          Counted, registryVars, RowsInv, RegistryTypeOK, JobsInv, JobsType
    <2>2. own'[s] # {} => apply'[s] # NoApply /\ apply'[s].step = "rows"
      <3>1. CASE RefuseRow(s) \/ ApplyCommit(s) \/ ApplyStops(s)
        BY <3>1 DEF RefuseRow, ApplyCommit, ApplyStops, RowsInv, RegistryTypeOK
      <3>2. CASE SkipRow(s) \/ Upsert(s)
        <4>1. apply[s].step = "rows" /\ apply[s] # NoApply
          BY <3>2 DEF SkipRow, Upsert, Upserting, AtRow, NoApply
        <4>2. apply'[s].step = "rows"
          BY <3>2, <4>1, ApplyShape, SMTT(30) DEF SkipRow, Upsert, Counted, JobsInv
        <4> QED
          BY <4>2 DEF NoApply
      <3>3. CASE (\E j \in DOMAIN jobs : ApplyBegin(s, j)) \/ ApplyFinish(s)
        BY <3>3 DEF ApplyBegin, ApplyFinish, registryVars, Free, OneCallEach, NoApply
      <3> QED
        BY <1>6, <3>1, <3>2, <3>3 DEF ApplyStep
    <2>3. draft[s] = None
      <3>1. apply[s] # NoApply \/ draft[s] = None
        BY <1>6
        DEF ApplyStep, ApplyBegin, SkipRow, Upsert, RefuseRow, ApplyCommit, ApplyFinish,
            ApplyStops, Upserting, AtRow, NoApply, Free
      <3> QED
        BY <3>1 DEF OneCallEach
    <2> QED
      BY <2>1, <2>2, <2>3 DEF OneCallEach
  <1> QED
    BY <1>2, <1>5, <1>6 DEF Next, Upload, PreviewJob, vars, registryVars, importVars

LEMMA ImportsInvStep == ImportsInv /\ [Next]_vars => ImportsInv'
  <1> SUFFICES ASSUME ImportsInv, [Next]_vars PROVE ImportsInv'
    OBVIOUS
  <1>1. RowsInv'
    <2>1. CASE RegistryStep
      BY <2>1, RegistryStepKeepsRows DEF ImportsInv
    <2>2. ASSUME NEW s \in Sessions, ApplyStep(s) PROVE RowsInv'
      BY <2>2, ApplyStepKeepsRows DEF ImportsInv, JobsInv
    <2>3. CASE /\ UNCHANGED <<rows, own, draft, lastId, registryDay>>
               /\ registryCalls' \in {registryCalls, registryCalls + 1}
      BY <2>3
      DEF ImportsInv, RegistryInv, RowsInv, RegistryTypeOK, TablesAreSound, ImportsKeep,
          IdsAreGiven, AllAgree, TablesAreFinite, Sees
    <2> QED
      BY <2>1, <2>2, <2>3 DEF Next, Upload, PreviewJob, NewRegistryCall, vars, registryVars
  <1> QED
    BY <1>1, OneCallStep, JobsInvStep DEF ImportsInv, RegistryInv

LEMMA ImportsInvAlways == Spec => []ImportsInv
  BY ImportsInvInit, ImportsInvStep, PTL DEF Spec

\* The tables of customers, subcontractors, drivers and vehicles keep their
\* types and their unique keys, whatever calls of masterdata, imports and the
\* daily task overlap; so do the jobs.
THEOREM ImportsTypeCorrect == Spec => []TypeOK
  <1>1. ImportsInv => TypeOK
    <2> SUFFICES ASSUME ImportsInv PROVE TypeOK
      OBVIOUS
    <2>1. KeysAreUnique
      BY DEF ImportsInv, RegistryInv, RowsInv, TablesAreSound, Sound, Apart, KeysAreUnique, Clash
    <2> QED
      BY <2>1 DEF ImportsInv, RegistryInv, RowsInv, JobsInv, JobsType, TypeOK
  <1> QED
    BY <1>1, ImportsInvAlways, PTL

\* is_active agrees with the statut of every driver and vehicle, although an
\* import commits rows that it merged with what was there before its loop.
THEOREM ActiveAlwaysAgrees == Spec => []ActiveAgrees
  <1>1. ImportsInv => ActiveAgrees
    BY DEF ImportsInv, RegistryInv, RowsInv, AllAgree, Agrees, ActiveAgrees
  <1> QED
    BY <1>1, ImportsInvAlways, PTL

\* No step of an import changes the statut of a row that exists.
THEOREM ImportsKeepStatuts == Spec => ImportKeepsStatut
  <1> DEFINE Keeps == (\E s \in Sessions : apply'[s] # apply[s]) =>
                          \A r \in rows, x \in rows' : r.id = x.id => x.statut = r.statut
  <1>1. ImportsInv /\ [Next]_vars => [Keeps]_vars
    <2> SUFFICES ASSUME ImportsInv, Next PROVE Keeps
      OBVIOUS
    <2>1. \A r, x \in rows : r.id = x.id => r = x
      BY DEF ImportsInv, RegistryInv, RowsInv, TablesAreSound, Sound, Apart
    <2>2. CASE UNCHANGED apply
      BY <2>2
    <2>3. CASE UNCHANGED rows
      BY <2>1, <2>3
    <2>4. ASSUME NEW s \in Sessions, ApplyCommit(s) PROVE Keeps
      <3>1. \A x \in rows' : x \in own[s] \/ x \in rows
        BY <2>4 DEF ApplyCommit, Written
      <3>2. \A x \in own[s], r \in rows : x.id = r.id => x.statut = r.statut
        BY DEF ImportsInv, RegistryInv, RowsInv, ImportsKeep, Kept
      <3> QED
        BY <2>1, <3>1, <3>2
    <2> QED
      BY <2>2, <2>3, <2>4
      DEF Next, RegistryStep, importVars, Upload, PreviewJob, ApplyStep, ApplyBegin, SkipRow,
          Upsert, RefuseRow, ApplyFinish, ApplyStops, registryVars
  <1> QED
    BY <1>1, ImportsInvAlways, PTL DEF Spec, ImportKeepsStatut

\* What an import writes shows at its commit, after the whole file, or never.
THEOREM ImportsAreAtomic == Spec => ImportIsAtomic
  <1> DEFINE Atomic == \A s \in Sessions :
                apply'[s] # apply[s] => \/ rows' = rows
                                        \/ apply[s].rest = << >> /\ rows' = Sees(s)
  <1>1. ImportsInv /\ [Next]_vars => [Atomic]_vars
    <2> SUFFICES ASSUME ImportsInv, Next PROVE Atomic
      OBVIOUS
    <2>1. CASE UNCHANGED apply \/ UNCHANGED rows
      BY <2>1
    <2>2. ASSUME NEW s \in Sessions, ApplyCommit(s) PROVE Atomic
      <3>1. \A t \in Sessions : t # s => apply'[t] = apply[t]
        BY <2>2 DEF ApplyCommit, ImportsInv, JobsInv, JobsType
      <3> QED
        BY <2>2, <3>1 DEF ApplyCommit, Sees
    <2> QED
      BY <2>1, <2>2
      DEF Next, RegistryStep, importVars, Upload, PreviewJob, ApplyStep, ApplyBegin, SkipRow,
          Upsert, RefuseRow, ApplyFinish, ApplyStops, registryVars
  <1> QED
    BY <1>1, ImportsInvAlways, PTL DEF Spec, ImportIsAtomic

=============================================================================
