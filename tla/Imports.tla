------------------------------- MODULE Imports -------------------------------
(***************************************************************************)
(* Imports of files of customers, subcontractors, drivers and vehicles     *)
(* (backend/app/modules/imports): upload, preview, and the application,    *)
(* which upserts every row in one transaction while the calls of Registry  *)
(* go on.                                                                  *)
(***************************************************************************)
EXTENDS Registry, Sequences

CONSTANTS Files,        \* the files, each a sequence of rows
          MaxJobs       \* bounds the uploads

\* A row of a file is a body the schema accepts, or one of these two: a row the
\* schema refuses, or one whose date a driver of the database refuses because
\* _upsert_driver and _upsert_vehicle pass it as a string.
Invalid == [kind |-> "invalid"]
Dated   == [kind |-> "dated"]

ASSUME ImportsAssumption ==
    /\ Files \subseteq Seq(Bodies \union {Invalid, Dated})
    /\ MaxJobs \in Nat

VARIABLES jobs,         \* import_jobs, in the order of their uploads
          apply         \* apply[s]: where apply_import of session s is

importVars == <<jobs, apply>>
vars == <<registryVars, importVars>>

Jobs == [file : Files, status : {"uploaded", "previewed", "applied"}, inserted : Nat,
         updated : Nat, skipped : Nat]

NoApply == [step |-> "idle"]

\* broken: PostgreSQL has refused a statement and aborted the transaction.
Applies ==
    {NoApply} \union [step : {"rows", "stored"}, job : Nat, rest : Seq(Bodies \union {Invalid, Dated}),
                      inserted : Nat, updated : Nat, skipped : Nat, broken : BOOLEAN]

ImportsInit == jobs = << >> /\ apply = [s \in Sessions |-> NoApply]

Init == RegistryInit /\ ImportsInit

\* Session s serves no other call.
Free(s) == apply[s] = NoApply /\ draft[s] = None

-----------------------------------------------------------------------------
(* Upload and preview                                                        *)

\* upload_import, create_import_job: the file goes to the store, the row follows.
Upload(file) ==
    /\ Len(jobs) < MaxJobs
    /\ jobs' = Append(jobs, [file |-> file, status |-> "uploaded", inserted |-> 0,
                             updated |-> 0, skipped |-> 0])
    /\ UNCHANGED <<registryVars, apply>>

\* preview_import reads the file and stores its errors.  It does not ask for the
\* status: a preview after the application takes "applied" back.
PreviewJob(j) ==
    /\ NewRegistryCall
    /\ j \in DOMAIN jobs
    /\ jobs' = [jobs EXCEPT ![j].status = "previewed"]
    /\ UNCHANGED <<rows, own, draft, lastId, registryDay, apply>>

-----------------------------------------------------------------------------
(* Application                                                               *)

\* apply_import up to its loop: the only check of the status.
ApplyBegin(s, j) ==
    /\ NewRegistryCall
    /\ Free(s) /\ j \in DOMAIN jobs
    /\ jobs[j].status # "applied"
    /\ apply' = [apply EXCEPT ![s] =
            [step |-> "rows", job |-> j, rest |-> jobs[j].file, inserted |-> 0, updated |-> 0,
             skipped |-> 0, broken |-> FALSE]]
    /\ UNCHANGED <<rows, own, draft, lastId, registryDay, jobs>>

AtRow(s) == apply[s].step = "rows" /\ apply[s].rest # << >>

\* One row done: it is counted and the loop goes on.
Counted(s, field) ==
    apply' = [apply EXCEPT ![s].rest = Tail(@),
                           ![s].inserted = IF field = "inserted" THEN @ + 1 ELSE @,
                           ![s].updated = IF field = "updated" THEN @ + 1 ELSE @,
                           ![s].skipped = IF field = "skipped" THEN @ + 1 ELSE @]

\* A row that reaches no statement of the database, or one of a transaction
\* that is aborted already.
SkipRow(s) ==
    /\ AtRow(s)
    /\ Head(apply[s].rest) \in {Invalid, Dated} \/ apply[s].broken
    /\ Counted(s, "skipped")
    /\ UNCHANGED <<registryVars, jobs>>

KeepOld(new, old) == IF new = None THEN old ELSE new

\* ON CONFLICT DO UPDATE of each table: statut and is_active stay, and a column
\* that is empty in the file keeps its value.
MergedDriver(r, body) == [r EXCEPT !.nir = KeepOld(body.nir, @), !.sortie = KeepOld(body.sortie, @)]

\* Mistake ruled out by ImportKeepsStatut: the update makes the vehicle ACTIF.
MergedVehicleReset(r, body) ==
    [r EXCEPT !.ptac = KeepOld(body.ptac, @), !.charge = KeepOld(body.charge, @),
              !.statut = "ACTIF", !.active = TRUE]

MergedVehicle(r, body) ==
    [r EXCEPT !.ptac = KeepOld(body.ptac, @), !.charge = KeepOld(body.charge, @)]
MergedClient(r, body) == r
MergedSubcontractor(r, body) == r

Merged(r, body) == CASE body.kind = "driver"        -> MergedDriver(r, body)
                     [] body.kind = "vehicle"       -> MergedVehicle(r, body)
                     [] body.kind = "client"        -> MergedClient(r, body)
                     [] body.kind = "subcontractor" -> MergedSubcontractor(r, body)

\* The row of the table that the natural key of the body names, if any.  A row
\* without matricule or code gets one made from a uuid.
Target(s, body) == {r \in Sees(s) : r.kind = body.kind /\ r.key = body.key}

ImportKey(body) == IF body.key = None THEN <<"uuid", lastId + 1>> ELSE body.key

\* What the upsert of the row at hand writes.
Upserted(s) ==
    LET body == Head(apply[s].rest)
    IN  IF Target(s, body) = {} THEN NewRow(lastId + 1, ImportKey(body), body)
        ELSE Merged(CHOOSE r \in Target(s, body) : TRUE, body)

\* The row at hand is one for the database, and the transaction is sound.
Upserting(s) == AtRow(s) /\ Head(apply[s].rest) \in Bodies /\ ~ apply[s].broken

\* It waits for a transaction that has written the row or a row it clashes with.
WaitsFor(s, t) ==
    /\ s # t /\ Upserting(s)
    /\ \E x \in own[t] : x.id = Upserted(s).id \/ Clash(x, Upserted(s))
Waiting(s) == \E t \in Sessions : WaitsFor(s, t)

\* Mistake ruled out by ImportIsAtomic: a commit after every row.
UpsertCommitted(s) ==
    LET r == Upserted(s)
    IN  /\ Upserting(s) /\ ~ Waiting(s) /\ ~ Refused(s, r)
        /\ rows' = Written(rows, {r}) /\ lastId' = lastId + 1
        /\ Counted(s, IF r.id = lastId + 1 THEN "inserted" ELSE "updated")
        /\ UNCHANGED <<own, draft, registryCalls, registryDay, jobs>>

Upsert(s) ==
    LET r == Upserted(s)
    IN  /\ Upserting(s) /\ ~ Waiting(s) /\ ~ Refused(s, r)
        /\ own' = [own EXCEPT ![s] = Written(@, {r})]
        /\ lastId' = lastId + 1
        /\ Counted(s, IF r.id = lastId + 1 THEN "inserted" ELSE "updated")
        /\ UNCHANGED <<rows, draft, registryCalls, registryDay, jobs>>

\* PostgreSQL refuses the row (the nir of another driver) or breaks a circle of
\* waiting imports: the transaction is aborted and its locks are free.  The
\* loop catches the exception, counts one skipped row and goes on.
Circle(s) == \E S \in SUBSET Sessions :
                s \in S /\ \A x \in S : \E y \in S : WaitsFor(x, y)

RefuseRow(s) ==
    /\ Upserting(s)
    /\ (~ Waiting(s) /\ Refused(s, Upserted(s))) \/ Circle(s)
    /\ own' = [own EXCEPT ![s] = {}]
    /\ apply' = [apply EXCEPT ![s].rest = Tail(@), ![s].skipped = @ + 1, ![s].broken = TRUE]
    /\ UNCHANGED <<rows, draft, lastId, registryCalls, registryDay, jobs>>

\* The commit after the loop; of an aborted transaction it is a rollback.
ApplyCommit(s) ==
    /\ apply[s].step = "rows" /\ apply[s].rest = << >>
    /\ rows' = Written(rows, own[s])
    /\ own' = [own EXCEPT ![s] = {}]
    /\ apply' = [apply EXCEPT ![s].step = "stored"]
    /\ UNCHANGED <<draft, lastId, registryCalls, registryDay, jobs>>

\* The status and the counts, in a transaction of their own.
ApplyFinish(s) ==
    /\ apply[s].step = "stored"
    /\ jobs' = [jobs EXCEPT ![apply[s].job].status = "applied",
                            ![apply[s].job].inserted = apply[s].inserted,
                            ![apply[s].job].updated = apply[s].updated,
                            ![apply[s].job].skipped = apply[s].skipped]
    /\ apply' = [apply EXCEPT ![s] = NoApply]
    /\ UNCHANGED registryVars

\* The call is cut off, perhaps between the two commits.
ApplyStops(s) ==
    /\ apply[s] # NoApply
    /\ own' = [own EXCEPT ![s] = {}]
    /\ apply' = [apply EXCEPT ![s] = NoApply]
    /\ UNCHANGED <<rows, draft, lastId, registryCalls, registryDay, jobs>>

-----------------------------------------------------------------------------

ApplyStep(s) ==
    \/ \E j \in DOMAIN jobs : ApplyBegin(s, j)
    \/ SkipRow(s) \/ Upsert(s) \/ RefuseRow(s) \/ ApplyCommit(s) \/ ApplyFinish(s) \/ ApplyStops(s)

\* A call of Registry, by a session that applies nothing.
RegistryStep ==
    /\ \/ \E s \in Sessions :
            apply[s] = NoApply /\ (CreationStep(s) \/ \E r \in rows : UpdateStep(s, r))
       \/ InactivateDrivers \/ NextRegistryDay
    /\ UNCHANGED importVars

Next ==
    \/ RegistryStep
    \/ \E file \in Files : Upload(file)
    \/ \E j \in DOMAIN jobs : PreviewJob(j)
    \/ \E s \in Sessions : ApplyStep(s)

Spec == Init /\ [][Next]_vars

-----------------------------------------------------------------------------

\* The rows have the types of their columns and the keys that their tables ask for;
\* jobs and applications are of their kinds.
TypeOK ==
    /\ RegistryTypeOK /\ KeysAreUnique
    /\ jobs \in Seq(Jobs)
    /\ apply \in [Sessions -> Applies]

\* No step of an import changes the statut or is_active of a row that exists,
\* and its commit undoes no change of statut made while its loop ran
\* (_upsert_driver, _upsert_vehicle against change_..._status and
\* driver_auto_inactivation).
ImportKeepsStatut ==
    [][(\E s \in Sessions : apply'[s] # apply[s]) =>
            \A r \in rows, x \in rows' : r.id = x.id => x.statut = r.statut]_vars

\* What an import writes is seen by no other call before the import has gone
\* through its whole file, and then all at once (the commit after the loop of
\* apply_import): a step of an import that is not this commit changes no row.
ImportIsAtomic ==
    [][\A s \in Sessions :
        apply'[s] # apply[s] => \/ rows' = rows
                                \/ apply[s].rest = << >> /\ rows' = Sees(s)]_vars

\* "upsert valid rows into the database" (apply_import), in its answer
\* inserted_rows: the rows it says it inserted are there.
\* The code does not keep this.
CountedRowsAreStored ==
    \A j \in DOMAIN jobs : jobs[j].inserted <= Cardinality(rows)

\* "Cet import a deja ete applique." (apply_import): a job is applied once.
\* The code does not keep this.
AppliedIsFinal ==
    [][\A j \in DOMAIN jobs : jobs[j].status = "applied" => jobs'[j].status = "applied"]_vars

\* RG-B-033 of docs/02-modules-A-D.md: the payload of a vehicle does not exceed
\* its permitted weight.
\* The code does not keep this.
PayloadsFit == \A r \in rows : r.kind = "vehicle" => PayloadFits(r)

=============================================================================
