-------------------------------- MODULE Seeding --------------------------------
(***************************************************************************)
(* The two seeds, backend/app/core/seed.py (the demo tenant) and backend/  *)
(* app/core/seed_saf.py (the platform and the first customer), which are   *)
(* run again whenever their lists change.  A seed is one transaction of    *)
(* INSERT ... ON CONFLICT statements.  Two seeds at once meet at their     *)
(* first common row and run one after the other, so a seed is one step.    *)
(*                                                                         *)
(* Each list of rows of a table is one row here; the columns, and so what  *)
(* DO UPDATE writes into a row that exists, are left out.                  *)
(***************************************************************************)
EXTENDS Integers, Sequences

CONSTANT MaxSeedRuns     \* bounds the runs of the seeds

ASSUME SeedingAssumption == MaxSeedRuns \in Nat

VARIABLES stored,       \* the rows of all tables, in the order of their INSERT
          seeded,       \* how often each seed has committed
          refusals      \* how often a constraint has refused a seed

seedVars == <<stored, seeded, refusals>>

Seeds   == {"seed", "seed_saf"}
Tenants == {"platform", "saf"}

\* Tables with a unique constraint on what a seed writes as their key.
Keyed == {"roles", "users", "document_types", "payroll_variable_types", "payroll_mappings",
          "company_settings", "customers", "drivers", "vehicles", "subcontractors",
          "routes", "route_templates"}

\* Mistake ruled out by SeedTypeOK: the schema before revision 0013,
\* where a second row was an ordinary row.
ConstrainedBefore0013 == Keyed

Constrained == Keyed \union {"compliance_templates"}

Unconstrained == {"tenants", "agencies", "subcontractor_contracts", "vat_configs",
                  "notification_configs", "bank_accounts", "pricing_rules"}

Tables == Keyed \union {"compliance_templates"} \union Unconstrained

\* What the unique constraints look at; a list of rows has the name of its table.
RowKeys == Tables \union {"name", "HQ", "admin@saf.local", "superadmin@saf.local",
                          "admin@dataforgeai.fr", "admin@saf-logistique.fr", "client of the office"}

\* A fixed primary key, or "fresh" for a new uuid.
RowIds == {"fresh", "tenant 1", "tenant 2", "agency 10", "agency 20", "user 100", "user 200",
           "user 300"}

SeedRows == [table : Tables, tenant : Tenants, key : RowKeys, id : RowIds]

\* One INSERT, and what its ON CONFLICT names: "id", "key", or "any".
Insert(table, tenant, key, id, on) ==
    [row |-> [table |-> table, tenant |-> tenant, key |-> key, id |-> id], on |-> on]

New(table, tenant, on) == Insert(table, tenant, table, "fresh", on)

SeedInit == stored = << >> /\ seeded = [x \in Seeds |-> 0] /\ refusals = 0

-----------------------------------------------------------------------------
(* Statements                                                                *)

SameId(r, x)   == r.table = x.table /\ r.id = x.id /\ x.id # "fresh"
SameKeyed(r, x) == /\ r.table = x.table /\ x.table \in Constrained
                   /\ r.tenant = x.tenant /\ r.key = x.key

Meets(db, x, Same(_, _)) == \E i \in DOMAIN db : Same(db[i], x)

\* A conflict that ON CONFLICT names adds no row, another one refuses the seed.
Execute(draft, x) ==
    LET onId  == Meets(draft.db, x.row, SameId)
        onKey == Meets(draft.db, x.row, SameKeyed)
    IN  CASE \/ x.on \in {"id", "any"} /\ onId
             \/ x.on \in {"key", "any"} /\ onKey -> draft
          [] x.on = "key" /\ onId /\ ~ onKey     -> [draft EXCEPT !.ok = FALSE]
          [] OTHER                               -> [draft EXCEPT !.db = Append(@, x.row)]

ExecuteAll(draft, statements) ==
    LET upTo[i \in 0..Len(statements)] ==
            IF i = 0 THEN draft ELSE Execute(upTo[i - 1], statements[i])
    IN  upTo[Len(statements)]

-----------------------------------------------------------------------------
(* seed                                                                      *)

DemoAccess ==
    << Insert("tenants", "platform", "name", "tenant 1", "id"),
       Insert("agencies", "platform", "name", "agency 10", "id"),
       New("roles", "platform", "key"),
       Insert("users", "platform", "admin@saf.local", "user 100", "key"),
       Insert("users", "platform", "superadmin@saf.local", "user 200", "key"),
       New("users", "platform", "key") >>

DemoPresets ==
    << New("document_types", "platform", "key"), New("payroll_variable_types", "platform", "key"),
       New("payroll_mappings", "platform", "key") >>

DemoCustomers == << New("customers", "platform", "key") >>
DemoDrivers   == << New("drivers", "platform", "key") >>
DemoVehicles  == << New("vehicles", "platform", "key") >>

DemoSubcontractors ==
    << New("subcontractors", "platform", "key"), New("subcontractor_contracts", "platform", "any") >>

DemoDefaults ==
    << New("vat_configs", "platform", "any"), New("notification_configs", "platform", "any"),
       New("company_settings", "platform", "key") >>

Seed(db) ==
    ExecuteAll([ok |-> TRUE, db |-> db],
               DemoAccess \o DemoPresets \o DemoCustomers \o DemoDrivers \o DemoVehicles
                    \o DemoSubcontractors \o DemoDefaults)

-----------------------------------------------------------------------------
(* seed_saf                                                                  *)

\* The role that the platform's administrator gets has the new uuid even when
\* the row existed and kept its own: then the foreign key refuses the user.
PlatformAccess(db) ==
    LET first == ExecuteAll([ok |-> TRUE, db |-> db],
                    << Insert("tenants", "platform", "name", "tenant 1", "id"),
                       Insert("agencies", "platform", "name", "agency 10", "id"),
                       New("roles", "platform", "key") >>)
        admin == Insert("users", "platform", "admin@dataforgeai.fr", "user 100", "key")
        hadRole == Meets(db, New("roles", "platform", "key").row, SameKeyed)
        hasUser == Meets(db, admin.row, SameKeyed)
    IN  IF hadRole /\ ~ hasUser THEN [first EXCEPT !.ok = FALSE] ELSE Execute(first, admin)

SafAccess ==
    << Insert("tenants", "saf", "name", "tenant 2", "id"),
       Insert("agencies", "saf", "HQ", "agency 20", "id"),
       New("roles", "saf", "key"),
       Insert("users", "saf", "admin@saf-logistique.fr", "user 300", "key"),
       New("users", "saf", "key") >>

SafPresets ==
    << New("document_types", "saf", "key"), New("payroll_variable_types", "saf", "key"),
       New("payroll_mappings", "saf", "key"), New("vat_configs", "saf", "any"),
       New("notification_configs", "saf", "any"), New("company_settings", "saf", "key"),
       New("bank_accounts", "saf", "any") >>

SafTemplates == << New("compliance_templates", "saf", "key") >>

\* One rule for each client of the moment, and the seed's clients come later.
Priced(draft, r) ==
    IF r.table = "customers" /\ r.tenant = "saf"
    THEN Execute(draft, Insert("pricing_rules", "saf", r.key, "fresh", "any"))
    ELSE draft

SafPricing(draft) ==
    LET upTo[i \in 0..Len(draft.db)] ==
            IF i = 0 THEN draft ELSE Priced(upTo[i - 1], draft.db[i])
    IN  upTo[Len(draft.db)]

SafDrivers  == << New("drivers", "saf", "any") >>
SafVehicles == << New("vehicles", "saf", "any") >>
SafClients  == << New("customers", "saf", "any") >>
SafRoutes   == << New("routes", "saf", "key"), New("route_templates", "saf", "key") >>

SeedSaf(db) ==
    ExecuteAll(SafPricing(ExecuteAll(PlatformAccess(db), SafAccess \o SafPresets \o SafTemplates)),
               SafDrivers \o SafVehicles \o SafClients \o SafRoutes)

-----------------------------------------------------------------------------

Draft(seed, db) == IF seed = "seed" THEN Seed(db) ELSE SeedSaf(db)

RunSeed(seed) ==
    /\ seeded["seed"] + seeded["seed_saf"] + refusals < MaxSeedRuns
    /\ LET draft == Draft(seed, stored) IN
        IF draft.ok
        THEN /\ stored' = draft.db
             /\ seeded' = [seeded EXCEPT ![seed] = @ + 1]
             /\ UNCHANGED refusals
        ELSE /\ refusals' = refusals + 1
             /\ UNCHANGED <<stored, seeded>>

\* create_client, of the office of a tenant that exists.
AddClient ==
    LET client == Insert("customers", "saf", "client of the office", "fresh", "key").row
    IN  /\ \E i \in DOMAIN stored : stored[i].table = "tenants" /\ stored[i].tenant = "saf"
        /\ ~ Meets(stored, client, SameKeyed)
        /\ stored' = Append(stored, client)
        /\ UNCHANGED <<seeded, refusals>>

SeedNext == (\E seed \in Seeds : RunSeed(seed)) \/ AddClient

SeedSpec == SeedInit /\ [][SeedNext]_seedVars

-----------------------------------------------------------------------------

\* However often the seeds run, a tenant has one compliance template of a type of
\* document: the duplicates that revision 0013 removes do not come back.
TemplatesAreSingle ==
    \A i, j \in DOMAIN stored :
        (/\ stored[i].table = "compliance_templates" /\ stored[j].table = "compliance_templates"
         /\ stored[i].tenant = stored[j].tenant /\ stored[i].key = stored[j].key) => i = j

\* The rows have the columns of the model and the keys their tables ask for.
SeedTypeOK ==
    /\ TemplatesAreSingle
    /\ \A i \in DOMAIN stored : stored[i] \in SeedRows
    /\ seeded \in [Seeds -> 0..MaxSeedRuns] /\ refusals \in 0..MaxSeedRuns

\* Running a seed again adds no row that is there ("INSERT ... ON CONFLICT DO
\* NOTHING").
\* The code does not keep this.
NothingTwice ==
    \A i, j \in DOMAIN stored :
        (/\ stored[i].table = stored[j].table /\ stored[i].tenant = stored[j].tenant
         /\ stored[i].key = stored[j].key) => i = j

\* After seed_saf each of its clients has one rule: "Pricing rules (one per
\* client)".
\* The code does not keep this.
OneRulePerClient ==
    seeded["seed_saf"] > 0 =>
        \A i \in DOMAIN stored : (stored[i].table = "customers" /\ stored[i].key = "customers"
                                    /\ stored[i].tenant = "saf") =>
            Len(SelectSeq(stored, LAMBDA r : r.table = "pricing_rules" /\ r.key = stored[i].key)) = 1

\* Both seeds can be run in one database: seed_saf writes the platform tenant of
\* seed with ON CONFLICT.
\* The code does not keep this.
NoSeedIsRefused == refusals = 0

=============================================================================
