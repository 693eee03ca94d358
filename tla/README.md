# TLA+ specifications of SAF-Logistic

SAF-Logistic is a multi-tenant web application for road transport companies: a
FastAPI backend over PostgreSQL, Celery workers fed through Redis, an S3 bucket
and a Next.js frontend, with programs that load data from outside.  This
directory holds specifications of what these do to the data, the TLC
configurations that check them on small instances, and proofs, checked by TLAPS,
that hold for instances of any size.

Almost everything that can go wrong here comes from one pattern.  A handler owns
a database session (`core/db.py`) at READ COMMITTED and takes no `FOR UPDATE`;
it SELECTs a status, checks it, and later UPDATEs the row `WHERE id = :id`
without repeating the check.  Between the two anybody may commit.  The
specifications say what such handlers still guarantee, which is often due to a
unique index or to a row lock that an UPDATE takes, and section 4 says what the
documentation and comments promise and the code does not keep.

    tlc -workers 2 -config Missions.cfg MCMissions     # model-check
    tlapm MissionsProofs.tla                           # check the proofs

## 1. Inventory

Paths are relative to `src/backend/app/`.

| Component | State | Operations | Interacts with | Hard behaviour | Correct when |
|---|---|---|---|---|---|
| Invoicing (`modules/billing/router.py`, `numbering.py`) | invoices, credit notes, `number_sequences`, PDF keys | create, validate, PDF task | Celery, S3, missions | a number taken inside a transaction that may roll back; overlapping validations; tasks lost or out of order | numbers unique, explained holes only, PDFs of the right document |
| Missions (`modules/jobs`) | status, amounts, margin, assignment, PODs, disputes, audit log | create, update, assign, unassign, transition, close, POD, dispute | templates, subcontracting, invoicing, compliance | stale status checks, two ways to close, audit written by one of them | no stage skipped, closed on evidence, log complete |
| Route runs (`modules/route_runs`) | status, totals, regulation stamp, order of missions | create, dispatch, start, complete, cancel, regulate, reorder | missions, daily task | manual and daily regulation overlap in long transactions; deadlock | overdue runs get closed once, totals set |
| Route templates (`modules/route_templates`) | templates, stops | CRUD, generate runs and missions | runs, missions | two generations of one date | at most one run per template and date |
| Payroll (`modules/payroll`) | period, variables | create, submit, approve, lock, import, compute | missions, drivers | additive imports against delete-and-insert computations | no addition lost, drivers computed whole, submitted periods frozen |
| Subcontracting (`modules/subcontracting`) | offers of a job | create, accept, reject, counter, cancel | missions | two acceptances; row locks in opposite orders | one accepted offer, the job has its amount |
| OCR (`modules/ocr`, `infra/tasks.py`) | scans, supplier invoices | create, recognise, validate | Celery, supplier invoices | redelivered tasks, double validation | one supplier invoice per scan |
| Supplier matching, dunning, purchase pricing (`billing/router_extensions.py`) | supplier invoices, dunning actions, levels | match, approve, dun | OCR, invoices, daily task | approval undone by a later match; duplicated dunning | states only move forward, one action per level |
| Documents and compliance (`modules/documents`) | versions, checklist, alerts, templates | upload, validate, reject, acknowledge, daily scan | drivers, vehicles, assignment | two uploads of one type; overlapping scans; a checklist computed while documents change | archived versions have a successor, alerts once per level, every change counted in the checklist |
| Fleet (`modules/fleet`) | plans, records, costs, claims | create, change status | daily trigger | a status set twice writes its cost twice; claims numbered by counting | one cost per maintenance, claims without holes |
| Imports (`modules/imports`) | import jobs and their rows | upload, preview, apply | master data | rows that abort the transaction; two commits | applied once, counts true, rows stored all or none |
| Daily tasks (`infra/tasks.py`, `celery_app.py`) | none of their own | compliance scan, reminders, inactivation, maintenance, dunning, regulation | all of the above | executions overlap each other and users; early acknowledgement, no retry | what is due happens in the end |
| Pricing (`modules/billing`) | rules of sale and purchase, lines of invoices | rules CRUD, price an invoice, credit it | missions | rules and distances change between two reads | equal missions cost the same |
| Validators (`core/validators.py`, `ocr/extractors/validators.py`) | none | Luhn, SIRET, VAT, NIR, IBAN | master data, settings, OCR | modular arithmetic, odd and even lengths | slips are caught, both copies agree |
| Master data (`modules/masterdata`) | customers, subcontractors, drivers, vehicles | create, update, change status | imports, daily inactivation | chosen keys; two columns that tell the same | keys unique, `is_active` and `statut` agree |
| Planning (`modules/planning`, assignment) | dates, driver and vehicle of a mission | assign, move, check | missions | an overlap looked for before the write | overlaps are warned of |
| Settings, operations | defaults, registers | CRUD, upsert | seeds | two defaults; repeated calls | one default, one entry per key |
| Seeds, backfill, generation (`core/*.py`) | rows of every table | run again and again | migrations, missions | ON CONFLICT without a constraint; names that are not unique | a second run adds nothing |
| Programs of SAF (`src/integration`, `src/scripts`) | papers, columns, flags | upload, PUT, reject duplicates | files, documents, master data | requests lost or answered late; lists that have aged | papers they send have objects, the newest paper stays, nothing is wiped |
| Administration, onboarding, notifications, reports, GDPR, authentication | rows without a protocol | CRUD, lists, exports | | none that depends on an order of steps | |
| Driver application (`modules/driver_mobile`) | events, PODs | create event, upload POD | missions | its statements name columns no migration creates | |

`PROJECT.json` lists every component with its status, and under "hazards" every
place, with its line, where this code can go wrong in a way a test hardly
reaches, with the property that covers it or the reason why none does.

## 2. Modules

| Module | What it is |
|---|---|
| `GaplessNumbering` | abstract: sequences hand out 1, 2, 3, ... |
| `Invoicing`, `MCInvoicing`, `InvoicingProofs` | invoices, credit notes, numbering, PDF tasks |
| `StaleLifecycle` | abstract: items move to a status that follows one they have *had* |
| `Missions`, `MCMissions`, `MissionsProofs` | missions, assignment, PODs, disputes, audit log |
| `RouteRuns`, `RouteRunsProofs` | tours of a day and their regulation |
| `Payroll`, `MCPayroll`, `PayrollProofs` | a pay period, imports and computations |
| `Compliance`, `MCCompliance`, `ComplianceProofs` | documents, their versions, the checklist, the daily scan |
| `Calls` | the sessions and the NULL that the modules below share |
| `Registry`, `Imports`, `MCImports`, `ImportsProofs` | master data; files that are merged into it, together with every call of `Registry` |
| `Fleet` | maintenance plans, records and costs, the daily trigger |
| `Claims` | claims and their numbers |
| `Purchasing` | offers to subcontractors |
| `Scans` | scanned supplier invoices, the OCR task, matching and approval |
| `Pricing` | rules, distances, the lines of invoices and credit notes |
| `RoutePlans`, `RunOrder` | templates and the generation of runs; the missions of a run in order |
| `Planning` | dates, crews, overlaps, the questions of the planning board |
| `Settings`, `Operations` | default accounts and VAT rates; the registers of operations |
| `MCOffice`, `OfficeProofs` | the ten from `Fleet` to `Operations` in one run of TLC; proofs about each and about all |
| `Reminders` | due reminders, dunning levels and relances |
| `Seeding`, `Repairs`, `MissionNumbers` | the seeds; the compliance backfill; who numbers missions |
| `Identifiers` | check digits and typing slips |
| `Uploads`, `FleetSheets` | the programs that send papers, sheets and rejections over HTTP, and who else writes papers |
| `MCUpkeep`, `UpkeepProofs` | the seven from `Reminders` to `FleetSheets` in one run of TLC; proofs about each and about all |

`StaleLifecycle` is the common abstraction of the "check a stale status, write
by id" pattern, implemented both by `Missions` and by `RouteRuns`.

Two conventions hold throughout.  A handler is cut into steps where another
session can see or change what it uses: the SELECT that reads what is checked,
each statement that takes a row lock, the COMMIT.  A single guarded UPDATE
(`WHERE id = :id AND status = ...`) is one step.  And operators introduced by a
comment "Mistake ruled out by P" are never part of `Next`: each is a plausible
bug of the definition after it, kept to show that property P would notice it.

### Invoicing

| Specification | Code |
|---|---|
| `status`, `number`, `pdfKey`, `source` | columns of `invoices` and `credit_notes` |
| `lastNumber`, `rowLock` | a row of `number_sequences`; who holds it |
| `ReadDraft`, `Refuse`, `TakeNumber`, `Commit`, `SendTask`, `Abort` | `validate_invoice`, `validate_credit_note` with `next_invoice_number` |
| `StartRendering`, `PutObject`, `SaveKey`, `LoseTask` | `invoice_generate_pdf`, `credit_note_generate_pdf` |
| `month`, `NextMonth` | `date.today()` in `numbering.py`, read once per call |

A number is a pair of a sequence row and a counter; the key of an S3 object is
determined by the number, as in the code.  The row lock is what PostgreSQL takes
for `INSERT ... ON CONFLICT DO UPDATE`.

### Missions

| Specification | Code |
|---|---|
| `CreateMission`, `UpdateMission`, `UnassignMission`, `UploadPodLegacy`, `ValidatePod` | one statement each |
| `GenerateMission` | the INSERT into `jobs` of `generate_runs` |
| `ReadMission`, then `CheckPod`, then `Transition`, `CloseMission`, `AssignMission`, `CreatePod` or `CreateDispute` | the handlers that read and check first |
| `ReadDispute`, `UpdateDispute` | `update_dispute` |
| `GiveUp` | every 4xx answer and every failure |
| `past`, `approved` | history: which statuses a mission has had, which PODs were valid at some time |

Spellings of an earlier version (`"draft"`, `"planned"`) are normalised by the
code and count as the status they stand for.  Whether a driver or vehicle is
active is left open: `AssignMission` may always be refused by `GiveUp`.

### RouteRuns

`ReadStatus`, `WriteStatus` and `GiveUp` are `_transition_run` behind dispatch,
start, complete and cancel.  `Select`, `RegulateRun`, `Commit`, `Deadlock` and
`Fail` are `regulate_runs` of the router (source "manual") and
`route_run_regulation_daily` with `service.py` (source "automatic").  A
regulation holds the rows it has updated until its only commit; when PostgreSQL
breaks a deadlock, the code swallows the exception, every later statement of the
aborted transaction fails, and the final COMMIT is a rollback.

`start` and `complete` bind an ISO string to a timestamptz column, and asyncpg takes
only datetimes there (`documents/router.py:320` says so of dates): as written, these two
calls end in a 500 and change nothing, against what
`tests/integration/test_route_runs.py` expects.  `Accepted` is the set of targets whose
UPDATE the driver takes.  The safety run and the theorems let it be all four, which is
more than the code does today and what it is meant to do; the counterexample to
`OverdueGetsClosed` has only those of `dispatch` and `cancel`.

### Payroll

A value is kept as the set of its summands, so that a lost or doubled addition
is visible; a row carries the call that inserted it, so that a row deleted and
inserted again is another row.  `StartDelete` takes the snapshot of the DELETE
statement of `compute_from_missions`; `DeleteRow` comes to each row, waits for
whoever holds it, deletes it even if its value changed and skips it if it was
replaced, which is what PostgreSQL does at READ COMMITTED.  `Duplicate` is the
unique constraint `uq_payvar_period_driver_type` failing an INSERT.

### Compliance

| Specification | Code |
|---|---|
| `doc`, `alerts`, `checklist` | `documents` (statut, version, expiry, flags), `compliance_alerts`, `compliance_checklists` |
| `BeginCreate`, `WriteCreate` | `create_document`: the SELECT of the version before; its archiving and the INSERT |
| `BeginValidate`, `WriteValidate` | `validate_document`, `reject_document` |
| `GetChecklist` | `get_compliance_checklist`, which recalculates and stores |
| `ReadItem`, `StoreChecklist` | `recalculate_compliance` and its synchronous twin in `tasks.py`, one SELECT per type |
| `BeginScan`, `ExpireRow` | the UPDATE of step 1 of `compliance_scan_daily`, row by row |
| `SelectDue`, `Alert` | step 2: the SELECT of a level, then the INSERT and the flag of each document |
| `CollectAffected`, `NextEntity`, `CommitScan` | step 3 and the only commit |
| `Fail`, `Deadlock` | rollback of an open transaction |

Every transaction keeps what it has written in `own` and `lists` until it
commits; `Sees(w)` is the table as its statements see it.  `ExpireRow` looks at
the condition again when it gets the row, which is what PostgreSQL does with an
UPDATE that had to wait; the flag UPDATE of `Alert` and the archiving of
`WriteCreate` name the id alone and look at nothing.  The table is filled by
uploads; `BROUILLON` and `EN_ATTENTE_VALIDATION` occur in `schemas.py` and in SELECTs,
but no handler ever writes them.  `conformite_statut` of the driver or vehicle is
written right after the checklist and is not kept apart.  Scans overlap because
every worker process is started with an embedded beat
(`infra/terraform/main.tf:654`): a second replica, or a rolling deployment,
doubles it.

### Registry and Imports

The four tables are one set of rows with a `kind`.  A transaction keeps what it
has written in `own` until its COMMIT; `Sees(s)` is the table as session `s` sees
it, `Locked`, `MustWait` and `Refused` are PostgreSQL's row locks and unique
constraints.  The inputs (`Bodies`) are what the Pydantic schemas let through.

| Specification | Code |
|---|---|
| `CheckNew`, `InsertNew`, `CreationFails` | `create_client`, `create_subcontractor`, `create_driver`, `create_vehicle`: the SELECT for the key (and the nir); the INSERT and its commit |
| `Update*`, `Change*Status` | one UPDATE each |
| `InactivateDrivers` | `driver_auto_inactivation` |
| `Upload`, `PreviewJob` | `create_import_job`, `preview_import` |
| `ApplyBegin`, `SkipRow`, `Upsert`, `RefuseRow` | `apply_import`: the row of `import_jobs`, then row by row; a refused row leaves an aborted transaction (`broken`), in which every later row is refused as well |
| `ApplyCommit`, `ApplyFinish`, `ApplyStops` | its two commits, and a crash or deadlock before either |
| `Merged*` | `ON CONFLICT ... DO UPDATE` of the four `_upsert_*` |

### The office

*Fleet*: every call is one statement but `change_maintenance_status`, which reads
(`ReadRecord`), locks (`LockRecord`) and charges (`FinishStatus`).
`TriggerFails` is all that `maintenance_auto_trigger` does for a plan that is due:
it names the column `maintenance_schedule_id`, which no migration creates.
*Claims*: `CountClaims` and `InsertClaim` are the two halves of `create_claim`.
*Purchasing*: `ReadToAccept`, `WriteOwnOffer`, `WriteOrder`, `LookForRivals` with one
`RefuseRival` for each row, and `CommitAcceptance` are the statements of `accept_offer`
with the row locks they take, and its commit; a circle of waiting calls ends in
`OfferCallFails`.  `late` is history: the offers that arrived too late for the UPDATE of
the rivals.  *Scans*: `StartReading` and
`FinishReading` are the two commits of `ocr_process_job`; `CheckScan` and
`CheckMatched` the reads before `ValidateScan` and `ApproveBill`.  *Pricing*:
`ReadJobs`, `ReadRules` and `InsertInvoice` are the parts of `create_invoice` that
other calls may come between.  *RoutePlans*: `LookForRun` and `InsertRun` are done
for each date, `CommitGeneration` once.  *RunOrder*: `ReadLastPlace`,
`AskForPlace` (the INSERT that may wait for another one), `InsertPlace`; `Negate`,
one `Renumber` for each UPDATE, and `CommitReorder` for a reorder.  *Planning*: `ReadOverlaps`, then
`AssignTour`; `Conflicts` and `ValidateAssignment` are the answers of the board.
*Settings*: `ClearDefaults`, then `SaveDefault`.  *Operations*: `WriteEntry` and
`CommitEntry` for the keyed registers, one step for the others.

### Upkeep

*Reminders*: a run of a daily task reads (`Start...`), decides invoice by invoice
(`Dun`) and commits once.  *Seeding*: a seed is one transaction; its
definitions list, table by table, what it inserts, and `Constrained` which tables
have a constraint for ON CONFLICT to notice.  *Repairs*: `FilePapers` is the first
commit of the backfill, `RecountPapers` the second.  *MissionNumbers*: see the head
of the module.  *Identifiers*: the state is what somebody typed and meant; a
letter of an IBAN is the number from 10 to 35 that `validate_iban` puts for it.
*Uploads*: an upload is `Presign`, `PutObject`, `ConfirmUpload` and
`RecordPaper`; `GivesUp` is an exception of any of them, after which the last
request may still be served (`LateRecord`).  Two others write papers.
`PageUpload` is the compliance tab: its `uploadFile` does not look at the answer of the
PUT, so the document is posted with or without its object.  `FillLooks`, `FillCommits`
and `FillIsLost` are `backfill_compliance.py`, whose rows have no key; it commits all
its rows at once, here each has a step of its own, which allows more.  It writes entity
types in lower case and the API in upper case, so its files (`FilledFiles`) are not
those of the others.  *FleetSheets*: a row is the set of
groups of columns that hold a value; a PUT sets them all.

## 3. Runs

| Run | Instance | Shows |
|---|---|---|
| `invoicing` | 2 invoices, 1 credit note, 3 calls, 2 workers, 2 months | unique numbers, `HolesAreRenumberings`, PDF keys, refinement of `GaplessNumbering` |
| `invoicing_live` | 1 invoice, 1 credit note, 3 calls, 1 worker, 2 months | every validation that passed its check ends |
| `invoicing_continuous` | as above, 1 month | **violation** of RG-A-020 |
| `missions` | 1 mission, 1 POD, 1 dispute, 2 sessions | evidence, paperwork, audit log, refinement of `StaleLifecycle` |
| `route_runs` | 2 runs, 1 call, 1 manager, 1 daily task, 1 failure | closing once, refinement, eligible runs get closed |
| `route_runs_stuck` | 1 run, 2 calls, 1 daily task | **violation**: an overdue run stays open for ever |
| `payroll` | 2 drivers, 3 types (2 computed), 2 imports, 2 computations | no lost addition, drivers computed whole, replacement |
| `compliance` | 1 entity, 1 type, 2 documents, 2 calls, 2 scans, 2 alert levels, 2 days, 1 failure | alerts against flags, archived documents, expiry with alerts, RG-D-010 |
| `compliance_version` | 3 documents, 1 call at a time, 1 scan, 3 days | **violation** of RG-D-013 |
| `imports` | 2 keys of each kind, 2 sessions, 5 files of one to three rows, 2 jobs, 3 other calls, 2 days | keys stay unique (`TypeOK`), `is_active` follows `statut`, imports keep the statut and are atomic |
| `office` | 1 to 3 rows of each table, 2 overlapping calls | keys of every table, equal prices, one run per date, gapless claims, settled acceptances, approvals after a match |
| `upkeep` | 1 debt with 2 levels, 2 overlapping daily runs, 3 seeds, 2 backfills, 5 missions, 5 kinds of identifiers, 3 papers, 1 uploader, 2 cleanups and the backfill with 3 launches together | keys and constraints, slips, objects of the papers sent, the newest paper; liveness: every level reached is dunned |

Why these bounds.  *Invoicing*: two calls race for one draft while a third
validates another document of the same row; a credit note adds a second prefix
and a second month a second row; two workers overwrite each other's objects.
*Missions*: all of the properties are about one mission and what is attached to
it, and handlers touch one mission each, so one mission suffices; two sessions
are the least for a stale write, and since a session may start any number of
calls one after the other, chains of stale writes are covered.  Amounts are
empty in that run because no property of it looks at them.  *RouteRuns*: two
runs and two regulators are the least for a deadlock; one call at a time is
enough to write between the selection and the commit of a regulation.
`MaxFailures` bounds failures other than deadlocks: with infinitely many nothing
could be promised.  *Payroll*: two computations and two imports meet in every
pairing; the two files hold a repeated key, two different keys, and a type that
no computation writes.  *Compliance*: documents of different types or
entities share nothing but the scan, so one of each is enough for the hazards;
two documents make a version and its successor, two alert levels tell the last
level from the others, two days let a scan of yesterday commit today.  *Imports*: the
files hold the same two vehicles in opposite orders (a deadlock), a row without a
key, two rows with one nir (a refusal in the middle), rows that reach no statement,
and half of a vehicle's weights; the calls send the other half.  *Office* and
*upkeep* hold components that share no table in them: one is in focus in each
behaviour, because interleaving two that share nothing shows nothing.  Two calls
of each are the least for a stale read, three offers the least for a rival that
an acceptance did not see, two missions with two places for a clash of places,
one template with two dates for a generation that fails half-way; one price rule
below a limit tells the distances apart.  Two levels are the least for a level
that is overtaken, three days for a reminder before and a relance after the due
date; three papers of one file with a page of two, the upload and two cleanups are the least
for lists that contradict each other: papers expire, one cleanup is to reject the first and
the other, which was shown a later page, the second, which the first one keeps.  The papers
made at a whole second and the errors of an upload are bounded by one each.
`MaxLevelCalls` and `MaxCutOff` bound changes and crashes: a clerk
who changes the levels for ever, or a worker that always dies, leaves nothing to
promise.  The theorems of section 5 remove the bounds for the safety properties
they name.

Symmetry is used for interchangeable ids in runs without liveness only.
`CHECK_DEADLOCK FALSE` is set where the system really stops: in Invoicing, Payroll,
RouteRuns and Compliance a call or an execution is one id, and all of them may be used up
or everything may be done; in the other runs the bounds may be reached.

### Fairness

* `Invoicing!Fairness`: a running handler continues (weak fairness of `Commit`
  and `SendTask`); PostgreSQL serves the waiters of a row in turn, so a request
  waiting for a sequence row is not overtaken for ever (strong fairness of
  `TakeNumber`); workers take waiting tasks.  Failures, new calls and the
  calendar are not fair.
* `RouteRuns!Fairness`: the beat schedule starts the daily task every day
  (`celery_app.py`), a regulation continues, and PostgreSQL breaks deadlocks
  (`deadlock_timeout`).  Nobody is obliged to call an endpoint.

* `RemindersFairSpec` (in `MCUpkeep`: `UpkeepSpec`): the beat starts the dunning task
  every day and a run goes on until it commits; crashes are bounded, levels and
  invoices change as they like.  Reminders are not fair: after their window no run
  selects an invoice again.
* `ScansFairSpec` and `FleetFairSpec` state the most that could be assumed of the
  workers, for two promises that fail all the same (section 4).

Missions, Payroll, Compliance, Registry and the programs of SAF claim no liveness: nothing in them retries or repairs, except the next compliance scan, and what that
repairs depends on how long it takes against the calendar.

## 4. Promises the code does not keep

A statement whose comment in its module ends in "The code does not keep this"
says what the documents, a comment or a message of the code says, and TLC finds a
behaviour that breaks it.  Three of them are runs of their own:

1. `ContinuousNumbers` - RG-A-020 (`docs/02-modules-A-D.md:387`) wants continuous
   invoice numbers.  Two validations that read the same draft number it twice;
   the first number then belongs to no invoice.  `HolesAreRenumberings` shows
   that this is the only way to get a hole.
2. `OverdueGetsClosed` - two `dispatch` calls read a planned run; one of them dispatches
   it, the regulation closes it, and the other then puts it back to `DISPATCHED`
   with `regulated_at` set; `find_eligible_runs` skips stamped
   runs, so no later regulation closes it, against the docstring of the task.
   What does hold is `EligibleGetsClosed`.
3. `PresentAndValidIsOk` - RG-D-013 (`docs/02-modules-A-D.md:1905`).  Version 2 of a
   document expires; the next upload finds no `VALIDE` one and starts again at
   version 1, and `ORDER BY version DESC` keeps choosing the expired one.  No
   race is needed, only a sequence no test has.

The others are checked with the configuration in the second column, where the
INVARIANTS and PROPERTIES are replaced by the statement alone (those marked P are
action properties; without their symmetry line, if it has one).

| Statement | Configuration | What happens |
|---|---|---|
| `CancelledIsTerminal` | `MissionsCancelled.cfg` | a transition that read the mission before its cancellation writes after it (`docs/02-modules-A-D.md:1464`) |
| `MarginIsCurrent` | `MissionsMargin.cfg` | `update_mission` changes the sale and keeps `marge_brute` |
| `SubmittedIsFrozen` | `PayrollFrozen.cfg` | "Can only import into draft periods" is checked once at the head of the call |
| `OneAcceptedOffer`, `NoneIsLeftPending` (P), `OnlyPendingIsCancelled` (P) | `Office.cfg` | acceptances do not look at the statut; an offer sent or countered between the UPDATE of the rivals and the COMMIT stays open; a cancellation writes over an acceptance |
| `OneBillPerScan` | `Office.cfg` | two validations of one scan, or one before and one after a second reading |
| `OnlySalesRulesArePriced` | `Office.cfg` | rules of purchase have no customer and are charged to all |
| `LinesAddUp` | `Office.cfg` | lines are rounded to the cent, the total is the rounded sum of exact amounts |
| `CreditsNegate` | `Office.cfg` with a rule of negative rate in `SmallRules` | a credit note has minus the absolute amount |
| `OverlapIsWarned`, `AvailableIsFree`, `DeliveryFollowsLoading`, `ValidationAnswers` | `Office.cfg` | overlaps arise after the check; days are compared with `<`; a date moves alone; `date.fromisoformat` refuses a timestamp |
| `OneDefault`, `DefaultStays` (P), `StandardRatesStay` | `Office.cfg` | RG-A-012, "Au moins un compte ... par defaut", RG-A-030 |
| `ChargedOnce` | `Office.cfg` | TERMINE twice |
| `NegativeIsTemporary` | `Office.cfg` | a reorder with a partial list |
| `FortnightsAreTwoWeeks` | `Office.cfg` with `MaxDate = 400` | even ISO weeks are three weeks apart over a year of 53 weeks |
| `DuePlansArePlanned` | `FleetTrigger.cfg` on `Fleet` | the daily trigger names columns that no migration creates, fails on the first due plan and does nothing |
| `ScansGetRead` | `ScansFairSpec` of `Scans` | a message sent after the commit, or acknowledged before the work, is lost |
| `CountedRowsAreStored`, `AppliedIsFinal` (P), `PayloadsFit` | `Imports.cfg` | a refused row aborts the transaction of those counted; a preview makes an applied job applicable; weights of two calls meet in a row (RG-B-033) |
| `OneRelancePerLevel`, `OneReminder` | `Upkeep.cfg` | overlapping daily runs look before either commits |
| `NothingTwice`, `OneRulePerClient`, `NoSeedIsRefused` | `Upkeep.cfg` | drivers, vehicles and customers get fresh ids and are stored again by each run; `seed_saf` gives rules to the clients there were before its own; after `seed`, its platform user names a role id that ON CONFLICT has not stored |
| `PapersAreTheirOwn`, `AnotherFillAddsNothing` (P) | `Upkeep.cfg` | the backfill finds a driver by the family name alone and takes any of several, another one at the next run |
| `NextNumeroIsFree`, `MonthGoesThrough` | `Upkeep.cfg` | counting the missions of a month meets the numbers of a script that counts on |
| `ExtractorsAgree` | `Upkeep.cfg` | the Luhn sum of scans doubles the wrong digits of a SIRET |
| `KeepsLatest`, `ReportIsTrue`, `PapersHaveFiles` | `Upkeep.cfg` | timestamps at a whole second sort first; a POST that was served late counts as an error; the page posts a document whose PUT was refused, the backfill inserts some without a key (`docs/02-modules-A-D.md:1703`) |
| `PutKeepsTheRest` (P), `SheetFlagsAreSet` | `Upkeep.cfg` | a PUT sets every column, the ones it does not mention to NULL |

Seen while reading, and without a statement: the compliance scan reads `doc.doc_type`,
which its SELECT does not return, so no notification of an alert is ever sent
(`tasks.py:118`, swallowed by the `except`); the driver application names
`drivers.user_id`, `jobs.statut` and `proof_of_delivery.job_id`, which no migration
creates.

`create_invoice` may invoice a mission twice and two contiguous tiers of a price both
apply at their common bound, but nothing promises otherwise; rules per tonne,
pallet or hour charge nothing.

Three more promises about documents do not hold, for the same reason (a stale
read, an unguarded write), and have no run of their own.  Two
uploads that read one version, or a validation of an archived document, leave
two `VALIDE` documents of a type (RG-D-006).  Two scans that overlap both raise an alert
(RG-D-021): `AlertsMatchFlags` therefore counts the alerts of each scan.  And a
checklist that was computed before another commit may be stored after it; a scan
recalculates only what it has just expired or alerted and does not repair it.
`ModificationIsCounted` says what is left of RG-D-010: the checklist committed
*with* a change has seen that change.

## 5. Proofs

Every theorem is about the module's specification with arbitrary constants under
the assumption that the module states of them.  Most assumptions only keep apart
what the code keeps apart: ids that must not overlap, NULL being none of the
values, bounds that are natural numbers.  Those that say more:

* `PricingAssumption`, `RemindersAssumption` and `MissionNumbersAssumption` ask for
  finitely many missions, daily runs, and routes and days of the script's sheet,
  since a sum, a count or a numbering of them would otherwise be no number;
* `IdentifiersAssumption` asks that the identifiers somebody means are valid, and
  IBANs no longer than the 34 places of the standard;
* `RepairsAssumption` and `SheetsAssumption` ask that the lists name drivers and
  vehicles that there are.

None bounds calls, sessions, documents or lines.

* **Invoicing.**  Inductive invariant `Typed /\ LockProtectsSequence /\ Ledger`.
  `Typed` adds to the types which local variables are set where.  `Ledger` relates
  the set of numbers ever committed to the counters and to the documents: without
  it uniqueness is not inductive, because a renumbering drops the number from
  the document and nothing else would remember that it was used.  From it follow
  `NumbersAreUnique`, `HolesExplained`, `SequenceProtected` and `ImplementsSequencer`
  (`Commit` is the one step that issues a number; all others stutter).
  `Rendered` adds the history of the queue: a key that a worker holds or a document
  has was made from a number that this document had, so two documents can share no
  key (`PdfKeysOpenOwnPdfs`).
* **Missions.**  `Typed /\ Chronicle /\ Witnesses /\ Paperwork`.  A status proves
  nothing about the *present* when writes are stale, but it proves something
  about the *past*: each status had implies the ones it follows on were had
  (`Chronicle`), a call that has checked a POD has a witness that nobody can take
  away (`Witnesses`), and what is attached to a mission outlives its status
  (`Paperwork`).  Theorems `ClosingNeedsEvidence`, `PaperworkInOrder`,
  `AuditShowsDelivery`, `ImplementsLifecycle`.
* **RouteRuns.**  `Typed /\ Story /\ Claimed` with the safety properties themselves.
  `Claimed` carries what a regulation found at its selection through to its commit,
  whatever happened to the run since.  A commit of many runs is one step of
  `StaleLifecycle` (`ImplementsLifecycle`).
* **Payroll.**  `Phases /\ Origins /\ ImportDrafts /\ ComputationDrafts /\ SeenTogether`
  with the safety properties.  The uncommitted writes of an import are always
  *what is committed now* plus its lines so far, those of a computation delete
  exactly the rows it saw, because nobody else can write a held key; and a DELETE
  sees the computed variables of a driver all or none.  The two action properties
  `ImportsAddTheirFiles` and `ComputationsReplace` follow for the commit step.
* **Compliance.**  `Stages /\ Uploads /\ Made /\ Locks /\ CallWrites /\ ScanWrites` with
  the three safety invariants.  `Uploads`: an id that is being inserted is known to
  nobody else.  `CallWrites` and `ScanWrites` say how an uncommitted row differs from
  the committed one: a call changes the statut and keeps the flags; a scan adds
  exactly the flags of the alerts it inserted, and may make a row `EXPIRE` only if
  every level up to the present one is flagged or still to do.  Since nobody else
  can write a held row (`Locks`), this carries over to the commit.  `CInv` ties the
  checklist that is being computed to the documents: each finished line tells the
  state of the latest document among all that the transaction itself has written,
  and no change it made is forgotten by the recalculations it still has to do
  (`ModificationsAreCounted`).

* **Imports.**  `RegistryInv /\ JobsInv` of `ImportsProofs`.  The draft rows of an
  import or a call and the committed tables are *each* sound - one row per key and
  per nir, `is_active` as the statut says - and so is what each session
  sees of them; the rows of two sessions are apart, ids are given once, and a
  session has one transaction.  Hence
  `ImportsTypeCorrect`, `ActiveAlwaysAgrees`, `ImportsKeepStatuts`, and
  `ImportsAreAtomic`: only the commit touches the tables.
* **Office.**  One invariant for each of the ten components of `OfficeProofs`,
  composed in `OfficeInv`: a step of the run is a step of one component while the
  others stutter (`OfficeTypesCorrect`).
  *Claims*: a count is at most the number of claims of now, because none is deleted,
  and number count + 1 is free in the index only if it is exactly that
  (`IndexAdmitsTheNext`): an INSERT that succeeds is the next step of
  `GaplessNumbering` (`ClaimsAreGapless`), the abstract specification that
  `Invoicing` implements with a locked row.
  *Purchasing*: an offer that waits for an answer has arrived too late for an acceptance
  under way, or the acceptance has refused it already or has still to come to it
  (`NoneMissed`); at the commit nothing is left to come to (`AcceptancesSettle`).  *Scans*: what a call found matched cannot become unmatched
  (`CheckedIsMatched`, `ApprovalsFollowMatchings`).  *RoutePlans*: a generated code
  names its template and date (`GeneratedCodes`) and codes are unique among committed
  and uncommitted rows (`CodesAreUnique`), so runs are (`RunsAreGeneratedOnce`).
  *RunOrder*: rows written by a reorder are held by it (`DraftsAreHeld`) and each
  transaction sees distinct places, negative and positive ones together
  (`PlacesOfARunAreDistinct`).  *Pricing*: an invoice is priced by one reading of the
  rules (`SameDistancesCostTheSame`); that a sum of integers over a finite set is an
  integer (`PricingTypeCorrect`) goes by a least counterexample on cardinalities.
  *Operations*: an upsert under way is the only one of its key
  (`UpsertsAreExclusive`).  *Planning*, *Fleet*, *Settings*: a call still names rows
  that exist after any other call.
* **Uploads** (in `UpkeepProofs`, as all below).  `Shaped /\ KeysStored /\ Fates`.
  `KeysStored`: whatever the programs may still make a row of - the key of an upload past
  its PUT, a POST on its way - has its object already (`SentPapersCanBeOpened`); the keys
  of the page are other keys, and the backfill's rows have none.  `Fates`: a row is
  rejected only by the office, by a later row, or by a cleanup that knows a newer
  paper of the file, and what a cleanup still has to reject keeps such a witness
  however old its list gets (`LatestOutlivesCleanups`).  `RowsCounted` and `KeysPlaced`
  bound versions by places and keys by the last key given (`UploadsTypeCorrect`).
* **Identifiers.**  `SlipsAreShown` is arithmetic, for identifiers of any content.
  Luhn: changing one digit or exchanging two neighbours changes the weighted sum by a
  term of absolute value 1 to 9, except for 0 and 9 exchanged.  Modulo 97: the rest
  after place i follows from the rest before it, so two readings that differ once
  keep differing to the end, because 10 has an inverse; a digit of a TVA or NIR
  shifts the number by a multiple of a power of ten that is no multiple of 97.  An
  IBAN is read with its first four places at the end, and each letter as two digits;
  the slips at the seam are shown separately (`IbanShowsEnds`).  The proof found a slip
  that the code cannot show: letter and digit next to each other, B1 for 1B, M2 for
  2M, X3 for 3X, are the same digits (`ExchangedTwins`).
* **Reminders.**  `RemindersInv`: relances of a level are at most the calls of the
  office and the runs that overlap (`RelancesBounded`), because a run makes one only
  if it sees none (`RemindersTypeCorrect`).
* **MissionNumbers**, **Repairs**, **Seeding**, **FleetSheets.**  Used numbers stay
  finitely many and those of two transactions distinct (`NumerosAreUnique`); papers
  are added only where the owner has none of the type (`PapersAreSingle`); an INSERT
  of a template always names the constraint (`TemplatesStaySingle`).  `UpkeepTypesCorrect`
  puts the seven together as in `OfficeInv`.

A recursion over 0..n is handled by two lemmas of `UpkeepProofs` that need no
operator as a parameter: `Induction` about a *set* that holds 0 and each successor,
and `Recursion`, that a function which follows a step function exists; the sums
over finite sets in `OfficeProofs` go the same way.

Some theorems state what no run checks any more because it would only repeat
them: `SequenceProtected`, `CompletionLeavesTotals`, `RowsAreExclusive`,
`KeysAreExclusive`, `ValuesHaveOneBase`, which the others rest on.

Every invariant and every action property of a passing run is stated by a theorem.
Only model-checked: liveness (`EveryCallEnds`, `EligibleGetsClosed`, `RelancesCatchUp`),
which needs fairness and ENABLED, out of reach of the installed provers; and the
violations of section 4, which are counterexamples.

## 6. Not modelled

* **Content rather than control**: VAT, layout of PDFs and Factur-X, texts read by
  OCR and the classifier, parsing of CSV and XLSX files and the guessing of their
  columns, how hours are split in payroll, reports, dashboards, exports.
* **Rows without a protocol**: contacts, addresses and contracts of the master
  data, suppliers, the company and cost centers, notification settings,
  administration, onboarding, stops of templates, delivery points, goods and
  attachments of missions, templates and acknowledgements of compliance.  Each
  call is one statement on one row that no other call reads to decide anything.
* **Decided before a handler starts**: authentication, permissions and the tenant;
  every specification is about one tenant.
* **Code that changes nothing**: the driver application, whose statements name
  columns that do not exist, and `modules/routes`, which is not mounted.
* **The frontend**, but for the upload of a file (`Uploads`), calls one endpoint per user
  action; the specifications let any call come at any time.
* **Of the schema** the data migrations; of the scripts `fix_data`, `bootstrap` and
  the splitting of PDFs; of the workers `notification_dispatch` and the PDF of a
  CMR, which only send or render.

## 7. Plan

Done: invoicing, missions, runs and their order, templates, payroll, compliance,
purchasing, scans, pricing, reminders, fleet and claims, master data and imports,
planning, settings, operations, seeds and repairs, the programs of SAF; and the
proofs of all their safety properties.  Left, the most consequential first:

| | What | Why |
|---|---|---|
| 1 | `Compliance` composed with `assign_mission`, which reads `conformite_statut` | a driver may become blocked between the check and the assignment |
| 2 | `Pricing` composed with `Invoicing` and `Missions` | a mission invoiced twice, `FACTUREE` never reached by invoicing |
