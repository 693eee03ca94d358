------------------------------ MODULE Compliance ------------------------------
(***************************************************************************)
(* Documents of drivers, vehicles and subcontractors, the checklist that   *)
(* sums up whether an entity has the documents it must have, and the daily *)
(* scan that expires documents and raises alerts                           *)
(* (backend/app/modules/documents/router.py, compliance_scan_daily).       *)
(*                                                                         *)
(* Every call and every scan is one READ COMMITTED transaction: a SELECT   *)
(* sees what is committed and the transaction's own writes, a row that is  *)
(* written stays locked until the end, and no SELECT locks anything.  The  *)
(* checklist is a cache: it is computed by one SELECT per required type    *)
(* and stored at the end of whatever transaction touched the documents.    *)
(*                                                                         *)
(* One operation of the code is several steps here, one per statement that *)
(* other transactions can tell apart.                                      *)
(***************************************************************************)
EXTENDS Naturals, Sequences

CONSTANTS Entities,     \* drivers, vehicles, subcontractors of a tenant
          Types,        \* the active templates of an entity type
          Blocking,     \* those with bloquant = true
          Expiries,     \* bounds the expiration dates of documents, None for none
          Ahead,        \* Ahead[k]: days before expiry of the k-th alert
                        \* (60, 30, 15, 7, 0)
          Soon,         \* 60: how early a document counts as expiring
          Sessions,     \* calls of create, validate, reject and get checklist
          Scanners,     \* scans that may overlap: every worker runs a beat
          MaxDocs,      \* bounds the documents uploaded
          MaxCalls,     \* bounds the calls
          MaxDay,       \* bounds the calendar
          MaxFailures,  \* bounds transactions that fail other than by deadlock
          None

Docs    == 1..MaxDocs   \* in the order of created_at, the start of the upload
Levels  == 1..Len(Ahead)
Statuts == {"VALIDE", "EXPIRE", "ARCHIVE", "REJETE"}
Counted == {"VALIDE", "EXPIRE"}     \* not in ARCHIVE, REJETE, BROUILLON

Rows == [entity : Entities, type : Types, version : Nat \ {0},
         expires : Expiries, replaces : Docs \union {None},
         statut : Statuts, flags : SUBSET Levels]

\* One line of details: what the checklist says of a type, and of which document.
Items == [statut : {"OK", "EXPIRANT", "EXPIRE", "MANQUANT"},
          doc : Docs \union {None}]
Checklists == [Types -> Items]

Transactions == Sessions \union Scanners

VARIABLES
    \* tables documents, compliance_alerts, compliance_checklists
    doc,        \* doc[d]: the row, None before its INSERT
    alerts,     \* alerts[d][k][g]: alerts of level k that scanner g inserted
    alertDays,  \* the pairs <<entity, created_at>> of the alerts
    checklist,  \* checklist[e], and with it conformite_statut of the entity
    \* open transactions
    at,         \* "idle", "write", "scan" or "recalculate"
    own,        \* own[w][d]: the row w wrote and has not committed, or None
    target,     \* target[s]: the document of the call
    draft,      \* draft[s]: the row to INSERT, None in a validation
    day,        \* day[w]: the date w has taken
    level,      \* level[g]: 0 while g expires documents, then the alert level
    todo,       \* todo[g]: the documents the last statement of g returned
    fresh,      \* fresh[g]: the alerts g inserted and has not committed
    affected,   \* affected[g]: entities g has still to recalculate
    cur,        \* cur[w]: the entity w is recalculating
    items,      \* items[w][t]: what w has computed for cur[w]
    lists,      \* lists[w][e]: the checklist w stored and has not committed
    \* environment
    made,       \* uploads so far
    calls,      \* calls so far
    today,
    failures

tables  == <<doc, alerts, alertDays, checklist>>
callVars == <<target, draft>>
scanVars == <<level, todo, fresh, affected>>
recalcVars == <<cur, items, lists>>
env     == <<made, calls, today, failures>>
vars    == <<tables, at, own, day, callVars, scanVars, recalcVars, env>>

ASSUME ComplianceAssumption ==
    /\ Blocking \subseteq Types
    /\ Expiries \subseteq Nat \union {None}
    /\ Ahead \in Seq(Nat)
    /\ Soon \in Nat
    /\ Sessions \intersect Scanners = {}
    /\ {MaxDocs, MaxCalls, MaxDay, MaxFailures} \subseteq Nat
    /\ None \notin Nat \union Docs \union Entities \union Rows
                   \union Items \union Checklists

NoItems == [t \in Types |-> None]
NoRows  == [d \in Docs |-> None]
NoLists == [e \in Entities |-> None]

Init ==
    /\ doc = NoRows
    /\ alerts = [d \in Docs |-> [k \in Levels |-> [g \in Scanners |-> 0]]]
    /\ alertDays = {}
    /\ checklist = NoLists
    /\ at = [w \in Transactions |-> "idle"]
    /\ own = [w \in Transactions |-> NoRows]
    /\ target = [s \in Sessions |-> None]
    /\ draft = [s \in Sessions |-> None]
    /\ day = [w \in Transactions |-> 0]
    /\ level = [g \in Scanners |-> 0]
    /\ todo = [g \in Scanners |-> {}]
    /\ fresh = [g \in Scanners |-> {}]
    /\ affected = [g \in Scanners |-> {}]
    /\ cur = [w \in Transactions |-> None]
    /\ items = [w \in Transactions |-> NoItems]
    /\ lists = [w \in Transactions |-> NoLists]
    /\ made = 0
    /\ calls = 0
    /\ today = 0
    /\ failures = 0

-----------------------------------------------------------------------------
(* Reading and locking                                                      *)

\* The table documents as the statements of w see it.
Sees(w) == [d \in Docs |-> IF own[w][d] # None THEN own[w][d] ELSE doc[d]]

\* Nobody else holds the row of d, or the checklist of e.
FreeDoc(w, d)  == \A x \in Transactions \ {w} : own[x][d] = None
FreeList(w, e) == \A x \in Transactions \ {w} : lists[x][e] = None

Of(rows, e, t, statuts) ==
    {d \in Docs : /\ rows[d] # None
                  /\ rows[d].entity = e /\ rows[d].type = t
                  /\ rows[d].statut \in statuts}

\* ORDER BY version DESC, created_at DESC
Before(rows, d, x) ==
    \/ rows[x].version < rows[d].version
    \/ rows[x].version = rows[d].version /\ x <= d

\* d is the document that counts for type t of e, None if there is none.
IsCurrent(d, rows, e, t) ==
    LET ids == Of(rows, e, t, Counted)
    IN  IF ids = {} THEN d = None ELSE d \in ids /\ \A x \in ids : Before(rows, d, x)

StatutOf(row, date) ==
    IF row.statut = "EXPIRE" \/ (row.expires # None /\ row.expires < date) THEN "EXPIRE"
    ELSE IF row.expires # None /\ row.expires <= date + Soon THEN "EXPIRANT"
    ELSE "OK"

ItemOf(d, rows, date) ==
    [statut |-> IF d = None THEN "MANQUANT" ELSE StatutOf(rows[d], date), doc |-> d]

StatutGlobal(list) ==
    IF \E t \in Blocking : list[t].statut \in {"MANQUANT", "EXPIRE"} THEN "BLOQUANT"
    ELSE IF \E t \in Types : list[t].statut # "OK" THEN "A_REGULARISER"
    ELSE "OK"

-----------------------------------------------------------------------------
(* create_document, validate_document, reject_document, get checklist       *)

\* A call begins.
Call(s) ==
    /\ at[s] = "idle" /\ calls < MaxCalls
    /\ calls' = calls + 1

NextVersion(prev) == IF prev = None THEN 1 ELSE doc[prev].version + 1

\* The SELECT of the version to replace: a VALIDE one of the highest version,
\* if there is a VALIDE one at all.
IsPrevious(prev, e, t) ==
    LET ids == Of(doc, e, t, {"VALIDE"})
    IN  IF ids = {} THEN prev = None
        ELSE prev \in ids /\ \A x \in ids : doc[x].version <= doc[prev].version

\* Mistake ruled out by TypeOK: the INSERT puts the compliance_status into statut.
BeginCreateAsValid(s, e, t, prev, expires) ==
    /\ Call(s) /\ made < MaxDocs
    /\ IsPrevious(prev, e, t)
    /\ made' = made + 1
    /\ target' = [target EXCEPT ![s] = made + 1]
    /\ draft' = [draft EXCEPT ![s] =
                    [entity |-> e, type |-> t, version |-> NextVersion(prev),
                     expires |-> expires, replaces |-> prev,
                     statut |-> "valid", flags |-> {}]]
    /\ at' = [at EXCEPT ![s] = "write"]
    /\ UNCHANGED <<tables, own, day, scanVars, recalcVars, today, failures>>

BeginCreate(s, e, t, prev, expires) ==
    /\ Call(s) /\ made < MaxDocs
    /\ IsPrevious(prev, e, t)
    /\ made' = made + 1
    /\ target' = [target EXCEPT ![s] = made + 1]
    /\ draft' = [draft EXCEPT ![s] =
                    [entity |-> e, type |-> t, version |-> NextVersion(prev),
                     expires |-> expires, replaces |-> prev,
                     statut |-> "VALIDE", flags |-> {}]]
    /\ at' = [at EXCEPT ![s] = "write"]
    /\ UNCHANGED <<tables, own, day, scanVars, recalcVars, today, failures>>

\* The recalculation of e begins: it takes the date and the templates.
Recalculate(w, e) ==
    /\ at' = [at EXCEPT ![w] = "recalculate"]
    /\ cur' = [cur EXCEPT ![w] = e]
    /\ UNCHANGED <<items, lists>>

Archived(prev) == [doc[prev] EXCEPT !.statut = "ARCHIVE"]

\* Mistake ruled out by ArchivedIsReplaced: the archiving is committed at once.
WriteCreateCommits(s) ==
    /\ at[s] = "write" /\ draft[s] # None
    /\ draft[s].replaces # None => FreeDoc(s, draft[s].replaces)
    /\ own' = [own EXCEPT ![s][target[s]] = draft[s]]
    /\ doc' = IF draft[s].replaces = None THEN doc
              ELSE [doc EXCEPT ![draft[s].replaces] = Archived(draft[s].replaces)]
    /\ day' = [day EXCEPT ![s] = today]
    /\ Recalculate(s, draft[s].entity)
    /\ UNCHANGED <<alerts, alertDays, checklist, callVars, scanVars, env>>

\* The UPDATE of the version before, whatever became of it meanwhile, and the
\* INSERT.
WriteCreate(s) ==
    /\ at[s] = "write" /\ draft[s] # None
    /\ draft[s].replaces # None => FreeDoc(s, draft[s].replaces)
    /\ own' = [own EXCEPT ![s] =
                 [d \in Docs |->
                    IF d = target[s] THEN draft[s]
                    ELSE IF d = draft[s].replaces THEN Archived(d)
                    ELSE @[d]]]
    /\ day' = [day EXCEPT ![s] = today]
    /\ Recalculate(s, draft[s].entity)
    /\ UNCHANGED <<tables, callVars, scanVars, env>>

BeginValidate(s, d) ==
    /\ Call(s)
    /\ doc[d] # None
    /\ target' = [target EXCEPT ![s] = d]
    /\ at' = [at EXCEPT ![s] = "write"]
    /\ UNCHANGED <<tables, own, day, draft, scanVars, recalcVars, made, today, failures>>

\* The UPDATE by id, whatever the document's statut is.
WriteValidate(s, statut) ==
    /\ at[s] = "write" /\ draft[s] = None
    /\ FreeDoc(s, target[s])
    /\ own' = [own EXCEPT ![s][target[s]] = [doc[target[s]] EXCEPT !.statut = statut]]
    /\ day' = [day EXCEPT ![s] = today]
    /\ Recalculate(s, doc[target[s]].entity)
    /\ UNCHANGED <<tables, callVars, scanVars, env>>

GetChecklist(s, e) ==
    /\ Call(s)
    /\ day' = [day EXCEPT ![s] = today]
    /\ Recalculate(s, e)
    /\ UNCHANGED <<tables, own, callVars, scanVars, made, today, failures>>

-----------------------------------------------------------------------------
(* recalculate_compliance, _recalculate_compliance_sync                     *)

\* The SELECT of the document that counts for type t.
ReadItem(w, t) ==
    /\ cur[w] # None
    /\ items[w][t] = None
    /\ \E d \in Docs \union {None} :
          /\ IsCurrent(d, Sees(w), cur[w], t)
          /\ items' = [items EXCEPT ![w][t] = ItemOf(d, Sees(w), day[w])]
    /\ UNCHANGED <<tables, at, own, day, callVars, scanVars, cur, lists, env>>

\* INSERT ... ON CONFLICT DO UPDATE of the checklist, then the UPDATE of the
\* entity.
StoreChecklist(w) ==
    /\ cur[w] # None
    /\ \A t \in Types : items[w][t] # None
    /\ FreeList(w, cur[w])
    /\ lists' = [lists EXCEPT ![w][cur[w]] = items[w]]
    /\ items' = [items EXCEPT ![w] = NoItems]
    /\ cur' = [cur EXCEPT ![w] = None]
    /\ UNCHANGED <<tables, at, own, day, callVars, scanVars, env>>

-----------------------------------------------------------------------------
(* compliance_scan_daily                                                    *)

\* The rows that the UPDATE of step 1 selects.
Overdue(rows, date) ==
    {d \in Docs : /\ rows[d] # None
                  /\ rows[d].statut = "VALIDE"
                  /\ rows[d].expires # None /\ rows[d].expires < date}

\* Mistake ruled out by ExpiredIsAlerted: the alerts are for VALIDE documents.
DueValide(rows, date, k) ==
    {d \in Docs : /\ rows[d] # None
                  /\ rows[d].statut = "VALIDE"
                  /\ rows[d].expires # None /\ rows[d].expires <= date + Ahead[k]
                  /\ k \notin rows[d].flags}

\* The documents that are due an alert of level k.
Due(rows, date, k) ==
    {d \in Docs : /\ rows[d] # None
                  /\ rows[d].statut \in {"VALIDE", "EXPIRE"}
                  /\ rows[d].expires # None /\ rows[d].expires <= date + Ahead[k]
                  /\ k \notin rows[d].flags}

BeginScan(g) ==
    /\ at[g] = "idle"
    /\ at' = [at EXCEPT ![g] = "scan"]
    /\ day' = [day EXCEPT ![g] = today]
    /\ todo' = [todo EXCEPT ![g] = Overdue(doc, today)]
    /\ UNCHANGED <<tables, own, callVars, level, fresh, affected, recalcVars, env>>

\* The UPDATE of step 1 comes to row d; if it had to wait for d, PostgreSQL
\* looks at the condition again.
ExpireRow(g, d) ==
    /\ level[g] = 0 /\ d \in todo[g]
    /\ FreeDoc(g, d)
    /\ todo' = [todo EXCEPT ![g] = @ \ {d}]
    /\ own' = IF d \in Overdue(doc, day[g])
              THEN [own EXCEPT ![g][d] = [doc[d] EXCEPT !.statut = "EXPIRE"]]
              ELSE own
    /\ UNCHANGED <<tables, at, day, callVars, level, fresh, affected, recalcVars, env>>

\* The SELECT of the documents of the next level.
SelectDue(g) ==
    /\ at[g] = "scan" /\ todo[g] = {} /\ level[g] < Len(Ahead)
    /\ level' = [level EXCEPT ![g] = @ + 1]
    /\ todo' = [todo EXCEPT ![g] = Due(Sees(g), day[g], level[g] + 1)]
    /\ UNCHANGED <<tables, at, own, day, callVars, fresh, affected, recalcVars, env>>

\* Mistake ruled out by AlertsMatchFlags: the alert leaves no flag.
AlertUnflagged(g, d) ==
    /\ level[g] > 0 /\ d \in todo[g]
    /\ FreeDoc(g, d)
    /\ todo' = [todo EXCEPT ![g] = @ \ {d}]
    /\ fresh' = [fresh EXCEPT ![g] = @ \union {<<d, level[g]>>}]
    /\ UNCHANGED <<tables, at, own, day, callVars, level, affected, recalcVars, env>>

\* The INSERT of an alert, and the UPDATE of the flag, which looks at nothing
\* but the id.  The documents come in no particular order.
Alert(g, d) ==
    /\ level[g] > 0 /\ d \in todo[g]
    /\ FreeDoc(g, d)
    /\ todo' = [todo EXCEPT ![g] = @ \ {d}]
    /\ fresh' = [fresh EXCEPT ![g] = @ \union {<<d, level[g]>>}]
    /\ own' = [own EXCEPT ![g][d] = [Sees(g)[d] EXCEPT !.flags = @ \union {level[g]}]]
    /\ UNCHANGED <<tables, at, day, callVars, level, affected, recalcVars, env>>

\* Entities of documents that g has expired.
ExpiredBy(g) ==
    {own[g][d].entity : d \in {x \in Docs : /\ own[g][x] # None
                                            /\ own[g][x].statut = "EXPIRE"
                                            /\ doc[x].statut = "VALIDE"}}

\* Entities that have got an alert since the day of g began.
AlertedSince(g) ==
    {doc[a[1]].entity : a \in fresh[g]}
        \union {a[1] : a \in {x \in alertDays : x[2] >= day[g]}}

\* Mistake ruled out by ModificationIsCounted: documents that expire long after
\* their last alert are forgotten.
CollectAlerted(g) ==
    /\ at[g] = "scan" /\ todo[g] = {} /\ level[g] = Len(Ahead)
    /\ at' = [at EXCEPT ![g] = "recalculate"]
    /\ affected' = [affected EXCEPT ![g] = AlertedSince(g)]
    /\ UNCHANGED <<tables, own, day, callVars, level, todo, fresh, recalcVars, env>>

CollectAffected(g) ==
    /\ at[g] = "scan" /\ todo[g] = {} /\ level[g] = Len(Ahead)
    /\ at' = [at EXCEPT ![g] = "recalculate"]
    /\ affected' = [affected EXCEPT ![g] = ExpiredBy(g) \union AlertedSince(g)]
    /\ UNCHANGED <<tables, own, day, callVars, level, todo, fresh, recalcVars, env>>

\* The entities are a set of Python: they come in no particular order.
NextEntity(g, e) ==
    /\ at[g] = "recalculate" /\ cur[g] = None
    /\ e \in affected[g]
    /\ affected' = [affected EXCEPT ![g] = @ \ {e}]
    /\ cur' = [cur EXCEPT ![g] = e]
    /\ UNCHANGED <<tables, at, own, day, callVars, level, todo, fresh, items, lists, env>>

-----------------------------------------------------------------------------
(* The end of a transaction                                                 *)

Forget(w) ==
    /\ at' = [at EXCEPT ![w] = "idle"]
    /\ own' = [own EXCEPT ![w] = NoRows]
    /\ day' = [day EXCEPT ![w] = 0]
    /\ cur' = [cur EXCEPT ![w] = None]
    /\ items' = [items EXCEPT ![w] = NoItems]
    /\ lists' = [lists EXCEPT ![w] = NoLists]

ForgetCall(s) ==
    /\ target' = [target EXCEPT ![s] = None]
    /\ draft' = [draft EXCEPT ![s] = None]
    /\ UNCHANGED scanVars

ForgetScan(g) ==
    /\ level' = [level EXCEPT ![g] = 0]
    /\ todo' = [todo EXCEPT ![g] = {}]
    /\ fresh' = [fresh EXCEPT ![g] = {}]
    /\ affected' = [affected EXCEPT ![g] = {}]
    /\ UNCHANGED callVars

\* What w wrote becomes visible.
Publish(w) ==
    /\ doc' = Sees(w)
    /\ checklist' = [e \in Entities |->
                       IF lists[w][e] # None THEN lists[w][e] ELSE checklist[e]]

CommitCall(s) ==
    /\ at[s] = "recalculate" /\ cur[s] = None
    /\ Publish(s)
    /\ Forget(s) /\ ForgetCall(s)
    /\ UNCHANGED <<alerts, alertDays, env>>

CommitScan(g) ==
    /\ at[g] = "recalculate" /\ cur[g] = None /\ affected[g] = {}
    /\ Publish(g)
    /\ alerts' = [d \in Docs |-> [k \in Levels |->
                    IF <<d, k>> \in fresh[g] THEN [alerts[d][k] EXCEPT ![g] = @ + 1]
                    ELSE alerts[d][k]]]
    /\ alertDays' = alertDays \union {<<doc[a[1]].entity, day[g]>> : a \in fresh[g]}
    /\ Forget(g) /\ ForgetScan(g)
    /\ UNCHANGED env

Rollback(w) ==
    /\ at[w] # "idle"
    /\ Forget(w)
    /\ IF w \in Sessions THEN ForgetCall(w) ELSE ForgetScan(w)
    /\ UNCHANGED <<tables, made, calls, today>>

\* A statement fails (a date that is no date, after the archiving), or the
\* process ends.
Fail(w) ==
    /\ failures < MaxFailures
    /\ failures' = failures + 1
    /\ Rollback(w)

\* g waits for a row that h holds.
WaitsFor(g, h) ==
    \/ \E d \in todo[g] : own[h][d] # None
    \/ /\ cur[g] # None
       /\ \A t \in Types : items[g][t] # None
       /\ lists[h][cur[g]] # None

\* Two scans wait for each other, and PostgreSQL fails one of them.  A call
\* holds one document when it asks for the checklist and cannot be part of a
\* cycle.
Deadlock(g, h) ==
    /\ g # h
    /\ WaitsFor(g, h) /\ WaitsFor(h, g)
    /\ Rollback(g)
    /\ UNCHANGED failures

DayPasses ==
    /\ today < MaxDay
    /\ today' = today + 1
    /\ UNCHANGED <<tables, at, own, day, callVars, scanVars, recalcVars, made, calls, failures>>

-----------------------------------------------------------------------------
BeginCall(s) ==
    \/ \E e \in Entities, t \in Types, prev \in Docs \union {None},
          expires \in Expiries : BeginCreate(s, e, t, prev, expires)
    \/ \E d \in Docs : BeginValidate(s, d)
    \/ \E e \in Entities : GetChecklist(s, e)

AdvanceCall(s) ==
    \/ WriteCreate(s)
    \/ \E statut \in {"VALIDE", "REJETE"} : WriteValidate(s, statut)
    \/ \E t \in Types : ReadItem(s, t)
    \/ StoreChecklist(s)
    \/ CommitCall(s)

AdvanceScan(g) ==
    \/ \E d \in Docs : ExpireRow(g, d) \/ Alert(g, d)
    \/ SelectDue(g) \/ CollectAffected(g)
    \/ \E e \in Entities : NextEntity(g, e)
    \/ \E t \in Types : ReadItem(g, t)
    \/ StoreChecklist(g)
    \/ CommitScan(g)

Next ==
    \/ \E s \in Sessions : BeginCall(s) \/ AdvanceCall(s)
    \/ \E g \in Scanners : BeginScan(g) \/ AdvanceScan(g)
    \/ \E w \in Transactions : Fail(w)
    \/ \E g, h \in Scanners : Deadlock(g, h)
    \/ DayPasses

Spec == Init /\ [][Next]_vars

-----------------------------------------------------------------------------
(* Properties                                                              *)

\* Every variable has a value of its type.
TypeOK ==
    /\ doc \in [Docs -> Rows \union {None}]
    /\ alerts \in [Docs -> [Levels -> [Scanners -> Nat]]]
    /\ alertDays \subseteq Entities \X (0..MaxDay)
    /\ checklist \in [Entities -> Checklists \union {None}]
    /\ at \in [Transactions -> {"idle", "write", "scan", "recalculate"}]
    /\ own \in [Transactions -> [Docs -> Rows \union {None}]]
    /\ target \in [Sessions -> Docs \union {None}]
    /\ draft \in [Sessions -> Rows \union {None}]
    /\ day \in [Transactions -> 0..MaxDay]
    /\ level \in [Scanners -> 0..Len(Ahead)]
    /\ todo \in [Scanners -> SUBSET Docs]
    /\ fresh \in [Scanners -> SUBSET (Docs \X Levels)]
    /\ affected \in [Scanners -> SUBSET Entities]
    /\ cur \in [Transactions -> Entities \union {None}]
    /\ items \in [Transactions -> [Types -> Items \union {None}]]
    /\ lists \in [Transactions -> [Entities -> Checklists \union {None}]]
    /\ made \in 0..MaxDocs
    /\ calls \in 0..MaxCalls
    /\ today \in 0..MaxDay
    /\ failures \in 0..MaxFailures

\* The flag alerte_jNN_envoyee of a document, which uploads and validations
\* write around, tells exactly whether the alert exists, and no scan raises an
\* alert twice; only two scans that overlap may both raise it.
AlertsMatchFlags ==
    \A d \in Docs, k \in Levels :
        /\ (\E g \in Scanners : alerts[d][k][g] > 0)
              <=> (doc[d] # None /\ k \in doc[d].flags)
        /\ \A g \in Scanners : alerts[d][k][g] <= 1

\* A document is archived only together with the next version of the same
\* type that takes its place, even if the upload fails half way.
ArchivedIsReplaced ==
    \A d \in Docs : doc[d] # None /\ doc[d].statut = "ARCHIVE" =>
        \E x \in Docs : /\ doc[x] # None
                        /\ doc[x].replaces = d
                        /\ doc[x].version = doc[d].version + 1
                        /\ doc[x].entity = doc[d].entity /\ doc[x].type = doc[d].type

\* No document expires early or silently: its date is past, and all its alerts,
\* those of a scan that comes late included, are there when it is EXPIRE.
ExpiredIsAlerted ==
    \A d \in Docs : doc[d] # None /\ doc[d].statut = "EXPIRE" =>
        doc[d].expires # None /\ doc[d].expires < today /\ doc[d].flags = Levels

\* What the checklist says of a document agrees with the document's row.
Agrees(item, row) ==
    \/ row.statut = "VALIDE" /\ item.statut \in {"OK", "EXPIRANT", "EXPIRE"}
    \/ row.statut = "EXPIRE" /\ item.statut = "EXPIRE"

\* RG-D-010: whatever changes a document, call or scan, commits with it a
\* checklist of the entity that has seen the change: the line of the type
\* agrees with the new row or is about a document that ranks before it.
ModificationIsCounted ==
    [][\A d \in Docs : doc'[d] # doc[d] =>
         LET list == checklist'[doc'[d].entity]
             item == list[doc'[d].type]
         IN  /\ list # None
             /\ item.doc = d => Agrees(item, doc'[d])
             /\ doc'[d].statut \in Counted =>
                  item.doc # None /\ Before(doc', item.doc, d)]_vars

\* A document that nothing replaced, VALIDE and not about to expire.
InForce(d) ==
    /\ doc[d] # None /\ doc[d].statut = "VALIDE"
    /\ \A x \in Docs : doc[x] # None => doc[x].replaces # d
    /\ StatutOf(doc[d], today) = "OK"

\* RG-D-013: "Si tous les documents requis sont presents et valides, le statut
\* est OK", when it is computed now.
PresentAndValidIsOk ==
    \A e \in Entities :
        (\A t \in Types :
            /\ Of(doc, e, t, {"VALIDE"}) # {}
            /\ \A d \in Of(doc, e, t, {"VALIDE"}) : InForce(d))
        => LET current == [t \in Types |->
                             CHOOSE d \in Docs \union {None} : IsCurrent(d, doc, e, t)]
           IN  StatutGlobal([t \in Types |-> ItemOf(current[t], doc, today)]) = "OK"

=============================================================================
