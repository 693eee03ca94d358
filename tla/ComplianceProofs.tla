--------------------------- MODULE ComplianceProofs ---------------------------
(***************************************************************************)
(* Proofs about Compliance, for any number of documents, calls and scans   *)
(* that overlap in any way.                                                *)
(***************************************************************************)
EXTENDS Compliance, TLAPS

\* The columns of a row that no UPDATE changes.
Same(row, old) ==
    /\ row.entity = old.entity /\ row.type = old.type
    /\ row.version = old.version /\ row.expires = old.expires
    /\ row.replaces = old.replaces

\* What TypeOK does not say of the stages of a transaction.
Stages ==
    /\ \A w \in Transactions : at[w] \in {"idle", "write"} => own[w] = NoRows
    /\ \A w \in Transactions : day[w] <= today
    /\ \A s \in Sessions : /\ at[s] # "scan"
                           /\ at[s] = "idle" => draft[s] = None
                           /\ at[s] = "write" => target[s] # None
                           /\ at[s] = "write" /\ draft[s] = None => doc[target[s]] # None
    /\ \A g \in Scanners :
          /\ at[g] # "write"
          /\ at[g] # "scan" => todo[g] = {}
          /\ at[g] = "idle" => level[g] = 0
          /\ level[g] = 0 => fresh[g] = {}
          /\ at[g] = "recalculate" => level[g] = Len(Ahead)

\* An upload has an id of its own, which nobody knows before it commits, and a
\* row for it that takes the place of a document of the same type.
Uploads ==
    \A s \in Sessions : draft[s] # None =>
        /\ target[s] # None /\ target[s] <= made
        /\ doc[target[s]] = None
        /\ \A x \in Sessions \ {s} : target[x] # target[s]
        /\ \A x \in Transactions \ {s} : own[x][target[s]] = None
        /\ draft[s].statut = "VALIDE" /\ draft[s].flags = {}
        /\ LET prev == draft[s].replaces
           IN  prev # None => /\ doc[prev] # None
                              /\ draft[s].version = doc[prev].version + 1
                              /\ draft[s].entity = doc[prev].entity
                              /\ draft[s].type = doc[prev].type

\* A document exists once its upload has begun.
Made == \A d \in Docs : made < d => /\ doc[d] = None
                                    /\ \A w \in Transactions : own[w][d] = None
                                    /\ \A s \in Sessions : target[s] # d

\* No two transactions have written one row.
Locks ==
    \A d \in Docs : \A w, x \in Transactions :
        own[w][d] # None /\ own[x][d] # None => w = x

\* What a call has written.
CallWrites ==
    \A s \in Sessions : \A d \in Docs : own[s][d] # None =>
        \/ /\ draft[s] # None /\ d = target[s] /\ own[s][d] = draft[s]
        \/ /\ doc[d] # None
           /\ Same(own[s][d], doc[d]) /\ own[s][d].flags = doc[d].flags
           /\ \/ own[s][d].statut \in {"VALIDE", "REJETE"}
              \/ /\ own[s][d].statut = "ARCHIVE"
                 /\ draft[s] # None /\ draft[s].replaces = d
                 /\ own[s][target[s]] = draft[s]

\* What a scan has written: flags of the alerts it inserted, and the statut of
\* documents that had expired.
ScanWrites ==
    \A g \in Scanners : \A d \in Docs :
        /\ own[g][d] # None =>
             /\ doc[d] # None
             /\ Same(own[g][d], doc[d])
             /\ own[g][d].flags = doc[d].flags \union {k \in Levels : <<d, k>> \in fresh[g]}
             /\ \/ own[g][d].statut = doc[d].statut
                \/ /\ own[g][d].statut = "EXPIRE"
                   /\ doc[d].expires # None /\ doc[d].expires < day[g]
                   /\ \A k \in 1..level[g] :
                         k \in own[g][d].flags \/ (k = level[g] /\ d \in todo[g])
        /\ d \in todo[g] => /\ doc[d] # None
                            /\ level[g] > 0 => alerts[d][level[g]][g] = 0
        /\ \A k \in Levels : <<d, k>> \in fresh[g] =>
             own[g][d] # None /\ alerts[d][k][g] = 0

IInv == /\ Stages
        /\ Uploads
        /\ Made
        /\ Locks
        /\ CallWrites
        /\ ScanWrites
        /\ AlertsMatchFlags
        /\ ArchivedIsReplaced
        /\ ExpiredIsAlerted

\* What the line of a checklist that w has computed says of type t of e is true
\* of every row of that type that w has written.
Tells(w, item, e, t) ==
    /\ item.doc # None => Sees(w)[item.doc] # None
    /\ \A d \in Docs : own[w][d] # None /\ own[w][d].entity = e /\ own[w][d].type = t =>
          /\ item.doc = d => Agrees(item, own[w][d])
          /\ own[w][d].statut \in Counted =>
               item.doc # None /\ Before(Sees(w), item.doc, d)

\* The lines and checklists that w has computed, from the rows it had written.
Computed(w) ==
    /\ at[w] # "recalculate" => cur[w] = None /\ lists[w] = NoLists
    /\ cur[w] = None => items[w] = NoItems
    /\ \A t \in Types : items[w][t] # None => Tells(w, items[w][t], cur[w], t)
    /\ \A e \in Entities, t \in Types :
          lists[w][e] # None => Tells(w, lists[w][e][t], e, t)

\* The checklist of e is stored by w, or will be before w ends.
Recalculates(w, e) ==
    \/ e = cur[w]
    \/ lists[w][e] # None
    \/ w \in Scanners /\ e \in affected[w]

\* No change that w has made is forgotten by its recalculations.
Outstanding(w) ==
    at[w] = "recalculate" =>
        \A d \in Docs : own[w][d] # None /\ own[w][d] # doc[d] =>
            Recalculates(w, own[w][d].entity)

\* A scan changes only the statut of documents that were VALIDE.
ValidExpires ==
    \A g \in Scanners, d \in Docs : own[g][d] # None =>
        \/ own[g][d].statut = doc[d].statut
        \/ own[g][d].statut = "EXPIRE" /\ doc[d].statut = "VALIDE"

CInv == /\ ValidExpires
        /\ \A w \in Transactions : Computed(w) /\ Outstanding(w)

-----------------------------------------------------------------------------
(* Types                                                                    *)

LEMMA InitTyped == Init => TypeOK
  BY ComplianceAssumption
  DEF Init, TypeOK, NoRows, NoItems, NoLists, Levels, Transactions

\* What a statement sees of a document is a row or nothing.
LEMMA SeesTyped ==
    ASSUME TypeOK, NEW w \in Transactions
    PROVE  Sees(w) \in [Docs -> Rows \union {None}]
  BY DEF TypeOK, Sees

\* The row that create_document is going to insert.
NewRow(e, t, prev, expires) ==
    [entity |-> e, type |-> t, version |-> NextVersion(prev), expires |-> expires,
     replaces |-> prev, statut |-> "VALIDE", flags |-> {}]

LEMMA NewRowTyped ==
    ASSUME TypeOK, NEW e \in Entities, NEW t \in Types,
           NEW prev \in Docs \union {None}, NEW expires \in Expiries,
           IsPrevious(prev, e, t)
    PROVE  NewRow(e, t, prev, expires) \in Rows
  <1>1. NextVersion(prev) \in Nat \ {0}
    <2>1. CASE prev = None
      BY <2>1 DEF NextVersion
    <2>2. CASE prev # None
      <3>1. doc[prev] \in Rows
        BY <2>2 DEF IsPrevious, Of, TypeOK
      <3> QED
        BY <2>2, <3>1 DEF NextVersion, Rows
    <2> QED
      BY <2>1, <2>2
  <1> QED
    BY <1>1 DEF NewRow, Rows, Statuts

LEMMA BeginCreateTyped ==
    ASSUME TypeOK, NEW s \in Sessions, NEW e \in Entities, NEW t \in Types,
           NEW prev \in Docs \union {None}, NEW expires \in Expiries,
           BeginCreate(s, e, t, prev, expires)
    PROVE  TypeOK'
  <1> USE ComplianceAssumption
  <1>1. made + 1 \in Docs /\ made' \in 0..MaxDocs /\ calls' \in 0..MaxCalls
    BY DEF BeginCreate, Call, TypeOK, Docs
  <1>2. NewRow(e, t, prev, expires) \in Rows
    BY NewRowTyped DEF BeginCreate
  <1> QED
    BY <1>1, <1>2
    DEF BeginCreate, NewRow, TypeOK, tables, scanVars, recalcVars

LEMMA WriteCreateTyped ==
    ASSUME TypeOK, Uploads, NEW s \in Sessions, WriteCreate(s)
    PROVE  TypeOK'
  <1> USE ComplianceAssumption DEF Transactions
  <1>1. draft[s] \in Rows
    BY DEF WriteCreate, TypeOK
  <1>2. \A d \in Docs : d = draft[s].replaces => Archived(d) \in Rows
    <2> SUFFICES ASSUME NEW d \in Docs, d = draft[s].replaces PROVE Archived(d) \in Rows
      OBVIOUS
    <2>1. doc[d] \in Rows
      BY DEF WriteCreate, Uploads, TypeOK, Docs
    <2> QED
      BY <2>1 DEF Archived, Rows, Statuts
  <1>3. own' \in [Transactions -> [Docs -> Rows \union {None}]]
    BY <1>1, <1>2 DEF WriteCreate, TypeOK
  <1>4. draft[s].entity \in Entities
    BY <1>1 DEF Rows
  <1> QED
    BY <1>3, <1>4
    DEF WriteCreate, Recalculate, TypeOK, tables, callVars, scanVars, env

LEMMA WriteValidateTyped ==
    ASSUME TypeOK, Stages, NEW s \in Sessions, NEW statut \in {"VALIDE", "REJETE"},
           WriteValidate(s, statut)
    PROVE  TypeOK'
  <1> USE ComplianceAssumption DEF Transactions
  <1>1. target[s] \in Docs /\ doc[target[s]] \in Rows
    BY DEF WriteValidate, Stages, TypeOK
  <1>2. [doc[target[s]] EXCEPT !.statut = statut] \in Rows
    BY <1>1 DEF Rows, Statuts
  <1>3. doc[target[s]].entity \in Entities
    BY <1>1 DEF Rows
  <1>4. own' \in [Transactions -> [Docs -> Rows \union {None}]]
    BY <1>2 DEF WriteValidate, TypeOK
  <1> QED
    BY <1>3, <1>4
    DEF WriteValidate, Recalculate, TypeOK, tables, callVars, scanVars, env

LEMMA OtherCallsTyped ==
    ASSUME TypeOK, NEW s \in Sessions,
           \/ \E d \in Docs : BeginValidate(s, d)
           \/ \E e \in Entities : GetChecklist(s, e)
    PROVE  TypeOK'
  <1> USE ComplianceAssumption DEF Transactions
  <1>1. calls' \in 0..MaxCalls
    BY DEF BeginValidate, GetChecklist, Call, TypeOK
  <1>2. ASSUME NEW d \in Docs, BeginValidate(s, d) PROVE TypeOK'
    BY <1>1, <1>2 DEF BeginValidate, TypeOK, tables, scanVars, recalcVars
  <1>3. ASSUME NEW e \in Entities, GetChecklist(s, e) PROVE TypeOK'
    BY <1>1, <1>3 DEF GetChecklist, Recalculate, TypeOK, tables, callVars, scanVars
  <1> QED
    BY <1>2, <1>3

LEMMA RecalculationTyped ==
    ASSUME TypeOK, NEW w \in Transactions,
           (\E t \in Types : ReadItem(w, t)) \/ StoreChecklist(w)
    PROVE  TypeOK'
  <1> USE ComplianceAssumption DEF Transactions
  <1>1. ASSUME NEW t \in Types, ReadItem(w, t) PROVE TypeOK'
    <2>1. PICK d \in Docs \union {None} :
             items' = [items EXCEPT ![w][t] = ItemOf(d, Sees(w), day[w])]
      BY <1>1 DEF ReadItem
    <2>2. ItemOf(d, Sees(w), day[w]) \in Items
      BY DEF ItemOf, Items, StatutOf
    <2>3. items' \in [Transactions -> [Types -> Items \union {None}]]
      BY <2>1, <2>2 DEF TypeOK
    <2> QED
      BY <1>1, <2>3 DEF ReadItem, TypeOK, tables, callVars, scanVars, env
  <1>2. ASSUME StoreChecklist(w) PROVE TypeOK'
    <2>1. items[w] \in Checklists /\ cur[w] \in Entities
      BY <1>2 DEF StoreChecklist, TypeOK, Checklists
    <2>2. lists' \in [Transactions -> [Entities -> Checklists \union {None}]]
      BY <1>2, <2>1 DEF StoreChecklist, TypeOK
    <2>3. items' \in [Transactions -> [Types -> Items \union {None}]]
      BY <1>2 DEF StoreChecklist, TypeOK, NoItems
    <2> QED
      BY <1>2, <2>2, <2>3 DEF StoreChecklist, TypeOK, tables, callVars, scanVars, env
  <1> QED
    BY <1>1, <1>2

\* A transaction that is over leaves values of the right types behind.
LEMMA ForgetTyped ==
    ASSUME TypeOK, NEW w \in Transactions, Forget(w)
    PROVE  /\ at' \in [Transactions -> {"idle", "write", "scan", "recalculate"}]
           /\ own' \in [Transactions -> [Docs -> Rows \union {None}]]
           /\ day' \in [Transactions -> 0..MaxDay]
           /\ cur' \in [Transactions -> Entities \union {None}]
           /\ items' \in [Transactions -> [Types -> Items \union {None}]]
           /\ lists' \in [Transactions -> [Entities -> Checklists \union {None}]]
  <1>1. NoRows \in [Docs -> Rows \union {None}]
    BY DEF NoRows
  <1>2. NoItems \in [Types -> Items \union {None}]
    BY DEF NoItems
  <1>3. NoLists \in [Entities -> Checklists \union {None}]
    BY DEF NoLists
  <1>4. 0 \in 0..MaxDay
    BY ComplianceAssumption
  <1> QED
    BY <1>1, <1>2, <1>3, <1>4 DEF Forget, TypeOK

LEMMA ForgetScanTyped ==
    ASSUME TypeOK, NEW g \in Scanners, ForgetScan(g)
    PROVE  /\ level' \in [Scanners -> 0..Len(Ahead)]
           /\ todo' \in [Scanners -> SUBSET Docs]
           /\ fresh' \in [Scanners -> SUBSET (Docs \X Levels)]
           /\ affected' \in [Scanners -> SUBSET Entities]
           /\ target' = target /\ draft' = draft
  <1>1. 0 \in 0..Len(Ahead)
    BY ComplianceAssumption
  <1> QED
    BY <1>1 DEF ForgetScan, TypeOK, callVars

LEMMA ScanTyped ==
    ASSUME TypeOK, ScanWrites, NEW g \in Scanners,
           BeginScan(g) \/ AdvanceScan(g)
    PROVE  TypeOK'
  <1> USE ComplianceAssumption DEF Transactions
  <1>1. CASE BeginScan(g)
    BY <1>1
    DEF BeginScan, Overdue, TypeOK, tables, callVars, recalcVars, env
  <1>2. ASSUME NEW d \in Docs, ExpireRow(g, d) PROVE TypeOK'
    <2>1. d \in Overdue(doc, day[g]) => doc[d] \in Rows
      BY DEF Overdue, TypeOK
    <2>2. d \in Overdue(doc, day[g]) => [doc[d] EXCEPT !.statut = "EXPIRE"] \in Rows
      BY <2>1 DEF Rows, Statuts
    <2>3. own' \in [Transactions -> [Docs -> Rows \union {None}]]
      BY <1>2, <2>2 DEF ExpireRow, TypeOK
    <2> QED
      BY <1>2, <2>3 DEF ExpireRow, TypeOK, tables, callVars, recalcVars, env
  <1>3. ASSUME NEW d \in Docs, Alert(g, d) PROVE TypeOK'
    <2>1. level[g] \in Levels
      BY <1>3 DEF Alert, TypeOK, Levels
    <2>2. Sees(g)[d] \in Rows
      BY <1>3 DEF Alert, Sees, ScanWrites, TypeOK
    <2>3. [Sees(g)[d] EXCEPT !.flags = @ \union {level[g]}] \in Rows
      BY <2>1, <2>2 DEF Rows
    <2>4. own' \in [Transactions -> [Docs -> Rows \union {None}]]
      BY <1>3, <2>3 DEF Alert, TypeOK
    <2>5. fresh' \in [Scanners -> SUBSET (Docs \X Levels)]
      <3>1. fresh[g] \union {<<d, level[g]>>} \in SUBSET (Docs \X Levels)
        BY <2>1 DEF TypeOK
      <3> QED
        BY <1>3, <3>1 DEF Alert, TypeOK
    <2>6. todo' \in [Scanners -> SUBSET Docs]
      BY <1>3 DEF Alert, TypeOK
    <2>7. UNCHANGED <<tables, at, day, callVars, level, affected, recalcVars, env>>
      BY <1>3 DEF Alert
    <2> HIDE DEF Transactions
    <2> QED
      BY <2>4, <2>5, <2>6, <2>7 DEF TypeOK, tables, callVars, recalcVars, env
  <1>4. CASE SelectDue(g)
    <2>1. level' \in [Scanners -> 0..Len(Ahead)]
      BY <1>4, SMTT(30) DEF SelectDue, TypeOK
    <2>2. todo' \in [Scanners -> SUBSET Docs]
      BY <1>4 DEF SelectDue, Due, TypeOK
    <2>3. UNCHANGED <<tables, at, own, day, callVars, fresh, affected, recalcVars, env>>
      BY <1>4 DEF SelectDue
    <2> QED
      BY <2>1, <2>2, <2>3 DEF TypeOK, tables, callVars, recalcVars, env
  <1>5. CASE CollectAffected(g)
    <2>1. ExpiredBy(g) \subseteq Entities
      BY DEF ExpiredBy, TypeOK, Rows
    <2>2. \A a \in fresh[g] : doc[a[1]].entity \in Entities
      BY DEF ScanWrites, TypeOK, Rows
    <2>3. AlertedSince(g) \subseteq Entities
      BY <2>2 DEF AlertedSince, TypeOK
    <2>4. affected' \in [Scanners -> SUBSET Entities]
      BY <1>5, <2>1, <2>3 DEF CollectAffected, TypeOK
    <2> QED
      BY <1>5, <2>4 DEF CollectAffected, TypeOK, tables, callVars, recalcVars, env
  <1>6. ASSUME NEW e \in Entities, NextEntity(g, e) PROVE TypeOK'
    BY <1>6 DEF NextEntity, TypeOK, tables, callVars, env
  <1>7. CASE CommitScan(g)
    <2>1. doc' \in [Docs -> Rows \union {None}]
      BY <1>7, SeesTyped DEF CommitScan, Publish
    <2>2. checklist' \in [Entities -> Checklists \union {None}]
      BY <1>7 DEF CommitScan, Publish, TypeOK
    <2>3. alerts' \in [Docs -> [Levels -> [Scanners -> Nat]]]
      BY <1>7, SMTT(30) DEF CommitScan, TypeOK
    <2>4. \A a \in fresh[g] : doc[a[1]].entity \in Entities
      BY DEF ScanWrites, TypeOK, Rows
    <2>5. alertDays' \subseteq Entities \X (0..MaxDay)
      BY <1>7, <2>4 DEF CommitScan, TypeOK
    <2>6. Forget(g)
      BY <1>7 DEF CommitScan
    <2>7. ForgetScan(g)
      BY <1>7 DEF CommitScan
    <2>8. UNCHANGED env
      BY <1>7 DEF CommitScan
    <2> HIDE ComplianceAssumption
    <2> QED
      BY <2>1, <2>2, <2>3, <2>5, <2>6, <2>7, <2>8, ForgetTyped, ForgetScanTyped
      DEF TypeOK, env
  <1>8. CASE (\E t \in Types : ReadItem(g, t)) \/ StoreChecklist(g)
    BY <1>8, RecalculationTyped
  <1> QED
    BY <1>1, <1>2, <1>3, <1>4, <1>5, <1>6, <1>7, <1>8 DEF AdvanceScan

LEMMA EndsTyped ==
    ASSUME TypeOK,
           \/ \E s \in Sessions : CommitCall(s)
           \/ \E w \in Transactions : Rollback(w) /\ (failures' = failures \/ Fail(w))
           \/ DayPasses
    PROVE  TypeOK'
  <1> USE ComplianceAssumption DEF Transactions
  <1>4. ASSUME NEW s \in Sessions, CommitCall(s) PROVE TypeOK'
    <2>1. doc' \in [Docs -> Rows \union {None}]
      BY <1>4, SeesTyped DEF CommitCall, Publish
    <2>2. checklist' \in [Entities -> Checklists \union {None}]
      BY <1>4 DEF CommitCall, Publish, TypeOK
    <2>3. Forget(s)
      BY <1>4 DEF CommitCall
    <2> QED
      BY <1>4, <2>1, <2>2, <2>3, ForgetTyped
      DEF CommitCall, ForgetCall, TypeOK, scanVars, env
  <1>5. ASSUME NEW w \in Transactions, Rollback(w), failures' = failures \/ Fail(w)
        PROVE  TypeOK'
    <2>1. failures' \in 0..MaxFailures
      BY <1>5 DEF Fail, TypeOK
    <2>2. Forget(w)
      BY <1>5 DEF Rollback
    <2>3. CASE w \in Sessions
      <3>1. /\ target' \in [Sessions -> Docs \union {None}]
            /\ draft' \in [Sessions -> Rows \union {None}]
        BY <1>5, <2>3 DEF Rollback, ForgetCall, TypeOK
      <3>2. UNCHANGED <<tables, scanVars, made, calls, today>>
        BY <1>5, <2>3 DEF Rollback, ForgetCall
      <3> QED
        BY <2>1, <2>2, <3>1, <3>2, ForgetTyped DEF TypeOK, tables, scanVars
    <2>4. CASE w \notin Sessions
      <3>1. w \in Scanners /\ ForgetScan(w)
        BY <1>5, <2>4 DEF Rollback
      <3>2. UNCHANGED <<tables, made, calls, today>>
        BY <1>5 DEF Rollback
      <3> QED
        BY <2>1, <2>2, <3>1, <3>2, ForgetTyped, ForgetScanTyped DEF TypeOK, tables
    <2> QED
      BY <2>3, <2>4
  <1>6. CASE DayPasses
    BY <1>6 DEF DayPasses, TypeOK, tables, callVars, scanVars, recalcVars
  <1> QED
    BY <1>4, <1>5, <1>6

\* Every step keeps the types.
LEMMA NextTyped == ASSUME TypeOK, IInv, [Next]_vars PROVE TypeOK'
  <1>1. ASSUME NEW s \in Sessions, BeginCall(s) \/ AdvanceCall(s) PROVE TypeOK'
    BY <1>1, BeginCreateTyped, WriteCreateTyped, WriteValidateTyped, OtherCallsTyped,
       RecalculationTyped, EndsTyped
    DEF BeginCall, AdvanceCall, IInv, Transactions
  <1>2. ASSUME NEW g \in Scanners, BeginScan(g) \/ AdvanceScan(g) PROVE TypeOK'
    BY <1>2, ScanTyped DEF IInv
  <1>3. ASSUME NEW w \in Transactions, Fail(w) PROVE TypeOK'
    BY <1>3, EndsTyped DEF Fail
  <1>4. ASSUME NEW g \in Scanners, NEW h \in Scanners, Deadlock(g, h) PROVE TypeOK'
    BY <1>4, EndsTyped DEF Deadlock, Transactions
  <1>5. CASE DayPasses
    BY <1>5, EndsTyped
  <1>6. CASE UNCHANGED vars
    BY <1>6
    DEF vars, tables, callVars, scanVars, recalcVars, env, TypeOK
  <1> QED
    BY <1>1, <1>2, <1>3, <1>4, <1>5, <1>6 DEF Next

-----------------------------------------------------------------------------
(* The invariant                                                            *)

\* What the constants are not.
LEMMA Distinct ==
    /\ None \notin Docs /\ None \notin Rows
    /\ \A s \in Sessions : s \notin Scanners
    /\ Len(Ahead) \in Nat
  BY ComplianceAssumption

\* A document keeps what makes it a version of a type, whoever wrote it last.
LEMMA SeenIsSame ==
    ASSUME TypeOK, IInv, NEW w \in Transactions, NEW d \in Docs, doc[d] # None
    PROVE  Sees(w)[d] # None /\ Same(Sees(w)[d], doc[d])
  BY DEF IInv, Uploads, CallWrites, ScanWrites, Sees, Same, Transactions

LEMMA InitHolds == Init => IInv
  <1> SUFFICES ASSUME Init PROVE IInv
    OBVIOUS
  <1> USE Distinct DEF Init, NoRows, Transactions
  <1>1. Stages
    BY DEF Stages
  <1>2. Uploads /\ Made /\ Locks /\ CallWrites /\ ScanWrites
    BY DEF Uploads, Made, Locks, CallWrites, ScanWrites
  <1>3. AlertsMatchFlags /\ ArchivedIsReplaced /\ ExpiredIsAlerted
    BY DEF AlertsMatchFlags, ArchivedIsReplaced, ExpiredIsAlerted
  <1> QED
    BY <1>1, <1>2, <1>3 DEF IInv

\* A step that leaves the documents, the locks and the stages alone.
LEMMA QuietKeeps ==
    ASSUME IInv,
           UNCHANGED <<doc, alerts, at, own, target, draft, day, level, todo, fresh,
                       made, today>>
    PROVE  IInv'
  BY DEF IInv, Stages, Uploads, Made, Locks, CallWrites, ScanWrites,
         AlertsMatchFlags, ArchivedIsReplaced, ExpiredIsAlerted, Same

LEMMA RecalculationKeeps ==
    ASSUME IInv,
           \/ \E w \in Transactions, t \in Types : ReadItem(w, t)
           \/ \E w \in Transactions : StoreChecklist(w)
           \/ \E g \in Scanners, e \in Entities : NextEntity(g, e)
           \/ UNCHANGED vars
    PROVE  IInv'
  <1>1. UNCHANGED <<doc, alerts, at, own, target, draft, day, level, todo, fresh,
                    made, today>>
    BY DEF ReadItem, StoreChecklist, NextEntity, vars, tables, callVars, scanVars, env
  <1> QED
    BY <1>1, QuietKeeps

LEMMA BeginCreateKeeps ==
    ASSUME TypeOK, IInv, NEW s \in Sessions, NEW e \in Entities, NEW t \in Types,
           NEW prev \in Docs \union {None}, NEW expires \in Expiries,
           BeginCreate(s, e, t, prev, expires)
    PROVE  IInv'
  <1> USE Distinct DEF Transactions
  <1>1. /\ UNCHANGED <<doc, alerts, own, day, level, todo, fresh, today>>
        /\ at[s] = "idle"
        /\ made' = made + 1 /\ made + 1 \in Docs
        /\ target' = [target EXCEPT ![s] = made + 1]
        /\ at' = [at EXCEPT ![s] = "write"]
    BY ComplianceAssumption DEF BeginCreate, Call, TypeOK, Docs, tables, scanVars
  <1> DEFINE row == NewRow(e, t, prev, expires)
  <1>2. /\ draft' = [draft EXCEPT ![s] = row]
        /\ row # None
        /\ row.statut = "VALIDE" /\ row.flags = {}
        /\ row.replaces = prev
        /\ row.entity = e /\ row.type = t
        /\ row.version = NextVersion(prev)
    <2>1. row # None
      BY NewRowTyped DEF BeginCreate
    <2> QED
      BY <2>1 DEF BeginCreate, NewRow
  <1> HIDE DEF row
  <1>3. prev # None => /\ doc[prev] # None
                       /\ doc[prev].entity = e /\ doc[prev].type = t
                       /\ NextVersion(prev) = doc[prev].version + 1
    BY DEF BeginCreate, IsPrevious, Of, NextVersion
  <1>4. Stages'
    BY <1>1, <1>2 DEF IInv, Stages, TypeOK
  <1>5. Uploads'
    BY <1>1, <1>2, <1>3 DEF IInv, Uploads, Made, TypeOK, Docs
  <1>6. Made'
    BY <1>1 DEF IInv, Made, TypeOK, Docs
  <1>7. Locks' /\ ScanWrites'
    BY <1>1 DEF IInv, Locks, ScanWrites, Same
  <1>8. CallWrites'
    <2>1. \A d \in Docs : own[s][d] = None
      BY <1>1 DEF IInv, Stages, NoRows
    <2> QED
      BY <1>1, <1>2, <2>1 DEF IInv, CallWrites, Same, TypeOK
  <1>9. AlertsMatchFlags' /\ ArchivedIsReplaced' /\ ExpiredIsAlerted'
    BY <1>1 DEF IInv, AlertsMatchFlags, ArchivedIsReplaced, ExpiredIsAlerted
  <1> QED
    BY <1>4, <1>5, <1>6, <1>7, <1>8, <1>9 DEF IInv

LEMMA BeginValidateKeeps ==
    ASSUME TypeOK, IInv, NEW s \in Sessions, NEW d \in Docs, BeginValidate(s, d)
    PROVE  IInv'
  <1> USE Distinct DEF Transactions
  <1>1. /\ UNCHANGED <<doc, alerts, own, day, level, todo, fresh, today, draft, made>>
        /\ at[s] = "idle" /\ doc[d] # None
        /\ target' = [target EXCEPT ![s] = d]
        /\ at' = [at EXCEPT ![s] = "write"]
        /\ draft[s] = None
    BY DEF BeginValidate, Call, tables, scanVars, IInv, Stages
  <1>2. Stages'
    BY <1>1 DEF IInv, Stages, TypeOK
  <1>3. Uploads'
    BY <1>1 DEF IInv, Uploads, TypeOK
  <1>4. Made' /\ Locks' /\ ScanWrites'
    BY <1>1 DEF IInv, Made, Locks, ScanWrites, Same, TypeOK
  <1>5. CallWrites'
    <2>1. \A x \in Docs : own[s][x] = None
      BY <1>1 DEF IInv, Stages, NoRows
    <2> QED
      BY <1>1, <2>1 DEF IInv, CallWrites, Same, TypeOK
  <1>6. AlertsMatchFlags' /\ ArchivedIsReplaced' /\ ExpiredIsAlerted'
    BY <1>1 DEF IInv, AlertsMatchFlags, ArchivedIsReplaced, ExpiredIsAlerted
  <1> QED
    BY <1>2, <1>3, <1>4, <1>5, <1>6 DEF IInv

LEMMA GetChecklistKeeps ==
    ASSUME TypeOK, IInv, NEW s \in Sessions, NEW e \in Entities, GetChecklist(s, e)
    PROVE  IInv'
  <1> USE Distinct DEF Transactions
  <1>1. /\ UNCHANGED <<doc, alerts, own, level, todo, fresh, today, target, draft, made>>
        /\ at[s] = "idle"
        /\ day' = [day EXCEPT ![s] = today]
        /\ at' = [at EXCEPT ![s] = "recalculate"]
    BY DEF GetChecklist, Recalculate, Call, tables, callVars, scanVars
  <1>2. Stages'
    BY <1>1 DEF IInv, Stages, TypeOK
  <1>3. ScanWrites'
    BY <1>1 DEF IInv, ScanWrites, Same, TypeOK
  <1>4. Uploads' /\ Made' /\ Locks' /\ CallWrites'
    BY <1>1 DEF IInv, Uploads, Made, Locks, CallWrites, Same
  <1>5. AlertsMatchFlags' /\ ArchivedIsReplaced' /\ ExpiredIsAlerted'
    BY <1>1 DEF IInv, AlertsMatchFlags, ArchivedIsReplaced, ExpiredIsAlerted
  <1> QED
    BY <1>2, <1>3, <1>4, <1>5 DEF IInv

LEMMA WriteCreateKeeps ==
    ASSUME TypeOK, IInv, NEW s \in Sessions, WriteCreate(s)
    PROVE  IInv'
  <1> USE Distinct DEF Transactions
  <1> DEFINE new  == target[s]
             prev == draft[s].replaces
  <1>1. /\ UNCHANGED <<doc, alerts, level, todo, fresh, today, target, draft, made>>
        /\ at[s] = "write" /\ draft[s] # None
        /\ day' = [day EXCEPT ![s] = today]
        /\ at' = [at EXCEPT ![s] = "recalculate"]
    BY DEF WriteCreate, Recalculate, tables, callVars, scanVars, env
  <1>2. /\ new \in Docs /\ new <= made /\ doc[new] = None
        /\ prev \in Docs \union {None}
        /\ prev # None => doc[prev] # None
    <2>1. draft[s] \in Rows
      BY <1>1 DEF TypeOK
    <2>2. prev \in Docs \union {None}
      BY <2>1 DEF Rows
    <2> QED
      BY <1>1, <2>2 DEF TypeOK, IInv, Uploads
  <1>3. /\ \A w \in Transactions \ {s} : own'[w] = own[w]
        /\ \A d \in Docs : own'[s][d] = IF d = new THEN draft[s]
                                        ELSE IF d = prev THEN Archived(d) ELSE None
    BY <1>1 DEF WriteCreate, TypeOK, IInv, Stages, NoRows
  <1>4. prev # None => \A x \in Transactions \ {s} : own[x][prev] = None
    BY DEF WriteCreate, FreeDoc
  <1>5. Stages'
    BY <1>1, <1>3 DEF IInv, Stages, TypeOK
  <1>6. Uploads'
    <2> SUFFICES ASSUME NEW x \in Sessions, draft[x] # None, x # s
                 PROVE  own'[s][target[x]] = None
      BY <1>1, <1>3 DEF IInv, Uploads
    <2>1. target[x] \in Docs /\ target[x] # new /\ doc[target[x]] = None
      BY DEF IInv, Uploads, TypeOK
    <2> QED
      BY <1>2, <1>3, <2>1
  <1>7. Made'
    <2> SUFFICES ASSUME NEW d \in Docs, made < d PROVE own'[s][d] = None
      BY <1>1, <1>3 DEF IInv, Made
    <2>1. doc[d] = None /\ d # new
      BY <1>2 DEF IInv, Made
    <2> QED
      BY <1>2, <1>3, <2>1
  <1>8. Locks'
    BY <1>1, <1>2, <1>3, <1>4 DEF IInv, Locks, Uploads
  <1>9. CallWrites'
    <2>1. prev # None => /\ Same(Archived(prev), doc[prev])
                         /\ Archived(prev).flags = doc[prev].flags
                         /\ Archived(prev).statut = "ARCHIVE"
      BY <1>2 DEF Archived, Same, TypeOK, Rows
    <2> QED
      BY <1>1, <1>2, <1>3, <2>1 DEF IInv, CallWrites, Same
  <1>10. ScanWrites'
    BY <1>1, <1>3 DEF IInv, ScanWrites, Same, TypeOK
  <1>11. AlertsMatchFlags' /\ ArchivedIsReplaced' /\ ExpiredIsAlerted'
    BY <1>1 DEF IInv, AlertsMatchFlags, ArchivedIsReplaced, ExpiredIsAlerted
  <1> QED
    BY <1>5, <1>6, <1>7, <1>8, <1>9, <1>10, <1>11 DEF IInv

LEMMA WriteValidateKeeps ==
    ASSUME TypeOK, IInv, NEW s \in Sessions, NEW statut \in {"VALIDE", "REJETE"},
           WriteValidate(s, statut)
    PROVE  IInv'
  <1> USE Distinct DEF Transactions
  <1> DEFINE d   == target[s]
             row == [doc[d] EXCEPT !.statut = statut]
  <1>1. /\ UNCHANGED <<doc, alerts, level, todo, fresh, today, target, draft, made>>
        /\ at[s] = "write" /\ draft[s] = None
        /\ day' = [day EXCEPT ![s] = today]
        /\ at' = [at EXCEPT ![s] = "recalculate"]
    BY DEF WriteValidate, Recalculate, tables, callVars, scanVars, env
  <1>2. d \in Docs /\ doc[d] # None /\ doc[d] \in Rows
    BY <1>1 DEF TypeOK, IInv, Stages
  <1>3. /\ \A w \in Transactions \ {s} : own'[w] = own[w]
        /\ \A x \in Docs : own'[s][x] = IF x = d THEN row ELSE None
    BY <1>1, <1>2 DEF WriteValidate, TypeOK, IInv, Stages, NoRows
  <1>4. \A x \in Transactions \ {s} : own[x][d] = None
    BY DEF WriteValidate, FreeDoc
  <1>5. Stages'
    BY <1>1, <1>3 DEF IInv, Stages, TypeOK
  <1>6. Uploads'
    <2> SUFFICES ASSUME NEW x \in Sessions, draft[x] # None, x # s
                 PROVE  own'[s][target[x]] = None
      BY <1>1, <1>3 DEF IInv, Uploads
    <2>1. target[x] \in Docs /\ doc[target[x]] = None
      BY DEF IInv, Uploads, TypeOK
    <2> QED
      BY <1>2, <1>3, <2>1
  <1>7. Made'
    BY <1>1, <1>2, <1>3 DEF IInv, Made
  <1>8. Locks'
    BY <1>1, <1>3, <1>4 DEF IInv, Locks
  <1>9. CallWrites'
    <2>1. Same(row, doc[d]) /\ row.flags = doc[d].flags /\ row.statut = statut
      BY <1>2 DEF Same, Rows
    <2> HIDE DEF row
    <2>2. ASSUME NEW x \in Docs, own'[s][x] # None
          PROVE  /\ doc[x] # None /\ Same(own'[s][x], doc[x])
                 /\ own'[s][x].flags = doc[x].flags
                 /\ own'[s][x].statut \in {"VALIDE", "REJETE"}
      BY <1>2, <1>3, <2>1, <2>2
    <2> QED
      BY <1>1, <1>3, <2>2 DEF IInv, CallWrites, Same
  <1>10. ScanWrites'
    BY <1>1, <1>3 DEF IInv, ScanWrites, Same, TypeOK
  <1>11. AlertsMatchFlags' /\ ArchivedIsReplaced' /\ ExpiredIsAlerted'
    BY <1>1 DEF IInv, AlertsMatchFlags, ArchivedIsReplaced, ExpiredIsAlerted
  <1> QED
    BY <1>5, <1>6, <1>7, <1>8, <1>9, <1>10, <1>11 DEF IInv

LEMMA BeginScanKeeps ==
    ASSUME TypeOK, IInv, NEW g \in Scanners, BeginScan(g)
    PROVE  IInv'
  <1> USE Distinct DEF Transactions
  <1>1. /\ UNCHANGED <<doc, alerts, own, level, fresh, today, target, draft, made>>
        /\ at[g] = "idle"
        /\ day' = [day EXCEPT ![g] = today]
        /\ at' = [at EXCEPT ![g] = "scan"]
        /\ todo' = [todo EXCEPT ![g] = Overdue(doc, today)]
    BY DEF BeginScan, tables, callVars, env
  <1>2. level[g] = 0 /\ \A d \in Docs : own[g][d] = None
    BY <1>1 DEF IInv, Stages, NoRows
  <1>3. Stages'
    BY <1>1 DEF IInv, Stages, TypeOK
  <1>4. ScanWrites'
    <2>1. \A d \in Overdue(doc, today) : doc[d] # None
      BY DEF Overdue
    <2> QED
      BY <1>1, <1>2, <2>1 DEF IInv, ScanWrites, Same, TypeOK
  <1>5. Uploads' /\ Made' /\ Locks' /\ CallWrites'
    BY <1>1 DEF IInv, Uploads, Made, Locks, CallWrites, Same
  <1>6. AlertsMatchFlags' /\ ArchivedIsReplaced' /\ ExpiredIsAlerted'
    BY <1>1 DEF IInv, AlertsMatchFlags, ArchivedIsReplaced, ExpiredIsAlerted
  <1> QED
    BY <1>3, <1>4, <1>5, <1>6 DEF IInv

\* A scan that writes a document that exists and that nobody else has written
\* disturbs no call.
LEMMA ScanWriteKeeps ==
    ASSUME TypeOK, IInv, NEW g \in Scanners, NEW d \in Docs,
           doc[d] # None, FreeDoc(g, d), d \in todo[g],
           \A w \in Transactions \ {g} : own'[w] = own[w],
           \A x \in Docs \ {d} : own'[g][x] = own[g][x],
           todo' = [todo EXCEPT ![g] = @ \ {d}],
           level[g] = 0 => fresh' = fresh,
           \A h \in Scanners \ {g} : fresh'[h] = fresh[h],
           UNCHANGED <<doc, alerts, at, level, day, today, target, draft, made>>
    PROVE  Stages' /\ Uploads' /\ Made' /\ Locks' /\ CallWrites'
  <1> USE Distinct DEF Transactions
  <1>1. at[g] \notin {"idle", "write"}
    BY DEF IInv, Stages
  <1>2. Stages'
    BY <1>1 DEF IInv, Stages, TypeOK
  <1>3. Uploads'
    <2> SUFFICES ASSUME NEW s \in Sessions, draft[s] # None
                 PROVE  own'[g][target[s]] = None
      BY DEF IInv, Uploads
    <2>1. target[s] \in Docs \ {d} /\ own[g][target[s]] = None
      BY DEF IInv, Uploads, TypeOK
    <2> QED
      BY <2>1
  <1>4. Made'
    BY DEF IInv, Made
  <1>5. Locks'
    BY DEF IInv, Locks, FreeDoc
  <1>6. CallWrites'
    BY DEF IInv, CallWrites, Same
  <1> QED
    BY <1>2, <1>3, <1>4, <1>5, <1>6

LEMMA ExpireRowKeeps ==
    ASSUME TypeOK, IInv, NEW g \in Scanners, NEW d \in Docs, ExpireRow(g, d)
    PROVE  IInv'
  <1> USE Distinct DEF Transactions
  <1> DEFINE row == [doc[d] EXCEPT !.statut = "EXPIRE"]
  <1>1. /\ UNCHANGED <<doc, alerts, at, level, fresh, day, today, target, draft, made>>
        /\ level[g] = 0 /\ d \in todo[g] /\ FreeDoc(g, d)
        /\ todo' = [todo EXCEPT ![g] = @ \ {d}]
    BY DEF ExpireRow, tables, callVars, env
  <1>2. doc[d] # None /\ doc[d] \in Rows /\ \A k \in Levels : <<d, k>> \notin fresh[g]
    BY <1>1 DEF IInv, Stages, ScanWrites, TypeOK
  <1>3. /\ \A w \in Transactions \ {g} : own'[w] = own[w]
        /\ \A x \in Docs \ {d} : own'[g][x] = own[g][x]
        /\ \/ own'[g][d] = own[g][d]
           \/ own'[g][d] = row /\ d \in Overdue(doc, day[g])
    BY DEF ExpireRow, TypeOK
  <1>4. Stages' /\ Uploads' /\ Made' /\ Locks' /\ CallWrites'
    BY <1>1, <1>2, <1>3, ScanWriteKeeps
  <1>5. ScanWrites'
    <2>1. /\ Same(row, doc[d]) /\ row.statut = "EXPIRE"
          /\ row.flags = doc[d].flags \union {k \in Levels : <<d, k>> \in fresh[g]}
      BY <1>2 DEF Same, Rows
    <2>2. d \in Overdue(doc, day[g]) => doc[d].expires # None /\ doc[d].expires < day[g]
      BY DEF Overdue
    <2> HIDE DEF row
    <2>3. \A k \in 1..level[g] : FALSE
      BY <1>1
    <2> SUFFICES ASSUME NEW h \in Scanners, NEW x \in Docs
                 PROVE  /\ own'[h][x] # None =>
                             /\ doc[x] # None
                             /\ Same(own'[h][x], doc[x])
                             /\ own'[h][x].flags
                                  = doc[x].flags \union {k \in Levels : <<x, k>> \in fresh[h]}
                             /\ \/ own'[h][x].statut = doc[x].statut
                                \/ /\ own'[h][x].statut = "EXPIRE"
                                   /\ doc[x].expires # None /\ doc[x].expires < day[h]
                                   /\ \A k \in 1..level[h] :
                                         \/ k \in own'[h][x].flags
                                         \/ k = level[h] /\ x \in todo'[h]
                        /\ x \in todo'[h] => /\ doc[x] # None
                                             /\ level[h] > 0 => alerts[x][level[h]][h] = 0
                        /\ \A k \in Levels : <<x, k>> \in fresh[h] =>
                             own'[h][x] # None /\ alerts[x][k][h] = 0
      BY <1>1 DEF ScanWrites, Same
    <2>4. CASE h = g /\ x = d /\ own'[g][d] # own[g][d]
      <3>1. own'[h][x] = row /\ d \in Overdue(doc, day[g])
        BY <1>3, <2>4
      <3> QED
        BY <1>1, <1>2, <2>1, <2>2, <2>3, <2>4, <3>1
    <2>5. CASE own'[h][x] = own[h][x]
      <3>1. x \in todo'[h] => x \in todo[h]
        BY <1>1 DEF TypeOK
      <3>2. h = g \/ todo'[h] = todo[h]
        BY <1>1 DEF TypeOK
      <3> QED
        BY <1>1, <2>3, <2>5, <3>1, <3>2 DEF IInv, ScanWrites
    <2> QED
      BY <1>3, <2>4, <2>5
  <1>6. AlertsMatchFlags' /\ ArchivedIsReplaced' /\ ExpiredIsAlerted'
    BY <1>1 DEF IInv, AlertsMatchFlags, ArchivedIsReplaced, ExpiredIsAlerted
  <1> QED
    BY <1>4, <1>5, <1>6 DEF IInv

LEMMA AlertKeeps ==
    ASSUME TypeOK, IInv, NEW g \in Scanners, NEW d \in Docs, Alert(g, d)
    PROVE  IInv'
  <1> USE Distinct DEF Transactions
  <1> DEFINE row == [Sees(g)[d] EXCEPT !.flags = @ \union {level[g]}]
  <1>1. /\ UNCHANGED <<doc, alerts, at, level, day, today, target, draft, made>>
        /\ level[g] > 0 /\ d \in todo[g] /\ FreeDoc(g, d)
        /\ todo' = [todo EXCEPT ![g] = @ \ {d}]
        /\ fresh' = [fresh EXCEPT ![g] = @ \union {<<d, level[g]>>}]
    BY DEF Alert, tables, callVars, env
  <1>2. doc[d] # None /\ alerts[d][level[g]][g] = 0 /\ level[g] \in Levels
    BY <1>1 DEF IInv, ScanWrites, TypeOK, Levels
  <1>3. Sees(g)[d] \in Rows
    BY <1>2, SeenIsSame DEF TypeOK, Sees
  <1>4. row # None
    BY <1>2, <1>3 DEF Rows
  <1>5. /\ \A w \in Transactions \ {g} : own'[w] = own[w]
        /\ \A x \in Docs \ {d} : own'[g][x] = own[g][x]
        /\ own'[g][d] = row
    BY DEF Alert, TypeOK
  <1>6. Stages' /\ Uploads' /\ Made' /\ Locks' /\ CallWrites'
    <2>1. /\ level[g] # 0
          /\ \A h \in Scanners \ {g} : fresh'[h] = fresh[h]
      BY <1>1 DEF TypeOK
    <2> QED
      BY <1>1, <1>2, <1>5, <2>1, ScanWriteKeeps
  <1>7. ScanWrites'
    <2>1. /\ Same(row, doc[d])
          /\ row.flags = doc[d].flags \union {k \in Levels : <<d, k>> \in fresh'[g]}
          /\ row.statut = Sees(g)[d].statut
      <3>1. /\ Same(Sees(g)[d], doc[d])
            /\ Sees(g)[d].flags
                 = doc[d].flags \union {k \in Levels : <<d, k>> \in fresh[g]}
        BY <1>2, SeenIsSame DEF IInv, ScanWrites, Sees
      <3>2. \A k \in Levels : <<d, k>> \in fresh'[g]
                                <=> <<d, k>> \in fresh[g] \/ k = level[g]
        BY <1>1 DEF TypeOK
      <3> QED
        BY <1>2, <1>3, <3>1, <3>2 DEF Same, Rows
    <2>2. \/ row.statut = doc[d].statut
          \/ /\ row.statut = "EXPIRE"
             /\ doc[d].expires # None /\ doc[d].expires < day[g]
             /\ \A k \in 1..level[g] : k \in row.flags
      <3>1. CASE own[g][d] = None
        BY <2>1, <3>1 DEF Sees
      <3>2. CASE own[g][d] # None
        <4>1. Sees(g)[d] = own[g][d]
          BY <3>2 DEF Sees
        <4>2. \A k \in 1..level[g] : k \in own[g][d].flags \/ k = level[g] => k \in row.flags
          BY <1>3, <4>1 DEF Rows
        <4> QED
          BY <2>1, <3>2, <4>1, <4>2 DEF IInv, ScanWrites
      <3> QED
        BY <3>1, <3>2
    <2> HIDE DEF row
    <2> SUFFICES ASSUME NEW h \in Scanners, NEW x \in Docs
                 PROVE  /\ own'[h][x] # None =>
                             /\ doc[x] # None
                             /\ Same(own'[h][x], doc[x])
                             /\ own'[h][x].flags
                                  = doc[x].flags \union {k \in Levels : <<x, k>> \in fresh'[h]}
                             /\ \/ own'[h][x].statut = doc[x].statut
                                \/ /\ own'[h][x].statut = "EXPIRE"
                                   /\ doc[x].expires # None /\ doc[x].expires < day[h]
                                   /\ \A k \in 1..level[h] :
                                         \/ k \in own'[h][x].flags
                                         \/ k = level[h] /\ x \in todo'[h]
                        /\ x \in todo'[h] => /\ doc[x] # None
                                             /\ level[h] > 0 => alerts[x][level[h]][h] = 0
                        /\ \A k \in Levels : <<x, k>> \in fresh'[h] =>
                             own'[h][x] # None /\ alerts[x][k][h] = 0
      BY <1>1 DEF ScanWrites, Same
    <2>3. CASE h = g /\ x = d
      <3>1. \A k \in Levels : <<x, k>> \in fresh'[h] => alerts[x][k][h] = 0
        BY <1>1, <1>2, <2>3 DEF IInv, ScanWrites, TypeOK
      <3>2. x \notin todo'[h]
        BY <1>1, <2>3 DEF TypeOK
      <3> QED
        BY <1>2, <1>4, <1>5, <2>1, <2>2, <2>3, <3>1, <3>2
    <2>4. CASE ~(h = g /\ x = d)
      <3>1. /\ own'[h][x] = own[h][x]
            /\ x \in todo'[h] <=> x \in todo[h]
            /\ \A k \in Levels : <<x, k>> \in fresh'[h] <=> <<x, k>> \in fresh[h]
        BY <1>1, <1>5, <2>4 DEF TypeOK
      <3> QED
        BY <3>1 DEF IInv, ScanWrites, Same
    <2> QED
      BY <2>3, <2>4
  <1>8. AlertsMatchFlags' /\ ArchivedIsReplaced' /\ ExpiredIsAlerted'
    BY <1>1 DEF IInv, AlertsMatchFlags, ArchivedIsReplaced, ExpiredIsAlerted
  <1> QED
    BY <1>6, <1>7, <1>8 DEF IInv

LEMMA SelectDueKeeps ==
    ASSUME TypeOK, IInv, NEW g \in Scanners, SelectDue(g)
    PROVE  IInv'
  <1> USE Distinct DEF Transactions
  <1> DEFINE k   == level[g] + 1
             due == Due(Sees(g), day[g], k)
  <1>1. /\ UNCHANGED <<doc, alerts, at, own, fresh, day, today, target, draft, made>>
        /\ at[g] = "scan" /\ todo[g] = {}
        /\ level' = [level EXCEPT ![g] = k]
        /\ todo' = [todo EXCEPT ![g] = due]
    BY DEF SelectDue, tables, callVars, env
  <1>2. k \in Levels /\ level[g] \in Nat
    BY DEF SelectDue, TypeOK, Levels
  <1>3. Stages'
    BY <1>1, <1>2 DEF IInv, Stages, TypeOK
  <1>4. ASSUME NEW d \in due
        PROVE  d \in Docs /\ doc[d] # None /\ alerts[d][k][g] = 0
    <2>1. d \in Docs /\ Sees(g)[d] # None /\ k \notin Sees(g)[d].flags
      BY <1>4 DEF Due
    <2>2. doc[d] # None /\ k \notin doc[d].flags
      <3>1. CASE own[g][d] = None
        BY <2>1, <3>1 DEF Sees
      <3>2. CASE own[g][d] # None
        <4>1. Sees(g)[d] = own[g][d]
          BY <2>1, <3>2 DEF Sees
        <4> HIDE DEF k
        <4>2. /\ doc[d] # None
              /\ own[g][d].flags
                   = doc[d].flags \union {j \in Levels : <<d, j>> \in fresh[g]}
          BY <2>1, <3>2 DEF IInv, ScanWrites
        <4>3. \A j \in doc[d].flags : j \in own[g][d].flags
          BY <4>2
        <4> QED
          BY <2>1, <4>1, <4>2, <4>3
      <3> QED
        BY <3>1, <3>2
    <2>3. ~ (alerts[d][k][g] > 0) /\ alerts[d][k][g] \in Nat
      BY <1>2, <2>1, <2>2 DEF IInv, AlertsMatchFlags, TypeOK
    <2> QED
      BY <2>1, <2>2, <2>3
  <1>5. ASSUME NEW d \in Docs, own[g][d] # None, own[g][d].statut = "EXPIRE",
               Same(own[g][d], doc[d]),
               doc[d].expires # None, doc[d].expires < day[g], k \notin own[g][d].flags
        PROVE  d \in due
    <2>1. /\ doc[d].expires \in Nat /\ day[g] \in Nat /\ Ahead[k] \in Nat
      <3>1. doc[d] \in Rows
        BY <1>5 DEF TypeOK, IInv, ScanWrites
      <3>2. doc[d].expires \in Nat
        BY <1>5, <3>1, ComplianceAssumption DEF Rows
      <3>3. day[g] \in Nat
        BY ComplianceAssumption DEF TypeOK
      <3>4. Ahead[k] \in Nat
        BY <1>2, ComplianceAssumption DEF Levels
      <3> QED
        BY <3>2, <3>3, <3>4
    <2>2. doc[d].expires <= day[g] + Ahead[k]
      BY <1>5, <2>1
    <2> QED
      BY <1>5, <2>2 DEF Due, Sees, Same
  <1>6. ScanWrites'
    <2> HIDE DEF due
    <2>1. ASSUME NEW d \in Docs, own[g][d] # None
          PROVE  \/ own[g][d].statut = doc[d].statut
                 \/ /\ own[g][d].statut = "EXPIRE"
                    /\ doc[d].expires # None /\ doc[d].expires < day[g]
                    /\ \A j \in 1..k : j \in own[g][d].flags \/ (j = k /\ d \in due)
      <3>1. CASE own[g][d].statut = doc[d].statut
        BY <3>1
      <3>2. CASE own[g][d].statut # doc[d].statut
        <4>1. /\ own[g][d].statut = "EXPIRE" /\ Same(own[g][d], doc[d])
              /\ doc[d].expires # None /\ doc[d].expires < day[g]
              /\ \A j \in 1..level[g] : j \in own[g][d].flags
          BY <1>1, <2>1, <3>2 DEF IInv, ScanWrites
        <4>2. \A j \in 1..k : j \in 1..level[g] \/ j = k
          BY <1>2
        <4> QED
          BY <1>5, <2>1, <4>1, <4>2
      <3> QED
        BY <3>1, <3>2
    <2> HIDE DEF k
    <2>2. level'[g] = k /\ todo'[g] = due
      BY <1>1 DEF TypeOK
    <2>3. \A h \in Scanners \ {g} : level'[h] = level[h] /\ todo'[h] = todo[h]
      BY <1>1 DEF TypeOK
    <2>4. \A d \in Docs :
             /\ own[g][d] # None =>
                  /\ doc[d] # None
                  /\ Same(own[g][d], doc[d])
                  /\ own[g][d].flags
                       = doc[d].flags \union {j \in Levels : <<d, j>> \in fresh[g]}
             /\ \A j \in Levels : <<d, j>> \in fresh[g] =>
                  own[g][d] # None /\ alerts[d][j][g] = 0
      BY DEF IInv, ScanWrites
    <2> SUFFICES ASSUME NEW h \in Scanners, NEW d \in Docs
                 PROVE  /\ own[h][d] # None =>
                             /\ doc[d] # None
                             /\ Same(own[h][d], doc[d])
                             /\ own[h][d].flags
                                  = doc[d].flags \union {j \in Levels : <<d, j>> \in fresh[h]}
                             /\ \/ own[h][d].statut = doc[d].statut
                                \/ /\ own[h][d].statut = "EXPIRE"
                                   /\ doc[d].expires # None /\ doc[d].expires < day[h]
                                   /\ \A j \in 1..level'[h] :
                                         \/ j \in own[h][d].flags
                                         \/ j = level'[h] /\ d \in todo'[h]
                        /\ d \in todo'[h] =>
                             /\ doc[d] # None
                             /\ level'[h] > 0 => alerts[d][level'[h]][h] = 0
                        /\ \A j \in Levels : <<d, j>> \in fresh[h] =>
                             own[h][d] # None /\ alerts[d][j][h] = 0
      BY <1>1 DEF ScanWrites, Same
    <2>5. CASE h = g
      BY <1>4, <2>1, <2>2, <2>4, <2>5
    <2>6. CASE h # g
      BY <2>3, <2>6 DEF IInv, ScanWrites
    <2> QED
      BY <2>5, <2>6
  <1>7. Uploads' /\ Made' /\ Locks' /\ CallWrites'
    BY <1>1 DEF IInv, Uploads, Made, Locks, CallWrites, Same
  <1>8. AlertsMatchFlags' /\ ArchivedIsReplaced' /\ ExpiredIsAlerted'
    BY <1>1 DEF IInv, AlertsMatchFlags, ArchivedIsReplaced, ExpiredIsAlerted
  <1> QED
    BY <1>3, <1>6, <1>7, <1>8 DEF IInv

LEMMA CollectAffectedKeeps ==
    ASSUME TypeOK, IInv, NEW g \in Scanners, CollectAffected(g)
    PROVE  IInv'
  <1> USE Distinct DEF Transactions
  <1>1. /\ UNCHANGED <<doc, alerts, own, day, level, todo, fresh, today, target, draft,
                       made>>
        /\ at[g] = "scan" /\ todo[g] = {} /\ level[g] = Len(Ahead)
        /\ at' = [at EXCEPT ![g] = "recalculate"]
    BY DEF CollectAffected, tables, callVars, env
  <1>2. Stages'
    BY <1>1 DEF IInv, Stages, TypeOK
  <1>3. Uploads' /\ Made' /\ Locks' /\ CallWrites' /\ ScanWrites'
    BY <1>1 DEF IInv, Uploads, Made, Locks, CallWrites, ScanWrites, Same
  <1>4. AlertsMatchFlags' /\ ArchivedIsReplaced' /\ ExpiredIsAlerted'
    BY <1>1 DEF IInv, AlertsMatchFlags, ArchivedIsReplaced, ExpiredIsAlerted
  <1> QED
    BY <1>2, <1>3, <1>4 DEF IInv

LEMMA DayPassesKeeps ==
    ASSUME TypeOK, IInv, DayPasses
    PROVE  IInv'
  <1> USE Distinct DEF Transactions
  <1>1. /\ UNCHANGED <<doc, alerts, at, own, day, level, todo, fresh, target, draft, made>>
        /\ today' = today + 1 /\ today \in Nat
    BY DEF DayPasses, tables, callVars, scanVars, TypeOK
  <1>2. Stages'
    <2>1. \A w \in Transactions : day'[w] <= today'
      BY <1>1 DEF IInv, Stages, TypeOK
    <2> QED
      BY <1>1, <2>1 DEF IInv, Stages
  <1>3. ExpiredIsAlerted'
    <2> SUFFICES ASSUME NEW d \in Docs, doc[d] # None, doc[d].statut = "EXPIRE"
                 PROVE  doc[d].expires # None /\ doc[d].expires < today' /\ doc[d].flags = Levels
      BY <1>1 DEF ExpiredIsAlerted
    <2>1. doc[d].expires # None /\ doc[d].expires < today /\ doc[d].flags = Levels
      BY DEF IInv, ExpiredIsAlerted
    <2>2. doc[d].expires \in Nat
      BY <2>1, ComplianceAssumption DEF TypeOK, Rows
    <2> QED
      BY <1>1, <2>1, <2>2
  <1>4. Uploads' /\ Made' /\ Locks' /\ CallWrites' /\ ScanWrites'
    BY <1>1 DEF IInv, Uploads, Made, Locks, CallWrites, ScanWrites, Same
  <1>5. AlertsMatchFlags' /\ ArchivedIsReplaced'
    BY <1>1 DEF IInv, AlertsMatchFlags, ArchivedIsReplaced
  <1> QED
    BY <1>2, <1>3, <1>4, <1>5 DEF IInv

\* What a transaction publishes leaves the documents and the uploads of the
\* others as they know them.
LEMMA Published ==
    ASSUME TypeOK, IInv, NEW w \in Transactions, Publish(w)
    PROVE  /\ \A d \in Docs : doc[d] # None => doc'[d] # None /\ Same(doc'[d], doc[d])
           /\ \A x \in Transactions \ {w}, d \in Docs :
                 own[x][d] # None => doc'[d] = doc[d]
           /\ \A s \in Sessions \ {w} : draft[s] # None => doc'[target[s]] = None
           /\ \A d \in Docs : made < d => doc'[d] = None
  <1> USE Distinct DEF Transactions
  <1>1. doc' = Sees(w)
    BY DEF Publish
  <1>2. \A d \in Docs : own[w][d] = None => doc'[d] = doc[d]
    BY <1>1 DEF Sees
  <1>3. \A d \in Docs : doc[d] # None => doc'[d] # None /\ Same(doc'[d], doc[d])
    BY <1>1, SeenIsSame
  <1>4. \A x \in Transactions \ {w}, d \in Docs : own[x][d] # None => doc'[d] = doc[d]
    BY <1>2 DEF IInv, Locks
  <1>5. ASSUME NEW s \in Sessions \ {w}, draft[s] # None
        PROVE  doc'[target[s]] = None
    <2>1. target[s] \in Docs /\ doc[target[s]] = None /\ own[w][target[s]] = None
      BY <1>5 DEF IInv, Uploads, TypeOK
    <2> QED
      BY <1>2, <2>1
  <1>6. \A d \in Docs : made < d => doc'[d] = None
    BY <1>2 DEF IInv, Made
  <1> QED
    BY <1>3, <1>4, <1>5, <1>6

\* The end of a transaction disturbs none of the others.
LEMMA EndKeeps ==
    ASSUME TypeOK, IInv, NEW w \in Transactions,
           Forget(w),
           \A s \in Sessions : IF s = w THEN target'[s] = None /\ draft'[s] = None
                               ELSE target'[s] = target[s] /\ draft'[s] = draft[s],
           \A g \in Scanners : IF g = w THEN level'[g] = 0 /\ todo'[g] = {} /\ fresh'[g] = {}
                               ELSE /\ level'[g] = level[g] /\ todo'[g] = todo[g]
                                    /\ fresh'[g] = fresh[g],
           UNCHANGED <<made, today>>,
           \A g \in Scanners \ {w}, d \in Docs, k \in Levels : alerts'[d][k][g] = alerts[d][k][g],
           \A d \in Docs : doc[d] # None => doc'[d] # None /\ Same(doc'[d], doc[d]),
           \A x \in Transactions \ {w}, d \in Docs : own[x][d] # None => doc'[d] = doc[d],
           \A s \in Sessions \ {w} : draft[s] # None => doc'[target[s]] = None,
           \A d \in Docs : made < d => doc'[d] = None
    PROVE  Stages' /\ Uploads' /\ Made' /\ Locks' /\ CallWrites' /\ ScanWrites'
  <1> USE Distinct DEF Transactions
  <1>1. /\ at'[w] = "idle" /\ day'[w] = 0 /\ own'[w] = NoRows
        /\ \A x \in Transactions \ {w} :
              at'[x] = at[x] /\ day'[x] = day[x] /\ own'[x] = own[x]
        /\ \A d \in Docs : own'[w][d] = None
    BY DEF Forget, TypeOK, NoRows
  <1>2. 0 <= today
    BY ComplianceAssumption DEF TypeOK
  <1>3. Stages'
    <2>1. \A x \in Transactions : /\ at'[x] \in {"idle", "write"} => own'[x] = NoRows
                                  /\ day'[x] <= today'
      BY <1>1, <1>2 DEF IInv, Stages
    <2>2. ASSUME NEW s \in Sessions
          PROVE  /\ at'[s] # "scan"
                 /\ at'[s] = "idle" => draft'[s] = None
                 /\ at'[s] = "write" => target'[s] # None
                 /\ at'[s] = "write" /\ draft'[s] = None => doc'[target'[s]] # None
      <3>1. CASE s = w
        BY <1>1, <3>1
      <3>2. CASE s # w
        <4>1. at'[s] = at[s] /\ target'[s] = target[s] /\ draft'[s] = draft[s]
          BY <1>1, <3>2
        <4>2. target[s] # None => target[s] \in Docs
          BY DEF TypeOK
        <4> QED
          BY <4>1, <4>2 DEF IInv, Stages
      <3> QED
        BY <3>1, <3>2
    <2>3. ASSUME NEW g \in Scanners
          PROVE  /\ at'[g] # "write"
                 /\ at'[g] # "scan" => todo'[g] = {}
                 /\ at'[g] = "idle" => level'[g] = 0
                 /\ level'[g] = 0 => fresh'[g] = {}
                 /\ at'[g] = "recalculate" => level'[g] = Len(Ahead)
      <3>1. CASE g = w
        BY <1>1, <3>1
      <3>2. CASE g # w
        BY <1>1, <3>2 DEF IInv, Stages
      <3> QED
        BY <3>1, <3>2
    <2> QED
      BY <2>1, <2>2, <2>3 DEF Stages
  <1>4. Uploads'
    <2> SUFFICES ASSUME NEW s \in Sessions, s # w, draft[s] # None
                 PROVE  /\ target[s] # None /\ target[s] <= made
                        /\ doc'[target[s]] = None
                        /\ \A x \in Sessions \ {s} : target'[x] # target[s]
                        /\ \A x \in Transactions \ {s} : own'[x][target[s]] = None
                        /\ draft[s].statut = "VALIDE" /\ draft[s].flags = {}
                        /\ draft[s].replaces # None =>
                              /\ doc'[draft[s].replaces] # None
                              /\ draft[s].version = doc'[draft[s].replaces].version + 1
                              /\ draft[s].entity = doc'[draft[s].replaces].entity
                              /\ draft[s].type = doc'[draft[s].replaces].type
      BY DEF Uploads
    <2>1. target[s] \in Docs /\ draft[s] \in Rows
      BY DEF IInv, Uploads, TypeOK
    <2>2. draft[s].replaces \in Docs \union {None}
      BY <2>1 DEF Rows
    <2>3. draft[s].replaces # None =>
            /\ doc'[draft[s].replaces] # None
            /\ draft[s].version = doc'[draft[s].replaces].version + 1
            /\ draft[s].entity = doc'[draft[s].replaces].entity
            /\ draft[s].type = doc'[draft[s].replaces].type
      BY <2>2 DEF IInv, Uploads, Same
    <2>4. \A x \in Sessions \ {s} : target'[x] # target[s]
      BY <2>1 DEF IInv, Uploads
    <2>5. \A x \in Transactions \ {s} : own'[x][target[s]] = None
      BY <1>1, <2>1 DEF IInv, Uploads
    <2> QED
      BY <2>3, <2>4, <2>5 DEF IInv, Uploads
  <1>5. Made'
    <2> SUFFICES ASSUME NEW d \in Docs, made < d
                 PROVE  /\ \A x \in Transactions : own'[x][d] = None
                        /\ \A s \in Sessions : target'[s] # d
      BY DEF Made
    <2> QED
      BY <1>1 DEF IInv, Made
  <1>6. Locks'
    BY <1>1 DEF IInv, Locks
  <1>7. CallWrites'
    <2> SUFFICES ASSUME NEW s \in Sessions, NEW d \in Docs, own'[s][d] # None
                 PROVE  /\ s # w /\ own'[s] = own[s] /\ own[s][d] # None
                        /\ doc'[d] = doc[d]
                        /\ draft'[s] = draft[s] /\ target'[s] = target[s]
      BY DEF IInv, CallWrites, Same
    <2> QED
      BY <1>1
  <1>8. ScanWrites'
    <2>1. ASSUME NEW g \in Scanners, g # w, NEW d \in Docs
          PROVE  /\ own'[g] = own[g] /\ day'[g] = day[g]
                 /\ level'[g] = level[g] /\ todo'[g] = todo[g] /\ fresh'[g] = fresh[g]
                 /\ own[g][d] # None => doc'[d] = doc[d]
                 /\ doc[d] # None => doc'[d] # None
                 /\ \A k \in Levels : alerts'[d][k][g] = alerts[d][k][g]
                 /\ level[g] > 0 => level[g] \in Levels
      BY <1>1, <2>1 DEF TypeOK, Levels
    <2>2. ASSUME w \in Scanners
          PROVE  todo'[w] = {} /\ fresh'[w] = {} /\ \A d \in Docs : own'[w][d] = None
      BY <1>1, <2>2
    <2> QED
      BY <2>1, <2>2 DEF IInv, ScanWrites, Same
  <1> QED
    BY <1>3, <1>4, <1>5, <1>6, <1>7, <1>8

LEMMA CommitCallKeeps ==
    ASSUME TypeOK, IInv, NEW s \in Sessions, CommitCall(s)
    PROVE  IInv'
  <1> USE Distinct DEF Transactions
  <1>1. /\ Publish(s) /\ Forget(s) /\ doc' = Sees(s)
        /\ UNCHANGED <<alerts, level, todo, fresh, made, today>>
        /\ target' = [target EXCEPT ![s] = None]
        /\ draft' = [draft EXCEPT ![s] = None]
    BY DEF CommitCall, ForgetCall, Publish, scanVars, env
  <1>2. Stages' /\ Uploads' /\ Made' /\ Locks' /\ CallWrites' /\ ScanWrites'
    <2>1. \A x \in Sessions : IF x = s THEN target'[x] = None /\ draft'[x] = None
                              ELSE target'[x] = target[x] /\ draft'[x] = draft[x]
      BY <1>1 DEF TypeOK
    <2> QED
      BY <1>1, <2>1, Published, EndKeeps
  <1>3. \A d \in Docs : doc'[d] = IF own[s][d] # None THEN own[s][d] ELSE doc[d]
    BY <1>1 DEF Sees
  <1>4. \A d \in Docs : own[s][d] # None /\ doc[d] = None =>
           draft[s] # None /\ d = target[s] /\ own[s][d] = draft[s]
    BY DEF IInv, CallWrites
  <1>5. AlertsMatchFlags'
    <2> SUFFICES ASSUME NEW d \in Docs, NEW k \in Levels
                 PROVE  (doc'[d] # None /\ k \in doc'[d].flags)
                          <=> (doc[d] # None /\ k \in doc[d].flags)
      BY <1>1 DEF IInv, AlertsMatchFlags
    <2>1. CASE own[s][d] = None
      BY <1>3, <2>1
    <2>2. CASE own[s][d] # None /\ doc[d] = None
      BY <1>3, <1>4, <2>2 DEF IInv, Uploads
    <2>3. CASE own[s][d] # None /\ doc[d] # None
      BY <1>3, <2>3 DEF IInv, CallWrites, Uploads
    <2> QED
      BY <2>1, <2>2, <2>3
  <1>6. ArchivedIsReplaced'
    <2> SUFFICES ASSUME NEW d \in Docs, doc'[d] # None, doc'[d].statut = "ARCHIVE"
                 PROVE  \E x \in Docs : /\ doc'[x] # None
                                        /\ doc'[x].replaces = d
                                        /\ doc'[x].version = doc'[d].version + 1
                                        /\ doc'[x].entity = doc'[d].entity
                                        /\ doc'[x].type = doc'[d].type
      BY DEF ArchivedIsReplaced
    <2>1. CASE own[s][d] = None
      <3>1. doc[d] = doc'[d]
        BY <1>3, <2>1
      <3>2. PICK x \in Docs : /\ doc[x] # None
                              /\ doc[x].replaces = d
                              /\ doc[x].version = doc[d].version + 1
                              /\ doc[x].entity = doc[d].entity /\ doc[x].type = doc[d].type
        BY <3>1 DEF IInv, ArchivedIsReplaced
      <3>3. doc'[x] # None /\ Same(doc'[x], doc[x])
        BY <1>1, <3>2, Published
      <3> QED
        BY <3>1, <3>2, <3>3 DEF Same
    <2>2. CASE own[s][d] # None
      <3>1. doc'[d] = own[s][d]
        BY <1>3, <2>2
      <3>2. /\ doc[d] # None /\ Same(own[s][d], doc[d])
            /\ draft[s] # None /\ draft[s].replaces = d
            /\ own[s][target[s]] = draft[s]
        BY <2>2, <3>1 DEF IInv, CallWrites, Uploads
      <3>3. target[s] \in Docs /\ doc'[target[s]] = draft[s]
        BY <1>3, <3>2 DEF IInv, Uploads, TypeOK
      <3>4. /\ draft[s].version = doc[d].version + 1
            /\ draft[s].entity = doc[d].entity /\ draft[s].type = doc[d].type
        BY <3>2 DEF IInv, Uploads
      <3> QED
        BY <3>1, <3>2, <3>3, <3>4 DEF Same
    <2> QED
      BY <2>1, <2>2
  <1>7. ExpiredIsAlerted'
    <2> SUFFICES ASSUME NEW d \in Docs, doc'[d] # None, doc'[d].statut = "EXPIRE"
                 PROVE  doc'[d] = doc[d]
      BY <1>1 DEF IInv, ExpiredIsAlerted
    <2>1. own[s][d] # None => own[s][d].statut # "EXPIRE"
      BY DEF IInv, CallWrites, Uploads
    <2> QED
      BY <1>3, <2>1
  <1> QED
    BY <1>2, <1>5, <1>6, <1>7 DEF IInv

LEMMA CommitScanKeeps ==
    ASSUME TypeOK, IInv, NEW g \in Scanners, CommitScan(g)
    PROVE  IInv'
  <1> USE Distinct DEF Transactions
  <1>1. /\ Publish(g) /\ Forget(g) /\ doc' = Sees(g)
        /\ UNCHANGED <<target, draft, made, today>>
        /\ level' = [level EXCEPT ![g] = 0]
        /\ todo' = [todo EXCEPT ![g] = {}]
        /\ fresh' = [fresh EXCEPT ![g] = {}]
        /\ at[g] = "recalculate"
    BY DEF CommitScan, ForgetScan, Publish, callVars, env
  <1>2. \A d \in Docs, k \in Levels :
           /\ \A h \in Scanners \ {g} : alerts'[d][k][h] = alerts[d][k][h]
           /\ alerts'[d][k][g] = IF <<d, k>> \in fresh[g] THEN alerts[d][k][g] + 1
                                 ELSE alerts[d][k][g]
    <2> SUFFICES ASSUME NEW d \in Docs, NEW k \in Levels
                 PROVE  /\ \A h \in Scanners \ {g} : alerts'[d][k][h] = alerts[d][k][h]
                        /\ alerts'[d][k][g] = IF <<d, k>> \in fresh[g]
                                              THEN alerts[d][k][g] + 1
                                              ELSE alerts[d][k][g]
      OBVIOUS
    <2>1. alerts'[d][k] = IF <<d, k>> \in fresh[g]
                          THEN [alerts[d][k] EXCEPT ![g] = @ + 1] ELSE alerts[d][k]
      BY DEF CommitScan
    <2>2. alerts[d][k] \in [Scanners -> Nat]
      BY DEF TypeOK
    <2> QED
      BY <2>1, <2>2
  <1>3. Stages' /\ Uploads' /\ Made' /\ Locks' /\ CallWrites' /\ ScanWrites'
    <2>1. \A h \in Scanners :
             IF h = g THEN level'[h] = 0 /\ todo'[h] = {} /\ fresh'[h] = {}
             ELSE level'[h] = level[h] /\ todo'[h] = todo[h] /\ fresh'[h] = fresh[h]
      BY <1>1 DEF TypeOK
    <2>2. \A h \in Scanners \ {g}, d \in Docs, k \in Levels :
             alerts'[d][k][h] = alerts[d][k][h]
      BY <1>2
    <2> QED
      BY <1>1, <2>1, <2>2, Published, EndKeeps
  <1>4. \A d \in Docs : doc'[d] = IF own[g][d] # None THEN own[g][d] ELSE doc[d]
    BY <1>1 DEF Sees
  <1>5. AlertsMatchFlags'
    <2> SUFFICES ASSUME NEW d \in Docs, NEW k \in Levels
                 PROVE  /\ (\E h \in Scanners : alerts'[d][k][h] > 0)
                              <=> (doc'[d] # None /\ k \in doc'[d].flags)
                        /\ \A h \in Scanners : alerts'[d][k][h] <= 1
      BY DEF AlertsMatchFlags
    <2>1. CASE <<d, k>> \in fresh[g]
      <3>1. own[g][d] # None /\ alerts[d][k][g] = 0 /\ k \in own[g][d].flags
        BY <2>1 DEF IInv, ScanWrites
      <3>2. alerts'[d][k][g] = 1 /\ k \in doc'[d].flags /\ doc'[d] # None
        BY <1>2, <1>4, <2>1, <3>1
      <3>3. \A h \in Scanners : alerts[d][k][h] <= 1
        BY DEF IInv, AlertsMatchFlags
      <3>4. \A h \in Scanners : alerts'[d][k][h] <= 1
        <4> SUFFICES ASSUME NEW h \in Scanners PROVE alerts'[d][k][h] <= 1
          OBVIOUS
        <4>1. CASE h = g
          BY <3>2, <4>1
        <4>2. CASE h # g
          <5>1. alerts'[d][k][h] = alerts[d][k][h]
            BY <1>2, <4>2
          <5> QED
            BY <3>3, <5>1
        <4> QED
          BY <4>1, <4>2
      <3>5. \E h \in Scanners : alerts'[d][k][h] > 0
        BY <3>2
      <3> QED
        BY <3>2, <3>4, <3>5
    <2>2. CASE <<d, k>> \notin fresh[g]
      <3>1. \A h \in Scanners : alerts'[d][k][h] = alerts[d][k][h]
        BY <1>2, <2>2
      <3>2. (doc'[d] # None /\ k \in doc'[d].flags)
              <=> (doc[d] # None /\ k \in doc[d].flags)
        BY <1>4, <2>2 DEF IInv, ScanWrites
      <3> QED
        BY <3>1, <3>2 DEF IInv, AlertsMatchFlags
    <2> QED
      BY <2>1, <2>2
  <1>6. ArchivedIsReplaced'
    <2> SUFFICES ASSUME NEW d \in Docs, doc'[d] # None, doc'[d].statut = "ARCHIVE"
                 PROVE  \E x \in Docs : /\ doc'[x] # None
                                        /\ doc'[x].replaces = d
                                        /\ doc'[x].version = doc'[d].version + 1
                                        /\ doc'[x].entity = doc'[d].entity
                                        /\ doc'[x].type = doc'[d].type
      BY DEF ArchivedIsReplaced
    <2>1. doc[d] # None /\ doc[d].statut = "ARCHIVE" /\ Same(doc'[d], doc[d])
      <3>1. doc[d] # None
        BY <1>4 DEF IInv, ScanWrites
      <3>2. doc[d].statut = "ARCHIVE"
        BY <1>4 DEF IInv, ScanWrites
      <3> QED
        BY <1>1, <3>1, <3>2, Published
    <2>2. PICK x \in Docs : /\ doc[x] # None
                            /\ doc[x].replaces = d
                            /\ doc[x].version = doc[d].version + 1
                            /\ doc[x].entity = doc[d].entity /\ doc[x].type = doc[d].type
      BY <2>1 DEF IInv, ArchivedIsReplaced
    <2>3. doc'[x] # None /\ Same(doc'[x], doc[x])
      BY <1>1, <2>2, Published
    <2> QED
      BY <2>1, <2>2, <2>3 DEF Same
  <1>7. ExpiredIsAlerted'
    <2> SUFFICES ASSUME NEW d \in Docs, doc'[d] # None, doc'[d].statut = "EXPIRE"
                 PROVE  /\ doc'[d].expires # None /\ doc'[d].expires < today
                        /\ doc'[d].flags = Levels
      BY <1>1 DEF ExpiredIsAlerted
    <2>1. CASE own[g][d] = None
      BY <1>4, <2>1 DEF IInv, ExpiredIsAlerted
    <2>2. CASE own[g][d] # None
      <3>1. /\ doc'[d] = own[g][d] /\ own[g][d].expires = doc[d].expires
            /\ own[g][d].flags \subseteq Levels
            /\ doc[d].flags \subseteq own[g][d].flags
        <4>1. own[g][d] \in Rows
          BY <2>2 DEF TypeOK, Transactions
        <4>2. /\ Same(own[g][d], doc[d])
              /\ own[g][d].flags
                   = doc[d].flags \union {k \in Levels : <<d, k>> \in fresh[g]}
          BY <2>2 DEF IInv, ScanWrites
        <4> QED
          BY <1>4, <2>2, <4>1, <4>2 DEF Same, Rows
      <3>2. CASE own[g][d].statut = doc[d].statut
        <4>1. /\ doc[d].expires # None /\ doc[d].expires < today
              /\ doc[d].flags = Levels
          BY <2>2, <3>1, <3>2 DEF IInv, ScanWrites, ExpiredIsAlerted
        <4> QED
          BY <3>1, <4>1
      <3>3. CASE own[g][d].statut # doc[d].statut
        <4>1. /\ doc[d].expires # None /\ doc[d].expires < day[g]
              /\ \A k \in 1..level[g] :
                    k \in own[g][d].flags \/ (k = level[g] /\ d \in todo[g])
          BY <2>2, <3>3 DEF IInv, ScanWrites
        <4>2. level[g] = Len(Ahead) /\ todo[g] = {} /\ day[g] <= today
          BY <1>1 DEF IInv, Stages
        <4>3. \A k \in Levels : k \in own[g][d].flags
          BY <4>1, <4>2 DEF Levels
        <4>4. doc[d] \in Rows
          BY <2>2 DEF IInv, ScanWrites, TypeOK
        <4>5. doc[d].expires \in Nat /\ day[g] \in Nat /\ today \in Nat
          <5>1. doc[d].expires \in Nat
            BY <4>1, <4>4, ComplianceAssumption DEF Rows
          <5>2. day[g] \in 0..MaxDay /\ today \in 0..MaxDay
            BY DEF TypeOK
          <5> QED
            BY <5>1, <5>2, ComplianceAssumption
        <4> QED
          BY <3>1, <4>1, <4>2, <4>3, <4>5
      <3> QED
        BY <3>2, <3>3
    <2> QED
      BY <2>1, <2>2
  <1> QED
    BY <1>3, <1>5, <1>6, <1>7 DEF IInv

LEMMA RollbackKeeps ==
    ASSUME TypeOK, IInv, NEW w \in Transactions, Rollback(w)
    PROVE  IInv'
  <1> USE Distinct DEF Transactions
  <1>1. Forget(w) /\ UNCHANGED <<doc, alerts, made, today>>
    BY DEF Rollback, tables
  <1>2. \A s \in Sessions : IF s = w THEN target'[s] = None /\ draft'[s] = None
                            ELSE target'[s] = target[s] /\ draft'[s] = draft[s]
    BY DEF Rollback, ForgetCall, ForgetScan, callVars, TypeOK
  <1>3. \A g \in Scanners : IF g = w THEN level'[g] = 0 /\ todo'[g] = {} /\ fresh'[g] = {}
                            ELSE level'[g] = level[g] /\ todo'[g] = todo[g] /\ fresh'[g] = fresh[g]
    BY DEF Rollback, ForgetCall, ForgetScan, scanVars, TypeOK
  <1>4. /\ \A s \in Sessions \ {w} : draft[s] # None => doc'[target[s]] = None
        /\ \A d \in Docs : made < d => doc'[d] = None
        /\ \A d \in Docs : doc[d] # None => doc'[d] # None /\ Same(doc'[d], doc[d])
    BY <1>1 DEF IInv, Uploads, Made, Same
  <1>5. Stages' /\ Uploads' /\ Made' /\ Locks' /\ CallWrites' /\ ScanWrites'
    BY <1>1, <1>2, <1>3, <1>4, EndKeeps
  <1>6. AlertsMatchFlags' /\ ArchivedIsReplaced' /\ ExpiredIsAlerted'
    BY <1>1 DEF IInv, AlertsMatchFlags, ArchivedIsReplaced, ExpiredIsAlerted
  <1> QED
    BY <1>5, <1>6 DEF IInv

-----------------------------------------------------------------------------
(* What recalculations have seen                                            *)

LEMMA CInvInit == Init => CInv
  <1> SUFFICES ASSUME Init PROVE CInv
    OBVIOUS
  <1>1. ValidExpires
    BY DEF Init, ValidExpires, NoRows, Transactions
  <1>2. ASSUME NEW w \in Transactions PROVE Computed(w) /\ Outstanding(w)
    BY <1>2 DEF Init, Computed, Outstanding, NoLists, NoItems
  <1> QED
    BY <1>1, <1>2 DEF CInv

\* A row that a transaction sees keeps its version until the transaction ends.
LEMMA SeenStays ==
    ASSUME TypeOK, NEW w \in Transactions,
           \A d \in Docs : doc[d] # None => doc'[d] # None /\ Same(doc'[d], doc[d]),
           own'[w] = own[w],
           NEW d \in Docs, Sees(w)[d] # None
    PROVE  (Sees(w)[d])' # None /\ (Sees(w)[d].version)' = Sees(w)[d].version
  BY DEF Sees, Same

\* Nothing that others do makes a computed line untrue.
LEMMA OthersKeepComputed ==
    ASSUME TypeOK, CInv, NEW w \in Transactions,
           \A d \in Docs : doc[d] # None => doc'[d] # None /\ Same(doc'[d], doc[d]),
           \A d \in Docs : own[w][d] # None => doc'[d] = doc[d],
           at'[w] = "recalculate" <=> at[w] = "recalculate",
           at[w] = "recalculate" => own'[w] = own[w],
           cur'[w] = cur[w], items'[w] = items[w], lists'[w] = lists[w],
           w \in Scanners => affected'[w] = affected[w]
    PROVE  Computed(w)' /\ Outstanding(w)'
  <1>0. Computed(w) /\ Outstanding(w)
    BY DEF CInv
  <1>1. CASE at[w] # "recalculate"
    <2>1. cur'[w] = None /\ lists'[w] = NoLists /\ items'[w] = NoItems
      BY <1>0, <1>1 DEF Computed
    <2> QED
      BY <1>1, <2>1 DEF Computed, Outstanding, NoLists, NoItems
  <1>2. CASE at[w] = "recalculate"
    <2>1. own'[w] = own[w] /\ at'[w] = "recalculate"
      BY <1>2
    <2>2. \A d \in Docs : Sees(w)[d] # None =>
             (Sees(w)[d])' # None /\ (Sees(w)[d].version)' = Sees(w)[d].version
      BY <2>1, SeenStays
    <2>3. ASSUME NEW t \in Types, items'[w][t] # None
          PROVE  Tells(w, items[w][t], cur[w], t)'
      <3>1. Tells(w, items[w][t], cur[w], t)
        BY <1>0, <2>3 DEF Computed
      <3>2. items[w][t] \in Items
        BY <2>3 DEF TypeOK
      <3>3. items[w][t].doc \in Docs \union {None}
        BY <3>2 DEF Items
      <3>4. \A d \in Docs : own[w][d] # None => Sees(w)[d] # None
        BY DEF Sees
      <3> QED
        BY <2>1, <2>2, <3>1, <3>3, <3>4 DEF Tells, Before
    <2>4. ASSUME NEW e \in Entities, NEW t \in Types, lists'[w][e] # None
          PROVE  Tells(w, lists[w][e][t], e, t)'
      <3>1. Tells(w, lists[w][e][t], e, t)
        BY <1>0, <2>4 DEF Computed
      <3>2. lists[w][e] \in Checklists
        BY <2>4 DEF TypeOK
      <3>3. lists[w][e][t].doc \in Docs \union {None}
        BY <3>2 DEF Checklists, Items
      <3>4. \A d \in Docs : own[w][d] # None => Sees(w)[d] # None
        BY DEF Sees
      <3> QED
        BY <2>1, <2>2, <3>1, <3>3, <3>4 DEF Tells, Before
    <2>5. Computed(w)'
      BY <1>0, <2>1, <2>3, <2>4 DEF Computed
    <2>6. Outstanding(w)'
      BY <1>0, <1>2, <2>1 DEF Outstanding, Recalculates
    <2> QED
      BY <2>5, <2>6
  <1> QED
    BY <1>1, <1>2

\* A transaction that has not begun to recalculate has computed nothing.
LEMMA NothingComputed ==
    ASSUME NEW w \in Transactions, CInv, at[w] # "recalculate"
    PROVE  cur[w] = None /\ items[w] = NoItems /\ lists[w] = NoLists
  BY DEF CInv, Computed

LEMMA SilentKeepsCInv ==
    ASSUME TypeOK, CInv,
           UNCHANGED <<doc, own, cur, items, lists, affected>>,
           \A w \in Transactions : at'[w] = "recalculate" <=> at[w] = "recalculate"
    PROVE  CInv'
  <1>1. \A w \in Transactions : Computed(w)' /\ Outstanding(w)'
    BY OthersKeepComputed DEF Same
  <1>2. ValidExpires'
    BY DEF CInv, ValidExpires
  <1> QED
    BY <1>1, <1>2 DEF CInv

LEMMA QuietStepsKeepCInv ==
    ASSUME TypeOK, IInv, CInv,
           \/ \E s \in Sessions, e \in Entities, t \in Types, prev \in Docs \union {None},
                 expires \in Expiries : BeginCreate(s, e, t, prev, expires)
           \/ \E s \in Sessions, d \in Docs : BeginValidate(s, d)
           \/ \E g \in Scanners : BeginScan(g) \/ SelectDue(g)
           \/ DayPasses
           \/ UNCHANGED vars
    PROVE  CInv'
  <1>1. UNCHANGED <<doc, own, cur, items, lists, affected>>
    BY DEF BeginCreate, BeginValidate, BeginScan, SelectDue, DayPasses, vars, tables,
           recalcVars, scanVars
  <1>2. \A w \in Transactions : at'[w] = "recalculate" <=> at[w] = "recalculate"
    <2>1. \/ UNCHANGED at
          \/ \E w \in Transactions : /\ at[w] = "idle"
                                     /\ \/ at' = [at EXCEPT ![w] = "write"]
                                        \/ at' = [at EXCEPT ![w] = "scan"]
      BY DEF BeginCreate, BeginValidate, BeginScan, SelectDue, DayPasses, Call, vars,
             Transactions
    <2> QED
      BY <2>1 DEF TypeOK
  <1> QED
    BY <1>1, <1>2, SilentKeepsCInv

\* A call writes its rows in one step, and begins with the entity of them all.
LEMMA CallWritesKeepCInv ==
    ASSUME TypeOK, CInv, NEW s \in Sessions, NEW e,
           at[s] # "recalculate", doc' = doc, affected' = affected,
           Recalculate(s, e),
           \A w \in Transactions \ {s} : own'[w] = own[w],
           \A d \in Docs : own'[s][d] # None => own'[s][d].entity = e
    PROVE  CInv'
  <1>1. /\ at'[s] = "recalculate" /\ cur'[s] = e
        /\ \A w \in Transactions \ {s} : at'[w] = at[w] /\ cur'[w] = cur[w]
        /\ items' = items /\ lists' = lists
    BY DEF Recalculate, TypeOK, Transactions
  <1>2. cur[s] = None /\ items[s] = NoItems /\ lists[s] = NoLists
    BY NothingComputed DEF Transactions
  <1>3. ASSUME NEW w \in Transactions \ {s} PROVE Computed(w)' /\ Outstanding(w)'
    BY <1>1, OthersKeepComputed DEF Same
  <1>4. Computed(s)' /\ Outstanding(s)'
    BY <1>1, <1>2 DEF Computed, Outstanding, Recalculates, NoItems, NoLists
  <1>5. ValidExpires'
    <2> SUFFICES ASSUME NEW g \in Scanners PROVE own'[g] = own[g]
      BY DEF CInv, ValidExpires
    <2> QED
      BY Distinct DEF Transactions
  <1> QED
    BY <1>3, <1>4, <1>5 DEF CInv

LEMMA CallStepsKeepCInv ==
    ASSUME TypeOK, IInv, CInv, NEW s \in Sessions,
           \/ WriteCreate(s)
           \/ \E statut \in {"VALIDE", "REJETE"} : WriteValidate(s, statut)
           \/ \E e \in Entities : GetChecklist(s, e)
    PROVE  CInv'
  <1> USE Distinct DEF Transactions
  <1>1. ASSUME NEW e \in Entities, GetChecklist(s, e) PROVE CInv'
    <2>1. /\ Recalculate(s, e) /\ at[s] = "idle" /\ own' = own
          /\ doc' = doc /\ affected' = affected
      BY <1>1 DEF GetChecklist, Call, tables, scanVars
    <2>2. own[s] = NoRows
      BY <2>1 DEF IInv, Stages
    <2> QED
      BY <2>1, <2>2, CallWritesKeepCInv DEF NoRows
  <1>2. ASSUME NEW statut \in {"VALIDE", "REJETE"}, WriteValidate(s, statut) PROVE CInv'
    <2> DEFINE d == target[s]
               row == [doc[d] EXCEPT !.statut = statut]
    <2>1. /\ Recalculate(s, doc[d].entity) /\ at[s] = "write"
          /\ doc' = doc /\ affected' = affected
          /\ own' = [own EXCEPT ![s][d] = row]
      BY <1>2 DEF WriteValidate, tables, scanVars
    <2>2. own[s] = NoRows /\ d \in Docs /\ doc[d] \in Rows
      BY <1>2 DEF WriteValidate, IInv, Stages, TypeOK
    <2>3. row.entity = doc[d].entity
      BY <2>2 DEF Rows
    <2> HIDE DEF row, d
    <2>4. /\ \A w \in Transactions \ {s} : own'[w] = own[w]
          /\ \A x \in Docs : own'[s][x] = IF x = d THEN row ELSE None
      BY <2>1, <2>2 DEF TypeOK, NoRows
    <2>5. \A x \in Docs : own'[s][x] # None => own'[s][x].entity = doc[d].entity
      BY <2>3, <2>4
    <2> QED
      BY <2>1, <2>4, <2>5, CallWritesKeepCInv
  <1>3. ASSUME WriteCreate(s) PROVE CInv'
    <2>1. /\ Recalculate(s, draft[s].entity) /\ at[s] = "write"
          /\ doc' = doc /\ affected' = affected
      BY <1>3 DEF WriteCreate, tables, scanVars
    <2>2. own[s] = NoRows
      BY <2>1 DEF IInv, Stages
    <2>3. /\ \A w \in Transactions \ {s} : own'[w] = own[w]
          /\ \A x \in Docs : own'[s][x] = IF x = target[s] THEN draft[s]
                                          ELSE IF x = draft[s].replaces THEN Archived(x)
                                          ELSE None
      BY <1>3, <2>2 DEF WriteCreate, TypeOK, NoRows
    <2>4. \A x \in Docs : x = draft[s].replaces => Archived(x).entity = draft[s].entity
      <3> SUFFICES ASSUME NEW x \in Docs, x = draft[s].replaces
                   PROVE  Archived(x).entity = draft[s].entity
        OBVIOUS
      <3>1. doc[x] \in Rows /\ doc[x].entity = draft[s].entity
        BY <1>3 DEF WriteCreate, IInv, Uploads, TypeOK
      <3> QED
        BY <3>1 DEF Archived, Rows
    <2>5. \A x \in Docs : own'[s][x] # None => own'[s][x].entity = draft[s].entity
      BY <2>3, <2>4
    <2> QED
      BY <2>1, <2>3, <2>5, CallWritesKeepCInv
  <1> QED
    BY <1>1, <1>2, <1>3

LEMMA ScanWritesKeepCInv ==
    ASSUME TypeOK, IInv, CInv, NEW g \in Scanners, NEW d \in Docs,
           ExpireRow(g, d) \/ Alert(g, d)
    PROVE  CInv'
  <1> USE Distinct DEF Transactions
  <1>1. /\ UNCHANGED <<doc, at, cur, items, lists, affected>>
        /\ d \in todo[g] /\ at[g] # "recalculate" /\ doc[d] \in Rows
    <2>1. UNCHANGED <<doc, at, cur, items, lists, affected>> /\ d \in todo[g]
      BY DEF ExpireRow, Alert, tables, recalcVars
    <2>2. at[g] # "recalculate"
      BY <2>1 DEF IInv, Stages
    <2>3. doc[d] \in Rows
      BY <2>1 DEF IInv, ScanWrites, TypeOK
    <2> QED
      BY <2>1, <2>2, <2>3
  <1>2. \A w \in Transactions \ {g} : own'[w] = own[w]
    BY DEF ExpireRow, Alert, TypeOK
  <1>3. \A w \in Transactions : Computed(w)' /\ Outstanding(w)'
    BY <1>1, <1>2, OthersKeepComputed DEF Same
  <1>4. /\ \A x \in Docs \ {d} : own'[g][x] = own[g][x]
        /\ own'[g][d] # None =>
             \/ own'[g][d].statut = doc[d].statut
             \/ own'[g][d].statut = "EXPIRE" /\ doc[d].statut = "VALIDE"
    <2>1. CASE ExpireRow(g, d)
      <3> DEFINE row == [doc[d] EXCEPT !.statut = "EXPIRE"]
      <3>1. row.statut = "EXPIRE"
        BY <1>1 DEF Rows
      <3>2. d \in Overdue(doc, day[g]) => doc[d].statut = "VALIDE"
        BY DEF Overdue
      <3>3. own' = IF d \in Overdue(doc, day[g]) THEN [own EXCEPT ![g][d] = row] ELSE own
        BY <2>1 DEF ExpireRow
      <3> HIDE DEF row
      <3> QED
        BY <3>1, <3>2, <3>3 DEF TypeOK, CInv, ValidExpires
    <2>2. CASE Alert(g, d)
      <3> DEFINE row == [Sees(g)[d] EXCEPT !.flags = @ \union {level[g]}]
      <3>1. Sees(g)[d] \in Rows
        BY <1>1 DEF Sees, TypeOK
      <3>2. row.statut = Sees(g)[d].statut
        BY <3>1 DEF Rows
      <3>3. own' = [own EXCEPT ![g][d] = row]
        BY <2>2 DEF Alert
      <3> HIDE DEF row
      <3>4. own'[g][d] = row /\ \A x \in Docs \ {d} : own'[g][x] = own[g][x]
        BY <3>3 DEF TypeOK
      <3> QED
        BY <3>2, <3>4 DEF CInv, ValidExpires, Sees
    <2> QED
      BY <2>1, <2>2
  <1>5. ValidExpires'
    <2> SUFFICES ASSUME NEW h \in Scanners, NEW x \in Docs, own'[h][x] # None
                 PROVE  \/ own'[h][x].statut = doc[x].statut
                        \/ own'[h][x].statut = "EXPIRE" /\ doc[x].statut = "VALIDE"
      BY <1>1 DEF ValidExpires
    <2> QED
      BY <1>2, <1>4 DEF CInv, ValidExpires
  <1> QED
    BY <1>3, <1>5 DEF CInv

\* Every row that a scan has changed has expired or got an alert: its entity is
\* among those the scan collects.
LEMMA ChangesAreCollected ==
    ASSUME TypeOK, IInv, CInv, NEW g \in Scanners, NEW d \in Docs,
           own[g][d] # None, own[g][d] # doc[d]
    PROVE  own[g][d].entity \in ExpiredBy(g) \union AlertedSince(g)
  <1>1. doc[d] \in Rows /\ own[g][d] \in Rows
    BY DEF IInv, ScanWrites, TypeOK, Transactions
  <1>2. Same(own[g][d], doc[d])
    BY DEF IInv, ScanWrites
  <1>3. own[g][d].statut # doc[d].statut \/ own[g][d].flags # doc[d].flags
    BY <1>1, <1>2 DEF Rows, Same
  <1>4. CASE own[g][d].statut # doc[d].statut
    BY <1>4 DEF CInv, ValidExpires, ExpiredBy
  <1>5. CASE own[g][d].flags # doc[d].flags
    <2>0. own[g][d].flags = doc[d].flags \union {k \in Levels : <<d, k>> \in fresh[g]}
      BY DEF IInv, ScanWrites
    <2>1. PICK k \in Levels : <<d, k>> \in fresh[g]
      BY <1>5, <2>0
    <2>2. doc[<<d, k>>[1]].entity \in AlertedSince(g)
      BY <2>1 DEF AlertedSince
    <2> QED
      BY <1>2, <2>2 DEF Same
  <1> QED
    BY <1>3, <1>4, <1>5

LEMMA CollectAffectedKeepsCInv ==
    ASSUME TypeOK, IInv, CInv, NEW g \in Scanners, CollectAffected(g)
    PROVE  CInv'
  <1> USE Distinct DEF Transactions
  <1>1. /\ UNCHANGED <<doc, own, cur, items, lists>>
        /\ at[g] = "scan" /\ at' = [at EXCEPT ![g] = "recalculate"]
        /\ affected' = [affected EXCEPT ![g] = ExpiredBy(g) \union AlertedSince(g)]
    BY DEF CollectAffected, tables, recalcVars
  <1>2. cur[g] = None /\ items[g] = NoItems /\ lists[g] = NoLists
    BY <1>1, NothingComputed
  <1>3. ASSUME NEW w \in Transactions \ {g} PROVE Computed(w)' /\ Outstanding(w)'
    <2>1. at'[w] = at[w] /\ (w \in Scanners => affected'[w] = affected[w])
      BY <1>1 DEF TypeOK
    <2> QED
      BY <1>1, <2>1, OthersKeepComputed DEF Same
  <1>4. Computed(g)'
    BY <1>1, <1>2 DEF Computed, NoItems, NoLists, TypeOK
  <1>5. Outstanding(g)'
    <2>1. affected'[g] = ExpiredBy(g) \union AlertedSince(g)
      BY <1>1 DEF TypeOK
    <2> QED
      BY <1>1, <2>1, ChangesAreCollected DEF Outstanding, Recalculates
  <1>6. ValidExpires'
    BY <1>1 DEF CInv, ValidExpires
  <1> QED
    BY <1>3, <1>4, <1>5, <1>6 DEF CInv

LEMMA NextEntityKeepsCInv ==
    ASSUME TypeOK, IInv, CInv, NEW g \in Scanners, NEW e \in Entities, NextEntity(g, e)
    PROVE  CInv'
  <1> USE Distinct DEF Transactions
  <1>1. /\ UNCHANGED <<doc, own, at, items, lists>>
        /\ at[g] = "recalculate" /\ cur[g] = None
        /\ cur' = [cur EXCEPT ![g] = e]
        /\ affected' = [affected EXCEPT ![g] = @ \ {e}]
    BY DEF NextEntity, tables
  <1>2. items[g] = NoItems
    BY <1>1 DEF CInv, Computed
  <1>3. ASSUME NEW w \in Transactions \ {g} PROVE Computed(w)' /\ Outstanding(w)'
    <2>1. cur'[w] = cur[w] /\ (w \in Scanners => affected'[w] = affected[w])
      BY <1>1 DEF TypeOK
    <2> QED
      BY <1>1, <2>1, OthersKeepComputed DEF Same
  <1>4. cur'[g] = e /\ affected'[g] = affected[g] \ {e}
    BY <1>1 DEF TypeOK
  <1>5. Computed(g)'
    BY <1>1, <1>2, <1>4 DEF CInv, Computed, NoItems, Tells, Sees
  <1>6. Outstanding(g)'
    <2> SUFFICES ASSUME NEW d \in Docs, own[g][d] # None, own[g][d] # doc[d]
                 PROVE  \/ own[g][d].entity = e
                        \/ lists[g][own[g][d].entity] # None
                        \/ own[g][d].entity \in affected[g] \ {e}
      BY <1>1, <1>4 DEF Outstanding, Recalculates
    <2>1. own[g][d].entity # None
      BY ComplianceAssumption DEF TypeOK, Rows
    <2> QED
      BY <1>1, <2>1 DEF CInv, Outstanding, Recalculates
  <1>7. ValidExpires'
    BY <1>1 DEF CInv, ValidExpires
  <1> QED
    BY <1>3, <1>5, <1>6, <1>7 DEF CInv

\* The line for a type is about a document that ranks first among those the
\* transaction sees, its own rows included.
LEMMA ItemTells ==
    ASSUME TypeOK, NEW w \in Transactions, NEW e, NEW t,
           NEW d \in Docs \union {None}, IsCurrent(d, Sees(w), e, t)
    PROVE  Tells(w, ItemOf(d, Sees(w), day[w]), e, t)
  <1> USE Distinct
  <1> DEFINE ids == Of(Sees(w), e, t, Counted)
             item == ItemOf(d, Sees(w), day[w])
  <1>1. IF ids = {} THEN d = None ELSE d \in ids /\ \A x \in ids : Before(Sees(w), d, x)
    BY DEF IsCurrent
  <1>2. \A x \in ids : /\ x \in Docs /\ Sees(w)[x] # None
                      /\ Sees(w)[x].statut \in Counted
    BY DEF Of
  <1>3. \A x \in Docs : own[w][x] # None =>
           /\ Sees(w)[x] = own[w][x]
           /\ own[w][x].entity = e /\ own[w][x].type = t /\ own[w][x].statut \in Counted
                => x \in ids
    BY DEF Sees, Of
  <1>4. /\ item.doc = d
        /\ d # None => item.statut = StatutOf(Sees(w)[d], day[w])
    BY DEF ItemOf
  <1> HIDE DEF ids, item
  <1>5. item.doc # None => Sees(w)[item.doc] # None
    BY <1>1, <1>2, <1>4
  <1>6. ASSUME NEW x \in Docs, own[w][x] # None,
               own[w][x].entity = e, own[w][x].type = t
        PROVE  /\ item.doc = x => Agrees(item, own[w][x])
               /\ own[w][x].statut \in Counted =>
                    item.doc # None /\ Before(Sees(w), item.doc, x)
    <2>1. ASSUME item.doc = x PROVE Agrees(item, own[w][x])
      <3>1. own[w][x].statut \in Counted /\ item.statut = StatutOf(own[w][x], day[w])
        BY <1>1, <1>2, <1>3, <1>4, <1>6, <2>1
      <3> QED
        BY <3>1 DEF Agrees, StatutOf, Counted
    <2>2. ASSUME own[w][x].statut \in Counted
          PROVE  item.doc # None /\ Before(Sees(w), item.doc, x)
      <3>1. x \in ids
        BY <1>3, <1>6, <2>2
      <3>2. d \in ids /\ Before(Sees(w), d, x)
        BY <1>1, <3>1
      <3> QED
        BY <1>2, <1>4, <3>2
    <2> QED
      BY <2>1, <2>2
  <1>7. Tells(w, item, e, t)
    BY <1>5, <1>6 DEF Tells
  <1> QED
    BY <1>7 DEF item

LEMMA ReadItemKeepsCInv ==
    ASSUME TypeOK, CInv, NEW w \in Transactions, NEW t \in Types, ReadItem(w, t)
    PROVE  CInv'
  <1>1. UNCHANGED <<doc, own, at, cur, lists, affected>> /\ cur[w] # None
    BY DEF ReadItem, tables, scanVars
  <1>2. PICK d \in Docs \union {None} :
           /\ IsCurrent(d, Sees(w), cur[w], t)
           /\ items' = [items EXCEPT ![w][t] = ItemOf(d, Sees(w), day[w])]
    BY DEF ReadItem
  <1> DEFINE item == ItemOf(d, Sees(w), day[w])
  <1>3. Tells(w, item, cur[w], t)
    BY <1>2, ItemTells
  <1>4. items' = [items EXCEPT ![w][t] = item]
    BY <1>2
  <1> HIDE DEF item
  <1>5. \A x \in Transactions \ {w} : items'[x] = items[x]
    BY <1>4 DEF TypeOK
  <1>6. items'[w][t] = item /\ \A y \in Types \ {t} : items'[w][y] = items[w][y]
    BY <1>4 DEF TypeOK
  <1>7. \A x \in Transactions \ {w} : Computed(x)' /\ Outstanding(x)'
    BY <1>1, <1>5, OthersKeepComputed DEF Same
  <1>8. Outstanding(w)'
    BY <1>1 DEF CInv, Outstanding, Recalculates
  <1>9. Computed(w)'
    <2>1. ASSUME NEW y \in Types, items'[w][y] # None
          PROVE  Tells(w, items[w][y], cur[w], y)'
      <3>1. Tells(w, items'[w][y], cur[w], y)
        BY <1>3, <1>6, <2>1 DEF CInv, Computed
      <3> QED
        BY <1>1, <3>1 DEF Tells, Sees
    <2>2. ASSUME NEW e \in Entities, NEW y \in Types, lists'[w][e] # None
          PROVE  Tells(w, lists[w][e][y], e, y)'
      <3>1. Tells(w, lists[w][e][y], e, y)
        BY <1>1, <2>2 DEF CInv, Computed
      <3> QED
        BY <1>1, <3>1 DEF Tells, Sees
    <2> QED
      BY <1>1, <2>1, <2>2 DEF CInv, Computed
  <1>10. ValidExpires'
    BY <1>1 DEF CInv, ValidExpires
  <1> QED
    BY <1>7, <1>8, <1>9, <1>10 DEF CInv

LEMMA StoreChecklistKeepsCInv ==
    ASSUME TypeOK, CInv, NEW w \in Transactions, StoreChecklist(w)
    PROVE  CInv'
  <1>1. /\ UNCHANGED <<doc, own, at, affected>>
        /\ cur[w] \in Entities /\ at[w] = "recalculate"
        /\ \A t \in Types : items[w][t] # None
        /\ lists' = [lists EXCEPT ![w][cur[w]] = items[w]]
        /\ items' = [items EXCEPT ![w] = NoItems]
        /\ cur' = [cur EXCEPT ![w] = None]
    BY DEF StoreChecklist, tables, scanVars, TypeOK, CInv, Computed
  <1>2. /\ lists'[w][cur[w]] = items[w]
        /\ \A e \in Entities \ {cur[w]} : lists'[w][e] = lists[w][e]
        /\ items'[w] = NoItems /\ cur'[w] = None
        /\ \A x \in Transactions \ {w} : /\ items'[x] = items[x] /\ cur'[x] = cur[x]
                                         /\ lists'[x] = lists[x]
    BY <1>1 DEF TypeOK
  <1>3. \A x \in Transactions \ {w} : Computed(x)' /\ Outstanding(x)'
    BY <1>1, <1>2, OthersKeepComputed DEF Same
  <1>4. items[w] # None
    BY <1>1, ComplianceAssumption DEF TypeOK, Checklists
  <1>5. Outstanding(w)'
    BY <1>1, <1>2, <1>4 DEF CInv, Outstanding, Recalculates
  <1>6. Computed(w)'
    <2>1. ASSUME NEW e \in Entities, NEW t \in Types, lists'[w][e] # None
          PROVE  Tells(w, lists[w][e][t], e, t)'
      <3>1. Tells(w, lists'[w][e][t], e, t)
        BY <1>1, <1>2, <2>1 DEF CInv, Computed
      <3> QED
        BY <1>1, <3>1 DEF Tells, Sees
    <2> QED
      BY <1>1, <1>2, <2>1 DEF Computed, NoItems
  <1>7. ValidExpires'
    BY <1>1 DEF CInv, ValidExpires
  <1> QED
    BY <1>3, <1>5, <1>6, <1>7 DEF CInv

LEMMA EndKeepsCInv ==
    ASSUME TypeOK, IInv, CInv, NEW w \in Transactions,
           \/ Rollback(w)
           \/ w \in Sessions /\ CommitCall(w)
           \/ w \in Scanners /\ CommitScan(w)
    PROVE  CInv'
  <1> USE Distinct DEF Transactions
  <1>1. /\ Forget(w)
        /\ w \in Sessions => affected' = affected
        /\ w \in Scanners => affected' = [affected EXCEPT ![w] = {}]
        /\ Publish(w) \/ doc' = doc
    BY DEF Rollback, CommitCall, CommitScan, ForgetCall, ForgetScan, scanVars, tables
  <1>2. /\ \A d \in Docs : doc[d] # None => doc'[d] # None /\ Same(doc'[d], doc[d])
        /\ \A x \in Transactions \ {w}, d \in Docs : own[x][d] # None => doc'[d] = doc[d]
    BY <1>1, Published DEF Same
  <1>3. /\ at'[w] = "idle" /\ cur'[w] = None /\ own'[w] = NoRows
        /\ items'[w] = NoItems /\ lists'[w] = NoLists
    BY <1>1 DEF Forget, TypeOK
  <1>4. \A x \in Transactions \ {w} :
           /\ at'[x] = at[x] /\ cur'[x] = cur[x] /\ own'[x] = own[x]
           /\ items'[x] = items[x] /\ lists'[x] = lists[x]
           /\ x \in Scanners => affected'[x] = affected[x]
    BY <1>1 DEF Forget, TypeOK
  <1>5. \A x \in Transactions \ {w} : Computed(x)' /\ Outstanding(x)'
    BY <1>2, <1>4, OthersKeepComputed
  <1>6. Computed(w)' /\ Outstanding(w)'
    BY <1>3 DEF Computed, Outstanding, NoItems, NoLists
  <1>7. ValidExpires'
    <2> SUFFICES ASSUME NEW g \in Scanners, NEW d \in Docs, own'[g][d] # None
                 PROVE  \/ own'[g][d].statut = doc'[d].statut
                        \/ own'[g][d].statut = "EXPIRE" /\ doc'[d].statut = "VALIDE"
      BY DEF ValidExpires
    <2>1. g # w /\ own'[g] = own[g]
      BY <1>3, <1>4 DEF NoRows
    <2> QED
      BY <1>2, <2>1 DEF CInv, ValidExpires
  <1> QED
    BY <1>5, <1>6, <1>7 DEF CInv

LEMMA NextKeepsCInv == ASSUME TypeOK, IInv, CInv, [Next]_vars PROVE CInv'
  <1>1. ASSUME NEW s \in Sessions, BeginCall(s) \/ AdvanceCall(s) PROVE CInv'
    <2>1. CASE CommitCall(s)
      BY <2>1, EndKeepsCInv, Distinct DEF Transactions
    <2> QED
      BY <1>1, <2>1, QuietStepsKeepCInv, CallStepsKeepCInv, ReadItemKeepsCInv,
         StoreChecklistKeepsCInv
      DEF BeginCall, AdvanceCall, Transactions
  <1>2. ASSUME NEW g \in Scanners, BeginScan(g) \/ AdvanceScan(g) PROVE CInv'
    <2>1. CASE CommitScan(g)
      BY <2>1, EndKeepsCInv, Distinct DEF Transactions
    <2> QED
      BY <1>2, <2>1, QuietStepsKeepCInv, ScanWritesKeepCInv, CollectAffectedKeepsCInv,
         NextEntityKeepsCInv, ReadItemKeepsCInv, StoreChecklistKeepsCInv
      DEF AdvanceScan, Transactions
  <1>3. ASSUME NEW w \in Transactions, Rollback(w) PROVE CInv'
    BY <1>3, EndKeepsCInv
  <1>4. CASE DayPasses \/ UNCHANGED vars
    BY <1>4, QuietStepsKeepCInv
  <1> QED
    BY <1>1, <1>2, <1>3, <1>4 DEF Next, Fail, Deadlock, Transactions

\* What a transaction commits agrees with the checklists it commits.
LEMMA CommitIsCounted ==
    ASSUME TypeOK, CInv, NEW w \in Transactions,
           at[w] = "recalculate", cur[w] = None, Publish(w),
           w \in Scanners => affected[w] = {},
           NEW d \in Docs, doc'[d] # doc[d]
    PROVE  LET list == checklist'[doc'[d].entity]
               item == list[doc'[d].type]
           IN  /\ list # None
               /\ item.doc = d => Agrees(item, doc'[d])
               /\ doc'[d].statut \in Counted =>
                    item.doc # None /\ Before(doc', item.doc, d)
  <1> USE Distinct
  <1>1. doc' = Sees(w)
    BY DEF Publish
  <1>2. own[w][d] # None /\ doc'[d] = own[w][d] /\ own[w][d] \in Rows
    BY <1>1 DEF Sees, TypeOK
  <1> DEFINE e == own[w][d].entity
             t == own[w][d].type
  <1>3. e \in Entities /\ t \in Types /\ e # None
    BY <1>2, ComplianceAssumption DEF Rows
  <1>4. lists[w][e] # None
    BY <1>2, <1>3 DEF CInv, Outstanding, Recalculates
  <1>5. checklist'[e] = lists[w][e]
    BY <1>3, <1>4 DEF Publish
  <1>6. Tells(w, lists[w][e][t], e, t)
    BY <1>3, <1>4 DEF CInv, Computed
  <1> QED
    BY <1>1, <1>2, <1>4, <1>5, <1>6 DEF Tells

LEMMA StepIsCounted ==
    ASSUME TypeOK, CInv, [Next]_vars, NEW d \in Docs, doc'[d] # doc[d]
    PROVE  LET list == checklist'[doc'[d].entity]
               item == list[doc'[d].type]
           IN  /\ list # None
               /\ item.doc = d => Agrees(item, doc'[d])
               /\ doc'[d].statut \in Counted =>
                    item.doc # None /\ Before(doc', item.doc, d)
  <1>1. PICK w \in Transactions :
           /\ at[w] = "recalculate" /\ cur[w] = None /\ Publish(w)
           /\ w \in Scanners => affected[w] = {}
    BY Distinct, ZenonT(60)
    DEF Next, BeginCall, AdvanceCall, AdvanceScan, BeginCreate, BeginValidate, GetChecklist,
        WriteCreate, WriteValidate, ReadItem, StoreChecklist, CommitCall, BeginScan,
        ExpireRow, Alert, SelectDue, CollectAffected, NextEntity, CommitScan, Fail,
        Deadlock, Rollback, DayPasses, tables, vars, Transactions
  <1> QED
    BY <1>1, CommitIsCounted

-----------------------------------------------------------------------------
(* Theorems                                                                 *)

LEMMA NextKeeps == ASSUME TypeOK, IInv, [Next]_vars PROVE IInv'
  <1>1. ASSUME NEW s \in Sessions, BeginCall(s) \/ AdvanceCall(s) PROVE IInv'
    BY <1>1, BeginCreateKeeps, BeginValidateKeeps, GetChecklistKeeps, WriteCreateKeeps,
       WriteValidateKeeps, RecalculationKeeps, CommitCallKeeps
    DEF BeginCall, AdvanceCall, Transactions
  <1>2. ASSUME NEW g \in Scanners, BeginScan(g) \/ AdvanceScan(g) PROVE IInv'
    BY <1>2, BeginScanKeeps, ExpireRowKeeps, AlertKeeps, SelectDueKeeps,
       CollectAffectedKeeps, RecalculationKeeps, CommitScanKeeps
    DEF AdvanceScan, Transactions
  <1>3. ASSUME NEW w \in Transactions, Fail(w) PROVE IInv'
    BY <1>3, RollbackKeeps DEF Fail
  <1>4. ASSUME NEW g \in Scanners, NEW h \in Scanners, Deadlock(g, h) PROVE IInv'
    BY <1>4, RollbackKeeps DEF Deadlock, Transactions
  <1>5. CASE DayPasses
    BY <1>5, DayPassesKeeps
  <1>6. CASE UNCHANGED vars
    BY <1>6, RecalculationKeeps
  <1> QED
    BY <1>1, <1>2, <1>3, <1>4, <1>5, <1>6 DEF Next

LEMMA Invariance == Spec => [](TypeOK /\ IInv)
  <1>1. Init => TypeOK /\ IInv
    BY InitTyped, InitHolds
  <1>2. TypeOK /\ IInv /\ [Next]_vars => (TypeOK /\ IInv)'
    BY NextTyped, NextKeeps
  <1> QED
    BY <1>1, <1>2, PTL DEF Spec

\* Every variable keeps a value of its type, however calls and scans interleave.
THEOREM TypeCorrect == Spec => []TypeOK
  BY Invariance, PTL

\* The flags of a document tell exactly which of its alerts exist, for any number
\* of scans that overlap, and no scan raises an alert twice
\* (the INSERT and the UPDATE of compliance_scan_daily).
THEOREM FlagsTellAlerts == Spec => []AlertsMatchFlags
  <1>1. IInv => AlertsMatchFlags
    BY DEF IInv
  <1> QED
    BY <1>1, Invariance, PTL

\* No document is archived without the version that takes its place, whatever
\* else writes it meanwhile and wherever an upload fails (create_document).
THEOREM ArchivedHasSuccessor == Spec => []ArchivedIsReplaced
  <1>1. IInv => ArchivedIsReplaced
    BY DEF IInv
  <1> QED
    BY <1>1, Invariance, PTL

\* A document is EXPIRE only after its date and with all its alerts raised
\* (steps 1 and 2 of compliance_scan_daily are one transaction).
THEOREM ExpiryIsAnnounced == Spec => []ExpiredIsAlerted
  <1>1. IInv => ExpiredIsAlerted
    BY DEF IInv
  <1> QED
    BY <1>1, Invariance, PTL


LEMMA CountingInvariance == Spec => [](TypeOK /\ IInv /\ CInv)
  <1>1. Init => CInv
    BY CInvInit
  <1>2. TypeOK /\ IInv /\ CInv /\ [Next]_vars => CInv'
    BY NextKeepsCInv
  <1> QED
    BY <1>1, <1>2, Invariance, PTL DEF Spec

\* A document never changes, in a call or in a scan, without a checklist of its
\* entity that is committed with it and has seen the change, however many calls
\* and scans overlap (RG-D-010: recalculate_compliance at the end of each).
THEOREM ModificationsAreCounted == Spec => ModificationIsCounted
  <1>1. TypeOK /\ CInv /\ [Next]_vars =>
          [\A d \in Docs : doc'[d] # doc[d] =>
             LET list == checklist'[doc'[d].entity]
                 item == list[doc'[d].type]
             IN  /\ list # None
                 /\ item.doc = d => Agrees(item, doc'[d])
                 /\ doc'[d].statut \in Counted =>
                      item.doc # None /\ Before(doc', item.doc, d)]_vars
    BY StepIsCounted
  <1> QED
    BY <1>1, CountingInvariance, PTL DEF Spec, ModificationIsCounted

=============================================================================
