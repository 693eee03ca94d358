---------------------------- MODULE PayrollProofs ----------------------------
(***************************************************************************)
(* Proofs about Payroll, for any drivers, types, files and any number of   *)
(* imports and computations that overlap in any way: the properties of the *)
(* run Payroll.                                                            *)
(***************************************************************************)
EXTENDS Payroll, TLAPS

\* The keys c has inserted so far, and those its DELETE has not come to.
Inserted(c) == IF pc[c] = "inserting" THEN (counted[c] \X Computed) \ todo[c] ELSE {}
ToDelete(c) == IF pc[c] = "deleting" THEN todo[c] ELSE {}

\* Only computations delete and insert, and a call that has not begun to write
\* or is over holds nothing.
Phases ==
    \A c \in Calls :
        /\ pc[c] \in {"deleting", "inserting"} => c \in Computations
        /\ pc[c] = "inserting" => todo[c] \subseteq counted[c] \X Computed
        /\ pc[c] = "checked" => IF c \in Imports THEN line[c] <= Len(file[c])
                                ELSE mine[c] = NoneWritten
        /\ pc[c] = "start" => line[c] = 0
        /\ pc[c] \in {"start", "committed", "failed"} => mine[c] = NoneWritten

\* Rows, and what a DELETE saw of them, are of calls that have committed.
Origins ==
    /\ \A k \in Keys : rows[k] # None => pc[rows[k].by] = "committed"
    /\ \A c \in Calls, k \in Keys :
          seen[c][k] # None => pc[seen[c][k]] = "committed"

\* The lines of the import c that are stored so far for k.
Stored(c, k) == Lines(c, k, file[c], line[c])

\* What an import has written adds its lines to what is committed now.
ImportDrafts ==
    \A c \in Imports : pc[c] = "checked" => \A k \in Keys :
        mine[c][k] = IF Stored(c, k) = {} THEN Untouched
                     ELSE Plus(rows[k], c, Stored(c, k))

\* What a computation has written: its rows, and deletions exactly of the rows
\* it saw, as far as it came to them.
ComputationDrafts ==
    \A c \in Computations : pc[c] \in {"deleting", "inserting"} => \A k \in Keys :
        IF k \in Inserted(c) THEN mine[c][k] = [by |-> c, parts |-> {<<c, 0>>}]
        ELSE /\ mine[c][k] \in {None, Untouched}
             /\ k \in ToDelete(c) => mine[c][k] = Untouched
             /\ mine[c][k] = None => rows[k] # None /\ rows[k].by = seen[c][k]
             /\ mine[c][k] = Untouched /\ k \notin ToDelete(c) =>
                    rows[k] = None \/ rows[k].by # seen[c][k]

\* A DELETE saw the computed variables of a driver together or not at all.
SeenTogether ==
    \A c \in Calls, d \in Drivers : \A x, y \in Computed :
        seen[c][<<d, x>>] \in Computations => seen[c][<<d, y>>] = seen[c][<<d, x>>]

IInv == /\ Phases
        /\ OneWriterPerKey
        /\ Origins
        /\ ImportDrafts
        /\ ComputationDrafts
        /\ SeenTogether
        /\ ComputedTogether
        /\ OneBase

-----------------------------------------------------------------------------
\* Initially there is neither a period nor a variable.
LEMMA InitHolds == Init => TypeOK /\ IInv
  <1> SUFFICES ASSUME Init PROVE TypeOK /\ IInv
    OBVIOUS
  <1> USE PayrollAssumption DEF Init, NoneWritten, NoRowSeen
  <1>1. TypeOK
    BY DEF TypeOK
  <1>2. Phases /\ Origins
    BY DEF Phases, Origins
  <1>3. OneWriterPerKey
    BY DEF OneWriterPerKey
  <1>4. ImportDrafts /\ ComputationDrafts
    BY DEF ImportDrafts, ComputationDrafts, Calls
  <1>5. SeenTogether /\ ComputedTogether
    BY DEF SeenTogether, ComputedTogether, Keys, Calls
  <1>6. OneBase
    BY DEF OneBase
  <1> QED
    BY <1>1, <1>2, <1>3, <1>4, <1>5, <1>6 DEF IInv

\* What a call leaves behind has its type.
LEMMA LeaveTyped ==
    ASSUME TypeOK, NEW c \in Calls, NEW outcome \in {"committed", "failed"},
           Leave(c, outcome)
    PROVE  /\ pc' \in [Calls -> {"start", "checked", "deleting", "inserting",
                                 "committed", "failed"}]
           /\ file' \in [Calls -> Seq(Keys)]
           /\ line' \in [Calls -> Nat]
           /\ counted' \in [Calls -> SUBSET Drivers]
           /\ seen' \in [Calls -> [Keys -> Calls \union {None}]]
           /\ todo' \in [Calls -> SUBSET Keys]
           /\ mine' \in [Calls -> [Keys -> Rows \union {None, Untouched}]]
  <1>1. NoRowSeen \in [Keys -> Calls \union {None}]
    BY DEF NoRowSeen
  <1>2. NoneWritten \in [Keys -> Rows \union {None, Untouched}]
    BY DEF NoneWritten
  <1> QED
    BY <1>1, <1>2 DEF TypeOK, Leave

\* What c sees of a key.
LEMMA ViewTyped ==
    ASSUME TypeOK, NEW c \in Calls, NEW k \in Keys
    PROVE  View(c, k) \in Rows \union {None}
  BY DEF TypeOK, View

\* A row that summands are added to is a row.
LEMMA PlusTyped ==
    ASSUME NEW row \in Rows \union {None}, NEW c \in Calls,
           NEW parts \in SUBSET (Calls \X Nat)
    PROVE  Plus(row, c, parts) \in Rows
  BY DEF Plus, Rows

\* Adding twice is adding both.
LEMMA PlusTwice ==
    ASSUME NEW row \in Rows \union {None}, NEW c \in Calls,
           NEW p \in SUBSET (Calls \X Nat), NEW q \in SUBSET (Calls \X Nat)
    PROVE  Plus(Plus(row, c, p), c, q) = Plus(row, c, p \union q)
  <1>1. Plus(row, c, p) # None
    BY PlusTyped, PayrollAssumption
  <1> QED
    BY <1>1 DEF Plus, Rows

\* The next line of a file is about a key.
LEMMA NextLine ==
    ASSUME TypeOK, NEW c \in Calls, line[c] < Len(file[c])
    PROVE  file[c][line[c] + 1] \in Keys /\ line[c] + 1 \in Nat
  <1>1. file[c] \in Seq(Keys) /\ line[c] \in Nat /\ Len(file[c]) \in Nat
    BY DEF TypeOK
  <1>2. line[c] + 1 \in 1..Len(file[c])
    BY <1>1
  <1> QED
    BY <1>1, <1>2

\* Every step keeps the types.
LEMMA TypedKept == ASSUME TypeOK, [Next]_vars PROVE TypeOK'
  <1> USE PayrollAssumption
  <1>1. ASSUME CreatePeriod \/ SubmitPeriod \/ ApprovePeriod \/ LockPeriod
        PROVE  TypeOK'
    BY <1>1 DEF TypeOK, CreatePeriod, SubmitPeriod, ApprovePeriod, LockPeriod,
       Advance, callVars
  <1>2. ASSUME NEW c \in Calls, CheckDraft(c) PROVE TypeOK'
    BY <1>2 DEF TypeOK, CheckDraft
  <1>3. ASSUME NEW c \in Calls, Rollback(c) PROVE TypeOK'
    BY <1>3, LeaveTyped DEF TypeOK, Rollback
  <1>4. ASSUME NEW c \in Calls, Commit(c) PROVE TypeOK'
    <2>1. rows' \in [Keys -> Rows \union {None}]
      BY <1>4, ViewTyped DEF Commit
    <2> QED
      BY <1>4, <2>1, LeaveTyped DEF TypeOK, Commit
  <1>5. ASSUME NEW c \in Calls, ImportLine(c) PROVE TypeOK'
    <2> DEFINE k == file[c][line[c] + 1]
    <2>1. k \in Keys /\ {<<c, line[c] + 1>>} \in SUBSET (Calls \X Nat)
      BY <1>5, NextLine DEF ImportLine
    <2>2. Plus(View(c, k), c, {<<c, line[c] + 1>>}) \in Rows
      BY <2>1, ViewTyped, PlusTyped
    <2> QED
      BY <1>5, <2>1, <2>2 DEF TypeOK, ImportLine
  <1>6. ASSUME NEW c \in Calls, NEW drivers \in SUBSET Drivers, StartDelete(c, drivers)
        PROVE  TypeOK'
    <2>1. [k \in Keys |-> IF rows[k] = None THEN None ELSE rows[k].by]
             \in [Keys -> Calls \union {None}]
      BY DEF TypeOK, Rows
    <2> QED
      BY <1>6, <2>1 DEF TypeOK, StartDelete
  <1>7. ASSUME NEW c \in Calls, NEW k \in Keys, DeleteRow(c, k) PROVE TypeOK'
    BY <1>7 DEF TypeOK, DeleteRow
  <1>8. ASSUME NEW c \in Calls, StartInsert(c) PROVE TypeOK'
    <2>1. counted[c] \X Computed \subseteq Keys
      BY DEF TypeOK, Keys
    <2> QED
      BY <1>8, <2>1 DEF TypeOK, StartInsert
  <1>9. ASSUME NEW c \in Calls, NEW k \in Keys, InsertRow(c, k) PROVE TypeOK'
    <2>1. [by |-> c, parts |-> {<<c, 0>>}] \in Rows
      BY DEF Rows
    <2> QED
      BY <1>9, <2>1 DEF TypeOK, InsertRow
  <1>10. CASE UNCHANGED vars
    BY <1>10 DEF TypeOK, vars, callVars
  <1> QED
    BY <1>1, <1>2, <1>3, <1>4, <1>5, <1>6, <1>7, <1>8, <1>9, <1>10
    DEF Next, Refuse, Fail, Duplicate

-----------------------------------------------------------------------------
\* One line more adds one summand to the key it is about.
LEMMA OneLineMore ==
    ASSUME NEW c, NEW k, NEW f, NEW n \in Nat
    PROVE  Lines(c, k, f, n + 1) =
               Lines(c, k, f, n) \union (IF f[n + 1] = k THEN {<<c, n + 1>>} ELSE {})
  <1>1. 1..(n + 1) = (1..n) \union {n + 1}
    OBVIOUS
  <1> QED
    BY <1>1 DEF Lines

\* Lines are summands with a number from 1 on: none looks like a computed one.
LEMMA LinesTyped ==
    ASSUME NEW c \in Calls, NEW k, NEW f, NEW n \in Nat
    PROVE  Lines(c, k, f, n) \subseteq Calls \X (Nat \ {0})
  BY DEF Lines

\* Who inserted a row is a call.
LEMMA Inserters ==
    ASSUME TypeOK
    PROVE  /\ \A k \in Keys : rows[k] # None => rows[k] \in Rows /\ rows[k].by \in Calls
           /\ \A c \in Calls, k \in Keys : seen[c][k] # None => seen[c][k] \in Calls
  BY DEF TypeOK, Rows

\* A call that fails leaves the variables as they were.
LEMMA RollbackKeeps ==
    ASSUME TypeOK, IInv, NEW c \in Calls, pc[c] # "committed", Rollback(c)
    PROVE  IInv'
  <1> USE PayrollAssumption DEF Rollback, Leave
  <1>1. /\ rows' = rows
        /\ pc'[c] = "failed" /\ mine'[c] = NoneWritten /\ seen'[c] = NoRowSeen
        /\ \A o \in Calls \ {c} :
              /\ pc'[o] = pc[o] /\ mine'[o] = mine[o] /\ seen'[o] = seen[o]
              /\ file'[o] = file[o] /\ line'[o] = line[o]
              /\ counted'[o] = counted[o] /\ todo'[o] = todo[o]
    BY DEF TypeOK
  <1> HIDE DEF Rollback, Leave
  <1>2. Phases'
    BY <1>1 DEF IInv, Phases
  <1>3. OneWriterPerKey'
    BY <1>1 DEF IInv, OneWriterPerKey, NoneWritten
  <1>4. Origins'
    <2>1. \A o \in Calls : pc[o] = "committed" => pc'[o] = "committed"
      BY <1>1
    <2>2. \A o \in Calls, k \in Keys : seen'[o][k] # None => seen'[o][k] = seen[o][k]
      BY <1>1 DEF NoRowSeen
    <2> QED
      BY <1>1, <2>1, <2>2, Inserters DEF IInv, Origins
  <1>5. ImportDrafts'
    <2> SUFFICES ASSUME NEW o \in Imports, pc'[o] = "checked", NEW k \in Keys
                 PROVE  mine'[o][k] = IF Lines(o, k, file'[o], line'[o]) = {}
                                      THEN Untouched
                                      ELSE Plus(rows'[k], o, Lines(o, k, file'[o], line'[o]))
      BY DEF ImportDrafts, Stored
    <2>1. o \in Calls \ {c}
      BY <1>1 DEF Calls
    <2>2. mine[o][k] = IF Lines(o, k, file[o], line[o]) = {} THEN Untouched
                       ELSE Plus(rows[k], o, Lines(o, k, file[o], line[o]))
      BY <1>1, <2>1 DEF IInv, ImportDrafts, Stored
    <2> QED
      BY <1>1, <2>1, <2>2
  <1>6. ComputationDrafts'
    BY <1>1 DEF IInv, ComputationDrafts, Inserted, ToDelete, Calls
  <1>7. SeenTogether'
    BY <1>1 DEF IInv, SeenTogether, NoRowSeen, Keys, Calls
  <1>8. ComputedTogether' /\ OneBase'
    BY <1>1 DEF IInv, ComputedTogether, OneBase
  <1> QED
    BY <1>2, <1>3, <1>4, <1>5, <1>6, <1>7, <1>8 DEF IInv

-----------------------------------------------------------------------------
\* An import that commits adds its lines.
LEMMA ImportCommit ==
    ASSUME TypeOK, IInv, NEW c \in Imports, Commit(c), NEW k \in Keys
    PROVE  /\ rows'[k] = IF LinesOf(c, k) = {} THEN rows[k]
                         ELSE Plus(rows[k], c, LinesOf(c, k))
           /\ LinesOf(c, k) \in SUBSET (Calls \X (Nat \ {0}))
  <1>1. c \in Calls /\ c \notin Computations
    BY PayrollAssumption DEF Calls
  <1>2. pc[c] = "checked" /\ line[c] = Len(file[c]) /\ line[c] \in Nat
    BY <1>1 DEF Commit, AtEnd, IInv, Phases, TypeOK
  <1>3. LinesOf(c, k) = Stored(c, k)
    BY <1>2 DEF LinesOf, Stored
  <1>4. rows'[k] = View(c, k)
    BY DEF Commit
  <1>5. mine[c][k] = IF Stored(c, k) = {} THEN Untouched
                     ELSE Plus(rows[k], c, Stored(c, k))
    BY <1>2 DEF IInv, ImportDrafts
  <1>6. Stored(c, k) \in SUBSET (Calls \X (Nat \ {0}))
    BY <1>1, <1>2, LinesTyped DEF Stored
  <1>7. Plus(rows[k], c, Stored(c, k)) # Untouched
    <2>1. rows[k] \in Rows \union {None} /\ Stored(c, k) \in SUBSET (Calls \X Nat)
      BY <1>6 DEF TypeOK
    <2> QED
      BY <1>1, <2>1, PlusTyped, PayrollAssumption
  <1> QED
    BY <1>3, <1>4, <1>5, <1>6, <1>7 DEF View

\* A computation that commits replaces what it saw, and touches nothing else.
LEMMA ComputationCommit ==
    ASSUME TypeOK, IInv, NEW c \in Computations, Commit(c), NEW k \in Keys
    PROVE  IF k \in counted[c] \X Computed
           THEN rows'[k] = [by |-> c, parts |-> {<<c, 0>>}]
           ELSE IF rows[k] # None /\ rows[k].by # seen[c][k]
           THEN rows'[k] = rows[k]
           ELSE rows'[k] = None
  <1>1. c \in Calls /\ c \notin Imports
    BY PayrollAssumption DEF Calls
  <1>2. pc[c] = "inserting" /\ todo[c] = {}
    BY <1>1 DEF Commit, AtEnd
  <1>3. Inserted(c) = counted[c] \X Computed /\ ToDelete(c) = {}
    BY <1>2 DEF Inserted, ToDelete
  <1>4. rows'[k] = View(c, k)
    BY DEF Commit
  <1>5. IF k \in Inserted(c) THEN mine[c][k] = [by |-> c, parts |-> {<<c, 0>>}]
        ELSE /\ mine[c][k] \in {None, Untouched}
             /\ k \in ToDelete(c) => mine[c][k] = Untouched
             /\ mine[c][k] = None => rows[k] # None /\ rows[k].by = seen[c][k]
             /\ mine[c][k] = Untouched /\ k \notin ToDelete(c) =>
                    rows[k] = None \/ rows[k].by # seen[c][k]
    BY <1>2 DEF IInv, ComputationDrafts
  <1>6. [by |-> c, parts |-> {<<c, 0>>}] # Untouched
    <2>1. [by |-> c, parts |-> {<<c, 0>>}] \in Rows
      BY <1>1 DEF Rows
    <2> QED
      BY <2>1, PayrollAssumption
  <1> QED
    BY <1>3, <1>4, <1>5, <1>6, PayrollAssumption DEF View

\* A commit changes only the keys of its call, the rows the others have
\* written stay as they are, and a new row is of the call that commits.
LEMMA CommitFrame ==
    ASSUME TypeOK, IInv, NEW c \in Calls, Commit(c)
    PROVE  /\ pc[c] # "committed" /\ pc'[c] = "committed"
           /\ mine'[c] = NoneWritten /\ seen'[c] = NoRowSeen
           /\ \A o \in Calls \ {c} :
                 /\ pc'[o] = pc[o] /\ mine'[o] = mine[o] /\ seen'[o] = seen[o]
                 /\ file'[o] = file[o] /\ line'[o] = line[o]
                 /\ counted'[o] = counted[o] /\ todo'[o] = todo[o]
           /\ \A o \in Calls \ {c}, k \in Keys :
                 mine[o][k] # Untouched => rows'[k] = rows[k]
           /\ \A k \in Keys : rows'[k] # None =>
                 rows'[k].by = c \/ (rows[k] # None /\ rows'[k].by = rows[k].by)
  <1>1. pc[c] # "committed"
    BY DEF Commit, AtEnd
  <1>2. /\ pc'[c] = "committed" /\ mine'[c] = NoneWritten /\ seen'[c] = NoRowSeen
        /\ \A o \in Calls \ {c} :
              /\ pc'[o] = pc[o] /\ mine'[o] = mine[o] /\ seen'[o] = seen[o]
              /\ file'[o] = file[o] /\ line'[o] = line[o]
              /\ counted'[o] = counted[o] /\ todo'[o] = todo[o]
    BY DEF TypeOK, Commit, Leave
  <1>3. ASSUME NEW o \in Calls \ {c}, NEW k \in Keys, mine[o][k] # Untouched
        PROVE  rows'[k] = rows[k]
    <2>1. mine[c][k] = Untouched
      BY <1>3 DEF IInv, OneWriterPerKey
    <2> QED
      BY <2>1 DEF Commit, View
  <1>4. ASSUME NEW k \in Keys, rows'[k] # None
        PROVE  rows'[k].by = c \/ (rows[k] # None /\ rows'[k].by = rows[k].by)
    <2>1. CASE c \in Imports
      <3>1. rows'[k] = rows[k] \/ rows'[k] = Plus(rows[k], c, LinesOf(c, k))
        BY <2>1, ImportCommit
      <3> QED
        BY <1>4, <3>1 DEF Plus
    <2>2. CASE c \in Computations
      <3>1. \/ rows'[k] = [by |-> c, parts |-> {<<c, 0>>}]
            \/ rows'[k] = rows[k]
            \/ rows'[k] = None
        BY <2>2, ComputationCommit
      <3> QED
        BY <1>4, <3>1
    <2> QED
      BY <2>1, <2>2 DEF Calls
  <1> QED
    BY <1>1, <1>2, <1>3, <1>4

\* A commit keeps the invariant: of the other calls' drafts because they have
\* written other keys, and of the rows because of what it replaces.
LEMMA CommitKeeps ==
    ASSUME TypeOK, IInv, NEW c \in Calls, Commit(c)
    PROVE  IInv'
  <1> USE PayrollAssumption
  <1>1. /\ pc[c] # "committed" /\ pc'[c] = "committed"
        /\ mine'[c] = NoneWritten /\ seen'[c] = NoRowSeen
        /\ \A o \in Calls \ {c} :
              /\ pc'[o] = pc[o] /\ mine'[o] = mine[o] /\ seen'[o] = seen[o]
              /\ file'[o] = file[o] /\ line'[o] = line[o]
              /\ counted'[o] = counted[o] /\ todo'[o] = todo[o]
        /\ \A o \in Calls \ {c}, k \in Keys :
              mine[o][k] # Untouched => rows'[k] = rows[k]
        /\ \A k \in Keys : rows'[k] # None =>
              rows'[k].by = c \/ (rows[k] # None /\ rows'[k].by = rows[k].by)
    BY CommitFrame
  <1>2. Phases'
    BY <1>1 DEF IInv, Phases
  <1>3. OneWriterPerKey'
    BY <1>1 DEF IInv, OneWriterPerKey, NoneWritten
  <1>4. Origins'
    <2>1. \A o \in Calls : pc[o] = "committed" => pc'[o] = "committed"
      BY <1>1
    <2>2. \A o \in Calls, k \in Keys : seen'[o][k] # None => seen'[o][k] = seen[o][k]
      BY <1>1 DEF NoRowSeen
    <2> QED
      BY <1>1, <2>1, <2>2, Inserters DEF IInv, Origins
  <1>5. ImportDrafts'
    <2> SUFFICES ASSUME NEW o \in Imports, pc'[o] = "checked", NEW k \in Keys
                 PROVE  mine'[o][k] =
                            IF Lines(o, k, file'[o], line'[o]) = {} THEN Untouched
                            ELSE Plus(rows'[k], o, Lines(o, k, file'[o], line'[o]))
      BY DEF ImportDrafts, Stored
    <2>1. /\ o \in Calls \ {c} /\ pc[o] = "checked"
          /\ file'[o] = file[o] /\ line'[o] = line[o] /\ line[o] \in Nat
      BY <1>1 DEF Calls, TypeOK
    <2>2. mine[o][k] = IF Lines(o, k, file[o], line[o]) = {} THEN Untouched
                       ELSE Plus(rows[k], o, Lines(o, k, file[o], line[o]))
      BY <2>1 DEF IInv, ImportDrafts, Stored
    <2>3. ASSUME Lines(o, k, file[o], line[o]) # {} PROVE mine[o][k] # Untouched
      <3>1. /\ rows[k] \in Rows \union {None}
            /\ Lines(o, k, file[o], line[o]) \in SUBSET (Calls \X Nat)
        BY <2>1, LinesTyped DEF TypeOK
      <3> QED
        BY <2>1, <2>2, <2>3, <3>1, PlusTyped
    <2> QED
      BY <1>1, <2>1, <2>2, <2>3
  <1>6. ComputationDrafts'
    <2> SUFFICES ASSUME NEW o \in Computations, pc'[o] \in {"deleting", "inserting"},
                        NEW k \in Keys
                 PROVE  IF k \in Inserted(o)'
                        THEN mine'[o][k] = [by |-> o, parts |-> {<<o, 0>>}]
                        ELSE /\ mine'[o][k] \in {None, Untouched}
                             /\ k \in ToDelete(o)' => mine'[o][k] = Untouched
                             /\ mine'[o][k] = None =>
                                   rows'[k] # None /\ rows'[k].by = seen'[o][k]
                             /\ mine'[o][k] = Untouched /\ k \notin ToDelete(o)' =>
                                   rows'[k] = None \/ rows'[k].by # seen'[o][k]
      BY DEF ComputationDrafts
    <2>1. o \in Calls \ {c} /\ pc[o] \in {"deleting", "inserting"}
      BY <1>1 DEF Calls
    <2>2. Inserted(o)' = Inserted(o) /\ ToDelete(o)' = ToDelete(o)
      BY <1>1, <2>1 DEF Inserted, ToDelete
    <2>3. seen[o][k] # c
      BY <1>1, <2>1 DEF IInv, Origins
    <2>4. IF k \in Inserted(o) THEN mine[o][k] = [by |-> o, parts |-> {<<o, 0>>}]
          ELSE /\ mine[o][k] \in {None, Untouched}
               /\ k \in ToDelete(o) => mine[o][k] = Untouched
               /\ mine[o][k] = None => rows[k] # None /\ rows[k].by = seen[o][k]
               /\ mine[o][k] = Untouched /\ k \notin ToDelete(o) =>
                     rows[k] = None \/ rows[k].by # seen[o][k]
      BY <2>1 DEF IInv, ComputationDrafts
    <2> QED
      BY <1>1, <2>1, <2>2, <2>3, <2>4
  <1>7. SeenTogether'
    BY <1>1 DEF IInv, SeenTogether, NoRowSeen, Keys, Calls
  <1>8. ComputedTogether'
    <2>1. CASE c \in Imports
      \* An import inserts rows of its own, which no computation inserted, and
      \* leaves who inserted the others.
      <3>1. c \notin Computations
        BY <2>1
      <3>2. \A k \in Keys : rows[k] # None => rows'[k] # None /\ rows'[k].by = rows[k].by
        <4> SUFFICES ASSUME NEW k \in Keys, rows[k] # None
                     PROVE  rows'[k] # None /\ rows'[k].by = rows[k].by
          OBVIOUS
        <4>1. rows'[k] = rows[k] \/ rows'[k] = Plus(rows[k], c, LinesOf(c, k))
          BY <2>1, ImportCommit
        <4>2. Plus(rows[k], c, LinesOf(c, k)) # None
          <5>1. rows[k] \in Rows /\ LinesOf(c, k) \in SUBSET (Calls \X Nat)
            BY <2>1, Inserters, ImportCommit
          <5> QED
            BY <5>1, PlusTyped
        <4> QED
          BY <4>1, <4>2 DEF Plus
      <3> QED
        BY <1>1, <3>1, <3>2 DEF IInv, ComputedTogether, Keys
    <2>2. CASE c \in Computations
      <3> SUFFICES ASSUME NEW d \in Drivers, NEW x \in Computed, NEW y \in Computed,
                          rows'[<<d, x>>] # None, rows'[<<d, x>>].by \in Computations
                   PROVE  /\ rows'[<<d, y>>] # None
                          /\ rows'[<<d, y>>].by = rows'[<<d, x>>].by
        BY DEF ComputedTogether
      <3>1. <<d, x>> \in Keys /\ <<d, y>> \in Keys
        BY DEF Keys
      <3>2. CASE d \in counted[c]
        <4>1. /\ rows'[<<d, x>>] = [by |-> c, parts |-> {<<c, 0>>}]
              /\ rows'[<<d, y>>] = [by |-> c, parts |-> {<<c, 0>>}]
          BY <2>2, <3>1, <3>2, ComputationCommit
        <4>2. [by |-> c, parts |-> {<<c, 0>>}] \in Rows
          BY DEF Rows
        <4> QED
          BY <4>1, <4>2
      <3>3. CASE d \notin counted[c]
        <4>1. /\ rows[<<d, x>>] # None /\ rows[<<d, x>>].by # seen[c][<<d, x>>]
              /\ rows'[<<d, x>>] = rows[<<d, x>>]
          BY <2>2, <3>1, <3>3, ComputationCommit
        <4>2. rows[<<d, y>>] # None /\ rows[<<d, y>>].by = rows[<<d, x>>].by
          BY <4>1 DEF IInv, ComputedTogether
        <4>3. rows[<<d, y>>].by # seen[c][<<d, y>>]
          BY <4>1, <4>2 DEF IInv, SeenTogether
        <4>4. rows'[<<d, y>>] = rows[<<d, y>>]
          BY <2>2, <3>1, <3>3, <4>2, <4>3, ComputationCommit
        <4> QED
          BY <4>1, <4>2, <4>4
      <3> QED
        BY <3>2, <3>3
    <2> QED
      BY <2>1, <2>2 DEF Calls
  <1>9. OneBase'
    <2> SUFFICES ASSUME NEW k \in Keys, rows'[k] # None
                 PROVE  {p \in rows'[k].parts : p[2] = 0} =
                            IF rows'[k].by \in Computations THEN {<<rows'[k].by, 0>>}
                            ELSE {}
      BY DEF OneBase
    <2>1. rows[k] # None => {p \in rows[k].parts : p[2] = 0} =
             IF rows[k].by \in Computations THEN {<<rows[k].by, 0>>} ELSE {}
      BY DEF IInv, OneBase
    <2>2. CASE rows'[k] = rows[k]
      BY <2>1, <2>2
    <2>3. CASE c \in Imports /\ rows'[k] # rows[k]
      <3>1. /\ LinesOf(c, k) \in SUBSET (Calls \X (Nat \ {0}))
            /\ rows'[k] = Plus(rows[k], c, LinesOf(c, k))
        BY <2>3, ImportCommit
      <3>2. \A p \in LinesOf(c, k) : p[2] # 0
        BY <3>1
      <3>3. CASE rows[k] = None
        BY <2>3, <3>1, <3>2, <3>3 DEF Plus
      <3>4. CASE rows[k] # None
        <4>1. /\ rows'[k].by = rows[k].by
              /\ {p \in rows'[k].parts : p[2] = 0} = {p \in rows[k].parts : p[2] = 0}
          BY <3>1, <3>2, <3>4 DEF Plus
        <4> QED
          BY <2>1, <3>4, <4>1
      <3> QED
        BY <3>3, <3>4
    <2>4. CASE c \in Computations /\ rows'[k] # rows[k]
      <3>1. rows'[k] = [by |-> c, parts |-> {<<c, 0>>}]
        BY <2>4, ComputationCommit
      <3> QED
        BY <2>4, <3>1
    <2> QED
      BY <2>2, <2>3, <2>4 DEF Calls
  <1> QED
    BY <1>2, <1>3, <1>4, <1>5, <1>6, <1>7, <1>8, <1>9 DEF IInv

-----------------------------------------------------------------------------
\* The other steps, which leave the committed rows alone.

\* A line is stored.
LEMMA ImportLineKeeps ==
    ASSUME TypeOK, IInv, NEW c \in Calls, ImportLine(c)
    PROVE  IInv'
  <1> USE PayrollAssumption
  <1> DEFINE k == file[c][line[c] + 1]
             new == {<<c, line[c] + 1>>}
  <1>1. /\ c \in Imports /\ c \notin Computations /\ pc[c] = "checked"
        /\ line[c] < Len(file[c]) /\ k \in Keys /\ line[c] \in Nat
        /\ new \in SUBSET (Calls \X Nat)
        /\ \A o \in Calls \ {c} : mine[o][k] = Untouched
        /\ UNCHANGED <<period, rows, pc, file, counted, seen, todo>>
        /\ line' = [line EXCEPT ![c] = @ + 1]
        /\ mine' = [mine EXCEPT ![c][k] = Plus(View(c, k), c, new)]
    BY NextLine DEF ImportLine, Free, TypeOK
  <1>2. /\ mine'[c][k] = Plus(View(c, k), c, new) /\ line'[c] = line[c] + 1
        /\ \A x \in Keys \ {k} : mine'[c][x] = mine[c][x]
        /\ \A o \in Calls \ {c} : mine'[o] = mine[o] /\ line'[o] = line[o]
    BY <1>1 DEF TypeOK
  <1>3. \A x \in Keys : Lines(c, x, file[c], line[c] + 1) =
            Lines(c, x, file[c], line[c]) \union (IF k = x THEN new ELSE {})
    BY <1>1, OneLineMore
  <1> HIDE DEF k, new
  <1>4. Phases'
    <2>1. line'[c] <= Len(file[c])
      BY <1>1, <1>2 DEF TypeOK
    <2> QED
      BY <1>1, <1>2, <2>1 DEF IInv, Phases
  <1>5. OneWriterPerKey'
    BY <1>1, <1>2 DEF IInv, OneWriterPerKey
  <1>6. Origins'
    BY <1>1 DEF IInv, Origins
  <1>7. ImportDrafts'
    <2> SUFFICES ASSUME NEW o \in Imports, pc'[o] = "checked", NEW x \in Keys
                 PROVE  mine'[o][x] =
                            IF Lines(o, x, file'[o], line'[o]) = {} THEN Untouched
                            ELSE Plus(rows'[x], o, Lines(o, x, file'[o], line'[o]))
      BY DEF ImportDrafts, Stored
    <2> rows' = rows /\ file' = file /\ pc[o] = "checked"
      BY <1>1
    <2>1. o \in Calls
      BY DEF Calls
    <2>2. mine[o][x] = IF Lines(o, x, file[o], line[o]) = {} THEN Untouched
                       ELSE Plus(rows[x], o, Lines(o, x, file[o], line[o]))
      BY DEF IInv, ImportDrafts, Stored
    <2>3. CASE o # c
      BY <1>2, <2>1, <2>2, <2>3
    <2>4. CASE o = c /\ x # k
      <3>1. Lines(c, x, file[c], line'[c]) = Lines(c, x, file[c], line[c])
        BY <1>2, <1>3, <2>4
      <3> QED
        BY <1>2, <2>2, <2>4, <3>1
    <2>5. CASE o = c /\ x = k
      <3>1. Lines(c, k, file[c], line'[c]) = Lines(c, k, file[c], line[c]) \union new
        BY <1>1, <1>2, <1>3
      <3>2. new # {}
        BY DEF new
      <3>3. mine'[c][k] = Plus(rows[k], c, Lines(c, k, file[c], line[c]) \union new)
        <4>1. CASE Lines(c, k, file[c], line[c]) = {}
          <5>1. View(c, k) = rows[k]
            BY <2>2, <2>5, <4>1 DEF View
          <5> QED
            BY <1>2, <4>1, <5>1
        <4>2. CASE Lines(c, k, file[c], line[c]) # {}
          <5>1. /\ rows[k] \in Rows \union {None}
                /\ Lines(c, k, file[c], line[c]) \in SUBSET (Calls \X Nat)
            BY <1>1, <2>1, <2>5, LinesTyped DEF TypeOK
          <5>2. View(c, k) = Plus(rows[k], c, Lines(c, k, file[c], line[c]))
            BY <2>1, <2>2, <2>5, <4>2, <5>1, PlusTyped DEF View
          <5> QED
            BY <1>1, <1>2, <5>1, <5>2, PlusTwice
        <4> QED
          BY <4>1, <4>2
      <3> QED
        BY <2>5, <3>1, <3>2, <3>3
    <2> QED
      BY <2>3, <2>4, <2>5
  <1>8. ComputationDrafts'
    BY <1>1, <1>2 DEF IInv, ComputationDrafts, Inserted, ToDelete, Calls
  <1>9. SeenTogether' /\ ComputedTogether' /\ OneBase'
    BY <1>1 DEF IInv, SeenTogether, ComputedTogether, OneBase
  <1> QED
    BY <1>4, <1>5, <1>6, <1>7, <1>8, <1>9 DEF IInv

\* A call begins.
LEMMA CheckDraftKeeps ==
    ASSUME TypeOK, IInv, NEW c \in Calls, CheckDraft(c)
    PROVE  IInv'
  <1> USE PayrollAssumption
  <1>1. /\ pc[c] = "start" /\ line[c] = 0 /\ mine[c] = NoneWritten
        /\ pc'[c] = "checked"
        /\ \A o \in Calls \ {c} : pc'[o] = pc[o] /\ file'[o] = file[o]
        /\ c \in Imports => file'[c] \in Seq(Keys)
        /\ UNCHANGED <<period, rows, line, counted, seen, todo, mine>>
    BY DEF CheckDraft, TypeOK, IInv, Phases
  <1>2. Phases'
    BY <1>1 DEF IInv, Phases
  <1>3. OneWriterPerKey' /\ SeenTogether' /\ ComputedTogether' /\ OneBase'
    BY <1>1 DEF IInv, OneWriterPerKey, SeenTogether, ComputedTogether, OneBase
  <1>4. Origins'
    <2>1. \A o \in Calls : pc[o] = "committed" => pc'[o] = "committed"
      BY <1>1
    <2> QED
      BY <1>1, <2>1, Inserters DEF IInv, Origins
  <1>5. ImportDrafts'
    <2> SUFFICES ASSUME NEW o \in Imports, pc'[o] = "checked", NEW k \in Keys
                 PROVE  mine'[o][k] =
                            IF Lines(o, k, file'[o], line'[o]) = {} THEN Untouched
                            ELSE Plus(rows'[k], o, Lines(o, k, file'[o], line'[o]))
      BY DEF ImportDrafts, Stored
    <2> rows' = rows /\ line' = line /\ mine' = mine
      BY <1>1
    <2>1. CASE o = c
      <3>1. Lines(o, k, file'[o], line[o]) = {}
        BY <1>1, <2>1 DEF Lines
      <3> QED
        BY <1>1, <2>1, <3>1 DEF NoneWritten
    <2>2. CASE o # c
      BY <1>1, <2>2 DEF IInv, ImportDrafts, Stored, Calls
    <2> QED
      BY <2>1, <2>2
  <1>6. ComputationDrafts'
    BY <1>1 DEF IInv, ComputationDrafts, Inserted, ToDelete, Calls
  <1> QED
    BY <1>2, <1>3, <1>4, <1>5, <1>6 DEF IInv

\* The DELETE of a computation starts: its snapshot holds the computed
\* variables of a driver together, because the table does.
LEMMA StartDeleteKeeps ==
    ASSUME TypeOK, IInv, NEW c \in Calls, NEW drivers \in SUBSET Drivers,
           StartDelete(c, drivers)
    PROVE  IInv'
  <1> USE PayrollAssumption
  <1>1. /\ c \in Computations /\ pc[c] = "checked" /\ mine[c] = NoneWritten
        /\ pc'[c] = "deleting" /\ todo'[c] = {k \in Keys : rows[k] # None}
        /\ seen'[c] = [k \in Keys |-> IF rows[k] = None THEN None ELSE rows[k].by]
        /\ \A o \in Calls \ {c} :
              /\ pc'[o] = pc[o] /\ counted'[o] = counted[o]
              /\ seen'[o] = seen[o] /\ todo'[o] = todo[o]
        /\ UNCHANGED <<period, rows, file, line, mine>>
    BY DEF StartDelete, TypeOK, IInv, Phases
  <1>2. Phases'
    BY <1>1 DEF IInv, Phases
  <1>3. OneWriterPerKey' /\ ComputedTogether' /\ OneBase'
    BY <1>1 DEF IInv, OneWriterPerKey, ComputedTogether, OneBase
  <1>4. Origins'
    <2>1. \A o \in Calls : pc[o] = "committed" => pc'[o] = "committed"
      BY <1>1
    <2>2. \A k \in Keys : seen'[c][k] # None => rows[k] # None /\ seen'[c][k] = rows[k].by
      BY <1>1
    <2> QED
      BY <1>1, <2>1, <2>2, Inserters DEF IInv, Origins
  <1>5. ImportDrafts'
    BY <1>1 DEF IInv, ImportDrafts, Stored, Calls
  <1>6. ComputationDrafts'
    <2> SUFFICES ASSUME NEW o \in Computations, pc'[o] \in {"deleting", "inserting"},
                        NEW k \in Keys
                 PROVE  IF k \in Inserted(o)'
                        THEN mine'[o][k] = [by |-> o, parts |-> {<<o, 0>>}]
                        ELSE /\ mine'[o][k] \in {None, Untouched}
                             /\ k \in ToDelete(o)' => mine'[o][k] = Untouched
                             /\ mine'[o][k] = None =>
                                   rows'[k] # None /\ rows'[k].by = seen'[o][k]
                             /\ mine'[o][k] = Untouched /\ k \notin ToDelete(o)' =>
                                   rows'[k] = None \/ rows'[k].by # seen'[o][k]
      BY DEF ComputationDrafts
    <2>1. CASE o = c
      BY <1>1, <2>1 DEF Inserted, ToDelete, NoneWritten
    <2>2. CASE o # c
      BY <1>1, <2>2 DEF IInv, ComputationDrafts, Inserted, ToDelete, Calls
    <2> QED
      BY <2>1, <2>2
  <1>7. SeenTogether'
    <2> SUFFICES ASSUME NEW o \in Calls, NEW d \in Drivers, NEW x \in Computed,
                        NEW y \in Computed, seen'[o][<<d, x>>] \in Computations
                 PROVE  seen'[o][<<d, y>>] = seen'[o][<<d, x>>]
      BY DEF SeenTogether
    <2>1. CASE o = c
      <3>1. <<d, x>> \in Keys /\ <<d, y>> \in Keys
        BY DEF Keys
      <3>2. rows[<<d, x>>] # None /\ seen'[c][<<d, x>>] = rows[<<d, x>>].by
        BY <1>1, <2>1, <3>1 DEF Calls
      <3>3. rows[<<d, y>>] # None /\ rows[<<d, y>>].by = rows[<<d, x>>].by
        BY <2>1, <3>2 DEF IInv, ComputedTogether
      <3> QED
        BY <1>1, <2>1, <3>1, <3>2, <3>3
    <2>2. CASE o # c
      BY <1>1, <2>2 DEF IInv, SeenTogether
    <2> QED
      BY <2>1, <2>2
  <1> QED
    BY <1>2, <1>3, <1>4, <1>5, <1>6, <1>7 DEF IInv

\* The DELETE comes to a row.
LEMMA DeleteRowKeeps ==
    ASSUME TypeOK, IInv, NEW c \in Calls, NEW k \in Keys, DeleteRow(c, k)
    PROVE  IInv'
  <1> USE PayrollAssumption
  <1>1. /\ c \in Computations /\ pc[c] = "deleting" /\ k \in todo[c]
        /\ \A o \in Calls \ {c} : mine[o][k] = Untouched
        /\ mine'[c][k] = (IF rows[k] # None /\ rows[k].by = seen[c][k] THEN None
                          ELSE mine[c][k])
        /\ \A x \in Keys \ {k} : mine'[c][x] = mine[c][x]
        /\ todo'[c] = todo[c] \ {k}
        /\ \A o \in Calls \ {c} : mine'[o] = mine[o] /\ todo'[o] = todo[o]
        /\ UNCHANGED <<period, rows, pc, file, line, counted, seen>>
    BY DEF DeleteRow, Free, TypeOK, IInv, Phases
  <1>2. Phases'
    BY <1>1 DEF IInv, Phases
  <1>3. OneWriterPerKey'
    BY <1>1 DEF IInv, OneWriterPerKey
  <1>4. Origins' /\ SeenTogether' /\ ComputedTogether' /\ OneBase'
    BY <1>1 DEF IInv, Origins, SeenTogether, ComputedTogether, OneBase
  <1>5. ImportDrafts'
    BY <1>1 DEF IInv, ImportDrafts, Stored, Calls
  <1>6. ComputationDrafts'
    BY <1>1 DEF IInv, ComputationDrafts, Inserted, ToDelete, Calls
  <1> QED
    BY <1>2, <1>3, <1>4, <1>5, <1>6 DEF IInv

\* The INSERTs begin.
LEMMA StartInsertKeeps ==
    ASSUME TypeOK, IInv, NEW c \in Calls, StartInsert(c)
    PROVE  IInv'
  <1> USE PayrollAssumption
  <1>1. /\ c \in Computations /\ pc[c] = "deleting" /\ todo[c] = {}
        /\ pc'[c] = "inserting" /\ todo'[c] = counted[c] \X Computed
        /\ \A o \in Calls \ {c} : pc'[o] = pc[o] /\ todo'[o] = todo[o]
        /\ UNCHANGED <<period, rows, file, line, counted, seen, mine>>
    BY DEF StartInsert, TypeOK, IInv, Phases
  <1>2. Phases'
    BY <1>1 DEF IInv, Phases
  <1>3. Origins'
    <2>1. \A o \in Calls : pc[o] = "committed" => pc'[o] = "committed"
      BY <1>1
    <2> QED
      BY <1>1, <2>1, Inserters DEF IInv, Origins
  <1>4. OneWriterPerKey' /\ SeenTogether' /\ ComputedTogether' /\ OneBase'
    BY <1>1 DEF IInv, OneWriterPerKey, SeenTogether, ComputedTogether, OneBase
  <1>5. ImportDrafts'
    BY <1>1 DEF IInv, ImportDrafts, Stored, Calls
  <1>6. ComputationDrafts'
    BY <1>1 DEF IInv, ComputationDrafts, Inserted, ToDelete, Calls
  <1> QED
    BY <1>2, <1>3, <1>4, <1>5, <1>6 DEF IInv

\* A variable is inserted.
LEMMA InsertRowKeeps ==
    ASSUME TypeOK, IInv, NEW c \in Calls, NEW k \in Keys, InsertRow(c, k)
    PROVE  IInv'
  <1> USE PayrollAssumption
  <1>1. /\ c \in Computations /\ pc[c] = "inserting" /\ k \in todo[c]
        /\ \A o \in Calls \ {c} : mine[o][k] = Untouched
        /\ mine'[c][k] = [by |-> c, parts |-> {<<c, 0>>}]
        /\ \A x \in Keys \ {k} : mine'[c][x] = mine[c][x]
        /\ todo'[c] = todo[c] \ {k}
        /\ \A o \in Calls \ {c} : mine'[o] = mine[o] /\ todo'[o] = todo[o]
        /\ UNCHANGED <<period, rows, pc, file, line, counted, seen>>
    BY DEF InsertRow, Free, TypeOK, IInv, Phases
  <1>2. Phases'
    BY <1>1 DEF IInv, Phases
  <1>3. OneWriterPerKey'
    BY <1>1 DEF IInv, OneWriterPerKey
  <1>4. Origins' /\ SeenTogether' /\ ComputedTogether' /\ OneBase'
    BY <1>1 DEF IInv, Origins, SeenTogether, ComputedTogether, OneBase
  <1>5. ImportDrafts'
    <2> SUFFICES ASSUME NEW o \in Imports, pc'[o] = "checked", NEW x \in Keys
                 PROVE  mine'[o][x] = IF Lines(o, x, file'[o], line'[o]) = {}
                                      THEN Untouched
                                      ELSE Plus(rows'[x], o, Lines(o, x, file'[o], line'[o]))
      BY DEF ImportDrafts, Stored
    <2>1. mine[o][x] = IF Lines(o, x, file[o], line[o]) = {} THEN Untouched
                       ELSE Plus(rows[x], o, Lines(o, x, file[o], line[o]))
      BY <1>1 DEF IInv, ImportDrafts, Stored
    <2>2. o \in Calls \ {c}
      BY <1>1 DEF Calls
    <2> QED
      BY <1>1, <2>1, <2>2
  <1>6. ComputationDrafts'
    <2>1. k \in counted[c] \X Computed
      BY <1>1 DEF IInv, Phases
    <2> SUFFICES ASSUME NEW o \in Computations, pc'[o] \in {"deleting", "inserting"},
                        NEW x \in Keys
                 PROVE  IF x \in Inserted(o)'
                        THEN mine'[o][x] = [by |-> o, parts |-> {<<o, 0>>}]
                        ELSE /\ mine'[o][x] \in {None, Untouched}
                             /\ x \in ToDelete(o)' => mine'[o][x] = Untouched
                             /\ mine'[o][x] = None =>
                                   rows'[x] # None /\ rows'[x].by = seen'[o][x]
                             /\ mine'[o][x] = Untouched /\ x \notin ToDelete(o)' =>
                                   rows'[x] = None \/ rows'[x].by # seen'[o][x]
      BY DEF ComputationDrafts
    <2>2. IF x \in Inserted(o) THEN mine[o][x] = [by |-> o, parts |-> {<<o, 0>>}]
          ELSE /\ mine[o][x] \in {None, Untouched}
               /\ x \in ToDelete(o) => mine[o][x] = Untouched
               /\ mine[o][x] = None => rows[x] # None /\ rows[x].by = seen[o][x]
               /\ mine[o][x] = Untouched /\ x \notin ToDelete(o) =>
                     rows[x] = None \/ rows[x].by # seen[o][x]
      BY <1>1 DEF IInv, ComputationDrafts
    <2>3. CASE o = c
      BY <1>1, <2>1, <2>2, <2>3 DEF Inserted, ToDelete
    <2>4. CASE o # c
      BY <1>1, <2>2, <2>4 DEF Inserted, ToDelete, Calls
    <2> QED
      BY <2>3, <2>4
  <1> QED
    BY <1>2, <1>3, <1>4, <1>5, <1>6 DEF IInv

\* Every step keeps the invariant.
LEMMA Kept == ASSUME TypeOK, IInv, [Next]_vars PROVE IInv'
  <1>1. ASSUME CreatePeriod \/ SubmitPeriod \/ ApprovePeriod \/ LockPeriod \/ UNCHANGED vars
        PROVE  IInv'
    <2>1. UNCHANGED <<rows, callVars>>
      BY <1>1 DEF CreatePeriod, SubmitPeriod, ApprovePeriod, LockPeriod, Advance, vars
    <2>2. Phases' /\ Origins' /\ OneWriterPerKey'
      BY <2>1 DEF callVars, IInv, Phases, Origins, OneWriterPerKey
    <2>3. ImportDrafts'
      BY <2>1 DEF callVars, IInv, ImportDrafts, Stored
    <2>4. ComputationDrafts'
      BY <2>1 DEF callVars, IInv, ComputationDrafts, Inserted, ToDelete
    <2>5. SeenTogether' /\ ComputedTogether' /\ OneBase'
      BY <2>1 DEF callVars, IInv, SeenTogether, ComputedTogether, OneBase
    <2> QED
      BY <2>2, <2>3, <2>4, <2>5 DEF IInv
  <1>2. ASSUME NEW c \in Calls, Refuse(c) \/ Fail(c) PROVE IInv'
    BY <1>2, RollbackKeeps DEF Refuse, Fail
  <1>3. ASSUME NEW c \in Calls, NEW k \in Keys, Duplicate(c, k) PROVE IInv'
    BY <1>3, RollbackKeeps DEF Duplicate
  <1> QED
    BY <1>1, <1>2, <1>3, CheckDraftKeeps, CommitKeeps, ImportLineKeeps,
       StartInsertKeeps, StartDeleteKeeps, DeleteRowKeeps, InsertRowKeeps
    DEF Next

\* The invariant holds for ever.
THEOREM Always == Spec => [](TypeOK /\ IInv)
  <1>1. TypeOK /\ IInv /\ [Next]_vars => (TypeOK /\ IInv)'
    BY TypedKept, Kept
  <1> QED
    BY InitHolds, <1>1, PTL DEF Spec

-----------------------------------------------------------------------------
\* Every variable has a value of its type.
THEOREM TypeCorrect == Spec => []TypeOK
  BY Always, PTL

\* No two transactions write one variable at a time.
THEOREM KeysAreExclusive == Spec => []OneWriterPerKey
  BY Always, PTL DEF IInv

\* The computed variables of a driver come from one computation, however many
\* computations and imports overlap.
THEOREM DriversAreComputedWhole == Spec => []ComputedTogether
  BY Always, PTL DEF IInv

\* A value has the computed summand of the row it is in, and no other.
THEOREM ValuesHaveOneBase == Spec => []OneBase
  BY Always, PTL DEF IInv

\* Only the commit of a call brings it to "committed".
LEMMA OnlyCommitCommits ==
    ASSUME TypeOK, NEW c \in Calls, [Next]_vars, Commits(c)
    PROVE  Commit(c)
  <1>1. ASSUME NEW o \in Calls, NEW outcome, Leave(o, outcome), outcome = "failed"
        PROVE  FALSE
    BY <1>1 DEF TypeOK, Leave, Commits
  <1>2. ASSUME NEW o \in Calls, Commit(o) PROVE Commit(c)
    BY <1>2 DEF TypeOK, Commit, Leave, Commits
  <1>3. ~UNCHANGED pc
    BY DEF Commits
  <1>4. ASSUME NEW o \in Calls PROVE ~CheckDraft(o) /\ ~StartInsert(o)
    BY DEF TypeOK, CheckDraft, StartInsert, Commits
  <1>5. ASSUME NEW o \in Calls, NEW drivers PROVE ~StartDelete(o, drivers)
    BY DEF TypeOK, StartDelete, Commits
  <1> QED
    BY <1>1, <1>2, <1>3, <1>4, <1>5
    DEF Next, vars, callVars, CreatePeriod, SubmitPeriod, ApprovePeriod, LockPeriod,
        Advance, Refuse, Fail, Rollback, ImportLine, DeleteRow, InsertRow, Duplicate

\* An import that commits adds each line of its file once, and nothing else.
THEOREM ImportsAddTheirFiles == Spec => ImportAddsItsFile
  <1> DEFINE Adds == \A c \in Imports : Commits(c) =>
                        \A k \in Keys :
                           rows'[k] = IF LinesOf(c, k) = {} THEN rows[k]
                                      ELSE Plus(rows[k], c, LinesOf(c, k))
  <1>1. ASSUME TypeOK, IInv, [Next]_vars, NEW c \in Imports, Commits(c), NEW k \in Keys
        PROVE  rows'[k] = IF LinesOf(c, k) = {} THEN rows[k]
                          ELSE Plus(rows[k], c, LinesOf(c, k))
    BY <1>1, OnlyCommitCommits, ImportCommit DEF Calls
  <1>2. TypeOK /\ IInv /\ [Next]_vars => Adds
    BY <1>1
  <1> QED
    BY <1>2, Always, PTL DEF Spec, ImportAddsItsFile

\* A computation that commits replaces what its DELETE saw, and nothing else.
THEOREM ComputationsReplace == Spec => RecomputationReplaces
  <1> DEFINE Replaces == \A c \in Computations : Commits(c) =>
                            \A k \in Keys :
                               IF k \in counted[c] \X Computed
                               THEN rows'[k] = [by |-> c, parts |-> {<<c, 0>>}]
                               ELSE IF rows[k] # None /\ rows[k].by # seen[c][k]
                               THEN rows'[k] = rows[k]
                               ELSE rows'[k] = None
  <1>1. ASSUME TypeOK, IInv, [Next]_vars, NEW c \in Computations, Commits(c),
               NEW k \in Keys
        PROVE  IF k \in counted[c] \X Computed
               THEN rows'[k] = [by |-> c, parts |-> {<<c, 0>>}]
               ELSE IF rows[k] # None /\ rows[k].by # seen[c][k]
               THEN rows'[k] = rows[k]
               ELSE rows'[k] = None
    BY <1>1, OnlyCommitCommits, ComputationCommit DEF Calls
  <1>2. TypeOK /\ IInv /\ [Next]_vars => Replaces
    BY <1>1
  <1> QED
    BY <1>2, Always, PTL DEF Spec, RecomputationReplaces

=============================================================================
